------------------------------ MODULE ClientNode -----------------------------
(***************************************************************************)
(* One client process: the console thread (client/client_console.h), which *)
(* publishes torrents, gets torrents and downloads files, and the upload   *)
(* side (client/multi_client.cpp), which answers the requests of other     *)
(* clients out of the same torrents vector and the same directory.         *)
(*                                                                         *)
(* Nothing but the order of the statements keeps the two apart.  The       *)
(* globals `instruction' and `tempsockfd' hand a request from the select   *)
(* loop to the thread that answers it.                                     *)
(*                                                                         *)
(* Module Downloader has the inside of a download; here pieces simply      *)
(* arrive.  Module Tracker has the slots of the select loop, which are the *)
(* same code; here they are the set `conns'.                               *)
(***************************************************************************)
EXTENDS Integers, Sequences, FiniteSets, Functions

CONSTANTS
  Peers,       \* downloaders elsewhere, with one connection each
  Own,         \* torrents this user publishes (command 2)
  Fetched,     \* torrents this user gets (command 4) and downloads (command 6)
  NP,          \* number of pieces of each
  MayBeStale,  \* torrents whose file name may be taken by an unrelated file
  PeerFaults,  \* may peers disappear at any time?
  Casts,       \* bound: which peers and torrents take part together, and in
               \* how many processes, one started after the end of the other
  MaxFetches,  \* bound: pieces a peer asks for
  MaxDownloads \* bound: commands 6 in one process

ASSUME NodeAssumption ==
  /\ IsFiniteSet(Peers)
  /\ IsFiniteSet(Own) /\ IsFiniteSet(Fetched)
  /\ Own \cap Fetched = {} /\ Own \union Fetched # {}
  /\ NP \in Nat \ {0}
  /\ MayBeStale \subseteq Fetched
  /\ PeerFaults \in BOOLEAN
  /\ Casts \subseteq [who : SUBSET (Peers \union Own \union Fetched),
                      lives : Nat \ {0}]
  /\ {MaxFetches, MaxDownloads} \subseteq Nat

Torrents == Own \union Fetched
Pieces == 1..NP

(* One piece of data: piece p of torrent t; the torrent file itself; or     *)
(* something else that has the name of the file.                            *)
Block(t, p) == [torrent |-> {t}, piece |-> p]
TorrentFile(t) == Block(t, 0)
Unrelated == [torrent |-> {}, piece |-> 0]
Whole(t) == [p \in Pieces |-> Block(t, p)]

(* The names a finished download of t can get: "name" and "name(1)". *)
Name(t) == <<t, 0>>
SecondName(t) == <<t, 1>>
Names == Torrents \X {0, 1}

(* Requests 17 (handshake), 18 (bitfield), 19 (request) and 20 (data). *)
Req(k, t, p) == [type |-> k, torrent |-> t, piece |-> p]
Request == [type : 17..20, torrent : Torrents, piece : 0..NP]
NoRequest == [type |-> 0]
None == <<>>

(* The reply to request r; val is a bitfield, a block of data or nothing. *)
Reply(r, v) == [to |-> r, val |-> v]

VARIABLES
  (* the console thread *)
  cpc,        \* where it is
  cur,        \* the torrent of the command
  idx,        \* the loop variable of the merge
  stage,      \* per piece of the download: 0, 1 data in its file, 2 done set
  outName,    \* the local file_name of downloader()
  downloads,  \* commands 6 so far in this process
  (* shared by the threads of the process *)
  torrents,   \* the vector
  status,     \* torrent->status
  done,       \* pieces with piece->done = 1
  (* the upload side *)
  upc,        \* main(): "select", "scan", "spawn" or, in pthread_join, "join"
  conns,      \* accepted connections
  rset,       \* readable connections the scan has still to look at
  instruction,
  tempsockfd,
  w,          \* the thread started for the request
  (* the directory *)
  pieceFile,  \* contents of "p.piece", <<>> when there is none
  out,        \* contents of the files in `present'
  present,
  (* the connections and the peers *)
  backlog,    \* connections not accepted yet
  up,         \* the request on its way to this process
  down,       \* the reply on its way to the peer
  ppc,        \* what each peer does
  ask,        \* its last request
  seen,       \* the bitfield it received
  fetches,    \* pieces it received
  (* the life of the process and what the properties refer to *)
  alive,
  lives,      \* processes to come, with this one
  cast,       \* the peers and torrents that take part
  listed,     \* torrents for which the tracker lists this client
  clean,      \* no piece files were left by the process before
  stale,      \* torrents whose name was taken when the process started
  known       \* peers whose torrent was in the vector when they sent `ask'

console == <<cpc, cur, idx, stage, outName, downloads>>
shared == <<torrents, status, done>>
main == <<upc, conns, rset, instruction, tempsockfd>>
disk == <<pieceFile, out, present>>
peer == <<ppc, ask, seen, fetches, known>>
net == <<backlog, up, down>>
life == <<alive, lives, cast, listed, clean, stale>>
vars == <<console, shared, main, w, disk, peer, net, life>>

(* The memory of a process that has just started. *)
Idle == [pc |-> "none", sock |-> None, req |-> NoRequest, low |-> {},
         st |-> 0, file |-> <<>>, steady |-> TRUE]

NoStage == [p \in Pieces |-> 0]
NoStatus == [t \in Torrents |-> 0]
NothingDone == [t \in Torrents |-> {}]
Anyone == CHOOSE t \in Torrents : TRUE

Init ==
  /\ cpc = "menu" /\ idx = 1 /\ downloads = 0
  /\ cur = Anyone /\ outName = Name(Anyone) /\ stage = NoStage
  /\ torrents = <<>> /\ status = NoStatus /\ done = NothingDone
  /\ upc = "select" /\ conns = {} /\ rset = {}
  /\ instruction = NoRequest /\ tempsockfd = None /\ w = Idle
  /\ \E c \in Casts : cast = c.who /\ lives = c.lives
  /\ stale \in SUBSET (MayBeStale \cap cast)
  /\ pieceFile = [p \in Pieces |-> <<>>]
  /\ present = {Name(t) : t \in Own \union stale}
  /\ out = [n \in Names |-> IF n \notin present THEN <<>>
                            ELSE IF n[1] \in Own THEN Whole(n[1])
                            ELSE <<Unrelated>>]
  /\ backlog = <<>>
  /\ up = [c \in Peers |-> <<>>]
  /\ down = [c \in Peers |-> <<>>]
  /\ ppc = [c \in Peers |-> "off"]
  /\ ask = [c \in Peers |-> NoRequest]
  /\ seen = [c \in Peers |-> {}]
  /\ fetches = [c \in Peers |-> 0]
  /\ known = {}
  /\ alive = TRUE /\ listed = {} /\ clean = TRUE

-----------------------------------------------------------------------------
(* The process ends: its connections go with it, its files stay, but for    *)
(* what the merge has not flushed yet.                                      *)
Flushed ==
  IF cpc \in {"merge", "remove"} /\ out[outName] # <<>>
  THEN {out, [out EXCEPT ![outName] = SubSeq(@, 1, Len(@) - 1)]}
  ELSE {out}

ProcessEnds ==
  /\ alive' = FALSE
  /\ out' \in Flushed
  /\ backlog' = <<>>
  /\ up' = [c \in Peers |-> <<>>]
  /\ down' = [c \in Peers |-> <<>>]
  /\ ppc' = [c \in Peers |-> "off"]
  /\ seen' = [c \in Peers |-> {}]
  /\ fetches' = [c \in Peers |-> 0]
  /\ known' = {}
  /\ UNCHANGED <<console, shared, main, pieceFile, present, ask, lives, cast,
                 listed, clean, stale>>

(* The process is started again, in the same directory.  It knows nothing;  *)
(* the tracker still lists it.                                              *)
Restart ==
  /\ ~alive
  /\ lives > 1
  /\ cpc' = "menu" /\ idx' = 1 /\ downloads' = 0
  /\ cur' = Anyone /\ outName' = Name(Anyone) /\ stage' = NoStage
  /\ torrents' = <<>> /\ status' = NoStatus /\ done' = NothingDone
  /\ upc' = "select" /\ conns' = {} /\ rset' = {}
  /\ instruction' = NoRequest /\ tempsockfd' = None /\ w' = Idle
  /\ alive' = TRUE
  /\ lives' = lives - 1
  /\ clean' = (\A p \in Pieces : pieceFile[p] = <<>>)
  /\ stale' = {t \in Fetched : Name(t) \in present /\ out[Name(t)] # Whole(t)}
  /\ UNCHANGED <<disk, peer, net, cast, listed>>

(* The user kills the client. *)
Kill ==
  /\ alive
  /\ lives > 1
  /\ w' = w
  /\ ProcessEnds

-----------------------------------------------------------------------------
(* The console thread *)

InVector(t) == t \in Range(torrents)

(* Is the console between two statements that belong together for a request *)
(* about piece p of t?  The vector is being extended; status is not set     *)
(* yet; the piece file is gone and status still 0.                          *)
Unsettled(t, p) ==
  \/ cpc = "growing"
  \/ cpc = "status" /\ t = cur
  \/ cpc \in {"merge", "remove"} /\ t = cur /\ p \in 1..idx - 1

(* Marks a request that was being answered when such a step came. *)
Answering == {"look", "reply", "status", "open", "read", "crash"}
Disturb(hit) ==
  w' = [w EXCEPT !.steady = @ /\ ~(w.pc \in Answering /\ hit)]
AboutCur == w.req.type # 0 /\ w.req.torrent = cur

(* Command 2, until the torrent file is sent: the tracker lists the torrent *)
(* when it accepts it; the pieces are complete; status is not initialised.  *)
Publish(t) ==
  /\ alive
  /\ cpc = "menu"
  /\ t \in Own \cap cast
  /\ ~InVector(t)
  /\ cur' = t
  /\ listed' = listed \union {t}
  /\ done' = [done EXCEPT ![t] = Pieces]
  /\ \E garbage \in {0, 1} : status' = [status EXCEPT ![t] = garbage]
  /\ cpc' = "push"
  /\ UNCHANGED <<idx, stage, outName, downloads, torrents, main, w, disk, peer,
                 net, alive, lives, cast, clean, stale>>

(* Command 4, until the torrent file is read. *)
GetTorrent(t) ==
  /\ alive
  /\ cpc = "menu"
  /\ t \in Fetched \cap cast
  /\ ~InVector(t)
  /\ cur' = t
  /\ listed' = listed \union {t}
  /\ status' = [status EXCEPT ![t] = 0]
  /\ done' = [done EXCEPT ![t] = {}]
  /\ cpc' = "push"
  /\ UNCHANGED <<idx, stage, outName, downloads, torrents, main, w, disk, peer,
                 net, alive, lives, cast, clean, stale>>

(* torrents.push_back begins ... *)
PushBack ==
  /\ alive
  /\ cpc = "push"
  /\ cpc' = "growing"
  /\ Disturb(w.pc = "look")
  /\ UNCHANGED <<cur, idx, stage, outName, downloads, shared, main, disk, peer,
                 net, life>>

(* ... and ends.  Command 2 sets status only now. *)
Pushed ==
  /\ alive
  /\ cpc = "growing"
  /\ torrents' = Append(torrents, cur)
  /\ cpc' = IF cur \in Own THEN "status" ELSE "menu"
  /\ UNCHANGED <<cur, idx, stage, outName, downloads, status, done, main, w,
                 disk, peer, net, life>>

SetStatus ==
  /\ alive
  /\ cpc = "status"
  /\ status' = [status EXCEPT ![cur] = 1]
  /\ cpc' = "menu"
  /\ UNCHANGED <<cur, idx, stage, outName, downloads, torrents, done, main, w,
                 disk, peer, net, life>>

(* Command 6: the threads of the download are started. *)
Download(t) ==
  /\ alive
  /\ cpc = "menu"
  /\ t \in Fetched
  /\ InVector(t)
  /\ downloads < MaxDownloads
  /\ downloads' = downloads + 1
  /\ cur' = t
  /\ stage' = [p \in Pieces |-> 0]
  /\ cpc' = "threads"
  /\ UNCHANGED <<idx, outName, shared, main, w, disk, peer, net, life>>

(* The thread of piece p has appended its data and closed the file ... *)
PieceArrives(p) ==
  /\ alive
  /\ cpc = "threads"
  /\ stage[p] = 0
  /\ pieceFile' = [pieceFile EXCEPT ![p] = Append(@, Block(cur, p))]
  /\ stage' = [stage EXCEPT ![p] = 1]
  /\ UNCHANGED <<cpc, cur, idx, outName, downloads, shared, main, w, out,
                 present, peer, net, life>>

(* Faulty variant: done before the data. *)
Arrived_NotYet(p) == stage[p] = 0

Arrived(p) == stage[p] = 1

(* Faulty variant: at(p_index) for at(p_index - 1). *)
Marked_Next(p) == p + 1

(* The entry of the pieces vector that piece p marks. *)
Marked(p) == p

(* ... and sets done. *)
PieceDone(p) ==
  /\ alive
  /\ cpc = "threads"
  /\ Arrived(p)
  /\ done' = [done EXCEPT ![cur] = @ \union {Marked(p)}]
  /\ stage' = [stage EXCEPT ![p] = 2]
  /\ UNCHANGED <<cpc, cur, idx, outName, downloads, torrents, status, main, w,
                 disk, peer, net, life>>

(* All threads are joined; access() decides the name; fopen() creates it.   *)
JoinAll ==
  /\ alive
  /\ cpc = "threads"
  /\ \A p \in Pieces : stage[p] = 2
  /\ outName' = IF Name(cur) \in present THEN SecondName(cur) ELSE Name(cur)
  /\ present' = present \union {outName'}
  /\ idx' = 1
  /\ cpc' = "merge"
  /\ UNCHANGED <<cur, stage, downloads, shared, main, w, pieceFile, out, peer,
                 net, life>>

(* One round of the merge: append the first 4 MB of the piece file ... *)
MergePiece ==
  /\ alive
  /\ cpc = "merge"
  /\ idx <= NP
  /\ out' = [out EXCEPT ![outName] = Append(@, Head(pieceFile[idx]))]
  /\ cpc' = "remove"
  /\ UNCHANGED <<cur, idx, stage, outName, downloads, shared, main, w,
                 pieceFile, present, peer, net, life>>

(* Faulty variant: the piece file is not removed. *)
Removed_Kept == pieceFile

Removed == [pieceFile EXCEPT ![idx] = <<>>]

(* ... and remove it. *)
RemovePiece ==
  /\ alive
  /\ cpc = "remove"
  /\ pieceFile' = Removed
  /\ idx' = idx + 1
  /\ cpc' = "merge"
  /\ Disturb(AboutCur /\ w.req.piece = idx)
  /\ UNCHANGED <<cur, stage, outName, downloads, shared, main, out, present,
                 peer, net, life>>

(* status = 1: from now on the uploader reads the file, not the pieces. *)
Complete ==
  /\ alive
  /\ cpc = "merge"
  /\ idx = NP + 1
  /\ status' = [status EXCEPT ![cur] = 1]
  /\ cpc' = "menu"
  /\ Disturb(AboutCur)
  /\ UNCHANGED <<cur, idx, stage, outName, downloads, torrents, done, main,
                 disk, peer, net, life>>

Console ==
  \/ \E t \in Torrents : Publish(t) \/ GetTorrent(t) \/ Download(t)
  \/ PushBack \/ Pushed \/ SetStatus
  \/ \E p \in Pieces : PieceArrives(p) \/ PieceDone(p)
  \/ JoinAll \/ MergePiece \/ RemovePiece \/ Complete

-----------------------------------------------------------------------------
(* The select loop of main() *)

(* A waiting connection is accepted, and nothing is read this time. *)
Accept ==
  /\ alive
  /\ upc = "select"
  /\ backlog # <<>>
  /\ conns' = conns \union {Head(backlog)}
  /\ backlog' = Tail(backlog)
  /\ UNCHANGED <<console, shared, upc, rset, instruction, tempsockfd, w, disk,
                 peer, up, down, life>>

Readable(c) == up[c] # <<>> \/ ppc[c] = "gone"

StartScan ==
  /\ alive
  /\ upc = "select"
  /\ backlog = <<>>
  /\ rset' = {c \in conns : Readable(c)}
  /\ rset' # {}
  /\ upc' = "scan"
  /\ UNCHANGED <<console, shared, conns, instruction, tempsockfd, w, disk, peer,
                 net, life>>

EndScan ==
  /\ alive
  /\ upc = "scan"
  /\ rset = {}
  /\ upc' = "select"
  /\ UNCHANGED <<console, shared, conns, rset, instruction, tempsockfd, w, disk,
                 peer, net, life>>

(* recv() into the global instruction, *)
RecvInstruction(c) ==
  /\ alive
  /\ upc = "scan"
  /\ c \in rset
  /\ up[c] # <<>>
  /\ instruction' = Head(up[c])
  /\ up' = [up EXCEPT ![c] = Tail(@)]
  /\ rset' = rset \ {c}
  /\ tempsockfd' = c
  /\ upc' = "spawn"
  /\ UNCHANGED <<console, shared, conns, w, disk, peer, backlog, down, life>>

(* and the thread that shall answer it. *)
Spawn ==
  /\ alive
  /\ upc = "spawn"
  /\ w' = [Idle EXCEPT !.pc = "start"]
  /\ upc' = "join"
  /\ UNCHANGED <<console, shared, conns, rset, instruction, tempsockfd, disk,
                 peer, net, life>>

(* Faulty variant: the thread is not joined. *)
Joined_AtOnce == TRUE

Joined == w.pc = "ended"

Join ==
  /\ alive
  /\ upc = "join"
  /\ Joined
  /\ upc' = "scan"
  /\ UNCHANGED <<console, shared, conns, rset, instruction, tempsockfd, w, disk,
                 peer, net, life>>

(* recv() returned 0 or -1: the slot is free again. *)
Disconnect(c) ==
  /\ alive
  /\ upc = "scan"
  /\ c \in rset
  /\ up[c] = <<>>
  /\ conns' = conns \ {c}
  /\ rset' = rset \ {c}
  /\ UNCHANGED <<console, shared, upc, instruction, tempsockfd, w, disk, peer,
                 net, life>>

Main ==
  \/ Accept \/ StartScan \/ EndScan \/ Spawn \/ Join
  \/ \E c \in Peers : RecvInstruction(c) \/ Disconnect(c)

-----------------------------------------------------------------------------
(* pthread_uploader *)

StartThread ==
  /\ alive
  /\ w.pc = "start"
  /\ w' = [w EXCEPT !.pc = "parse", !.sock = tempsockfd]
  /\ UNCHANGED <<console, shared, main, disk, peer, net, life>>

(* A request 19 is answered without a look at the torrents. *)
Parse ==
  /\ alive
  /\ w.pc = "parse"
  /\ w' = [w EXCEPT
             !.pc = IF instruction.type = 19 THEN "reply" ELSE "look",
             !.req = instruction,
             !.steady = ~Unsettled(instruction.torrent, instruction.piece)]
  /\ UNCHANGED <<console, shared, main, disk, peer, net, life>>

(* Faulty variant: the loop stops before the last torrent. *)
Finds_NotLast(t) == \E k \in 1..Len(torrents) - 1 : torrents[k] = t

(* The loop over the torrents. *)
Finds(t) == InVector(t)

Lookup ==
  /\ alive
  /\ w.pc = "look"
  /\ Finds(w.req.torrent)
  /\ w' = [w EXCEPT !.pc = IF w.req.type = 20 THEN "status" ELSE "reply",
                    !.low = done[w.req.torrent]]
  /\ UNCHANGED <<console, shared, main, disk, peer, net, life>>

(* The thread ends without an answer.  A peer whose request was disturbed   *)
(* no longer counts as known.                                               *)
EndsSilently ==
  /\ w' = [Idle EXCEPT !.pc = "ended"]
  /\ known' = IF w.steady THEN known ELSE known \ {w.sock}
  /\ UNCHANGED <<console, shared, main, disk, ppc, ask, seen, fetches, net, life>>

(* "invalid torrent id"; also possible while the vector is being extended. *)
LookupFails ==
  /\ alive
  /\ w.pc = "look"
  /\ ~Finds(w.req.torrent) \/ cpc = "growing"
  /\ EndsSilently

(* The vector is moved under the loop. *)
LookupRaces ==
  /\ alive
  /\ w.pc = "look"
  /\ cpc = "growing"
  /\ w' = [w EXCEPT !.pc = "crash"]
  /\ ProcessEnds

(* send(): what goes to a peer that is gone is lost. *)
Send(r) == down' = IF ppc[w.sock] = "gone" THEN down
                   ELSE [down EXCEPT ![w.sock] = Append(@, r)]

(* 71, 81 and 91.  The bitfield is put together bit by bit while threads of *)
(* the download set done.                                                   *)
SendReply ==
  /\ alive
  /\ w.pc = "reply"
  /\ IF w.req.type = 18
     THEN \E bits \in SUBSET Pieces :
            /\ w.low \subseteq bits
            /\ bits \subseteq done[w.req.torrent]
            /\ Send(Reply(w.req, bits))
     ELSE Send(Reply(w.req, <<>>))
  /\ w' = [Idle EXCEPT !.pc = "ended"]
  /\ UNCHANGED <<console, shared, main, disk, peer, backlog, up, life>>

(* Request 20 looks at status a first time to choose the file ... *)
ReadStatus ==
  /\ alive
  /\ w.pc = "status"
  /\ w' = [w EXCEPT !.pc = "open", !.st = status[w.req.torrent]]
  /\ UNCHANGED <<console, shared, main, disk, peer, net, life>>

(* piece->location: the piece file, or what command 2 put there. *)
Location(t, p) == IF t \in Own THEN <<TorrentFile(t)>> ELSE pieceFile[p]

ToOpen ==
  IF w.st = 1 THEN out[Name(w.req.torrent)]
              ELSE Location(w.req.torrent, w.req.piece)

CanOpen ==
  IF w.st = 1 THEN Name(w.req.torrent) \in present ELSE ToOpen # <<>>

OpenFile ==
  /\ alive
  /\ w.pc = "open"
  /\ CanOpen
  /\ w' = [w EXCEPT !.pc = "read", !.file = ToOpen]
  /\ UNCHANGED <<console, shared, main, disk, peer, net, life>>

(* fopen() returned NULL: fread() kills the process. *)
NoFile ==
  /\ alive
  /\ w.pc = "open"
  /\ ~CanOpen
  /\ w' = [w EXCEPT !.pc = "crash"]
  /\ ProcessEnds

(* ... and a second time to choose the block: the one with the piece's      *)
(* number in the file, the first one in a piece file.  (Faulty variant: the *)
(* loop of the freads starts at 1.)                                         *)
Which_ZeroBased(st, p) == IF st = 1 THEN p - 1 ELSE 1

Which(st, p) == IF st = 1 THEN p ELSE 1

BlockNo == Which(status[w.req.torrent], w.req.piece)

SendPiece ==
  /\ alive
  /\ w.pc = "read"
  /\ BlockNo \in DOMAIN w.file
  /\ Send(Reply(w.req, w.file[BlockNo]))
  /\ w' = [Idle EXCEPT !.pc = "ended"]
  /\ UNCHANGED <<console, shared, main, disk, peer, backlog, up, life>>

(* Nothing could be read: send() of 0 bytes. *)
SendNothing ==
  /\ alive
  /\ w.pc = "read"
  /\ BlockNo \notin DOMAIN w.file
  /\ EndsSilently

(* The peer went away while it is sent a piece: SIGPIPE. *)
BrokenPipe ==
  /\ alive
  /\ w.pc = "read"
  /\ ppc[w.sock] = "gone"
  /\ w' = [w EXCEPT !.pc = "pipe"]
  /\ ProcessEnds

Uploader ==
  \/ StartThread \/ Parse \/ Lookup \/ LookupFails \/ SendReply
  \/ ReadStatus \/ OpenFile \/ SendPiece \/ SendNothing
  \/ LookupRaces \/ NoFile \/ BrokenPipe

-----------------------------------------------------------------------------
(* The peers: the downloaders of other clients *)

(* connect() and request 17; the tracker named this client for t. *)
Connect(c, t) ==
  /\ alive
  /\ c \in cast
  /\ ppc[c] = "off"
  /\ t \in listed
  /\ backlog' = Append(backlog, c)
  /\ ask' = [ask EXCEPT ![c] = Req(17, t, 0)]
  /\ up' = [up EXCEPT ![c] = <<Req(17, t, 0)>>]
  /\ ppc' = [ppc EXCEPT ![c] = "wait"]
  /\ known' = IF InVector(t) THEN known \union {c} ELSE known \ {c}
  /\ UNCHANGED <<console, shared, main, w, disk, seen, fetches, down, life>>

(* The next request follows the reply: 18 the 71, 20 the 91. *)
Ask(c, r) ==
  /\ ask' = [ask EXCEPT ![c] = r]
  /\ up' = [up EXCEPT ![c] = <<r>>]
  /\ ppc' = [ppc EXCEPT ![c] = "wait"]
  /\ known' = IF InVector(r.torrent) THEN known \union {c} ELSE known \ {c}

Next71(c) ==
  /\ down[c] # <<>>
  /\ ask[c].type = 17
  /\ Ask(c, Req(18, ask[c].torrent, 0))
  /\ down' = [down EXCEPT ![c] = Tail(@)]
  /\ UNCHANGED <<console, shared, main, w, disk, seen, fetches, backlog, life>>

Next81(c) ==
  /\ down[c] # <<>>
  /\ ask[c].type = 18
  /\ seen' = [seen EXCEPT ![c] = Head(down[c]).val]
  /\ ppc' = [ppc EXCEPT ![c] = "choose"]
  /\ down' = [down EXCEPT ![c] = Tail(@)]
  /\ UNCHANGED <<console, shared, main, w, disk, ask, fetches, known, backlog,
                 up, life>>

Next91(c) ==
  /\ down[c] # <<>>
  /\ ask[c].type = 19
  /\ Ask(c, Req(20, ask[c].torrent, ask[c].piece))
  /\ down' = [down EXCEPT ![c] = Tail(@)]
  /\ UNCHANGED <<console, shared, main, w, disk, seen, fetches, backlog, life>>

NextData(c) ==
  /\ down[c] # <<>>
  /\ ask[c].type = 20
  /\ fetches' = [fetches EXCEPT ![c] = @ + 1]
  /\ ppc' = [ppc EXCEPT ![c] = "choose"]
  /\ down' = [down EXCEPT ![c] = Tail(@)]
  /\ UNCHANGED <<console, shared, main, w, disk, ask, seen, known, backlog, up,
                 life>>

(* A peer asks for pieces the bitfield announced. *)
Choose(c, p) ==
  /\ ppc[c] = "choose"
  /\ p \in seen[c]
  /\ fetches[c] < MaxFetches
  /\ Ask(c, Req(19, ask[c].torrent, p))
  /\ UNCHANGED <<console, shared, main, w, disk, seen, fetches, backlog, down,
                 life>>

(* A peer closes its connection, at the end or when it dies. *)
Leave(c) ==
  /\ ppc[c] = "choose" \/ (PeerFaults /\ ppc[c] = "wait")
  /\ ppc' = [ppc EXCEPT ![c] = "gone"]
  /\ down' = [down EXCEPT ![c] = <<>>]
  /\ UNCHANGED <<console, shared, main, w, disk, ask, seen, fetches, known,
                 backlog, up, life>>

Peer(c) ==
  \/ \E t \in Torrents : Connect(c, t)
  \/ ppc[c] = "wait" /\ (Next71(c) \/ Next81(c) \/ Next91(c) \/ NextData(c))
  \/ \E p \in Pieces : Choose(c, p)
  \/ Leave(c)

-----------------------------------------------------------------------------
Next ==
  \/ Console
  \/ Main
  \/ Uploader
  \/ Kill
  \/ Restart
  \/ \E c \in Peers : Peer(c)

Spec == Init /\ [][Next]_vars

(* The kernel runs the two threads of the upload side. *)
FairSpec == Spec /\ WF_vars(Main) /\ WF_vars(Uploader)
-----------------------------------------------------------------------------
(* Properties *)

BlockType == [torrent : SUBSET Torrents, piece : 0..NP]

ConsoleTyped ==
  /\ cpc \in {"menu", "push", "growing", "status", "threads", "merge", "remove"}
  /\ cur \in Torrents
  /\ idx \in 1..NP + 1
  /\ stage \in [Pieces -> 0..2]
  /\ outName \in Names
  /\ downloads \in 0..MaxDownloads
  /\ torrents \in Seq(Torrents)
  /\ status \in [Torrents -> {0, 1}]
  /\ done \in [Torrents -> SUBSET Pieces]

MainTyped ==
  /\ upc \in {"select", "scan", "spawn", "join"}
  /\ conns \subseteq Peers
  /\ rset \subseteq Peers
  /\ instruction \in Request \union {NoRequest}
  /\ tempsockfd \in Peers \union {None}
  /\ upc \in {"spawn", "join"} => instruction \in Request /\ tempsockfd \in Peers

WorkerTyped ==
  /\ w.pc \in Answering \union {"none", "start", "parse", "pipe", "ended"}
  /\ w.pc \in Answering \union {"parse"} => w.sock \in Peers
  /\ w.pc \in Answering => w.req \in Request

DiskTyped ==
  /\ pieceFile \in [Pieces -> Seq(BlockType)]
  /\ out \in [Names -> Seq(BlockType)]
  /\ present \subseteq Names

PeersTyped ==
  /\ backlog \in Seq(Peers)
  /\ ppc \in [Peers -> {"off", "wait", "choose", "gone"}]
  /\ \A c \in Peers :
       /\ Len(up[c]) + Len(down[c]) <= 1
       /\ ppc[c] # "off" => ask[c] \in Request
  /\ seen \in [Peers -> SUBSET Pieces]
  /\ fetches \in [Peers -> 0..MaxFetches]

(* Every variable keeps its type; a connection never holds more than one    *)
(* message, and the loop of the merge ends with the last piece.             *)
TypeOK == ConsoleTyped /\ MainTyped /\ WorkerTyped /\ DiskTyped /\ PeersTyped

(* What arrives at a peer answers the request it sent last: the globals     *)
(* instruction and tempsockfd never mix up two connections.                 *)
ReplyToAsker ==
  \A c \in Peers : down[c] # <<>> => Head(down[c]).to = ask[c]

(* Torrents whose files this process can rely on. *)
Sound(t) == clean /\ t \notin stale

(* A piece that is announced (done = 1) is complete in the directory: in    *)
(* its piece file, or at its place in the merged file.  The merge takes     *)
(* nothing away before it is elsewhere, and no piece file of one torrent is *)
(* left for the next, whose pieces have the same file names.                *)
DoneOnDisk ==
  alive =>
    \A t \in Torrents : Sound(t) =>
      \A p \in done[t] :
        \/ pieceFile[p] # <<>> /\ Head(pieceFile[p]) = Block(t, p)
        \/ \E n \in {Name(t), SecondName(t)} \cap present :
             p \in DOMAIN out[n] /\ out[n][p] = Block(t, p)

(* An undisturbed request 20 for a piece that was announced is answered     *)
(* with that piece, whatever the console does meanwhile for other torrents  *)
(* and other pieces: nothing else is sent, the read is never empty and      *)
(* never from a missing file.                                               *)
ServedRight ==
  w.pc \in Answering /\ w.req.type = 20 /\ w.steady /\ Sound(w.req.torrent) =>
    /\ w.pc # "crash"
    /\ w.pc = "read" =>
         /\ BlockNo \in DOMAIN w.file
         /\ w.file[BlockNo] = Block(w.req.torrent, w.req.piece)

(* A peer whose torrent was in the vector when it asked gets an answer,     *)
(* unless the request was disturbed or the process ends: accepting comes    *)
(* before serving and every thread is waited for, yet nobody waits for      *)
(* ever.                                                                    *)
Waiting(c) ==
  /\ ppc[c] = "wait" /\ down[c] = <<>>
  /\ c \in known /\ Sound(ask[c].torrent)

KnownAnswered == \A c \in Peers : Waiting(c) ~> ~Waiting(c)

-----------------------------------------------------------------------------
(* What the repository says and the code does not do *)

(* "then uploader response data" (design/communication_rule:144): asked for *)
(* a piece it announced, the uploader does not die of it.                   *)
AnnouncedServed ==
  ~(w.pc = "crash" /\ w.req.type = 20 /\ Sound(w.req.torrent))
=============================================================================
