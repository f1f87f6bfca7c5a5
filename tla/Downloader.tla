----------------------------- MODULE Downloader -----------------------------
(***************************************************************************)
(* Downloading one torrent: downloader() and pthread_downloader of         *)
(* client/client_console.h on one machine, and, at the other end of each   *)
(* connection, the uploader thread pthread_uploader of                     *)
(* client/multi_client.cpp.                                                *)
(*                                                                         *)
(* The main thread connects to every peer of the list, collects one        *)
(* bitfield per peer, opens one NAMED semaphore per peer, starts one       *)
(* thread per piece, joins them and merges the piece files.  Piece files,  *)
(* output files and named semaphores outlive the process; everything else  *)
(* is its memory.                                                          *)
(*                                                                         *)
(* Data is abstracted to chunks: one chunk is what one recv() returns.     *)
(***************************************************************************)
EXTENDS Integers, Sequences, FiniteSets

CONSTANTS
  NU,              \* size of torrent->peer_list->uploader_list
  NP,              \* torrent->piece_number
  K,               \* chunks of a full 4 MB piece
  L,               \* chunks of the last piece (0 when the size is a multiple of 4 MB)
  MaxRuns,         \* bound: how often the user starts a download
  Holdings,        \* the [Uploaders -> SUBSET Pieces] a behaviour may start from
  Slow,            \* peers on the tracker's list that do not hold the torrent yet
  UploaderFaults,  \* may an uploader process die?
  ProcessFaults    \* may this client be killed?

Uploaders == 1..NU
Pieces == 1..NP

ASSUME DownloaderAssumption ==
  /\ NU \in Nat \ {0}
  /\ NP \in Nat \ {0}
  /\ K \in Nat \ {0}
  /\ L \in 0..K
  /\ MaxRuns \in Nat
  /\ Holdings \subseteq [Uploaders -> SUBSET Pieces]
  /\ Slow \subseteq Uploaders
  /\ UploaderFaults \in BOOLEAN
  /\ ProcessFaults \in BOOLEAN

(* What travels on a connection: a request or reply named by its number in  *)
(* C_R.h, or (type 0) one chunk of piece data.                              *)
Types == {0, 17, 18, 19, 20, 71, 81, 91}
Wire == [type : Types, piece : 0..NP, chunk : 0..K]
Request == [type : {17, 18, 19, 20}, piece : 0..NP, chunk : {0}]
Msg(t, p) == [type |-> t, piece |-> p, chunk |-> 0]
Data(p, c) == [type |-> 0, piece |-> p, chunk |-> c]

(* What fread of one block returns at piece p of the whole file. *)
PieceLength(p) == IF p = NP THEN L ELSE K

(* Faulty variant: the special case of the last piece forgotten. *)
BlockSize_AllFull(p) == K

(* The block_size a thread waits for: 4096*1024 bytes, but for the last     *)
(* piece its recorded size.                                                 *)
BlockSize(p) == IF p = NP THEN L ELSE K

(* n chunks of piece p, the first one being chunk number c + 1. *)
Chunks(p, c, n) == [k \in 1..n |-> Data(p, c + k)]

(* Faulty variant: one chunk short. *)
Front_Short(s, n) == SubSeq(s, 1, IF Len(s) < n THEN Len(s) ELSE n - 1)

(* The first n chunks of a file: what one fread of n chunks returns. *)
Front(s, n) == SubSeq(s, 1, IF Len(s) < n THEN Len(s) ELSE n)

(* The two names the merged file can get. *)
Names == {"name", "name(1)"}

Absent == -1

VARIABLES
  pc,         \* where the console thread is in downloader()
  cur,        \* its loop index
  listed,     \* uploaders whose piece vector is filled (bitfield received)
  known,      \* the bitfields received
  have,       \* have[] of downloader()
  th,         \* one pthread_downloader per piece: pc, uploader, chunks received
  done,       \* pieces with done = 1 in memory
  status,     \* torrent->status
  outName,    \* the name the merge writes to
  toUp,       \* per connection: requests on their way to the uploader
  toDown,     \* per connection: replies and data on their way back
  alive,      \* uploader processes that run
  holds,      \* pieces each uploader can really serve
  knows,      \* uploaders that have the torrent in their vector
  sem,        \* named semaphore mutex[u]: Absent or its value (survives the process)
  pieceFile,  \* contents of "p.piece" (survives the process)
  out,        \* contents of the merged files (survive the process)
  present,    \* merged files that exist (survive the process)
  runs,       \* downloads started so far
  clean       \* history: did this download find no leftovers on disk?

mem == <<pc, cur, listed, known, have, th, done, status, outName>>
net == <<toUp, toDown, alive, knows>>
disk == <<sem, pieceFile, out, present>>
vars == <<mem, net, holds, disk, runs, clean>>

NoThread == [pc |-> "none", up |-> 0, got |-> 0]
Idle == [p \in Pieces |-> NoThread]
Silent == [u \in Uploaders |-> <<>>]

Init ==
  /\ pc = "off"
  /\ cur = 1
  /\ listed = {}
  /\ known = [u \in Uploaders |-> {}]
  /\ have = {}
  /\ th = Idle
  /\ done = {}
  /\ status = 0
  /\ outName = "name"
  /\ toUp = Silent
  /\ toDown = Silent
  /\ alive = Uploaders
  /\ holds \in Holdings
  /\ knows = Uploaders \ Slow
  /\ sem = [u \in Uploaders |-> Absent]
  /\ pieceFile = [p \in Pieces |-> <<>>]
  /\ out = [n \in Names |-> <<>>]
  /\ present = {}
  /\ runs = 0
  /\ clean = TRUE

-----------------------------------------------------------------------------
(* Helpers of the actions *)

(* send() puts a request on a connection; to a dead uploader it is lost.   *)
Send(u, m) ==
  toUp' = IF u \in alive THEN [toUp EXCEPT ![u] = Append(@, m)] ELSE toUp

(* The process is gone: its memory, threads and sockets with it. *)
ProcessEnds ==
  /\ pc' = "off"
  /\ cur' = 1
  /\ listed' = {}
  /\ known' = [u \in Uploaders |-> {}]
  /\ have' = {}
  /\ th' = Idle
  /\ done' = {}
  /\ status' = 0
  /\ outName' = "name"
  /\ toUp' = Silent
  /\ toDown' = Silent
  /\ UNCHANGED <<alive, knows, holds, disk, runs, clean>>

Leftovers == \/ \E p \in Pieces : pieceFile[p] # <<>>
             \/ \E u \in Uploaders : sem[u] # Absent
             \/ "name(1)" \in present

-----------------------------------------------------------------------------
(* The console thread: downloader() *)

(* The user types 6: in a fresh process, after commands 4 and 5 built the   *)
(* torrent and its peer list, or again in a process that has finished.      *)
Start ==
  /\ pc \in {"off", "done"}
  /\ runs < MaxRuns
  /\ pc' = "connect"
  /\ cur' = 1
  /\ have' = {}
  /\ th' = Idle
  /\ runs' = runs + 1
  /\ clean' = ~Leftovers
  /\ UNCHANGED <<listed, known, done, status, outName, net, holds, disk>>

(* connect() succeeds: send 17 and wait for 71. *)
ConnectAndShake ==
  /\ pc = "connect"
  /\ cur \in alive
  /\ Send(cur, Msg(17, 0))
  /\ pc' = "wait71"
  /\ UNCHANGED <<cur, listed, known, have, th, done, status, outName, toDown,
                 alive, knows, holds, disk, runs, clean>>

(* connect() fails: go on with the next peer, leaving its piece vector as it is. *)
ConnectFails ==
  /\ pc = "connect"
  /\ cur \in Uploaders \ alive
  /\ cur' = cur + 1
  /\ UNCHANGED <<pc, listed, known, have, th, done, status, outName, net,
                 holds, disk, runs, clean>>

(* send_request_17 gets its answer, send_request_18 sends the next request. *)
Recv71 ==
  /\ pc = "wait71"
  /\ toDown[cur] # <<>>
  /\ toDown' = [toDown EXCEPT ![cur] = Tail(@)]
  /\ Send(cur, Msg(18, 0))
  /\ pc' = "wait81"
  /\ UNCHANGED <<cur, listed, known, have, th, done, status, outName, alive,
                 knows, holds, disk, runs, clean>>

(* send_request_18 gets the bitfield and pushes one entry per piece behind  *)
(* those of an earlier download: the first ones are the ones that are read. *)
Recv81 ==
  /\ pc = "wait81"
  /\ toDown[cur] # <<>>
  /\ toDown' = [toDown EXCEPT ![cur] = Tail(@)]
  /\ known' = IF cur \in listed THEN known
                                ELSE [known EXCEPT ![cur] = holds[cur]]
  /\ listed' = listed \union {cur}
  /\ cur' = cur + 1
  /\ pc' = "connect"
  /\ UNCHANGED <<have, th, done, status, outName, toUp, alive, knows, holds,
                 disk, runs, clean>>

(* The peer dies during the handshake: recv() returns 0 or -1, no bitfield  *)
(* is stored and the loop goes on.                                          *)
HandshakeFails ==
  /\ pc \in {"wait71", "wait81"}
  /\ cur \notin alive
  /\ toDown[cur] = <<>>
  /\ cur' = cur + 1
  /\ pc' = "connect"
  /\ UNCHANGED <<listed, known, have, th, done, status, outName, net, holds,
                 disk, runs, clean>>

(* Faulty variant: room for two threads on one connection. *)
SemValue_Two == 2

(* The initial value handed to sem_open. *)
SemValue == 1

(* sem_open(O_CREAT) of every mutex[u]: creates it with value 1 or opens    *)
(* the one that is there, with the value it has.                            *)
OpenSems ==
  /\ pc = "connect"
  /\ cur = NU + 1
  /\ sem' = [u \in Uploaders |-> IF sem[u] = Absent THEN SemValue ELSE sem[u]]
  /\ cur' = 1
  /\ pc' = "assign"
  /\ UNCHANGED <<listed, known, have, th, done, status, outName, net, holds,
                 pieceFile, out, present, runs, clean>>

(* The peers whose bitfield claims piece p: they are counted. *)
Claims(p) == {u \in Uploaders : p \in known[u]}

(* Faulty variant: the index-- after the loop forgotten. *)
Choices_NotDecremented(p) ==
  LET marked == have \union Claims(p)
  IN  {u + 1 : u \in {w \in marked :
         Cardinality({v \in marked : v <= w}) <= Cardinality(Claims(p))}}

(* random_uploader = rand() % count, and the while loop walks have[] up to  *)
(* the entry of that rank.  have[] still holds the peers counted for the    *)
(* pieces before p.                                                         *)
Choices(p) ==
  LET marked == have \union Claims(p)
  IN  {u \in marked :
         Cardinality({v \in marked : v <= u}) <= Cardinality(Claims(p))}

(* One turn of the piece loop: count, choose an uploader, start the thread. *)
AssignPiece ==
  /\ pc = "assign"
  /\ cur \in Pieces
  /\ listed = Uploaders
  /\ Claims(cur) # {}
  /\ \E u \in Choices(cur) :
       th' = [th EXCEPT ![cur] = [pc |-> "sem_wait", up |-> u, got |-> 0]]
  /\ have' = have \union Claims(cur)
  /\ cur' = cur + 1
  /\ UNCHANGED <<pc, listed, known, done, status, outName, net, holds, disk,
                 runs, clean>>

(* "no one have this piece": exit(1), whatever the threads started so far   *)
(* are doing.                                                               *)
NoOneHas ==
  /\ pc = "assign"
  /\ cur \in Pieces
  /\ listed = Uploaders
  /\ Claims(cur) = {}
  /\ ProcessEnds

(* A peer without a bitfield: piece.at(i) throws, nobody catches it. *)
NoBitfield ==
  /\ pc = "assign"
  /\ cur \in Pieces
  /\ listed # Uploaders
  /\ ProcessEnds

(* Faulty variant: the join loop stops one thread early. *)
Joined_AllButLast == \A p \in Pieces : p < NP => th[p].pc = "ended"

Joined == \A p \in Pieces : th[p].pc = "ended"

(* pthread_join of every thread, sem_unlink, close of the sockets; then the *)
(* name of the output is chosen and it is opened for appending.             *)
JoinAll ==
  LET name == IF "name" \in present THEN "name(1)" ELSE "name"
  IN  /\ pc = "assign"
      /\ cur = NP + 1
      /\ Joined
      /\ sem' = [u \in Uploaders |-> Absent]
      /\ toUp' = Silent
      /\ toDown' = Silent
      /\ outName' = name
      /\ present' = present \union {name}
      /\ cur' = 1
      /\ pc' = "merge"
      /\ UNCHANGED <<listed, known, have, th, done, status, alive, knows,
                     holds, pieceFile, out, runs, clean>>

(* Append at most 4 MB of "cur.piece" to the output. *)
MergePiece ==
  /\ pc = "merge"
  /\ cur \in Pieces
  /\ out' = [out EXCEPT ![outName] = @ \o Front(pieceFile[cur], K)]
  /\ pc' = "remove"
  /\ UNCHANGED <<cur, listed, known, have, th, done, status, outName, net,
                 holds, sem, pieceFile, present, runs, clean>>

RemovePiece ==
  /\ pc = "remove"
  /\ pieceFile' = [pieceFile EXCEPT ![cur] = <<>>]
  /\ cur' = cur + 1
  /\ pc' = "merge"
  /\ UNCHANGED <<listed, known, have, th, done, status, outName, net, holds,
                 sem, out, present, runs, clean>>

(* Every piece is merged: status = 1 and back to the menu. *)
Complete ==
  /\ pc = "merge"
  /\ cur = NP + 1
  /\ status' = 1
  /\ pc' = "done"
  /\ UNCHANGED <<cur, listed, known, have, th, done, outName, net, holds, disk,
                 runs, clean>>

Main ==
  \/ ConnectAndShake
  \/ ConnectFails
  \/ Recv71
  \/ Recv81
  \/ HandshakeFails
  \/ OpenSems
  \/ AssignPiece
  \/ NoOneHas
  \/ NoBitfield
  \/ JoinAll
  \/ MergePiece
  \/ RemovePiece
  \/ Complete

-----------------------------------------------------------------------------
(* pthread_downloader for piece p *)

(* Faulty variant: the piece file named after the uploader. *)
PieceName_Uploader(p) == th[p].up

(* The file a thread appends to: sprintf("%d.piece", p_index). *)
PieceName(p) == p

(* sem_wait, fopen("p.piece", "ab"), send 19. *)
SemWait(p) ==
  LET u == th[p].up
  IN  /\ th[p].pc = "sem_wait"
      /\ sem[u] > 0
      /\ sem' = [sem EXCEPT ![u] = @ - 1]
      /\ Send(u, Msg(19, p))
      /\ th' = [th EXCEPT ![p].pc = "recv91"]
      /\ UNCHANGED <<pc, cur, listed, known, have, done, status, outName,
                     toDown, alive, knows, holds, pieceFile, out, present,
                     runs, clean>>

(* The reply is read and thrown away, whatever it is; send 20. *)
Recv91(p) ==
  LET u == th[p].up
  IN  /\ th[p].pc = "recv91"
      /\ toDown[u] # <<>>
      /\ toDown' = [toDown EXCEPT ![u] = Tail(@)]
      /\ Send(u, Msg(20, p))
      /\ th' = [th EXCEPT ![p].pc = "data"]
      /\ UNCHANGED <<pc, cur, listed, known, have, done, status, outName,
                     alive, knows, holds, disk, runs, clean>>

(* One turn of the receive loop: append what recv() returned. *)
RecvData(p) ==
  LET u == th[p].up
  IN  /\ th[p].pc = "data"
      /\ th[p].got < BlockSize(p)
      /\ toDown[u] # <<>>
      /\ pieceFile' = [pieceFile EXCEPT ![PieceName(p)] = Append(@, Head(toDown[u]))]
      /\ toDown' = [toDown EXCEPT ![u] = Tail(@)]
      /\ th' = [th EXCEPT ![p].got = @ + 1]
      /\ UNCHANGED <<pc, cur, listed, known, have, done, status, outName, toUp,
                     alive, knows, holds, sem, out, present, runs, clean>>

(* fclose, done = 1, sem_post: after the last chunk, or straight away when  *)
(* recv() of the 91 reply returned -1.                                      *)
Finish(p) ==
  LET u == th[p].up
  IN  /\ \/ th[p].pc = "data" /\ th[p].got = BlockSize(p)
         \/ th[p].pc = "recv91" /\ u \notin alive /\ toDown[u] = <<>>
      /\ done' = done \union {p}
      /\ sem' = [sem EXCEPT ![u] = @ + 1]
      /\ th' = [th EXCEPT ![p].pc = "ended"]
      /\ UNCHANGED <<pc, cur, listed, known, have, status, outName, net, holds,
                     pieceFile, out, present, runs, clean>>

(* The uploader is gone and recv() of the 91 reply returned 0: go on to the *)
(* receive loop, where recv() returns 0 for ever.                           *)
Recv91Nothing(p) ==
  LET u == th[p].up
  IN  /\ th[p].pc = "recv91"
      /\ u \notin alive
      /\ toDown[u] = <<>>
      /\ th' = [th EXCEPT ![p].pc = "data"]
      /\ UNCHANGED <<pc, cur, listed, known, have, done, status, outName, net,
                     holds, disk, runs, clean>>

Thread(p) ==
  \/ SemWait(p)
  \/ Recv91(p)
  \/ RecvData(p)
  \/ Finish(p)
  \/ Recv91Nothing(p)

(* send() to a reset connection raises SIGPIPE, and fwrite() of a length    *)
(* of -1 reads beyond the buffer: either kills the whole process.           *)
FatalSocketError ==
  /\ \/ pc \in {"wait71", "wait81"} /\ cur \notin alive
     \/ \E p \in Pieces : /\ th[p].pc \in {"sem_wait", "recv91", "data"}
                          /\ th[p].up \notin alive
  /\ ProcessEnds

-----------------------------------------------------------------------------
(* pthread_uploader at the other end *)

(* What the first request found in the receive buffer is answered with.     *)
(* 17 and 18: only for a torrent in the vector.  20: the piece; when this   *)
(* uploader does not have it, whatever part of it lies in its piece file.   *)
Replies(u, m) ==
  CASE m.type = 17 -> {IF u \in knows THEN <<Msg(71, 0)>> ELSE <<>>}
    [] m.type = 18 -> {IF u \in knows THEN <<Msg(81, 0)>> ELSE <<>>}
    [] m.type = 19 -> {<<Msg(91, m.piece)>>}
    [] m.type = 20 -> {Chunks(m.piece, 0, n) :
                         n \in IF m.piece \in holds[u] THEN {PieceLength(m.piece)}
                                                       ELSE 0..PieceLength(m.piece)}

(* recv() returns every request that has arrived, glued together; the JSON  *)
(* reader takes the first one and ignores the rest.                         *)
Serve(u) ==
  /\ u \in alive
  /\ toUp[u] # <<>>
  /\ \E n \in 1..Len(toUp[u]) :
       toUp' = [toUp EXCEPT ![u] = SubSeq(@, n + 1, Len(@))]
  /\ \E r \in Replies(u, Head(toUp[u])) :
       toDown' = [toDown EXCEPT ![u] = @ \o r]
  /\ UNCHANGED <<mem, alive, knows, holds, disk, runs, clean>>

(* Command 4 of a slow peer completes: the torrent enters its vector. *)
Learn(u) ==
  /\ u \in alive \ knows
  /\ knows' = knows \union {u}
  /\ UNCHANGED <<mem, toUp, toDown, alive, holds, disk, runs, clean>>

(* An uploader dies: because its user stopped it, or because it was asked   *)
(* for a piece it does not have and read from a NULL file.  A prefix of     *)
(* what it sent still arrives.                                              *)
UploaderDies(u) ==
  /\ u \in alive
  /\ \/ UploaderFaults
     \/ /\ toUp[u] # <<>>
        /\ Head(toUp[u]).type = 20
        /\ Head(toUp[u]).piece \notin holds[u]
  /\ alive' = alive \ {u}
  /\ toUp' = [toUp EXCEPT ![u] = <<>>]
  /\ \E n \in 0..Len(toDown[u]) : toDown' = [toDown EXCEPT ![u] = Front(@, n)]
  /\ UNCHANGED <<mem, knows, holds, disk, runs, clean>>

(* The client process is killed, or the user leaves with Ctrl-C. *)
Kill ==
  /\ ProcessFaults
  /\ pc # "off"
  /\ ProcessEnds

(* The user is finished. *)
Stop ==
  /\ pc \in {"off", "done"}
  /\ runs = MaxRuns
  /\ UNCHANGED vars

Next ==
  \/ Start
  \/ Main
  \/ \E p \in Pieces : Thread(p)
  \/ FatalSocketError
  \/ \E u \in Uploaders : Serve(u) \/ Learn(u) \/ UploaderDies(u)
  \/ Kill
  \/ Stop

Spec == Init /\ [][Next]_vars

(* The scheduler runs every thread that is ready, and the select loop of an *)
(* uploader answers every request; nothing forces a fault or a user.        *)
Fairness ==
  /\ WF_vars(Main)
  /\ \A p \in Pieces : WF_vars(Thread(p))
  /\ \A u \in Uploaders : WF_vars(Serve(u))

FairSpec == Spec /\ Fairness
-----------------------------------------------------------------------------
(* Properties *)

ThreadStates == {"none", "sem_wait", "recv91", "data", "ended"}

ConsoleTyped ==
  /\ pc \in {"off", "connect", "wait71", "wait81", "assign", "merge",
              "remove", "done"}
  /\ cur \in 1..(NU + NP + 1)
  /\ listed \subseteq Uploaders
  /\ known \in [Uploaders -> SUBSET Pieces]
  /\ have \subseteq Uploaders
  /\ done \subseteq Pieces
  /\ status \in {0, 1}
  /\ outName \in Names
  /\ runs \in 0..MaxRuns
  /\ clean \in BOOLEAN

ThreadsTyped ==
  /\ th \in [Pieces -> [pc : ThreadStates, up : 0..NU, got : 0..K]]
  /\ \A p \in Pieces : th[p].pc # "none" => th[p].up \in Uploaders

NetTyped ==
  /\ toUp \in [Uploaders -> Seq(Request)]
  /\ toDown \in [Uploaders -> Seq(Wire)]
  /\ alive \subseteq Uploaders
  /\ holds \in [Uploaders -> SUBSET Pieces]
  /\ knows \subseteq Uploaders

DiskTyped ==
  /\ sem \in [Uploaders -> {Absent, 0, 1}]
  /\ pieceFile \in [Pieces -> Seq(Wire)]
  /\ out \in [Names -> Seq(Wire)]
  /\ present \subseteq Names

(* Every variable keeps its type; above all, a thread's uploader is an      *)
(* entry of the peer list (the index-- after the while loop of downloader)  *)
(* and a named semaphore never exceeds 1.                                   *)
TypeOK == ConsoleTyped /\ ThreadsTyped /\ NetTyped /\ DiskTyped

(* A thread between its sem_wait and its sem_post. *)
InExchange(p) == th[p].pc \in {"recv91", "data"}

(* Threads that share an uploader share its socket: at most one of them is  *)
(* between sem_wait and sem_post, whatever crashes and restarts did to the  *)
(* named semaphore before.                                                  *)
OneExchange ==
  \A p, q \in Pieces :
    p # q /\ InExchange(p) /\ InExchange(q) => th[p].up # th[q].up

(* What a thread has appended to its piece file, behind anything an earlier *)
(* run left there, is the beginning of ITS piece in order: no reply meant   *)
(* for another thread and no 91 message ever gets into the file.            *)
InOrderAppend ==
  pc = "assign" =>
    \A p \in Pieces :
      LET f == pieceFile[p]
          g == th[p].got
      IN  /\ g <= Len(f)
          /\ \A k \in 1..g : f[Len(f) - g + k] = Data(p, k)

(* The file every full copy holds. *)
Whole == [k \in 1..(NP - 1) * K + L |->
            Data(((k - 1) \div K) + 1, ((k - 1) % K) + 1)]

(* A download that found no leftovers and during which no uploader died     *)
(* leaves exactly the file, whatever the interleaving of the threads, the   *)
(* holdings of the uploaders and the runs before it were.                   *)
FreshDownloadRight ==
  pc = "done" /\ clean /\ alive = Uploaders => out[outName] = Whole

(* From done = 1 on, a piece file is touched by the merge only. *)
DonePieceKept ==
  [][\A p \in Pieces :
       /\ th[p].pc = "ended"
       /\ pieceFile'[p] # pieceFile[p]
       => pc = "remove" /\ cur = p]_vars

(* With uploaders that stay up and hold everything, a started download      *)
(* completes: no thread waits for ever on a semaphore, a reply or a chunk.  *)
Completes == pc = "connect" ~> pc = "done"

-----------------------------------------------------------------------------
(* What the repository says and the code does not do *)

(* The uploader a thread is started with announced that piece: the bitfield *)
(* phase of design/communication_rule is there to choose by it.             *)
ChosenHolds ==
  \A p \in Pieces : th[p].pc = "sem_wait" => p \in known[th[p].up]

(* Every request 19 gets its reply 91 (request phase of                     *)
(* communication_rule), the uploaders being up and fair.                    *)
RequestAnswered ==
  \A p \in Pieces : th[p].pc = "recv91" ~> th[p].pc # "recv91"
=============================================================================
