-------------------------- MODULE ClientNodeProofs --------------------------
(***************************************************************************)
(* The safety of one client process, for any number of peers, torrents,    *)
(* pieces and processes one after the other: the answers of the upload     *)
(* thread reach who asked (ReplyToAsker), what is announced is on disk     *)
(* (DoneOnDisk), and a request the console does not disturb is answered    *)
(* with the piece it asked for (ServedRight).                              *)
(***************************************************************************)
EXTENDS ClientNode, SequenceTheorems, TLAPS

USE NodeAssumption

-----------------------------------------------------------------------------
(* The inductive invariant *)

Downloading == {"threads", "merge", "remove"}
Merging == {"merge", "remove"}

Worker == [pc : Answering \union {"none", "start", "parse", "pipe", "ended"},
           sock : Peers \union {None}, req : Request \union {NoRequest},
           low : SUBSET Pieces, st : {0, 1}, file : Seq(BlockType),
           steady : BOOLEAN]

ReplyValue == (SUBSET Pieces) \union BlockType \union {None}
ReplyType == [to : Request, val : ReplyValue]

(* Types of what TypeOK leaves out. *)
WireTyped ==
  /\ up \in [Peers -> Seq(Request)]
  /\ down \in [Peers -> Seq(ReplyType)]
  /\ ask \in [Peers -> Request \union {NoRequest}]
  /\ w \in Worker
  /\ alive \in BOOLEAN /\ clean \in BOOLEAN
  /\ stale \subseteq Fetched

(* TypeOK, but for what TalkOK says. *)
PeersSimple ==
  /\ backlog \in Seq(Peers)
  /\ ppc \in [Peers -> {"off", "wait", "choose", "gone"}]
  /\ seen \in [Peers -> SUBSET Pieces]
  /\ fetches \in [Peers -> 0..MaxFetches]

(* The console thread: what is in the vector while it is at which command,  *)
(* and that no thread and no round of the merge finds its piece file empty. *)
ConsoleOK ==
  /\ cpc \in {"push", "growing"} => ~InVector(cur)
  /\ cpc = "status" => cur \in Own
  /\ cpc \in Downloading => cur \in Fetched /\ InVector(cur)
  /\ cpc = "threads" => \A p \in Pieces : stage[p] # 0 => pieceFile[p] # <<>>
  /\ cpc \in Merging => \A p \in Pieces : p >= idx => pieceFile[p] # <<>>
  /\ cpc \in Merging => /\ outName \in {Name(cur), SecondName(cur)}
                        /\ outName \in present
                        /\ outName = SecondName(cur) => Name(cur) \in present
  /\ cpc = "remove" => idx <= NP
  /\ \A t \in Torrents :
       done[t] # {} => InVector(t) \/ (cpc \in {"push", "growing"} /\ t = cur)

(* The thread lives while main() is in pthread_join only, so that the       *)
(* globals are what it was started for.                                     *)
ThreadOK ==
  /\ alive => IF upc = "join"
              THEN w.pc \in {"start", "parse", "look", "reply", "status",
                             "open", "read", "ended"}
              ELSE w.pc \in {"none", "ended"}
  /\ w.pc \in Answering \union {"parse"} => w.sock = tempsockfd
  /\ w.pc \in Answering => w.req = instruction
  /\ w.pc \in {"status", "open", "read"} => w.req.type = 20

(* Is the request of c being answered? *)
InFlight(c) ==
  /\ alive
  /\ tempsockfd = c
  /\ upc = "spawn" \/ (upc = "join" /\ w.pc # "ended")

(* The reply to what c asked. *)
Fits(c, r) ==
  /\ r.to = ask[c]
  /\ ask[c].type = 18 => r.val \subseteq done[ask[c].torrent]

(* One request or one reply is on its way, or one is being answered. *)
TalkOK(c) ==
  /\ ppc[c] \in {"off", "choose"} =>
       up[c] = <<>> /\ down[c] = <<>> /\ ~InFlight(c)
  /\ up[c] # <<>> => up[c] = <<ask[c]>> /\ down[c] = <<>> /\ ~InFlight(c)
  /\ down[c] # <<>> => /\ ppc[c] = "wait" /\ ~InFlight(c)
                       /\ Len(down[c]) = 1 /\ Fits(c, down[c][1])
  /\ InFlight(c) => instruction = ask[c]

(* A peer asks for pieces that were announced. *)
AskOK(c) ==
  /\ ~alive => ppc[c] = "off"
  /\ ppc[c] = "off" => seen[c] = {}
  /\ ppc[c] # "off" =>
       /\ ask[c] \in Request
       /\ seen[c] \subseteq done[ask[c].torrent]
       /\ ask[c].type \in {19, 20} =>
            /\ ask[c].piece \in seen[c]
            /\ ppc[c] = "wait" => fetches[c] < MaxFetches

(* The directory.  Nobody writes to a published file; an open output file   *)
(* exists.                                                                  *)
NamesOK ==
  /\ \A n \in Names : n \notin present => out[n] = <<>>
  /\ \A t \in Own : Name(t) \in present /\ out[Name(t)] = Whole(t)

(* In a directory without leftovers the piece files are those of the        *)
(* download that goes on.                                                   *)
PieceFilesOK ==
  alive /\ clean =>
    \A p \in Pieces :
      pieceFile[p] = IF \/ cpc = "threads" /\ stage[p] # 0
                        \/ cpc \in Merging /\ p >= idx
                     THEN <<Block(cur, p)>> ELSE <<>>

(* Is the file "name" of t just put together? *)
Growing(t) == cpc \in Merging /\ cur = t /\ outName = Name(t)
Merged == IF cpc = "merge" THEN idx - 1 ELSE idx

(* The file of t is whole or what has been merged; status says so, and      *)
(* what is announced is in it, in the piece files or being moved.           *)
Placed(t) ==
  /\ Name(t) \in present =>
       out[Name(t)] = IF Growing(t) THEN [p \in 1..Merged |-> Block(t, p)]
                                    ELSE Whole(t)
  /\ status[t] = 1 => Name(t) \in present /\ ~Growing(t)
  /\ \A p \in done[t] :
       \/ status[t] = 1
       \/ cpc = "threads" /\ cur = t /\ stage[p] = 2
       \/ cpc \in Merging /\ cur = t

FilesOK == alive /\ clean => \A t \in Fetched \ stale : Placed(t)

PublishedOK ==
  \A t \in Own : InVector(t) /\ ~(cpc = "status" /\ cur = t) => status[t] = 1

(* A request for data that the console did not disturb.  What is opened or  *)
(* read is the piece asked for, and no statement of the console takes it    *)
(* away before the second look at status.                                   *)
Undisturbed ==
  w.pc \in Answering /\ w.req.type = 20 /\ w.steady /\ Sound(w.req.torrent)

ServedAt(t, p) ==
  /\ w.pc # "crash"
  /\ w.pc = "look" => cpc # "growing"
  /\ w.pc # "look" => InVector(t)
  /\ ~(cpc = "status" /\ t = cur)
  /\ cpc \in Merging /\ t = cur => p >= idx
  /\ w.pc \in {"open", "read"} => w.st = status[t]
  /\ w.pc = "read" => /\ Which(w.st, p) \in DOMAIN w.file
                      /\ w.file[Which(w.st, p)] = Block(t, p)

ServiceOK == Undisturbed => ServedAt(w.req.torrent, w.req.piece)

Inv ==
  /\ ConsoleTyped /\ MainTyped /\ WorkerTyped /\ DiskTyped
  /\ PeersSimple /\ WireTyped
  /\ ConsoleOK /\ ThreadOK
  /\ \A c \in Peers : TalkOK(c) /\ AskOK(c)
  /\ NamesOK /\ PieceFilesOK /\ FilesOK /\ PublishedOK
  /\ ServiceOK

-----------------------------------------------------------------------------
(* Names, records and blocks *)

LEMMA NameFacts ==
  /\ Own \subseteq Torrents /\ Fetched \subseteq Torrents
  /\ \A t \in Torrents : t \in Own <=> t \notin Fetched
  /\ \A t \in Torrents : Name(t) \in Names /\ SecondName(t) \in Names
  /\ \A t, v \in Torrents : Name(t) # SecondName(v)
  /\ \A t, v \in Torrents : Name(t) = Name(v) => t = v
  /\ \A n \in Names : n = <<n[1], n[2]>> /\ n[1] \in Torrents
  /\ Anyone \in Torrents
<1>1. Torrents # {}
  BY DEF NodeAssumption, Torrents
<1>2. Anyone \in Torrents
  BY <1>1 DEF Anyone
<1> QED
  BY <1>2 DEF NodeAssumption, Torrents, Name, SecondName, Names

LEMMA BlockFacts ==
  /\ \A t \in Torrents, p \in 0..NP : Block(t, p) \in BlockType
  /\ \A t \in Torrents : /\ Whole(t) \in Seq(BlockType)
                         /\ Len(Whole(t)) = NP
                         /\ DOMAIN Whole(t) = Pieces
                         /\ \A p \in Pieces : Whole(t)[p] = Block(t, p)
  /\ Unrelated \in BlockType
  /\ NP \in Nat /\ NP >= 1
<1>1. \A t \in Torrents, p \in 0..NP : Block(t, p) \in BlockType
  BY DEF Block, BlockType
<1>2. Unrelated \in BlockType
  BY DEF Unrelated, BlockType, NodeAssumption
<1>3. NP \in Nat /\ NP >= 1
  BY DEF NodeAssumption
<1>4. ASSUME NEW t \in Torrents
      PROVE  /\ Whole(t) \in Seq(BlockType) /\ Len(Whole(t)) = NP
             /\ DOMAIN Whole(t) = Pieces
             /\ \A p \in Pieces : Whole(t)[p] = Block(t, p)
  <2>1. Whole(t) \in [1..NP -> BlockType]
    BY <1>1, <1>3 DEF Whole, Pieces
  <2>2. Whole(t) \in Seq(BlockType) /\ Len(Whole(t)) = NP
    BY <1>3, <2>1, IsASeq, LenProperties
  <2> QED
    BY <2>2 DEF Whole, Pieces
<1> QED
  BY <1>1, <1>2, <1>3, <1>4

LEMMA RequestFacts ==
  /\ \A k \in 17..20, t \in Torrents, p \in 0..NP :
       /\ Req(k, t, p) \in Request
       /\ Req(k, t, p).type = k
       /\ Req(k, t, p).torrent = t
       /\ Req(k, t, p).piece = p
  /\ NoRequest \notin Request
  /\ NoRequest.type = 0
  /\ \A r \in Request : /\ r.type \in 17..20 /\ r.torrent \in Torrents
                        /\ r.piece \in 0..NP
  BY DEF Req, Request, NoRequest

LEMMA WorkerFacts ==
  /\ None \notin Peers => Idle \in Worker
  /\ Idle \in Worker
  /\ Idle.pc = "none"
  /\ [Idle EXCEPT !.pc = "start"] \in Worker
  /\ [Idle EXCEPT !.pc = "start"].pc = "start"
  /\ [Idle EXCEPT !.pc = "ended"] \in Worker
  /\ [Idle EXCEPT !.pc = "ended"].pc = "ended"
<1>1. <<>> \in Seq(BlockType)
  BY EmptySeq
<1> QED
  BY <1>1 DEF Idle, Worker, Answering, NoRequest, None

(* A vector that grows by cur has one element more. *)
LEMMA VectorGrows ==
  ASSUME torrents \in Seq(Torrents), cur \in Torrents,
         torrents' = Append(torrents, cur)
  PROVE  /\ torrents' \in Seq(Torrents)
         /\ \A t : InVector(t)' <=> InVector(t) \/ t = cur
<1>1. /\ Len(torrents) \in Nat /\ DOMAIN torrents = 1..Len(torrents)
      /\ Len(torrents') = Len(torrents) + 1
      /\ DOMAIN torrents' = 1..Len(torrents')
      /\ torrents' \in Seq(Torrents)
      /\ \A i \in 1..Len(torrents) : torrents'[i] = torrents[i]
      /\ torrents'[Len(torrents) + 1] = cur
  BY AppendProperties, LenProperties
<1> QED
  BY <1>1 DEF InVector, Range

(* One block more behind those of a file. *)
LEMMA BlockAppended ==
  ASSUME NEW f \in Seq(BlockType), NEW b \in BlockType
  PROVE  /\ Append(f, b) \in Seq(BlockType)
         /\ Append(f, b) # <<>>
         /\ Head(Append(f, b)) \in BlockType
<1>1. /\ Append(f, b) \in Seq(BlockType) /\ Len(Append(f, b)) = Len(f) + 1
      /\ Len(f) \in Nat
  BY AppendProperties, LenProperties
<1>2. Append(f, b) # <<>>
  BY <1>1, EmptySeq
<1> QED
  BY <1>1, <1>2, HeadTailProperties

-----------------------------------------------------------------------------
(* Who changes what *)

(* Only the console thread changes its own state, the shared memory, the    *)
(* piece files and the directory; a new process starts with new ones.       *)
LEMMA OnlyConsole ==
  ASSUME [Next]_vars, ~Console, ~Restart
  PROVE  UNCHANGED <<cpc, cur, idx, stage, outName, downloads, torrents, status,
                     done, pieceFile, present, clean, stale>>
<1>1. CASE Main
  BY <1>1 DEF Main, Accept, StartScan, EndScan, Spawn, Join, RecvInstruction,
              Disconnect, console, shared, disk, life
<1>2. CASE Uploader
  BY <1>2 DEF Uploader, StartThread, Parse, Lookup, LookupFails, SendReply,
              ReadStatus, OpenFile, SendPiece, SendNothing, LookupRaces, NoFile,
              BrokenPipe, EndsSilently, ProcessEnds, console, shared, disk, life
<1>3. CASE Kill
  BY <1>3 DEF Kill, ProcessEnds, console, shared
<1>4. CASE \E c \in Peers : Peer(c)
  BY <1>4 DEF Peer, Connect, Next71, Next81, Next91, NextData, Choose, Leave,
              console, shared, disk, life
<1>5. CASE UNCHANGED vars
  BY <1>5 DEF vars, console, shared, disk, life
<1> QED
  BY <1>1, <1>2, <1>3, <1>4, <1>5 DEF Next

(* The console thread changes no connection and nothing of the upload side  *)
(* but whether a request counts as disturbed.                               *)
LEMMA ConsoleAlone ==
  ASSUME Console, w \in Worker
  PROVE  /\ UNCHANGED <<upc, conns, rset, instruction, tempsockfd, ppc, ask, seen,
                        fetches, backlog, up, down, alive, clean, stale>>
         /\ \E b \in BOOLEAN : w' = [w EXCEPT !.steady = b]
<1>1. CASE PushBack \/ RemovePiece \/ Complete
  <2>1. UNCHANGED <<main, peer, net, alive, clean, stale>>
    BY <1>1 DEF PushBack, RemovePiece, Complete, life
  <2>2. ASSUME PushBack
        PROVE  \E b \in BOOLEAN : w' = [w EXCEPT !.steady = b]
    <3> DEFINE still == w.steady /\ ~(w.pc \in Answering /\ w.pc = "look")
    <3>1. still \in BOOLEAN
      OBVIOUS
    <3>2. w' = [w EXCEPT !.steady = still]
      BY <2>2 DEF PushBack, Disturb
    <3> HIDE DEF still
    <3> QED
      BY <3>1, <3>2
  <2>3. ASSUME RemovePiece
        PROVE  \E b \in BOOLEAN : w' = [w EXCEPT !.steady = b]
    <3> DEFINE still == w.steady /\ ~(w.pc \in Answering /\ AboutCur /\ w.req.piece = idx)
    <3>1. still \in BOOLEAN
      OBVIOUS
    <3>2. w' = [w EXCEPT !.steady = still]
      BY <2>3 DEF RemovePiece, Disturb
    <3> HIDE DEF still
    <3> QED
      BY <3>1, <3>2
  <2>4. ASSUME Complete
        PROVE  \E b \in BOOLEAN : w' = [w EXCEPT !.steady = b]
    <3> DEFINE still == w.steady /\ ~(w.pc \in Answering /\ AboutCur)
    <3>1. still \in BOOLEAN
      OBVIOUS
    <3>2. w' = [w EXCEPT !.steady = still]
      BY <2>4 DEF Complete, Disturb
    <3> HIDE DEF still
    <3> QED
      BY <3>1, <3>2
  <2> QED
    BY <1>1, <2>1, <2>2, <2>3, <2>4 DEF main, peer, net
<1>2. ASSUME UNCHANGED w PROVE \E b \in BOOLEAN : w' = [w EXCEPT !.steady = b]
  <2>1. w = [w EXCEPT !.steady = w.steady] /\ w.steady \in BOOLEAN
    BY DEF Worker
  <2> QED
    BY <1>2, <2>1
<1>3. CASE ~(PushBack \/ RemovePiece \/ Complete)
  <2>1. UNCHANGED <<main, w, peer, net, alive, clean, stale>>
    BY <1>3 DEF Console, Publish, GetTorrent, Download, Pushed, SetStatus,
                PieceArrives, PieceDone, JoinAll, MergePiece, life
  <2> QED
    BY <1>2, <2>1 DEF main, peer, net
<1> QED
  BY <1>1, <1>3

(* Only a process that ends loses data of an open file. *)
LEMMA OnlyMerge ==
  ASSUME [Next]_vars, ~Console
  PROVE  UNCHANGED out \/ (alive /\ ~alive' /\ out' \in Flushed)
<1>1. CASE Main
  BY <1>1 DEF Main, Accept, StartScan, EndScan, Spawn, Join, RecvInstruction,
              Disconnect, disk
<1>2. CASE Uploader
  BY <1>2 DEF Uploader, StartThread, Parse, Lookup, LookupFails, SendReply,
              ReadStatus, OpenFile, SendPiece, SendNothing, LookupRaces, NoFile,
              BrokenPipe, EndsSilently, ProcessEnds, disk
<1>3. CASE Kill
  BY <1>3 DEF Kill, ProcessEnds
<1>4. CASE (\E c \in Peers : Peer(c)) \/ Restart
  BY <1>4 DEF Peer, Connect, Next71, Next81, Next91, NextData, Choose, Leave,
              Restart, disk
<1>5. CASE UNCHANGED vars
  BY <1>5 DEF vars, disk
<1> QED
  BY <1>1, <1>2, <1>3, <1>4, <1>5 DEF Next
-----------------------------------------------------------------------------
(* The request being answered *)

(* The thread answers the last request of the peer it has the socket of,    *)
(* and a piece asked for was announced.                                     *)
LEMMA RequestServed ==
  ASSUME Inv, alive, w.pc \in Answering
  PROVE  /\ upc = "join" /\ w.sock = tempsockfd /\ w.sock \in Peers
         /\ InFlight(w.sock)
         /\ w.req = instruction /\ w.req = ask[w.sock] /\ w.req \in Request
         /\ up[w.sock] = <<>> /\ down[w.sock] = <<>>
         /\ ppc[w.sock] \in {"wait", "gone"}
         /\ w.req.type \in {19, 20} => w.req.piece \in done[w.req.torrent]
<1>1. ThreadOK /\ WorkerTyped /\ MainTyped /\ PeersSimple
  BY DEF Inv
<1>2. upc = "join" /\ w.sock = tempsockfd /\ w.req = instruction /\ w.sock \in Peers
  BY <1>1 DEF ThreadOK, Answering, WorkerTyped
<1>3. InFlight(w.sock)
  BY <1>2 DEF InFlight, Answering
<1>4. TalkOK(w.sock) /\ AskOK(w.sock)
  BY <1>2 DEF Inv
<1>5. ppc[w.sock] \in {"wait", "gone"} /\ w.req = ask[w.sock]
  BY <1>1, <1>2, <1>3, <1>4 DEF TalkOK, PeersSimple
<1>6. up[w.sock] = <<>> /\ down[w.sock] = <<>>
  BY <1>3, <1>4 DEF TalkOK
<1>7. w.req \in Request
  BY <1>1 DEF WorkerTyped
<1>8. w.req.type \in {19, 20} => w.req.piece \in done[w.req.torrent]
  BY <1>4, <1>5 DEF AskOK
<1> QED
  BY <1>2, <1>3, <1>5, <1>6, <1>7, <1>8

LEMMA PieceAsked ==
  ASSUME Inv, alive, w.pc \in Answering, w.req.type = 20
  PROVE  w.req.piece \in Pieces /\ w.req.piece \in done[w.req.torrent]
<1>1. w.req.piece \in done[w.req.torrent] /\ w.req \in Request
  BY RequestServed
<1>2. done[w.req.torrent] \subseteq Pieces
  BY <1>1, RequestFacts DEF Inv, ConsoleTyped
<1> QED
  BY <1>1, <1>2

-----------------------------------------------------------------------------
(* Types *)

LEMMA StepConsoleTyped ==
  ASSUME Inv, [Next]_vars
  PROVE  ConsoleTyped'
<1>1. ConsoleTyped /\ ConsoleOK
  BY DEF Inv
<1>2. NP \in Nat \ {0} /\ MaxDownloads \in Nat
  BY DEF NodeAssumption
<1>3. CASE \E t \in Torrents : Publish(t) \/ GetTorrent(t) \/ Download(t)
  <2>1. PICK t \in Torrents : Publish(t) \/ GetTorrent(t) \/ Download(t)
    BY <1>3
  <2>2. CASE Publish(t)
    BY <1>1, <2>2 DEF Publish, ConsoleTyped
  <2>3. CASE GetTorrent(t)
    BY <1>1, <2>3 DEF GetTorrent, ConsoleTyped
  <2>4. CASE Download(t)
    BY <1>1, <1>2, <2>4 DEF Download, ConsoleTyped, shared
  <2> QED
    BY <2>1, <2>2, <2>3, <2>4
<1>4. CASE PushBack \/ SetStatus
  BY <1>1, <1>4 DEF PushBack, SetStatus, ConsoleTyped, shared
<1>5. CASE Pushed
  BY <1>1, <1>5, VectorGrows DEF Pushed, ConsoleTyped
<1>6. CASE \E p \in Pieces : PieceArrives(p) \/ PieceDone(p)
  BY <1>1, <1>6 DEF PieceArrives, PieceDone, Marked, ConsoleTyped, shared
<1>7. CASE JoinAll
  BY <1>1, <1>2, <1>7, NameFacts DEF JoinAll, ConsoleTyped, shared
<1>8. CASE MergePiece
  BY <1>1, <1>8 DEF MergePiece, ConsoleTyped, shared
<1>9. CASE RemovePiece
  BY <1>1, <1>2, <1>9 DEF RemovePiece, ConsoleTyped, ConsoleOK, shared
<1>10. CASE Complete
  BY <1>1, <1>10 DEF Complete, ConsoleTyped
<1>11. CASE Restart
  BY <1>2, <1>11, NameFacts, EmptySeq
  DEF Restart, ConsoleTyped, NoStage, NoStatus, NothingDone, Pieces
<1>12. CASE ~Console /\ ~Restart
  BY <1>1, <1>12, OnlyConsole DEF ConsoleTyped
<1> QED
  BY <1>3, <1>4, <1>5, <1>6, <1>7, <1>8, <1>9, <1>10, <1>11, <1>12 DEF Console

LEMMA StepDiskTyped ==
  ASSUME Inv, [Next]_vars
  PROVE  DiskTyped'
<1>1. DiskTyped /\ ConsoleTyped /\ ConsoleOK
  BY DEF Inv
<1>2. NP \in Nat \ {0}
  BY DEF NodeAssumption
<1>3. CASE \E p \in Pieces : PieceArrives(p)
  <2>1. PICK p \in Pieces : PieceArrives(p)
    BY <1>3
  <2>2. Append(pieceFile[p], Block(cur, p)) \in Seq(BlockType)
    BY <1>1, BlockFacts, BlockAppended DEF ConsoleTyped, DiskTyped, Pieces
  <2> QED
    BY <1>1, <2>1, <2>2 DEF PieceArrives, DiskTyped
<1>4. CASE JoinAll
  BY <1>1, <1>4, NameFacts DEF JoinAll, DiskTyped, ConsoleTyped
<1>5. CASE MergePiece
  <2>1. idx \in Pieces /\ pieceFile[idx] # <<>> /\ outName \in Names
    BY <1>1, <1>2, <1>5 DEF MergePiece, ConsoleTyped, ConsoleOK, Merging, Pieces
  <2>2. Head(pieceFile[idx]) \in BlockType
    BY <1>1, <2>1, HeadTailProperties DEF DiskTyped
  <2>3. Append(out[outName], Head(pieceFile[idx])) \in Seq(BlockType)
    BY <1>1, <2>1, <2>2, BlockAppended DEF DiskTyped
  <2> QED
    BY <1>1, <1>5, <2>3 DEF MergePiece, DiskTyped
<1>6. CASE RemovePiece
  <2>1. <<>> \in Seq(BlockType)
    BY EmptySeq
  <2> QED
    BY <1>1, <1>6, <2>1 DEF RemovePiece, Removed, DiskTyped
<1>7. ASSUME UNCHANGED <<pieceFile, present>>, out' \in Flushed
      PROVE  DiskTyped'
  <2>1. CASE out' = out
    BY <1>1, <1>7, <2>1 DEF DiskTyped
  <2>2. CASE out' # out
    <3>1. /\ cpc \in {"merge", "remove"} /\ out[outName] # <<>>
          /\ out' = [out EXCEPT ![outName] = SubSeq(@, 1, Len(@) - 1)]
      BY <1>7, <2>2 DEF Flushed
    <3>2. outName \in Names /\ out[outName] \in Seq(BlockType)
      BY <1>1 DEF ConsoleTyped, DiskTyped
    <3>3. SubSeq(out[outName], 1, Len(out[outName]) - 1) \in Seq(BlockType)
      BY <3>2, LenProperties, SubSeqProperties
    <3> QED
      BY <1>1, <1>7, <3>1, <3>2, <3>3 DEF DiskTyped
  <2> QED
    BY <2>1, <2>2
<1>8. CASE \/ \E t \in Torrents : Publish(t) \/ GetTorrent(t) \/ Download(t)
           \/ PushBack \/ Pushed \/ SetStatus \/ Complete
           \/ \E p \in Pieces : PieceDone(p)
  <2>1. UNCHANGED disk
    BY <1>8 DEF Publish, GetTorrent, Download, PushBack, Pushed, SetStatus,
                Complete, PieceDone
  <2> QED
    BY <1>1, <2>1 DEF disk, DiskTyped
<1>9. CASE Restart
  BY <1>1, <1>9 DEF Restart, disk, DiskTyped
<1>10. CASE ~Console /\ ~Restart
  <2>1. UNCHANGED <<pieceFile, present>>
    BY <1>10, OnlyConsole
  <2>2. UNCHANGED out \/ out' \in Flushed
    BY <1>10, OnlyMerge
  <2> QED
    BY <1>1, <1>7, <2>1, <2>2 DEF DiskTyped
<1> QED
  BY <1>3, <1>4, <1>5, <1>6, <1>8, <1>9, <1>10 DEF Console

LEMMA StepMainTyped ==
  ASSUME Inv, [Next]_vars
  PROVE  MainTyped'
<1>1. MainTyped /\ PeersSimple /\ WireTyped
  BY DEF Inv
<1>2. CASE Console
  BY <1>1, <1>2, ConsoleAlone DEF MainTyped, WireTyped
<1>3. CASE Accept
  <2>1. Head(backlog) \in Peers
    BY <1>1, <1>3, HeadTailProperties DEF Accept, PeersSimple
  <2> QED
    BY <1>1, <1>3, <2>1 DEF Accept, MainTyped
<1>4. CASE StartScan \/ EndScan \/ Spawn \/ Join
  BY <1>1, <1>4 DEF StartScan, EndScan, Spawn, Join, MainTyped
<1>5. CASE \E c \in Peers : RecvInstruction(c) \/ Disconnect(c)
  <2>1. PICK c \in Peers : RecvInstruction(c) \/ Disconnect(c)
    BY <1>5
  <2>2. CASE RecvInstruction(c)
    <3>1. Head(up[c]) \in Request
      BY <1>1, <2>2, HeadTailProperties DEF RecvInstruction, WireTyped
    <3> QED
      BY <1>1, <2>2, <3>1 DEF RecvInstruction, MainTyped
  <2>3. CASE Disconnect(c)
    BY <1>1, <2>3 DEF Disconnect, MainTyped
  <2> QED
    BY <2>1, <2>2, <2>3
<1>6. CASE Restart
  BY <1>6 DEF Restart, MainTyped
<1>7. CASE Uploader \/ Kill \/ (\E c \in Peers : Peer(c)) \/ UNCHANGED vars
  <2>1. UNCHANGED main
    BY <1>7
    DEF Uploader, StartThread, Parse, Lookup, LookupFails, SendReply, ReadStatus,
        OpenFile, SendPiece, SendNothing, LookupRaces, NoFile, BrokenPipe,
        EndsSilently, ProcessEnds, Kill, Peer, Connect, Next71, Next81, Next91,
        NextData, Choose, Leave, vars
  <2> QED
    BY <1>1, <2>1 DEF main, MainTyped
<1> QED
  BY <1>2, <1>3, <1>4, <1>5, <1>6, <1>7 DEF Next, Main

(* The thread. *)
LEMMA StepWorkerTyped ==
  ASSUME Inv, [Next]_vars
  PROVE  (w \in Worker /\ WorkerTyped)'
<1>1. /\ w \in Worker /\ WorkerTyped /\ MainTyped /\ ThreadOK
      /\ ConsoleTyped /\ DiskTyped
  BY DEF Inv, WireTyped
<1>2. CASE Console
  BY <1>1, <1>2, ConsoleAlone DEF Worker, WorkerTyped
<1>3. CASE Spawn \/ Restart \/ LookupFails \/ SendReply \/ SendPiece \/ SendNothing
  <2>1. w' \in {Idle, [Idle EXCEPT !.pc = "start"], [Idle EXCEPT !.pc = "ended"]}
    BY <1>3 DEF Spawn, Restart, LookupFails, SendReply, SendPiece, SendNothing,
                EndsSilently
  <2>2. w' \in Worker /\ w'.pc \in {"none", "start", "ended"}
    BY <2>1, WorkerFacts
  <2> QED
    BY <2>2 DEF WorkerTyped, Answering
<1>4. CASE StartThread
  <2>1. upc = "join" /\ w.pc = "start"
    BY <1>1, <1>4 DEF StartThread, ThreadOK
  <2>2. tempsockfd \in Peers
    BY <1>1, <2>1 DEF MainTyped
  <2>3. w' = [w EXCEPT !.pc = "parse", !.sock = tempsockfd]
    BY <1>4 DEF StartThread
  <2>4. w' \in Worker /\ w'.pc = "parse" /\ w'.sock = tempsockfd
    BY <1>1, <2>2, <2>3 DEF Worker
  <2> QED
    BY <2>2, <2>4 DEF WorkerTyped, Answering
<1>5. CASE Parse
  <2>1. upc = "join" /\ w.pc = "parse"
    BY <1>1, <1>5 DEF Parse, ThreadOK
  <2>2. instruction \in Request /\ w.sock \in Peers
    BY <1>1, <2>1 DEF MainTyped, WorkerTyped
  <2>3. Unsettled(instruction.torrent, instruction.piece) \in BOOLEAN
    BY DEF Unsettled
  <2>4. w' \in Worker /\ w'.req = instruction /\ w'.sock = w.sock
    BY <1>1, <1>5, <2>2, <2>3 DEF Parse, Worker, Answering
  <2> QED
    BY <2>2, <2>4 DEF Worker, WorkerTyped
<1>6. CASE Lookup
  <2>1. w.req \in Request
    BY <1>1, <1>6 DEF Lookup, WorkerTyped, Answering
  <2>2. done[w.req.torrent] \in SUBSET Pieces
    BY <1>1, <2>1, RequestFacts DEF ConsoleTyped
  <2> QED
    BY <1>1, <1>6, <2>2 DEF Lookup, Worker, WorkerTyped, Answering
<1>7. CASE ReadStatus
  <2>1. w.req \in Request
    BY <1>1, <1>7 DEF ReadStatus, WorkerTyped, Answering
  <2>2. status[w.req.torrent] \in {0, 1}
    BY <1>1, <2>1, RequestFacts DEF ConsoleTyped
  <2> QED
    BY <1>1, <1>7, <2>2 DEF ReadStatus, Worker, WorkerTyped, Answering
<1>8. CASE OpenFile
  <2>1. w.req \in Request
    BY <1>1, <1>8 DEF OpenFile, WorkerTyped, Answering
  <2>2. ToOpen \in Seq(BlockType)
    <3>1. CASE w.st = 1
      BY <1>1, <2>1, <3>1, RequestFacts, NameFacts DEF ToOpen, DiskTyped
    <3>2. CASE w.st # 1 /\ w.req.torrent \in Own
      <4>1. TorrentFile(w.req.torrent) \in BlockType
        BY <2>1, RequestFacts, BlockFacts DEF TorrentFile
      <4>2. <<TorrentFile(w.req.torrent)>> \in Seq(BlockType)
        BY <4>1
      <4> QED
        BY <3>2, <4>2 DEF ToOpen, Location
    <3>3. CASE w.st # 1 /\ w.req.torrent \notin Own
      <4>1. ToOpen = pieceFile[w.req.piece] /\ ToOpen # <<>>
        BY <1>8, <3>3 DEF OpenFile, CanOpen, ToOpen, Location
      <4>2. w.req.piece \in Pieces
        BY <1>1, <1>8, PieceAsked DEF OpenFile, ThreadOK, Answering
      <4> QED
        BY <1>1, <4>1, <4>2 DEF DiskTyped
    <3> QED
      BY <3>1, <3>2, <3>3
  <2> QED
    BY <1>1, <1>8, <2>2 DEF OpenFile, Worker, WorkerTyped, Answering
<1>9. CASE LookupRaces \/ NoFile \/ BrokenPipe
  <2>1. w' = [w EXCEPT !.pc = "crash"] \/ w' = [w EXCEPT !.pc = "pipe"]
    BY <1>9 DEF LookupRaces, NoFile, BrokenPipe
  <2>2. w.pc \in Answering
    BY <1>9 DEF LookupRaces, NoFile, BrokenPipe, Answering
  <2> QED
    BY <1>1, <2>1, <2>2 DEF Worker, WorkerTyped, Answering
<1>10. CASE \/ Accept \/ StartScan \/ EndScan \/ Join \/ Kill
            \/ \E c \in Peers : RecvInstruction(c) \/ Disconnect(c)
            \/ \E c \in Peers : Peer(c)
            \/ UNCHANGED vars
  <2>1. UNCHANGED w
    BY <1>10 DEF Accept, StartScan, EndScan, Join, Kill, RecvInstruction,
                 Disconnect, Peer, Connect, Next71, Next81, Next91, NextData,
                 Choose, Leave, vars
  <2> QED
    BY <1>1, <2>1 DEF WorkerTyped
<1> QED
  BY <1>2, <1>3, <1>4, <1>5, <1>6, <1>7, <1>8, <1>9, <1>10
  DEF Next, Main, Uploader

(* The process ends in one of four ways. *)
Ends == Kill \/ LookupRaces \/ NoFile \/ BrokenPipe

LEMMA EndsFacts ==
  ASSUME Ends
  PROVE  alive /\ ProcessEnds
BY DEF Ends, Kill, LookupRaces, NoFile, BrokenPipe

(* The bitfield a peer receives was announced. *)
LEMMA BitfieldReceived ==
  ASSUME Inv, NEW c \in Peers, ppc[c] = "wait", Next81(c)
  PROVE  /\ Head(down[c]).val \subseteq done[ask[c].torrent]
         /\ Head(down[c]).val \subseteq Pieces
         /\ ask[c] \in Request
<1>1. TalkOK(c) /\ AskOK(c) /\ ConsoleTyped
  BY DEF Inv
<1>2. ask[c] \in Request
  BY <1>1 DEF AskOK
<1>3. Len(down[c]) = 1 /\ Fits(c, down[c][1]) /\ down[c] # <<>> /\ ask[c].type = 18
  BY <1>1 DEF Next81, TalkOK
<1>4. Head(down[c]).val \subseteq done[ask[c].torrent]
  BY <1>3 DEF Fits
<1>5. done[ask[c].torrent] \subseteq Pieces
  BY <1>1, <1>2, RequestFacts DEF ConsoleTyped
<1> QED
  BY <1>2, <1>4, <1>5

LEMMA StepPeersSimple ==
  ASSUME Inv, [Next]_vars
  PROVE  PeersSimple'
<1>1. PeersSimple /\ WireTyped
  BY DEF Inv
<1>2. MaxFetches \in Nat
  BY DEF NodeAssumption
<1>3. CASE Console
  BY <1>1, <1>3, ConsoleAlone DEF PeersSimple, WireTyped
<1>4. CASE Accept
  <2>1. Tail(backlog) \in Seq(Peers)
    BY <1>1, <1>4, HeadTailProperties DEF Accept, PeersSimple
  <2> QED
    BY <1>1, <1>4, <2>1 DEF Accept, PeersSimple, peer
<1>5. CASE Ends
  <2>1. ProcessEnds
    BY <1>5, EndsFacts
  <2>2. <<>> \in Seq(Peers)
    BY EmptySeq
  <2> QED
    BY <1>2, <2>1, <2>2 DEF ProcessEnds, PeersSimple
<1>6. CASE \E c \in Peers : Peer(c)
  <2>1. PICK c \in Peers : Peer(c)
    BY <1>6
  <2>2. CASE \E t \in Torrents : Connect(c, t)
    <3>1. PICK t \in Torrents : Connect(c, t)
      BY <2>2
    <3>2. Append(backlog, c) \in Seq(Peers)
      BY <1>1, AppendProperties DEF PeersSimple
    <3> QED
      BY <1>1, <3>1, <3>2 DEF Connect, PeersSimple
  <2>3. CASE ppc[c] = "wait" /\ Next71(c)
    BY <1>1, <2>3 DEF Next71, Ask, PeersSimple
  <2>4. CASE ppc[c] = "wait" /\ Next81(c)
    <3>1. Head(down[c]).val \in SUBSET Pieces
      BY <2>4, BitfieldReceived
    <3> QED
      BY <1>1, <2>4, <3>1 DEF Next81, PeersSimple
  <2>5. CASE ppc[c] = "wait" /\ Next91(c)
    BY <1>1, <2>5 DEF Next91, Ask, PeersSimple
  <2>6. CASE ppc[c] = "wait" /\ NextData(c)
    <3>1. fetches[c] < MaxFetches
      BY <2>6 DEF Inv, AskOK, NextData
    <3>2. fetches[c] + 1 \in 0..MaxFetches
      BY <1>1, <1>2, <3>1 DEF PeersSimple
    <3> QED
      BY <1>1, <2>6, <3>2 DEF NextData, PeersSimple
  <2>7. CASE \E p \in Pieces : Choose(c, p)
    <3>1. PICK p \in Pieces : Choose(c, p)
      BY <2>7
    <3> QED
      BY <1>1, <3>1 DEF Choose, Ask, PeersSimple
  <2>8. CASE Leave(c)
    BY <1>1, <2>8 DEF Leave, PeersSimple
  <2> QED
    BY <2>1, <2>2, <2>3, <2>4, <2>5, <2>6, <2>7, <2>8 DEF Peer
<1>7. CASE \/ StartScan \/ EndScan \/ Spawn \/ Join \/ Restart
           \/ \E c \in Peers : RecvInstruction(c) \/ Disconnect(c)
           \/ StartThread \/ Parse \/ Lookup \/ LookupFails \/ SendReply
           \/ ReadStatus \/ OpenFile \/ SendPiece \/ SendNothing
           \/ UNCHANGED vars
  <2>1. UNCHANGED <<backlog, ppc, seen, fetches>>
    BY <1>7 DEF StartScan, EndScan, Spawn, Join, Restart, RecvInstruction,
                Disconnect, StartThread, Parse, Lookup, LookupFails, SendReply,
                ReadStatus, OpenFile, SendPiece, SendNothing, EndsSilently,
                vars, peer, net
  <2> QED
    BY <1>1, <2>1 DEF PeersSimple
<1> QED
  BY <1>3, <1>4, <1>5, <1>6, <1>7 DEF Next, Main, Uploader, Ends

LEMMA BlockIsValue ==
  ASSUME NEW v \in BlockType
  PROVE  v \in ReplyValue
BY DEF ReplyValue

LEMMA ReplyTyped ==
  ASSUME NEW r \in Request, NEW v \in ReplyValue
  PROVE  Reply(r, v) \in ReplyType
BY DEF Reply, ReplyType

(* What the two sends put on a connection. *)
LEMMA DownTyped ==
  ASSUME WireTyped, w.sock \in Peers, NEW r \in ReplyType, Send(r)
  PROVE  down' \in [Peers -> Seq(ReplyType)]
<1>1. Append(down[w.sock], r) \in Seq(ReplyType)
  BY AppendProperties DEF WireTyped
<1> QED
  BY <1>1 DEF Send, WireTyped

LEMMA DownTail ==
  ASSUME WireTyped, NEW c \in Peers, down[c] # <<>>,
         down' = [down EXCEPT ![c] = Tail(@)]
  PROVE  down' \in [Peers -> Seq(ReplyType)]
<1>1. Tail(down[c]) \in Seq(ReplyType)
  BY HeadTailProperties DEF WireTyped
<1> QED
  BY <1>1 DEF WireTyped

LEMMA UpOne ==
  ASSUME WireTyped, NEW c \in Peers, NEW r \in Request,
         up' = [up EXCEPT ![c] = <<r>>]
  PROVE  up' \in [Peers -> Seq(Request)]
<1>1. <<r>> \in Seq(Request)
  OBVIOUS
<1> QED
  BY <1>1 DEF WireTyped

LEMMA BlockSent ==
  ASSUME Inv, alive, w.pc = "read", BlockNo \in DOMAIN w.file
  PROVE  w.file[BlockNo] \in BlockType
<1>1. w.file \in Seq(BlockType)
  BY DEF Inv, WireTyped, Worker
<1> QED
  BY <1>1

LEMMA StepWireTyped ==
  ASSUME Inv, [Next]_vars
  PROVE  WireTyped'
<1>1. WireTyped /\ PeersSimple /\ ConsoleTyped
  BY DEF Inv
<1>2. w' \in Worker
  BY StepWorkerTyped
<1>3. CASE Console
  BY <1>1, <1>2, <1>3, ConsoleAlone DEF WireTyped
<1>4. CASE Ends
  <2>1. ProcessEnds
    BY <1>4, EndsFacts
  <2>2. <<>> \in Seq(Request) /\ <<>> \in Seq(ReplyType)
    BY EmptySeq
  <2> QED
    BY <1>1, <1>2, <2>1, <2>2 DEF ProcessEnds, WireTyped
<1>5. CASE SendReply
  <2>1. w.sock \in Peers /\ w.req \in Request
    BY <1>5, RequestServed DEF SendReply, Answering
  <2>2. done[w.req.torrent] \subseteq Pieces
    BY <1>1, <2>1, RequestFacts DEF ConsoleTyped
  <2>3. \E r \in ReplyType : Send(r)
    <3>1. CASE w.req.type = 18
      <4>1. PICK bits \in SUBSET Pieces : Send(Reply(w.req, bits))
        BY <1>5, <3>1 DEF SendReply
      <4>2. Reply(w.req, bits) \in ReplyType
        <5>1. bits \in ReplyValue
          BY DEF ReplyValue
        <5> QED
          BY <2>1, <5>1, ReplyTyped
      <4> QED
        BY <4>1, <4>2
    <3>2. CASE w.req.type # 18
      <4>1. Reply(w.req, <<>>) \in ReplyType
        <5>1. None \in ReplyValue
          BY DEF ReplyValue
        <5> QED
          BY <2>1, <5>1, ReplyTyped DEF None
      <4> QED
        BY <1>5, <3>2, <4>1 DEF SendReply
    <3> QED
      BY <3>1, <3>2
  <2>4. down' \in [Peers -> Seq(ReplyType)]
    BY <1>1, <2>1, <2>3, DownTyped
  <2> QED
    BY <1>1, <1>2, <1>5, <2>4 DEF SendReply, WireTyped, peer, life
<1>6. CASE SendPiece
  <2>1. w.sock \in Peers /\ w.req \in Request
    BY <1>6, RequestServed DEF SendPiece, Answering
  <2>2. w.file[BlockNo] \in BlockType
    BY <1>6, BlockSent DEF SendPiece
  <2>3. Reply(w.req, w.file[BlockNo]) \in ReplyType
    <3>1. w.file[BlockNo] \in ReplyValue
      BY <2>2, BlockIsValue
    <3> QED
      BY <2>1, <3>1, ReplyTyped
  <2>4. down' \in [Peers -> Seq(ReplyType)]
    BY <1>1, <1>6, <2>1, <2>3, DownTyped DEF SendPiece
  <2> QED
    BY <1>1, <1>2, <1>6, <2>4 DEF SendPiece, WireTyped, peer, life
<1>7. CASE \E c \in Peers : RecvInstruction(c)
  <2>1. PICK c \in Peers : RecvInstruction(c)
    BY <1>7
  <2>2. Tail(up[c]) \in Seq(Request)
    BY <1>1, <2>1, HeadTailProperties DEF RecvInstruction, WireTyped
  <2> QED
    BY <1>1, <1>2, <2>1, <2>2 DEF RecvInstruction, WireTyped, peer, life
<1>8. CASE \E c \in Peers : Peer(c)
  <2>1. PICK c \in Peers : Peer(c)
    BY <1>8
  <2>2. AskOK(c)
    BY DEF Inv
  <2>3. CASE \E t \in Torrents : Connect(c, t)
    <3>1. PICK t \in Torrents : Connect(c, t)
      BY <2>3
    <3>2. Req(17, t, 0) \in Request
      BY RequestFacts, BlockFacts
    <3>3. up' \in [Peers -> Seq(Request)]
      BY <1>1, <3>1, <3>2, UpOne DEF Connect
    <3> QED
      BY <1>1, <1>2, <3>1, <3>2, <3>3 DEF Connect, WireTyped, life
  <2>4. CASE ppc[c] = "wait" /\ Next71(c)
    <3>1. Req(18, ask[c].torrent, 0) \in Request
      BY <2>2, <2>4, RequestFacts, BlockFacts DEF AskOK
    <3>2. up' \in [Peers -> Seq(Request)]
      BY <1>1, <2>4, <3>1, UpOne DEF Next71, Ask
    <3>3. down' \in [Peers -> Seq(ReplyType)]
      BY <1>1, <2>4, DownTail DEF Next71
    <3> QED
      BY <1>1, <1>2, <2>4, <3>1, <3>2, <3>3 DEF Next71, Ask, WireTyped, life
  <2>5. CASE ppc[c] = "wait" /\ (Next81(c) \/ NextData(c))
    <3>1. down' \in [Peers -> Seq(ReplyType)]
      BY <1>1, <2>5, DownTail DEF Next81, NextData
    <3> QED
      BY <1>1, <1>2, <2>5, <3>1 DEF Next81, NextData, WireTyped, life
  <2>6. CASE ppc[c] = "wait" /\ Next91(c)
    <3>1. Req(20, ask[c].torrent, ask[c].piece) \in Request
      BY <2>2, <2>6, RequestFacts DEF AskOK
    <3>2. up' \in [Peers -> Seq(Request)]
      BY <1>1, <2>6, <3>1, UpOne DEF Next91, Ask
    <3>3. down' \in [Peers -> Seq(ReplyType)]
      BY <1>1, <2>6, DownTail DEF Next91
    <3> QED
      BY <1>1, <1>2, <2>6, <3>1, <3>2, <3>3 DEF Next91, Ask, WireTyped, life
  <2>7. CASE \E p \in Pieces : Choose(c, p)
    <3>1. PICK p \in Pieces : Choose(c, p)
      BY <2>7
    <3>2. Req(19, ask[c].torrent, p) \in Request
      BY <2>2, <3>1, RequestFacts, BlockFacts DEF AskOK, Choose, Pieces
    <3>3. up' \in [Peers -> Seq(Request)]
      BY <1>1, <3>1, <3>2, UpOne DEF Choose, Ask
    <3> QED
      BY <1>1, <1>2, <3>1, <3>2, <3>3 DEF Choose, Ask, WireTyped, life
  <2>8. CASE Leave(c)
    <3>1. <<>> \in Seq(ReplyType)
      BY EmptySeq
    <3> QED
      BY <1>1, <1>2, <2>8, <3>1 DEF Leave, WireTyped, life
  <2> QED
    BY <2>1, <2>3, <2>4, <2>5, <2>6, <2>7, <2>8 DEF Peer
<1>9. CASE Restart
  <2>1. clean' \in BOOLEAN /\ stale' \subseteq Fetched
    BY <1>9 DEF Restart
  <2> QED
    BY <1>1, <1>2, <1>9, <2>1 DEF Restart, WireTyped, peer, net
<1>10. CASE \/ Accept \/ StartScan \/ EndScan \/ Spawn \/ Join
            \/ \E c \in Peers : Disconnect(c)
            \/ StartThread \/ Parse \/ Lookup \/ LookupFails
            \/ ReadStatus \/ OpenFile \/ SendNothing
            \/ UNCHANGED vars
  <2>1. UNCHANGED <<up, down, ask, alive, clean, stale>>
    BY <1>10 DEF Accept, StartScan, EndScan, Spawn, Join, Disconnect,
                 StartThread, Parse, Lookup, LookupFails, ReadStatus, OpenFile,
                 SendNothing, EndsSilently, vars, peer, net, life
  <2> QED
    BY <1>1, <1>2, <2>1 DEF WireTyped
<1> QED
  BY <1>3, <1>4, <1>5, <1>6, <1>7, <1>8, <1>9, <1>10 DEF Next, Main, Uploader, Ends

-----------------------------------------------------------------------------
(* The two threads of the upload side *)

LEMMA StepThreadOK ==
  ASSUME Inv, [Next]_vars
  PROVE  ThreadOK'
<1>1. ThreadOK /\ w \in Worker /\ MainTyped
  BY DEF Inv, WireTyped
<1>2. CASE Console
  <2>1. UNCHANGED <<upc, tempsockfd, instruction, alive>>
    BY <1>1, <1>2, ConsoleAlone
  <2>2. PICK b \in BOOLEAN : w' = [w EXCEPT !.steady = b]
    BY <1>1, <1>2, ConsoleAlone
  <2>3. w'.pc = w.pc /\ w'.sock = w.sock /\ w'.req = w.req
    BY <1>1, <2>2 DEF Worker
  <2> QED
    BY <1>1, <2>1, <2>3 DEF ThreadOK
<1>3. CASE \/ Accept \/ StartScan \/ EndScan \/ \E c \in Peers : Disconnect(c)
  BY <1>1, <1>3 DEF Accept, StartScan, EndScan, Disconnect, ThreadOK, life, Answering
<1>4. CASE \E c \in Peers : RecvInstruction(c)
  BY <1>1, <1>4 DEF RecvInstruction, ThreadOK, life, Answering
<1>5. CASE Spawn
  <2>1. w'.pc = "start" /\ upc' = "join"
    BY <1>5, WorkerFacts DEF Spawn
  <2> QED
    BY <2>1 DEF ThreadOK, Answering
<1>6. CASE Join
  <2>1. w.pc = "ended" /\ w' = w /\ upc' = "scan"
    BY <1>6 DEF Join, Joined
  <2> QED
    BY <2>1 DEF ThreadOK, Answering
<1>7. CASE StartThread
  <2>1. upc = "join" /\ alive
    BY <1>1, <1>7 DEF StartThread, ThreadOK
  <2>2. w' = [w EXCEPT !.pc = "parse", !.sock = tempsockfd] /\ UNCHANGED main
    BY <1>7 DEF StartThread
  <2>3. w'.pc = "parse" /\ w'.sock = tempsockfd
    BY <1>1, <2>2 DEF Worker
  <2> QED
    BY <2>1, <2>2, <2>3 DEF ThreadOK, Answering, main
<1>8. CASE Parse
  <2>1. upc = "join" /\ w.sock = tempsockfd
    BY <1>1, <1>8 DEF Parse, ThreadOK
  <2>2. UNCHANGED main /\ w'.pc \in {"reply", "look"}
    BY <1>1, <1>8 DEF Parse, Worker
  <2>3. w'.sock = w.sock /\ w'.req = instruction
    BY <1>1, <1>8 DEF Parse, Worker
  <2> QED
    BY <2>1, <2>2, <2>3 DEF ThreadOK, Answering, main
<1>9. CASE Lookup \/ ReadStatus \/ OpenFile
  <2>1. w.pc \in Answering /\ w'.sock = w.sock /\ w'.req = w.req /\ UNCHANGED main
    BY <1>1, <1>9 DEF Lookup, ReadStatus, OpenFile, Worker, Answering
  <2>2. \/ w'.pc = "reply"
        \/ w'.pc \in {"status", "open", "read"} /\ w'.req.type = 20
    BY <1>1, <1>9 DEF Lookup, ReadStatus, OpenFile, Worker, ThreadOK
  <2>3. upc = "join"
    BY <1>1, <1>9 DEF Lookup, ReadStatus, OpenFile, ThreadOK
  <2> QED
    BY <1>1, <2>1, <2>2, <2>3 DEF ThreadOK, Answering, main
<1>10. CASE LookupFails \/ SendReply \/ SendPiece \/ SendNothing
  <2>1. w'.pc = "ended" /\ UNCHANGED main
    BY <1>10, WorkerFacts
    DEF LookupFails, SendReply, SendPiece, SendNothing, EndsSilently
  <2>2. upc = "join"
    BY <1>1, <1>10
    DEF LookupFails, SendReply, SendPiece, SendNothing, ThreadOK
  <2> QED
    BY <2>1, <2>2 DEF ThreadOK, Answering, main
<1>11. CASE Ends
  <2>1. ~alive' /\ UNCHANGED main
    BY <1>11, EndsFacts DEF ProcessEnds
  <2>2. \/ w' = w
        \/ w.pc \in Answering /\ w' = [w EXCEPT !.pc = "crash"]
        \/ w' = [w EXCEPT !.pc = "pipe"]
    BY <1>11 DEF Ends, Kill, LookupRaces, NoFile, BrokenPipe, Answering
  <2>3. w'.sock = w.sock /\ w'.req = w.req /\ w'.pc \in {w.pc, "crash", "pipe"}
    BY <1>1, <2>2 DEF Worker
  <2>4. w'.pc = "crash" => w.pc \in Answering
    BY <1>1, <2>2 DEF Worker, Answering
  <2> QED
    BY <1>1, <2>1, <2>3, <2>4 DEF ThreadOK, Answering, main
<1>12. CASE Restart
  <2>1. w'.pc = "none" /\ upc' = "select"
    BY <1>12, WorkerFacts DEF Restart
  <2> QED
    BY <2>1 DEF ThreadOK, Answering
<1>13. CASE (\E c \in Peers : Peer(c)) \/ UNCHANGED vars
  <2>1. UNCHANGED <<main, w, alive>>
    BY <1>13 DEF Peer, Connect, Next71, Next81, Next91, NextData, Choose, Leave,
                 vars, life
  <2> QED
    BY <1>1, <2>1 DEF ThreadOK, main
<1> QED
  BY <1>2, <1>3, <1>4, <1>5, <1>6, <1>7, <1>8, <1>9, <1>10, <1>11, <1>12, <1>13
  DEF Next, Main, Uploader, Ends

-----------------------------------------------------------------------------
(* The console thread *)

LEMMA StepConsoleOK ==
  ASSUME Inv, [Next]_vars
  PROVE  ConsoleOK'
<1>1. ConsoleOK /\ ConsoleTyped /\ DiskTyped
  BY DEF Inv
<1>2. NP \in Nat \ {0}
  BY DEF NodeAssumption
<1>3. ASSUME UNCHANGED torrents
      PROVE  \A t : InVector(t)' <=> InVector(t)
  BY <1>3 DEF InVector
<1>4. CASE \E t \in Torrents : Publish(t) \/ GetTorrent(t)
  <2>1. PICK t \in Torrents : Publish(t) \/ GetTorrent(t)
    BY <1>4
  <2>2. /\ cpc = "menu" /\ ~InVector(t) /\ cur' = t /\ cpc' = "push"
        /\ UNCHANGED torrents
        /\ \E v : done' = [done EXCEPT ![t] = v]
    BY <2>1 DEF Publish, GetTorrent
  <2>3. ~InVector(cur)' /\ \A v : InVector(v)' <=> InVector(v)
    BY <1>3, <2>2
  <2>4. \A v \in Torrents : v # t => done'[v] = done[v]
    BY <1>1, <2>2 DEF ConsoleTyped
  <2> QED
    BY <1>1, <2>2, <2>3, <2>4 DEF ConsoleOK, Downloading, Merging
<1>5. CASE \E t \in Torrents : Download(t)
  <2>1. PICK t \in Torrents : Download(t)
    BY <1>5
  <2>2. /\ cpc = "menu" /\ t \in Fetched /\ InVector(t) /\ cur' = t
        /\ cpc' = "threads" /\ stage' = [p \in Pieces |-> 0]
        /\ UNCHANGED <<torrents, done>>
    BY <2>1 DEF Download, shared
  <2>3. \A v : InVector(v)' <=> InVector(v)
    BY <1>3, <2>2
  <2> QED
    BY <1>1, <2>2, <2>3 DEF ConsoleOK, Downloading, Merging
<1>6. CASE PushBack
  <2>1. cpc = "push" /\ cpc' = "growing" /\ UNCHANGED <<cur, torrents, done>>
    BY <1>6 DEF PushBack, shared
  <2>2. \A v : InVector(v)' <=> InVector(v)
    BY <1>3, <2>1
  <2> QED
    BY <1>1, <2>1, <2>2 DEF ConsoleOK, Downloading, Merging
<1>7. CASE Pushed
  <2>1. /\ cpc = "growing" /\ UNCHANGED <<cur, done>>
        /\ cpc' = IF cur \in Own THEN "status" ELSE "menu"
    BY <1>7 DEF Pushed
  <2>2. \A v : InVector(v)' <=> InVector(v) \/ v = cur
    BY <1>1, <1>7, VectorGrows DEF Pushed, ConsoleTyped
  <2> QED
    BY <1>1, <2>1, <2>2 DEF ConsoleOK, Downloading, Merging
<1>8. CASE SetStatus \/ Complete
  <2>1. /\ cpc \notin {"push", "growing"} /\ cpc' = "menu"
        /\ UNCHANGED <<torrents, done>>
    BY <1>8 DEF SetStatus, Complete
  <2>2. \A v : InVector(v)' <=> InVector(v)
    BY <1>3, <2>1
  <2> QED
    BY <1>1, <2>1, <2>2 DEF ConsoleOK, Downloading, Merging
<1>9. CASE \E p \in Pieces : PieceArrives(p)
  <2>1. PICK p \in Pieces : PieceArrives(p)
    BY <1>9
  <2>2. /\ cpc = "threads" /\ UNCHANGED <<cpc, cur, torrents, done>>
        /\ pieceFile' = [pieceFile EXCEPT ![p] = Append(@, Block(cur, p))]
        /\ stage' = [stage EXCEPT ![p] = 1]
    BY <2>1 DEF PieceArrives, shared
  <2>3. \A v : InVector(v)' <=> InVector(v)
    BY <1>3, <2>2
  <2>4. Append(pieceFile[p], Block(cur, p)) # <<>>
    <3>1. pieceFile[p] \in Seq(BlockType) /\ Block(cur, p) \in BlockType
      BY <1>1, BlockFacts DEF ConsoleTyped, DiskTyped, Pieces
    <3> QED
      BY <3>1, BlockAppended
  <2>5. \A q \in Pieces : stage'[q] # 0 => pieceFile'[q] # <<>>
    BY <1>1, <2>2, <2>4 DEF ConsoleOK, ConsoleTyped, DiskTyped
  <2> QED
    BY <1>1, <2>2, <2>3, <2>5 DEF ConsoleOK, Downloading, Merging
<1>10. CASE \E p \in Pieces : PieceDone(p)
  <2>1. PICK p \in Pieces : PieceDone(p)
    BY <1>10
  <2>2. /\ cpc = "threads" /\ UNCHANGED <<cpc, cur, torrents, pieceFile>>
        /\ stage[p] = 1 /\ stage' = [stage EXCEPT ![p] = 2]
        /\ \E v : done' = [done EXCEPT ![cur] = v]
    BY <2>1 DEF PieceDone, Arrived, disk
  <2>3. \A v : InVector(v)' <=> InVector(v)
    BY <1>3, <2>2
  <2>4. \A v \in Torrents : v # cur => done'[v] = done[v]
    BY <1>1, <2>2 DEF ConsoleTyped
  <2>5. \A q \in Pieces : stage'[q] # 0 => pieceFile'[q] # <<>>
    BY <1>1, <2>2 DEF ConsoleOK, ConsoleTyped
  <2>6. InVector(cur)
    BY <1>1, <2>2 DEF ConsoleOK, Downloading
  <2> QED
    BY <1>1, <2>2, <2>3, <2>4, <2>5, <2>6 DEF ConsoleOK, Downloading, Merging
<1>11. CASE JoinAll
  <2>1. /\ cpc = "threads" /\ cpc' = "merge" /\ idx' = 1
        /\ outName' = IF Name(cur) \in present THEN SecondName(cur) ELSE Name(cur)
        /\ present' = present \union {outName'}
        /\ UNCHANGED <<cur, torrents, done, pieceFile>>
        /\ \A p \in Pieces : stage[p] = 2
    BY <1>11 DEF JoinAll, shared
  <2>2. \A v : InVector(v)' <=> InVector(v)
    BY <1>3, <2>1
  <2>3. \A p \in Pieces : pieceFile[p] # <<>>
    BY <1>1, <2>1 DEF ConsoleOK
  <2>4. outName' = SecondName(cur) => Name(cur) \in present
    BY <1>1, <2>1, NameFacts DEF ConsoleTyped
  <2> QED
    BY <1>1, <2>1, <2>2, <2>3, <2>4
    DEF ConsoleOK, Downloading, Merging, Name, SecondName
<1>12. CASE MergePiece
  <2>1. /\ cpc = "merge" /\ cpc' = "remove" /\ idx <= NP
        /\ UNCHANGED <<cur, idx, outName, torrents, done, pieceFile, present>>
    BY <1>12 DEF MergePiece, shared
  <2>2. \A v : InVector(v)' <=> InVector(v)
    BY <1>3, <2>1
  <2> QED
    BY <1>1, <2>1, <2>2 DEF ConsoleOK, Downloading, Merging, Name, SecondName
<1>13. CASE RemovePiece
  <2>1. /\ cpc = "remove" /\ cpc' = "merge" /\ idx' = idx + 1
        /\ UNCHANGED <<cur, outName, torrents, done, present>>
        /\ pieceFile' = [pieceFile EXCEPT ![idx] = <<>>]
    BY <1>13 DEF RemovePiece, Removed, shared
  <2>2. \A v : InVector(v)' <=> InVector(v)
    BY <1>3, <2>1
  <2>3. \A p \in Pieces : p >= idx' => pieceFile'[p] # <<>>
    BY <1>1, <1>2, <2>1 DEF ConsoleOK, ConsoleTyped, DiskTyped, Merging, Pieces
  <2> QED
    BY <1>1, <2>1, <2>2, <2>3
    DEF ConsoleOK, Downloading, Merging, Name, SecondName
<1>14. CASE Restart
  <2>1. cpc' = "menu" /\ \A t \in Torrents : done'[t] = {}
    BY <1>14 DEF Restart, NothingDone
  <2> QED
    BY <2>1 DEF ConsoleOK, Downloading, Merging
<1>15. CASE ~Console /\ ~Restart
  <2>1. UNCHANGED <<cpc, cur, idx, stage, outName, torrents, done, pieceFile,
                    present>>
    BY <1>15, OnlyConsole
  <2>2. \A v : InVector(v)' <=> InVector(v)
    BY <1>3, <2>1
  <2> QED
    BY <1>1, <2>1, <2>2 DEF ConsoleOK, Name, SecondName
<1> QED
  BY <1>4, <1>5, <1>6, <1>7, <1>8, <1>9, <1>10, <1>11, <1>12, <1>13, <1>14, <1>15
  DEF Console

-----------------------------------------------------------------------------
(* Requests and replies *)

(* What is announced stays announced as long as the process lives. *)
LEMMA DoneGrows ==
  ASSUME Inv, [Next]_vars, ~Restart
  PROVE  \A t \in Torrents : done[t] \subseteq done'[t]
<1>1. ConsoleTyped /\ ConsoleOK
  BY DEF Inv
<1>2. CASE \E t \in Torrents : Publish(t) \/ GetTorrent(t)
  <2>1. PICK t \in Torrents : Publish(t) \/ GetTorrent(t)
    BY <1>2
  <2>2. /\ cpc = "menu" /\ ~InVector(t)
        /\ \E v : done' = [done EXCEPT ![t] = v]
    BY <2>1 DEF Publish, GetTorrent
  <2>3. done[t] = {}
    BY <1>1, <2>2 DEF ConsoleOK
  <2> QED
    BY <1>1, <2>2, <2>3 DEF ConsoleTyped
<1>3. CASE \E p \in Pieces : PieceDone(p)
  BY <1>1, <1>3 DEF PieceDone, ConsoleTyped
<1>4. CASE \/ \E t \in Torrents : Download(t)
           \/ PushBack \/ Pushed \/ SetStatus \/ JoinAll \/ MergePiece
           \/ RemovePiece \/ Complete
           \/ \E p \in Pieces : PieceArrives(p)
  BY <1>4 DEF Download, PushBack, Pushed, SetStatus, JoinAll, MergePiece,
              RemovePiece, Complete, PieceArrives, shared
<1>5. CASE ~Console
  BY <1>5, OnlyConsole
<1> QED
  BY <1>2, <1>3, <1>4, <1>5 DEF Console

LEMMA InFlightSame ==
  ASSUME NEW c, UNCHANGED <<alive, tempsockfd, upc>>,
         w'.pc = "ended" <=> w.pc = "ended"
  PROVE  InFlight(c)' <=> InFlight(c)
BY DEF InFlight

(* A peer about which nothing changes, while more may be announced. *)
LEMMA TalkSame ==
  ASSUME Inv, [Next]_vars, ~Restart, NEW c \in Peers,
         up'[c] = up[c], down'[c] = down[c], ppc'[c] = ppc[c], ask'[c] = ask[c],
         InFlight(c)' => InFlight(c) /\ instruction' = instruction
  PROVE  TalkOK(c)'
<1>1. TalkOK(c) /\ AskOK(c)
  BY DEF Inv
<1>2. \A t \in Torrents : done[t] \subseteq done'[t]
  BY DoneGrows
<1>3. ASSUME down[c] # <<>>
      PROVE  Fits(c, down[c][1])'
  <2>1. ask[c] \in Request /\ Fits(c, down[c][1])
    BY <1>1, <1>3 DEF TalkOK, AskOK
  <2>2. ask[c].torrent \in Torrents
    BY <2>1, RequestFacts
  <2> QED
    BY <1>2, <2>1, <2>2 DEF Fits
<1> QED
  BY <1>1, <1>3 DEF TalkOK

LEMMA AskSame ==
  ASSUME Inv, [Next]_vars, ~Restart, NEW c \in Peers,
         ppc'[c] = ppc[c], ask'[c] = ask[c], seen'[c] = seen[c],
         fetches'[c] = fetches[c], alive' = alive
  PROVE  AskOK(c)'
<1>1. AskOK(c)
  BY DEF Inv
<1>2. \A t \in Torrents : done[t] \subseteq done'[t]
  BY DoneGrows
<1>3. CASE ppc[c] # "off"
  <2>1. ask[c].torrent \in Torrents
    BY <1>1, <1>3, RequestFacts DEF AskOK
  <2> QED
    BY <1>1, <1>2, <2>1 DEF AskOK
<1>4. CASE ppc[c] = "off"
  BY <1>1, <1>4 DEF AskOK
<1> QED
  BY <1>3, <1>4

(* The steps of this process that do not send. *)
LEMMA QuietTalk ==
  ASSUME Inv, [Next]_vars,
         \/ Console \/ Accept \/ StartScan \/ EndScan \/ Spawn \/ Join
         \/ \E d \in Peers : Disconnect(d)
         \/ StartThread \/ Parse \/ Lookup \/ LookupFails \/ ReadStatus
         \/ OpenFile \/ SendNothing \/ UNCHANGED vars,
         NEW c \in Peers
  PROVE  TalkOK(c)' /\ AskOK(c)'
<1>1. w \in Worker /\ ThreadOK
  BY DEF Inv, WireTyped
<1>2. /\ UNCHANGED <<up, down, ppc, ask, seen, fetches>>
      /\ InFlight(c)' => InFlight(c) /\ instruction' = instruction
      /\ alive' = alive
  <2>1. CASE Console
    <3>1. UNCHANGED <<up, down, ppc, ask, seen, fetches, alive, tempsockfd, upc,
                      instruction>>
      BY <1>1, <2>1, ConsoleAlone
    <3>2. PICK b \in BOOLEAN : w' = [w EXCEPT !.steady = b]
      BY <1>1, <2>1, ConsoleAlone
    <3>3. w'.pc = w.pc
      BY <1>1, <3>2 DEF Worker
    <3> QED
      BY <3>1, <3>3, InFlightSame
  <2>2. CASE \/ Accept \/ StartScan \/ EndScan \/ Spawn \/ Join
             \/ \E d \in Peers : Disconnect(d)
    <3>1. UNCHANGED <<up, down, ppc, ask, seen, fetches, alive, tempsockfd,
                      instruction>>
      BY <2>2 DEF Accept, StartScan, EndScan, Spawn, Join, Disconnect, peer, net,
                  life
    <3>2. (InFlight(c))' => InFlight(c)
      BY <2>2, <3>1 DEF Accept, StartScan, EndScan, Spawn, Join, Disconnect,
                        InFlight
    <3> QED
      BY <3>1, <3>2
  <2>3. CASE StartThread \/ Parse \/ Lookup \/ ReadStatus \/ OpenFile
    <3>1. UNCHANGED <<up, down, ppc, ask, seen, fetches, alive, main>>
      BY <2>3 DEF StartThread, Parse, Lookup, ReadStatus, OpenFile, peer, net, life
    <3>2. w.pc # "ended"
      BY <2>3 DEF StartThread, Parse, Lookup, ReadStatus, OpenFile
    <3> QED
      BY <3>1, <3>2 DEF InFlight, main
  <2>4. CASE LookupFails \/ SendNothing
    <3>1. /\ UNCHANGED <<up, down, ppc, ask, seen, fetches, alive, main>>
          /\ w' = [Idle EXCEPT !.pc = "ended"]
      BY <2>4 DEF LookupFails, SendNothing, EndsSilently, net, life
    <3>2. w'.pc = "ended" /\ w.pc # "ended"
      BY <2>4, <3>1, WorkerFacts DEF LookupFails, SendNothing
    <3> QED
      BY <3>1, <3>2 DEF InFlight, main
  <2>5. CASE UNCHANGED vars
    <3>1. UNCHANGED <<up, down, ppc, ask, seen, fetches, alive, main, w>>
      BY <2>5 DEF vars, peer, net, life
    <3> QED
      BY <3>1, InFlightSame DEF main
  <2> QED
    BY <2>1, <2>2, <2>3, <2>4, <2>5
<1>3. CASE ~Restart
  BY <1>2, <1>3, TalkSame, AskSame
<1>4. CASE Restart
  BY <1>2, <1>4 DEF Restart
<1> QED
  BY <1>3, <1>4

(* The end of the process and a new start. *)
LEMMA EndTalk ==
  ASSUME Inv, Ends \/ Restart, NEW c \in Peers
  PROVE  TalkOK(c)' /\ AskOK(c)'
<1>1. CASE Ends
  <2>1. ProcessEnds
    BY <1>1, EndsFacts
  <2>2. /\ up'[c] = <<>> /\ down'[c] = <<>> /\ ppc'[c] = "off" /\ seen'[c] = {}
        /\ ~alive'
    BY <2>1 DEF ProcessEnds
  <2> QED
    BY <2>2 DEF TalkOK, AskOK, InFlight
<1>2. CASE Restart
  <2>1. /\ UNCHANGED <<up, down, ppc, ask, seen, fetches>> /\ ~alive
        /\ alive' /\ upc' = "select"
    BY <1>2 DEF Restart, peer, net
  <2>2. ppc[c] = "off" /\ seen[c] = {} /\ up[c] = <<>> /\ down[c] = <<>>
    BY <2>1 DEF Inv, TalkOK, AskOK
  <2> QED
    BY <2>1, <2>2 DEF TalkOK, AskOK, InFlight
<1> QED
  BY <1>1, <1>2

(* recv(): from now on the request of d is being answered. *)
LEMMA RecvTalk ==
  ASSUME Inv, [Next]_vars, NEW d \in Peers, RecvInstruction(d), NEW c \in Peers
  PROVE  TalkOK(c)' /\ AskOK(c)'
<1>1. /\ upc = "scan" /\ alive /\ up[d] # <<>>
      /\ instruction' = Head(up[d]) /\ up' = [up EXCEPT ![d] = Tail(@)]
      /\ tempsockfd' = d /\ upc' = "spawn"
      /\ UNCHANGED <<down, ppc, ask, seen, fetches, alive>>
  BY DEF RecvInstruction, peer, life
<1>2. ~Restart
  BY <1>1 DEF Restart
<1>3. AskOK(c)'
  BY <1>1, <1>2, AskSame
<1>4. up \in [Peers -> Seq(Request)]
  BY DEF Inv, WireTyped
<1>5. CASE c # d
  BY <1>1, <1>2, <1>3, <1>4, <1>5, TalkSame DEF InFlight
<1>6. CASE c = d
  <2>1. TalkOK(c)
    BY DEF Inv
  <2>2. /\ up[c] = <<ask[c]>> /\ down[c] = <<>>
        /\ ppc[c] \notin {"off", "choose"}
    BY <1>1, <1>6, <2>1 DEF TalkOK
  <2>3. up'[c] = <<>> /\ instruction' = ask[c]
    BY <1>1, <1>4, <1>6, <2>2
  <2> QED
    BY <1>1, <1>3, <2>2, <2>3 DEF TalkOK
<1> QED
  BY <1>5, <1>6

(* send(): the request of the peer is answered. *)
LEMMA SendTalk ==
  ASSUME Inv, [Next]_vars, SendReply \/ SendPiece, NEW c \in Peers
  PROVE  TalkOK(c)' /\ AskOK(c)'
<1>1. alive /\ w.pc \in {"reply", "read"} /\ w.pc \in Answering
  BY DEF SendReply, SendPiece, Answering
<1>2. /\ UNCHANGED <<up, ppc, ask, seen, fetches, alive, main, done>>
      /\ w' = [Idle EXCEPT !.pc = "ended"]
  BY DEF SendReply, SendPiece, peer, life, shared
<1>3. ~InFlight(c)'
  BY <1>1, <1>2, WorkerFacts, RequestServed DEF InFlight, main
<1>4. ~Restart
  BY <1>1 DEF Restart
<1>5. AskOK(c)'
  BY <1>2, <1>4, AskSame
<1>6. PICK r : /\ Send(r) /\ r.to = w.req
               /\ w.req.type = 18 => r.val \subseteq done[w.req.torrent]
  <2>1. CASE SendPiece
    <3>1. w.req.type = 20
      BY <2>1, <1>1 DEF SendPiece, Inv, ThreadOK
    <3>2. Send(Reply(w.req, w.file[BlockNo])) /\ Reply(w.req, w.file[BlockNo]).to = w.req
      BY <2>1 DEF SendPiece, Reply
    <3> QED
      BY <3>1, <3>2
  <2>2. CASE SendReply /\ w.req.type = 18
    <3>1. PICK bits \in SUBSET Pieces : /\ bits \subseteq done[w.req.torrent]
                                       /\ Send(Reply(w.req, bits))
      BY <2>2 DEF SendReply
    <3>2. Reply(w.req, bits).to = w.req /\ Reply(w.req, bits).val = bits
      BY DEF Reply
    <3> QED
      BY <3>1, <3>2
  <2>3. CASE SendReply /\ w.req.type # 18
    <3>1. Send(Reply(w.req, <<>>)) /\ Reply(w.req, <<>>).to = w.req
      BY <2>3 DEF SendReply, Reply
    <3> QED
      BY <2>3, <3>1
  <2> QED
    BY <2>1, <2>2, <2>3
<1>7. down \in [Peers -> Seq(ReplyType)]
  BY DEF Inv, WireTyped
<1>8. CASE c # w.sock \/ ppc[w.sock] = "gone"
  <2>1. down'[c] = down[c]
    BY <1>6, <1>7, <1>8 DEF Send
  <2> QED
    BY <1>2, <1>3, <1>4, <1>5, <2>1, TalkSame
<1>9. CASE c = w.sock /\ ppc[w.sock] # "gone"
  <2>1. /\ up[c] = <<>> /\ down[c] = <<>> /\ ppc[c] = "wait" /\ w.req = ask[c]
    BY <1>1, <1>9, RequestServed
  <2>2. down'[c] = <<r>>
    BY <1>6, <1>7, <1>9, <2>1 DEF Send
  <2>3. Fits(c, r)'
    BY <1>2, <1>6, <2>1 DEF Fits
  <2> QED
    BY <1>2, <1>3, <1>5, <2>1, <2>2, <2>3 DEF TalkOK
<1> QED
  BY <1>8, <1>9

(* The steps of a peer. *)
LEMMA PeerTalk ==
  ASSUME Inv, [Next]_vars, NEW d \in Peers, Peer(d), NEW c \in Peers
  PROVE  TalkOK(c)' /\ AskOK(c)'
<1>1. /\ UNCHANGED <<upc, tempsockfd, instruction, w, alive, done>>
      /\ ~Restart
  BY DEF Peer, Connect, Next71, Next81, Next91, NextData, Choose, Leave, main,
         life, shared, Restart, AskOK, Inv, PeersSimple
<1>2. InFlight(c)' <=> InFlight(c)
  BY <1>1, InFlightSame
<1>3. /\ up \in [Peers -> Seq(Request)] /\ down \in [Peers -> Seq(ReplyType)]
      /\ ask \in [Peers -> Request \union {NoRequest}]
      /\ ppc \in [Peers -> {"off", "wait", "choose", "gone"}]
      /\ seen \in [Peers -> SUBSET Pieces]
      /\ fetches \in [Peers -> 0..MaxFetches] /\ MaxFetches \in Nat
  BY DEF Inv, WireTyped, PeersSimple, NodeAssumption
<1>4. CASE c # d
  <2>1. /\ up'[c] = up[c] /\ down'[c] = down[c] /\ ppc'[c] = ppc[c]
        /\ ask'[c] = ask[c] /\ seen'[c] = seen[c] /\ fetches'[c] = fetches[c]
    BY <1>3, <1>4
    DEF Peer, Connect, Next71, Next81, Next91, NextData, Choose, Leave, Ask
  <2> QED
    BY <1>1, <1>2, <2>1, TalkSame, AskSame
<1>5. CASE c = d
  <2>1. TalkOK(c) /\ AskOK(c)
    BY DEF Inv
  <2>2. ASSUME NEW r \in Request, r.torrent = ask[c].torrent \/ seen[c] = {},
               r.type \in {19, 20} => r.piece \in seen[c] /\ fetches[c] < MaxFetches,
               r.torrent \in Torrents, seen[c] = {} \/ ppc[c] # "off",
               alive, ~InFlight(c),
               ask' = [ask EXCEPT ![c] = r],
               up' = [up EXCEPT ![c] = <<r>>], down'[c] = <<>>,
               ppc' = [ppc EXCEPT ![c] = "wait"],
               UNCHANGED <<seen, fetches>>
        PROVE  TalkOK(c)' /\ AskOK(c)'
    <3>1. /\ ask'[c] = r /\ up'[c] = <<r>> /\ ppc'[c] = "wait"
          /\ seen'[c] = seen[c] /\ fetches'[c] = fetches[c]
      BY <1>3, <2>2
    <3>2. seen[c] \subseteq done[r.torrent]
      BY <2>1, <2>2 DEF AskOK
    <3> QED
      BY <1>1, <1>2, <2>2, <3>1, <3>2 DEF TalkOK, AskOK
  <2>3. ASSUME ppc[c] = "wait", down[c] # <<>>
        PROVE  /\ alive /\ ~InFlight(c) /\ up[c] = <<>> /\ Tail(down[c]) = <<>>
               /\ ask[c] \in Request /\ ask[c].torrent \in Torrents
    <3>1. Len(down[c]) = 1 /\ down[c] \in Seq(ReplyType)
      BY <1>3, <2>1, <2>3 DEF TalkOK
    <3>2. Tail(down[c]) = <<>>
      <4>1. Tail(down[c]) \in Seq(ReplyType) /\ Len(Tail(down[c])) = 0
        BY <2>3, <3>1, HeadTailProperties
      <4> QED
        BY <4>1, EmptySeq
    <3> QED
      BY <2>1, <2>3, <3>2, RequestFacts DEF TalkOK, AskOK
  <2>4. CASE \E t \in Torrents : Connect(c, t)
    <3>1. PICK t \in Torrents : Connect(c, t)
      BY <2>4
    <3>2. /\ alive /\ ppc[c] = "off" /\ UNCHANGED <<seen, fetches, down>>
          /\ ask' = [ask EXCEPT ![c] = Req(17, t, 0)]
          /\ up' = [up EXCEPT ![c] = <<Req(17, t, 0)>>]
          /\ ppc' = [ppc EXCEPT ![c] = "wait"]
      BY <3>1 DEF Connect
    <3>3. seen[c] = {} /\ down[c] = <<>> /\ ~InFlight(c)
      BY <2>1, <3>2 DEF TalkOK, AskOK
    <3>4. /\ Req(17, t, 0) \in Request /\ Req(17, t, 0).type \notin {19, 20}
          /\ Req(17, t, 0).torrent = t
      BY RequestFacts, BlockFacts
    <3> QED
      BY <2>2, <3>2, <3>3, <3>4
  <2>5. CASE ppc[c] = "wait" /\ Next71(c)
    <3>1. /\ down[c] # <<>> /\ UNCHANGED <<seen, fetches>>
          /\ ask' = [ask EXCEPT ![c] = Req(18, ask[c].torrent, 0)]
          /\ up' = [up EXCEPT ![c] = <<Req(18, ask[c].torrent, 0)>>]
          /\ ppc' = [ppc EXCEPT ![c] = "wait"]
          /\ down' = [down EXCEPT ![c] = Tail(@)]
      BY <2>5 DEF Next71, Ask
    <3>2. down'[c] = <<>>
      BY <1>3, <2>3, <2>5, <3>1
    <3>3. /\ Req(18, ask[c].torrent, 0) \in Request
          /\ Req(18, ask[c].torrent, 0).type \notin {19, 20}
          /\ Req(18, ask[c].torrent, 0).torrent = ask[c].torrent
      BY <2>3, <2>5, <3>1, RequestFacts, BlockFacts
    <3> QED
      BY <2>2, <2>3, <2>5, <3>1, <3>2, <3>3
  <2>6. CASE ppc[c] = "wait" /\ Next81(c)
    <3>1. /\ down[c] # <<>> /\ ask[c].type = 18 /\ UNCHANGED <<ask, fetches, up>>
          /\ seen'[c] = Head(down[c]).val
          /\ ppc'[c] = "choose" /\ down'[c] = Tail(down[c])
      BY <1>3, <2>6 DEF Next81
    <3>2. seen'[c] \subseteq done[ask[c].torrent]
      BY <1>5, <2>6, <3>1, BitfieldReceived
    <3> QED
      BY <1>1, <1>2, <2>3, <2>6, <3>1, <3>2 DEF TalkOK, AskOK
  <2>7. CASE ppc[c] = "wait" /\ Next91(c)
    <3>1. /\ down[c] # <<>> /\ ask[c].type = 19 /\ UNCHANGED <<seen, fetches>>
          /\ ask' = [ask EXCEPT ![c] = Req(20, ask[c].torrent, ask[c].piece)]
          /\ up' = [up EXCEPT ![c] = <<Req(20, ask[c].torrent, ask[c].piece)>>]
          /\ ppc' = [ppc EXCEPT ![c] = "wait"]
          /\ down' = [down EXCEPT ![c] = Tail(@)]
      BY <2>7 DEF Next91, Ask
    <3>2. down'[c] = <<>>
      BY <1>3, <2>3, <2>7, <3>1
    <3>3. /\ Req(20, ask[c].torrent, ask[c].piece) \in Request
          /\ Req(20, ask[c].torrent, ask[c].piece).torrent = ask[c].torrent
          /\ Req(20, ask[c].torrent, ask[c].piece).piece = ask[c].piece
      BY <2>3, <2>7, <3>1, RequestFacts
    <3>4. ask[c].piece \in seen[c] /\ fetches[c] < MaxFetches
      BY <2>1, <2>7, <3>1 DEF AskOK
    <3> QED
      BY <2>2, <2>3, <2>7, <3>1, <3>2, <3>3, <3>4
  <2>8. CASE ppc[c] = "wait" /\ NextData(c)
    <3>1. /\ down[c] # <<>> /\ UNCHANGED <<ask, seen, up>>
          /\ ppc'[c] = "choose" /\ down'[c] = Tail(down[c])
      BY <1>3, <2>8 DEF NextData
    <3> QED
      BY <1>1, <1>2, <2>1, <2>3, <2>8, <3>1 DEF TalkOK, AskOK
  <2>9. CASE \E p \in Pieces : Choose(c, p)
    <3>1. PICK p \in Pieces : Choose(c, p)
      BY <2>9
    <3>2. /\ ppc[c] = "choose" /\ p \in seen[c] /\ fetches[c] < MaxFetches
          /\ UNCHANGED <<seen, fetches, down>>
          /\ ask' = [ask EXCEPT ![c] = Req(19, ask[c].torrent, p)]
          /\ up' = [up EXCEPT ![c] = <<Req(19, ask[c].torrent, p)>>]
          /\ ppc' = [ppc EXCEPT ![c] = "wait"]
      BY <3>1 DEF Choose, Ask
    <3>3. /\ alive /\ down[c] = <<>> /\ ~InFlight(c)
          /\ ask[c] \in Request /\ ask[c].torrent \in Torrents
      BY <2>1, <3>2, RequestFacts DEF TalkOK, AskOK
    <3>4. /\ Req(19, ask[c].torrent, p) \in Request
          /\ Req(19, ask[c].torrent, p).torrent = ask[c].torrent
          /\ Req(19, ask[c].torrent, p).piece = p
      BY <3>3, RequestFacts, BlockFacts DEF Pieces
    <3> QED
      BY <2>2, <3>2, <3>3, <3>4
  <2>10. CASE Leave(c)
    <3>1. /\ ppc[c] \in {"choose", "wait"} /\ ppc'[c] = "gone" /\ down'[c] = <<>>
          /\ UNCHANGED <<ask, seen, fetches, up>>
      BY <1>3, <2>10 DEF Leave
    <3> QED
      BY <1>1, <1>2, <2>1, <3>1 DEF TalkOK, AskOK
  <2> QED
    BY <1>5, <2>4, <2>5, <2>6, <2>7, <2>8, <2>9, <2>10 DEF Peer
<1> QED
  BY <1>4, <1>5

LEMMA StepTalk ==
  ASSUME Inv, [Next]_vars
  PROVE  (\A c \in Peers : TalkOK(c) /\ AskOK(c))'
<1> SUFFICES ASSUME NEW c \in Peers
             PROVE  TalkOK(c)' /\ AskOK(c)'
  OBVIOUS
<1> QED
  BY QuietTalk, EndTalk, RecvTalk, SendTalk, PeerTalk
  DEF Next, Main, Uploader, Ends

-----------------------------------------------------------------------------
(* The directory *)

LEMMA VectorSame ==
  ASSUME UNCHANGED torrents
  PROVE  \A t : InVector(t)' <=> InVector(t)
BY DEF InVector

(* Only the file being put together changes, by the merge or by the end of  *)
(* the process.                                                             *)
LEMMA OutChanges ==
  ASSUME Inv, [Next]_vars
  PROVE  /\ \A n \in Names : out'[n] # out[n] => cpc \in Merging /\ n = outName
         /\ alive' /\ ~MergePiece => UNCHANGED out
<1>1. ConsoleTyped /\ DiskTyped
  BY DEF Inv
<1>2. CASE MergePiece
  BY <1>1, <1>2 DEF MergePiece, Merging, ConsoleTyped, DiskTyped
<1>3. CASE Console /\ ~MergePiece
  BY <1>3 DEF Console, Publish, GetTorrent, Download, PushBack, Pushed, SetStatus,
              PieceArrives, PieceDone, JoinAll, RemovePiece, Complete, disk
<1>4. CASE ~Console
  <2>1. UNCHANGED out \/ (~alive' /\ out' \in Flushed)
    BY <1>4, OnlyMerge
  <2>2. ASSUME out' \in Flushed
        PROVE  \A n \in Names : out'[n] # out[n] => cpc \in Merging /\ n = outName
    BY <1>1, <2>2 DEF Flushed, Merging, ConsoleTyped, DiskTyped
  <2> QED
    BY <2>1, <2>2
<1> QED
  BY <1>2, <1>3, <1>4

(* The process was alive before a step that is not its start. *)
LEMMA AliveBefore ==
  ASSUME Inv, [Next]_vars, ~Restart, alive', clean'
  PROVE  alive /\ clean /\ UNCHANGED stale
<1>1. CASE Console
  BY <1>1, ConsoleAlone DEF Inv, WireTyped
<1>2. CASE ~Console
  <2>1. UNCHANGED <<clean, stale>>
    BY <1>2, OnlyConsole
  <2>2. alive
    BY <1>2
    DEF Next, Main, Accept, StartScan, EndScan, Spawn, Join, RecvInstruction,
        Disconnect, Uploader, StartThread, Parse, Lookup, LookupFails, SendReply,
        ReadStatus, OpenFile, SendPiece, SendNothing, LookupRaces, NoFile,
        BrokenPipe, EndsSilently, Kill, Peer, Connect, Next71, Next81, Next91,
        NextData, Choose, Leave, vars, life
  <2> QED
    BY <2>1, <2>2
<1> QED
  BY <1>1, <1>2

LEMMA StepNamesOK ==
  ASSUME Inv, [Next]_vars
  PROVE  NamesOK'
<1>1. ConsoleOK /\ NamesOK /\ ConsoleTyped
  BY DEF Inv
<1>2. present \subseteq present'
  <2>1. CASE JoinAll
    BY <2>1 DEF JoinAll
  <2>2. CASE Console /\ ~JoinAll
    BY <2>2 DEF Console, Publish, GetTorrent, Download, PushBack, Pushed,
                SetStatus, PieceArrives, PieceDone, MergePiece, RemovePiece,
                Complete, disk
  <2>3. CASE Restart
    BY <2>3 DEF Restart, disk
  <2>4. CASE ~Console /\ ~Restart
    BY <2>4, OnlyConsole
  <2> QED
    BY <2>1, <2>2, <2>3, <2>4
<1>3. cpc \in Merging => /\ outName \in present
                         /\ \A t \in Own : outName # Name(t)
  <2>1. cpc \in Merging => cur \in Fetched
    BY <1>1 DEF ConsoleOK, Merging, Downloading
  <2>2. cpc \in Merging => outName \in present
                           /\ outName \in {Name(cur), SecondName(cur)}
    BY <1>1 DEF ConsoleOK
  <2> QED
    BY <2>1, <2>2, NameFacts
<1>4. ASSUME NEW n \in Names, n \notin present'
      PROVE  out'[n] = <<>>
  BY <1>1, <1>2, <1>3, <1>4, OutChanges DEF NamesOK
<1>5. ASSUME NEW t \in Own
      PROVE  Name(t) \in present' /\ out'[Name(t)] = Whole(t)
  <2>1. Name(t) \in Names
    BY NameFacts
  <2> QED
    BY <1>1, <1>2, <1>3, <2>1, OutChanges DEF NamesOK
<1> QED
  BY <1>4, <1>5 DEF NamesOK, Name, Whole, Block

LEMMA StepPieceFilesOK ==
  ASSUME Inv, [Next]_vars
  PROVE  PieceFilesOK'
<1> SUFFICES ASSUME alive', clean', NEW p \in Pieces
             PROVE  (pieceFile[p] = IF \/ cpc = "threads" /\ stage[p] # 0
                                       \/ cpc \in Merging /\ p >= idx
                                    THEN <<Block(cur, p)>> ELSE <<>>)'
  BY DEF PieceFilesOK
<1> DEFINE B == IF \/ cpc = "threads" /\ stage[p] # 0
                   \/ cpc \in Merging /\ p >= idx
                THEN <<Block(cur, p)>> ELSE <<>>
<1>1. ConsoleTyped /\ DiskTyped /\ WireTyped /\ NP \in Nat \ {0}
  BY DEF Inv, NodeAssumption
<1>2. CASE Restart
  BY <1>2 DEF Restart, disk, Merging
<1>3. ASSUME ~Restart
      PROVE  pieceFile[p] = B
  <2>1. alive /\ clean
    BY <1>3, AliveBefore
  <2> QED
    BY <2>1 DEF Inv, PieceFilesOK
<1>4. CASE \E q \in Pieces : PieceArrives(q)
  <2>1. PICK q \in Pieces : PieceArrives(q)
    BY <1>4
  <2>2. /\ cpc = "threads" /\ stage[q] = 0 /\ UNCHANGED <<cpc, cur, idx>>
        /\ pieceFile' = [pieceFile EXCEPT ![q] = Append(@, Block(cur, q))]
        /\ stage' = [stage EXCEPT ![q] = 1] /\ ~Restart
    BY <2>1 DEF PieceArrives, Restart
  <2>3. CASE p = q
    <3>1. pieceFile[p] = <<>>
      BY <1>3, <2>2, <2>3 DEF Merging
    <3>2. pieceFile'[p] = Append(<<>>, Block(cur, p))
      BY <1>1, <2>2, <2>3, <3>1 DEF DiskTyped
    <3>3. Append(<<>>, Block(cur, p)) = <<Block(cur, p)>>
      OBVIOUS
    <3>4. stage'[p] # 0
      BY <1>1, <2>2, <2>3 DEF ConsoleTyped
    <3> QED
      BY <2>2, <3>2, <3>3, <3>4 DEF Block
  <2>4. CASE p # q
    BY <1>1, <1>3, <2>2, <2>4 DEF DiskTyped, ConsoleTyped, Merging, Block
  <2> QED
    BY <2>3, <2>4
<1>5. CASE \E q \in Pieces : PieceDone(q)
  <2>1. PICK q \in Pieces : PieceDone(q)
    BY <1>5
  <2>2. /\ stage[q] = 1 /\ stage' = [stage EXCEPT ![q] = 2] /\ ~Restart
        /\ UNCHANGED <<cpc, cur, idx, pieceFile>>
    BY <2>1 DEF PieceDone, Arrived, Restart, disk
  <2>3. stage'[p] # 0 <=> stage[p] # 0
    BY <1>1, <2>2 DEF ConsoleTyped
  <2> QED
    BY <1>3, <2>2, <2>3 DEF Block
<1>6. CASE (\E t \in Torrents : Download(t)) \/ JoinAll \/ Complete
  <2>1. CASE \E t \in Torrents : Download(t)
    BY <1>3, <2>1 DEF Download, Restart, disk, Merging
  <2>2. CASE JoinAll
    <3>1. /\ cpc = "threads" /\ cpc' = "merge" /\ idx' = 1 /\ stage[p] = 2
          /\ UNCHANGED <<cur, pieceFile>> /\ ~Restart
      BY <2>2 DEF JoinAll, Restart
    <3>2. p >= 1
      BY <1>1 DEF Pieces
    <3> QED
      BY <1>3, <3>1, <3>2 DEF Merging, Block
  <2>3. CASE Complete
    BY <1>1, <1>3, <2>3 DEF Complete, Restart, disk, Merging, Pieces
  <2> QED
    BY <1>6, <2>1, <2>2, <2>3
<1>7. CASE MergePiece
  BY <1>3, <1>7 DEF MergePiece, Restart, Merging, Block
<1>8. CASE RemovePiece
  <2>1. /\ cpc = "remove" /\ cpc' = "merge" /\ idx' = idx + 1 /\ UNCHANGED cur
        /\ pieceFile' = [pieceFile EXCEPT ![idx] = <<>>] /\ ~Restart
    BY <1>8 DEF RemovePiece, Removed, Restart
  <2>2. p \in Nat /\ idx \in Nat
    BY <1>1 DEF ConsoleTyped, Pieces
  <2>3. CASE p = idx
    BY <1>1, <2>1, <2>2, <2>3 DEF DiskTyped
  <2>4. CASE p # idx
    <3>1. p >= idx' <=> p >= idx
      BY <2>1, <2>2, <2>4
    <3>2. pieceFile'[p] = pieceFile[p]
      BY <1>1, <2>1, <2>4 DEF DiskTyped
    <3> QED
      BY <1>3, <2>1, <3>1, <3>2 DEF Merging, Block
  <2> QED
    BY <2>3, <2>4
<1>9. CASE \/ \E t \in Torrents : Publish(t) \/ GetTorrent(t)
           \/ PushBack \/ Pushed \/ SetStatus
  <2>1. /\ cpc \notin {"threads", "merge", "remove"}
        /\ cpc' \notin {"threads", "merge", "remove"}
        /\ UNCHANGED pieceFile /\ ~Restart
    BY <1>9 DEF Publish, GetTorrent, PushBack, Pushed, SetStatus, disk, Restart
  <2> QED
    BY <1>3, <2>1 DEF Merging
<1>10. CASE ~Console /\ ~Restart
  <2>1. UNCHANGED <<cpc, cur, idx, stage, pieceFile>>
    BY <1>10, OnlyConsole
  <2> QED
    BY <1>3, <1>10, <2>1 DEF Block
<1> QED
  BY <1>2, <1>4, <1>5, <1>6, <1>7, <1>8, <1>9, <1>10 DEF Console

LEMMA StepPublishedOK ==
  ASSUME Inv, [Next]_vars
  PROVE  PublishedOK'
<1> SUFFICES ASSUME NEW t \in Own, InVector(t)', ~(cpc' = "status" /\ cur' = t)
             PROVE  status'[t] = 1
  BY DEF PublishedOK
<1>1. ConsoleTyped /\ ConsoleOK /\ PublishedOK /\ t \in Torrents /\ t \notin Fetched
  BY NameFacts DEF Inv
<1>2. UNCHANGED torrents => InVector(t)
  BY VectorSame
<1>3. CASE \E v \in Torrents : Publish(v) \/ GetTorrent(v)
  <2>1. PICK v \in Torrents : Publish(v) \/ GetTorrent(v)
    BY <1>3
  <2>2. /\ cpc = "menu" /\ ~InVector(v) /\ UNCHANGED torrents
        /\ \E g : status' = [status EXCEPT ![v] = g]
    BY <2>1 DEF Publish, GetTorrent
  <2>3. t # v
    BY <1>2, <2>2
  <2> QED
    BY <1>1, <1>2, <2>2, <2>3 DEF PublishedOK, ConsoleTyped
<1>4. CASE Pushed
  <2>1. \A v : InVector(v)' <=> InVector(v) \/ v = cur
    BY <1>1, <1>4, VectorGrows DEF Pushed, ConsoleTyped
  <2> QED
    BY <1>1, <1>4, <2>1 DEF Pushed, PublishedOK
<1>5. CASE SetStatus \/ Complete
  <2>1. status' = [status EXCEPT ![cur] = 1] /\ UNCHANGED <<cur, torrents>>
    BY <1>5 DEF SetStatus, Complete
  <2> QED
    BY <1>1, <1>2, <2>1 DEF PublishedOK, ConsoleTyped
<1>6. CASE \/ \E v \in Torrents : Download(v)
           \/ PushBack \/ JoinAll \/ MergePiece \/ RemovePiece
           \/ \E p \in Pieces : PieceArrives(p) \/ PieceDone(p)
  <2>1. UNCHANGED <<torrents, status>> /\ cpc # "status"
    BY <1>6 DEF Download, PushBack, JoinAll, MergePiece, RemovePiece,
                PieceArrives, PieceDone, shared
  <2> QED
    BY <1>1, <1>2, <2>1 DEF PublishedOK
<1>7. CASE Restart
  BY <1>7 DEF Restart, InVector, Range
<1>8. CASE ~Console /\ ~Restart
  <2>1. UNCHANGED <<torrents, status, cpc, cur>>
    BY <1>8, OnlyConsole
  <2> QED
    BY <1>1, <1>2, <2>1 DEF PublishedOK
<1> QED
  BY <1>3, <1>4, <1>5, <1>6, <1>7, <1>8 DEF Console

(* The sequence of the first k blocks of a torrent. *)
LEMMA BlocksInOrder ==
  ASSUME NEW t \in Torrents, NEW k \in 0..NP
  PROVE  /\ [p \in 1..k |-> Block(t, p)] \in Seq(BlockType)
         /\ Len([p \in 1..k |-> Block(t, p)]) = k
         /\ k = 0 => [p \in 1..k |-> Block(t, p)] = <<>>
         /\ k = NP => [p \in 1..k |-> Block(t, p)] = Whole(t)
         /\ k < NP => Append([p \in 1..k |-> Block(t, p)], Block(t, k + 1))
                      = [p \in 1..k + 1 |-> Block(t, p)]
<1> DEFINE F(j) == [p \in 1..j |-> Block(t, p)]
<1>1. NP \in Nat /\ k \in Nat
  BY DEF NodeAssumption
<1>2. ASSUME NEW j \in 0..NP
      PROVE  F(j) \in Seq(BlockType) /\ Len(F(j)) = j
  <2>1. \A p \in 1..j : Block(t, p) \in BlockType
    BY <1>1, BlockFacts
  <2>2. F(j) \in [1..j -> BlockType] /\ j \in Nat
    BY <1>1, <2>1
  <2> QED
    BY <2>2, IsASeq, LenProperties
<1>3. k = 0 => F(k) = <<>>
  BY <1>2, EmptySeq
<1>4. k = NP => F(k) = Whole(t)
  BY DEF Whole, Pieces
<1>5. ASSUME k < NP
      PROVE  Append(F(k), Block(t, k + 1)) = F(k + 1)
  <2>1. Block(t, k + 1) \in BlockType /\ F(k) \in Seq(BlockType) /\ Len(F(k)) = k
    BY <1>1, <1>2, <1>5, BlockFacts
  <2>2. F(k + 1) \in Seq(BlockType) /\ Len(F(k + 1)) = k + 1
    BY <1>1, <1>2, <1>5
  <2>3. /\ Append(F(k), Block(t, k + 1)) \in Seq(BlockType)
        /\ Len(Append(F(k), Block(t, k + 1))) = k + 1
        /\ \A i \in 1..k : Append(F(k), Block(t, k + 1))[i] = F(k)[i]
        /\ Append(F(k), Block(t, k + 1))[k + 1] = Block(t, k + 1)
    BY <2>1, AppendProperties
  <2>4. \A i \in 1..k + 1 : Append(F(k), Block(t, k + 1))[i] = F(k + 1)[i]
    BY <1>1, <2>3
  <2> QED
    BY <2>2, <2>3, <2>4, SeqEqual
<1> QED
  BY <1>2, <1>3, <1>4, <1>5

(* Steps that leave the merge alone. *)
LEMMA PlacedSame ==
  ASSUME NEW t, Placed(t), UNCHANGED <<out, present>>,
         status'[t] = status[t], done'[t] = done[t],
         UNCHANGED <<cpc, cur, idx, outName, stage>>
         \/ (cpc \notin Merging /\ cpc' \notin Merging),
         \A p \in done[t] : cpc = "threads" /\ cur = t /\ stage[p] = 2
                              => cpc' = "threads" /\ cur' = t /\ stage'[p] = 2
  PROVE  Placed(t)'
BY DEF Placed, Growing, Merged, Merging, Block, Name, Whole

(* The merge of t begins: its name was free, or it has a file already. *)
LEMMA JoinPlaced ==
  ASSUME Inv, JoinAll, NEW t \in Fetched, Placed(t)
  PROVE  Placed(t)'
<1>1. ConsoleTyped /\ NamesOK /\ t \in Torrents /\ cur \in Torrents
  BY NameFacts DEF Inv, ConsoleTyped
<1>2. /\ cpc = "threads" /\ cpc' = "merge" /\ idx' = 1
      /\ outName' = IF Name(cur) \in present THEN SecondName(cur) ELSE Name(cur)
      /\ present' = present \union {outName'}
      /\ UNCHANGED <<cur, status, done, out>>
  BY DEF JoinAll, shared
<1>3. \A p \in done[t] : status[t] = 1 \/ cur = t
  BY <1>2 DEF Placed, Merging
<1>4. CASE t = cur /\ Name(t) \notin present
  <2>1. outName' = Name(t) /\ Growing(t)' /\ Merged' = 0
    BY <1>2, <1>4 DEF Growing, Merged, Merging, Name
  <2>2. out'[Name(t)] = <<>> /\ status[t] # 1
    BY <1>1, <1>2, <1>4, NameFacts DEF NamesOK, Placed
  <2>3. [p \in 1..0 |-> Block(t, p)] = <<>>
    BY <1>1, BlockFacts, BlocksInOrder
  <2> QED
    BY <1>2, <1>3, <2>1, <2>2, <2>3 DEF Placed, Merging, Block, Name
<1>5. CASE t # cur \/ Name(t) \in present
  <2>1. ~Growing(t) /\ ~Growing(t)'
    BY <1>1, <1>2, <1>5, NameFacts DEF Growing, Merging, Name
  <2>2. Name(t) \in present' <=> Name(t) \in present
    BY <1>1, <1>2, <1>5, NameFacts
  <2> QED
    BY <1>2, <1>3, <2>1, <2>2 DEF Placed, Merging, Whole, Block, Name
<1> QED
  BY <1>4, <1>5

(* One more piece is appended. *)
LEMMA MergePlaced ==
  ASSUME Inv, MergePiece, clean, NEW t \in Fetched, Placed(t)
  PROVE  Placed(t)'
<1>1. ConsoleTyped /\ ConsoleOK /\ DiskTyped /\ t \in Torrents /\ cur \in Torrents
  BY NameFacts DEF Inv, ConsoleTyped
<1>2. /\ cpc = "merge" /\ cpc' = "remove" /\ idx <= NP /\ alive
      /\ out' = [out EXCEPT ![outName] = Append(@, Head(pieceFile[idx]))]
      /\ UNCHANGED <<cur, idx, outName, status, done, present>>
  BY DEF MergePiece, shared
<1>3. idx \in Nat /\ idx \in Pieces /\ idx - 1 \in 0..NP /\ NP \in Nat
  BY <1>1, <1>2 DEF ConsoleTyped, Pieces, NodeAssumption
<1>4. Growing(t)' <=> Growing(t)
  BY <1>2 DEF Growing, Merging, Name
<1>5. CASE Growing(t)
  <2>1. cur = t /\ outName = Name(t) /\ Name(t) \in present
    BY <1>1, <1>2, <1>5 DEF Growing, ConsoleOK
  <2>2. pieceFile[idx] = <<Block(t, idx)>>
    <3>1. PieceFilesOK /\ cpc \in Merging /\ idx >= idx
      BY <1>2, <1>3 DEF Inv, Merging
    <3> QED
      BY <1>2, <1>3, <2>1, <3>1 DEF PieceFilesOK
  <2>3. out[Name(t)] = [p \in 1..idx - 1 |-> Block(t, p)]
    BY <1>2, <1>5, <2>1 DEF Placed, Merged
  <2>4. out'[Name(t)] = Append(out[Name(t)], Block(t, idx))
    <3>1. Head(pieceFile[idx]) = Block(t, idx)
      BY <2>2
    <3>2. out'[outName] = Append(out[outName], Head(pieceFile[idx]))
      BY <1>1, <1>2 DEF DiskTyped, ConsoleTyped
    <3> QED
      BY <2>1, <3>1, <3>2
  <2>5. out'[Name(t)] = [p \in 1..idx |-> Block(t, p)]
    BY <1>1, <1>3, <2>3, <2>4, BlocksInOrder
  <2>6. Merged' = idx
    BY <1>2 DEF Merged
  <2> QED
    BY <1>2, <1>4, <1>5, <2>1, <2>5, <2>6 DEF Placed, Merging, Block, Name
<1>6. CASE ~Growing(t)
  <2>1. outName # Name(t)
    <3>1. outName \in {Name(cur), SecondName(cur)}
      BY <1>1, <1>2 DEF ConsoleOK, Merging
    <3> QED
      BY <1>1, <1>2, <1>6, <3>1, NameFacts DEF Growing, Merging
  <2>2. out'[Name(t)] = out[Name(t)]
    BY <1>1, <1>2, <2>1, NameFacts DEF DiskTyped
  <2> QED
    BY <1>2, <1>4, <1>6, <2>2 DEF Placed, Merging, Whole, Block, Name
<1> QED
  BY <1>5, <1>6

(* The last round of the merge is over. *)
LEMMA CompletePlaced ==
  ASSUME Inv, Complete, NEW t \in Fetched, Placed(t)
  PROVE  Placed(t)'
<1>1. ConsoleTyped /\ ConsoleOK /\ t \in Torrents /\ cur \in Torrents
  BY NameFacts DEF Inv, ConsoleTyped
<1>2. /\ cpc = "merge" /\ cpc' = "menu" /\ idx = NP + 1
      /\ status' = [status EXCEPT ![cur] = 1]
      /\ UNCHANGED <<cur, outName, done, out, present>>
  BY DEF Complete, disk
<1>3. ~Growing(t)'
  BY <1>2 DEF Growing, Merging
<1>4. NP \in Nat /\ Merged = NP
  BY <1>2 DEF Merged, NodeAssumption
<1>5. [p \in 1..NP |-> Block(t, p)] = Whole(t)
  BY DEF Whole, Pieces
<1>6. Name(t) \in present => out'[Name(t)] = Whole(t)
  BY <1>2, <1>4, <1>5 DEF Placed
<1>7. CASE t = cur
  <2>1. Name(t) \in present /\ status'[t] = 1
    BY <1>1, <1>2, <1>7 DEF ConsoleOK, Merging, ConsoleTyped
  <2> QED
    BY <1>2, <1>3, <1>6, <2>1 DEF Placed, Whole, Block, Name
<1>8. CASE t # cur
  <2>1. status'[t] = status[t] /\ ~Growing(t)
    BY <1>1, <1>2, <1>8 DEF ConsoleTyped, Growing
  <2> QED
    BY <1>2, <1>3, <1>6, <1>8, <2>1 DEF Placed, Whole, Block, Name, Merging
<1> QED
  BY <1>7, <1>8

(* The other statements of the console thread. *)
LEMMA ConsolePlaced ==
  ASSUME Inv, Console, ~JoinAll, ~MergePiece, ~Complete,
         NEW t \in Fetched, Placed(t)
  PROVE  Placed(t)'
<1>1. ConsoleTyped /\ ConsoleOK /\ t \in Torrents /\ t \notin Own
  BY NameFacts DEF Inv
<1>2. CASE \E v \in Torrents : Publish(v)
  <2>1. PICK v \in Torrents : Publish(v)
    BY <1>2
  <2>2. v \in Own /\ cpc = "menu" /\ cpc' = "push" /\ UNCHANGED <<out, present>>
    BY <2>1 DEF Publish, disk
  <2>3. t # v
    BY <1>1, <2>2
  <2>4. status'[t] = status[t] /\ done'[t] = done[t]
    BY <1>1, <2>1, <2>3 DEF Publish, ConsoleTyped
  <2> QED
    BY <2>2, <2>4, PlacedSame DEF Merging
<1>3. CASE \E v \in Torrents : GetTorrent(v)
  <2>1. PICK v \in Torrents : GetTorrent(v)
    BY <1>3
  <2>2. cpc = "menu" /\ cpc' = "push" /\ UNCHANGED <<out, present>>
    BY <2>1 DEF GetTorrent, disk
  <2>3. CASE t # v
    <3>1. status'[t] = status[t] /\ done'[t] = done[t]
      BY <1>1, <2>1, <2>3 DEF GetTorrent, ConsoleTyped
    <3> QED
      BY <2>2, <3>1, PlacedSame DEF Merging
  <2>4. CASE t = v
    <3>1. status'[t] = 0 /\ done'[t] = {}
      BY <1>1, <2>1, <2>4 DEF GetTorrent, ConsoleTyped
    <3>2. ~Growing(t) /\ ~Growing(t)'
      BY <2>2 DEF Growing, Merging
    <3> QED
      BY <2>2, <3>1, <3>2 DEF Placed, Whole, Block, Name
  <2> QED
    BY <2>3, <2>4
<1>4. CASE (\E v \in Torrents : Download(v)) \/ PushBack \/ Pushed
  <2>1. /\ cpc \notin {"threads", "merge", "remove"}
        /\ cpc' \notin {"merge", "remove"}
        /\ UNCHANGED <<out, present, status, done>>
    BY <1>4 DEF Download, PushBack, Pushed, disk, shared
  <2> QED
    BY <2>1, PlacedSame DEF Merging
<1>5. CASE SetStatus
  <2>1. /\ cpc = "status" /\ cpc' = "menu" /\ UNCHANGED <<out, present, done>>
        /\ status' = [status EXCEPT ![cur] = 1]
    BY <1>5 DEF SetStatus, disk
  <2>2. cur # t
    BY <1>1, <2>1 DEF ConsoleOK
  <2>3. status'[t] = status[t]
    BY <1>1, <2>1, <2>2 DEF ConsoleTyped
  <2> QED
    BY <2>1, <2>3, PlacedSame DEF Merging
<1>6. CASE \E q \in Pieces : PieceArrives(q)
  <2>1. PICK q \in Pieces : PieceArrives(q)
    BY <1>6
  <2>2. /\ cpc = "threads" /\ stage[q] = 0 /\ stage' = [stage EXCEPT ![q] = 1]
        /\ UNCHANGED <<cpc, cur, out, present, status, done>>
    BY <2>1 DEF PieceArrives, shared
  <2>3. \A p \in done[t] : stage[p] = 2 => stage'[p] = 2
    BY <1>1, <2>2 DEF ConsoleTyped
  <2> QED
    BY <2>2, <2>3, PlacedSame DEF Merging
<1>7. CASE \E q \in Pieces : PieceDone(q)
  <2>1. PICK q \in Pieces : PieceDone(q)
    BY <1>7
  <2>2. /\ cpc = "threads" /\ stage' = [stage EXCEPT ![q] = 2]
        /\ done' = [done EXCEPT ![cur] = @ \union {q}]
        /\ UNCHANGED <<cpc, cur, out, present, status>>
    BY <2>1 DEF PieceDone, Marked, disk
  <2>3. done'[t] = IF t = cur THEN done[t] \union {q} ELSE done[t]
    BY <1>1, <2>2 DEF ConsoleTyped
  <2>4. stage'[q] = 2 /\ \A p \in done[t] : stage[p] = 2 => stage'[p] = 2
    BY <1>1, <2>2 DEF ConsoleTyped
  <2>5. ~Growing(t) /\ ~Growing(t)'
    BY <2>2 DEF Growing, Merging
  <2> QED
    BY <2>2, <2>3, <2>4, <2>5 DEF Placed, Whole, Block, Name, Merging
<1>8. CASE RemovePiece
  <2>1. /\ cpc = "remove" /\ cpc' = "merge" /\ idx' = idx + 1
        /\ UNCHANGED <<cur, outName, out, present, status, done>>
    BY <1>8 DEF RemovePiece, shared
  <2>2. Merged' = Merged
    BY <1>1, <2>1 DEF Merged, ConsoleTyped
  <2>3. Growing(t)' <=> Growing(t)
    BY <2>1 DEF Growing, Merging, Name
  <2> QED
    BY <2>1, <2>2, <2>3 DEF Placed, Whole, Block, Name, Merging
<1> QED
  BY <1>2, <1>3, <1>4, <1>5, <1>6, <1>7, <1>8 DEF Console

LEMMA StepFilesOK ==
  ASSUME Inv, [Next]_vars
  PROVE  FilesOK'
<1> SUFFICES ASSUME alive', clean', NEW t \in Fetched, t \notin stale'
             PROVE  Placed(t)'
  BY DEF FilesOK
<1>1. t \in Torrents
  BY NameFacts
<1>2. CASE Restart
  <2>1. Name(t) \in present => out[Name(t)] = Whole(t)
    BY <1>2 DEF Restart
  <2>2. /\ cpc' = "menu" /\ UNCHANGED <<out, present>>
        /\ status'[t] = 0 /\ done'[t] = {}
    BY <1>1, <1>2 DEF Restart, disk, NoStatus, NothingDone
  <2>3. ~Growing(t)'
    BY <2>2 DEF Growing, Merging
  <2> QED
    BY <2>1, <2>2, <2>3 DEF Placed, Whole, Block, Name
<1>3. CASE ~Restart
  <2>1. alive /\ clean /\ t \notin stale
    BY <1>3, AliveBefore
  <2>2. Placed(t)
    BY <2>1 DEF Inv, FilesOK
  <2>3. CASE Console
    BY <2>1, <2>2, <2>3, JoinPlaced, MergePlaced, CompletePlaced, ConsolePlaced
  <2>4. CASE ~Console
    <3>1. UNCHANGED <<cpc, cur, idx, outName, stage, present, status, done>>
      BY <1>3, <2>4, OnlyConsole
    <3>2. UNCHANGED out
      BY <2>4, OnlyMerge
    <3> QED
      BY <2>2, <3>1, <3>2, PlacedSame
  <2> QED
    BY <2>3, <2>4
<1> QED
  BY <1>2, <1>3

-----------------------------------------------------------------------------
(* An undisturbed request for data *)

(* A step after which the console, the thread and the shared memory look    *)
(* the same to the request.                                                 *)
LEMMA ServiceSame ==
  ASSUME ServiceOK, UNCHANGED <<cpc, cur, idx, torrents, status, clean, stale>>,
         UNCHANGED w
  PROVE  ServiceOK'
<1>1. UNCHANGED Undisturbed
  BY DEF Undisturbed, Sound
<1>2. ASSUME ServedAt(w.req.torrent, w.req.piece)
      PROVE  ServedAt(w.req.torrent, w.req.piece)'
  BY <1>2 DEF ServedAt, InVector, Which, Block
<1> QED
  BY <1>1, <1>2 DEF ServiceOK

(* A step of the thread after which it is not answering any more. *)
LEMMA ServiceOver ==
  ASSUME w'.pc \notin Answering
  PROVE  ServiceOK'
BY DEF ServiceOK, Undisturbed, Answering

(* What the request finds when it opens the file it chose. *)
LEMMA FileFound ==
  ASSUME Inv, alive, w.pc = "open", Undisturbed
  PROVE  LET t == w.req.torrent
             p == w.req.piece
         IN  /\ CanOpen
             /\ Which(w.st, p) \in DOMAIN ToOpen
             /\ ToOpen[Which(w.st, p)] = Block(t, p)
<1> DEFINE t == w.req.torrent
           p == w.req.piece
<1>1. /\ w.pc \in Answering /\ w.req \in Request /\ t \in Torrents
      /\ p \in Pieces /\ p \in done[t] /\ clean /\ t \notin stale
  BY RequestServed, PieceAsked, RequestFacts DEF Answering, Undisturbed, Sound
<1>2. /\ InVector(t) /\ ~(cpc = "status" /\ t = cur) /\ w.st = status[t]
      /\ cpc \in Merging /\ t = cur => p >= idx
  BY DEF Inv, ServiceOK, ServedAt
<1>3. w.st \in {0, 1}
  BY DEF Inv, WireTyped, Worker
<1>4. DOMAIN Whole(t) = Pieces /\ Whole(t)[p] = Block(t, p)
  BY <1>1, BlockFacts
<1>5. CASE t \in Own
  <2>1. w.st = 1
    BY <1>2, <1>5 DEF Inv, PublishedOK
  <2>2. Name(t) \in present /\ out[Name(t)] = Whole(t)
    BY <1>5 DEF Inv, NamesOK
  <2>3. CanOpen /\ ToOpen = Whole(t) /\ Which(w.st, p) = p
    BY <2>1, <2>2 DEF CanOpen, ToOpen, Which
  <2> QED
    BY <1>1, <1>4, <2>3
<1>6. CASE t \in Fetched
  <2>1. Placed(t)
    BY <1>1, <1>6 DEF Inv, FilesOK
  <2>2. CASE w.st = 1
    <3>1. Name(t) \in present /\ out[Name(t)] = Whole(t)
      BY <1>2, <2>1, <2>2 DEF Placed
    <3>2. CanOpen /\ ToOpen = Whole(t) /\ Which(w.st, p) = p
      BY <2>2, <3>1 DEF CanOpen, ToOpen, Which
    <3> QED
      BY <1>1, <1>4, <3>2
  <2>3. CASE w.st = 0
    <3>1. \/ cpc = "threads" /\ cur = t /\ stage[p] = 2
          \/ cpc \in Merging /\ cur = t /\ p >= idx
      BY <1>1, <1>2, <2>1, <2>3 DEF Placed
    <3>2. PieceFilesOK
      BY DEF Inv
    <3>3. pieceFile[p] = <<Block(t, p)>>
      <4>1. alive /\ clean /\ p \in Pieces
        BY <1>1
      <4>2. \/ cpc = "threads" /\ stage[p] # 0
            \/ cpc \in Merging /\ p >= idx
        BY <3>1
      <4>3. cur = t
        BY <3>1
      <4> HIDE DEF t, p
      <4> QED
        BY <3>2, <4>1, <4>2, <4>3 DEF PieceFilesOK
    <3>4. t \notin Own
      BY <1>1, <1>6, NameFacts
    <3>5. /\ ToOpen = <<Block(t, p)>> /\ Which(w.st, p) = 1
          /\ CanOpen <=> ToOpen # <<>>
      BY <2>3, <3>3, <3>4 DEF ToOpen, Location, Which, CanOpen
    <3> QED
      BY <3>5
  <2> QED
    BY <1>3, <2>2, <2>3
<1> QED
  BY <1>1, <1>5, <1>6 DEF Torrents

(* The console thread: a step either leaves the request alone or marks it   *)
(* as disturbed.                                                            *)
LEMMA ConsoleServed ==
  ASSUME Inv, [Next]_vars, Console
  PROVE  ServiceOK'
<1>1. /\ ConsoleTyped /\ ConsoleOK /\ w \in Worker
      /\ UNCHANGED <<alive, clean, stale>>
  BY ConsoleAlone DEF Inv, WireTyped
<1>2. PICK b \in BOOLEAN : w' = [w EXCEPT !.steady = b]
  BY <1>1, ConsoleAlone
<1>3. /\ w'.pc = w.pc /\ w'.req = w.req /\ w'.st = w.st /\ w'.file = w.file
      /\ w'.steady = b
  BY <1>1, <1>2 DEF Worker
<1>4. alive
  BY DEF Console, Publish, GetTorrent, Download, PushBack, Pushed, SetStatus,
         PieceArrives, PieceDone, JoinAll, MergePiece, RemovePiece, Complete
<1>5. b => w.steady
  BY <1>1, <1>2, <1>3
  DEF Console, Publish, GetTorrent, Download, PushBack, Pushed, SetStatus,
      PieceArrives, PieceDone, JoinAll, MergePiece, RemovePiece, Complete, Disturb,
      Worker
<1> SUFFICES ASSUME Undisturbed'
             PROVE  ServedAt(w.req.torrent, w.req.piece)'
  BY DEF ServiceOK
<1>6. Undisturbed /\ b
  BY <1>1, <1>3, <1>5 DEF Undisturbed, Sound
<1>7. /\ w.pc \in Answering /\ w.req.torrent \in Torrents /\ w.req.piece \in Pieces
       /\ w.req.type = 20 /\ ServedAt(w.req.torrent, w.req.piece)
  BY <1>4, <1>6, RequestServed, PieceAsked, RequestFacts
  DEF Undisturbed, Inv, ServiceOK
<1>8. PICK t \in Torrents, p \in Pieces : w.req.torrent = t /\ w.req.piece = p
  BY <1>7
<1>9. ServedAt(t, p) /\ w.pc \in Answering /\ w.req.type = 20
  BY <1>7, <1>8
<1>10. p \in Nat /\ p >= 1
  BY DEF Pieces
<1>11. w'.req.torrent = t /\ w'.req.piece = p
  BY <1>3, <1>8
<1>12. SUFFICES ServedAt(t, p)'
  BY <1>11
<1>13. ASSUME w.pc = "look" => cpc' # "growing",
              w.pc # "look" => InVector(t)',
              ~(cpc' = "status" /\ t = cur'),
              cpc' \in Merging /\ t = cur' => p >= idx',
              w.pc \in {"open", "read"} => status'[t] = status[t]
       PROVE  ServedAt(t, p)'
  BY <1>3, <1>9, <1>13 DEF ServedAt, Which, Block
<1>14. ASSUME UNCHANGED torrents
       PROVE  w.pc # "look" => InVector(t)'
  BY <1>9, <1>14, VectorSame DEF ServedAt
<1>15. ASSUME UNCHANGED <<torrents, status>>, cpc' # "growing",
              cpc' # "status" \/ UNCHANGED <<cpc, cur>>,
              cpc' \in Merging /\ t = cur' => p >= idx'
       PROVE  ServedAt(t, p)'
  BY <1>9, <1>15, <1>13, <1>14 DEF ServedAt
<1>16. CASE \E v \in Torrents : Publish(v) \/ GetTorrent(v)
  <2>1. PICK v \in Torrents : Publish(v) \/ GetTorrent(v)
    BY <1>16
  <2>2. /\ ~InVector(v) /\ cpc' = "push" /\ UNCHANGED torrents
        /\ \E g : status' = [status EXCEPT ![v] = g]
    BY <2>1 DEF Publish, GetTorrent
  <2>3. w.pc \in {"open", "read"} => status'[t] = status[t]
    BY <1>1, <1>9, <1>10, <2>2 DEF ServedAt, ConsoleTyped
  <2> QED
    BY <1>13, <1>14, <2>2, <2>3 DEF Merging
<1>17. CASE \E v \in Torrents : Download(v)
  BY <1>15, <1>17 DEF Download, shared, Merging
<1>18. CASE PushBack
  <2>1. /\ cpc' = "growing" /\ UNCHANGED <<torrents, status>>
        /\ w'.steady = (w.steady /\ ~(w.pc \in Answering /\ w.pc = "look"))
    BY <1>1, <1>18 DEF PushBack, Disturb, shared, Worker
  <2>2. w.pc # "look"
    BY <1>3, <1>6, <1>9, <1>8, <2>1
  <2> QED
    BY <1>9, <1>13, <1>14, <2>1, <2>2 DEF ServedAt, Merging
<1>19. CASE Pushed
  <2>1. /\ cpc = "growing" /\ cpc' \in {"status", "menu"} /\ UNCHANGED <<cur, status>>
        /\ \A v : InVector(v)' <=> InVector(v) \/ v = cur
    BY <1>1, <1>19, VectorGrows DEF Pushed, ConsoleTyped
  <2>2. InVector(t) /\ t # cur /\ w.pc # "look"
    BY <1>1, <1>9, <2>1 DEF ServedAt, ConsoleOK
  <2> QED
    BY <1>13, <2>1, <2>2 DEF Merging
<1>20. CASE SetStatus
  <2>1. /\ cpc = "status" /\ cpc' = "menu" /\ UNCHANGED <<cur, torrents>>
        /\ status' = [status EXCEPT ![cur] = 1]
    BY <1>20 DEF SetStatus
  <2>2. status'[t] = status[t]
    BY <1>1, <1>9, <1>10, <2>1 DEF ServedAt, ConsoleTyped
  <2> QED
    BY <1>9, <1>13, <1>14, <2>1, <2>2 DEF ServedAt, Merging
<1>21. CASE \E q \in Pieces : PieceArrives(q) \/ PieceDone(q)
  <2>1. UNCHANGED <<torrents, status, cpc, cur, idx>> /\ cpc = "threads"
    BY <1>21 DEF PieceArrives, PieceDone, shared
  <2> QED
    BY <1>15, <2>1 DEF Merging
<1>22. CASE JoinAll
  BY <1>10, <1>15, <1>22 DEF JoinAll, shared
<1>23. CASE MergePiece
  <2>1. /\ UNCHANGED <<torrents, status, cur, idx>> /\ cpc = "merge"
        /\ cpc' = "remove"
    BY <1>23 DEF MergePiece, shared
  <2> QED
    BY <1>9, <1>15, <2>1 DEF Merging, ServedAt
<1>24. CASE RemovePiece
  <2>1. /\ UNCHANGED <<torrents, status, cur>> /\ idx' = idx + 1
        /\ cpc = "remove" /\ cpc' = "merge"
    BY <1>24 DEF RemovePiece, shared
  <2>2. w'.steady => ~(w.pc \in Answering /\ AboutCur /\ w.req.piece = idx)
    BY <1>1, <1>24 DEF RemovePiece, Disturb, Worker
  <2>3. t = cur => p # idx
    BY <1>3, <1>6, <1>9, <1>8, <2>2 DEF AboutCur
  <2>4. t = cur => p >= idx + 1
    BY <1>1, <1>9, <1>10, <2>1, <2>3 DEF ServedAt, Merging, ConsoleTyped
  <2> QED
    BY <1>15, <2>1, <2>4
<1>25. CASE Complete
  <2>1. /\ UNCHANGED <<torrents, cur>> /\ cpc' = "menu"
        /\ status' = [status EXCEPT ![cur] = 1]
    BY <1>25 DEF Complete
  <2>2. w'.steady => ~(w.pc \in Answering /\ AboutCur)
    BY <1>1, <1>25 DEF Complete, Disturb, Worker
  <2>3. t # cur
    BY <1>3, <1>6, <1>9, <1>8, <2>2 DEF AboutCur
  <2>4. status'[t] = status[t]
    BY <1>1, <1>10, <2>1, <2>3 DEF ConsoleTyped
  <2> QED
    BY <1>13, <1>14, <2>1, <2>4 DEF Merging
<1> QED
  BY <1>16, <1>17, <1>18, <1>19, <1>20, <1>21, <1>22, <1>23, <1>24, <1>25
  DEF Console

(* The thread itself. *)
LEMMA ThreadServed ==
  ASSUME Inv, [Next]_vars, Uploader
  PROVE  ServiceOK'
<1>1. /\ w \in Worker /\ ThreadOK /\ MainTyped /\ ConsoleTyped /\ ServiceOK
  BY DEF Inv, WireTyped
<1>2. UNCHANGED <<cpc, cur, idx, torrents, status, clean, stale>> /\ alive
  BY DEF Uploader, StartThread, Parse, Lookup, LookupFails, SendReply, ReadStatus,
         OpenFile, SendPiece, SendNothing, LookupRaces, NoFile, BrokenPipe,
         EndsSilently, ProcessEnds, console, shared, life
<1>3. ASSUME w'.req = w.req, w'.steady = w.steady, w.pc \in Answering, Undisturbed'
      PROVE  /\ Undisturbed /\ ServedAt(w.req.torrent, w.req.piece)
             /\ w.req.torrent \in Torrents
  <2>1. Undisturbed
    BY <1>2, <1>3 DEF Undisturbed, Sound
  <2> QED
    BY <1>1, <1>2, <1>3, <2>1, RequestServed, RequestFacts DEF ServiceOK
<1>4. CASE StartThread
  <2>1. w'.pc = "parse"
    BY <1>1, <1>4 DEF StartThread, Worker
  <2> QED
    BY <2>1, ServiceOver DEF Answering
<1>5. CASE Parse
  <2>1. upc = "join" /\ w.pc = "parse" /\ tempsockfd \in Peers
    BY <1>1, <1>2, <1>5 DEF Parse, ThreadOK, MainTyped
  <2>2. InFlight(tempsockfd)
    BY <1>2, <2>1 DEF InFlight
  <2>3. TalkOK(tempsockfd) /\ AskOK(tempsockfd) /\ PeersSimple
    BY <2>1 DEF Inv
  <2>4. instruction = ask[tempsockfd] /\ ppc[tempsockfd] # "off"
    BY <2>2, <2>3 DEF TalkOK
  <2>5. /\ instruction \in Request
        /\ instruction.type = 20 => instruction.piece \in done[instruction.torrent]
    BY <2>3, <2>4 DEF AskOK
  <2>6. instruction.type = 20 => instruction.piece \in Pieces
    BY <1>1, <2>5, RequestFacts DEF ConsoleTyped
  <2>7. /\ w'.req = instruction
        /\ w'.pc = IF instruction.type = 19 THEN "reply" ELSE "look"
        /\ w'.steady = ~Unsettled(instruction.torrent, instruction.piece)
    <3>1. w' = [w EXCEPT
                 !.pc = IF instruction.type = 19 THEN "reply" ELSE "look",
                 !.req = instruction,
                 !.steady = ~Unsettled(instruction.torrent, instruction.piece)]
      BY <1>5 DEF Parse
    <3> HIDE DEF Unsettled
    <3> QED
      BY <1>1, <3>1 DEF Worker
  <2> SUFFICES ASSUME Undisturbed'
               PROVE  ServedAt(w.req.torrent, w.req.piece)'
    BY DEF ServiceOK
  <2>8. /\ w'.pc = "look" /\ instruction.piece \in Pieces
        /\ ~Unsettled(instruction.torrent, instruction.piece)
    <3>1. w'.pc \in Answering /\ w'.req.type = 20 /\ w'.steady
      BY DEF Undisturbed, Answering
    <3>2. instruction.type = 20
      BY <2>7, <3>1
    <3>3. ~Unsettled(instruction.torrent, instruction.piece)
      BY <2>7, <3>1, Zenon
    <3> QED
      BY <2>6, <2>7, <3>2, <3>3
  <2>9. /\ cpc # "growing" /\ ~(cpc = "status" /\ instruction.torrent = cur)
        /\ cpc \in Merging /\ instruction.torrent = cur => instruction.piece >= idx
    BY <1>1, <2>8 DEF Unsettled, Merging, ConsoleTyped, Pieces
  <2> QED
    BY <1>2, <2>7, <2>8, <2>9 DEF ServedAt, Merging
<1>6. CASE Lookup
  <2>1. /\ w.pc = "look" /\ Finds(w.req.torrent)
        /\ w'.req = w.req /\ w'.steady = w.steady
        /\ w'.pc = IF w.req.type = 20 THEN "status" ELSE "reply"
    BY <1>1, <1>6 DEF Lookup, Worker
  <2> SUFFICES ASSUME Undisturbed'
               PROVE  ServedAt(w.req.torrent, w.req.piece)'
    BY DEF ServiceOK
  <2>2. Undisturbed /\ ServedAt(w.req.torrent, w.req.piece)
    BY <1>3, <2>1 DEF Answering
  <2>3. w'.pc = "status"
    BY <2>1, <2>2 DEF Undisturbed
  <2> QED
    BY <1>2, <2>1, <2>2, <2>3 DEF ServedAt, Finds, InVector, Merging
<1>7. CASE LookupFails \/ SendReply \/ SendPiece \/ SendNothing
  <2>1. w'.pc = "ended"
    BY <1>7, WorkerFacts
    DEF LookupFails, SendReply, SendPiece, SendNothing, EndsSilently
  <2> QED
    BY <2>1, ServiceOver DEF Answering
<1>8. CASE ReadStatus
  <2>1. /\ w.pc = "status" /\ w'.req = w.req /\ w'.steady = w.steady
        /\ w'.pc = "open" /\ w'.st = status[w.req.torrent]
    BY <1>1, <1>8 DEF ReadStatus, Worker
  <2> SUFFICES ASSUME Undisturbed'
               PROVE  ServedAt(w.req.torrent, w.req.piece)'
    BY DEF ServiceOK
  <2>2. ServedAt(w.req.torrent, w.req.piece)
    BY <1>3, <2>1 DEF Answering
  <2> QED
    BY <1>2, <2>1, <2>2 DEF ServedAt, InVector, Merging
<1>9. CASE OpenFile
  <2>1. /\ w.pc = "open" /\ w'.req = w.req /\ w'.steady = w.steady
        /\ w'.pc = "read" /\ w'.st = w.st /\ w'.file = ToOpen
    BY <1>1, <1>9 DEF OpenFile, Worker
  <2> SUFFICES ASSUME Undisturbed'
               PROVE  ServedAt(w.req.torrent, w.req.piece)'
    BY DEF ServiceOK
  <2>2. Undisturbed /\ ServedAt(w.req.torrent, w.req.piece)
    BY <1>3, <2>1 DEF Answering
  <2>3. /\ Which(w.st, w.req.piece) \in DOMAIN ToOpen
        /\ ToOpen[Which(w.st, w.req.piece)] = Block(w.req.torrent, w.req.piece)
    BY <1>2, <2>1, <2>2, FileFound
  <2> QED
    BY <1>2, <2>1, <2>2, <2>3 DEF ServedAt, InVector, Merging, Which, Block
<1>10. CASE LookupRaces
  <2>1. /\ w.pc = "look" /\ cpc = "growing"
        /\ w'.req = w.req /\ w'.steady = w.steady
    BY <1>1, <1>10 DEF LookupRaces, Worker
  <2>2. ASSUME Undisturbed'
        PROVE  FALSE
    BY <1>3, <2>1, <2>2 DEF Answering, ServedAt
  <2> QED
    BY <2>2 DEF ServiceOK
<1>11. CASE NoFile
  <2>1. w.pc = "open" /\ ~CanOpen /\ w'.req = w.req /\ w'.steady = w.steady
    BY <1>1, <1>11 DEF NoFile, Worker
  <2>2. ASSUME Undisturbed'
        PROVE  FALSE
    <3>1. Undisturbed
      BY <1>3, <2>1, <2>2 DEF Answering
    <3> QED
      BY <1>2, <2>1, <3>1, FileFound
  <2> QED
    BY <2>2 DEF ServiceOK
<1>12. CASE BrokenPipe
  <2>1. w'.pc = "pipe"
    BY <1>1, <1>12 DEF BrokenPipe, Worker
  <2> QED
    BY <2>1, ServiceOver DEF Answering
<1> QED
  BY <1>4, <1>5, <1>6, <1>7, <1>8, <1>9, <1>10, <1>11, <1>12 DEF Uploader

LEMMA StepServiceOK ==
  ASSUME Inv, [Next]_vars
  PROVE  ServiceOK'
<1>1. CASE Spawn \/ Restart
  <2>1. w'.pc \in {"start", "none"}
    BY <1>1, WorkerFacts DEF Spawn, Restart
  <2> QED
    BY <2>1, ServiceOver DEF Answering
<1>2. CASE ~Console /\ ~Uploader /\ ~Spawn /\ ~Restart
  <2>1. UNCHANGED <<cpc, cur, idx, torrents, status, clean, stale>>
    BY <1>2, OnlyConsole
  <2>2. UNCHANGED w
    BY <1>2 DEF Next, Main, Accept, StartScan, EndScan, Join, Kill,
                RecvInstruction, Disconnect, Peer, Connect, Next71, Next81, Next91,
                NextData, Choose, Leave, vars
  <2> QED
    BY <2>1, <2>2, ServiceSame DEF Inv
<1> QED
  BY <1>1, <1>2, ConsoleServed, ThreadServed

-----------------------------------------------------------------------------
(* The first state and the theorems *)

LEMMA InitInv ==
  ASSUME Init
  PROVE  Inv
<1>1. NP \in Nat \ {0} /\ MaxDownloads \in Nat /\ MaxFetches \in Nat
  BY DEF NodeAssumption
<1>2. \A S : <<>> \in Seq(S)
  BY EmptySeq
<1>3. /\ cpc = "menu" /\ ~alive = FALSE /\ upc = "select" /\ w = Idle /\ w.pc = "none"
      /\ \A t : ~InVector(t)
  BY WorkerFacts DEF Init, InVector, Range
<1>4. ConsoleTyped
  BY <1>1, <1>2, NameFacts
  DEF Init, ConsoleTyped, NoStage, NoStatus, NothingDone, Pieces
<1>5. MainTyped /\ WorkerTyped
  BY <1>3 DEF Init, MainTyped, WorkerTyped, Answering
<1>6. DiskTyped /\ NamesOK
  <2>1. present \subseteq Names
    BY NameFacts DEF Init, NodeAssumption
  <2>2. \A n \in Names : n[1] \in Own => Whole(n[1]) \in Seq(BlockType)
    BY NameFacts, BlockFacts
  <2>3. <<Unrelated>> \in Seq(BlockType)
    BY BlockFacts
  <2>4. \A n \in Names : out[n] \in Seq(BlockType)
    BY <1>2, <2>2, <2>3 DEF Init
  <2>5. out \in [Names -> Seq(BlockType)]
    BY <2>4 DEF Init
  <2>6. ASSUME NEW t \in Own
        PROVE  Name(t) \in present /\ out[Name(t)] = Whole(t)
    <3>1. Name(t) \in Names /\ Name(t)[1] = t
      BY NameFacts DEF Name
    <3>2. Name(t) \in present
      BY DEF Init
    <3> QED
      BY <3>1, <3>2 DEF Init
  <2>7. \A n \in Names : n \notin present => out[n] = <<>>
    BY DEF Init
  <2> QED
    BY <1>2, <2>1, <2>5, <2>6, <2>7 DEF Init, DiskTyped, NamesOK
<1>7. PeersSimple /\ WireTyped
  BY <1>1, <1>2, <1>3, WorkerFacts DEF Init, PeersSimple, WireTyped, NodeAssumption
<1>8. ConsoleOK /\ ThreadOK
  BY <1>3 DEF Init, ConsoleOK, ThreadOK, Downloading, Merging, Answering, NothingDone
<1>9. \A c \in Peers : TalkOK(c) /\ AskOK(c)
  BY <1>3 DEF Init, TalkOK, AskOK, InFlight
<1>10. PieceFilesOK /\ PublishedOK
  BY <1>3 DEF Init, PieceFilesOK, PublishedOK, Merging
<1>11. FilesOK
  <2> SUFFICES ASSUME NEW t \in Fetched, t \notin stale
               PROVE  Placed(t)
    BY DEF FilesOK
  <2>1. Name(t) \notin present
    <3>1. \A v \in Own \union stale : v # t /\ v \in Torrents /\ t \in Torrents
      BY NameFacts DEF Init, NodeAssumption
    <3> QED
      BY <3>1, NameFacts DEF Init
  <2>2. status[t] = 0 /\ done[t] = {}
    BY NameFacts DEF Init, NoStatus, NothingDone
  <2> QED
    BY <2>1, <2>2 DEF Placed
<1>12. ServiceOK
  BY <1>3 DEF ServiceOK, Undisturbed, Answering
<1> QED
  BY <1>4, <1>5, <1>6, <1>7, <1>8, <1>9, <1>10, <1>11, <1>12 DEF Inv

LEMMA StepInv ==
  ASSUME Inv, [Next]_vars
  PROVE  Inv'
BY StepConsoleTyped, StepMainTyped, StepWorkerTyped, StepDiskTyped,
   StepPeersSimple, StepWireTyped, StepConsoleOK, StepThreadOK, StepTalk,
   StepNamesOK, StepPieceFilesOK, StepFilesOK, StepPublishedOK, StepServiceOK
DEF Inv

LEMMA InvTypeOK ==
  ASSUME Inv
  PROVE  TypeOK
<1>1. ASSUME NEW c \in Peers
      PROVE  /\ Len(up[c]) + Len(down[c]) <= 1
             /\ ppc[c] # "off" => ask[c] \in Request
  <2>1. TalkOK(c) /\ AskOK(c)
    BY DEF Inv
  <2>2. Len(<<>>) = 0 /\ Len(<<ask[c]>>) = 1
    OBVIOUS
  <2>3. up[c] \in {<<>>, <<ask[c]>>} /\ (up[c] # <<>> => down[c] = <<>>)
        /\ (down[c] # <<>> => Len(down[c]) = 1)
    BY <2>1 DEF TalkOK
  <2>4. Len(up[c]) + Len(down[c]) <= 1
    <3>1. CASE up[c] = <<>> /\ down[c] = <<>>
      BY <2>2, <3>1
    <3>2. CASE up[c] = <<>> /\ Len(down[c]) = 1
      BY <2>2, <3>2
    <3>3. CASE up[c] = <<ask[c]>> /\ down[c] = <<>>
      BY <2>2, <3>3
    <3> QED
      BY <2>3, <3>1, <3>2, <3>3
  <2> QED
    BY <2>1, <2>4 DEF AskOK
<1> QED
  BY <1>1 DEF Inv, TypeOK, PeersSimple, PeersTyped

LEMMA InvReplyToAsker ==
  ASSUME Inv
  PROVE  ReplyToAsker
<1> SUFFICES ASSUME NEW c \in Peers, down[c] # <<>>
             PROVE  Head(down[c]).to = ask[c]
  BY DEF ReplyToAsker
<1>1. TalkOK(c)
  BY DEF Inv
<1>2. Fits(c, down[c][1])
  BY <1>1 DEF TalkOK
<1> QED
  BY <1>2 DEF Fits

LEMMA InvDoneOnDisk ==
  ASSUME Inv
  PROVE  DoneOnDisk
<1> SUFFICES ASSUME alive, NEW t \in Torrents, Sound(t), NEW p \in done[t]
             PROVE  \/ pieceFile[p] # <<>> /\ Head(pieceFile[p]) = Block(t, p)
                    \/ \E n \in {Name(t), SecondName(t)} \cap present :
                         p \in DOMAIN out[n] /\ out[n][p] = Block(t, p)
  BY DEF DoneOnDisk
<1>1. p \in Pieces /\ p \in Nat /\ p >= 1 /\ clean /\ t \notin stale
  BY DEF Inv, ConsoleTyped, Sound, Pieces
<1>2. DOMAIN Whole(t) = Pieces /\ Whole(t)[p] = Block(t, p)
  BY <1>1, BlockFacts
<1>3. CASE Name(t) \in present /\ out[Name(t)] = Whole(t)
  BY <1>1, <1>2, <1>3
<1>4. CASE pieceFile[p] = <<Block(t, p)>>
  BY <1>4
<1>5. CASE t \in Own
  BY <1>3, <1>5 DEF Inv, NamesOK
<1>6. CASE t \in Fetched
  <2>1. Placed(t) /\ PieceFilesOK /\ ConsoleOK /\ ConsoleTyped
    BY <1>1, <1>6 DEF Inv, FilesOK
  <2>2. CASE status[t] = 1
    BY <1>3, <2>1, <2>2 DEF Placed
  <2>3. CASE \/ cpc = "threads" /\ cur = t /\ stage[p] = 2
             \/ cpc \in Merging /\ cur = t /\ p >= idx
    <3>1. \/ cpc = "threads" /\ stage[p] # 0
          \/ cpc \in Merging /\ p >= idx
      BY <2>3
    <3>2. cur = t
      BY <2>3
    <3>3. pieceFile[p] = <<Block(cur, p)>>
      BY <1>1, <2>1, <3>1 DEF PieceFilesOK
    <3> QED
      BY <1>4, <3>2, <3>3
  <2>4. CASE cpc \in Merging /\ cur = t /\ ~(p >= idx)
    <3>1. /\ outName \in present /\ outName \in {Name(t), SecondName(t)}
          /\ outName = SecondName(t) => Name(t) \in present
      BY <2>1, <2>4 DEF ConsoleOK
    <3>2. CASE Growing(t)
      <4>1. Name(t) \in present /\ out[Name(t)] = [q \in 1..Merged |-> Block(t, q)]
        BY <2>1, <3>1, <3>2 DEF Placed, Growing
      <4>2. Merged \in Nat /\ p \in 1..Merged
        BY <1>1, <2>1, <2>4 DEF Merged, ConsoleTyped
      <4>3. p \in DOMAIN out[Name(t)] /\ out[Name(t)][p] = Block(t, p)
        BY <4>1, <4>2
      <4> QED
        BY <4>1, <4>3
    <3>3. CASE ~Growing(t)
      <4>1. Name(t) \in present
        BY <2>4, <3>1, <3>3 DEF Growing
      <4> QED
        BY <1>3, <2>1, <3>3, <4>1 DEF Placed
    <3> QED
      BY <3>2, <3>3
  <2> QED
    BY <2>1, <2>2, <2>3, <2>4 DEF Placed
<1> QED
  BY <1>5, <1>6 DEF Torrents

LEMMA InvServedRight ==
  ASSUME Inv
  PROVE  ServedRight
<1> SUFFICES ASSUME Undisturbed
             PROVE  /\ w.pc # "crash"
                    /\ w.pc = "read" =>
                         /\ BlockNo \in DOMAIN w.file
                         /\ w.file[BlockNo] = Block(w.req.torrent, w.req.piece)
  BY DEF ServedRight, Undisturbed
<1>1. ServedAt(w.req.torrent, w.req.piece)
  BY DEF Inv, ServiceOK
<1> QED
  BY <1>1 DEF ServedAt, BlockNo

LEMMA Invariant == Spec => []Inv
<1>1. Init => Inv
  BY InitInv
<1>2. Inv /\ [Next]_vars => Inv'
  BY StepInv
<1> QED
  BY <1>1, <1>2, PTL DEF Spec

(* Every variable keeps its type; a connection never holds more than one    *)
(* message, and the loop of the merge ends with the last piece.             *)
THEOREM TypeCorrect == Spec => []TypeOK
BY Invariant, InvTypeOK, PTL

(* The globals instruction and tempsockfd of the select loop never mix up   *)
(* two connections: what arrives at a peer answers its last request.        *)
THEOREM RepliesMatch == Spec => []ReplyToAsker
BY Invariant, InvReplyToAsker, PTL

(* A piece with done = 1 is in its piece file or at its place in the merged *)
(* file, whatever the merge has taken away so far.                          *)
THEOREM AnnouncedOnDisk == Spec => []DoneOnDisk
BY Invariant, InvDoneOnDisk, PTL

(* A request for data that no statement of the console disturbs is answered *)
(* with the piece asked for, out of a file that exists.                     *)
THEOREM UndisturbedServed == Spec => []ServedRight
BY Invariant, InvServedRight, PTL
=============================================================================
