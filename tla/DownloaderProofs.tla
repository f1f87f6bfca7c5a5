-------------------------- MODULE DownloaderProofs --------------------------
(***************************************************************************)
(* Proofs about Downloader, for any number of peers, pieces, chunks and    *)
(* restarts, with every fault the model has.                               *)
(***************************************************************************)
EXTENDS Downloader, TLAPS

USE DEF Uploaders, Pieces

-----------------------------------------------------------------------------
(* The inductive invariant *)

(* The loop index is inside the list the console thread is working on. *)
CurOK ==
  /\ pc = "connect" => cur \in 1..NU + 1
  /\ pc \in {"wait71", "wait81"} => cur \in Uploaders
  /\ pc \in {"assign", "merge"} => cur \in 1..NP + 1
  /\ pc = "remove" => cur \in Pieces

(* The piece loop starts the threads one after the other, and all have      *)
(* ended at the merge.                                                      *)
ThreadsOK ==
  /\ pc \in {"off", "connect", "wait71", "wait81"} => th = Idle
  /\ pc = "assign" => \A p \in Pieces : p >= cur => th[p].pc = "none"
  /\ pc \in {"merge", "remove", "done"} =>
       \A p \in Pieces : th[p].pc = "ended"

(* A thread in an exchange has taken its semaphore: nobody else can. *)
SemOK ==
  /\ OneExchange
  /\ \A p \in Pieces : InExchange(p) => sem[th[p].up] = 0

Inv == TypeOK /\ CurOK /\ ThreadsOK /\ SemOK

-----------------------------------------------------------------------------
(* Lemmas on the helpers *)

LEMMA Messages ==
  ASSUME NEW p \in 0..NP
  PROVE  /\ \A t \in Types : Msg(t, p) \in Wire
         /\ \A t \in {17, 18, 19, 20} : Msg(t, p) \in Request
         /\ \A c \in 1..K : Data(p, c) \in Wire
  BY DownloaderAssumption
  DEF DownloaderAssumption, Msg, Data, Wire, Request, Types

LEMMA ChunksType ==
  ASSUME NEW p \in 0..NP, NEW c \in Nat, NEW n \in Nat, c + n <= K
  PROVE  Chunks(p, c, n) \in Seq(Wire)
  BY DownloaderAssumption, Messages DEF Chunks, DownloaderAssumption

LEMMA FrontType ==
  ASSUME NEW S, NEW s \in Seq(S), NEW n \in Nat
  PROVE  Front(s, n) \in Seq(S)
  BY DEF Front

LEMMA LengthsType ==
  ASSUME NEW p \in 0..NP
  PROVE  BlockSize(p) \in 0..K /\ PieceLength(p) \in 0..K
  BY DownloaderAssumption DEF DownloaderAssumption, BlockSize, PieceLength

(* What the uploader may answer a request with. *)
LEMMA RepliesType ==
  ASSUME NEW u \in Uploaders, NEW m \in Request, NEW r \in Replies(u, m)
  PROVE  r \in Seq(Wire)
<1> m.piece \in 0..NP /\ 0 \in 0..NP
  BY DownloaderAssumption DEF Request, DownloaderAssumption
<1>1. CASE m.type = 17
  <2>1. r = <<Msg(71, 0)>> \/ r = <<>>
    BY <1>1 DEF Replies
  <2>2. Msg(71, 0) \in Wire
    BY Messages DEF Types
  <2>3. <<Msg(71, 0)>> \in Seq(Wire) /\ <<>> \in Seq(Wire)
    BY <2>2
  <2> QED
    BY <2>1, <2>3
<1>2. CASE m.type = 18
  <2>1. r = <<Msg(81, 0)>> \/ r = <<>>
    BY <1>2 DEF Replies
  <2>2. Msg(81, 0) \in Wire
    BY Messages DEF Types
  <2>3. <<Msg(81, 0)>> \in Seq(Wire) /\ <<>> \in Seq(Wire)
    BY <2>2
  <2> QED
    BY <2>1, <2>3
<1>3. CASE m.type = 19
  <2>1. r = <<Msg(91, m.piece)>>
    BY <1>3 DEF Replies
  <2>2. Msg(91, m.piece) \in Wire
    BY Messages DEF Types
  <2> QED
    BY <2>1, <2>2
<1>4. CASE m.type = 20
  <2>1. PICK n \in 0..PieceLength(m.piece) : r = Chunks(m.piece, 0, n)
    BY <1>4, LengthsType DEF Replies
  <2>2. n \in Nat /\ 0 + n <= K
    BY LengthsType, DownloaderAssumption DEF DownloaderAssumption
  <2>3. Chunks(m.piece, 0, n) \in Seq(Wire)
    BY <2>2, ChunksType
  <2> QED
    BY <2>1, <2>3
<1> QED
  BY <1>1, <1>2, <1>3, <1>4 DEF Request

LEMMA ChoicesType ==
  ASSUME TypeOK, NEW p \in Pieces
  PROVE  Choices(p) \subseteq Uploaders
<1>1. have \subseteq Uploaders /\ Claims(p) \subseteq Uploaders
  BY DEF TypeOK, ConsoleTyped, Claims
<1> QED
  BY <1>1 DEF Choices

(* One request on its way. *)
LEMMA SendType ==
  ASSUME NetTyped, NEW u \in Uploaders, NEW m \in Request, Send(u, m)
  PROVE  toUp' \in [Uploaders -> Seq(Request)]
<1>1. Append(toUp[u], m) \in Seq(Request)
  BY DEF NetTyped
<1> QED
  BY <1>1 DEF NetTyped, Send

(* One reply or chunk taken from a connection. *)
LEMMA RecvType ==
  ASSUME NetTyped, NEW u \in Uploaders, toDown[u] # <<>>
  PROVE  /\ Head(toDown[u]) \in Wire
         /\ [toDown EXCEPT ![u] = Tail(@)] \in [Uploaders -> Seq(Wire)]
<1>1. toDown[u] \in Seq(Wire)
  BY DEF NetTyped
<1>2. Head(toDown[u]) \in Wire /\ Tail(toDown[u]) \in Seq(Wire)
  BY <1>1
<1> QED
  BY <1>2 DEF NetTyped

(* No thread, and no message on any connection. *)
LEMMA EmptyTypes ==
  /\ Idle \in [Pieces -> [pc : ThreadStates, up : 0..NU, got : 0..K]]
  /\ \A p \in Pieces : Idle[p].pc = "none"
  /\ Silent \in [Uploaders -> Seq(Request)]
  /\ Silent \in [Uploaders -> Seq(Wire)]
<1>1. NoThread \in [pc : ThreadStates, up : 0..NU, got : 0..K]
  BY DownloaderAssumption
  DEF DownloaderAssumption, NoThread, ThreadStates
<1>2. <<>> \in Seq(Request) /\ <<>> \in Seq(Wire)
  OBVIOUS
<1>3. NoThread.pc = "none"
  BY DEF NoThread
<1> QED
  BY <1>1, <1>2, <1>3 DEF Idle, Silent

(* A thread moves on to another state, in an assigned exchange. *)
LEMMA ThreadStep ==
  ASSUME ThreadsTyped, NEW p \in Pieces, th[p].up \in Uploaders,
         NEW s \in ThreadStates,
         th' = [th EXCEPT ![p].pc = s]
  PROVE  ThreadsTyped'
<1>1. th[p] \in [pc : ThreadStates, up : 0..NU, got : 0..K]
  BY DEF ThreadsTyped
<1>2. [th[p] EXCEPT !.pc = s] \in [pc : ThreadStates, up : 0..NU, got : 0..K]
  BY <1>1
<1>3. th' = [th EXCEPT ![p] = [th[p] EXCEPT !.pc = s]]
  BY DEF ThreadsTyped
<1>4. th' \in [Pieces -> [pc : ThreadStates, up : 0..NU, got : 0..K]]
  BY <1>2, <1>3 DEF ThreadsTyped
<1>5. ASSUME NEW q \in Pieces, th'[q].pc # "none" PROVE th'[q].up \in Uploaders
  <2>1. CASE q = p
    BY <2>1, <1>3, <1>1 DEF ThreadsTyped
  <2>2. CASE q # p
    BY <2>2, <1>3, <1>5 DEF ThreadsTyped
  <2> QED
    BY <2>1, <2>2
<1> QED
  BY <1>4, <1>5 DEF ThreadsTyped

-----------------------------------------------------------------------------
(* Type correctness *)

LEMMA InitType == Init => TypeOK
<1> SUFFICES ASSUME Init PROVE TypeOK
  OBVIOUS
<1> USE DownloaderAssumption DEF DownloaderAssumption, Init
<1>1. ConsoleTyped
  BY DEF ConsoleTyped, Names
<1>2. ThreadsTyped
  BY EmptyTypes DEF ThreadsTyped
<1>3. NetTyped
  BY EmptyTypes DEF NetTyped
<1>4. DiskTyped
  <2>1. <<>> \in Seq(Wire)
    OBVIOUS
  <2> QED
    BY <2>1 DEF DiskTyped
<1> QED
  BY <1>1, <1>2, <1>3, <1>4 DEF TypeOK

LEMMA StutterType == TypeOK /\ UNCHANGED vars => TypeOK'
  BY DEF vars, mem, net, disk, TypeOK, ConsoleTyped, ThreadsTyped, NetTyped,
         DiskTyped

LEMMA ProcessEndsType == TypeOK /\ ProcessEnds => TypeOK'
<1> SUFFICES ASSUME TypeOK, ProcessEnds PROVE TypeOK'
  OBVIOUS
<1> USE DEF TypeOK, ProcessEnds, disk
<1>1. ConsoleTyped'
  BY DownloaderAssumption DEF DownloaderAssumption, ConsoleTyped, Names
<1>2. ThreadsTyped'
  BY EmptyTypes DEF ThreadsTyped
<1>3. NetTyped'
  BY EmptyTypes DEF NetTyped
<1>4. DiskTyped'
  BY DEF DiskTyped
<1> QED
  BY <1>1, <1>2, <1>3, <1>4

LEMMA MainType == TypeOK /\ CurOK /\ (Start \/ Main) => TypeOK'
<1> SUFFICES ASSUME TypeOK, CurOK, Start \/ Main PROVE TypeOK'
  OBVIOUS
<1> USE DEF TypeOK, mem, net, disk
<1>1. CASE Start
  <2>1. ConsoleTyped'
    BY <1>1, DownloaderAssumption
    DEF Start, DownloaderAssumption, ConsoleTyped, Leftovers
  <2>2. ThreadsTyped'
    BY <1>1, EmptyTypes DEF Start, ThreadsTyped
  <2>3. NetTyped' /\ DiskTyped'
    BY <1>1 DEF Start, NetTyped, DiskTyped
  <2> QED
    BY <2>1, <2>2, <2>3
<1>2. CASE ConnectAndShake
  <2>1. cur \in Uploaders
    BY <1>2 DEF ConnectAndShake, NetTyped
  <2>0. Msg(17, 0) \in Request
    BY Messages, DownloaderAssumption DEF DownloaderAssumption
  <2>2. ConsoleTyped' /\ ThreadsTyped' /\ DiskTyped'
    BY <1>2 DEF ConnectAndShake, ConsoleTyped, ThreadsTyped, DiskTyped
  <2>3. NetTyped'
    BY <1>2, <2>0, <2>1, SendType DEF ConnectAndShake, NetTyped
  <2> QED
    BY <2>2, <2>3
<1>3. CASE ConnectFails
  <2>1. ConsoleTyped'
    BY <1>3, DownloaderAssumption
    DEF ConnectFails, DownloaderAssumption, ConsoleTyped
  <2>2. ThreadsTyped' /\ NetTyped' /\ DiskTyped'
    BY <1>3 DEF ConnectFails, ThreadsTyped, NetTyped, DiskTyped
  <2> QED
    BY <2>1, <2>2
<1>4. CASE Recv71
  <2>1. cur \in Uploaders /\ Msg(18, 0) \in Request
    BY <1>4, Messages, DownloaderAssumption
    DEF Recv71, DownloaderAssumption, CurOK
  <2>2. ConsoleTyped' /\ ThreadsTyped' /\ DiskTyped'
    BY <1>4 DEF Recv71, ConsoleTyped, ThreadsTyped, DiskTyped
  <2>3. toDown' \in [Uploaders -> Seq(Wire)]
    BY <1>4, <2>1, RecvType DEF Recv71
  <2>4. NetTyped'
    BY <1>4, <2>1, <2>3, SendType DEF Recv71, NetTyped
  <2> QED
    BY <2>2, <2>4
<1>5. CASE Recv81
  <2>1. cur \in Uploaders
    BY <1>5 DEF Recv81, CurOK
  <2>2. ConsoleTyped'
    BY <1>5, <2>1, DownloaderAssumption
    DEF Recv81, DownloaderAssumption, ConsoleTyped, NetTyped
  <2>3. ThreadsTyped' /\ DiskTyped'
    BY <1>5 DEF Recv81, ThreadsTyped, DiskTyped
  <2>4. NetTyped'
    BY <1>5, <2>1, RecvType DEF Recv81, NetTyped
  <2> QED
    BY <2>2, <2>3, <2>4
<1>6. CASE HandshakeFails
  <2>1. cur \in Uploaders
    BY <1>6 DEF HandshakeFails, CurOK
  <2>2. ConsoleTyped'
    BY <1>6, <2>1, DownloaderAssumption
    DEF HandshakeFails, DownloaderAssumption, ConsoleTyped
  <2>3. ThreadsTyped' /\ NetTyped' /\ DiskTyped'
    BY <1>6 DEF HandshakeFails, ThreadsTyped, NetTyped, DiskTyped
  <2> QED
    BY <2>2, <2>3
<1>7. CASE OpenSems
  <2>1. ConsoleTyped'
    BY <1>7, DownloaderAssumption
    DEF OpenSems, DownloaderAssumption, ConsoleTyped
  <2>2. ThreadsTyped' /\ NetTyped'
    BY <1>7 DEF OpenSems, ThreadsTyped, NetTyped
  <2>3. DiskTyped'
    BY <1>7 DEF OpenSems, SemValue, DiskTyped
  <2> QED
    BY <2>1, <2>2, <2>3
<1>8. CASE AssignPiece
  <2>1. PICK u \in Choices(cur) :
          th' = [th EXCEPT ![cur] = [pc |-> "sem_wait", up |-> u, got |-> 0]]
    BY <1>8 DEF AssignPiece
  <2>2. u \in Uploaders /\ cur \in Pieces
    BY <1>8, <2>1, ChoicesType DEF AssignPiece
  <2>7. /\ cur' = cur + 1
        /\ have' = have \union Claims(cur)
        /\ UNCHANGED <<pc, listed, known, done, status, outName, runs, clean>>
    BY <1>8 DEF AssignPiece
  <2>8. Claims(cur) \subseteq Uploaders
    BY DEF Claims
  <2>9. cur' \in 1..(NU + NP + 1)
    BY <2>2, <2>7, DownloaderAssumption DEF DownloaderAssumption
  <2>10. have' \subseteq Uploaders
    BY <2>7, <2>8 DEF ConsoleTyped
  <2>3. ConsoleTyped'
    BY <2>7, <2>9, <2>10 DEF ConsoleTyped
  <2>4. [pc |-> "sem_wait", up |-> u, got |-> 0]
          \in [pc : ThreadStates, up : 0..NU, got : 0..K]
    BY <2>2, DownloaderAssumption DEF DownloaderAssumption, ThreadStates
  <2>5. ThreadsTyped'
    BY <2>1, <2>2, <2>4 DEF ThreadsTyped
  <2>6. NetTyped' /\ DiskTyped'
    BY <1>8 DEF AssignPiece, NetTyped, DiskTyped
  <2> QED
    BY <2>3, <2>5, <2>6
<1>9. CASE NoOneHas \/ NoBitfield
  BY <1>9, ProcessEndsType DEF NoOneHas, NoBitfield
<1>10. CASE JoinAll
  <2>1. ConsoleTyped' /\ ThreadsTyped'
    BY <1>10, DownloaderAssumption
    DEF JoinAll, DownloaderAssumption, ConsoleTyped, ThreadsTyped, Names
  <2>2. NetTyped'
    BY <1>10, EmptyTypes DEF JoinAll, NetTyped
  <2>3. DiskTyped'
    BY <1>10 DEF JoinAll, DiskTyped, Names
  <2> QED
    BY <2>1, <2>2, <2>3
<1>11. CASE MergePiece
  <2>1. pieceFile[cur] \in Seq(Wire) /\ out[outName] \in Seq(Wire)
    BY <1>11 DEF MergePiece, ConsoleTyped, DiskTyped
  <2>2. Front(pieceFile[cur], K) \in Seq(Wire)
    BY <2>1, FrontType, DownloaderAssumption DEF DownloaderAssumption
  <2>3. out[outName] \o Front(pieceFile[cur], K) \in Seq(Wire)
    BY <2>1, <2>2
  <2>4. DiskTyped'
    BY <1>11, <2>3 DEF MergePiece, DiskTyped
  <2>5. ConsoleTyped' /\ ThreadsTyped' /\ NetTyped'
    BY <1>11 DEF MergePiece, ConsoleTyped, ThreadsTyped, NetTyped
  <2> QED
    BY <2>4, <2>5
<1>12. CASE RemovePiece
  <2>1. <<>> \in Seq(Wire)
    OBVIOUS
  <2>2. DiskTyped'
    BY <1>12, <2>1 DEF RemovePiece, DiskTyped
  <2>3. ConsoleTyped'
    BY <1>12, DownloaderAssumption
    DEF RemovePiece, DownloaderAssumption, ConsoleTyped, CurOK
  <2>4. ThreadsTyped' /\ NetTyped'
    BY <1>12 DEF RemovePiece, ThreadsTyped, NetTyped
  <2> QED
    BY <2>2, <2>3, <2>4
<1>13. CASE Complete
  BY <1>13 DEF Complete, ConsoleTyped, ThreadsTyped, NetTyped, DiskTyped
<1> QED
  BY <1>1, <1>2, <1>3, <1>4, <1>5, <1>6, <1>7, <1>8, <1>9, <1>10, <1>11,
     <1>12, <1>13 DEF Main

LEMMA ThreadType ==
  ASSUME TypeOK, SemOK, NEW p \in Pieces, Thread(p)
  PROVE  TypeOK'
<1> USE DEF TypeOK, mem, net, disk
<1> DEFINE u == th[p].up
<1>0. u \in Uploaders
  BY DEF Thread, SemWait, Recv91, RecvData, Finish, Recv91Nothing, ThreadsTyped
<1>1. CASE SemWait(p)
  <2>1. Msg(19, p) \in Request
    BY Messages, DownloaderAssumption DEF DownloaderAssumption
  <2>2. NetTyped'
    BY <1>0, <1>1, <2>1, SendType DEF SemWait, NetTyped
  <2>3. ThreadsTyped'
    BY <1>0, <1>1, ThreadStep DEF SemWait, ThreadStates
  <2>4. sem[u] = 1
    BY <1>0, <1>1 DEF SemWait, DiskTyped, Absent
  <2>5. ConsoleTyped' /\ DiskTyped'
    BY <1>0, <1>1, <2>4 DEF SemWait, ConsoleTyped, DiskTyped
  <2> QED
    BY <2>2, <2>3, <2>5
<1>2. CASE Recv91(p)
  <2>1. Msg(20, p) \in Request
    BY Messages, DownloaderAssumption DEF DownloaderAssumption
  <2>2. toUp' \in [Uploaders -> Seq(Request)]
    BY <1>0, <1>2, <2>1, SendType DEF Recv91
  <2>3. toDown' \in [Uploaders -> Seq(Wire)]
    BY <1>0, <1>2, RecvType DEF Recv91
  <2>4. NetTyped'
    BY <1>2, <2>2, <2>3 DEF Recv91, NetTyped
  <2>5. ThreadsTyped'
    BY <1>0, <1>2, ThreadStep DEF Recv91, ThreadStates
  <2>6. ConsoleTyped' /\ DiskTyped'
    BY <1>2 DEF Recv91, ConsoleTyped, DiskTyped
  <2> QED
    BY <2>4, <2>5, <2>6
<1>3. CASE RecvData(p)
  <2>1. /\ Head(toDown[u]) \in Wire
        /\ toDown' \in [Uploaders -> Seq(Wire)]
    BY <1>0, <1>3, RecvType DEF RecvData
  <2>2. NetTyped'
    BY <1>3, <2>1 DEF RecvData, NetTyped
  <2>3. Append(pieceFile[p], Head(toDown[u])) \in Seq(Wire)
    BY <2>1 DEF DiskTyped
  <2>4. DiskTyped'
    BY <1>3, <2>3 DEF RecvData, PieceName, DiskTyped
  <2>5. th[p] \in [pc : ThreadStates, up : 0..NU, got : 0..K]
    BY DEF ThreadsTyped
  <2>6. th[p].got + 1 \in 0..K
    BY <1>3, <2>5, LengthsType, DownloaderAssumption
    DEF RecvData, DownloaderAssumption
  <2>7. [th[p] EXCEPT !.got = @ + 1]
          \in [pc : ThreadStates, up : 0..NU, got : 0..K]
    BY <2>5, <2>6
  <2>8. th' = [th EXCEPT ![p] = [th[p] EXCEPT !.got = @ + 1]]
    BY <1>3 DEF RecvData, ThreadsTyped
  <2>9. [th[p] EXCEPT !.got = @ + 1].up = u
    BY <2>5
  <2>10. ThreadsTyped'
    BY <1>0, <2>7, <2>8, <2>9 DEF ThreadsTyped
  <2>11. ConsoleTyped'
    BY <1>3 DEF RecvData, ConsoleTyped
  <2> QED
    BY <2>2, <2>4, <2>10, <2>11
<1>4. CASE Finish(p)
  <2>1. sem[u] = 0
    BY <1>4 DEF Finish, SemOK, InExchange
  <2>2. DiskTyped'
    BY <1>0, <1>4, <2>1 DEF Finish, DiskTyped
  <2>3. ThreadsTyped'
    BY <1>0, <1>4, ThreadStep DEF Finish, ThreadStates
  <2>4. ConsoleTyped' /\ NetTyped'
    BY <1>4 DEF Finish, ConsoleTyped, NetTyped
  <2> QED
    BY <2>2, <2>3, <2>4
<1>5. CASE Recv91Nothing(p)
  <2>1. ThreadsTyped'
    BY <1>0, <1>5, ThreadStep DEF Recv91Nothing, ThreadStates
  <2>2. ConsoleTyped' /\ NetTyped' /\ DiskTyped'
    BY <1>5 DEF Recv91Nothing, ConsoleTyped, NetTyped, DiskTyped
  <2> QED
    BY <2>1, <2>2
<1> QED
  BY <1>1, <1>2, <1>3, <1>4, <1>5 DEF Thread

LEMMA UploaderType ==
  ASSUME TypeOK, NEW u \in Uploaders, Serve(u) \/ Learn(u) \/ UploaderDies(u)
  PROVE  TypeOK'
<1> USE DEF TypeOK, mem, net, disk
<1>0. ConsoleTyped' /\ ThreadsTyped' /\ DiskTyped'
  BY DEF Serve, Learn, UploaderDies, ConsoleTyped, ThreadsTyped, DiskTyped
<1>1. CASE Serve(u)
  <2>1. PICK n \in 1..Len(toUp[u]) :
          toUp' = [toUp EXCEPT ![u] = SubSeq(@, n + 1, Len(@))]
    BY <1>1 DEF Serve
  <2>2. PICK r \in Replies(u, Head(toUp[u])) :
          toDown' = [toDown EXCEPT ![u] = @ \o r]
    BY <1>1 DEF Serve
  <2>3. toUp[u] \in Seq(Request) /\ toDown[u] \in Seq(Wire)
    BY DEF NetTyped
  <2>4. Head(toUp[u]) \in Request
    BY <1>1, <2>3 DEF Serve
  <2>5. toDown[u] \o r \in Seq(Wire)
    BY <2>2, <2>3, <2>4, RepliesType
  <2>6. SubSeq(toUp[u], n + 1, Len(toUp[u])) \in Seq(Request)
    BY <2>1, <2>3
  <2>7. NetTyped'
    BY <1>1, <2>1, <2>2, <2>5, <2>6 DEF Serve, NetTyped
  <2> QED
    BY <1>0, <2>7
<1>2. CASE Learn(u)
  <2>1. NetTyped'
    BY <1>2 DEF Learn, NetTyped
  <2> QED
    BY <1>0, <2>1
<1>3. CASE UploaderDies(u)
  <2>1. PICK n \in 0..Len(toDown[u]) :
          toDown' = [toDown EXCEPT ![u] = Front(@, n)]
    BY <1>3 DEF UploaderDies
  <2>2. toDown[u] \in Seq(Wire)
    BY DEF NetTyped
  <2>3. Front(toDown[u], n) \in Seq(Wire)
    BY <2>1, <2>2, FrontType
  <2>4. <<>> \in Seq(Request)
    OBVIOUS
  <2>5. NetTyped'
    BY <1>3, <2>1, <2>3, <2>4 DEF UploaderDies, NetTyped
  <2> QED
    BY <1>0, <2>5
<1> QED
  BY <1>1, <1>2, <1>3

-----------------------------------------------------------------------------
(* The console thread and its threads *)

LEMMA InitControl == Init => CurOK /\ ThreadsOK /\ SemOK
<1> SUFFICES ASSUME Init PROVE CurOK /\ ThreadsOK /\ SemOK
  OBVIOUS
<1>1. pc = "off" /\ th = Idle
  BY DEF Init
<1> QED
  BY <1>1, EmptyTypes
  DEF CurOK, ThreadsOK, SemOK, OneExchange, InExchange

LEMMA ProcessEndsControl == ProcessEnds => (CurOK /\ ThreadsOK /\ SemOK)'
<1> SUFFICES ASSUME ProcessEnds PROVE (CurOK /\ ThreadsOK /\ SemOK)'
  OBVIOUS
<1>1. pc' = "off" /\ th' = Idle
  BY DEF ProcessEnds
<1> QED
  BY <1>1, EmptyTypes
  DEF CurOK, ThreadsOK, SemOK, OneExchange, InExchange

(* Only what SemOK speaks of matters to it. *)
LEMMA SameExchanges ==
  ASSUME SemOK, UNCHANGED <<th, sem>>
  PROVE  SemOK'
  BY DEF SemOK, OneExchange, InExchange

LEMMA NoExchanges ==
  ASSUME \A p \in Pieces : th'[p].pc \notin {"recv91", "data"}
  PROVE  SemOK'
  BY DEF SemOK, OneExchange, InExchange

LEMMA MainControl ==
  ASSUME Inv, Start \/ Main
  PROVE  CurOK' /\ ThreadsOK' /\ SemOK'
<1> USE DEF Inv, net, disk
<1>1. CASE Start
  <2>1. pc' = "connect" /\ cur' = 1 /\ th' = Idle
    BY <1>1 DEF Start
  <2>2. CurOK' /\ ThreadsOK'
    BY <2>1, DownloaderAssumption DEF DownloaderAssumption, CurOK, ThreadsOK
  <2> QED
    BY <2>1, <2>2, EmptyTypes, NoExchanges
<1>2. CASE ConnectAndShake
  <2>1. cur \in Uploaders
    BY <1>2 DEF ConnectAndShake, TypeOK, NetTyped
  <2>2. CurOK' /\ ThreadsOK'
    BY <1>2, <2>1 DEF ConnectAndShake, CurOK, ThreadsOK
  <2> QED
    BY <1>2, <2>2, SameExchanges DEF ConnectAndShake
<1>3. CASE ConnectFails
  <2>1. CurOK' /\ ThreadsOK'
    BY <1>3, DownloaderAssumption
    DEF ConnectFails, DownloaderAssumption, CurOK, ThreadsOK
  <2> QED
    BY <1>3, <2>1, SameExchanges DEF ConnectFails
<1>4. CASE Recv71
  <2>1. CurOK' /\ ThreadsOK'
    BY <1>4 DEF Recv71, CurOK, ThreadsOK
  <2> QED
    BY <1>4, <2>1, SameExchanges DEF Recv71
<1>5. CASE Recv81
  <2>1. CurOK' /\ ThreadsOK'
    BY <1>5, DownloaderAssumption
    DEF Recv81, DownloaderAssumption, CurOK, ThreadsOK
  <2> QED
    BY <1>5, <2>1, SameExchanges DEF Recv81
<1>6. CASE HandshakeFails
  <2>1. CurOK' /\ ThreadsOK'
    BY <1>6, DownloaderAssumption
    DEF HandshakeFails, DownloaderAssumption, CurOK, ThreadsOK
  <2> QED
    BY <1>6, <2>1, SameExchanges DEF HandshakeFails
<1>7. CASE OpenSems
  <2>1. pc' = "assign" /\ cur' = 1 /\ th' = Idle
    BY <1>7 DEF OpenSems, ThreadsOK
  <2>2. CurOK' /\ ThreadsOK'
    BY <2>1, EmptyTypes, DownloaderAssumption
    DEF DownloaderAssumption, CurOK, ThreadsOK
  <2> QED
    BY <2>1, <2>2, EmptyTypes, NoExchanges
<1>8. CASE AssignPiece
  <2>1. PICK u \in Choices(cur) :
          th' = [th EXCEPT ![cur] = [pc |-> "sem_wait", up |-> u, got |-> 0]]
    BY <1>8 DEF AssignPiece
  <2>2. pc' = "assign" /\ cur \in Pieces /\ cur' = cur + 1 /\ sem' = sem
    BY <1>8 DEF AssignPiece
  <2>6. \A p \in Pieces : p # cur => th'[p] = th[p]
    BY <2>1 DEF TypeOK, ThreadsTyped
  <2>7. pc = "assign"
    BY <1>8 DEF AssignPiece
  <2>8. CurOK'
    BY <2>2, DownloaderAssumption DEF DownloaderAssumption, CurOK
  <2>9. ASSUME NEW p \in Pieces, p >= cur + 1 PROVE th'[p].pc = "none"
    <3>1. p # cur /\ p >= cur
      BY <2>2, <2>9
    <3> QED
      BY <2>6, <2>7, <3>1 DEF ThreadsOK
  <2>3. CurOK' /\ ThreadsOK'
    BY <2>2, <2>8, <2>9 DEF ThreadsOK
  <2>4. ASSUME NEW p \in Pieces, InExchange(p)'
        PROVE  InExchange(p) /\ th'[p] = th[p]
    BY <2>1, <2>4 DEF TypeOK, ThreadsTyped, InExchange
  <2>5. SemOK'
    BY <2>2, <2>4 DEF SemOK, OneExchange
  <2> QED
    BY <2>3, <2>5
<1>9. CASE NoOneHas \/ NoBitfield
  BY <1>9, ProcessEndsControl DEF NoOneHas, NoBitfield
<1>10. CASE JoinAll
  <2>1. \A p \in Pieces : th'[p].pc = "ended"
    BY <1>10 DEF JoinAll, Joined
  <2>2. CurOK' /\ ThreadsOK'
    BY <1>10, <2>1, DownloaderAssumption
    DEF JoinAll, DownloaderAssumption, CurOK, ThreadsOK
  <2> QED
    BY <2>1, <2>2, NoExchanges
<1>11. CASE MergePiece
  <2>1. CurOK' /\ ThreadsOK'
    BY <1>11 DEF MergePiece, CurOK, ThreadsOK
  <2> QED
    BY <1>11, <2>1, SameExchanges DEF MergePiece
<1>12. CASE RemovePiece
  <2>1. CurOK' /\ ThreadsOK'
    BY <1>12, DownloaderAssumption
    DEF RemovePiece, DownloaderAssumption, CurOK, ThreadsOK
  <2> QED
    BY <1>12, <2>1, SameExchanges DEF RemovePiece
<1>13. CASE Complete
  <2>1. CurOK' /\ ThreadsOK'
    BY <1>13 DEF Complete, CurOK, ThreadsOK
  <2> QED
    BY <1>13, <2>1, SameExchanges DEF Complete
<1> QED
  BY <1>1, <1>2, <1>3, <1>4, <1>5, <1>6, <1>7, <1>8, <1>9, <1>10, <1>11,
     <1>12, <1>13 DEF Main

(* The threads: only SemWait enters an exchange, and it needs a semaphore   *)
(* that no other thread of that uploader has taken.                         *)
LEMMA ThreadControl ==
  ASSUME Inv, NEW p \in Pieces, Thread(p)
  PROVE  CurOK' /\ ThreadsOK' /\ SemOK'
<1> USE DEF Inv, net, disk
<1> DEFINE u == th[p].up
<1>0. th[p].pc \in {"sem_wait", "recv91", "data"}
  BY DEF Thread, SemWait, Recv91, RecvData, Finish, Recv91Nothing
<1>1. pc = "assign" /\ u \in Uploaders
  BY <1>0, EmptyTypes DEF ThreadsOK, TypeOK, ThreadsTyped, ConsoleTyped
<1>2. UNCHANGED <<pc, cur>>
  BY DEF Thread, SemWait, Recv91, RecvData, Finish, Recv91Nothing
<1>4. /\ \A q \in Pieces : q # p => th'[q] = th[q]
      /\ th'[p].up = u
  <2>1. \/ \E s \in ThreadStates : th' = [th EXCEPT ![p].pc = s]
        \/ th' = [th EXCEPT ![p].got = @ + 1]
    BY DEF Thread, SemWait, Recv91, RecvData, Finish, Recv91Nothing,
           ThreadStates
  <2>2. /\ th \in [Pieces -> [pc : ThreadStates, up : 0..NU, got : 0..K]]
        /\ th[p] \in [pc : ThreadStates, up : 0..NU, got : 0..K]
    BY DEF TypeOK, ThreadsTyped
  <2>3. CASE \E s \in ThreadStates : th' = [th EXCEPT ![p].pc = s]
    BY <2>2, <2>3
  <2>4. CASE th' = [th EXCEPT ![p].got = @ + 1]
    BY <2>2, <2>4
  <2> QED
    BY <2>1, <2>3, <2>4
<1>3. CurOK' /\ ThreadsOK'
  <2>1. ~(p >= cur)
    BY <1>0, <1>1 DEF ThreadsOK
  <2> QED
    BY <1>1, <1>2, <1>4, <2>1 DEF CurOK, ThreadsOK
<1>5. SemOK'
  <2>1. CASE SemWait(p)
    <3>1. sem[u] = 1 /\ sem' = [sem EXCEPT ![u] = 0]
      <4>1. sem[u] \in {Absent, 0, 1}
        BY <1>1 DEF TypeOK, DiskTyped
      <4>2. sem[u] > 0 /\ sem' = [sem EXCEPT ![u] = sem[u] - 1]
        BY <2>1 DEF SemWait
      <4>3. sem[u] = 1
        BY <4>1, <4>2 DEF Absent
      <4> QED
        BY <4>2, <4>3
    <3>2. \A q \in Pieces : InExchange(q) => th[q].up # u
      BY <3>1 DEF SemOK
    <3>3. sem'[u] = 0
      BY <1>1, <3>1 DEF TypeOK, DiskTyped
    <3>4. \A q \in Pieces : InExchange(q)' /\ q # p => InExchange(q)
      BY <1>4 DEF InExchange
    <3>5. OneExchange'
      BY <1>4, <3>2, <3>4 DEF SemOK, OneExchange
    <3>6. \A q \in Pieces : InExchange(q)' => sem'[th'[q].up] = 0
      <4> SUFFICES ASSUME NEW q \in Pieces, InExchange(q)'
                   PROVE  sem'[th'[q].up] = 0
        OBVIOUS
      <4>1. CASE q = p
        BY <4>1, <1>4, <3>3
      <4>2. CASE q # p
        <5>1. th'[q] = th[q] /\ sem[th[q].up] = 0 /\ th[q].up # u
          BY <4>2, <1>4, <3>2, <3>4 DEF SemOK
        <5> QED
          BY <5>1, <3>1, <4>2 DEF TypeOK, DiskTyped, ThreadsTyped, InExchange
      <4> QED
        BY <4>1, <4>2
    <3> QED
      BY <3>5, <3>6 DEF SemOK
  <2>2. CASE Finish(p)
    <3>1. InExchange(p) /\ ~InExchange(p)'
      BY <1>4, <2>2 DEF Finish, InExchange, TypeOK, ThreadsTyped
    <3>2. sem' = [sem EXCEPT ![u] = @ + 1]
      BY <2>2 DEF Finish
    <3>3. \A q \in Pieces :
            InExchange(q)' => InExchange(q) /\ q # p /\ th'[q] = th[q]
      BY <1>4, <3>1 DEF InExchange
    <3>4. \A q \in Pieces : InExchange(q)' => th[q].up # u
      BY <3>1, <3>3 DEF SemOK, OneExchange
    <3>5. OneExchange'
      BY <3>3 DEF SemOK, OneExchange
    <3>6. \A q \in Pieces : InExchange(q)' => sem'[th'[q].up] = 0
      BY <3>2, <3>3, <3>4 DEF SemOK, TypeOK, DiskTyped, ThreadsTyped
    <3> QED
      BY <3>5, <3>6 DEF SemOK
  <2>3. CASE Recv91(p) \/ RecvData(p) \/ Recv91Nothing(p)
    <3>1. InExchange(p) /\ sem' = sem
      BY <2>3 DEF Recv91, RecvData, Recv91Nothing, InExchange
    <3>2. \A q \in Pieces : /\ InExchange(q)' => InExchange(q)
                            /\ th'[q].up = th[q].up
      BY <1>4, <3>1 DEF InExchange
    <3> QED
      BY <3>1, <3>2 DEF SemOK, OneExchange
  <2> QED
    BY <2>1, <2>2, <2>3 DEF Thread
<1> QED
  BY <1>3, <1>5

LEMMA UploaderControl ==
  ASSUME Inv, NEW u \in Uploaders, Serve(u) \/ Learn(u) \/ UploaderDies(u)
  PROVE  CurOK' /\ ThreadsOK' /\ SemOK'
<1>1. UNCHANGED <<pc, cur, th, sem>>
  BY DEF Serve, Learn, UploaderDies, mem, disk
<1>2. CurOK' /\ ThreadsOK'
  BY <1>1 DEF Inv, CurOK, ThreadsOK
<1> QED
  BY <1>1, <1>2, SameExchanges DEF Inv

LEMMA InitInv == Init => Inv
  BY InitType, InitControl DEF Inv

LEMMA NextInv == Inv /\ [Next]_vars => Inv'
<1> SUFFICES ASSUME Inv, [Next]_vars PROVE Inv'
  OBVIOUS
<1>1. CASE Start \/ Main
  BY <1>1, MainType, MainControl DEF Inv
<1>2. CASE \E p \in Pieces : Thread(p)
  BY <1>2, ThreadType, ThreadControl DEF Inv
<1>3. CASE \E u \in Uploaders : Serve(u) \/ Learn(u) \/ UploaderDies(u)
  BY <1>3, UploaderType, UploaderControl DEF Inv
<1>4. CASE FatalSocketError \/ Kill
  <2>1. ProcessEnds
    BY <1>4 DEF FatalSocketError, Kill
  <2> QED
    BY <2>1, ProcessEndsType, ProcessEndsControl DEF Inv
<1>5. CASE Stop \/ UNCHANGED vars
  <2>1. UNCHANGED vars
    BY <1>5 DEF Stop
  <2>2. TypeOK'
    BY <2>1, StutterType DEF Inv
  <2>3. CurOK' /\ ThreadsOK' /\ SemOK'
    <3>1. UNCHANGED <<pc, cur, th, sem>>
      BY <2>1 DEF vars, mem, disk
    <3>2. CurOK' /\ ThreadsOK'
      BY <3>1 DEF Inv, CurOK, ThreadsOK
    <3> QED
      BY <3>1, <3>2, SameExchanges DEF Inv
  <2> QED
    BY <2>2, <2>3 DEF Inv
<1> QED
  BY <1>1, <1>2, <1>3, <1>4, <1>5 DEF Next

-----------------------------------------------------------------------------
(* The theorems *)

THEOREM Invariance == Spec => []Inv
  BY InitInv, NextInv, PTL DEF Spec

(* Every variable keeps its type, for any number of peers and pieces; in    *)
(* particular a named semaphore never exceeds 1.                            *)
THEOREM TypeCorrect == Spec => []TypeOK
<1>1. Inv => TypeOK
  BY DEF Inv
<1> QED
  BY <1>1, Invariance, PTL

(* At most one thread at a time uses a connection, whatever uploaders,      *)
(* crashes and restarts do.                                                 *)
THEOREM MutualExclusion == Spec => []OneExchange
<1>1. Inv => OneExchange
  BY DEF Inv, SemOK
<1> QED
  BY <1>1, Invariance, PTL

(* Once a thread has set done, nothing but the merge touches its piece      *)
(* file: no later reply, no other thread, no restart.                       *)
THEOREM DoneKept == Spec => DonePieceKept
<1> DEFINE Kept ==
      \A p \in Pieces : /\ th[p].pc = "ended"
                        /\ pieceFile'[p] # pieceFile[p]
                        => pc = "remove" /\ cur = p
<1>1. Inv /\ [Next]_vars => [Kept]_vars
  <2> SUFFICES ASSUME Inv, [Next]_vars,
                      NEW p \in Pieces, th[p].pc = "ended",
                      pieceFile'[p] # pieceFile[p]
               PROVE  pc = "remove" /\ cur = p
    OBVIOUS
  <2>1. pieceFile \in [Pieces -> Seq(Wire)]
    BY DEF Inv, TypeOK, DiskTyped
  <2>2. CASE RemovePiece
    BY <2>1, <2>2 DEF RemovePiece
  <2>3. ASSUME NEW q \in Pieces, RecvData(q) PROVE FALSE
    <3>1. q # p
      BY <2>3 DEF RecvData
    <3> QED
      BY <2>1, <2>3, <3>1 DEF RecvData, PieceName
  <2>4. \/ RemovePiece
        \/ \E q \in Pieces : RecvData(q)
        \/ pieceFile' = pieceFile
    BY DEF Next, Start, Main, ConnectAndShake, ConnectFails, Recv71, Recv81,
           HandshakeFails, OpenSems, AssignPiece, NoOneHas, NoBitfield,
           JoinAll, MergePiece, Complete, Thread, SemWait, Recv91, Finish,
           Recv91Nothing, FatalSocketError, Serve, Learn, UploaderDies, Kill,
           Stop, ProcessEnds, vars, disk
  <2> QED
    BY <2>2, <2>3, <2>4
<1> QED
  BY <1>1, Invariance, PTL DEF Spec, DonePieceKept
=============================================================================
