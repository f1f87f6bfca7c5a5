--------------------------- MODULE TransferProofs ---------------------------
(***************************************************************************)
(* What a download leaves on disk, for any number of peers, pieces and     *)
(* chunks: FreshDownloadRight with every fault the model has, and, when    *)
(* nothing fails, each step as a step of Transfer.                         *)
(***************************************************************************)
EXTENDS ExchangeProofs, MCDownloader

USE DEF Uploaders, Pieces

-----------------------------------------------------------------------------
(* The file and its pieces *)

(* The first j pieces of the file. *)
Prefix(j) ==
  [k \in 1..(IF j = NP THEN (NP - 1) * K + L ELSE j * K) |->
     Data(((k - 1) \div K) + 1, ((k - 1) % K) + 1)]

(* The whole of piece p. *)
Full(p) == Chunks(p, 0, BlockSize(p))

Before == {"connect", "wait71", "wait81"}
Merging == {"merge", "remove"}

(* A file that was never opened is empty; the merge writes to an open one. *)
NamesOK ==
  /\ \A n \in Names : n \notin present => out[n] = <<>>
  /\ pc \in Merging => outName \in present

(* A download without leftovers begins with empty piece files and has a     *)
(* file name left.                                                          *)
CleanStart ==
  /\ pc \in Before => \A p \in Pieces : pieceFile[p] = <<>>
  /\ pc \in Before \union {"assign"} => "name(1)" \notin present

(* Its piece files hold what its threads received, and no more. *)
CleanPieces ==
  pc = "assign" => \A p \in Pieces : Len(pieceFile[p]) = th[p].got

(* If no uploader died, a thread ended with all of its piece. *)
EndedFull ==
  pc = "assign" => \A p \in Pieces :
                     th[p].pc = "ended" => th[p].got = BlockSize(p)

(* Then the merge appends whole pieces to an empty file. *)
MergeOK ==
  /\ pc = "merge" => /\ out[outName] = Prefix(cur - 1)
                     /\ \A p \in Pieces : p >= cur => pieceFile[p] = Full(p)
  /\ pc = "remove" => /\ out[outName] = Prefix(cur)
                      /\ \A p \in Pieces : p > cur => pieceFile[p] = Full(p)
  /\ pc = "done" => out[outName] = Whole

FreshInv ==
  /\ NamesOK
  /\ clean => CleanStart /\ CleanPieces
  /\ clean /\ alive = Uploaders => EndedFull /\ MergeOK

(* Nothing fails, every uploader is a seed, and there is a file name for    *)
(* each download.                                                           *)
FaultFree ==
  /\ ~UploaderFaults
  /\ ~ProcessFaults
  /\ \A h \in Holdings : \A u \in Uploaders : h[u] = Pieces
  /\ MaxRuns <= 2
  /\ L # 0

(* All peers are up, and their bitfields say that they have everything. *)
PeersOK ==
  /\ alive = Uploaders
  /\ \A u \in Uploaders : holds[u] = Pieces
  /\ \A u \in listed : known[u] = Pieces
  /\ pc \in Before => \A u \in Uploaders : u < cur => u \in listed
  /\ pc = "assign" => listed = Uploaders

(* No download leaves anything behind but its file. *)
TidyOK ==
  /\ pc \in Merging \union {"off", "done"} =>
       \A u \in Uploaders : sem[u] = Absent
  /\ pc \in {"off", "done"} => \A p \in Pieces : pieceFile[p] = <<>>
  /\ pc \in Merging => \A p \in Pieces : p < cur => pieceFile[p] = <<>>

(* Each download has a file name of its own. *)
RunsOK ==
  /\ clean
  /\ runs = 0 <=> pc = "off"
  /\ runs <= 1 => "name(1)" \notin present
  /\ runs <= 1 /\ pc \notin Merging \union {"done"} => present = {}
  /\ pc \notin Merging \union {"done"} => "name(1)" \notin present

CalmInv == PeersOK /\ TidyOK /\ RunsOK

-----------------------------------------------------------------------------
(* Lemmas on the file *)

LEMMA Division ==
  ASSUME NEW a \in Int, NEW b \in Int, b > 0,
         NEW q \in Int, NEW r \in Int, a = b * q + r, 0 <= r, r < b
  PROVE  a \div b = q /\ a % b = r
<1>1. /\ a \div b \in Int
      /\ a % b \in Int
      /\ a = b * (a \div b) + (a % b)
      /\ 0 <= a % b /\ a % b < b
  OBVIOUS
<1>2. b * ((a \div b) - q) = r - (a % b)
  BY <1>1
<1>3. a \div b = q
  BY <1>1, <1>2
<1> QED
  BY <1>1, <1>3

LEMMA FullType ==
  ASSUME NEW p \in Pieces
  PROVE  /\ Full(p) \in Seq(Wire)
         /\ Len(Full(p)) = BlockSize(p)
         /\ \A k \in 1..BlockSize(p) : Full(p)[k] = Data(p, k)
<1>1. BlockSize(p) \in 0..K /\ p \in 0..NP
  BY LengthsType
<1>2. Full(p) \in Seq(Wire)
  BY <1>1, ChunksType, DownloaderAssumption DEF Full, DownloaderAssumption
<1>3. Full(p) = [k \in 1..BlockSize(p) |-> Data(p, 0 + k)]
  BY DEF Full, Chunks
<1>4. Len(Full(p)) = BlockSize(p)
  BY <1>1, <1>2, <1>3, DownloaderAssumption DEF DownloaderAssumption
<1>5. \A k \in 1..BlockSize(p) : Full(p)[k] = Data(p, k)
  BY <1>1, <1>3
<1> QED
  BY <1>2, <1>4, <1>5

(* A file with the chunks of a piece in order is that piece. *)
LEMMA IsFull ==
  ASSUME NEW p \in Pieces, NEW f \in Seq(Wire), Len(f) = BlockSize(p),
         \A k \in 1..BlockSize(p) : f[k] = Data(p, k)
  PROVE  f = Full(p)
  BY FullType, SeqEqual

(* The merge reads the whole of it. *)
LEMMA FrontFull ==
  ASSUME NEW p \in Pieces
  PROVE  Front(Full(p), K) = Full(p)
<1>1. BlockSize(p) \in 0..K
  BY LengthsType
<1>2. Full(p) \in Seq(Wire) /\ Len(Full(p)) = BlockSize(p)
  BY FullType
<1>3. (IF Len(Full(p)) < K THEN Len(Full(p)) ELSE K) = Len(Full(p))
  BY <1>1, <1>2, DownloaderAssumption DEF DownloaderAssumption
<1>4. SubSeq(Full(p), 1, Len(Full(p))) = Full(p)
  BY <1>2, SubSeqFull
<1> QED
  BY <1>3, <1>4 DEF Front

(* Where a chunk of piece p lies in the file. *)
LEMMA Place ==
  ASSUME NEW p \in Pieces, NEW i \in 1..K
  PROVE  /\ (((p - 1) * K + i - 1) \div K) + 1 = p
         /\ (((p - 1) * K + i - 1) % K) + 1 = i
<1> USE DownloaderAssumption DEF DownloaderAssumption
<1> DEFINE a == (p - 1) * K + i - 1
<1>1. a \in Int /\ K \in Int /\ K > 0 /\ p - 1 \in Int /\ i - 1 \in Int
  OBVIOUS
<1>2. a = K * (p - 1) + (i - 1) /\ 0 <= i - 1 /\ i - 1 < K
  OBVIOUS
<1>3. a \div K = p - 1 /\ a % K = i - 1
  BY <1>1, <1>2, Division
<1> QED
  BY <1>3

(* How long the beginning of the file is, and what it consists of. *)
Size(j) == IF j = NP THEN (NP - 1) * K + L ELSE j * K

LEMMA SizeNext ==
  ASSUME NEW p \in Pieces
  PROVE  /\ Size(p - 1) = (p - 1) * K
         /\ Size(p - 1) \in Nat
         /\ Size(p) = (p - 1) * K + BlockSize(p)
         /\ BlockSize(p) \in 0..K
<1> USE DownloaderAssumption DEF DownloaderAssumption
<1>1. p - 1 \in Nat /\ p - 1 # NP
  OBVIOUS
<1>2. Size(p - 1) = (p - 1) * K
  BY <1>1 DEF Size
<1>3. (p - 1) * K \in Nat
  BY <1>1
<1>4. Size(p) = (p - 1) * K + BlockSize(p)
  <2>1. p * K = (p - 1) * K + K
    OBVIOUS
  <2> QED
    BY <2>1 DEF Size, BlockSize
<1> QED
  BY <1>2, <1>3, <1>4, LengthsType

LEMMA PrefixType ==
  ASSUME NEW j \in 0..NP
  PROVE  /\ Prefix(j) \in Seq(Wire)
         /\ Len(Prefix(j)) = Size(j)
         /\ \A k \in 1..Size(j) :
              Prefix(j)[k] = Data(((k - 1) \div K) + 1, ((k - 1) % K) + 1)
<1> USE DownloaderAssumption DEF DownloaderAssumption
<1>1. Size(j) \in Nat /\ Size(j) <= NP * K
  <2>1. CASE j = NP
    <3>1. NP * K = (NP - 1) * K + K /\ (NP - 1) * K \in Nat
      OBVIOUS
    <3> QED
      BY <2>1, <3>1 DEF Size
  <2>2. CASE j # NP
    <3>1. j * K \in Nat /\ NP * K = j * K + (NP - j) * K
      OBVIOUS
    <3>2. (NP - j) * K \in Nat
      OBVIOUS
    <3> QED
      BY <2>2, <3>1, <3>2 DEF Size
  <2> QED
    BY <2>1, <2>2
<1>2. Prefix(j) = [k \in 1..Size(j) |->
                     Data(((k - 1) \div K) + 1, ((k - 1) % K) + 1)]
  BY DEF Prefix, Size
<1>3. ASSUME NEW k \in 1..Size(j)
      PROVE  Data(((k - 1) \div K) + 1, ((k - 1) % K) + 1) \in Wire
  <2> DEFINE q == (k - 1) \div K
             r == (k - 1) % K
  <2>1. q \in Int /\ r \in Int /\ k - 1 = K * q + r /\ 0 <= r /\ r < K
    OBVIOUS
  <2>2. k - 1 >= 0 /\ k - 1 < NP * K
    BY <1>1
  <2> HIDE DEF q, r
  <2>3. q >= 0
    <3>1. SUFFICES ASSUME q <= -1 PROVE FALSE
      BY <2>1
    <3>2. K * q <= K * (-1)
      BY <2>1, <3>1
    <3> QED
      BY <2>1, <2>2, <3>2
  <2>4. q < NP
    <3>1. SUFFICES ASSUME q >= NP PROVE FALSE
      BY <2>1
    <3>2. K * q >= NP * K
      BY <2>1, <3>1
    <3> QED
      BY <2>1, <2>2, <3>2
  <2>5. q + 1 \in 0..NP /\ r + 1 \in 1..K
    BY <2>1, <2>3, <2>4
  <2>6. Data(q + 1, r + 1) \in Wire
    BY <2>5, Messages
  <2> QED
    BY <2>6 DEF q, r
<1>4. Prefix(j) \in [1..Size(j) -> Wire]
  BY <1>2, <1>3
<1>5. Prefix(j) \in Seq(Wire)
  BY <1>1, <1>4, SeqDef
<1>6. Len(Prefix(j)) = Size(j)
  BY <1>1, <1>4, <1>5, LenProperties
<1> QED
  BY <1>2, <1>5, <1>6

LEMMA PrefixNone == Prefix(0) = <<>>
<1>1. Size(0) = 0 /\ 0 \in 0..NP
  BY DownloaderAssumption DEF DownloaderAssumption, Size
<1>2. Prefix(0) \in Seq(Wire) /\ Len(Prefix(0)) = 0
  BY <1>1, PrefixType
<1> QED
  BY <1>2, EmptySeq, SeqEqual

(* One piece more. *)
LEMMA PrefixNext ==
  ASSUME NEW p \in Pieces
  PROVE  Prefix(p - 1) \o Full(p) = Prefix(p)
<1> USE DownloaderAssumption DEF DownloaderAssumption
<1> DEFINE n == BlockSize(p)
           m == (p - 1) * K
           s == Prefix(p - 1) \o Full(p)
<1>1. p - 1 \in 0..NP /\ p \in 0..NP
  OBVIOUS
<1>2. m \in Nat /\ n \in 0..K /\ Size(p - 1) = m /\ Size(p) = m + n
  BY SizeNext
<1>3. /\ Prefix(p - 1) \in Seq(Wire) /\ Len(Prefix(p - 1)) = m
      /\ Full(p) \in Seq(Wire) /\ Len(Full(p)) = n
      /\ Prefix(p) \in Seq(Wire) /\ Len(Prefix(p)) = m + n
  BY <1>1, <1>2, PrefixType, FullType
<1>4. /\ s \in Seq(Wire) /\ Len(s) = m + n
      /\ \A k \in 1..(m + n) :
           s[k] = IF k <= m THEN Prefix(p - 1)[k] ELSE Full(p)[k - m]
  <2>1. /\ s \in Seq(Wire) /\ Len(s) = Len(Prefix(p - 1)) + Len(Full(p))
        /\ \A k \in 1..(Len(Prefix(p - 1)) + Len(Full(p))) :
             s[k] = IF k <= Len(Prefix(p - 1))
                    THEN Prefix(p - 1)[k] ELSE Full(p)[k - Len(Prefix(p - 1))]
    BY <1>3, ConcatProperties
  <2> HIDE DEF s
  <2> QED
    BY <1>3, <2>1
<1> HIDE DEF s, m, n
<1>5. ASSUME NEW k \in 1..(m + n) PROVE s[k] = Prefix(p)[k]
  <2>1. Prefix(p)[k] = Data(((k - 1) \div K) + 1, ((k - 1) % K) + 1)
    BY <1>1, <1>2, PrefixType
  <2>2. CASE k <= m
    <3>1. k \in 1..Size(p - 1)
      BY <1>2, <2>2
    <3>2. Prefix(p - 1)[k] = Data(((k - 1) \div K) + 1, ((k - 1) % K) + 1)
      BY <1>1, <3>1, PrefixType
    <3> QED
      BY <1>4, <2>1, <2>2, <3>2
  <2>3. CASE k > m
    <3>1. PICK i \in 1..n : i = k - m
      BY <1>2, <2>3
    <3>2. i \in 1..K /\ k - 1 = m + i - 1
      BY <1>2, <3>1
    <3>3. ((k - 1) \div K) + 1 = p /\ ((k - 1) % K) + 1 = i
      BY <3>2, Place DEF m
    <3>4. Full(p)[i] = Data(p, i)
      BY FullType DEF n
    <3>5. s[k] = Full(p)[i]
      BY <1>2, <1>4, <2>3, <3>1
    <3> QED
      BY <2>1, <3>3, <3>4, <3>5
  <2> QED
    BY <1>2, <2>2, <2>3
<1>6. s = Prefix(p)
  BY <1>2, <1>3, <1>4, <1>5, SeqEqual
<1> QED
  BY <1>6 DEF s

LEMMA PrefixAll == Prefix(NP) = Whole
  BY DEF Prefix, Whole

-----------------------------------------------------------------------------
(* A fresh download *)

LEMMA InitFresh == Init => FreshInv
<1> SUFFICES ASSUME Init PROVE FreshInv
  OBVIOUS
<1>1. pc = "off" /\ present = {} /\ out = [n \in Names |-> <<>>]
  BY DEF Init
<1> QED
  BY <1>1 DEF FreshInv, NamesOK, CleanStart, CleanPieces, EndedFull, MergeOK,
              Before, Merging

(* Steps that leave the download and the disk as they are. *)
LEMMA KeepFresh ==
  ASSUME FreshInv, alive' \subseteq alive, alive \subseteq Uploaders,
         UNCHANGED <<pc, cur, th, pieceFile, out, outName, present, clean>>
  PROVE  FreshInv'
<1>1. alive' = Uploaders => alive = Uploaders
  OBVIOUS
<1> QED
  BY <1>1 DEF FreshInv, NamesOK, CleanStart, CleanPieces, EndedFull, MergeOK

(* The handshake moves on. *)
LEMMA BeforeFresh ==
  ASSUME FreshInv, pc \in Before, pc' \in Before,
         UNCHANGED <<pieceFile, out, present, clean>>
  PROVE  FreshInv'
  BY DEF FreshInv, NamesOK, CleanStart, CleanPieces, EndedFull, MergeOK,
         Before, Merging

LEMMA EndFresh ==
  ASSUME FreshInv, ProcessEnds
  PROVE  FreshInv'
  BY DEF FreshInv, NamesOK, CleanStart, CleanPieces, EndedFull, MergeOK,
         Before, Merging, ProcessEnds, disk

LEMMA StartFresh ==
  ASSUME FreshInv, Start
  PROVE  FreshInv'
<1>1. /\ pc' = "connect" /\ clean' = ~Leftovers
      /\ UNCHANGED <<sem, pieceFile, out, present>>
  BY DEF Start, disk
<1>2. clean' => CleanStart'
  BY <1>1 DEF Leftovers, CleanStart
<1>3. NamesOK'
  BY <1>1 DEF FreshInv, NamesOK, Merging
<1>4. CleanPieces' /\ EndedFull' /\ MergeOK'
  BY <1>1 DEF CleanPieces, EndedFull, MergeOK
<1> QED
  BY <1>2, <1>3, <1>4 DEF FreshInv

LEMMA OpenFresh ==
  ASSUME FreshInv, Inv, OpenSems
  PROVE  FreshInv'
<1>1. /\ pc = "connect" /\ pc' = "assign" /\ th' = Idle
      /\ UNCHANGED <<pieceFile, out, present, clean, alive>>
  BY DEF OpenSems, net, Inv, ThreadsOK
<1>2. \A p \in Pieces : th'[p].got = 0 /\ th'[p].pc = "none"
  BY <1>1 DEF Idle, NoThread
<1>3. NamesOK'
  BY <1>1 DEF FreshInv, NamesOK, Merging
<1>4. clean' => CleanStart' /\ CleanPieces'
  BY <1>1, <1>2, EmptySeq DEF FreshInv, CleanStart, CleanPieces, Before
<1>5. EndedFull' /\ MergeOK'
  BY <1>1, <1>2 DEF EndedFull, MergeOK
<1> QED
  BY <1>3, <1>4, <1>5 DEF FreshInv

LEMMA AssignFresh ==
  ASSUME FreshInv, ExchangeInv, AssignPiece
  PROVE  FreshInv'
<1>1. PICK u \in Choices(cur) :
        th' = [th EXCEPT ![cur] = [pc |-> "sem_wait", up |-> u, got |-> 0]]
  BY DEF AssignPiece
<1>2. /\ pc = "assign" /\ pc' = "assign" /\ cur \in Pieces
      /\ UNCHANGED <<pieceFile, out, present, clean, alive>>
  BY DEF AssignPiece, net, disk
<1>3. th \in [Pieces -> [pc : ThreadStates, up : 0..NU, got : 0..K]]
  BY DEF ExchangeInv, Inv, TypeOK, ThreadsTyped
<1>4. th[cur].pc = "none" /\ th[cur].got = 0
  BY <1>2 DEF ExchangeInv, Inv, ThreadsOK, GotOK
<1>5. \A p \in Pieces : /\ th'[p].got = th[p].got
                        /\ th'[p].pc = "ended" => th[p].pc = "ended"
  BY <1>1, <1>2, <1>3, <1>4
<1>6. NamesOK' /\ MergeOK'
  BY <1>2 DEF FreshInv, NamesOK, MergeOK, Merging
<1>7. clean' => CleanStart' /\ CleanPieces'
  BY <1>2, <1>5 DEF FreshInv, CleanStart, CleanPieces, Before
<1>8. clean' /\ alive' = Uploaders => EndedFull'
  BY <1>2, <1>5 DEF FreshInv, EndedFull
<1> QED
  BY <1>6, <1>7, <1>8 DEF FreshInv

(* A thread counts what it appends, and ends with all of it unless its      *)
(* uploader is dead.                                                        *)
LEMMA ThreadFresh ==
  ASSUME FreshInv, ExchangeInv, NEW p \in Pieces, Thread(p)
  PROVE  FreshInv'
<1>1. th[p].pc \in {"sem_wait", "recv91", "data"}
  BY DEF Thread, SemWait, Recv91, RecvData, Finish, Recv91Nothing
<1>2. pc = "assign" /\ th[p].up \in Uploaders
  BY <1>1, EmptyTypes
  DEF ExchangeInv, Inv, ThreadsOK, TypeOK, ThreadsTyped, ConsoleTyped
<1>3. UNCHANGED <<pc, out, present, clean, alive>>
  BY DEF Thread, SemWait, Recv91, RecvData, Finish, Recv91Nothing, net, disk
<1>4. /\ th \in [Pieces -> [pc : ThreadStates, up : 0..NU, got : 0..K]]
      /\ th[p] \in [pc : ThreadStates, up : 0..NU, got : 0..K]
      /\ pieceFile \in [Pieces -> Seq(Wire)]
      /\ \A q \in Pieces : pieceFile[q] \in Seq(Wire)
      /\ toDown \in [Uploaders -> Seq(Wire)]
  BY DEF ExchangeInv, Inv, TypeOK, ThreadsTyped, DiskTyped, NetTyped
<1>5. \A q \in Pieces : q # p => th'[q] = th[q] /\ pieceFile'[q] = pieceFile[q]
  BY <1>4 DEF Thread, SemWait, Recv91, RecvData, Finish, Recv91Nothing,
              PieceName, disk
<1>6. Len(pieceFile[p]) = th[p].got => Len(pieceFile'[p]) = th'[p].got
  <2>1. CASE RecvData(p)
    <3>1. /\ pieceFile'[p] = Append(pieceFile[p], Head(toDown[th[p].up]))
          /\ th'[p].got = th[p].got + 1
          /\ toDown[th[p].up] # <<>>
      BY <1>4, <2>1 DEF RecvData, PieceName
    <3>2. Head(toDown[th[p].up]) \in Wire
      BY <1>2, <1>4, <3>1, HeadTailProperties
    <3>3. Len(pieceFile'[p]) = Len(pieceFile[p]) + 1
      BY <1>4, <3>1, <3>2, AppendProperties
    <3> QED
      BY <3>1, <3>3
  <2>2. CASE ~RecvData(p)
    <3>1. pieceFile' = pieceFile
      BY <2>2 DEF Thread, SemWait, Recv91, Finish, Recv91Nothing, disk
    <3>2. \E s \in ThreadStates : th' = [th EXCEPT ![p].pc = s]
      BY <2>2 DEF Thread, SemWait, Recv91, Finish, Recv91Nothing, ThreadStates
    <3>3. th'[p].got = th[p].got
      BY <1>4, <3>2
    <3> QED
      BY <3>1, <3>3
  <2> QED
    BY <2>1, <2>2
<1>7. alive = Uploaders /\ th'[p].pc = "ended" => th'[p].got = BlockSize(p)
  <2> SUFFICES ASSUME alive = Uploaders, th'[p].pc = "ended"
               PROVE  th'[p].got = BlockSize(p)
    OBVIOUS
  <2>1. Finish(p)
    <3>1. \/ Finish(p)
          \/ \E s \in {"recv91", "data"} : th' = [th EXCEPT ![p].pc = s]
          \/ th' = [th EXCEPT ![p].got = @ + 1]
      BY DEF Thread, SemWait, Recv91, RecvData, Recv91Nothing
    <3>2. CASE \E s \in {"recv91", "data"} : th' = [th EXCEPT ![p].pc = s]
      BY <1>4, <3>2
    <3>3. CASE th' = [th EXCEPT ![p].got = @ + 1]
      BY <1>1, <1>4, <3>3
    <3> QED
      BY <3>1, <3>2, <3>3
  <2>2. th[p].got = BlockSize(p)
    BY <1>2, <2>1 DEF Finish
  <2>3. th'[p].got = th[p].got
    BY <1>4, <2>1 DEF Finish
  <2> QED
    BY <2>2, <2>3
<1>8. NamesOK' /\ MergeOK'
  BY <1>2, <1>3 DEF FreshInv, NamesOK, MergeOK, Merging
<1>9. clean' => CleanStart' /\ CleanPieces'
  BY <1>2, <1>3, <1>5, <1>6 DEF FreshInv, CleanStart, CleanPieces, Before
<1>10. clean' /\ alive' = Uploaders => EndedFull'
  BY <1>2, <1>3, <1>5, <1>7 DEF FreshInv, EndedFull
<1> QED
  BY <1>8, <1>9, <1>10 DEF FreshInv

(* When all threads are joined every piece file holds its piece, and the    *)
(* output is a file that was not there before.                              *)
LEMMA JoinFresh ==
  ASSUME FreshInv, ExchangeInv, JoinAll
  PROVE  FreshInv'
<1> DEFINE name == IF "name" \in present THEN "name(1)" ELSE "name"
<1>1. /\ pc = "assign" /\ pc' = "merge" /\ cur' = 1
      /\ outName' = name /\ present' = present \union {name}
      /\ \A p \in Pieces : th[p].pc = "ended"
      /\ UNCHANGED <<pieceFile, out, clean, alive>>
  BY DEF JoinAll, Joined
<1>2. NamesOK'
  BY <1>1 DEF FreshInv, NamesOK
<1>3. clean' => CleanStart' /\ CleanPieces'
  BY <1>1 DEF CleanStart, CleanPieces, Before
<1>4. EndedFull'
  BY <1>1 DEF EndedFull
<1>5. ASSUME clean, alive = Uploaders PROVE MergeOK'
  <2>1. "name(1)" \notin present
    BY <1>1, <1>5 DEF FreshInv, CleanStart
  <2>2. name \in Names /\ name \notin present
    BY <2>1 DEF Names
  <2>3. out[name] = Prefix(0)
    BY <2>2, PrefixNone DEF FreshInv, NamesOK
  <2>4. ASSUME NEW p \in Pieces PROVE pieceFile[p] = Full(p)
    <3>1. pieceFile[p] \in Seq(Wire)
      BY DEF ExchangeInv, Inv, TypeOK, DiskTyped
    <3>2. PICK g \in Nat : g = BlockSize(p)
      BY LengthsType, DownloaderAssumption DEF DownloaderAssumption
    <3>3. th[p].got = g /\ Len(pieceFile[p]) = g
      BY <1>1, <1>5, <3>2 DEF FreshInv, EndedFull, CleanPieces
    <3>4. \A k \in 1..g : pieceFile[p][g - g + k] = Data(p, k)
      BY <1>1, <3>3 DEF ExchangeInv, InOrderAppend
    <3>5. \A k \in 1..g : pieceFile[p][k] = Data(p, k)
      BY <3>4
    <3> QED
      BY <3>1, <3>2, <3>3, <3>5, IsFull
  <2>5. out'[outName'] = Prefix(cur' - 1)
    BY <1>1, <2>3
  <2> QED
    BY <1>1, <2>4, <2>5 DEF MergeOK
<1> QED
  BY <1>1, <1>2, <1>3, <1>4, <1>5 DEF FreshInv

(* The merge appends piece by piece. *)
LEMMA MergeFresh ==
  ASSUME FreshInv, Inv, MergePiece \/ RemovePiece \/ Complete
  PROVE  FreshInv'
<1> USE DownloaderAssumption DEF DownloaderAssumption
<1>1. /\ out \in [Names -> Seq(Wire)] /\ outName \in Names
      /\ pieceFile \in [Pieces -> Seq(Wire)]
  BY DEF Inv, TypeOK, DiskTyped, ConsoleTyped
<1>2. pc' \notin Before \union {"assign"}
  BY DEF MergePiece, RemovePiece, Complete, Before
<1>3. CleanStart' /\ CleanPieces' /\ EndedFull'
  BY <1>2 DEF CleanStart, CleanPieces, EndedFull, Before
<1>4. UNCHANGED <<outName, present, clean, alive>>
  BY DEF MergePiece, RemovePiece, Complete, net, disk
<1>5. CASE MergePiece
  <2>1. /\ pc = "merge" /\ pc' = "remove" /\ cur \in Pieces /\ cur' = cur
        /\ out' = [out EXCEPT ![outName] = @ \o Front(pieceFile[cur], K)]
        /\ pieceFile' = pieceFile
    BY <1>5 DEF MergePiece
  <2>2. NamesOK'
    BY <1>1, <1>4, <2>1 DEF FreshInv, NamesOK, Merging
  <2>3. ASSUME clean, alive = Uploaders PROVE MergeOK'
    <3>1. /\ out[outName] = Prefix(cur - 1)
          /\ \A p \in Pieces : p >= cur => pieceFile[p] = Full(p)
      BY <2>1, <2>3 DEF FreshInv, MergeOK
    <3>2. Front(pieceFile[cur], K) = Full(cur)
      BY <2>1, <3>1, FrontFull
    <3>3. out'[outName] = Prefix(cur - 1) \o Full(cur)
      BY <1>1, <2>1, <3>1, <3>2
    <3>4. out'[outName'] = Prefix(cur')
      BY <1>4, <2>1, <3>3, PrefixNext
    <3>5. \A p \in Pieces : p > cur => pieceFile[p] = Full(p)
      BY <2>1, <3>1
    <3> QED
      BY <2>1, <3>4, <3>5 DEF MergeOK
  <2> QED
    BY <1>3, <1>4, <2>2, <2>3 DEF FreshInv
<1>6. CASE RemovePiece
  <2>1. /\ pc = "remove" /\ pc' = "merge" /\ cur \in Pieces /\ cur' = cur + 1
        /\ pieceFile' = [pieceFile EXCEPT ![cur] = <<>>]
        /\ out' = out
    BY <1>6 DEF RemovePiece, Inv, CurOK
  <2>2. NamesOK'
    BY <1>4, <2>1 DEF FreshInv, NamesOK, Merging
  <2>3. ASSUME clean, alive = Uploaders PROVE MergeOK'
    <3>1. /\ out[outName] = Prefix(cur)
          /\ \A p \in Pieces : p > cur => pieceFile[p] = Full(p)
      BY <2>1, <2>3 DEF FreshInv, MergeOK
    <3>2. cur' - 1 = cur
      BY <2>1
    <3>3. \A p \in Pieces : p >= cur' => pieceFile'[p] = Full(p)
      BY <1>1, <2>1, <3>1
    <3> QED
      BY <1>4, <2>1, <3>1, <3>2, <3>3 DEF MergeOK
  <2> QED
    BY <1>3, <1>4, <2>2, <2>3 DEF FreshInv
<1>7. CASE Complete
  <2>1. /\ pc = "merge" /\ pc' = "done" /\ cur = NP + 1
        /\ out' = out
    BY <1>7 DEF Complete, disk
  <2>2. NamesOK'
    BY <1>4, <2>1 DEF FreshInv, NamesOK, Merging
  <2>3. ASSUME clean, alive = Uploaders PROVE MergeOK'
    <3>1. cur - 1 = NP
      BY <2>1
    <3>2. out[outName] = Whole
      BY <2>1, <2>3, <3>1, PrefixAll DEF FreshInv, MergeOK
    <3> QED
      BY <1>4, <2>1, <3>2 DEF MergeOK
  <2> QED
    BY <1>3, <1>4, <2>2, <2>3 DEF FreshInv
<1> QED
  BY <1>5, <1>6, <1>7

LEMMA StepFresh ==
  ASSUME FreshInv, ExchangeInv, [Next]_vars
  PROVE  FreshInv'
<1>1. Inv /\ alive \subseteq Uploaders
  BY DEF ExchangeInv, Inv, TypeOK, NetTyped
<1>2. CASE Start
  BY <1>2, StartFresh
<1>3. CASE \/ ConnectAndShake \/ ConnectFails \/ Recv71 \/ Recv81
           \/ HandshakeFails
  <2>1. /\ pc \in Before /\ pc' \in Before
        /\ UNCHANGED <<pieceFile, out, present, clean>>
    BY <1>3 DEF ConnectAndShake, ConnectFails, Recv71, Recv81, HandshakeFails,
                Before, disk
  <2> QED
    BY <2>1, BeforeFresh
<1>4. CASE OpenSems
  BY <1>1, <1>4, OpenFresh
<1>5. CASE AssignPiece
  BY <1>5, AssignFresh
<1>6. CASE NoOneHas \/ NoBitfield \/ FatalSocketError \/ Kill
  <2>1. ProcessEnds
    BY <1>6 DEF NoOneHas, NoBitfield, FatalSocketError, Kill
  <2> QED
    BY <2>1, EndFresh
<1>7. CASE JoinAll
  BY <1>7, JoinFresh
<1>8. CASE MergePiece \/ RemovePiece \/ Complete
  BY <1>1, <1>8, MergeFresh
<1>9. CASE \E p \in Pieces : Thread(p)
  BY <1>9, ThreadFresh
<1>10. CASE (\E u \in Uploaders : Serve(u) \/ Learn(u) \/ UploaderDies(u))
           \/ Stop \/ UNCHANGED vars
  <2>1. /\ alive' \subseteq alive
        /\ UNCHANGED <<pc, cur, th, pieceFile, out, outName, present, clean>>
    BY <1>10 DEF Serve, Learn, UploaderDies, Stop, vars, mem, net, disk
  <2> QED
    BY <1>1, <2>1, KeepFresh
<1> QED
  BY <1>2, <1>3, <1>4, <1>5, <1>6, <1>7, <1>8, <1>9, <1>10 DEF Next, Main

LEMMA InitExchange == Init => ExchangeInv
  BY InitInv, InitChannels DEF ExchangeInv

LEMMA StepExchange ==
  ASSUME L # 0, ExchangeInv, [Next]_vars
  PROVE  ExchangeInv'
<1>1. Inv'
  BY NextInv DEF ExchangeInv
<1> QED
  BY <1>1, StepChannels, StepGot, StepInOrder DEF ExchangeInv

(* A download that found no leftovers and lost no uploader leaves exactly   *)
(* the file, for any number of peers and pieces, any holdings, and after    *)
(* any crashes and restarts.  L # 0 as in InOrder.                          *)
THEOREM FreshFileRight ==
  ASSUME L # 0
  PROVE  Spec => []FreshDownloadRight
<1> DEFINE J == ExchangeInv /\ FreshInv
<1>1. Init => J
  BY InitExchange, InitFresh
<1>2. J /\ [Next]_vars => J'
  BY StepExchange, StepFresh
<1>3. J => FreshDownloadRight
  BY DEF FreshInv, MergeOK, FreshDownloadRight
<1> QED
  BY <1>1, <1>2, <1>3, PTL DEF Spec

-----------------------------------------------------------------------------
(* Nothing fails *)

LEMMA InitCalm == FaultFree /\ Init => CalmInv
<1> SUFFICES ASSUME FaultFree, Init PROVE CalmInv
  OBVIOUS
<1> USE DEF Init, Before, Merging
<1>1. holds \in Holdings
  OBVIOUS
<1>2. PeersOK
  BY <1>1 DEF FaultFree, PeersOK
<1>3. TidyOK
  BY DEF TidyOK
<1>4. RunsOK
  BY DEF RunsOK
<1> QED
  BY <1>2, <1>3, <1>4 DEF CalmInv

(* A request for a piece comes from the thread of that piece. *)
LEMMA AskedIsPiece ==
  ASSUME ExchangeInv, NEW u \in Uploaders, toUp[u] # <<>>,
         Head(toUp[u]).type = 20
  PROVE  Head(toUp[u]).piece \in Pieces
<1>1. ChannelOK(u)
  BY DEF ExchangeInv, Channels
<1>2. \A t, p : Head(<<Msg(t, p)>>) = Msg(t, p)
  OBVIOUS
<1>3. \A t, p : Msg(t, p).type = t /\ Msg(t, p).piece = p
  BY DEF Msg
<1>4. ~Quiet(u)
  BY DEF Quiet
<1>5. ~Handshaking(u)
  BY <1>1, <1>2, <1>3 DEF ChannelOK, Handshake, ReqRep
<1>6. PICK p \in Pieces : Using(u, p)
  BY <1>1, <1>4, <1>5 DEF ChannelOK
<1>7. toUp[u] = <<Msg(19, p)>> \/ toUp[u] = <<Msg(20, p)>>
  BY <1>1, <1>6 DEF ChannelOK, Exchange, ReqRep, Transfers
<1> QED
  BY <1>2, <1>3, <1>7

(* So no process ever ends. *)
LEMMA NoEnd ==
  ASSUME FaultFree, CalmInv, ExchangeInv
  PROVE  /\ ~(ConnectFails \/ HandshakeFails \/ NoOneHas \/ NoBitfield)
         /\ ~(FatalSocketError \/ Kill)
         /\ \A u \in Uploaders : ~UploaderDies(u)
<1>1. alive = Uploaders /\ \A u \in Uploaders : holds[u] = Pieces
  BY DEF CalmInv, PeersOK
<1>2. pc \in {"wait71", "wait81"} => cur \in Uploaders
  BY DEF ExchangeInv, Inv, CurOK
<1>3. ~ConnectFails /\ ~HandshakeFails
  BY <1>1, <1>2 DEF ConnectFails, HandshakeFails
<1>4. ~NoBitfield
  BY DEF NoBitfield, CalmInv, PeersOK
<1>5. ~NoOneHas
  <2>1. SUFFICES ASSUME NoOneHas PROVE FALSE
    OBVIOUS
  <2>2. listed = Uploaders /\ cur \in Pieces /\ Claims(cur) = {}
    BY <2>1 DEF NoOneHas
  <2>3. 1 \in Uploaders
    BY DownloaderAssumption DEF DownloaderAssumption
  <2>4. 1 \in Claims(cur)
    BY <2>2, <2>3 DEF Claims, CalmInv, PeersOK
  <2> QED
    BY <2>2, <2>4
<1>6. ~FatalSocketError
  BY <1>1, <1>2 DEF FatalSocketError, ExchangeInv, Inv, TypeOK, ThreadsTyped
<1>7. ~Kill
  BY DEF Kill, FaultFree
<1>8. ASSUME NEW u \in Uploaders, UploaderDies(u) PROVE FALSE
  <2>1. /\ toUp[u] # <<>>
        /\ Head(toUp[u]).type = 20
        /\ Head(toUp[u]).piece \notin holds[u]
    BY <1>8 DEF UploaderDies, FaultFree
  <2> QED
    BY <1>1, <2>1, AskedIsPiece
<1> QED
  BY <1>3, <1>4, <1>5, <1>6, <1>7, <1>8

LEMMA StepPeers ==
  ASSUME FaultFree, CalmInv, ExchangeInv, [Next]_vars
  PROVE  PeersOK'
<1> USE DEF CalmInv, PeersOK
<1>1. /\ known \in [Uploaders -> SUBSET Pieces] /\ listed \subseteq Uploaders
      /\ pc \in {"wait71", "wait81"} => cur \in Uploaders
      /\ cur \in Int
  BY DEF ExchangeInv, Inv, TypeOK, ConsoleTyped, CurOK
<1>2. CASE Recv81
  <2>1. /\ pc = "wait81" /\ pc' = "connect" /\ cur' = cur + 1
        /\ listed' = listed \union {cur}
        /\ known' = IF cur \in listed THEN known
                                      ELSE [known EXCEPT ![cur] = holds[cur]]
        /\ UNCHANGED <<alive, holds>>
    BY <1>2 DEF Recv81
  <2>2. cur \in Uploaders
    BY <1>1, <2>1
  <2>3. \A u \in listed' : known'[u] = Pieces
    BY <1>1, <2>1, <2>2
  <2>4. \A u \in Uploaders : u < cur' => u \in listed'
    BY <2>1, <2>2 DEF Before
  <2> QED
    BY <2>1, <2>3, <2>4
<1>3. CASE OpenSems
  <2>1. /\ pc = "connect" /\ cur = NU + 1 /\ pc' = "assign"
        /\ UNCHANGED <<listed, known, alive, holds>>
    BY <1>3 DEF OpenSems, net
  <2>2. \A u \in Uploaders : u < cur
    BY <2>1, DownloaderAssumption DEF DownloaderAssumption
  <2>3. listed = Uploaders
    BY <1>1, <2>1, <2>2 DEF Before
  <2> QED
    BY <2>1, <2>3 DEF Before
<1>4. CASE Start
  <2>1. /\ pc' = "connect" /\ cur' = 1
        /\ UNCHANGED <<listed, known, alive, holds>>
    BY <1>4 DEF Start, net
  <2>2. \A u \in Uploaders : ~(u < 1)
    BY DownloaderAssumption DEF DownloaderAssumption
  <2> QED
    BY <2>1, <2>2
<1>5. CASE ConnectAndShake \/ Recv71
  <2>1. /\ pc \in Before /\ pc' \in Before /\ cur' = cur /\ pc' # "assign"
        /\ UNCHANGED <<listed, known, alive, holds>>
    BY <1>5 DEF ConnectAndShake, Recv71, Before
  <2> QED
    BY <2>1
<1>6. CASE AssignPiece
  <2>1. /\ pc = "assign" /\ pc' = "assign"
        /\ UNCHANGED <<listed, known, alive, holds>>
    BY <1>6 DEF AssignPiece, net
  <2> QED
    BY <2>1 DEF Before
<1>7. CASE JoinAll \/ MergePiece \/ RemovePiece \/ Complete
  <2>1. /\ pc' \in {"merge", "remove", "done"}
        /\ UNCHANGED <<listed, known, alive, holds>>
    BY <1>7 DEF JoinAll, MergePiece, RemovePiece, Complete, net
  <2> QED
    BY <2>1 DEF Before
<1>8. CASE \/ \E p \in Pieces : Thread(p)
           \/ \E u \in Uploaders : Serve(u) \/ Learn(u)
           \/ Stop \/ UNCHANGED vars
  <2>1. UNCHANGED <<pc, cur, listed, known, alive, holds>>
    BY <1>8 DEF Thread, SemWait, Recv91, RecvData, Finish, Recv91Nothing,
                Serve, Learn, Stop, vars, mem, net
  <2> QED
    BY <2>1
<1> QED
  BY <1>2, <1>3, <1>4, <1>5, <1>6, <1>7, <1>8, NoEnd DEF Next, Main

LEMMA StepTidy ==
  ASSUME FaultFree, CalmInv, ExchangeInv, [Next]_vars
  PROVE  TidyOK'
<1> USE DEF CalmInv, TidyOK, Merging
<1>1. CASE pc' \in Before \union {"assign"}
  BY <1>1 DEF Before
<1>2. CASE JoinAll
  <2>1. /\ pc' = "merge" /\ cur' = 1 /\ sem' = [u \in Uploaders |-> Absent]
    BY <1>2 DEF JoinAll
  <2> QED
    BY <2>1
<1>3. CASE MergePiece
  <2>1. /\ pc = "merge" /\ pc' = "remove" /\ cur' = cur
        /\ UNCHANGED <<sem, pieceFile>>
    BY <1>3 DEF MergePiece
  <2> QED
    BY <2>1
<1>4. CASE RemovePiece
  <2>1. /\ pc = "remove" /\ pc' = "merge" /\ cur' = cur + 1
        /\ pieceFile' = [pieceFile EXCEPT ![cur] = <<>>]
        /\ sem' = sem /\ cur \in Pieces
    BY <1>4 DEF RemovePiece, ExchangeInv, Inv, CurOK
  <2>2. pieceFile \in [Pieces -> Seq(Wire)]
    BY DEF ExchangeInv, Inv, TypeOK, DiskTyped
  <2>3. ASSUME NEW p \in Pieces, p < cur' PROVE pieceFile'[p] = <<>>
    <3>1. p = cur \/ p < cur
      BY <2>1, <2>3
    <3> QED
      BY <2>1, <2>2, <3>1
  <2> QED
    BY <2>1, <2>3
<1>5. CASE Complete
  <2>1. /\ pc = "merge" /\ pc' = "done" /\ cur = NP + 1
        /\ UNCHANGED <<sem, pieceFile>>
    BY <1>5 DEF Complete, disk
  <2>2. \A p \in Pieces : p < cur
    BY <2>1, DownloaderAssumption DEF DownloaderAssumption
  <2> QED
    BY <2>1, <2>2
<1>6. CASE \E p \in Pieces : Thread(p)
  <2>1. PICK p \in Pieces : Thread(p)
    BY <1>6
  <2>2. th[p].pc \in {"sem_wait", "recv91", "data"}
    BY <2>1 DEF Thread, SemWait, Recv91, RecvData, Finish, Recv91Nothing
  <2>3. pc = "assign"
    BY <2>2, EmptyTypes DEF ExchangeInv, Inv, ThreadsOK, TypeOK, ConsoleTyped
  <2>4. pc' = pc
    BY <2>1 DEF Thread, SemWait, Recv91, RecvData, Finish, Recv91Nothing
  <2> QED
    BY <2>3, <2>4
<1>7. CASE \/ \E u \in Uploaders : Serve(u) \/ Learn(u)
           \/ Stop \/ UNCHANGED vars
  <2>1. UNCHANGED <<pc, cur, sem, pieceFile>>
    BY <1>7 DEF Serve, Learn, Stop, vars, mem, disk
  <2> QED
    BY <2>1
<1>8. Start \/ ConnectAndShake \/ Recv71 \/ Recv81 \/ OpenSems \/ AssignPiece
        => pc' \in Before \union {"assign"}
  BY DEF Start, ConnectAndShake, Recv71, Recv81, OpenSems, AssignPiece, Before
<1> QED
  BY <1>1, <1>2, <1>3, <1>4, <1>5, <1>6, <1>7, <1>8, NoEnd DEF Next, Main

LEMMA StepRuns ==
  ASSUME FaultFree, CalmInv, ExchangeInv, [Next]_vars
  PROVE  RunsOK'
<1> USE DEF CalmInv, RunsOK, Merging
<1>1. runs \in 0..MaxRuns /\ MaxRuns \in Nat /\ MaxRuns <= 2
  BY DownloaderAssumption
  DEF DownloaderAssumption, ExchangeInv, Inv, TypeOK, ConsoleTyped, FaultFree
<1>2. CASE Start
  <2>1. /\ pc \in {"off", "done"} /\ pc' = "connect"
        /\ runs < MaxRuns /\ runs' = runs + 1
        /\ clean' = ~Leftovers /\ present' = present
    BY <1>2 DEF Start, disk
  <2>2. runs <= 1
    BY <1>1, <2>1
  <2>3. "name(1)" \notin present
    BY <2>2
  <2>4. clean'
    BY <2>1, <2>3 DEF Leftovers, TidyOK
  <2>5. runs' # 0
    BY <1>1, <2>1
  <2>6. runs' <= 1 => present = {}
    <3>1. SUFFICES ASSUME runs' <= 1 PROVE present = {}
      OBVIOUS
    <3>2. runs = 0
      BY <1>1, <2>1, <3>1
    <3> QED
      BY <3>2
  <2> QED
    BY <2>1, <2>3, <2>4, <2>5, <2>6
<1>3. CASE JoinAll
  <2>1. /\ pc = "assign" /\ pc' = "merge" /\ UNCHANGED <<runs, clean>>
        /\ present' = present \union
             {IF "name" \in present THEN "name(1)" ELSE "name"}
    BY <1>3 DEF JoinAll
  <2>2. runs <= 1 => present' = {"name"}
    BY <2>1
  <2> QED
    BY <2>1, <2>2
<1>4. CASE \/ ConnectAndShake \/ Recv71 \/ Recv81 \/ OpenSems \/ AssignPiece
           \/ \E p \in Pieces : Thread(p)
           \/ \E u \in Uploaders : Serve(u) \/ Learn(u)
           \/ Stop \/ UNCHANGED vars
  <2>1. /\ UNCHANGED <<runs, clean, present>>
        /\ \/ pc' = pc
           \/ /\ pc \in {"connect", "wait71", "wait81", "assign"}
              /\ pc' \in {"connect", "wait71", "wait81", "assign"}
    BY <1>4 DEF ConnectAndShake, Recv71, Recv81, OpenSems, AssignPiece,
                Thread, SemWait, Recv91, RecvData, Finish, Recv91Nothing,
                Serve, Learn, Stop, vars, mem, disk
  <2> QED
    BY <2>1
<1>5. CASE MergePiece \/ RemovePiece \/ Complete
  <2>1. /\ UNCHANGED <<runs, clean, present>>
        /\ pc \in {"merge", "remove"} /\ pc' \in {"merge", "remove", "done"}
    BY <1>5 DEF MergePiece, RemovePiece, Complete, disk
  <2> QED
    BY <2>1
<1> QED
  BY <1>2, <1>3, <1>4, <1>5, NoEnd DEF Next, Main

-----------------------------------------------------------------------------
(* Each step of the download is a step of Transfer *)

LEMMA InitTransfer == Init => T!Init
<1> SUFFICES ASSUME Init PROVE T!Init
  OBVIOUS
<1>1. pc = "off" /\ th = Idle
  BY DEF Init
<1>2. {p \in Pieces : th[p].pc = "ended"} = {}
  BY <1>1, EmptyTypes
<1> QED
  BY <1>1, <1>2 DEF T!Init

(* A stage as Transfer sees it. *)
Stage ==
  CASE pc = "off" -> "idle" [] pc = "done" -> "delivered" [] OTHER -> "fetching"
Ended == {p \in Pieces : th[p].pc = "ended"}
Result == IF pc = "done" THEN out[outName] ELSE <<>>

LEMMA StepTransfer ==
  ASSUME FaultFree, CalmInv, ExchangeInv, FreshInv, [Next]_vars
  PROVE  [T!Next]_(T!vars)
<1> USE DEF Stage, Ended, Result
<1>1. /\ th \in [Pieces -> [pc : ThreadStates, up : 0..NU, got : 0..K]]
      /\ pc \in {"off", "connect", "wait71", "wait81", "assign", "merge",
                 "remove", "done"}
  BY DEF ExchangeInv, Inv, TypeOK, ThreadsTyped, ConsoleTyped
<1>2. CASE Start
  <2>1. /\ pc \in {"off", "done"} /\ pc' = "connect" /\ th' = Idle
    BY <1>2 DEF Start
  <2>2. {p \in Pieces : th'[p].pc = "ended"} = {}
    BY <2>1, EmptyTypes
  <2>3. T!Begin
    BY <2>1, <2>2 DEF T!Begin
  <2> QED
    BY <2>3 DEF T!Next
<1>3. CASE \E p \in Pieces : Finish(p)
  <2>1. PICK p \in Pieces : Finish(p)
    BY <1>3
  <2>2. /\ th[p].pc \in {"data", "recv91"} /\ pc' = pc
        /\ th' = [th EXCEPT ![p].pc = "ended"]
        /\ UNCHANGED <<out, outName>>
    BY <2>1 DEF Finish
  <2>3. pc = "assign"
    BY <2>2, EmptyTypes DEF ExchangeInv, Inv, ThreadsOK, TypeOK, ConsoleTyped
  <2>4. p \notin {q \in Pieces : th[q].pc = "ended"}
    BY <2>2
  <2>5. {q \in Pieces : th'[q].pc = "ended"}
          = {q \in Pieces : th[q].pc = "ended"} \union {p}
    BY <1>1, <2>2
  <2>6. T!Fetch(p)
    BY <2>2, <2>3, <2>4, <2>5 DEF T!Fetch
  <2> QED
    BY <2>6 DEF T!Next, T!Progress
<1>4. CASE Complete
  <2>1. /\ pc = "merge" /\ pc' = "done" /\ cur = NP + 1
        /\ UNCHANGED <<th, out, outName>>
    BY <1>4 DEF Complete, disk
  <2>2. {p \in Pieces : th[p].pc = "ended"} = Pieces
    BY <2>1 DEF ExchangeInv, Inv, ThreadsOK
  <2>3. out[outName] = Whole
    <3>1. cur - 1 = NP
      BY <2>1, DownloaderAssumption DEF DownloaderAssumption
    <3> QED
      BY <2>1, <3>1, PrefixAll DEF FreshInv, MergeOK, CalmInv, PeersOK, RunsOK
  <2>4. T!Deliver
    BY <2>1, <2>2, <2>3 DEF T!Deliver
  <2> QED
    BY <2>4 DEF T!Next, T!Progress
<1>5. CASE UNCHANGED <<Stage, Ended, Result>>
  BY <1>5 DEF T!vars
<1>6. CASE \/ ConnectAndShake \/ Recv71 \/ Recv81 \/ OpenSems \/ JoinAll
           \/ MergePiece \/ RemovePiece
  <2>1. /\ pc \in {"connect", "wait71", "wait81", "assign", "merge", "remove"}
        /\ pc' \in {"connect", "wait71", "wait81", "assign", "merge", "remove"}
        /\ th' = th
    BY <1>6 DEF ConnectAndShake, Recv71, Recv81, OpenSems, JoinAll,
                MergePiece, RemovePiece
  <2> QED
    BY <1>5, <2>1
<1>7. CASE AssignPiece
  <2>1. PICK u \in Choices(cur) :
          th' = [th EXCEPT ![cur] = [pc |-> "sem_wait", up |-> u, got |-> 0]]
    BY <1>7 DEF AssignPiece
  <2>2. pc = "assign" /\ pc' = pc /\ cur \in Pieces /\ th[cur].pc = "none"
    BY <1>7 DEF AssignPiece, ExchangeInv, Inv, ThreadsOK
  <2>3. \A p \in Pieces : th'[p].pc = "ended" <=> th[p].pc = "ended"
    BY <1>1, <2>1, <2>2
  <2> QED
    BY <1>5, <2>2, <2>3
<1>8. ASSUME NEW p \in Pieces, Thread(p), ~Finish(p)
      PROVE  UNCHANGED <<Stage, Ended, Result>>
  <2>1. /\ th[p].pc \in {"sem_wait", "recv91", "data"} /\ pc' = pc
        /\ UNCHANGED <<out, outName>>
    BY <1>8 DEF Thread, SemWait, Recv91, RecvData, Recv91Nothing, disk
  <2>2. \/ \E s \in {"recv91", "data"} : th' = [th EXCEPT ![p].pc = s]
        \/ th' = [th EXCEPT ![p].got = @ + 1]
    BY <1>8 DEF Thread, SemWait, Recv91, RecvData, Recv91Nothing
  <2>3. \A q \in Pieces : th'[q].pc = "ended" <=> th[q].pc = "ended"
    <3>1. CASE \E s \in {"recv91", "data"} : th' = [th EXCEPT ![p].pc = s]
      BY <1>1, <2>1, <3>1
    <3>2. CASE th' = [th EXCEPT ![p].got = @ + 1]
      BY <1>1, <2>1, <3>2
    <3> QED
      BY <2>2, <3>1, <3>2
  <2> QED
    BY <2>1, <2>3
<1>9. CASE \/ \E u \in Uploaders : Serve(u) \/ Learn(u)
           \/ Stop \/ UNCHANGED vars
  <2>1. UNCHANGED <<pc, th, out, outName>>
    BY <1>9 DEF Serve, Learn, Stop, vars, mem, disk
  <2> QED
    BY <1>5, <2>1
<1> QED
  BY <1>2, <1>3, <1>4, <1>5, <1>6, <1>7, <1>8, <1>9, NoEnd DEF Next, Main

(* When nothing fails, every step of the threads, sockets, semaphores and   *)
(* files of a download is a step of the abstract one or changes nothing of  *)
(* it: the safety part of ImplementsTransfer for any number of peers,       *)
(* pieces and chunks.                                                       *)
THEOREM Implements ==
  ASSUME FaultFree
  PROVE  Spec => T!Init /\ [][T!Next]_(T!vars)
<1> DEFINE J == ExchangeInv /\ FreshInv /\ CalmInv
<1>1. L # 0
  BY DEF FaultFree
<1>2. Init => J
  BY InitExchange, InitFresh, InitCalm
<1>3. J /\ [Next]_vars => J'
  BY <1>1, StepExchange, StepFresh, StepPeers, StepTidy, StepRuns DEF CalmInv
<1>4. J /\ [Next]_vars => [T!Next]_(T!vars)
  BY StepTransfer
<1> QED
  BY <1>2, <1>3, <1>4, InitTransfer, PTL DEF Spec
=============================================================================
