--------------------------- MODULE ExchangeProofs ---------------------------
(***************************************************************************)
(* InOrderAppend, for any number of peers, pieces, chunks, restarts and    *)
(* faults: the connections carry one exchange at a time, and what is on    *)
(* them belongs to the thread that holds the semaphore.                    *)
(***************************************************************************)
EXTENDS DownloaderProofs, SequenceTheorems

USE DEF Uploaders, Pieces

-----------------------------------------------------------------------------
(* What lies on a connection *)

(* A request q or its reply a is on the way, or the reply never comes. *)
ReqRep(up, down, q, a, p) ==
  \/ up = <<Msg(q, p)>> /\ down = <<>>
  \/ up = <<>> /\ down = <<>>
  \/ up = <<>> /\ down = <<Msg(a, p)>>

(* Request 20, or the chunks behind the g chunks that have been received. *)
Transfers(up, down, p, g) ==
  \/ up = <<Msg(20, p)>> /\ down = <<>> /\ g = 0
  \/ up = <<>> /\ \E n \in 0..(BlockSize(p) - g) : down = Chunks(p, g, n)

Quiet(u) == toUp[u] = <<>> /\ toDown[u] = <<>>
Handshaking(u) == pc \in {"wait71", "wait81"} /\ cur = u
Using(u, p) == InExchange(p) /\ th[p].up = u

Handshake(u) ==
  IF pc = "wait71" THEN ReqRep(toUp[u], toDown[u], 17, 71, 0)
                   ELSE ReqRep(toUp[u], toDown[u], 18, 81, 0)

Exchange(u, p) ==
  IF th[p].pc = "recv91" THEN ReqRep(toUp[u], toDown[u], 19, 91, p)
                         ELSE Transfers(toUp[u], toDown[u], p, th[p].got)

ChannelOK(u) ==
  /\ u \notin alive => toUp[u] = <<>>
  /\ Handshaking(u) => Handshake(u)
  /\ \A p \in Pieces : Using(u, p) => Exchange(u, p)
  /\ ~Handshaking(u) /\ (\A p \in Pieces : ~Using(u, p)) => Quiet(u)

Channels == \A u \in Uploaders : ChannelOK(u)

(* A thread counts chunks only from request 20 on, and up to its piece. *)
GotOK ==
  \A p \in Pieces :
    /\ th[p].got <= BlockSize(p)
    /\ th[p].pc \in {"none", "sem_wait", "recv91"} => th[p].got = 0

ExchangeInv == Inv /\ Channels /\ GotOK /\ InOrderAppend

-----------------------------------------------------------------------------
(* Lemmas on sequences of chunks and messages *)

LEMMA ChunksNone ==
  ASSUME NEW p, NEW c
  PROVE  Chunks(p, c, 0) = <<>>
  BY DEF Chunks

LEMMA ChunksTake ==
  ASSUME NEW p \in Pieces, NEW c \in Nat, NEW n \in Nat, c + n <= K,
         Chunks(p, c, n) # <<>>
  PROVE  /\ n > 0
         /\ Head(Chunks(p, c, n)) = Data(p, c + 1)
         /\ Tail(Chunks(p, c, n)) = Chunks(p, c + 1, n - 1)
<1> USE DownloaderAssumption DEF DownloaderAssumption
<1> DEFINE s == Chunks(p, c, n)
           t == Chunks(p, c + 1, n - 1)
<1>1. n > 0
  BY ChunksNone
<1>0. /\ p \in 0..NP /\ n - 1 \in Nat /\ c + 1 \in Nat
      /\ (c + 1) + (n - 1) <= K
  BY <1>1
<1>2. s \in Seq(Wire) /\ t \in Seq(Wire)
  BY <1>0, ChunksType
<1>3. Len(s) = n /\ Len(t) = n - 1
  BY <1>1, <1>2 DEF Chunks
<1>4. s[1] = Data(p, c + 1)
  BY <1>1 DEF Chunks
<1>5. ASSUME NEW i \in 1..(n - 1) PROVE Tail(s)[i] = t[i]
  <2>1. Tail(s)[i] = s[i + 1]
    BY <1>1, <1>2, <1>3, HeadTailProperties
  <2>2. s[i + 1] = Data(p, c + (i + 1))
    BY DEF Chunks
  <2>3. t[i] = Data(p, (c + 1) + i)
    BY DEF Chunks
  <2>4. c + (i + 1) = (c + 1) + i
    OBVIOUS
  <2> QED
    BY <2>1, <2>2, <2>3, <2>4
<1>6. Tail(s) \in Seq(Wire) /\ Len(Tail(s)) = n - 1
  BY <1>1, <1>2, <1>3, HeadTailProperties
<1>7. Tail(s) = t
  BY <1>2, <1>3, <1>5, <1>6, SeqEqual
<1> QED
  BY <1>1, <1>2, <1>3, <1>4, <1>7

LEMMA ChunksFront ==
  ASSUME NEW p \in Pieces, NEW c \in Nat, NEW n \in Nat, c + n <= K,
         NEW j \in Nat
  PROVE  \E m \in 0..n : Front(Chunks(p, c, n), j) = Chunks(p, c, m)
<1> USE DownloaderAssumption DEF DownloaderAssumption
<1> DEFINE s == Chunks(p, c, n)
           m == IF n < j THEN n ELSE j
           t == Chunks(p, c, m)
<1>0. p \in 0..NP /\ m \in 0..n /\ m \in Nat /\ c + m <= K
  OBVIOUS
<1>1. s \in Seq(Wire) /\ t \in Seq(Wire) /\ m \in 0..n
  BY <1>0, ChunksType
<1>2. Len(s) = n /\ Len(t) = m
  BY <1>1 DEF Chunks
<1>3. Front(s, j) = SubSeq(s, 1, m)
  BY <1>2 DEF Front
<1>4. SubSeq(s, 1, m) \in Seq(Wire) /\ Len(SubSeq(s, 1, m)) = m
  BY <1>1, <1>2
<1>5. \A i \in 1..m : SubSeq(s, 1, m)[i] = t[i]
  BY <1>1, <1>2 DEF Chunks
<1>6. SubSeq(s, 1, m) = t
  BY <1>1, <1>2, <1>4, <1>5, SeqEqual
<1> QED
  BY <1>1, <1>3, <1>6

LEMMA FrontSmall ==
  ASSUME NEW x, NEW j \in Nat
  PROVE  Front(<<>>, j) = <<>> /\ Front(<<x>>, j) \in {<<>>, <<x>>}
<1>1. SubSeq(<<>>, 1, 0) = <<>> /\ SubSeq(<<x>>, 1, 0) = <<>>
  BY SubSeqEmpty
<1>5. <<x>> \in Seq({x}) /\ Len(<<x>>) = 1
  OBVIOUS
<1>6. SubSeq(<<x>>, 1, 1) = <<x>>
  BY <1>5, SubSeqFull
<1>2. Front(<<>>, j) = <<>>
  BY <1>1 DEF Front
<1>3. Front(<<x>>, j) = SubSeq(<<x>>, 1, IF 1 < j THEN 1 ELSE j)
  BY DEF Front
<1>4. (IF 1 < j THEN 1 ELSE j) \in {0, 1}
  OBVIOUS
<1> QED
  BY <1>1, <1>2, <1>3, <1>4, <1>6

(* An uploader dies: what it was asked is lost, and some of its answer. *)
LEMMA ReqRepDies ==
  ASSUME NEW up, NEW down, NEW q, NEW a, NEW p, ReqRep(up, down, q, a, p),
         NEW j \in Nat
  PROVE  ReqRep(<<>>, Front(down, j), q, a, p)
<1>1. down = <<>> \/ down = <<Msg(a, p)>>
  BY DEF ReqRep
<1>2. Front(down, j) \in {<<>>, <<Msg(a, p)>>}
  BY <1>1, FrontSmall
<1> QED
  BY <1>2 DEF ReqRep

LEMMA TransfersDies ==
  ASSUME NEW up, NEW down, NEW p \in Pieces, NEW g \in 0..BlockSize(p),
         Transfers(up, down, p, g), NEW j \in Nat
  PROVE  Transfers(<<>>, Front(down, j), p, g)
<1> USE DownloaderAssumption DEF DownloaderAssumption
<1>0. BlockSize(p) \in 0..K
  BY LengthsType
<1>1. PICK n \in 0..(BlockSize(p) - g) : down = Chunks(p, g, n)
  BY <1>0, ChunksNone DEF Transfers
<1>2. g \in Nat /\ n \in Nat /\ g + n <= K
  BY <1>0
<1>3. PICK m \in 0..n : Front(Chunks(p, g, n), j) = Chunks(p, g, m)
  BY <1>2, ChunksFront
<1>4. m \in 0..(BlockSize(p) - g)
  BY <1>0
<1> QED
  BY <1>1, <1>3, <1>4 DEF Transfers

(* A single request is served. *)
LEMMA ServeOne ==
  ASSUME NEW x, NEW n \in 1..Len(<<x>>), NEW r \in Seq(Wire)
  PROVE  /\ SubSeq(<<x>>, n + 1, Len(<<x>>)) = <<>>
         /\ Head(<<x>>) = x
         /\ <<>> \o r = r
  OBVIOUS
-----------------------------------------------------------------------------
(* Channels *)

LEMMA InitChannels == Init => Channels /\ GotOK /\ InOrderAppend
<1> SUFFICES ASSUME Init PROVE Channels /\ GotOK /\ InOrderAppend
  OBVIOUS
<1>1. pc = "off" /\ th = Idle /\ toUp = Silent /\ toDown = Silent
  BY DEF Init
<1>2. \A p \in Pieces : th[p].pc = "none" /\ th[p].got = 0
  BY <1>1 DEF Idle, NoThread
<1>3. \A u \in Uploaders : toUp[u] = <<>> /\ toDown[u] = <<>>
  BY <1>1 DEF Silent
<1> QED
  BY <1>1, <1>2, <1>3, LengthsType
  DEF Channels, ChannelOK, Handshaking, Using, InExchange, Quiet, GotOK,
      InOrderAppend

LEMMA ProcessEndsChannels ==
  ProcessEnds => (Channels /\ GotOK /\ InOrderAppend)'
<1> SUFFICES ASSUME ProcessEnds
             PROVE  (Channels /\ GotOK /\ InOrderAppend)'
  OBVIOUS
<1>1. pc' = "off" /\ th' = Idle /\ toUp' = Silent /\ toDown' = Silent
  BY DEF ProcessEnds
<1>2. \A p \in Pieces : th'[p].pc = "none" /\ th'[p].got = 0
  BY <1>1 DEF Idle, NoThread
<1>3. \A u \in Uploaders : toUp'[u] = <<>> /\ toDown'[u] = <<>>
  BY <1>1 DEF Silent
<1> QED
  BY <1>1, <1>2, <1>3, LengthsType
  DEF Channels, ChannelOK, Handshaking, Using, InExchange, Quiet, GotOK,
      InOrderAppend

(* Nobody starts to use connection u, whoever used it still does, and       *)
(* nothing moves on it.                                                     *)
LEMMA KeepChannel ==
  ASSUME NEW u \in Uploaders, ChannelOK(u),
         toUp'[u] = toUp[u], toDown'[u] = toDown[u],
         u \in alive => u \in alive',
         Handshaking(u)' => UNCHANGED <<pc, cur>>,
         Handshaking(u) => Handshaking(u)' \/ Quiet(u),
         \A p \in Pieces : Using(u, p)' => th'[p] = th[p],
         \A p \in Pieces : Using(u, p) => Using(u, p)' \/ Quiet(u)
  PROVE  ChannelOK(u)'
<1>1. u \notin alive' => toUp'[u] = <<>>
  BY DEF ChannelOK
<1>2. Handshaking(u)' => Handshake(u)'
  BY DEF ChannelOK, Handshaking, Handshake
<1>3. ASSUME NEW p \in Pieces, Using(u, p)' PROVE Exchange(u, p)'
  <2>1. Using(u, p)
    BY <1>3 DEF Using, InExchange
  <2> QED
    BY <1>3, <2>1 DEF ChannelOK, Exchange
<1>4. ASSUME ~Handshaking(u)', \A p \in Pieces : ~Using(u, p)'
      PROVE  Quiet(u)'
  <2>1. Quiet(u)
    BY <1>4 DEF ChannelOK
  <2> QED
    BY <2>1 DEF Quiet
<1> QED
  BY <1>1, <1>2, <1>3, <1>4 DEF ChannelOK

(* Before the piece loop no thread uses a connection. *)
LEMMA NoThreads ==
  ASSUME Inv, pc # "assign"
  PROVE  \A u \in Uploaders, p \in Pieces : ~Using(u, p)
  BY EmptyTypes DEF Inv, TypeOK, ConsoleTyped, ThreadsOK, Using, InExchange

(* A step of the handshake with peer v, which is where the console thread   *)
(* was or is: the other connections keep what they have.                    *)
LEMMA OtherPeers ==
  ASSUME Inv, Channels, pc # "assign", NEW v \in Uploaders,
         pc \in {"wait71", "wait81"} => cur = v,
         pc' \in {"wait71", "wait81"} => cur' = v,
         UNCHANGED <<th, alive>>,
         \A u \in Uploaders \ {v} : toUp'[u] = toUp[u] /\ toDown'[u] = toDown[u]
  PROVE  \A u \in Uploaders \ {v} : ChannelOK(u)'
<1> SUFFICES ASSUME NEW u \in Uploaders, u # v PROVE ChannelOK(u)'
  OBVIOUS
<1>1. ~Handshaking(u) /\ ~Handshaking(u)'
  BY DEF Handshaking
<1>2. \A p \in Pieces : ~Using(u, p) /\ ~Using(u, p)'
  BY NoThreads DEF Using, InExchange
<1> QED
  BY <1>1, <1>2, KeepChannel DEF Channels

LEMMA HandshakeChannels ==
  ASSUME Inv, Channels,
         ConnectAndShake \/ Recv71 \/ Recv81 \/ HandshakeFails
  PROVE  Channels'
<1>0. pc \in {"connect", "wait71", "wait81"} /\ cur \in Uploaders
  BY DEF ConnectAndShake, Recv71, Recv81, HandshakeFails, Inv, TypeOK, CurOK,
         NetTyped
<1>v. PICK v \in Uploaders : v = cur
  BY <1>0
<1>1. UNCHANGED <<th, alive>>
  BY DEF ConnectAndShake, Recv71, Recv81, HandshakeFails, net
<1>2. pc' \in {"wait71", "wait81"} => cur' = v
  BY <1>v DEF ConnectAndShake, Recv71, Recv81, HandshakeFails
<1>3. \A u \in Uploaders \ {v} : toUp'[u] = toUp[u] /\ toDown'[u] = toDown[u]
  BY <1>v DEF ConnectAndShake, Recv71, Recv81, HandshakeFails, Send, net, Inv,
              TypeOK, NetTyped
<1>4. \A u \in Uploaders \ {v} : ChannelOK(u)'
  BY <1>0, <1>v, <1>1, <1>2, <1>3, OtherPeers
<1>5. \A p \in Pieces : ~Using(v, p) /\ ~Using(v, p)'
  BY <1>0, <1>1, NoThreads DEF Using, InExchange
<1>6. /\ toUp \in [Uploaders -> Seq(Request)]
      /\ toDown \in [Uploaders -> Seq(Wire)]
      /\ ChannelOK(v)
  BY DEF Inv, TypeOK, NetTyped, Channels
<1>7. ChannelOK(v)'
  <2>1. CASE ConnectAndShake
    <3>1. toUp[v] = <<>> /\ toDown[v] = <<>>
      BY <1>v, <1>5, <1>6, <2>1 DEF ConnectAndShake, ChannelOK, Handshaking, Quiet
    <3>2. toUp'[v] = <<Msg(17, 0)>> /\ toDown'[v] = <<>>
      BY <1>v, <1>6, <2>1, <3>1 DEF ConnectAndShake, Send
    <3>3. pc' = "wait71" /\ cur' = v /\ v \in alive'
      BY <1>v, <2>1 DEF ConnectAndShake
    <3> QED
      BY <1>5, <3>2, <3>3 DEF ChannelOK, Handshaking, Handshake, ReqRep
  <2>2. CASE Recv71
    <3>1. pc = "wait71" /\ toDown[v] # <<>>
      BY <1>v, <2>2 DEF Recv71
    <3>2. toUp[v] = <<>> /\ toDown[v] = <<Msg(71, 0)>>
      BY <1>v, <1>6, <3>1 DEF ChannelOK, Handshaking, Handshake, ReqRep
    <3>3. toDown'[v] = <<>>
      BY <1>v, <1>6, <2>2, <3>2 DEF Recv71
    <3>4. toUp'[v] = IF v \in alive THEN <<Msg(18, 0)>> ELSE <<>>
      BY <1>v, <1>6, <2>2, <3>2 DEF Recv71, Send
    <3>5. pc' = "wait81" /\ cur' = v
      BY <1>v, <2>2 DEF Recv71
    <3> QED
      BY <1>1, <1>5, <3>3, <3>4, <3>5
      DEF ChannelOK, Handshaking, Handshake, ReqRep
  <2>3. CASE Recv81
    <3>1. pc = "wait81" /\ toDown[v] # <<>>
      BY <1>v, <2>3 DEF Recv81
    <3>2. toUp[v] = <<>> /\ toDown[v] = <<Msg(81, 0)>>
      BY <1>v, <1>6, <3>1 DEF ChannelOK, Handshaking, Handshake, ReqRep
    <3>3. toDown'[v] = <<>> /\ toUp' = toUp /\ pc' = "connect"
      BY <1>v, <1>6, <2>3, <3>2 DEF Recv81
    <3> QED
      BY <1>5, <3>2, <3>3 DEF ChannelOK, Handshaking, Quiet
  <2>4. CASE HandshakeFails
    <3>1. toUp[v] = <<>> /\ toDown[v] = <<>>
      BY <1>v, <1>6, <2>4 DEF HandshakeFails, ChannelOK
    <3>2. toUp' = toUp /\ toDown' = toDown /\ pc' = "connect"
      BY <1>v, <2>4 DEF HandshakeFails, net
    <3> QED
      BY <1>5, <3>1, <3>2 DEF ChannelOK, Handshaking, Quiet
  <2> QED
    BY <2>1, <2>2, <2>3, <2>4
<1> QED
  BY <1>4, <1>7 DEF Channels

(* The steps of the console thread that move nothing on the connections,    *)
(* and JoinAll, which closes them.                                          *)
LEMMA ConsoleChannels ==
  ASSUME Inv, Channels,
         \/ Start \/ ConnectFails \/ OpenSems \/ AssignPiece \/ JoinAll
         \/ MergePiece \/ RemovePiece \/ Complete
  PROVE  Channels'
<1> USE DEF net
<1>0. ~(pc' \in {"wait71", "wait81"}) /\ ~(pc \in {"wait71", "wait81"})
  BY DEF Start, ConnectFails, OpenSems, AssignPiece, JoinAll, MergePiece,
         RemovePiece, Complete
<1>1. CASE JoinAll
  <2>1. \A u \in Uploaders : toUp'[u] = <<>> /\ toDown'[u] = <<>>
    BY <1>1 DEF JoinAll, Silent
  <2>2. \A p \in Pieces : th'[p].pc = "ended"
    BY <1>1 DEF JoinAll, Joined
  <2> QED
    BY <1>0, <2>1, <2>2
    DEF Channels, ChannelOK, Handshaking, Using, InExchange, Quiet
<1>2. CASE ~JoinAll
  <2> SUFFICES ASSUME NEW u \in Uploaders PROVE ChannelOK(u)'
    BY DEF Channels
  <2>1. toUp' = toUp /\ toDown' = toDown /\ alive' = alive
    BY <1>2 DEF Start, ConnectFails, OpenSems, AssignPiece, MergePiece,
                RemovePiece, Complete
  <2>2. ~Handshaking(u) /\ ~Handshaking(u)'
    BY <1>0 DEF Handshaking
  <2>3. \A p \in Pieces : Using(u, p)' => th'[p] = th[p]
    <3>1. CASE Start
      BY <3>1, EmptyTypes DEF Start, Using, InExchange
    <3>2. CASE AssignPiece
      BY <3>2 DEF AssignPiece, Using, InExchange, Inv, TypeOK, ThreadsTyped
    <3>3. CASE ~Start /\ ~AssignPiece
      BY <1>2, <3>3 DEF ConnectFails, OpenSems, MergePiece, RemovePiece,
                        Complete
    <3> QED
      BY <3>1, <3>2, <3>3
  <2>4. \A p \in Pieces : Using(u, p) => Using(u, p)' \/ Quiet(u)
    <3>1. CASE Start
      <4>1. pc # "assign"
        BY <3>1 DEF Start
      <4> QED
        BY <4>1, NoThreads
    <3>2. CASE AssignPiece
      <4>1. PICK w \in Choices(cur) :
              th' = [th EXCEPT ![cur] = [pc |-> "sem_wait", up |-> w, got |-> 0]]
        BY <3>2 DEF AssignPiece
      <4>2. \A p \in Pieces : p # cur => th'[p] = th[p]
        BY <4>1 DEF Inv, TypeOK, ThreadsTyped
      <4>3. th[cur].pc = "none"
        BY <3>2 DEF AssignPiece, Inv, ThreadsOK
      <4> QED
        BY <4>2, <4>3 DEF Using, InExchange
    <3>3. CASE ~Start /\ ~AssignPiece
      <4>1. th' = th
        BY <1>2, <3>3 DEF ConnectFails, OpenSems, MergePiece, RemovePiece,
                          Complete
      <4> QED
        BY <4>1 DEF Using, InExchange
    <3> QED
      BY <3>1, <3>2, <3>3
  <2> QED
    BY <2>1, <2>2, <2>3, <2>4, KeepChannel DEF Channels
<1> QED
  BY <1>1, <1>2

(* What a thread does to its connection. *)
LEMMA ThreadChannels ==
  ASSUME Inv, Channels, GotOK, L # 0, NEW p \in Pieces, Thread(p)
  PROVE  Channels'
<1> USE DownloaderAssumption DEF DownloaderAssumption, net
<1>0. th[p].pc \in {"sem_wait", "recv91", "data"}
  BY DEF Thread, SemWait, Recv91, RecvData, Finish, Recv91Nothing
<1>1. /\ th \in [Pieces -> [pc : ThreadStates, up : 0..NU, got : 0..K]]
      /\ th[p] \in [pc : ThreadStates, up : 0..NU, got : 0..K]
      /\ toUp \in [Uploaders -> Seq(Request)]
      /\ toDown \in [Uploaders -> Seq(Wire)]
  BY DEF Inv, TypeOK, ThreadsTyped, NetTyped
<1>2. PICK v \in Uploaders : v = th[p].up
  BY <1>0 DEF Inv, TypeOK, ThreadsTyped
<1>3. pc = "assign"
  BY <1>0, EmptyTypes DEF Inv, ThreadsOK, TypeOK, ConsoleTyped
<1>4. UNCHANGED <<pc, cur, alive>>
  BY DEF Thread, SemWait, Recv91, RecvData, Finish, Recv91Nothing
<1>5. \A q \in Pieces : q # p => th'[q] = th[q]
  BY <1>1 DEF Thread, SemWait, Recv91, RecvData, Finish, Recv91Nothing
<1>6. th'[p].up = v
  BY <1>1, <1>2 DEF Thread, SemWait, Recv91, RecvData, Finish, Recv91Nothing
<1>7. \A u \in Uploaders \ {v} : toUp'[u] = toUp[u] /\ toDown'[u] = toDown[u]
  BY <1>1, <1>2
  DEF Thread, SemWait, Recv91, RecvData, Finish, Recv91Nothing, Send
<1>8. ASSUME NEW u \in Uploaders, u # v PROVE ChannelOK(u)'
  <2>1. ~Handshaking(u) /\ ~Handshaking(u)'
    BY <1>3, <1>4 DEF Handshaking
  <2>2. ~Using(u, p) /\ ~Using(u, p)'
    BY <1>2, <1>6, <1>8 DEF Using
  <2>3. \A q \in Pieces : q # p => (Using(u, q)' <=> Using(u, q))
    BY <1>5 DEF Using, InExchange
  <2> QED
    BY <1>4, <1>5, <1>7, <1>8, <2>1, <2>2, <2>3, KeepChannel DEF Channels
<1>9. ~Handshaking(v) /\ ~Handshaking(v)' /\ ChannelOK(v)
  BY <1>3, <1>4 DEF Handshaking, Channels
<1>10. \A q \in Pieces : q # p => ~Using(v, q) /\ ~Using(v, q)'
  <2>1. CASE SemWait(p)
    <3>1. sem[v] # 0
      BY <1>2, <2>1 DEF SemWait, Inv, TypeOK, DiskTyped
    <3> QED
      BY <1>5, <3>1 DEF Inv, SemOK, Using, InExchange
  <2>2. CASE ~SemWait(p)
    <3>1. InExchange(p)
      BY <2>2 DEF Thread, Recv91, RecvData, Finish, Recv91Nothing, InExchange
    <3> QED
      BY <1>2, <1>5, <3>1 DEF Inv, SemOK, OneExchange, Using, InExchange
  <2> QED
    BY <2>1, <2>2
<1>11. ChannelOK(v)'
  <2>1. CASE SemWait(p)
    <3>1. ~Using(v, p)
      BY <2>1 DEF SemWait, Using, InExchange
    <3>2. toUp[v] = <<>> /\ toDown[v] = <<>>
      BY <1>9, <1>10, <3>1 DEF ChannelOK, Quiet
    <3>3. toUp'[v] = IF v \in alive THEN <<Msg(19, p)>> ELSE <<>>
      BY <1>1, <1>2, <2>1, <3>2 DEF SemWait, Send
    <3>4. toDown'[v] = <<>>
      BY <2>1, <3>2 DEF SemWait
    <3>5. th'[p].pc = "recv91"
      BY <1>1, <2>1 DEF SemWait
    <3>6. Exchange(v, p)' /\ Using(v, p)'
      BY <1>6, <3>3, <3>4, <3>5 DEF Exchange, ReqRep, Using, InExchange
    <3> QED
      BY <1>4, <1>9, <1>10, <3>3, <3>6 DEF ChannelOK
  <2>2. CASE Recv91(p)
    <3>1. th[p].pc = "recv91" /\ toDown[v] # <<>>
      BY <1>2, <2>2 DEF Recv91
    <3>2. toUp[v] = <<>> /\ toDown[v] = <<Msg(91, p)>>
      BY <1>2, <1>9, <3>1 DEF ChannelOK, Using, InExchange, Exchange, ReqRep
    <3>3. toUp'[v] = IF v \in alive THEN <<Msg(20, p)>> ELSE <<>>
      BY <1>1, <1>2, <2>2, <3>2 DEF Recv91, Send
    <3>4. toDown'[v] = <<>>
      BY <1>1, <1>2, <2>2, <3>2 DEF Recv91
    <3>5. th'[p].pc = "data" /\ th'[p].got = 0
      BY <1>1, <2>2, <3>1 DEF Recv91, GotOK
    <3>6. Transfers(toUp'[v], toDown'[v], p, 0)
      BY <3>3, <3>4, ChunksNone, LengthsType DEF Transfers
    <3>7. Exchange(v, p)' /\ Using(v, p)'
      BY <1>6, <3>5, <3>6 DEF Exchange, Using, InExchange
    <3> QED
      BY <1>4, <1>9, <1>10, <3>3, <3>7 DEF ChannelOK
  <2>3. CASE RecvData(p)
    <3> DEFINE g == th[p].got
    <3>1. th[p].pc = "data" /\ toDown[v] # <<>> /\ g < BlockSize(p)
      BY <1>2, <2>3 DEF RecvData
    <3>2. Transfers(toUp[v], toDown[v], p, g)
      BY <1>2, <1>9, <3>1 DEF ChannelOK, Using, InExchange, Exchange
    <3>3. toUp[v] = <<>>
      BY <3>1, <3>2 DEF Transfers
    <3>4. PICK n \in 0..(BlockSize(p) - g) : toDown[v] = Chunks(p, g, n)
      BY <3>1, <3>2 DEF Transfers
    <3>12. g \in Nat /\ BlockSize(p) \in 0..K
      BY <1>1, LengthsType
    <3>5. g \in Nat /\ n \in Nat /\ g + n <= K
      BY <3>1, <3>12
    <3>6. n > 0 /\ Tail(toDown[v]) = Chunks(p, g + 1, n - 1)
      <4>1. Chunks(p, g, n) # <<>>
        BY <3>1, <3>4
      <4>2. n > 0 /\ Tail(Chunks(p, g, n)) = Chunks(p, g + 1, n - 1)
        BY <3>5, <4>1, ChunksTake
      <4> QED
        BY <3>4, <4>2
    <3>7. toUp'[v] = <<>> /\ toDown'[v] = Chunks(p, g + 1, n - 1)
      BY <1>1, <1>2, <2>3, <3>3, <3>6 DEF RecvData
    <3>8. th'[p].pc = "data" /\ th'[p].got = g + 1
      BY <1>1, <2>3, <3>1 DEF RecvData
    <3>9. n - 1 \in 0..(BlockSize(p) - (g + 1))
      BY <3>5, <3>6, <3>12
    <3>10. Transfers(toUp'[v], toDown'[v], p, g + 1)
      BY <3>7, <3>9 DEF Transfers
    <3>11. Exchange(v, p)' /\ Using(v, p)'
      BY <1>6, <3>8, <3>10 DEF Exchange, Using, InExchange
    <3> QED
      BY <1>4, <1>9, <1>10, <3>7, <3>11 DEF ChannelOK
  <2>4. CASE Finish(p)
    <3>1. toUp' = toUp /\ toDown' = toDown
      BY <2>4 DEF Finish
    <3>2. Quiet(v)
      <4>1. CASE th[p].pc = "data"
        <5>1. th[p].got = BlockSize(p)
          BY <4>1, <2>4 DEF Finish
        <5>2. Transfers(toUp[v], toDown[v], p, BlockSize(p))
          BY <1>2, <1>9, <4>1, <5>1 DEF ChannelOK, Using, InExchange, Exchange
        <5>3. BlockSize(p) # 0 /\ BlockSize(p) \in Nat
          BY DEF BlockSize
        <5> QED
          BY <5>2, <5>3, ChunksNone DEF Transfers, Quiet
      <4>2. CASE th[p].pc # "data"
        <5>1. v \notin alive /\ toDown[v] = <<>>
          BY <1>2, <4>2, <2>4 DEF Finish
        <5> QED
          BY <1>9, <5>1 DEF ChannelOK, Quiet
      <4> QED
        BY <4>1, <4>2
    <3>3. ~Using(v, p)'
      BY <1>1, <2>4 DEF Finish, Using, InExchange
    <3> QED
      BY <1>9, <1>10, <3>1, <3>2, <3>3 DEF ChannelOK, Quiet
  <2>5. CASE Recv91Nothing(p)
    <3>1. /\ th[p].pc = "recv91" /\ v \notin alive
          /\ toUp[v] = <<>> /\ toDown[v] = <<>>
      BY <1>2, <1>9, <2>5 DEF Recv91Nothing, ChannelOK
    <3>2. toUp'[v] = <<>> /\ toDown'[v] = <<>>
      BY <2>5, <3>1 DEF Recv91Nothing
    <3>3. th'[p].pc = "data" /\ th'[p].got = 0
      BY <1>1, <2>5, <3>1 DEF Recv91Nothing, GotOK
    <3>4. Transfers(toUp'[v], toDown'[v], p, 0)
      BY <3>2, ChunksNone, LengthsType DEF Transfers
    <3>5. Exchange(v, p)' /\ Using(v, p)'
      BY <1>6, <3>3, <3>4 DEF Exchange, Using, InExchange
    <3> QED
      BY <1>4, <1>9, <1>10, <3>2, <3>5 DEF ChannelOK
  <2> QED
    BY <2>1, <2>2, <2>3, <2>4, <2>5 DEF Thread
<1> QED
  BY <1>8, <1>11 DEF Channels

(* What an uploader does to its connection. *)
LEMMA ServeReqRep ==
  ASSUME NEW u \in Uploaders, Inv, Serve(u),
         NEW q \in {17, 18, 19}, NEW a, NEW p \in 0..NP,
         /\ q = 17 => a = 71
         /\ q = 18 => a = 81
         /\ q = 19 => a = 91,
         q \in {17, 18} => p = 0,
         ReqRep(toUp[u], toDown[u], q, a, p)
  PROVE  ReqRep(toUp'[u], toDown'[u], q, a, p)
<1>1. toUp[u] # <<>>
  BY DEF Serve
<1>2. toUp[u] = <<Msg(q, p)>> /\ toDown[u] = <<>>
  BY <1>1 DEF ReqRep
<1>3. /\ toUp \in [Uploaders -> Seq(Request)]
      /\ toDown \in [Uploaders -> Seq(Wire)]
  BY DEF Inv, TypeOK, NetTyped
<1>4. PICK n \in 1..Len(toUp[u]) :
        toUp' = [toUp EXCEPT ![u] = SubSeq(@, n + 1, Len(@))]
  BY DEF Serve
<1>5. PICK r \in Replies(u, Head(toUp[u])) :
        toDown' = [toDown EXCEPT ![u] = @ \o r]
  BY DEF Serve
<1>6. Head(toUp[u]) = Msg(q, p) /\ Head(toUp[u]) \in Request
  BY <1>2, Messages
<1>7. Msg(q, p).type = q /\ Msg(q, p).piece = p
  BY DEF Msg
<1>8. r \in Seq(Wire)
  BY <1>5, <1>6, RepliesType
<1>9. r = <<>> \/ r = <<Msg(a, p)>>
  <2>1. CASE q = 17
    BY <1>5, <1>6, <1>7, <2>1 DEF Replies
  <2>2. CASE q = 18
    BY <1>5, <1>6, <1>7, <2>2 DEF Replies
  <2>3. CASE q = 19
    BY <1>5, <1>6, <1>7, <2>3 DEF Replies
  <2> QED
    BY <2>1, <2>2, <2>3
<1>10. toUp'[u] = SubSeq(toUp[u], n + 1, Len(toUp[u]))
       /\ toDown'[u] = toDown[u] \o r
  BY <1>3, <1>4, <1>5
<1>11. toUp'[u] = <<>> /\ toDown'[u] = r
  BY <1>2, <1>8, <1>10, ServeOne
<1> QED
  BY <1>9, <1>11 DEF ReqRep

LEMMA ServeTransfers ==
  ASSUME NEW u \in Uploaders, Inv, Serve(u), NEW p \in Pieces, NEW g,
         Transfers(toUp[u], toDown[u], p, g)
  PROVE  Transfers(toUp'[u], toDown'[u], p, g)
<1> USE DownloaderAssumption DEF DownloaderAssumption
<1>1. toUp[u] # <<>>
  BY DEF Serve
<1>2. toUp[u] = <<Msg(20, p)>> /\ toDown[u] = <<>> /\ g = 0
  BY <1>1 DEF Transfers
<1>3. /\ toUp \in [Uploaders -> Seq(Request)]
      /\ toDown \in [Uploaders -> Seq(Wire)]
  BY DEF Inv, TypeOK, NetTyped
<1>4. PICK n \in 1..Len(toUp[u]) :
        toUp' = [toUp EXCEPT ![u] = SubSeq(@, n + 1, Len(@))]
  BY DEF Serve
<1>5. PICK r \in Replies(u, Head(toUp[u])) :
        toDown' = [toDown EXCEPT ![u] = @ \o r]
  BY DEF Serve
<1>6. Head(toUp[u]) = Msg(20, p) /\ Msg(20, p) \in Request
  BY <1>2, Messages
<1>7. Msg(20, p).type = 20 /\ Msg(20, p).piece = p
  BY DEF Msg
<1>8. r \in Seq(Wire)
  BY <1>5, <1>6, RepliesType
<1>9. PICK m \in 0..PieceLength(p) : r = Chunks(p, 0, m)
  <2>1. Replies(u, Msg(20, p)) =
          {Chunks(p, 0, m) : m \in IF p \in holds[u] THEN {PieceLength(p)}
                                                     ELSE 0..PieceLength(p)}
    BY <1>7 DEF Replies
  <2>2. PieceLength(p) \in 0..PieceLength(p)
    BY LengthsType
  <2> QED
    BY <1>5, <1>6, <2>1, <2>2
<1>10. toUp'[u] = SubSeq(toUp[u], n + 1, Len(toUp[u]))
       /\ toDown'[u] = toDown[u] \o r
  BY <1>3, <1>4, <1>5
<1>11. toUp'[u] = <<>> /\ toDown'[u] = r
  BY <1>2, <1>8, <1>10, ServeOne
<1>12. m \in 0..(BlockSize(p) - g)
  BY <1>2, LengthsType DEF PieceLength, BlockSize
<1> QED
  BY <1>9, <1>2, <1>11, <1>12 DEF Transfers

(* The other connections, when uploader v does something. *)
LEMMA OtherUploaders ==
  ASSUME Channels, NEW v \in Uploaders, UNCHANGED <<pc, cur, th>>,
         NEW u \in Uploaders, u # v, toUp'[u] = toUp[u], toDown'[u] = toDown[u],
         u \in alive => u \in alive'
  PROVE  ChannelOK(u)'
<1>1. Handshaking(u)' <=> Handshaking(u)
  BY DEF Handshaking
<1>2. \A p \in Pieces : Using(u, p)' <=> Using(u, p)
  BY DEF Using, InExchange
<1> QED
  BY <1>1, <1>2, KeepChannel DEF Channels

LEMMA UploaderChannels ==
  ASSUME Inv, Channels, GotOK, NEW v \in Uploaders,
         Serve(v) \/ Learn(v) \/ UploaderDies(v)
  PROVE  Channels'
<1> USE DownloaderAssumption DEF DownloaderAssumption
<1>1. UNCHANGED <<pc, cur, th>>
  BY DEF Serve, Learn, UploaderDies, mem
<1>2. /\ toUp \in [Uploaders -> Seq(Request)]
      /\ toDown \in [Uploaders -> Seq(Wire)]
      /\ th \in [Pieces -> [pc : ThreadStates, up : 0..NU, got : 0..K]]
  BY DEF Inv, TypeOK, NetTyped, ThreadsTyped
<1>3. ASSUME NEW u \in Uploaders, u # v PROVE ChannelOK(u)'
  <2>1. toUp'[u] = toUp[u] /\ toDown'[u] = toDown[u]
    BY <1>2, <1>3 DEF Serve, Learn, UploaderDies
  <2>2. u \in alive => u \in alive'
    BY <1>3 DEF Serve, Learn, UploaderDies
  <2> QED
    BY <1>1, <1>3, <2>1, <2>2, OtherUploaders
<1>4. /\ Handshaking(v)' <=> Handshaking(v)
      /\ \A p \in Pieces : Using(v, p)' <=> Using(v, p)
      /\ ChannelOK(v)
  BY <1>1 DEF Handshaking, Using, InExchange, Channels
<1>5. ChannelOK(v)'
  <2>1. CASE Serve(v)
    <3>1. toUp[v] # <<>> /\ v \in alive /\ alive' = alive
      BY <2>1 DEF Serve
    <3>2. Handshaking(v)' => Handshake(v)'
      <4> SUFFICES ASSUME Handshaking(v) PROVE Handshake(v)'
        BY <1>4
      <4>1. Handshake(v)
        BY <1>4 DEF ChannelOK
      <4>2. CASE pc = "wait71"
        <5>1. ReqRep(toUp[v], toDown[v], 17, 71, 0)
          BY <4>1, <4>2 DEF Handshake
        <5>2. ReqRep(toUp'[v], toDown'[v], 17, 71, 0)
          BY <2>1, <5>1, ServeReqRep
        <5> QED
          BY <1>1, <4>2, <5>2 DEF Handshake
      <4>3. CASE pc # "wait71"
        <5>1. ReqRep(toUp[v], toDown[v], 18, 81, 0)
          BY <4>1, <4>3 DEF Handshake
        <5>2. ReqRep(toUp'[v], toDown'[v], 18, 81, 0)
          BY <2>1, <5>1, ServeReqRep
        <5> QED
          BY <1>1, <4>3, <5>2 DEF Handshake
      <4> QED
        BY <4>2, <4>3
    <3>3. ASSUME NEW p \in Pieces, Using(v, p)' PROVE Exchange(v, p)'
      <4>1. Exchange(v, p)
        BY <1>4, <3>3 DEF ChannelOK
      <4>2. CASE th[p].pc = "recv91"
        <5>1. ReqRep(toUp[v], toDown[v], 19, 91, p)
          BY <4>1, <4>2 DEF Exchange
        <5>2. ReqRep(toUp'[v], toDown'[v], 19, 91, p)
          BY <2>1, <5>1, ServeReqRep
        <5> QED
          BY <1>1, <4>2, <5>2 DEF Exchange
      <4>3. CASE th[p].pc # "recv91"
        <5>1. Transfers(toUp[v], toDown[v], p, th[p].got)
          BY <4>1, <4>3 DEF Exchange
        <5>2. Transfers(toUp'[v], toDown'[v], p, th[p].got)
          BY <2>1, <5>1, ServeTransfers
        <5> QED
          BY <1>1, <4>3, <5>2 DEF Exchange
      <4> QED
        BY <4>2, <4>3
    <3>4. Handshaking(v)' \/ \E p \in Pieces : Using(v, p)'
      BY <1>4, <3>1 DEF ChannelOK, Quiet
    <3> QED
      BY <3>1, <3>2, <3>3, <3>4 DEF ChannelOK
  <2>2. CASE Learn(v)
    <3>1. UNCHANGED <<toUp, toDown, alive>>
      BY <2>2 DEF Learn
    <3> QED
      BY <1>1, <1>4, <3>1 DEF ChannelOK, Handshake, Exchange, Quiet
  <2>3. CASE UploaderDies(v)
    <3>1. PICK n \in 0..Len(toDown[v]) :
            toDown' = [toDown EXCEPT ![v] = Front(@, n)]
      BY <2>3 DEF UploaderDies
    <3>2. n \in Nat
      BY <1>2, <3>1
    <3>3. toUp'[v] = <<>> /\ toDown'[v] = Front(toDown[v], n)
      BY <1>2, <2>3, <3>1 DEF UploaderDies
    <3>4. Handshaking(v)' => Handshake(v)'
      BY <1>1, <1>4, <3>2, <3>3, ReqRepDies DEF ChannelOK, Handshake
    <3>5. ASSUME NEW p \in Pieces, Using(v, p)' PROVE Exchange(v, p)'
      <4>1. Exchange(v, p)
        BY <1>4, <3>5 DEF ChannelOK
      <4>2. CASE th[p].pc = "recv91"
        <5>1. ReqRep(toUp[v], toDown[v], 19, 91, p)
          BY <4>1, <4>2 DEF Exchange
        <5>2. ReqRep(toUp'[v], toDown'[v], 19, 91, p)
          BY <3>2, <3>3, <5>1, ReqRepDies
        <5> QED
          BY <1>1, <4>2, <5>2 DEF Exchange
      <4>3. CASE th[p].pc # "recv91"
        <5>1. Transfers(toUp[v], toDown[v], p, th[p].got)
          BY <4>1, <4>3 DEF Exchange
        <5>2. th[p].got \in 0..BlockSize(p)
          BY <1>2, LengthsType DEF GotOK
        <5>3. Transfers(toUp'[v], toDown'[v], p, th[p].got)
          BY <3>2, <3>3, <5>1, <5>2, TransfersDies
        <5> QED
          BY <1>1, <4>3, <5>3 DEF Exchange
      <4> QED
        BY <4>2, <4>3
    <3>6. Quiet(v) => Quiet(v)'
      BY <3>2, <3>3, FrontSmall DEF Quiet
    <3> QED
      BY <1>4, <3>3, <3>4, <3>5, <3>6 DEF ChannelOK
  <2> QED
    BY <2>1, <2>2, <2>3
<1> QED
  BY <1>3, <1>5 DEF Channels

-----------------------------------------------------------------------------
(* Chunks counted and appended *)

LEMMA StepGot ==
  ASSUME ExchangeInv, [Next]_vars, Inv'
  PROVE  GotOK'
<1> USE DownloaderAssumption DEF DownloaderAssumption
<1> DEFINE S == [pc : ThreadStates, up : 0..NU, got : 0..K]
<1>1. th \in [Pieces -> S] /\ \A p \in Pieces : th[p] \in S
  BY DEF ExchangeInv, Inv, TypeOK, ThreadsTyped
<1>2. CASE th' = th
  BY <1>2 DEF ExchangeInv, GotOK
<1>3. CASE th' = Idle
  BY <1>3, LengthsType DEF GotOK, Idle, NoThread
<1>4. CASE AssignPiece
  <2>1. PICK u \in Choices(cur) :
          th' = [th EXCEPT ![cur] = [pc |-> "sem_wait", up |-> u, got |-> 0]]
    BY <1>4 DEF AssignPiece
  <2> QED
    BY <1>1, <2>1, LengthsType DEF ExchangeInv, GotOK
<1>5. ASSUME NEW p \in Pieces, Thread(p) PROVE GotOK'
  <2>1. \A q \in Pieces : q # p => th'[q] = th[q]
    BY <1>1, <1>5 DEF Thread, SemWait, Recv91, RecvData, Finish, Recv91Nothing
  <2>2. \/ th'[p].got = th[p].got
        \/ /\ th'[p].got = th[p].got + 1
           /\ th[p].got < BlockSize(p)
           /\ th'[p].pc = "data"
    BY <1>1, <1>5 DEF Thread, SemWait, Recv91, RecvData, Finish, Recv91Nothing
  <2>3. th'[p].pc \in {"none", "sem_wait", "recv91"} =>
          th[p].pc \in {"none", "sem_wait", "recv91"}
    BY <1>1, <1>5 DEF Thread, SemWait, Recv91, RecvData, Finish, Recv91Nothing
  <2>4. th[p].got \in 0..K /\ BlockSize(p) \in 0..K
    BY <1>1, LengthsType
  <2> QED
    BY <2>1, <2>2, <2>3, <2>4 DEF ExchangeInv, GotOK
<1>6. \/ th' = th
      \/ th' = Idle
      \/ AssignPiece
      \/ \E p \in Pieces : Thread(p)
  BY DEF Next, Start, Main, ConnectAndShake, ConnectFails, Recv71, Recv81,
         HandshakeFails, OpenSems, NoOneHas, NoBitfield, JoinAll, MergePiece,
         RemovePiece, Complete, FatalSocketError, Serve, Learn, UploaderDies,
         Kill, Stop, ProcessEnds, vars, mem
<1> QED
  BY <1>2, <1>3, <1>4, <1>5, <1>6

(* The chunk a thread appends is the next one of its piece. *)
LEMMA NextChunk ==
  ASSUME ExchangeInv, NEW p \in Pieces, RecvData(p)
  PROVE  Head(toDown[th[p].up]) = Data(p, th[p].got + 1)
<1> USE DownloaderAssumption DEF DownloaderAssumption
<1> DEFINE g == th[p].got
           u == th[p].up
<1>1. th[p].pc = "data" /\ g < BlockSize(p) /\ toDown[u] # <<>>
  BY DEF RecvData
<1>2. u \in Uploaders /\ g \in Nat /\ BlockSize(p) \in 0..K
  BY <1>1, LengthsType DEF ExchangeInv, Inv, TypeOK, ThreadsTyped
<1>3. Transfers(toUp[u], toDown[u], p, g)
  BY <1>1, <1>2
  DEF ExchangeInv, Channels, ChannelOK, Using, InExchange, Exchange
<1>4. PICK n \in 0..(BlockSize(p) - g) : toDown[u] = Chunks(p, g, n)
  BY <1>1, <1>3 DEF Transfers
<1>5. g + n <= K /\ n \in Nat
  BY <1>2
<1>6. Chunks(p, g, n) # <<>>
  BY <1>1, <1>4
<1>7. Head(Chunks(p, g, n)) = Data(p, g + 1)
  BY <1>2, <1>5, <1>6, ChunksTake
<1> QED
  BY <1>4, <1>7

(* A file that ends with the first g chunks of p, and one chunk more. *)
EndsWith(f, p, g) ==
  /\ g <= Len(f)
  /\ \A k \in 1..g : f[Len(f) - g + k] = Data(p, k)

LEMMA AppendNext ==
  ASSUME NEW f \in Seq(Wire), NEW p \in Pieces, NEW g \in Nat,
         Data(p, g + 1) \in Wire, EndsWith(f, p, g)
  PROVE  EndsWith(Append(f, Data(p, g + 1)), p, g + 1)
<1> DEFINE h == Append(f, Data(p, g + 1))
<1> USE DEF EndsWith
<1>1. /\ h \in Seq(Wire) /\ Len(h) = Len(f) + 1 /\ Len(f) \in Nat
      /\ h[Len(f) + 1] = Data(p, g + 1)
      /\ \A i \in 1..Len(f) : h[i] = f[i]
  BY AppendProperties
<1>2. PICK n \in Nat : n = Len(f)
  BY <1>1
<1>3. ASSUME NEW k \in 1..(g + 1) PROVE h[Len(h) - (g + 1) + k] = Data(p, k)
  <2>1. Len(h) - (g + 1) + k = n - g + k
    BY <1>1, <1>2
  <2>2. CASE k = g + 1
    <3>1. n - g + k = n + 1
      BY <2>2
    <3> QED
      BY <1>1, <1>2, <2>1, <2>2, <3>1
  <2>3. CASE k # g + 1
    <3>1. k \in 1..g /\ n - g + k \in 1..n
      BY <1>2, <1>3, <2>3
    <3> QED
      BY <1>1, <1>2, <2>1, <3>1
  <2> QED
    BY <2>2, <2>3
<1>4. g + 1 <= Len(h)
  BY <1>1
<1> HIDE DEF h
<1>5. EndsWith(h, p, g + 1)
  BY <1>3, <1>4
<1> QED
  BY <1>5 DEF h

LEMMA StepInOrder ==
  ASSUME ExchangeInv, [Next]_vars
  PROVE  InOrderAppend'
<1> USE DownloaderAssumption DEF DownloaderAssumption
<1> DEFINE S == [pc : ThreadStates, up : 0..NU, got : 0..K]
<1>1. /\ th \in [Pieces -> S] /\ \A p \in Pieces : th[p] \in S
      /\ pieceFile \in [Pieces -> Seq(Wire)]
      /\ \A p \in Pieces : pieceFile[p] \in Seq(Wire)
      /\ toDown \in [Uploaders -> Seq(Wire)]
  BY DEF ExchangeInv, Inv, TypeOK, ThreadsTyped, DiskTyped, NetTyped
<1>2. CASE pc' # "assign"
  BY <1>2 DEF InOrderAppend
<1>3. CASE UNCHANGED <<pc, th, pieceFile>>
  BY <1>3 DEF ExchangeInv, InOrderAppend
<1>4. CASE OpenSems
  <2>1. th' = Idle /\ pieceFile' = pieceFile
    BY <1>4 DEF OpenSems, ExchangeInv, Inv, ThreadsOK
  <2>2. \A p \in Pieces : th'[p].got = 0
    BY <2>1 DEF Idle, NoThread
  <2> QED
    BY <1>1, <2>1, <2>2 DEF InOrderAppend
<1>5. CASE AssignPiece
  <2>1. PICK u \in Choices(cur) :
          th' = [th EXCEPT ![cur] = [pc |-> "sem_wait", up |-> u, got |-> 0]]
    BY <1>5 DEF AssignPiece
  <2>2. pieceFile' = pieceFile /\ pc = "assign" /\ cur \in Pieces
    BY <1>5 DEF AssignPiece, disk
  <2>3. \A p \in Pieces : th'[p].got = th[p].got \/ th'[p].got = 0
    BY <1>1, <2>1, <2>2
  <2>4. ASSUME NEW p \in Pieces, th'[p].got = 0
        PROVE  /\ th'[p].got <= Len(pieceFile'[p])
               /\ \A k \in 1..th'[p].got :
                    pieceFile'[p][Len(pieceFile'[p]) - th'[p].got + k]
                      = Data(p, k)
    <3>1. Len(pieceFile'[p]) \in Nat
      BY <1>1, <2>2
    <3> QED
      BY <2>4, <3>1
  <2>5. ASSUME NEW p \in Pieces, th'[p].got = th[p].got
        PROVE  /\ th'[p].got <= Len(pieceFile'[p])
               /\ \A k \in 1..th'[p].got :
                    pieceFile'[p][Len(pieceFile'[p]) - th'[p].got + k]
                      = Data(p, k)
    BY <2>2, <2>5 DEF ExchangeInv, InOrderAppend
  <2> QED
    BY <2>3, <2>4, <2>5 DEF InOrderAppend
<1>6. ASSUME NEW p \in Pieces, Thread(p) PROVE InOrderAppend'
  <2>1. pc' = pc
    BY <1>6 DEF Thread, SemWait, Recv91, RecvData, Finish, Recv91Nothing
  <2>2. CASE ~RecvData(p)
    <3>1. pieceFile' = pieceFile
      BY <1>6, <2>2 DEF Thread, SemWait, Recv91, Finish, Recv91Nothing, disk
    <3>2. \A q \in Pieces : th'[q].got = th[q].got
      <4>1. \E s \in ThreadStates : th' = [th EXCEPT ![p].pc = s]
        BY <1>6, <2>2 DEF Thread, SemWait, Recv91, Finish, Recv91Nothing,
                          ThreadStates
      <4> QED
        BY <1>1, <4>1
    <3> QED
      BY <2>1, <3>1, <3>2 DEF ExchangeInv, InOrderAppend
  <2>3. CASE RecvData(p)
    <3> DEFINE u == th[p].up
               g == th[p].got
               f == pieceFile[p]
    <3> SUFFICES ASSUME pc' = "assign", NEW q \in Pieces
                 PROVE  /\ th'[q].got <= Len(pieceFile'[q])
                        /\ \A k \in 1..th'[q].got :
                             pieceFile'[q][Len(pieceFile'[q]) - th'[q].got + k]
                               = Data(q, k)
      BY DEF InOrderAppend
    <3>1. /\ g <= Len(f)
          /\ \A k \in 1..g : f[Len(f) - g + k] = Data(p, k)
      BY <2>1 DEF ExchangeInv, InOrderAppend
    <3>2. CASE q # p
      <4>1. th'[q] = th[q] /\ pieceFile'[q] = pieceFile[q]
        BY <1>1, <2>3, <3>2 DEF RecvData, PieceName
      <4> QED
        BY <2>1, <4>1 DEF ExchangeInv, InOrderAppend
    <3>3. CASE q = p
      <4>1. Head(toDown[u]) = Data(p, g + 1)
        BY <2>3, NextChunk
      <4>2. pieceFile'[p] = Append(f, Data(p, g + 1))
        BY <1>1, <2>3, <4>1 DEF RecvData, PieceName
      <4>3. th'[p].got = g + 1 /\ g \in Nat
        BY <1>1, <2>3 DEF RecvData
      <4>4. f \in Seq(Wire) /\ Len(f) \in Nat
        BY <1>1
      <4>5. Data(p, g + 1) \in Wire
        <5>0. g < BlockSize(p) /\ BlockSize(p) \in 0..K
          BY <2>3, LengthsType DEF RecvData
        <5>1. g + 1 \in 1..K
          BY <4>3, <5>0
        <5> QED
          BY <5>1, Messages
      <4>6. EndsWith(f, p, g)
        BY <3>1 DEF EndsWith
      <4>7. EndsWith(pieceFile'[p], p, g + 1)
        BY <4>2, <4>3, <4>4, <4>5, <4>6, AppendNext
      <4> QED
        BY <3>3, <4>3, <4>7 DEF EndsWith
    <3> QED
      BY <3>2, <3>3
  <2> QED
    BY <2>2, <2>3
<1>7. \/ pc' # "assign"
      \/ UNCHANGED <<pc, th, pieceFile>>
      \/ OpenSems
      \/ AssignPiece
      \/ \E p \in Pieces : Thread(p)
  BY DEF Next, Start, Main, ConnectAndShake, ConnectFails, Recv71, Recv81,
         HandshakeFails, NoOneHas, NoBitfield, JoinAll, MergePiece,
         RemovePiece, Complete, FatalSocketError, Serve, Learn, UploaderDies,
         Kill, Stop, ProcessEnds, vars, mem, disk
<1> QED
  BY <1>2, <1>3, <1>4, <1>5, <1>6, <1>7

LEMMA StepChannels ==
  ASSUME ExchangeInv, [Next]_vars, L # 0
  PROVE  Channels'
<1> USE DEF ExchangeInv
<1>1. CASE ConnectAndShake \/ Recv71 \/ Recv81 \/ HandshakeFails
  BY <1>1, HandshakeChannels
<1>2. CASE \/ Start \/ ConnectFails \/ OpenSems \/ AssignPiece \/ JoinAll
           \/ MergePiece \/ RemovePiece \/ Complete
  BY <1>2, ConsoleChannels
<1>3. CASE \E p \in Pieces : Thread(p)
  BY <1>3, ThreadChannels
<1>4. CASE \E u \in Uploaders : Serve(u) \/ Learn(u) \/ UploaderDies(u)
  BY <1>4, UploaderChannels
<1>5. CASE NoOneHas \/ NoBitfield \/ FatalSocketError \/ Kill
  <2>1. ProcessEnds
    BY <1>5 DEF NoOneHas, NoBitfield, FatalSocketError, Kill
  <2> QED
    BY <2>1, ProcessEndsChannels
<1>6. CASE UNCHANGED vars
  BY <1>6 DEF vars, mem, net, Channels, ChannelOK, Handshaking, Handshake,
              Using, InExchange, Exchange, Quiet
<1> QED
  BY <1>1, <1>2, <1>3, <1>4, <1>5, <1>6 DEF Next, Main, Stop

-----------------------------------------------------------------------------
(* The theorem *)

(* Whatever threads, uploaders, crashes and restarts do, a thread appends   *)
(* the chunks of its own piece, in order: the reply to another thread's     *)
(* request and the 91 messages never get into its file.  L # 0: the size of *)
(* the file is no multiple of 4 MB; otherwise the empty last piece leaves   *)
(* its request on the connection when its thread ends.                      *)
THEOREM InOrder ==
  ASSUME L # 0
  PROVE  Spec => []InOrderAppend
<1>1. Init => ExchangeInv
  BY InitInv, InitChannels DEF ExchangeInv
<1>2. ExchangeInv /\ [Next]_vars => ExchangeInv'
  <2> SUFFICES ASSUME ExchangeInv, [Next]_vars PROVE ExchangeInv'
    OBVIOUS
  <2>1. Inv'
    BY NextInv DEF ExchangeInv
  <2> QED
    BY <2>1, StepChannels, StepGot, StepInOrder DEF ExchangeInv
<1>3. ExchangeInv => InOrderAppend
  BY DEF ExchangeInv
<1> QED
  BY <1>1, <1>2, <1>3, PTL DEF Spec
=============================================================================
