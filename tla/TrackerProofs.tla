---------------------------- MODULE TrackerProofs ---------------------------
(***************************************************************************)
(* The safety of the tracker and of the commands that talk to it, for any  *)
(* number of users, names, blocks and commands, with careless users,       *)
(* clients that die and a tracker that dies.                               *)
(***************************************************************************)
EXTENDS Tracker, FiniteSetTheorems, SequenceTheorems, WellFoundedInduction,
        TLAPS

USE TrackerAssumption

-----------------------------------------------------------------------------
(* The inductive invariant *)

(* Types of what the tracker and the clients keep and exchange. *)
Torrent == [name : Names, owner : Users, peers : Seq(PeerType)]
Held == [id : Nat, name : Names, data : Seq(Chunk), status : {0, 1},
         peers : [id : Nat, users : SUBSET PeerType]]
UpMsg(n) == [type : {0}, val : Chunk] \union [type : {12}, val : Names]
              \union [type : {13, 14, 15}, val : Nat]
              \union [type : {16}, val : 1..n]
DownMsg == [type : {0}, val : Chunk] \union [type : {21, 41, 51}, val : Nat]
             \union [type : {31}, val : [id : Nat, peers : Seq(PeerType)]]
States == {"menu", "wait21", "body", "wait51", "wait41", "file", "wait31",
           "dead"}

ServerTyped ==
  /\ running \in BOOLEAN
  /\ spc \in {"select", "scan", "body"}
  /\ fd \in [Slot -> Conn \union {None}]
  /\ addr \in [Slot -> Users \union {None}]
  /\ maxi \in Slot \union {-1}
  /\ rset \subseteq Conn
  /\ at \in 0..Cardinality(Conn)
  /\ received \in 0..Size
  /\ torrents \in Seq(Torrent)
  /\ files \in [Names -> Seq(Chunk)]

WireTyped ==
  /\ backlog \in Seq(Conn)
  /\ up \in [Conn -> Seq(UpMsg(Len(torrents)))]
  /\ down \in [Conn -> Seq(DownMsg)]
  /\ closed \subseteq Conn

ClientTyped ==
  /\ cpc \in [Users -> States]
  /\ cmds \in [Users -> Nat]
  /\ ask \in [Users -> [name : Names \union {None}, id : Nat]]
  /\ got \in [Users -> Seq(Chunk)]
  /\ local \in [Users -> Seq(Held)]

(* Is connection c the one of a command under way? *)
Live(c) == cmds[c[1]] = c[2] /\ cpc[c[1]] \notin {"menu", "dead"}

CountsOK ==
  \A u \in Users : /\ cmds[u] <= MaxCmds[u]
                   /\ cpc[u] \notin {"menu", "dead"} => cmds[u] >= 1

(* A connection sits in at most one place: the backlog or one slot. *)
TableOK ==
  /\ \A i \in Slot : i > maxi => fd[i] = None
  /\ \A i, j \in Slot : fd[i] = fd[j] /\ fd[i] # None => i = j
  /\ \A k, l \in DOMAIN backlog : backlog[k] = backlog[l] => k = l
  /\ \A k \in DOMAIN backlog, i \in Slot : backlog[k] # fd[i]
  /\ \A i \in Slot : fd[i] # None => addr[0] \in Users

(* It belongs to a command that was typed. *)
TypedIn ==
  /\ \A i \in Slot : fd[i] # None => fd[i][2] <= cmds[fd[i][1]]
  /\ \A k \in DOMAIN backlog : backlog[k][2] <= cmds[backlog[k][1]]

(* The blocks of a torrent file, and nothing else. *)
Blocks(s) == \A k \in DOMAIN s : s[k].type = 0

(* In the receive loop of request 12 only blocks come from the uploader. *)
BodyOK ==
  spc = "body" =>
    /\ at \in Slot
    /\ fd[at] \in Conn
    /\ torrents # <<>>
    /\ received < Size
    /\ Blocks(up[fd[at]])
    /\ Live(fd[at]) => cpc[fd[at][1]] \in {"wait21", "body"}

(* u is in the peer list of torrent id; u has published it as n. *)
Listed(ts, id, u) == \E k \in DOMAIN ts[id].peers : ts[id].peers[k].user = u
Own(ts, id, n, u) ==
  /\ id \in DOMAIN ts
  /\ ts[id].name = n
  /\ ts[id].owner = u
  /\ Listed(ts, id, u)

(* One message, of type t. *)
One(s, t) == Len(s) = 1 /\ s[1].type = t

(* What may lie in the connection of a command: a goes up, b comes down; s, *)
(* k and g are the cpc, ask and got of its user u.  Nothing in either       *)
(* direction means that no reply will come.                                 *)
Talk(u, a, b, s, k, g, ts) ==
  /\ s = "wait21" =>
       /\ k.name \in Names /\ g = <<>>
       /\ \/ One(a, 12) /\ a[1].val = k.name /\ b = <<>>
          \/ a = <<>> /\ b = <<>>
          \/ a = <<>> /\ One(b, 21) /\ Own(ts, b[1].val, k.name, u)
  /\ s = "body" =>
       /\ k.name \in Names /\ Len(g) < Size
       /\ Blocks(a) /\ b = <<>>
       /\ Own(ts, k.id, k.name, u)
  /\ s = "wait51" =>
       \/ One(a, 15) /\ b = <<>>
       \/ a = <<>> /\ b = <<>>
       \/ a = <<>> /\ One(b, 51)
  /\ s = "wait41" =>
       /\ g = <<>>
       /\ \/ One(a, 14) /\ b = <<>>
          \/ a = <<>> /\ b = <<>>
          \/ a = <<>> /\ One(b, 41) /\ b[1].val \in DOMAIN ts
  /\ s = "file" =>
       /\ k.id \in DOMAIN ts
       /\ \/ One(a, 16) /\ a[1].val = k.id /\ b = <<>> /\ g = <<>>
          \/ /\ a = <<>> /\ Blocks(b)
             /\ b # <<>> \/ g # <<>> => Listed(ts, k.id, u)
  /\ s = "wait31" =>
       \/ One(a, 13) /\ b = <<>>
       \/ a = <<>> /\ b = <<>>
       \/ a = <<>> /\ One(b, 31)

(* Any other connection brings nothing down, and what is still to be read   *)
(* from it is either one request or blocks; then its client has closed it.  *)
ChannelOK(c) ==
  IF Live(c)
    THEN Talk(c[1], up[c], down[c], cpc[c[1]], ask[c[1]], got[c[1]], torrents)
    ELSE /\ down[c] = <<>>
         /\ up[c] # <<>> => c \in closed
         /\ Blocks(up[c]) \/ Len(up[c]) = 1

(* An entry of u's vector agrees with the tracker. *)
EntryOK(e, u, ts) ==
  /\ e.id \in DOMAIN ts
  /\ e.name = ts[e.id].name
  /\ e.status = 1 => ts[e.id].owner = u
  /\ Listed(ts, e.id, u)

EntriesOK ==
  running => \A u \in Users : \A i \in DOMAIN local[u] :
               EntryOK(local[u][i], u, torrents)

Inv == /\ ServerTyped /\ WireTyped /\ ClientTyped
       /\ CountsOK /\ TableOK /\ TypedIn /\ BodyOK
       /\ \A c \in Conn : ChannelOK(c)
       /\ EntriesOK

-----------------------------------------------------------------------------
(* Connections and slots *)

LEMMA ConnMember ==
  /\ \A c \in Conn : /\ c[1] \in Users /\ c[2] \in Nat
                     /\ c[2] \in 1..MaxCmds[c[1]]
                     /\ c = <<c[1], c[2]>>
                     /\ c # None
  /\ \A u \in Users : \A k \in 1..MaxCmds[u] :
       /\ <<u, k>> \in Conn
       /\ <<u, k>>[1] = u /\ <<u, k>>[2] = k
<1>1. ASSUME NEW c \in Conn
      PROVE  /\ c[1] \in Users /\ c[2] \in Nat
             /\ c[2] \in 1..MaxCmds[c[1]]
             /\ c = <<c[1], c[2]>>
             /\ c # None
  <2>1. PICK u \in Users : c \in {u} \X (1..MaxCmds[u])
    BY DEF Conn
  <2>2. PICK k \in 1..MaxCmds[u] : c = <<u, k>>
    BY <2>1
  <2>3. MaxCmds[u] \in Nat
    BY DEF TrackerAssumption
  <2> QED
    BY <2>2, <2>3 DEF None
<1>2. ASSUME NEW u \in Users, NEW k \in 1..MaxCmds[u]
      PROVE  <<u, k>> \in Conn
  BY DEF Conn
<1> QED
  BY <1>1, <1>2

LEMMA ConnFinite == IsFiniteSet(Conn) /\ Cardinality(Conn) \in Nat
<1> DEFINE S == {{u} \X (1..MaxCmds[u]) : u \in Users}
           f == [u \in Users |-> {u} \X (1..MaxCmds[u])]
<1>1. f \in Surjection(Users, S)
  BY DEF Surjection
<1>2. IsFiniteSet(S)
  BY <1>1, FS_Surjection DEF TrackerAssumption
<1>3. ASSUME NEW T \in S PROVE IsFiniteSet(T)
  <2>1. PICK u \in Users : T = {u} \X (1..MaxCmds[u])
    OBVIOUS
  <2>2. IsFiniteSet({u})
    BY FS_Singleton
  <2>3. 1 \in Int /\ MaxCmds[u] \in Int
    BY DEF TrackerAssumption
  <2>4. IsFiniteSet(1..MaxCmds[u])
    BY <2>3, FS_Interval
  <2> QED
    BY <2>1, <2>2, <2>4, FS_Product
<1>4. IsFiniteSet(UNION S)
  BY <1>2, <1>3, FS_UNION
<1>5. IsFiniteSet(Conn)
  BY <1>4 DEF Conn
<1> QED
  BY <1>5, FS_CardinalityType

LEMMA SlotCount ==
  /\ IsFiniteSet(Slot) /\ Slot \subseteq Nat
  /\ Cardinality(Slot) = Cardinality(Conn)
  /\ \A i \in Slot : i \in 0..Cardinality(Conn) /\ i + 1 \in 0..Cardinality(Conn)
<1> DEFINE n == Cardinality(Conn)
<1>1. n \in Nat
  BY ConnFinite
<1>2. 0 \in Int /\ n - 1 \in Int
  BY <1>1
<1>3. /\ IsFiniteSet(0..(n - 1))
      /\ Cardinality(0..(n - 1)) = IF 0 > n - 1 THEN 0 ELSE (n - 1) - 0 + 1
  BY <1>2, FS_Interval
<1>4. Cardinality(0..(n - 1)) = n
  BY <1>1, <1>3
<1>5. Slot = 0..(n - 1)
  BY DEF Slot
<1> QED
  BY <1>1, <1>3, <1>4, <1>5

LEMMA LeastNatural ==
  ASSUME NEW S, S \subseteq Nat, S # {}
  PROVE  \E n \in S : \A m \in S : n <= m
<1>1. IsWellFoundedOn(OpToRel(<, Nat), Nat)
  BY NatLessThanWellFounded
<1>2. \E x \in S : \A y \in S : ~(<<y, x>> \in OpToRel(<, Nat))
  BY <1>1, WFMin
<1>3. PICK n \in S : \A y \in S : ~(<<y, n>> \in OpToRel(<, Nat))
  BY <1>2
<1>4. \A y \in S : ~(y < n)
  BY <1>3 DEF OpToRel
<1> QED
  BY <1>4

(* A connection that waits finds a free slot. *)
LEMMA SlotFree ==
  ASSUME ServerTyped, WireTyped, TableOK, backlog # <<>>
  PROVE  /\ FreeSlot \in Slot
         /\ fd[FreeSlot] = None
         /\ \A j \in Slot : fd[j] = None => FreeSlot <= j
<1> DEFINE h == Head(backlog)
           n == Cardinality(Conn)
           F == {i \in Slot : fd[i] = None}
<1>1. h \in Conn /\ \A i \in Slot : fd[i] # h
  <2>1. backlog \in Seq(Conn) /\ 1 \in DOMAIN backlog /\ h = backlog[1]
    BY LenProperties, HeadTailProperties DEF WireTyped
  <2> QED
    BY <2>1, ElementOfSeq, LenProperties DEF TableOK
<1>2. F # {}
  <2>1. SUFFICES ASSUME F = {} PROVE FALSE
    OBVIOUS
  <2>2. fd \in [Slot -> Conn \ {h}]
    BY <1>1, <2>1 DEF ServerTyped
  <2>3. \A i, j \in Slot : fd[i] = fd[j] => i = j
    BY <2>1 DEF TableOK
  <2>4. fd \in Injection(Slot, Conn \ {h})
    BY <2>2, <2>3 DEF Injection, IsInjective
  <2>5. IsFiniteSet(Conn \ {h}) /\ Cardinality(Conn \ {h}) = n - 1
    BY <1>1, ConnFinite, FS_RemoveElement
  <2>6. Cardinality(Slot) <= n - 1
    BY <2>4, <2>5, FS_Injection
  <2> QED
    BY <2>6, SlotCount, ConnFinite
<1>3. \E i \in F : \A j \in F : i <= j
  BY <1>2, SlotCount, LeastNatural
<1>4. \E i \in Slot : /\ fd[i] = None
                      /\ \A j \in Slot : fd[j] = None => i <= j
  BY <1>3
<1> QED
  BY <1>4 DEF FreeSlot

(* The slot that is served holds a connection. *)
LEMMA ServedSlot ==
  ASSUME ServerTyped, NEW i \in Slot, Serving(i)
  PROVE  /\ fd[i] \in Conn
         /\ fd[i][1] \in Users
         /\ i \in 0..Cardinality(Conn) /\ i + 1 \in 0..Cardinality(Conn)
<1>1. fd[i] \in Conn
  BY DEF ServerTyped, Serving, Due
<1> QED
  BY <1>1, ConnMember, SlotCount

-----------------------------------------------------------------------------
(* Messages *)

LEMMA MsgFields ==
  \A t, x : /\ Msg(t, x).type = t /\ Msg(t, x).val = x
            /\ Head(<<Msg(t, x)>>) = Msg(t, x)
            /\ One(<<Msg(t, x)>>, t)
            /\ <<Msg(t, x)>>[1] = Msg(t, x)
            /\ <<Msg(t, x)>> # <<>>
  BY DEF Msg, One

LEMMA UpTypes ==
  ASSUME NEW n \in Nat
  PROVE  /\ \A x \in Chunk : Msg(0, x) \in UpMsg(n)
         /\ \A x \in Names : Msg(12, x) \in UpMsg(n)
         /\ \A t \in {13, 14, 15} : \A x \in Nat : Msg(t, x) \in UpMsg(n)
         /\ \A x \in 1..n : Msg(16, x) \in UpMsg(n)
  BY DEF Msg, UpMsg

(* What the parameter of a request is. *)
LEMMA UpValues ==
  ASSUME NEW n \in Nat, NEW m \in UpMsg(n)
  PROVE  /\ m.type \in {0} \union 12..16
         /\ m.type = 0 => m.val \in Chunk
         /\ m.type = 12 => m.val \in Names
         /\ m.type \in {13, 14, 15} => m.val \in Nat
         /\ m.type = 16 => m.val \in 1..n
  BY DEF UpMsg

LEMMA DownTypes ==
  /\ \A x \in Chunk : Msg(0, x) \in DownMsg
  /\ \A t \in {21, 41, 51} : \A x \in Nat : Msg(t, x) \in DownMsg
  /\ \A id \in Nat, ps \in Seq(PeerType) :
       Msg(31, [id |-> id, peers |-> ps]) \in DownMsg
  BY DEF Msg, DownMsg

LEMMA DownValues ==
  ASSUME NEW m \in DownMsg
  PROVE  /\ m.type \in {0, 21, 31, 41, 51}
         /\ m.type = 0 => m.val \in Chunk
         /\ m.type \in {21, 41, 51} => m.val \in Nat
         /\ m.type = 31 => m.val \in [id : Nat, peers : Seq(PeerType)]
  BY DEF DownMsg

(* More torrents: what was on the way up still is. *)
LEMMA UpGrows ==
  ASSUME NEW n \in Nat, NEW m \in Nat, n <= m,
         NEW g \in [Conn -> Seq(UpMsg(n))]
  PROVE  g \in [Conn -> Seq(UpMsg(m))]
<1>1. UpMsg(n) \subseteq UpMsg(m)
  BY DEF UpMsg
<1>2. \A s \in Seq(UpMsg(n)) : s \in Seq(UpMsg(m))
  BY <1>1, SeqMonotonic
<1> QED
  BY <1>2

(* The first message of a connection. *)
LEMMA HeadType ==
  ASSUME NEW S, NEW s \in Seq(S), s # <<>>
  PROVE  /\ Head(s) \in S /\ Head(s) = s[1]
         /\ Tail(s) \in Seq(S) /\ Len(Tail(s)) = Len(s) - 1
         /\ Len(s) \in Nat /\ Len(s) >= 1
         /\ \A k \in DOMAIN Tail(s) : k + 1 \in DOMAIN s /\ Tail(s)[k] = s[k + 1]
  BY HeadTailProperties, LenProperties

LEMMA OneTail ==
  ASSUME NEW S, NEW s \in Seq(S), Len(s) = 1
  PROVE  Tail(s) = <<>> /\ Head(s) = s[1] /\ s # <<>>
<1>1. s # <<>>
  <2>1. Len(<<>>) # 1
    OBVIOUS
  <2> QED
    BY <2>1, Zenon
<1>2. Tail(s) \in Seq(S) /\ Len(Tail(s)) = 0
  BY <1>1, HeadType
<1> QED
  BY <1>1, <1>2, EmptySeq, SeqEqual, HeadType

-----------------------------------------------------------------------------
(* Types *)

Typed == ServerTyped /\ WireTyped /\ ClientTyped

LEMMA InitTyped == Init => Typed
<1> SUFFICES ASSUME Init PROVE Typed
  OBVIOUS
<1> USE DEF Init
<1>1. ServerTyped
  <2>1. <<>> \in Seq(Torrent) /\ <<>> \in Seq(Chunk)
    BY EmptySeq
  <2>2. 0 \in 0..Cardinality(Conn) /\ 0 \in 0..Size
    BY ConnFinite DEF TrackerAssumption
  <2> QED
    BY <2>1, <2>2 DEF ServerTyped
<1>2. WireTyped
  <2>1. \A S : <<>> \in Seq(S)
    BY EmptySeq
  <2> QED
    BY <2>1 DEF WireTyped
<1>3. ClientTyped
  <2>1. \A S : <<>> \in Seq(S)
    BY EmptySeq
  <2> QED
    BY <2>1 DEF ClientTyped, States, Nothing
<1> QED
  BY <1>1, <1>2, <1>3 DEF Typed

LEMMA KeepTyped == Typed /\ UNCHANGED vars => Typed'
  BY DEF Typed, ServerTyped, WireTyped, ClientTyped, vars, server, client

LEMMA AcceptTyped == Typed /\ TableOK /\ Accept => Typed'
<1> SUFFICES ASSUME Typed, TableOK, Accept PROVE Typed'
  OBVIOUS
<1> USE DEF Typed
<1>1. FreeSlot \in Slot
  BY SlotFree DEF Accept
<1>2. Head(backlog) \in Conn /\ Tail(backlog) \in Seq(Conn)
  BY HeadType DEF Accept, WireTyped
<1>3. Head(backlog)[1] \in Users
  BY <1>2, ConnMember
<1>4. ServerTyped'
  BY <1>1, <1>2, <1>3 DEF Accept, UpperMark, ServerTyped
<1>5. WireTyped'
  BY <1>2 DEF Accept, WireTyped
<1>6. ClientTyped'
  BY DEF Accept, client, ClientTyped
<1> QED
  BY <1>4, <1>5, <1>6

(* A scan, and what is read in it from one slot. *)
LEMMA ScanTyped ==
  ASSUME Typed,
         \/ StartScan \/ EndScan \/ Disconnect \/ TorrentList
         \/ DownloadTorrent \/ RequestPeerlist \/ ServerDies
  PROVE  Typed'
<1> USE DEF Typed
<1>1. 0 \in 0..Cardinality(Conn) /\ 0 \in 0..Size
  BY ConnFinite DEF TrackerAssumption
<1>2. CASE StartScan
  BY <1>1, <1>2
  DEF StartScan, Readable, client, ServerTyped, WireTyped, ClientTyped
<1>3. CASE EndScan
  BY <1>1, <1>3 DEF EndScan, client, ServerTyped, WireTyped, ClientTyped
<1>4. CASE Disconnect
  <2>1. PICK i \in Slot :
          /\ Serving(i)
          /\ fd' = [fd EXCEPT ![i] = None]
          /\ at' = i + 1
          /\ UNCHANGED <<running, spc, addr, maxi, rset, received, torrents,
                         files, backlog, up, down, closed, client>>
    BY <1>4 DEF Disconnect
  <2>2. i + 1 \in 0..Cardinality(Conn)
    BY <2>1, ServedSlot
  <2> QED
    BY <2>1, <2>2 DEF client, ServerTyped, WireTyped, ClientTyped
<1>5. CASE TorrentList \/ DownloadTorrent \/ RequestPeerlist
  <2>1. PICK i \in Slot :
          \/ /\ Request(i, 15)
             /\ Reply(i, Msg(51, Len(torrents)))
          \/ /\ Request(i, 14)
             /\ Parameter(i) \in DOMAIN torrents
             /\ Reply(i, Msg(41, Parameter(i)))
          \/ /\ Request(i, 13)
             /\ Parameter(i) \in DOMAIN torrents
             /\ Reply(i, Msg(31, [id |-> Parameter(i),
                                  peers |-> torrents[Parameter(i)].peers]))
    BY <1>5 DEF TorrentList, DownloadTorrent, RequestPeerlist
  <2>2. /\ \E j \in Slot : Serving(j) /\ at' = j + 1
        /\ UNCHANGED <<running, spc, fd, addr, maxi, rset, received, torrents,
                       files, backlog, closed, client>>
    BY <1>5 DEF TorrentList, DownloadTorrent, RequestPeerlist, Request
  <2>3. fd[i] \in Conn /\ up[fd[i]] # <<>> /\ up' = [up EXCEPT ![fd[i]] = Tail(@)]
    BY <2>1, ServedSlot DEF Request
  <2>4. Tail(up[fd[i]]) \in Seq(UpMsg(Len(torrents)))
    BY <2>3, HeadType DEF WireTyped
  <2>5. \E m \in DownMsg : Reply(i, m)
    <3>1. torrents \in Seq(Torrent) /\ DOMAIN torrents = 1..Len(torrents)
          /\ Len(torrents) \in Nat
      BY LenProperties DEF ServerTyped
    <3>2. \A id \in DOMAIN torrents :
            id \in Nat /\ torrents[id].peers \in Seq(PeerType)
      <4>1. \A id \in DOMAIN torrents : id \in Nat /\ torrents[id] \in Torrent
        BY <3>1, ElementOfSeq
      <4> QED
        BY <4>1 DEF Torrent
    <3> QED
      BY <2>1, <3>1, <3>2, DownTypes
  <2>6. down' \in [Conn -> Seq(DownMsg)]
    <3>1. PICK m \in DownMsg : Reply(i, m)
      BY <2>5
    <3>2. Append(down[fd[i]], m) \in Seq(DownMsg)
      BY <2>3, <3>1, AppendProperties DEF WireTyped
    <3> QED
      BY <2>3, <3>1, <3>2 DEF Reply, Asker, WireTyped
  <2>7. at' \in 0..Cardinality(Conn)
    BY <2>2, ServedSlot
  <2>8. ServerTyped' /\ ClientTyped'
    BY <2>2, <2>7 DEF ServerTyped, ClientTyped, client
  <2>9. WireTyped'
    BY <2>2, <2>3, <2>4, <2>6 DEF WireTyped
  <2> QED
    BY <2>8, <2>9
<1>6. CASE ServerDies
  BY <1>6 DEF ServerDies, client, ServerTyped, WireTyped, ClientTyped
<1> QED
  BY <1>2, <1>3, <1>4, <1>5, <1>6

(* The address in the peer list is a user's. *)
LEMMA PeerTyped ==
  ASSUME ServerTyped, TableOK, NEW i \in Slot, fd[i] \in Conn
  PROVE  Peer(fd[i][1]) \in PeerType
<1>1. fd[i][1] \in Users /\ addr[0] \in Users
  BY ConnMember DEF TableOK
<1> QED
  BY <1>1 DEF Peer, RecordedIp, PeerType

LEMMA UploadTyped == Typed /\ TableOK /\ UploadTorrentInfo => Typed'
<1> SUFFICES ASSUME Typed, TableOK, UploadTorrentInfo PROVE Typed'
  OBVIOUS
<1> USE DEF Typed
<1>1. PICK i \in Slot :
        /\ Request(i, 12)
        /\ torrents' = Append(torrents, [name |-> Parameter(i),
                                         owner |-> fd[i][1],
                                         peers |-> <<Peer(fd[i][1])>>])
        /\ Reply(i, Msg(21, NextId))
        /\ files' = [files EXCEPT ![Parameter(i)] = <<>>]
        /\ received' = 0
        /\ at' = i
        /\ spc' = "body"
        /\ UNCHANGED <<running, fd, addr, maxi, rset, backlog, closed, client>>
  BY DEF UploadTorrentInfo
<1>2. /\ fd[i] \in Conn /\ fd[i][1] \in Users /\ up[fd[i]] # <<>>
      /\ up' = [up EXCEPT ![fd[i]] = Tail(@)]
      /\ Head(up[fd[i]]).type = 12
      /\ i \in 0..Cardinality(Conn)
  BY <1>1, ServedSlot DEF Request
<1>3. Len(torrents) \in Nat /\ torrents \in Seq(Torrent)
  BY LenProperties DEF ServerTyped
<1>4. /\ Head(up[fd[i]]) \in UpMsg(Len(torrents))
      /\ Tail(up[fd[i]]) \in Seq(UpMsg(Len(torrents)))
  BY <1>2, HeadType DEF WireTyped
<1>5. Parameter(i) \in Names
  BY <1>2, <1>3, <1>4, UpValues DEF Parameter
<1>6. <<Peer(fd[i][1])>> \in Seq(PeerType)
  BY <1>2, PeerTyped
<1>7. [name |-> Parameter(i), owner |-> fd[i][1], peers |-> <<Peer(fd[i][1])>>]
        \in Torrent
  BY <1>2, <1>5, <1>6 DEF Torrent
<1>8. torrents' \in Seq(Torrent) /\ Len(torrents') = Len(torrents) + 1
  BY <1>1, <1>3, <1>7, AppendProperties
<1>9. files' \in [Names -> Seq(Chunk)] /\ 0 \in 0..Size
  BY <1>1, <1>5, EmptySeq DEF ServerTyped, TrackerAssumption
<1>10. ServerTyped'
  BY <1>1, <1>2, <1>8, <1>9 DEF ServerTyped
<1>11. up' \in [Conn -> Seq(UpMsg(Len(torrents)))]
  BY <1>2, <1>4 DEF WireTyped
<1>12. up' \in [Conn -> Seq(UpMsg(Len(torrents')))]
  BY <1>3, <1>8, <1>11, UpGrows
<1>13. Msg(21, NextId) \in DownMsg
  BY <1>3, DownTypes DEF NextId
<1>14. Append(down[fd[i]], Msg(21, NextId)) \in Seq(DownMsg)
  BY <1>2, <1>13, AppendProperties DEF WireTyped
<1>15. WireTyped'
  BY <1>1, <1>2, <1>12, <1>14 DEF Reply, Asker, WireTyped
<1>16. ClientTyped'
  BY <1>1 DEF client, ClientTyped
<1> QED
  BY <1>10, <1>15, <1>16

LEMMA JunkSeq == \A junk \in {<<>>, <<Junk>>} : junk \in Seq(Chunk)
<1>1. \A x \in Chunk : <<x>> \in Seq(Chunk)
  OBVIOUS
<1>2. Junk \in Chunk
  BY DEF Chunk
<1>3. <<Junk>> \in Seq(Chunk)
  BY <1>1, <1>2
<1>4. <<>> \in Seq(Chunk)
  BY EmptySeq
<1> QED
  BY <1>3, <1>4

(* What is written into a file. *)
LEMMA FileTyped ==
  ASSUME ServerTyped, NEW n \in Names, NEW s \in Seq(Chunk),
         NEW junk \in {<<>>, <<Junk>>}
  PROVE  [files EXCEPT ![n] = @ \o s \o junk] \in [Names -> Seq(Chunk)]
<1>1. junk \in Seq(Chunk)
  BY JunkSeq
<1>2. files[n] \o s \in Seq(Chunk)
  BY ConcatProperties DEF ServerTyped
<1>3. files[n] \o s \o junk \in Seq(Chunk)
  BY <1>1, <1>2, ConcatProperties
<1> QED
  BY <1>3 DEF ServerTyped

LEMMA LastTorrent ==
  ASSUME ServerTyped, torrents # <<>>
  PROVE  torrents[Len(torrents)].name \in Names
<1>1. Len(torrents) \in 1..Len(torrents) /\ torrents \in Seq(Torrent)
  BY LenProperties, EmptySeq, SeqEqual, HeadType DEF ServerTyped
<1>2. torrents[Len(torrents)] \in Torrent
  BY <1>1, ElementOfSeq
<1> QED
  BY <1>2 DEF Torrent

LEMMA BodyTyped == Typed /\ BodyOK /\ (RecvBody \/ BodyCut) => Typed'
<1> SUFFICES ASSUME Typed, BodyOK, RecvBody \/ BodyCut PROVE Typed'
  OBVIOUS
<1> USE DEF Typed
<1> DEFINE name == torrents[Len(torrents)].name
<1>1. /\ at \in Slot /\ fd[at] \in Conn /\ torrents # <<>>
      /\ received < Size
      /\ Blocks(up[fd[at]])
  BY DEF RecvBody, BodyCut, BodyOK
<1>2. name \in Names /\ at + 1 \in 0..Cardinality(Conn)
  BY <1>1, LastTorrent, SlotCount
<1>3. CASE RecvBody
  <2> DEFINE c == fd[at]
  <2>1. /\ up[c] # <<>> /\ up' = [up EXCEPT ![c] = Tail(@)]
        /\ received' = received + 1
        /\ at' \in {at, at + 1} /\ spc' \in {"scan", spc}
        /\ UNCHANGED <<running, fd, addr, maxi, rset, torrents, backlog, down,
                       closed, client>>
    BY <1>3 DEF RecvBody
  <2>2. /\ Head(up[c]) \in UpMsg(Len(torrents))
        /\ Tail(up[c]) \in Seq(UpMsg(Len(torrents)))
        /\ Head(up[c]) = up[c][1] /\ 1 \in DOMAIN up[c]
        /\ Len(torrents) \in Nat
    BY <1>1, <2>1, HeadType, LenProperties DEF WireTyped, ServerTyped
  <2>3. Head(up[c]).val \in Chunk
    BY <1>1, <2>2, UpValues DEF Blocks
  <2>4. <<Head(up[c]).val>> \in Seq(Chunk)
    BY <2>3
  <2>5. PICK junk \in {<<>>, <<Junk>>} :
          files' = [files EXCEPT ![name] = @ \o <<Head(up[c]).val>> \o junk]
    BY <1>3 DEF RecvBody
  <2>6. files' \in [Names -> Seq(Chunk)]
    BY <1>2, <2>4, <2>5, FileTyped
  <2>7. received' \in 0..Size
    BY <1>1, <2>1 DEF ServerTyped, TrackerAssumption
  <2>8. ServerTyped'
    BY <1>2, <2>1, <2>6, <2>7 DEF ServerTyped
  <2>9. WireTyped'
    BY <1>1, <2>1, <2>2 DEF WireTyped
  <2>10. ClientTyped'
    BY <2>1 DEF client, ClientTyped
  <2> QED
    BY <2>8, <2>9, <2>10
<1>4. CASE BodyCut
  <2>1. PICK junk \in {<<>>, <<Junk>>} :
          files' = [files EXCEPT ![name] = @ \o junk]
    BY <1>4 DEF BodyCut
  <2>2. junk \in Seq(Chunk)
    BY JunkSeq
  <2>3. files[name] \o junk \in Seq(Chunk)
    BY <1>2, <2>2, ConcatProperties DEF ServerTyped
  <2>4. files' \in [Names -> Seq(Chunk)]
    BY <1>2, <2>1, <2>3 DEF ServerTyped
  <2>5. /\ spc' = "scan" /\ at' = at + 1
        /\ UNCHANGED <<running, fd, addr, maxi, rset, received, torrents,
                       backlog, up, down, closed, client>>
    BY <1>4 DEF BodyCut
  <2>6. ServerTyped'
    BY <1>2, <2>4, <2>5 DEF ServerTyped
  <2>7. WireTyped' /\ ClientTyped'
    BY <2>5 DEF client, WireTyped, ClientTyped
  <2> QED
    BY <2>6, <2>7
<1> QED
  BY <1>3, <1>4

LEMMA ReadyTyped == Typed /\ TableOK /\ ReadyToReceive => Typed'
<1> SUFFICES ASSUME Typed, TableOK, ReadyToReceive PROVE Typed'
  OBVIOUS
<1> USE DEF Typed
<1>1. PICK i \in Slot :
        /\ Request(i, 16)
        /\ torrents' = [torrents EXCEPT ![Parameter(i)].peers =
                          Append(@, Peer(fd[i][1]))]
        /\ down' = IF fd[i] \in closed THEN down
                   ELSE [down EXCEPT ![fd[i]] =
                           @ \o [k \in DOMAIN files[torrents[Parameter(i)].name] |->
                                   Msg(0, files[torrents[Parameter(i)].name][k])]]
        /\ at' = i + 1
        /\ UNCHANGED <<running, spc, fd, addr, maxi, rset, received, files,
                       backlog, closed, client>>
  BY DEF ReadyToReceive
<1>2. /\ fd[i] \in Conn /\ fd[i][1] \in Users /\ up[fd[i]] # <<>>
      /\ up' = [up EXCEPT ![fd[i]] = Tail(@)]
      /\ Head(up[fd[i]]).type = 16
      /\ i + 1 \in 0..Cardinality(Conn)
  BY <1>1, ServedSlot DEF Request
<1>3. /\ Len(torrents) \in Nat /\ torrents \in Seq(Torrent)
      /\ DOMAIN torrents = 1..Len(torrents)
      /\ torrents \in [1..Len(torrents) -> Torrent]
  BY LenProperties DEF ServerTyped
<1>4. /\ Head(up[fd[i]]) \in UpMsg(Len(torrents))
      /\ Tail(up[fd[i]]) \in Seq(UpMsg(Len(torrents)))
  BY <1>2, HeadType DEF WireTyped
<1> DEFINE id == Parameter(i)
           p == Peer(fd[i][1])
           t == [torrents[id] EXCEPT !.peers = Append(@, p)]
           file == files[torrents[id].name]
<1>5. id \in 1..Len(torrents)
  BY <1>2, <1>3, <1>4, UpValues DEF Parameter
<1>6. p \in PeerType
  BY <1>2, PeerTyped
<1>7. torrents[id] \in Torrent
  BY <1>3, <1>5
<1>8. Append(torrents[id].peers, p) \in Seq(PeerType)
  BY <1>6, <1>7, AppendProperties DEF Torrent
<1>9. t \in Torrent
  BY <1>7, <1>8 DEF Torrent
<1>10. torrents' = [torrents EXCEPT ![id] = t]
  BY <1>1, <1>3, <1>5
<1>11. torrents' \in Seq(Torrent) /\ Len(torrents') = Len(torrents)
  BY <1>3, <1>5, <1>9, <1>10, ExceptSeq
<1>12. ServerTyped'
  BY <1>1, <1>2, <1>11 DEF ServerTyped
<1>13. file \in Seq(Chunk)
  BY <1>7 DEF Torrent, ServerTyped
<1>14. [k \in DOMAIN file |-> Msg(0, file[k])] \in Seq(DownMsg)
  <2>1. DOMAIN file = 1..Len(file) /\ Len(file) \in Nat
        /\ \A k \in DOMAIN file : file[k] \in Chunk
    BY <1>13, LenProperties
  <2>2. \A k \in DOMAIN file : Msg(0, file[k]) \in DownMsg
    BY <2>1, DownTypes
  <2>3. [k \in DOMAIN file |-> Msg(0, file[k])] \in [1..Len(file) -> DownMsg]
    BY <2>1, <2>2
  <2> QED
    BY <2>1, <2>3, SeqDef
<1>15. down[fd[i]] \o [k \in DOMAIN file |-> Msg(0, file[k])] \in Seq(DownMsg)
  BY <1>2, <1>14, ConcatProperties DEF WireTyped
<1>16. down' \in [Conn -> Seq(DownMsg)]
  BY <1>1, <1>2, <1>15 DEF WireTyped
<1>17. WireTyped'
  BY <1>1, <1>2, <1>4, <1>11, <1>16 DEF WireTyped
<1>18. ClientTyped'
  BY <1>1 DEF client, ClientTyped
<1> QED
  BY <1>12, <1>17, <1>18


-----------------------------------------------------------------------------
(* What a client does, and the types after it *)

(* The four requests a user can type. *)
Kinds == {<<12, "wait21">>, <<15, "wait51">>, <<14, "wait41">>, <<13, "wait31">>}
Types(u) == UploadTorrent(u) \/ GetList(u) \/ GetTorrent(u) \/ GetPeers(u)

LEMMA CommandKind ==
  ASSUME Typed, NEW u \in Users, Types(u)
  PROVE  \E t, x, wait : /\ Command(u, t, x, wait)
                         /\ <<t, wait>> \in Kinds
                         /\ Msg(t, x) \in UpMsg(Len(torrents))
                         /\ t = 12 => x \in Names
<1>1. Len(torrents) \in Nat /\ DOMAIN torrents = 1..Len(torrents)
  BY LenProperties DEF Typed, ServerTyped
<1>2. CASE UploadTorrent(u)
  <2>1. PICK n \in Names : Command(u, 12, n, "wait21")
    BY <1>2 DEF UploadTorrent
  <2>2. Msg(12, n) \in UpMsg(Len(torrents)) /\ <<12, "wait21">> \in Kinds
    BY <1>1, UpTypes DEF Kinds
  <2> QED
    BY <2>1, <2>2
<1>3. CASE GetList(u)
  <2>1. Command(u, 15, 0, "wait51")
    BY <1>3 DEF GetList
  <2>2. Msg(15, 0) \in UpMsg(Len(torrents)) /\ <<15, "wait51">> \in Kinds
    BY <1>1, UpTypes DEF Kinds
  <2> QED
    BY <2>1, <2>2
<1>4. Unknown \subseteq Nat /\ DOMAIN torrents \subseteq Nat
  BY <1>1 DEF Unknown
<1>5. CASE GetTorrent(u)
  <2>1. PICK id \in Nat : Command(u, 14, id, "wait41")
    BY <1>4, <1>5 DEF GetTorrent
  <2>2. Msg(14, id) \in UpMsg(Len(torrents)) /\ <<14, "wait41">> \in Kinds
    BY <1>1, UpTypes DEF Kinds
  <2> QED
    BY <2>1, <2>2
<1>6. CASE GetPeers(u)
  <2>1. LocalIds(u) \subseteq Nat
    <3>1. local[u] \in Seq(Held)
      BY DEF Typed, ClientTyped
    <3>2. \A i \in DOMAIN local[u] : local[u][i] \in Held
      BY <3>1, ElementOfSeq, LenProperties
    <3> QED
      BY <3>2 DEF LocalIds, Held
  <2>2. PICK id \in Nat : Command(u, 13, id, "wait31")
    BY <1>4, <1>6, <2>1 DEF GetPeers
  <2>3. Msg(13, id) \in UpMsg(Len(torrents)) /\ <<13, "wait31">> \in Kinds
    BY <1>1, UpTypes DEF Kinds
  <2> QED
    BY <2>2, <2>3
<1> QED
  BY <1>2, <1>3, <1>5, <1>6 DEF Types

(* The new connection of a command. *)
LEMMA NewSock ==
  ASSUME Typed, NEW u \in Users, cmds[u] < MaxCmds[u]
  PROVE  /\ <<u, cmds[u] + 1>> \in Conn
         /\ cmds[u] \in Nat /\ cmds[u] + 1 \in 1..MaxCmds[u]
<1>1. cmds[u] \in Nat /\ MaxCmds[u] \in Nat
  BY DEF Typed, ClientTyped, TrackerAssumption
<1> QED
  BY <1>1, ConnMember

LEMMA CommandTyped ==
  ASSUME Typed, NEW u \in Users, NEW t, NEW x, NEW wait,
         Command(u, t, x, wait), <<t, wait>> \in Kinds,
         Msg(t, x) \in UpMsg(Len(torrents)), t = 12 => x \in Names
  PROVE  Typed'
<1> USE DEF Typed
<1>1. /\ cmds[u] < MaxCmds[u]
      /\ cmds' = [cmds EXCEPT ![u] = @ + 1]
      /\ backlog' = Append(backlog, <<u, cmds[u] + 1>>)
      /\ up' = [up EXCEPT ![<<u, cmds[u] + 1>>] = <<Msg(t, x)>>]
      /\ ask' = [ask EXCEPT ![u].name = IF t = 12 THEN x ELSE None]
      /\ got' = [got EXCEPT ![u] = <<>>]
      /\ cpc' = [cpc EXCEPT ![u] = wait]
      /\ UNCHANGED <<server, down, closed, local>>
  BY DEF Command
<1>2. <<u, cmds[u] + 1>> \in Conn /\ cmds[u] + 1 \in Nat
  BY <1>1, NewSock
<1>3. wait \in States
  BY DEF Kinds, States
<1>4. <<Msg(t, x)>> \in Seq(UpMsg(Len(torrents)))
  OBVIOUS
<1>5. backlog' \in Seq(Conn)
  BY <1>1, <1>2, AppendProperties DEF WireTyped
<1>6. WireTyped'
  BY <1>1, <1>2, <1>4, <1>5 DEF WireTyped, server
<1>7. ask' \in [Users -> [name : Names \union {None}, id : Nat]]
  BY <1>1 DEF ClientTyped
<1>8. ClientTyped'
  BY <1>1, <1>2, <1>3, <1>7, EmptySeq DEF ClientTyped
<1>9. ServerTyped'
  BY <1>1 DEF server, ServerTyped
<1> QED
  BY <1>6, <1>8, <1>9

(* The connection of a command under way. *)
Busy(u) == cpc[u] \notin {"menu", "dead"}

LEMMA SockLive ==
  ASSUME Typed, CountsOK, NEW u \in Users, Busy(u)
  PROVE  Sock(u) \in Conn /\ Live(Sock(u)) /\ Sock(u)[1] = u
<1>1. cmds[u] \in Nat /\ MaxCmds[u] \in Nat /\ cmds[u] \in 1..MaxCmds[u]
  BY DEF Typed, ClientTyped, TrackerAssumption, CountsOK, Busy
<1> QED
  BY <1>1, ConnMember DEF Sock, Live, Busy

LEMMA SockTalk ==
  ASSUME Typed, CountsOK, NEW u \in Users, Busy(u), ChannelOK(Sock(u))
  PROVE  Talk(u, up[Sock(u)], down[Sock(u)], cpc[u], ask[u], got[u], torrents)
  BY SockLive DEF ChannelOK

(* A command that ends. *)
LEMMA EndsTyped ==
  ASSUME Typed, NEW u \in Users, Sock(u) \in Conn,
         NEW next \in States, Ends(u, next),
         UNCHANGED <<server, backlog, cmds>>,
         up' \in [Conn -> Seq(UpMsg(Len(torrents)))],
         local' \in [Users -> Seq(Held)]
  PROVE  Typed'
<1> USE DEF Typed
<1>1. /\ closed' = closed \union {Sock(u)}
      /\ down' = [down EXCEPT ![Sock(u)] = <<>>]
      /\ ask' = [ask EXCEPT ![u] = Nothing]
      /\ got' = [got EXCEPT ![u] = <<>>]
      /\ cpc' = [cpc EXCEPT ![u] = next]
  BY DEF Ends
<1>2. Nothing \in [name : Names \union {None}, id : Nat]
  BY DEF Nothing
<1>3. ServerTyped'
  BY DEF server, ServerTyped
<1>4. WireTyped'
  BY <1>1, EmptySeq DEF server, WireTyped
<1>5. ClientTyped'
  BY <1>1, <1>2, EmptySeq DEF ClientTyped
<1> QED
  BY <1>3, <1>4, <1>5

LEMMA EntryTyped ==
  ASSUME NEW id \in Nat, NEW n \in Names, NEW data \in Seq(Chunk),
         NEW s \in {0, 1}, Typed, NEW u \in Users
  PROVE  [local EXCEPT ![u] = Append(@, Entry(id, n, data, s))]
           \in [Users -> Seq(Held)]
<1>1. Entry(id, n, data, s) \in Held
  BY DEF Entry, Held
<1>2. Append(local[u], Entry(id, n, data, s)) \in Seq(Held)
  BY <1>1, AppendProperties DEF Typed, ClientTyped
<1> QED
  BY <1>2 DEF Typed, ClientTyped

(* The reply a client reads is the one its command waits for. *)
Replies == {<<"wait21", 21>>, <<"wait51", 51>>, <<"wait41", 41>>, <<"wait31", 31>>}

LEMMA AnswerKind ==
  ASSUME Typed, CountsOK, NEW u \in Users, NEW wait, NEW t,
         <<wait, t>> \in Replies, Answer(u, wait), ChannelOK(Sock(u))
  PROVE  /\ Busy(u)
         /\ up[Sock(u)] = <<>>
         /\ One(down[Sock(u)], t)
         /\ Head(down[Sock(u)]) = down[Sock(u)][1]
         /\ Tail(down[Sock(u)]) = <<>>
         /\ Head(down[Sock(u)]) \in DownMsg
<1>1. cpc[u] = wait /\ down[Sock(u)] # <<>> /\ Busy(u)
  BY DEF Answer, Replies, Busy
<1>2. Talk(u, up[Sock(u)], down[Sock(u)], cpc[u], ask[u], got[u], torrents)
  BY <1>1, SockTalk
<1>3. up[Sock(u)] = <<>> /\ One(down[Sock(u)], t)
  BY <1>1, <1>2 DEF Talk, Replies
<1>4. Sock(u) \in Conn /\ down[Sock(u)] \in Seq(DownMsg)
  BY <1>1, SockLive DEF Typed, WireTyped
<1>5. /\ Head(down[Sock(u)]) = down[Sock(u)][1]
      /\ Tail(down[Sock(u)]) = <<>>
  BY <1>3, <1>4, OneTail DEF One
<1>6. Head(down[Sock(u)]) \in DownMsg
  BY <1>1, <1>4, HeadType
<1> QED
  BY <1>1, <1>3, <1>5, <1>6

LEMMA AcceptedTyped ==
  ASSUME Typed, CountsOK, NEW u \in Users, ChannelOK(Sock(u)), Accepted(u)
  PROVE  Typed'
<1> USE DEF Typed
<1>1. /\ Answer(u, "wait21")
      /\ down' = [down EXCEPT ![Sock(u)] = Tail(@)]
      /\ ask' = [ask EXCEPT ![u].id = Value(u)]
      /\ cpc' = [cpc EXCEPT ![u] = "body"]
      /\ UNCHANGED <<server, backlog, up, closed, cmds, got, local>>
  BY DEF Accepted
<1>2. <<"wait21", 21>> \in Replies
  BY DEF Replies
<1>3. /\ Busy(u) /\ Tail(down[Sock(u)]) = <<>>
      /\ Head(down[Sock(u)]) = down[Sock(u)][1] /\ One(down[Sock(u)], 21)
      /\ Head(down[Sock(u)]) \in DownMsg
  BY <1>1, <1>2, AnswerKind
<1>4. Head(down[Sock(u)]).type = 21
  BY <1>3 DEF One
<1>5. Value(u) \in Nat /\ Sock(u) \in Conn
  BY <1>4, <1>3, DownValues, SockLive DEF Value
<1>6. ask' \in [Users -> [name : Names \union {None}, id : Nat]]
  BY <1>1, <1>5 DEF ClientTyped
<1>7. ClientTyped'
  BY <1>1, <1>6 DEF ClientTyped, States
<1>8. WireTyped'
  BY <1>1, <1>3, <1>5, EmptySeq DEF WireTyped, server
<1>9. ServerTyped'
  BY <1>1 DEF server, ServerTyped
<1> QED
  BY <1>7, <1>8, <1>9

LEMMA AskTyped ==
  ASSUME Typed, CountsOK, NEW u \in Users, ChannelOK(Sock(u)), AskForFile(u)
  PROVE  Typed'
<1> USE DEF Typed
<1>1. /\ Answer(u, "wait41")
      /\ down' = [down EXCEPT ![Sock(u)] = Tail(@)]
      /\ ask' = [ask EXCEPT ![u].id = Value(u)]
      /\ up' = [up EXCEPT ![Sock(u)] = Append(@, Msg(16, Value(u)))]
      /\ cpc' = [cpc EXCEPT ![u] = "file"]
      /\ UNCHANGED <<server, backlog, closed, cmds, got, local>>
  BY DEF AskForFile
<1>2. <<"wait41", 41>> \in Replies
  BY DEF Replies
<1>3. /\ Busy(u) /\ Tail(down[Sock(u)]) = <<>>
      /\ Head(down[Sock(u)]) \in DownMsg
      /\ Head(down[Sock(u)]) = down[Sock(u)][1] /\ One(down[Sock(u)], 41)
  BY <1>1, <1>2, AnswerKind
<1>4. Talk(u, up[Sock(u)], down[Sock(u)], cpc[u], ask[u], got[u], torrents)
  BY <1>3, SockTalk
<1>5. Value(u) \in DOMAIN torrents /\ Sock(u) \in Conn
  BY <1>1, <1>3, <1>4, SockLive DEF Value, Answer, Talk, One
<1>6. Value(u) \in 1..Len(torrents) /\ Len(torrents) \in Nat
  BY <1>5, LenProperties DEF ServerTyped
<1>7. Append(up[Sock(u)], Msg(16, Value(u))) \in Seq(UpMsg(Len(torrents)))
  BY <1>5, <1>6, UpTypes, AppendProperties DEF WireTyped
<1>8. Value(u) \in Nat
  BY <1>6
<1>9. ask' \in [Users -> [name : Names \union {None}, id : Nat]]
  BY <1>1, <1>8 DEF ClientTyped
<1>10. ClientTyped'
  BY <1>1, <1>9 DEF ClientTyped, States
<1>11. WireTyped'
  BY <1>1, <1>3, <1>5, <1>7, EmptySeq DEF WireTyped, server
<1>12. ServerTyped'
  BY <1>1 DEF server, ServerTyped
<1> QED
  BY <1>10, <1>11, <1>12

(* The block that is sent next. *)
LEMMA NextBlock ==
  ASSUME Typed, CountsOK, NEW u \in Users, ChannelOK(Sock(u)), SendBlock(u)
  PROVE  /\ cpc[u] = "body" /\ Busy(u) /\ Sock(u) \in Conn
         /\ ask[u].name \in Names
         /\ Body(u, ask[u].name) \in Seq(Chunk)
         /\ Len(Append(got[u], Body(u, ask[u].name)[Len(got[u]) + 1]))
              = Len(got[u]) + 1
         /\ Len(got[u]) < Size
         /\ Body(u, ask[u].name)[Len(got[u]) + 1] \in Chunk
<1>1. cpc[u] = "body" /\ Busy(u)
  BY DEF SendBlock, Busy
<1>2. Talk(u, up[Sock(u)], down[Sock(u)], cpc[u], ask[u], got[u], torrents)
  BY <1>1, SockTalk
<1>3. ask[u].name \in Names /\ Len(got[u]) < Size /\ Sock(u) \in Conn
  BY <1>1, <1>2, SockLive DEF Talk
<1>4. got[u] \in Seq(Chunk) /\ Len(got[u]) \in Nat
  BY LenProperties DEF Typed, ClientTyped
<1>5. Body(u, ask[u].name) \in [1..Size -> Chunk] /\ Size \in Nat
  BY <1>3 DEF Body, Chunk, TrackerAssumption
<1>6. Body(u, ask[u].name) \in Seq(Chunk)
  BY <1>5, SeqDef
<1>7. Len(got[u]) + 1 \in 1..Size
  BY <1>3, <1>4, <1>5
<1>8. Body(u, ask[u].name)[Len(got[u]) + 1] \in Chunk
  BY <1>5, <1>7
<1> QED
  BY <1>1, <1>3, <1>4, <1>6, <1>8, AppendProperties

LEMMA SendTyped ==
  ASSUME Typed, CountsOK, NEW u \in Users, ChannelOK(Sock(u)), SendBlock(u)
  PROVE  Typed'
<1> DEFINE data == Body(u, ask[u].name)
           sent == Append(got[u], data[Len(got[u]) + 1])
<1>1. /\ up' = [up EXCEPT ![Sock(u)] = Append(@, Msg(0, data[Len(sent)]))]
      /\ IF Len(sent) = Size
           THEN /\ local' = [local EXCEPT ![u] =
                     Append(@, Entry(ask[u].id, ask[u].name, data, 1))]
                /\ CloseSocket(u)
           ELSE /\ got' = [got EXCEPT ![u] = sent]
                /\ UNCHANGED <<local, closed, cpc, down, ask>>
      /\ UNCHANGED <<server, backlog, cmds>>
  BY DEF SendBlock
<1>2. /\ ask[u].name \in Names /\ data \in Seq(Chunk) /\ Sock(u) \in Conn
      /\ data[Len(got[u]) + 1] \in Chunk
      /\ Len(sent) = Len(got[u]) + 1
  BY NextBlock
<1> HIDE DEF data
<1>3. Len(torrents) \in Nat
  BY LenProperties DEF Typed, ServerTyped
<1>4. Msg(0, data[Len(sent)]) \in UpMsg(Len(torrents))
  BY <1>2, <1>3, UpTypes
<1>5. Append(up[Sock(u)], Msg(0, data[Len(sent)])) \in Seq(UpMsg(Len(torrents)))
  BY <1>2, <1>4, AppendProperties DEF Typed, WireTyped
<1>6. up' \in [Conn -> Seq(UpMsg(Len(torrents)))]
  BY <1>1, <1>2, <1>5 DEF Typed, WireTyped
<1>7. CASE Len(sent) = Size
  <2>1. ask[u].id \in Nat
    BY DEF Typed, ClientTyped
  <2>2. local' = [local EXCEPT ![u] =
                    Append(@, Entry(ask[u].id, ask[u].name, data, 1))]
    BY <1>1, <1>7
  <2>3. 1 \in {0, 1}
    OBVIOUS
  <2>4. [local EXCEPT ![u] = Append(@, Entry(ask[u].id, ask[u].name, data, 1))]
          \in [Users -> Seq(Held)]
    BY <1>2, <2>1, <2>3, EntryTyped
  <2>5. local' \in [Users -> Seq(Held)]
    BY <2>2, <2>4
  <2> QED
    BY <1>1, <1>2, <1>6, <1>7, <2>5, EndsTyped DEF CloseSocket, States
<1>8. CASE Len(sent) # Size
  <2>1. sent \in Seq(Chunk)
    BY <1>2, AppendProperties DEF Typed, ClientTyped
  <2>2. ClientTyped'
    BY <1>1, <1>8, <2>1 DEF Typed, ClientTyped
  <2>3. WireTyped'
    BY <1>1, <1>6, <1>8 DEF Typed, WireTyped, server
  <2>4. ServerTyped'
    BY <1>1 DEF Typed, server, ServerTyped
  <2> QED
    BY <2>2, <2>3, <2>4 DEF Typed
<1> QED
  BY <1>7, <1>8

LEMMA NameTyped ==
  ASSUME Typed, NEW id \in DOMAIN torrents
  PROVE  torrents[id].name \in Names /\ id \in Nat
<1>1. /\ torrents \in Seq(Torrent)
      /\ DOMAIN torrents = 1..Len(torrents) /\ Len(torrents) \in Nat
  BY LenProperties DEF Typed, ServerTyped
<1>2. torrents[id] \in Torrent
  BY <1>1, ElementOfSeq
<1> QED
  BY <1>1, <1>2 DEF Torrent

(* The n blocks a client takes from its connection. *)
LEMMA BlocksTaken ==
  ASSUME Typed, CountsOK, NEW u \in Users, ChannelOK(Sock(u)),
         cpc[u] = "file", NEW n \in DOMAIN down[Sock(u)]
  PROVE  /\ Busy(u) /\ Sock(u) \in Conn
         /\ ask[u].id \in DOMAIN torrents
         /\ Listed(torrents, ask[u].id, u)
         /\ up[Sock(u)] = <<>> /\ Blocks(down[Sock(u)])
         /\ n \in Nat /\ 1 <= n /\ n <= Len(down[Sock(u)])
         /\ [k \in 1..n |-> down[Sock(u)][k].val] \in Seq(Chunk)
         /\ got[u] \o [k \in 1..n |-> down[Sock(u)][k].val] \in Seq(Chunk)
<1>1. Busy(u)
  BY DEF Busy
<1>2. Talk(u, up[Sock(u)], down[Sock(u)], cpc[u], ask[u], got[u], torrents)
  BY <1>1, SockTalk
<1>3. Sock(u) \in Conn
  BY <1>1, SockLive
<1>4. /\ down[Sock(u)] \in Seq(DownMsg)
      /\ DOMAIN down[Sock(u)] = 1..Len(down[Sock(u)])
      /\ Len(down[Sock(u)]) \in Nat
  BY <1>3, LenProperties DEF Typed, WireTyped
<1>5. down[Sock(u)] # <<>> /\ n \in Nat /\ 1 <= n /\ n <= Len(down[Sock(u)])
  BY <1>4
<1>6. /\ ask[u].id \in DOMAIN torrents
      /\ Listed(torrents, ask[u].id, u)
      /\ up[Sock(u)] = <<>> /\ Blocks(down[Sock(u)])
  BY <1>2, <1>5 DEF Talk
<1>7. \A k \in 1..n : down[Sock(u)][k].val \in Chunk
  <2>1. TAKE k \in 1..n
  <2>2. k \in DOMAIN down[Sock(u)]
    BY <1>4, <1>5
  <2>3. down[Sock(u)][k] \in DownMsg /\ down[Sock(u)][k].type = 0
    BY <1>4, <1>6, <2>2, ElementOfSeq DEF Blocks
  <2> QED
    BY <2>3, DownValues
<1>8. [k \in 1..n |-> down[Sock(u)][k].val] \in [1..n -> Chunk]
  BY <1>7
<1>9. [k \in 1..n |-> down[Sock(u)][k].val] \in Seq(Chunk)
  BY <1>5, <1>8, SeqDef
<1>10. got[u] \in Seq(Chunk)
  BY DEF Typed, ClientTyped
<1>11. got[u] \o [k \in 1..n |-> down[Sock(u)][k].val] \in Seq(Chunk)
  BY <1>9, <1>10, ConcatProperties
<1> QED
  BY <1>1, <1>3, <1>5, <1>6, <1>9, <1>11

LEMMA RecvTyped ==
  ASSUME Typed, CountsOK, NEW u \in Users, ChannelOK(Sock(u)), RecvFile(u)
  PROVE  Typed'
<1>1. PICK n \in DOMAIN down[Sock(u)] :
        LET data == got[u] \o [k \in 1..n |-> down[Sock(u)][k].val]
        IN  IF Received(data)
              THEN /\ local' = [local EXCEPT ![u] = Append(@,
                        Entry(ask[u].id, torrents[ask[u].id].name, data, 0))]
                   /\ CloseSocket(u)
              ELSE /\ down' = [down EXCEPT ![Sock(u)] = SubSeq(@, n + 1, Len(@))]
                   /\ got' = [got EXCEPT ![u] = data]
                   /\ UNCHANGED <<local, closed, cpc, ask>>
  BY DEF RecvFile
<1>2. cpc[u] = "file" /\ UNCHANGED <<server, backlog, up, cmds>>
  BY DEF RecvFile
<1> DEFINE data == got[u] \o [k \in 1..n |-> down[Sock(u)][k].val]
<1>3. /\ Sock(u) \in Conn /\ ask[u].id \in DOMAIN torrents
      /\ data \in Seq(Chunk)
      /\ n \in Nat /\ 1 <= n /\ n <= Len(down[Sock(u)])
  BY <1>2, BlocksTaken
<1>4. \/ /\ local' = [local EXCEPT ![u] = Append(@,
              Entry(ask[u].id, torrents[ask[u].id].name, data, 0))]
         /\ CloseSocket(u)
      \/ /\ down' = [down EXCEPT ![Sock(u)] = SubSeq(@, n + 1, Len(@))]
         /\ got' = [got EXCEPT ![u] = data]
         /\ UNCHANGED <<local, closed, cpc, ask>>
  BY <1>1
<1> HIDE DEF data
<1>5. CASE /\ local' = [local EXCEPT ![u] = Append(@,
               Entry(ask[u].id, torrents[ask[u].id].name, data, 0))]
           /\ CloseSocket(u)
  <2>1. torrents[ask[u].id].name \in Names /\ ask[u].id \in Nat /\ 0 \in {0, 1}
    BY <1>3, NameTyped
  <2>2. [local EXCEPT ![u] = Append(@,
          Entry(ask[u].id, torrents[ask[u].id].name, data, 0))]
            \in [Users -> Seq(Held)]
    BY <1>3, <2>1, EntryTyped
  <2>3. local' \in [Users -> Seq(Held)]
    BY <1>5, <2>2
  <2>4. up' \in [Conn -> Seq(UpMsg(Len(torrents)))]
    BY <1>2 DEF Typed, WireTyped
  <2> QED
    BY <1>2, <1>3, <1>5, <2>3, <2>4, EndsTyped DEF CloseSocket, States
<1>6. CASE /\ down' = [down EXCEPT ![Sock(u)] = SubSeq(@, n + 1, Len(@))]
           /\ got' = [got EXCEPT ![u] = data]
           /\ UNCHANGED <<local, closed, cpc, ask>>
  <2>1. down[Sock(u)] \in Seq(DownMsg) /\ Len(down[Sock(u)]) \in Nat
    BY <1>3, LenProperties DEF Typed, WireTyped
  <2>2. SubSeq(down[Sock(u)], n + 1, Len(down[Sock(u)])) \in Seq(DownMsg)
    BY <1>3, <2>1, SubSeqProperties
  <2>3. WireTyped'
    BY <1>2, <1>3, <1>6, <2>2 DEF Typed, WireTyped, server
  <2>4. ClientTyped'
    BY <1>2, <1>3, <1>6 DEF Typed, ClientTyped
  <2>5. ServerTyped'
    BY <1>2 DEF Typed, server, ServerTyped
  <2> QED
    BY <2>3, <2>4, <2>5 DEF Typed
<1> QED
  BY <1>4, <1>5, <1>6

LEMMA CutTyped ==
  ASSUME Typed, CountsOK, NEW u \in Users, ChannelOK(Sock(u)), FileCut(u)
  PROVE  Typed'
<1>1. /\ cpc[u] = "file"
      /\ local' = [local EXCEPT ![u] =
           Append(@, Entry(ask[u].id, torrents[ask[u].id].name, got[u], 0))]
      /\ CloseSocket(u)
      /\ UNCHANGED <<server, backlog, up, cmds>>
  BY DEF FileCut
<1>2. Busy(u)
  BY <1>1 DEF Busy
<1>3. Talk(u, up[Sock(u)], down[Sock(u)], cpc[u], ask[u], got[u], torrents)
  BY <1>2, SockTalk
<1>4. ask[u].id \in DOMAIN torrents /\ Sock(u) \in Conn
  BY <1>1, <1>2, <1>3, SockLive DEF Talk
<1>5. torrents[ask[u].id].name \in Names /\ ask[u].id \in Nat /\ 0 \in {0, 1}
  BY <1>4, NameTyped
<1>6. got[u] \in Seq(Chunk)
  BY DEF Typed, ClientTyped
<1>7. [local EXCEPT ![u] =
         Append(@, Entry(ask[u].id, torrents[ask[u].id].name, got[u], 0))]
           \in [Users -> Seq(Held)]
  BY <1>5, <1>6, EntryTyped
<1>8. local' \in [Users -> Seq(Held)]
  BY <1>1, <1>7
<1>9. up' \in [Conn -> Seq(UpMsg(Len(torrents)))]
  BY <1>1 DEF Typed, WireTyped
<1> QED
  BY <1>1, <1>4, <1>8, <1>9, EndsTyped DEF CloseSocket, States

(* Where a peer list is filed. *)
LEMMA FiledWhere ==
  ASSUME Typed, NEW u \in Users, local[u] # <<>>, NEW id
  PROVE  Filed(u, id) \in DOMAIN local[u]
<1>1. local[u] \in Seq(Held)
  BY DEF Typed, ClientTyped
<1>2. DOMAIN local[u] = 1..Len(local[u]) /\ Len(local[u]) \in Nat /\ Len(local[u]) >= 1
  BY <1>1, LenProperties, HeadType
<1>3. CASE id \in LocalIds(u)
  <2> DEFINE S == {i \in DOMAIN local[u] : local[u][i].id = id}
  <2>1. S # {} /\ S \subseteq Nat
    BY <1>2, <1>3 DEF LocalIds
  <2>2. \E i \in S : \A j \in S : i <= j
    BY <2>1, LeastNatural
  <2>3. \E i \in DOMAIN local[u] :
          /\ local[u][i].id = id
          /\ \A j \in DOMAIN local[u] : local[u][j].id = id => i <= j
    BY <2>2
  <2> QED
    BY <1>3, <2>3 DEF Filed
<1>4. CASE id \notin LocalIds(u)
  BY <1>2, <1>4 DEF Filed
<1> QED
  BY <1>3, <1>4

(* A stored peer list changes nothing else of the vector. *)
SameEntries(u) ==
  \A v \in Users : /\ DOMAIN local'[v] = DOMAIN local[v]
                   /\ \A i \in DOMAIN local[v] :
                        /\ local'[v][i].id = local[v][i].id
                        /\ local'[v][i].name = local[v][i].name
                        /\ local'[v][i].data = local[v][i].data
                        /\ local'[v][i].status = local[v][i].status
                        /\ v # u => local'[v][i] = local[v][i]

LEMMA StoreTyped ==
  ASSUME Typed, CountsOK, NEW u \in Users, ChannelOK(Sock(u)), StorePeers(u)
  PROVE  Typed' /\ SameEntries(u)
<1> DEFINE f == Filed(u, Value(u).id)
           ps == [id |-> Value(u).id,
                  users |-> {p \in Range(Value(u).peers) : p.user # u}]
<1>1. /\ Answer(u, "wait31") /\ local[u] # <<>>
      /\ local' = [local EXCEPT ![u][f].peers = ps]
      /\ CloseSocket(u)
      /\ UNCHANGED <<server, backlog, up, cmds>>
  BY DEF StorePeers
<1>2. <<"wait31", 31>> \in Replies
  BY DEF Replies
<1>3. /\ Busy(u) /\ One(down[Sock(u)], 31)
      /\ Head(down[Sock(u)]) = down[Sock(u)][1]
      /\ Head(down[Sock(u)]) \in DownMsg
  BY <1>1, <1>2, AnswerKind
<1>4. Value(u) \in [id : Nat, peers : Seq(PeerType)] /\ Sock(u) \in Conn
  BY <1>3, DownValues, SockLive DEF Value, One
<1>5. Range(Value(u).peers) \subseteq PeerType
  <2>1. Value(u).peers \in Seq(PeerType)
    BY <1>4
  <2> QED
    BY <2>1, ElementOfSeq, LenProperties DEF Range
<1>6. ps \in [id : Nat, users : SUBSET PeerType]
  BY <1>4, <1>5
<1>7. f \in DOMAIN local[u]
  BY <1>1, FiledWhere
<1>8. local[u] \in Seq(Held) /\ DOMAIN local[u] = 1..Len(local[u])
  BY LenProperties DEF Typed, ClientTyped
<1> DEFINE e == local[u][f]
           e2 == [e EXCEPT !.peers = ps]
<1>9. e \in Held
  BY <1>7, <1>8, ElementOfSeq
<1>10. e2 \in Held
  BY <1>6, <1>9 DEF Held
<1>11. local' = [local EXCEPT ![u] = [@ EXCEPT ![f] = e2]]
  BY <1>1, <1>7 DEF Typed, ClientTyped
<1> HIDE DEF f, ps
<1>12. [local[u] EXCEPT ![f] = e2] \in Seq(Held)
  BY <1>7, <1>8, <1>10, ExceptSeq
<1>13. local' \in [Users -> Seq(Held)]
  BY <1>11, <1>12 DEF Typed, ClientTyped
<1>14. up' \in [Conn -> Seq(UpMsg(Len(torrents)))]
  BY <1>1 DEF Typed, WireTyped
<1>15. Typed'
  BY <1>1, <1>4, <1>13, <1>14, EndsTyped DEF CloseSocket, States
<1>16. SameEntries(u)
  <2> USE DEF SameEntries
  <2>1. TAKE v \in Users
  <2>2. CASE v # u
    <3>1. local'[v] = local[v]
      BY <1>11, <2>2 DEF Typed, ClientTyped
    <3> QED
      BY <2>2, <3>1
  <2>3. CASE v = u
    <3>1. local'[u] = [local[u] EXCEPT ![f] = e2]
      BY <1>11 DEF Typed, ClientTyped
    <3>2. /\ e2.id = e.id /\ e2.name = e.name
          /\ e2.data = e.data /\ e2.status = e.status
      BY <1>9 DEF Held
    <3> HIDE DEF e, e2
    <3>3. \A i \in DOMAIN local[u] : i # f => local'[u][i] = local[u][i]
      BY <3>1
    <3>4. local'[u][f] = e2 /\ DOMAIN local'[u] = DOMAIN local[u]
      BY <3>1, <1>7
    <3> QED
      BY <2>3, <3>2, <3>3, <3>4 DEF e
  <2> QED
    BY <2>2, <2>3
<1> QED
  BY <1>15, <1>16

(* A command that ends without effect. *)
Quits(u) == ShowList(u) \/ NoTorrent(u) \/ NoReply(u) \/ ClientDies(u)

LEMMA QuitEnds ==
  ASSUME NEW u \in Users, Quits(u)
  PROVE  /\ Busy(u)
         /\ Ends(u, "menu") \/ Ends(u, "dead")
         /\ UNCHANGED <<server, backlog, up, cmds, local>>
  BY DEF Quits, ShowList, NoTorrent, NoReply, ClientDies, Busy, CloseSocket,
         Answer

LEMMA QuitTyped ==
  ASSUME Typed, CountsOK, NEW u \in Users, Quits(u)
  PROVE  Typed'
<1>1. /\ Sock(u) \in Conn
      /\ Ends(u, "menu") \/ Ends(u, "dead")
      /\ UNCHANGED <<server, backlog, up, cmds, local>>
  BY QuitEnds, SockLive
<1>2. /\ up' \in [Conn -> Seq(UpMsg(Len(torrents)))]
      /\ local' \in [Users -> Seq(Held)]
      /\ UNCHANGED <<server, backlog, cmds>>
  BY <1>1 DEF Typed, WireTyped, ClientTyped
<1>3. "menu" \in States /\ "dead" \in States
  BY DEF States
<1> QED
  BY <1>1, <1>2, <1>3, EndsTyped

LEMMA NoTrackerTyped ==
  ASSUME Typed, NEW u \in Users, NoTracker(u)
  PROVE  Typed'
  BY DEF NoTracker, Typed, ServerTyped, WireTyped, ClientTyped, server, States

-----------------------------------------------------------------------------
(* The steps *)

Works(u) == \/ Accepted(u) \/ SendBlock(u) \/ AskForFile(u) \/ RecvFile(u)
            \/ FileCut(u) \/ StorePeers(u) \/ Quits(u)
Looks == \/ StartScan \/ EndScan \/ ServerDies
Answers == TorrentList \/ DownloadTorrent \/ RequestPeerlist
Bodies == RecvBody \/ BodyCut

LEMMA NextCases ==
  Next => \/ Accept \/ Looks \/ Disconnect \/ Answers \/ UploadTorrentInfo
          \/ Bodies \/ ReadyToReceive
          \/ \E u \in Users : Types(u) \/ Works(u) \/ NoTracker(u)
  BY DEF Next, Server, Client, User, Works, Quits, Types, Looks, Answers, Bodies

(* A client at work touches its own command and connection only. *)
Frame(u) ==
  /\ UNCHANGED <<server, backlog, cmds>>
  /\ closed \subseteq closed'
  /\ \A v \in Users : v # u => /\ cpc'[v] = cpc[v] /\ ask'[v] = ask[v]
                               /\ got'[v] = got[v] /\ local'[v] = local[v]
  /\ \A c \in Conn : c # Sock(u) => up'[c] = up[c] /\ down'[c] = down[c]

LEMMA EndsFrame ==
  ASSUME Typed, NEW u \in Users, NEW next, Ends(u, next)
  PROVE  /\ closed \subseteq closed'
         /\ \A v \in Users : v # u => /\ cpc'[v] = cpc[v] /\ ask'[v] = ask[v]
                                      /\ got'[v] = got[v]
         /\ \A c \in Conn : c # Sock(u) => down'[c] = down[c]
         /\ cpc'[u] = next
         /\ Sock(u) \in Conn => down'[Sock(u)] = <<>> /\ Sock(u) \in closed'
  BY DEF Ends, Typed, ClientTyped, WireTyped

LEMMA WorksFrame ==
  ASSUME Typed, CountsOK, NEW u \in Users, ChannelOK(Sock(u)), Works(u)
  PROVE  Frame(u) /\ Busy(u)
<1> USE DEF Frame
<1>1. CASE Accepted(u)
  BY <1>1 DEF Accepted, Answer, Busy, Typed, ClientTyped, WireTyped
<1>2. CASE AskForFile(u)
  BY <1>2 DEF AskForFile, Answer, Busy, Typed, ClientTyped, WireTyped
<1>3. CASE SendBlock(u)
  <2> DEFINE data == Body(u, ask[u].name)
             sent == Append(got[u], data[Len(got[u]) + 1])
  <2>1. /\ cpc[u] = "body"
        /\ up' = [up EXCEPT ![Sock(u)] = Append(@, Msg(0, data[Len(sent)]))]
        /\ \/ /\ local' = [local EXCEPT ![u] =
                       Append(@, Entry(ask[u].id, ask[u].name, data, 1))]
              /\ Ends(u, "menu")
           \/ /\ got' = [got EXCEPT ![u] = sent]
              /\ UNCHANGED <<local, closed, cpc, down, ask>>
        /\ UNCHANGED <<server, backlog, cmds>>
    BY <1>3 DEF SendBlock, CloseSocket
  <2> HIDE DEF data, sent
  <2>2. Busy(u)
    BY <2>1 DEF Busy
  <2>3. \A c \in Conn : c # Sock(u) => up'[c] = up[c]
    BY <2>1 DEF Typed, WireTyped
  <2>4. \A v \in Users : v # u => local'[v] = local[v]
    BY <2>1 DEF Typed, ClientTyped
  <2>5. CASE Ends(u, "menu")
    BY <2>1, <2>2, <2>3, <2>4, <2>5, EndsFrame
  <2>6. CASE /\ got' = [got EXCEPT ![u] = sent]
             /\ UNCHANGED <<local, closed, cpc, down, ask>>
    BY <2>1, <2>2, <2>3, <2>6 DEF Typed, ClientTyped
  <2> QED
    BY <2>1, <2>5, <2>6
<1>4. CASE RecvFile(u)
  <2>1. /\ cpc[u] = "file" /\ UNCHANGED <<server, backlog, up, cmds>>
        /\ \/ (\E e : local' = [local EXCEPT ![u] = Append(@, e)])
              /\ Ends(u, "menu")
           \/ /\ \E s : down' = [down EXCEPT ![Sock(u)] = s]
              /\ \E g : got' = [got EXCEPT ![u] = g]
              /\ UNCHANGED <<local, closed, cpc, ask>>
    BY <1>4 DEF RecvFile, CloseSocket
  <2>2. Busy(u)
    BY <2>1 DEF Busy
  <2>3. CASE (\E e : local' = [local EXCEPT ![u] = Append(@, e)]) /\ Ends(u, "menu")
    <3>1. \A v \in Users : v # u => local'[v] = local[v]
      BY <2>3 DEF Typed, ClientTyped
    <3> QED
      BY <2>1, <2>2, <2>3, <3>1, EndsFrame
  <2>4. CASE /\ \E s : down' = [down EXCEPT ![Sock(u)] = s]
             /\ \E g : got' = [got EXCEPT ![u] = g]
             /\ UNCHANGED <<local, closed, cpc, ask>>
    BY <2>1, <2>2, <2>4 DEF Typed, ClientTyped, WireTyped
  <2> QED
    BY <2>1, <2>3, <2>4
<1>5. CASE FileCut(u)
  <2>1. /\ cpc[u] = "file" /\ UNCHANGED <<server, backlog, up, cmds>>
        /\ \E e : local' = [local EXCEPT ![u] = Append(@, e)]
        /\ Ends(u, "menu")
    BY <1>5 DEF FileCut, CloseSocket
  <2>2. Busy(u)
    BY <2>1 DEF Busy
  <2>3. \A v \in Users : v # u => local'[v] = local[v]
    BY <2>1 DEF Typed, ClientTyped
  <2> QED
    BY <2>1, <2>2, <2>3, EndsFrame
<1>6. CASE StorePeers(u)
  <2>1. /\ Answer(u, "wait31") /\ UNCHANGED <<server, backlog, up, cmds>>
        /\ Ends(u, "menu")
    BY <1>6 DEF StorePeers, CloseSocket
  <2>2. Busy(u)
    BY <2>1 DEF Answer, Busy
  <2>3. SameEntries(u)
    BY <1>6, StoreTyped
  <2>4. \A v \in Users : v # u => local'[v] = local[v]
    BY <1>6 DEF StorePeers, Typed, ClientTyped
  <2> QED
    BY <2>1, <2>2, <2>4, EndsFrame
<1>7. CASE Quits(u)
  <2>1. /\ Busy(u)
        /\ Ends(u, "menu") \/ Ends(u, "dead")
        /\ UNCHANGED <<server, backlog, up, cmds, local>>
    BY <1>7, QuitEnds
  <2>2. PICK next : Ends(u, next)
    BY <2>1
  <2>3. /\ closed \subseteq closed'
        /\ \A v \in Users : v # u => /\ cpc'[v] = cpc[v] /\ ask'[v] = ask[v]
                                     /\ got'[v] = got[v]
        /\ \A c \in Conn : c # Sock(u) => down'[c] = down[c]
    BY <2>2, EndsFrame
  <2> QED
    BY <2>1, <2>3
<1> QED
  BY <1>1, <1>2, <1>3, <1>4, <1>5, <1>6, <1>7 DEF Works

LEMMA WorksBusy ==
  ASSUME NEW u \in Users, Works(u)
  PROVE  Busy(u)
<1>1. CASE Quits(u)
  BY <1>1, QuitEnds
<1>2. CASE ~Quits(u)
  BY <1>2 DEF Works, Accepted, SendBlock, AskForFile, RecvFile, FileCut,
              StorePeers, Answer, Busy
<1> QED
  BY <1>1, <1>2

LEMMA ServerFrame ==
  ASSUME \/ Accept \/ Looks \/ Disconnect \/ Answers \/ UploadTorrentInfo
         \/ Bodies \/ ReadyToReceive
  PROVE  UNCHANGED client /\ UNCHANGED closed
  BY DEF Accept, Looks, Disconnect, Answers, Bodies, StartScan, EndScan,
         ServerDies, TorrentList, DownloadTorrent, RequestPeerlist,
         UploadTorrentInfo, RecvBody, BodyCut, ReadyToReceive

LEMMA TypedStep ==
  ASSUME Inv, Next
  PROVE  Typed'
<1>1. Typed /\ CountsOK /\ TableOK /\ BodyOK
  BY DEF Inv, Typed
<1>2. CASE Accept
  BY <1>1, <1>2, AcceptTyped
<1>3. CASE Looks \/ Disconnect \/ Answers
  BY <1>1, <1>3, ScanTyped DEF Looks, Answers
<1>4. CASE UploadTorrentInfo
  BY <1>1, <1>4, UploadTyped
<1>5. CASE Bodies
  BY <1>1, <1>5, BodyTyped DEF Bodies
<1>6. CASE ReadyToReceive
  BY <1>1, <1>6, ReadyTyped
<1>7. ASSUME NEW u \in Users, Types(u) PROVE Typed'
  BY <1>1, <1>7, CommandKind, CommandTyped
<1>8. ASSUME NEW u \in Users, Works(u) PROVE Typed'
  <2>1. CASE Quits(u)
    BY <1>1, <2>1, QuitTyped
  <2>2. CASE ~Quits(u)
    <3>1. Busy(u)
      BY <1>8, WorksBusy
    <3>2. ChannelOK(Sock(u))
      BY <1>1, <3>1, SockLive DEF Inv
    <3> QED
      BY <1>1, <1>8, <2>2, <3>2, AcceptedTyped, SendTyped, AskTyped,
         RecvTyped, CutTyped, StoreTyped DEF Works
  <2> QED
    BY <2>1, <2>2
<1>9. ASSUME NEW u \in Users, NoTracker(u) PROVE Typed'
  BY <1>1, <1>9, NoTrackerTyped
<1> QED
  BY <1>2, <1>3, <1>4, <1>5, <1>6, <1>7, <1>8, <1>9, NextCases

(* A client at work leaves the table, the backlog and the counts alone. *)
LEMMA CountsStep ==
  ASSUME Inv, Next
  PROVE  CountsOK'
<1>1. Typed /\ CountsOK
  BY DEF Inv, Typed
<1> USE DEF CountsOK
<1>2. CASE UNCHANGED <<cmds, cpc>>
  BY <1>1, <1>2
<1>3. ASSUME NEW u \in Users, Types(u) PROVE CountsOK'
  <2>1. PICK t, x, wait : Command(u, t, x, wait)
    BY <1>1, <1>3, CommandKind
  <2>2. /\ cmds[u] < MaxCmds[u]
        /\ cmds' = [cmds EXCEPT ![u] = @ + 1]
        /\ cpc' = [cpc EXCEPT ![u] = wait]
    BY <2>1 DEF Command
  <2>3. cmds[u] \in Nat /\ cmds[u] + 1 \in 1..MaxCmds[u]
    BY <1>1, <2>2, NewSock
  <2> QED
    BY <1>1, <2>2, <2>3 DEF Typed, ClientTyped
<1>4. ASSUME NEW u \in Users, Works(u) PROVE CountsOK'
  <2>1. Busy(u) /\ Frame(u)
    BY <1>1, <1>4, WorksBusy, WorksFrame, SockLive DEF Inv
  <2>2. cmds' = cmds /\ cmds[u] >= 1
    BY <1>1, <2>1 DEF Frame, Busy
  <2>3. \A v \in Users : v # u => cpc'[v] = cpc[v]
    BY <2>1 DEF Frame
  <2> QED
    BY <1>1, <2>2, <2>3
<1>5. ASSUME NEW u \in Users, NoTracker(u) PROVE CountsOK'
  <2>1. cpc' = [cpc EXCEPT ![u] = "dead"] /\ cmds' = cmds
    BY <1>5 DEF NoTracker
  <2> QED
    BY <1>1, <2>1 DEF Typed, ClientTyped
<1>6. CASE \/ Accept \/ Looks \/ Disconnect \/ Answers \/ UploadTorrentInfo
           \/ Bodies \/ ReadyToReceive
  <2>1. UNCHANGED client
    BY <1>6, ServerFrame
  <2> QED
    BY <1>2, <2>1 DEF client
<1> QED
  BY <1>3, <1>4, <1>5, <1>6, NextCases

LEMMA TableStep ==
  ASSUME Inv, Next
  PROVE  TableOK' /\ TypedIn'
<1>1. Typed /\ CountsOK /\ TableOK /\ TypedIn
  BY DEF Inv, Typed
<1>2. CASE UNCHANGED <<maxi, fd, addr, backlog, cmds>>
  BY <1>1, <1>2 DEF TableOK, TypedIn
<1>3. CASE Accept
  <2> DEFINE h == Head(backlog)
             s == FreeSlot
  <2>1. /\ backlog # <<>>
        /\ fd' = [fd EXCEPT ![s] = h]
        /\ addr' = [addr EXCEPT ![s] = h[1]]
        /\ maxi' = UpperMark(s)
        /\ backlog' = Tail(backlog)
        /\ cmds' = cmds
    BY <1>3 DEF Accept, client
  <2>2. /\ s \in Slot /\ fd[s] = None
        /\ \A j \in Slot : fd[j] = None => s <= j
    BY <1>1, <2>1, SlotFree DEF Typed
  <2>3. /\ h \in Conn /\ h = backlog[1] /\ 1 \in DOMAIN backlog
        /\ Len(backlog) \in Nat
        /\ \A k \in DOMAIN Tail(backlog) :
             k + 1 \in DOMAIN backlog /\ Tail(backlog)[k] = backlog[k + 1]
    BY <1>1, <2>1, HeadType, LenProperties DEF Typed, WireTyped
  <2>4. h # None /\ h[1] \in Users
    BY <2>3, ConnMember
  <2> HIDE DEF h, s
  <2>5. fd'[s] = h /\ \A j \in Slot : j # s => fd'[j] = fd[j]
    BY <1>1, <2>1, <2>2 DEF Typed, ServerTyped
  <2>6. \A k \in DOMAIN Tail(backlog) : k \in Nat /\ k >= 1
    BY <1>1, <2>1, HeadType, LenProperties DEF Typed, WireTyped
  <2>7. \A i \in Slot : i > maxi' => fd'[i] = None
    BY <1>1, <2>1, <2>2, <2>5, SlotCount
    DEF UpperMark, TableOK, Typed, ServerTyped
  <2>8. \A i, j \in Slot : fd'[i] = fd'[j] /\ fd'[i] # None => i = j
    BY <1>1, <2>3, <2>5 DEF TableOK
  <2>9. \A k, l \in DOMAIN Tail(backlog) :
          Tail(backlog)[k] = Tail(backlog)[l] => k = l
    BY <1>1, <2>3, <2>6 DEF TableOK
  <2>10. \A k \in DOMAIN Tail(backlog), i \in Slot :
           Tail(backlog)[k] # fd'[i]
    <3>1. TAKE k \in DOMAIN Tail(backlog), i \in Slot
    <3>2. k + 1 \in DOMAIN backlog /\ Tail(backlog)[k] = backlog[k + 1]
          /\ k + 1 # 1
      BY <2>3, <2>6
    <3>3. backlog[k + 1] # fd[i] /\ backlog[k + 1] # backlog[1]
      BY <1>1, <2>3, <3>2 DEF TableOK
    <3> QED
      BY <2>3, <2>5, <3>2, <3>3
  <2>11. \A i \in Slot : fd'[i] # None => addr'[0] \in Users
    <3>1. CASE s = 0
      BY <1>1, <2>1, <2>2, <2>4, <3>1 DEF Typed, ServerTyped
    <3>2. CASE s # 0
      <4>1. 0 \in Slot /\ ~(s <= 0)
        BY <2>2, <3>2, ConnFinite DEF Slot
      <4>2. fd[0] # None
        BY <2>2, <4>1, Zenon
      <4>3. addr[0] \in Users /\ addr'[0] = addr[0]
        BY <1>1, <2>1, <3>2, <4>1, <4>2 DEF TableOK, Typed, ServerTyped
      <4> QED
        BY <4>3
    <3> QED
      BY <3>1, <3>2
  <2>12. TableOK'
    BY <2>1, <2>7, <2>8, <2>9, <2>10, <2>11 DEF TableOK
  <2>13. TypedIn'
    BY <1>1, <2>1, <2>3, <2>5 DEF TypedIn
  <2> QED
    BY <2>12, <2>13
<1>4. CASE Disconnect
  <2>1. PICK i \in Slot : fd' = [fd EXCEPT ![i] = None]
    BY <1>4 DEF Disconnect
  <2>2. UNCHANGED <<maxi, addr, backlog, cmds>>
    BY <1>4 DEF Disconnect, client
  <2>3. \A j \in Slot : fd'[j] = fd[j] \/ fd'[j] = None
    BY <1>1, <2>1 DEF Typed, ServerTyped
  <2>4. \A k \in DOMAIN backlog : backlog[k] # None
    BY <1>1, ConnMember, ElementOfSeq, LenProperties DEF Typed, WireTyped
  <2> QED
    BY <1>1, <2>2, <2>3, <2>4 DEF TableOK, TypedIn
<1>5. CASE Looks \/ Answers \/ UploadTorrentInfo \/ Bodies \/ ReadyToReceive
  BY <1>2, <1>5
  DEF Looks, Answers, Bodies, StartScan, EndScan, ServerDies, TorrentList,
      DownloadTorrent, RequestPeerlist, UploadTorrentInfo, RecvBody, BodyCut,
      ReadyToReceive, client
<1>6. ASSUME NEW u \in Users, Types(u) PROVE TableOK' /\ TypedIn'
  <2> DEFINE new == <<u, cmds[u] + 1>>
  <2>1. PICK t, x, wait : Command(u, t, x, wait)
    BY <1>1, <1>6, CommandKind
  <2>2. /\ cmds[u] < MaxCmds[u]
        /\ cmds' = [cmds EXCEPT ![u] = @ + 1]
        /\ backlog' = Append(backlog, new)
        /\ UNCHANGED <<maxi, fd, addr>>
    BY <2>1 DEF Command, server
  <2>3. /\ new \in Conn /\ cmds[u] \in Nat /\ cmds[u] + 1 \in Nat
        /\ new[1] = u /\ new[2] = cmds[u] + 1
    BY <1>1, <2>2, NewSock, ConnMember
  <2> HIDE DEF new
  <2>4. /\ Len(backlog) \in Nat /\ DOMAIN backlog = 1..Len(backlog)
        /\ Len(backlog') = Len(backlog) + 1
        /\ DOMAIN backlog' = 1..Len(backlog')
        /\ \A k \in 1..Len(backlog) : backlog'[k] = backlog[k]
        /\ backlog'[Len(backlog) + 1] = new
    <3>1. backlog \in Seq(Conn)
      BY <1>1 DEF Typed, WireTyped
    <3>2. /\ Append(backlog, new) \in Seq(Conn)
          /\ Len(Append(backlog, new)) = Len(backlog) + 1
          /\ \A k \in 1..Len(backlog) : Append(backlog, new)[k] = backlog[k]
          /\ Append(backlog, new)[Len(backlog) + 1] = new
      BY <2>3, <3>1, AppendProperties
    <3> QED
      BY <2>2, <3>1, <3>2, LenProperties
  <2>5. \A k \in DOMAIN backlog : backlog[k] # new
    BY <1>1, <2>3 DEF TypedIn
  <2>6. \A i \in Slot : fd[i] # new
    <3>1. \A i \in Slot : fd[i] # None => fd[i][2] <= cmds[fd[i][1]]
      BY <1>1 DEF TypedIn
    <3>2. new # None
      BY <2>3, ConnMember
    <3> QED
      BY <2>3, <3>1, <3>2
  <2>7. \A k, l \in DOMAIN backlog' : backlog'[k] = backlog'[l] => k = l
    BY <1>1, <2>4, <2>5 DEF TableOK
  <2>8. \A k \in DOMAIN backlog', i \in Slot : backlog'[k] # fd[i]
    BY <1>1, <2>4, <2>6 DEF TableOK
  <2>9. TableOK'
    BY <1>1, <2>2, <2>7, <2>8 DEF TableOK
  <2>10. \A v \in Users : cmds[v] \in Nat /\ cmds'[v] \in Nat /\ cmds[v] <= cmds'[v]
    <3>1. cmds \in [Users -> Nat] /\ cmds' = [cmds EXCEPT ![u] = cmds[u] + 1]
      BY <1>1, <2>2 DEF Typed, ClientTyped
    <3>2. TAKE v \in Users
    <3>3. cmds[v] \in Nat /\ (cmds'[v] = cmds[v] \/ cmds'[v] = cmds[v] + 1)
      BY <3>1
    <3> QED
      BY <3>3
  <2>11. \A i \in Slot : fd[i] # None => fd[i][2] <= cmds'[fd[i][1]]
    <3>1. TAKE i \in Slot
    <3>2. HAVE fd[i] # None
    <3>3. fd[i] \in Conn /\ fd[i][1] \in Users /\ fd[i][2] \in Nat
      BY <1>1, <3>2, ConnMember DEF Typed, ServerTyped
    <3>4. fd[i][2] <= cmds[fd[i][1]]
      BY <1>1, <3>2 DEF TypedIn
    <3> QED
      BY <2>10, <3>3, <3>4
  <2>12. \A k \in DOMAIN backlog' : backlog'[k][2] <= cmds'[backlog'[k][1]]
    <3>1. TAKE k \in DOMAIN backlog'
    <3>2. CASE k \in DOMAIN backlog
      <4>1. backlog'[k] = backlog[k] /\ backlog[k] \in Conn
        BY <1>1, <2>4, <3>2, ElementOfSeq DEF Typed, WireTyped
      <4>2. backlog[k][1] \in Users /\ backlog[k][2] \in Nat
        BY <4>1, ConnMember
      <4>3. backlog[k][2] <= cmds[backlog[k][1]]
        BY <1>1, <3>2 DEF TypedIn
      <4> QED
        BY <2>10, <4>1, <4>2, <4>3
    <3>3. CASE k = Len(backlog) + 1
      <4>1. cmds'[u] = cmds[u] + 1
        BY <1>1, <2>2 DEF Typed, ClientTyped
      <4> QED
        BY <2>3, <2>4, <3>3, <4>1
    <3> QED
      BY <2>4, <3>2, <3>3
  <2>13. TypedIn'
    BY <2>2, <2>11, <2>12 DEF TypedIn
  <2> QED
    BY <2>9, <2>13
<1>7. ASSUME NEW u \in Users, Works(u) \/ NoTracker(u)
      PROVE  TableOK' /\ TypedIn'
  <2>1. CASE Works(u)
    <3>1. Frame(u)
      BY <1>1, <2>1, WorksBusy, WorksFrame, SockLive DEF Inv
    <3> QED
      BY <1>2, <3>1 DEF Frame, server
  <2>2. CASE NoTracker(u)
    BY <1>2, <2>2 DEF NoTracker, server
  <2> QED
    BY <1>7, <2>1, <2>2
<1> QED
  BY <1>3, <1>4, <1>5, <1>6, <1>7, NextCases

-----------------------------------------------------------------------------
(* The torrents vector only grows *)

Grows(ts, ts2) ==
  /\ DOMAIN ts \subseteq DOMAIN ts2
  /\ \A id \in DOMAIN ts : /\ ts2[id].name = ts[id].name
                           /\ ts2[id].owner = ts[id].owner
                           /\ \A u \in Users : Listed(ts, id, u) => Listed(ts2, id, u)

LEMMA GrowsSame == \A ts : Grows(ts, ts)
  BY DEF Grows

LEMMA UploadGrows ==
  ASSUME Typed, NEW n, NEW u \in Users, torrents \in Seq(Torrent), NEW ts2,
         ts2 = Append(torrents, [name |-> n, owner |-> u, peers |-> <<Peer(u)>>]),
         ts2 \in Seq(Torrent)
  PROVE  /\ Grows(torrents, ts2)
         /\ Own(ts2, Len(torrents) + 1, n, u)
         /\ ts2 # <<>>
<1> DEFINE t == [name |-> n, owner |-> u, peers |-> <<Peer(u)>>]
<1>1. /\ Len(torrents) \in Nat /\ DOMAIN torrents = 1..Len(torrents)
      /\ DOMAIN ts2 = 1..(Len(torrents) + 1)
      /\ \A k \in 1..Len(torrents) : ts2[k] = torrents[k]
      /\ ts2[Len(torrents) + 1] = t
  <2>1. /\ Append(torrents, t) \in Seq({t} \union Torrent)
        /\ Len(Append(torrents, t)) = Len(torrents) + 1
        /\ \A k \in 1..Len(torrents) : Append(torrents, t)[k] = torrents[k]
        /\ Append(torrents, t)[Len(torrents) + 1] = t
    <3>1. torrents \in Seq({t} \union Torrent) /\ t \in {t} \union Torrent
      BY SeqMonotonic
    <3> HIDE DEF t
    <3> QED
      BY <3>1, AppendProperties
  <2> HIDE DEF t
  <2>2. ts2 = Append(torrents, t)
    BY DEF t
  <2> QED
    BY <2>1, <2>2, LenProperties
<1>2. Grows(torrents, ts2)
  BY <1>1 DEF Grows, Listed
<1>3. Listed(ts2, Len(torrents) + 1, u)
  <2>1. ts2[Len(torrents) + 1].peers = <<Peer(u)>>
    BY <1>1
  <2>2. 1 \in DOMAIN <<Peer(u)>> /\ <<Peer(u)>>[1].user = u
    BY DEF Peer
  <2> QED
    BY <2>1, <2>2 DEF Listed
<1>4. Own(ts2, Len(torrents) + 1, n, u)
  BY <1>1, <1>3 DEF Own
<1>5. ts2 # <<>>
  <2>1. Len(torrents) + 1 \in DOMAIN ts2
    BY <1>1
  <2>2. DOMAIN <<>> = {}
    OBVIOUS
  <2> QED
    BY <2>1, <2>2, Zenon
<1> QED
  BY <1>2, <1>4, <1>5

LEMMA ReadyGrows ==
  ASSUME Typed, NEW id \in DOMAIN torrents, NEW u \in Users, Peer(u) \in PeerType,
         NEW ts2, ts2 = [torrents EXCEPT ![id].peers = Append(@, Peer(u))]
  PROVE  Grows(torrents, ts2) /\ Listed(ts2, id, u)
<1> DEFINE ps == torrents[id].peers
           t == [torrents[id] EXCEPT !.peers = Append(ps, Peer(u))]
<1>1. torrents \in Seq(Torrent) /\ DOMAIN torrents = 1..Len(torrents)
  BY LenProperties DEF Typed, ServerTyped
<1>2. torrents[id] \in Torrent
  BY <1>1, ElementOfSeq
<1>3. ps \in Seq(PeerType)
  BY <1>2 DEF Torrent
<1>4. /\ Append(ps, Peer(u)) \in Seq(PeerType)
      /\ Len(Append(ps, Peer(u))) = Len(ps) + 1
      /\ \A k \in 1..Len(ps) : Append(ps, Peer(u))[k] = ps[k]
      /\ Append(ps, Peer(u))[Len(ps) + 1] = Peer(u)
  BY <1>3, AppendProperties
<1>5. /\ Len(ps) \in Nat /\ DOMAIN ps = 1..Len(ps)
      /\ DOMAIN Append(ps, Peer(u)) = 1..(Len(ps) + 1)
  BY <1>3, <1>4, LenProperties
<1>6. /\ t.peers = Append(ps, Peer(u))
      /\ t.name = torrents[id].name /\ t.owner = torrents[id].owner
  BY <1>2 DEF Torrent
<1>7. /\ DOMAIN ts2 = DOMAIN torrents
      /\ ts2[id] = t
      /\ \A k \in DOMAIN torrents : k # id => ts2[k] = torrents[k]
  <2>1. ts2 = [torrents EXCEPT ![id] = t]
    BY <1>1, <1>2
  <2> HIDE DEF t
  <2> QED
    BY <2>1
<1> DEFINE qs == Append(ps, Peer(u))
<1>8. ts2[id].peers = qs /\ torrents[id].peers = ps
  BY <1>6, <1>7
<1>9. /\ DOMAIN qs = 1..(Len(ps) + 1) /\ DOMAIN ps = 1..Len(ps)
      /\ Len(ps) \in Nat
      /\ \A k \in DOMAIN ps : k \in DOMAIN qs /\ qs[k] = ps[k]
      /\ Len(ps) + 1 \in DOMAIN qs
      /\ qs[Len(ps) + 1].user = u
  BY <1>4, <1>5 DEF Peer
<1> HIDE DEF t, ps, qs
<1>10. Listed(ts2, id, u)
  BY <1>8, <1>9 DEF Listed
<1>11. \A v : Listed(torrents, id, v) => Listed(ts2, id, v)
  <2>1. TAKE v
  <2>2. HAVE Listed(torrents, id, v)
  <2>3. PICK k \in DOMAIN ps : ps[k].user = v
    BY <1>8, <2>2 DEF Listed
  <2>4. k \in DOMAIN qs /\ qs[k].user = v
    BY <1>9, <2>3
  <2> QED
    BY <1>8, <2>4 DEF Listed
<1>12. Grows(torrents, ts2)
  <2>1. ASSUME NEW k \in DOMAIN torrents
        PROVE  /\ ts2[k].name = torrents[k].name
               /\ ts2[k].owner = torrents[k].owner
               /\ \A v \in Users : Listed(torrents, k, v) => Listed(ts2, k, v)
    <3>1. CASE k = id
      BY <1>6, <1>7, <1>11, <3>1
    <3>2. CASE k # id
      BY <1>7, <3>2 DEF Listed
    <3> QED
      BY <3>1, <3>2
  <2> QED
    BY <1>7, <2>1 DEF Grows
<1> QED
  BY <1>10, <1>12

(* Every promise about the torrents survives. *)
LEMMA TalkGrows ==
  ASSUME NEW u \in Users, NEW a, NEW b, NEW s, NEW k, NEW g, NEW ts, NEW ts2,
         Grows(ts, ts2), Talk(u, a, b, s, k, g, ts)
  PROVE  Talk(u, a, b, s, k, g, ts2)
<1>1. /\ \A id, n : Own(ts, id, n, u) => Own(ts2, id, n, u)
      /\ \A id \in DOMAIN ts : id \in DOMAIN ts2
      /\ \A id \in DOMAIN ts : Listed(ts, id, u) => Listed(ts2, id, u)
  BY DEF Grows, Own
<1> QED
  BY <1>1 DEF Talk

-----------------------------------------------------------------------------
(* Serving a request *)

(* The request that is read was all there was in the connection. *)
LEMMA Taken ==
  ASSUME Typed, NEW i \in Slot, NEW t \in 12..16, Request(i, t),
         ChannelOK(fd[i])
  PROVE  /\ fd[i] \in Conn /\ fd[i][1] \in Users
         /\ Tail(up[fd[i]]) = <<>>
         /\ up' = [up EXCEPT ![fd[i]] = <<>>]
         /\ down[fd[i]] = <<>>
         /\ ~Live(fd[i]) => fd[i] \in closed
         /\ Live(fd[i]) =>
              LET u == fd[i][1]
              IN  /\ t = 12 => /\ cpc[u] = "wait21"
                               /\ ask[u].name \in Names
                               /\ ask[u].name = Parameter(i)
                               /\ got[u] = <<>>
                  /\ t = 13 => cpc[u] = "wait31"
                  /\ t = 14 => cpc[u] = "wait41" /\ got[u] = <<>>
                  /\ t = 15 => cpc[u] = "wait51"
                  /\ t = 16 => /\ cpc[u] = "file"
                               /\ ask[u].id = Parameter(i)
                               /\ ask[u].id \in DOMAIN torrents
<1> DEFINE c == fd[i]
           u == fd[i][1]
<1>1. /\ c \in Conn /\ u \in Users /\ up[c] # <<>> /\ Head(up[c]).type = t
      /\ up' = [up EXCEPT ![c] = Tail(@)]
  BY ServedSlot DEF Request, Typed
<1>2. /\ up[c] \in Seq(UpMsg(Len(torrents)))
      /\ Head(up[c]) = up[c][1] /\ 1 \in DOMAIN up[c]
  BY <1>1, HeadType, LenProperties DEF Typed, WireTyped
<1>3. Len(up[c]) = 1 => Tail(up[c]) = <<>>
  BY <1>2, OneTail
<1>4. ~Blocks(up[c])
  BY <1>1, <1>2 DEF Blocks
<1>5. Parameter(i) = up[c][1].val
  BY <1>2 DEF Parameter
<1> HIDE DEF c, u
<1>6. CASE ~Live(c)
  <2>1. down[c] = <<>> /\ c \in closed /\ Tail(up[c]) = <<>>
    BY <1>1, <1>3, <1>4, <1>6 DEF ChannelOK, c
  <2> QED
    BY <1>1, <1>6, <2>1 DEF c, u
<1>7. CASE Live(c)
  <2>1. Talk(u, up[c], down[c], cpc[u], ask[u], got[u], torrents)
    BY <1>7 DEF ChannelOK, c, u
  <2>2. cpc[u] \in {"wait21", "body", "wait51", "wait41", "file", "wait31"}
    BY <1>1, <1>7 DEF Live, Typed, ClientTyped, States, c, u
  <2>3. One(up[c], 12) \/ One(up[c], 13) \/ One(up[c], 14) \/ One(up[c], 15)
          \/ One(up[c], 16)
    BY <1>1, <1>4, <2>1, <2>2 DEF Talk
  <2>4. One(up[c], t) /\ \A r : One(up[c], r) => r = t
    BY <1>1, <1>2, <2>3 DEF One
  <2>5. Tail(up[c]) = <<>>
    BY <1>3, <2>4 DEF One
  <2>6. down[c] = <<>>
    BY <1>1, <1>4, <2>1, <2>2 DEF Talk
  <2>7. /\ t = 12 => /\ cpc[u] = "wait21"
                     /\ ask[u].name \in Names
                     /\ ask[u].name = Parameter(i)
                     /\ got[u] = <<>>
        /\ t = 13 => cpc[u] = "wait31"
        /\ t = 14 => cpc[u] = "wait41" /\ got[u] = <<>>
        /\ t = 15 => cpc[u] = "wait51"
        /\ t = 16 => /\ cpc[u] = "file"
                     /\ ask[u].id = Parameter(i)
                     /\ ask[u].id \in DOMAIN torrents
    BY <1>1, <1>4, <1>5, <2>1, <2>2, <2>4 DEF Talk
  <2> QED
    BY <1>1, <1>7, <2>5, <2>6, <2>7 DEF c, u
<1> QED
  BY <1>6, <1>7

LEMMA BlocksAppend ==
  ASSUME NEW S, NEW s \in Seq(S), NEW m, m.type = 0, Blocks(s)
  PROVE  Blocks(Append(s, m))
<1>1. s \in Seq(S \union {m}) /\ m \in S \union {m}
  BY SeqMonotonic
<1>2. /\ DOMAIN Append(s, m) = 1..(Len(s) + 1) /\ DOMAIN s = 1..Len(s)
      /\ Len(s) \in Nat
      /\ \A k \in 1..Len(s) : Append(s, m)[k] = s[k]
      /\ Append(s, m)[Len(s) + 1] = m
  BY <1>1, AppendProperties, LenProperties
<1> QED
  BY <1>2 DEF Blocks

LEMMA BodyStep ==
  ASSUME Inv, Next
  PROVE  BodyOK'
<1>1. /\ Typed /\ CountsOK /\ TableOK /\ TypedIn /\ BodyOK
      /\ \A c \in Conn : ChannelOK(c)
  BY DEF Inv, Typed
<1>2. CASE Accept \/ Looks \/ Disconnect \/ Answers \/ ReadyToReceive
  <2>1. spc' # "body"
    BY <1>2
    DEF Accept, Looks, Disconnect, Answers, ReadyToReceive, StartScan, EndScan,
        ServerDies, TorrentList, DownloadTorrent, RequestPeerlist, Request,
        Serving
  <2> QED
    BY <2>1 DEF BodyOK
<1>3. CASE UploadTorrentInfo
  <2>1. PICK i \in Slot :
          /\ Request(i, 12)
          /\ torrents' = Append(torrents, [name |-> Parameter(i),
                                           owner |-> fd[i][1],
                                           peers |-> <<Peer(fd[i][1])>>])
          /\ received' = 0
          /\ at' = i
          /\ UNCHANGED <<fd, client>>
    BY <1>3 DEF UploadTorrentInfo
  <2>2. fd[i] \in Conn /\ fd[i][1] \in Users
    BY <1>1, <2>1, ServedSlot DEF Request, Typed
  <2>3. /\ up' = [up EXCEPT ![fd[i]] = <<>>]
        /\ Live(fd[i]) => cpc[fd[i][1]] = "wait21"
    BY <1>1, <2>1, <2>2, Taken
  <2>4. torrents' # <<>>
    <3>1. torrents' \in Seq(Torrent)
      BY <1>1, <1>3, UploadTyped DEF Typed, ServerTyped
    <3> QED
      BY <1>1, <2>1, <2>2, <3>1, UploadGrows DEF Typed, ServerTyped
  <2>5. Blocks(up'[fd[i]])
    <3>1. up'[fd[i]] = <<>>
      BY <1>1, <2>2, <2>3 DEF Typed, WireTyped
    <3> QED
      BY <3>1 DEF Blocks
  <2>6. received' < Size
    BY <2>1 DEF TrackerAssumption
  <2> QED
    BY <2>1, <2>2, <2>3, <2>4, <2>5, <2>6 DEF BodyOK, Live, client
<1>4. CASE RecvBody
  <2> DEFINE c == fd[at]
  <2>1. /\ spc = "body" /\ up[c] # <<>>
        /\ up' = [up EXCEPT ![c] = Tail(@)]
        /\ received' = received + 1
        /\ IF received + 1 = Size THEN spc' = "scan" /\ at' = at + 1
                                  ELSE UNCHANGED <<spc, at>>
        /\ UNCHANGED <<fd, torrents, client>>
    BY <1>4 DEF RecvBody
  <2>2. /\ at \in Slot /\ c \in Conn /\ torrents # <<>> /\ received < Size
        /\ Blocks(up[c])
        /\ Live(c) => cpc[c[1]] \in {"wait21", "body"}
    BY <1>1, <2>1 DEF BodyOK
  <2>3. Blocks(Tail(up[c]))
    <3>1. up[c] \in Seq(UpMsg(Len(torrents)))
      BY <1>1, <2>2 DEF Typed, WireTyped
    <3>2. \A k \in DOMAIN Tail(up[c]) :
            k + 1 \in DOMAIN up[c] /\ Tail(up[c])[k] = up[c][k + 1]
      BY <2>1, <3>1, HeadType
    <3> QED
      BY <2>2, <3>2 DEF Blocks
  <2>4. Blocks(up'[c])
    BY <1>1, <2>1, <2>2, <2>3 DEF Typed, WireTyped
  <2>5. CASE received + 1 = Size
    BY <2>1, <2>5 DEF BodyOK
  <2>6. CASE received + 1 # Size
    <3>1. received' < Size
      BY <1>1, <2>1, <2>2, <2>6 DEF Typed, ServerTyped, TrackerAssumption
    <3>2. UNCHANGED <<at, fd, torrents, cpc, cmds>>
      BY <2>1, <2>6 DEF client
    <3> QED
      BY <2>2, <2>4, <3>1, <3>2 DEF BodyOK, Live
  <2> QED
    BY <2>5, <2>6
<1>5. CASE BodyCut
  BY <1>5 DEF BodyCut, BodyOK
(* The steps of the clients, when the tracker receives from connection c. *)
<1>6. ASSUME UNCHANGED <<spc, at, fd, torrents, received>>,
             \A c \in Conn : c = fd[at] /\ spc = "body" =>
               \/ /\ up'[c] = up[c]
                  /\ Live(c)' => Live(c)
                  /\ cpc'[c[1]] = cpc[c[1]]
               \/ /\ Blocks(up'[c])
                  /\ Live(c)' => cpc'[c[1]] \in {"wait21", "body"}
      PROVE  BodyOK'
  <2> SUFFICES ASSUME spc = "body" PROVE BodyOK'
    BY <1>6 DEF BodyOK
  <2>1. PICK c \in Conn : c = fd[at]
    BY <1>1 DEF BodyOK
  <2>2. /\ at \in Slot /\ torrents # <<>> /\ received < Size
        /\ Blocks(up[c])
        /\ Live(c) => cpc[c[1]] \in {"wait21", "body"}
    BY <1>1, <2>1 DEF BodyOK
  <2>3. /\ Blocks(up'[c])
        /\ Live(c)' => cpc'[c[1]] \in {"wait21", "body"}
    BY <1>6, <2>1, <2>2
  <2>4. UNCHANGED <<at, fd, torrents, received>>
    BY <1>6
  <2>5. c = fd'[at']
    BY <2>1, <2>4
  <2> QED
    BY <2>2, <2>3, <2>4, <2>5 DEF BodyOK, Live
<1>7. ASSUME NEW u \in Users, Types(u) PROVE BodyOK'
  <2> DEFINE new == <<u, cmds[u] + 1>>
  <2>1. PICK t, x, wait : Command(u, t, x, wait)
    BY <1>1, <1>7, CommandKind
  <2>2. /\ cmds[u] < MaxCmds[u]
        /\ cmds' = [cmds EXCEPT ![u] = @ + 1]
        /\ up' = [up EXCEPT ![new] = <<Msg(t, x)>>]
        /\ cpc' = [cpc EXCEPT ![u] = wait]
        /\ UNCHANGED <<spc, at, fd, torrents, received>>
    BY <2>1 DEF Command, server
  <2>3. cmds[u] \in Nat /\ new[1] = u /\ new[2] = cmds[u] + 1 /\ new \in Conn
    BY <1>1, <2>2, NewSock, ConnMember
  <2> SUFFICES ASSUME NEW c \in Conn, c = fd[at], spc = "body"
      PROVE \/ /\ up'[c] = up[c]
               /\ Live(c)' => Live(c)
               /\ cpc'[c[1]] = cpc[c[1]]
            \/ /\ Blocks(up'[c])
               /\ Live(c)' => cpc'[c[1]] \in {"wait21", "body"}
    BY <1>6, <2>2
  <2>4. at \in Slot /\ Blocks(up[c])
    BY <1>1 DEF BodyOK
  <2>5. c[2] <= cmds[c[1]] /\ c[1] \in Users /\ c[2] \in Nat
    BY <1>1, <2>4, ConnMember DEF TypedIn
  <2>6. c # new
    BY <2>3, <2>5
  <2> HIDE DEF new
  <2>7. up'[c] = up[c]
    BY <1>1, <2>2, <2>3, <2>4, <2>6 DEF Typed, WireTyped
  <2>8. CASE c[1] = u
    <3>1. cmds'[u] = cmds[u] + 1
      BY <1>1, <2>2 DEF Typed, ClientTyped
    <3>2. ~(Live(c)')
      BY <2>3, <2>5, <2>8, <3>1 DEF Live
    <3> QED
      BY <2>4, <2>7, <3>2
  <2>9. CASE c[1] # u
    <3>1. cmds'[c[1]] = cmds[c[1]] /\ cpc'[c[1]] = cpc[c[1]]
      BY <1>1, <2>2, <2>5, <2>9 DEF Typed, ClientTyped
    <3>2. Live(c)' => Live(c)
      BY <3>1 DEF Live
    <3> QED
      BY <2>7, <3>1, <3>2
  <2> QED
    BY <2>8, <2>9
<1>8. ASSUME NEW u \in Users, Works(u) PROVE BodyOK'
  <2>1. Busy(u) /\ Sock(u) \in Conn /\ Live(Sock(u)) /\ Sock(u)[1] = u
    BY <1>1, <1>8, WorksBusy, SockLive
  <2>2. Frame(u)
    BY <1>1, <1>8, <2>1, WorksFrame
  <2>3. UNCHANGED <<spc, at, fd, torrents, received, cmds>>
    BY <2>2 DEF Frame, server
  <2> SUFFICES ASSUME NEW c \in Conn, c = fd[at], spc = "body"
      PROVE \/ /\ up'[c] = up[c]
               /\ Live(c)' => Live(c)
               /\ cpc'[c[1]] = cpc[c[1]]
            \/ /\ Blocks(up'[c])
               /\ Live(c)' => cpc'[c[1]] \in {"wait21", "body"}
    BY <1>6, <2>3
  <2>4. /\ at \in Slot /\ Blocks(up[c])
        /\ Live(c) => cpc[c[1]] \in {"wait21", "body"}
    BY <1>1 DEF BodyOK
  <2>5. c[1] \in Users /\ c = <<c[1], c[2]>>
    BY <2>4, ConnMember
  <2>6. CASE c[1] # u
    <3>1. up'[c] = up[c] /\ cpc'[c[1]] = cpc[c[1]]
      BY <2>1, <2>2, <2>4, <2>5, <2>6 DEF Frame
    <3>2. Live(c)' => Live(c)
      BY <2>3, <3>1 DEF Live
    <3> QED
      BY <3>1, <3>2
  <2>7. CASE c[1] = u /\ c # Sock(u)
    <3>1. up'[c] = up[c]
      BY <2>2, <2>4, <2>7 DEF Frame
    <3>2. ~(Live(c)')
      BY <2>3, <2>5, <2>7 DEF Live, Sock
    <3> QED
      BY <2>4, <3>1, <3>2
  <2>8. CASE c = Sock(u)
    <3>1. cpc[u] \in {"wait21", "body"}
      BY <2>1, <2>4, <2>8
    <3>2. CASE Accepted(u)
      <4>1. up' = up /\ cpc' = [cpc EXCEPT ![u] = "body"]
        BY <3>2 DEF Accepted
      <4>2. cpc'[u] = "body"
        BY <1>1, <4>1 DEF Typed, ClientTyped
      <4> QED
        BY <2>1, <2>4, <2>8, <4>1, <4>2
    <3>3. CASE SendBlock(u)
      <4>1. /\ cpc[u] = "body"
            /\ \E m : m.type = 0 /\ up' = [up EXCEPT ![Sock(u)] = Append(@, m)]
            /\ Ends(u, "menu") \/ cpc' = cpc
        BY <3>3 DEF SendBlock, CloseSocket, Msg
      <4>2. PICK m : m.type = 0 /\ up' = [up EXCEPT ![Sock(u)] = Append(@, m)]
        BY <4>1
      <4>3. up'[c] = Append(up[c], m)
        BY <1>1, <2>4, <2>8, <4>2 DEF Typed, WireTyped
      <4>4. Blocks(up'[c])
        BY <1>1, <2>4, <4>2, <4>3, BlocksAppend DEF Typed, WireTyped
      <4>5. CASE Ends(u, "menu")
        <5>1. cpc'[u] = "menu"
          BY <1>1, <4>5, EndsFrame
        <5> QED
          BY <2>1, <2>8, <4>4, <5>1 DEF Live
      <4>6. CASE cpc' = cpc
        BY <2>1, <2>8, <3>1, <4>4, <4>6
      <4> QED
        BY <4>1, <4>5, <4>6
    <3>4. CASE Quits(u)
      <4>1. /\ up' = up
            /\ Ends(u, "menu") \/ Ends(u, "dead")
        BY <3>4, QuitEnds
      <4>2. cpc'[u] \in {"menu", "dead"}
        BY <1>1, <4>1, EndsFrame
      <4> QED
        BY <2>1, <2>4, <2>8, <4>1, <4>2 DEF Live
    <3>5. ~(AskForFile(u) \/ RecvFile(u) \/ FileCut(u) \/ StorePeers(u))
      BY <3>1 DEF AskForFile, RecvFile, FileCut, StorePeers, Answer
    <3> QED
      BY <1>8, <3>2, <3>3, <3>4, <3>5 DEF Works
  <2> QED
    BY <2>6, <2>7, <2>8
<1>9. ASSUME NEW u \in Users, NoTracker(u) PROVE BodyOK'
  <2>1. /\ cpc' = [cpc EXCEPT ![u] = "dead"]
        /\ UNCHANGED <<server, up, cmds>>
    BY <1>9 DEF NoTracker
  <2> SUFFICES ASSUME NEW c \in Conn, c = fd[at], spc = "body"
      PROVE /\ Blocks(up'[c])
            /\ Live(c)' => cpc'[c[1]] \in {"wait21", "body"}
    BY <1>6, <2>1 DEF server
  <2>2. /\ Blocks(up[c])
        /\ Live(c) => cpc[c[1]] \in {"wait21", "body"}
    BY <1>1 DEF BodyOK
  <2>3. \A v \in Users : cpc'[v] = cpc[v] \/ cpc'[v] = "dead"
    BY <1>1, <2>1 DEF Typed, ClientTyped
  <2>4. c[1] \in Users
    BY ConnMember
  <2>5. Live(c)' => Live(c) /\ cpc'[c[1]] = cpc[c[1]]
    BY <2>1, <2>3, <2>4 DEF Live
  <2> QED
    BY <2>1, <2>2, <2>5
<1> QED
  BY <1>2, <1>3, <1>4, <1>5, <1>7, <1>8, <1>9, NextCases DEF Bodies

-----------------------------------------------------------------------------
(* The connections *)

(* Connection c and its client as they were, the torrents grown. *)
LEMMA ChanKeep ==
  ASSUME NEW c \in Conn, ChannelOK(c), Grows(torrents, torrents'),
         cpc'[c[1]] = cpc[c[1]], cmds'[c[1]] = cmds[c[1]],
         ask'[c[1]] = ask[c[1]], got'[c[1]] = got[c[1]],
         up'[c] = up[c], down'[c] = down[c], closed \subseteq closed'
  PROVE  ChannelOK(c)'
<1>1. c[1] \in Users
  BY ConnMember
<1>2. Live(c)' <=> Live(c)
  BY DEF Live
<1>3. CASE Live(c)
  <2>1. Talk(c[1], up[c], down[c], cpc[c[1]], ask[c[1]], got[c[1]], torrents)
    BY <1>3 DEF ChannelOK
  <2>2. Talk(c[1], up[c], down[c], cpc[c[1]], ask[c[1]], got[c[1]], torrents')
    BY <1>1, <2>1, TalkGrows
  <2> QED
    BY <1>2, <1>3, <2>2 DEF ChannelOK
<1>4. CASE ~Live(c)
  BY <1>2, <1>4 DEF ChannelOK
<1> QED
  BY <1>3, <1>4

(* A connection that is and stays without a command. *)
LEMMA ChanIdle ==
  ASSUME NEW c \in Conn, ChannelOK(c), ~Live(c), ~(Live(c)'),
         up'[c] = up[c], down'[c] = down[c], closed \subseteq closed'
  PROVE  ChannelOK(c)'
  BY DEF ChannelOK

(* The connection of a command that ends. *)
LEMMA ChanEnd ==
  ASSUME NEW c \in Conn, ~(Live(c)'), down'[c] = <<>>, c \in closed',
         Blocks(up'[c]) \/ Len(up'[c]) = 1
  PROVE  ChannelOK(c)'
  BY DEF ChannelOK

(* The connection of a command under way. *)
LEMMA ChanLive ==
  ASSUME NEW c \in Conn, Live(c)',
         Talk(c[1], up'[c], down'[c], cpc'[c[1]], ask'[c[1]], got'[c[1]],
              torrents')
  PROVE  ChannelOK(c)'
  BY DEF ChannelOK

LEMMA ReplyOne ==
  ASSUME NEW t, NEW x, NEW s, s = <<Msg(t, x)>>
  PROVE  One(s, t) /\ s[1].val = x
<1>1. One(<<Msg(t, x)>>, t) /\ <<Msg(t, x)>>[1] = Msg(t, x) /\ Msg(t, x).val = x
  BY MsgFields
<1> QED
  BY <1>1, Zenon

LEMMA NoBlocks == Blocks(<<>>)
  BY DEF Blocks

(* What may lie in a connection after a step, state by state. *)
LEMMA TalkMakes ==
  ASSUME NEW u, NEW a, NEW b, NEW k, NEW g, NEW ts
  PROVE  /\ /\ k.name \in Names /\ g = <<>>
            /\ b = <<>> \/ (One(b, 21) /\ Own(ts, b[1].val, k.name, u))
            => Talk(u, <<>>, b, "wait21", k, g, ts)
         /\ /\ k.name \in Names /\ Len(g) < Size
            /\ Blocks(a) /\ Own(ts, k.id, k.name, u)
            => Talk(u, a, <<>>, "body", k, g, ts)
         /\ b = <<>> \/ One(b, 51) => Talk(u, <<>>, b, "wait51", k, g, ts)
         /\ /\ g = <<>>
            /\ b = <<>> \/ (One(b, 41) /\ b[1].val \in DOMAIN ts)
            => Talk(u, <<>>, b, "wait41", k, g, ts)
         /\ /\ k.id \in DOMAIN ts /\ Blocks(b)
            /\ b # <<>> \/ g # <<>> => Listed(ts, k.id, u)
            => Talk(u, <<>>, b, "file", k, g, ts)
         /\ /\ k.id \in DOMAIN ts /\ One(a, 16) /\ a[1].val = k.id
            /\ g = <<>>
            => Talk(u, a, <<>>, "file", k, g, ts)
         /\ b = <<>> \/ One(b, 31) => Talk(u, <<>>, b, "wait31", k, g, ts)
  BY DEF Talk

(* A reply in a connection from which everything has been read. *)
LEMMA ReplyPut ==
  ASSUME Typed, NEW i \in Slot, fd[i] \in Conn, down[fd[i]] = <<>>,
         ~Live(fd[i]) => fd[i] \in closed, NEW m, Reply(i, m)
  PROVE  /\ ~Live(fd[i]) => down'[fd[i]] = <<>>
         /\ down'[fd[i]] = <<>> \/ down'[fd[i]] = <<m>>
         /\ \A c \in Conn : c # fd[i] => down'[c] = down[c]
<1>1. Append(<<>>, m) = <<m>>
  OBVIOUS
<1> QED
  BY <1>1 DEF Reply, Asker, Typed, WireTyped

(* The three replies that change nothing else. *)
LEMMA AnswersChan ==
  ASSUME Inv, Answers, NEW c \in Conn
  PROVE  ChannelOK(c)'
<1>1. Typed /\ \A d \in Conn : ChannelOK(d)
  BY DEF Inv, Typed
<1>2. PICK i \in Slot :
        \/ /\ Request(i, 15)
           /\ Reply(i, Msg(51, Len(torrents)))
        \/ /\ Request(i, 14)
           /\ Parameter(i) \in DOMAIN torrents
           /\ Reply(i, Msg(41, Parameter(i)))
        \/ /\ Request(i, 13)
           /\ Reply(i, Msg(31, [id |-> Parameter(i),
                                peers |-> torrents[Parameter(i)].peers]))
  BY DEF Answers, TorrentList, DownloadTorrent, RequestPeerlist
<1>3. UNCHANGED <<torrents, closed, cpc, cmds, ask, got>>
  BY DEF Answers, TorrentList, DownloadTorrent, RequestPeerlist, client
<1>4. PICK t \in {13, 14, 15} : Request(i, t)
  BY <1>2
<1>5. t \in 12..16 /\ fd[i] \in Conn
  BY <1>1, <1>4, ServedSlot DEF Request, Typed
<1>6. /\ up' = [up EXCEPT ![fd[i]] = <<>>]
      /\ down[fd[i]] = <<>>
      /\ ~Live(fd[i]) => fd[i] \in closed
  BY <1>1, <1>4, <1>5, Taken
<1>7. \E m : Reply(i, m)
  BY <1>2
<1>8. CASE c # fd[i]
  <2>1. up'[c] = up[c] /\ down'[c] = down[c]
    BY <1>1, <1>5, <1>6, <1>7, <1>8, ReplyPut DEF Typed, WireTyped
  <2> QED
    BY <1>1, <1>3, <2>1, GrowsSame, ChanKeep
<1>9. CASE c = fd[i]
  <2>1. up'[c] = <<>> /\ c[1] \in Users /\ (Live(c)' <=> Live(c))
    BY <1>1, <1>3, <1>5, <1>6, <1>9, ConnMember DEF Typed, WireTyped, Live
  <2>2. CASE ~Live(c)
    <3>1. down'[c] = <<>>
      BY <1>1, <1>5, <1>6, <1>7, <1>9, <2>2, ReplyPut
    <3> QED
      BY <1>3, <1>6, <1>9, <2>1, <2>2, <3>1 DEF ChannelOK, Blocks
  <2>3. CASE Live(c)
    <3> SUFFICES Talk(c[1], <<>>, down'[c], cpc[c[1]], ask[c[1]], got[c[1]],
                      torrents)
      BY <1>3, <2>1, <2>3, ChanLive
    <3>1. CASE Request(i, 15) /\ Reply(i, Msg(51, Len(torrents)))
      <4>1. cpc[c[1]] = "wait51"
        BY <1>1, <1>5, <1>9, <2>3, <3>1, Taken
      <4>2. down'[c] = <<>> \/ down'[c] = <<Msg(51, Len(torrents))>>
        BY <1>1, <1>5, <1>6, <1>9, <3>1, ReplyPut
      <4>3. down'[c] = <<>> \/ One(down'[c], 51)
        <5>1. CASE down'[c] = <<Msg(51, Len(torrents))>>
          BY <5>1, ReplyOne
        <5> QED
          BY <4>2, <5>1
      <4> QED
        BY <4>1, <4>3, TalkMakes, Zenon
    <3>2. CASE Request(i, 14) /\ Parameter(i) \in DOMAIN torrents
                /\ Reply(i, Msg(41, Parameter(i)))
      <4>1. cpc[c[1]] = "wait41" /\ got[c[1]] = <<>>
        BY <1>1, <1>5, <1>9, <2>3, <3>2, Taken
      <4>2. down'[c] = <<>> \/ down'[c] = <<Msg(41, Parameter(i))>>
        BY <1>1, <1>5, <1>6, <1>9, <3>2, ReplyPut
      <4>3. \/ down'[c] = <<>>
            \/ One(down'[c], 41) /\ down'[c][1].val = Parameter(i)
        <5>1. CASE down'[c] = <<Msg(41, Parameter(i))>>
          BY <5>1, ReplyOne
        <5> QED
          BY <4>2, <5>1
      <4>4. \/ down'[c] = <<>>
            \/ One(down'[c], 41) /\ down'[c][1].val \in DOMAIN torrents
        BY <3>2, <4>3, Zenon
      <4> QED
        BY <4>1, <4>4, TalkMakes, Zenon
    <3>3. CASE Request(i, 13)
                /\ Reply(i, Msg(31, [id |-> Parameter(i),
                                     peers |-> torrents[Parameter(i)].peers]))
      <4>1. cpc[c[1]] = "wait31"
        BY <1>1, <1>5, <1>9, <2>3, <3>3, Taken
      <4>2. PICK x : Reply(i, Msg(31, x))
        BY <3>3
      <4>3. down'[c] = <<>> \/ down'[c] = <<Msg(31, x)>>
        BY <1>1, <1>5, <1>6, <1>9, <4>2, ReplyPut
      <4>4. down'[c] = <<>> \/ One(down'[c], 31)
        <5>1. CASE down'[c] = <<Msg(31, x)>>
          BY <5>1, ReplyOne
        <5> QED
          BY <4>3, <5>1
      <4> QED
        BY <4>1, <4>4, TalkMakes
    <3> QED
      BY <1>2, <3>1, <3>2, <3>3
  <2> QED
    BY <2>2, <2>3
<1> QED
  BY <1>8, <1>9

LEMMA UploadChan ==
  ASSUME Inv, UploadTorrentInfo, NEW c \in Conn
  PROVE  ChannelOK(c)' /\ Grows(torrents, torrents')
<1>1. Typed /\ TableOK /\ \A d \in Conn : ChannelOK(d)
  BY DEF Inv, Typed
<1>2. PICK i \in Slot :
        /\ Request(i, 12)
        /\ torrents' = Append(torrents, [name |-> Parameter(i),
                                         owner |-> fd[i][1],
                                         peers |-> <<Peer(fd[i][1])>>])
        /\ Reply(i, Msg(21, NextId))
        /\ UNCHANGED <<closed, cpc, cmds, ask, got>>
  BY DEF UploadTorrentInfo, client
<1>3. 12 \in 12..16 /\ fd[i] \in Conn /\ fd[i][1] \in Users
  BY <1>1, <1>2, ServedSlot DEF Request, Typed
<1>4. /\ up' = [up EXCEPT ![fd[i]] = <<>>]
      /\ down[fd[i]] = <<>>
      /\ ~Live(fd[i]) => fd[i] \in closed
      /\ Live(fd[i]) => /\ cpc[fd[i][1]] = "wait21"
                        /\ ask[fd[i][1]].name \in Names
                        /\ ask[fd[i][1]].name = Parameter(i)
                        /\ got[fd[i][1]] = <<>>
  BY <1>1, <1>2, <1>3, Taken
<1>5. torrents' \in Seq(Torrent) /\ torrents \in Seq(Torrent)
  BY <1>1, UploadTyped DEF Typed, ServerTyped
<1>6. /\ Grows(torrents, torrents')
      /\ Own(torrents', NextId, Parameter(i), fd[i][1])
  BY <1>1, <1>2, <1>3, <1>5, UploadGrows DEF NextId
<1>7. CASE c # fd[i]
  <2>1. up'[c] = up[c] /\ down'[c] = down[c]
    BY <1>1, <1>2, <1>3, <1>4, <1>7, ReplyPut DEF Typed, WireTyped
  <2> QED
    BY <1>1, <1>2, <1>6, <2>1, ChanKeep
<1>8. CASE c = fd[i]
  <2>1. up'[c] = <<>> /\ (Live(c)' <=> Live(c))
    BY <1>1, <1>2, <1>3, <1>4, <1>8 DEF Typed, WireTyped, Live
  <2>2. /\ ~Live(c) => down'[c] = <<>>
        /\ down'[c] = <<>> \/ down'[c] = <<Msg(21, NextId)>>
    BY <1>1, <1>2, <1>3, <1>4, <1>8, ReplyPut
  <2>3. UNCHANGED <<closed, cpc, ask, got>>
    BY <1>2
  <2>4. CASE ~Live(c)
    <3>1. Blocks(up'[c])
      BY <2>1, NoBlocks, Zenon
    <3>2. down'[c] = <<>> /\ c \in closed' /\ ~(Live(c)')
      BY <1>4, <1>8, <2>1, <2>2, <2>3, <2>4
    <3> QED
      BY <1>6, <3>1, <3>2, ChanEnd
  <2>5. CASE Live(c)
    <3>1. ask[fd[i][1]].name = Parameter(i)
      BY <1>4, <1>8, <2>5
    <3>2. \/ down'[c] = <<>>
          \/ One(down'[c], 21) /\ down'[c][1].val = NextId
      <4>1. CASE down'[c] = <<Msg(21, NextId)>>
        BY <4>1, ReplyOne
      <4> QED
        BY <2>2, <4>1
    <3>3. \/ down'[c] = <<>>
          \/ One(down'[c], 21) /\ Own(torrents', down'[c][1].val, ask[c[1]].name, c[1])
      BY <1>6, <1>8, <3>1, <3>2, Zenon
    <3>4. /\ cpc[c[1]] = "wait21" /\ ask[c[1]].name \in Names
          /\ got[c[1]] = <<>>
      BY <1>4, <1>8, <2>5
    <3>5. Talk(c[1], <<>>, down'[c], "wait21", ask[c[1]], got[c[1]], torrents')
      BY <3>3, <3>4, TalkMakes, Zenon
    <3>6. Talk(c[1], up'[c], down'[c], cpc'[c[1]], ask'[c[1]], got'[c[1]],
               torrents')
      BY <2>1, <2>3, <3>4, <3>5, Zenon
    <3> QED
      BY <1>6, <2>1, <2>5, <3>6, ChanLive
  <2> QED
    BY <1>6, <2>4, <2>5
<1> QED
  BY <1>6, <1>7, <1>8

LEMMA BodiesChan ==
  ASSUME Inv, Bodies, NEW c \in Conn
  PROVE  ChannelOK(c)'
<1>1. Typed /\ BodyOK /\ ChannelOK(c)
  BY DEF Inv, Typed
<1>2. UNCHANGED <<torrents, closed, down, cpc, cmds, ask, got>>
  BY DEF Bodies, RecvBody, BodyCut, client
<1>3. CASE up'[c] = up[c]
  BY <1>1, <1>2, <1>3, GrowsSame, ChanKeep
<1>4. CASE up'[c] # up[c]
  <2>1. /\ spc = "body" /\ up[fd[at]] # <<>>
        /\ up' = [up EXCEPT ![fd[at]] = Tail(@)]
    BY <1>4 DEF Bodies, RecvBody, BodyCut
  <2>2. c = fd[at]
    BY <1>1, <1>4, <2>1 DEF Typed, WireTyped
  <2>3. /\ Blocks(up[c]) /\ up[c] # <<>> /\ up[c] \in Seq(UpMsg(Len(torrents)))
        /\ Live(c) => cpc[c[1]] \in {"wait21", "body"}
    BY <1>1, <2>1, <2>2 DEF BodyOK, Typed, WireTyped
  <2>4. up'[c] = Tail(up[c])
    BY <1>1, <2>1, <2>2 DEF Typed, WireTyped
  <2>5. /\ 1 \in DOMAIN up[c]
        /\ \A k \in DOMAIN Tail(up[c]) :
             k + 1 \in DOMAIN up[c] /\ Tail(up[c])[k] = up[c][k + 1]
    BY <2>3, HeadType, LenProperties
  <2>6. Blocks(up'[c]) /\ ~One(up[c], 12)
    BY <2>3, <2>4, <2>5 DEF Blocks, One
  <2>7. Live(c)' <=> Live(c)
    BY <1>2 DEF Live
  <2>8. CASE ~Live(c)
    BY <1>1, <1>2, <2>3, <2>6, <2>7, <2>8 DEF ChannelOK
  <2>9. CASE Live(c)
    <3>1. Talk(c[1], up[c], down[c], cpc[c[1]], ask[c[1]], got[c[1]], torrents)
      BY <1>1, <2>9 DEF ChannelOK
    <3>2. cpc[c[1]] = "body"
      BY <2>3, <2>6, <2>9, <3>1 DEF Talk
    <3>3. Talk(c[1], up'[c], down[c], cpc[c[1]], ask[c[1]], got[c[1]], torrents)
      BY <2>6, <3>1, <3>2 DEF Talk
    <3> QED
      BY <1>2, <2>7, <2>9, <3>3 DEF ChannelOK
  <2> QED
    BY <2>8, <2>9
<1> QED
  BY <1>3, <1>4

LEMMA ReadyChan ==
  ASSUME Inv, ReadyToReceive, NEW c \in Conn
  PROVE  ChannelOK(c)' /\ Grows(torrents, torrents')
<1>1. Typed /\ TableOK /\ \A d \in Conn : ChannelOK(d)
  BY DEF Inv, Typed
<1>2. PICK i \in Slot :
        /\ Request(i, 16)
        /\ torrents' = [torrents EXCEPT ![Parameter(i)].peers =
                          Append(@, Peer(fd[i][1]))]
        /\ down' = IF fd[i] \in closed THEN down
                   ELSE [down EXCEPT ![fd[i]] =
                           @ \o [k \in DOMAIN files[torrents[Parameter(i)].name] |->
                                   Msg(0, files[torrents[Parameter(i)].name][k])]]
        /\ UNCHANGED <<closed, cpc, cmds, ask, got>>
  BY DEF ReadyToReceive, client
<1> DEFINE id == Parameter(i)
           file == files[torrents[id].name]
           sent == [k \in DOMAIN file |-> Msg(0, file[k])]
<1>3. 16 \in 12..16 /\ fd[i] \in Conn /\ fd[i][1] \in Users
  BY <1>1, <1>2, ServedSlot DEF Request, Typed
<1>4. /\ up' = [up EXCEPT ![fd[i]] = <<>>]
      /\ down[fd[i]] = <<>>
      /\ ~Live(fd[i]) => fd[i] \in closed
      /\ Live(fd[i]) => /\ cpc[fd[i][1]] = "file"
                        /\ ask[fd[i][1]].id = id
                        /\ ask[fd[i][1]].id \in DOMAIN torrents
  BY <1>1, <1>2, <1>3, Taken
<1>5. id \in DOMAIN torrents
  <2>1. /\ Len(torrents) \in Nat /\ DOMAIN torrents = 1..Len(torrents)
        /\ up[fd[i]] \in Seq(UpMsg(Len(torrents))) /\ up[fd[i]] # <<>>
        /\ Head(up[fd[i]]).type = 16
    BY <1>1, <1>2, <1>3, LenProperties
    DEF Request, Typed, ServerTyped, WireTyped
  <2>2. Head(up[fd[i]]) \in UpMsg(Len(torrents))
    BY <2>1, HeadType
  <2> QED
    BY <2>1, <2>2, UpValues DEF Parameter
<1>6. /\ Grows(torrents, torrents')
      /\ Listed(torrents', id, fd[i][1])
  <2>1. Peer(fd[i][1]) \in PeerType
    BY <1>1, <1>3, PeerTyped DEF Typed
  <2> QED
    BY <1>1, <1>2, <1>3, <1>5, <2>1, ReadyGrows
<1> HIDE DEF file
<1>7. \A d \in Conn : d # fd[i] => up'[d] = up[d] /\ down'[d] = down[d]
  BY <1>1, <1>2, <1>4 DEF Typed, WireTyped
<1>8. CASE c # fd[i]
  BY <1>1, <1>2, <1>6, <1>7, <1>8, ChanKeep
<1>9. CASE c = fd[i]
  <2>1. up'[c] = <<>> /\ c[1] \in Users /\ (Live(c)' <=> Live(c))
    BY <1>1, <1>2, <1>3, <1>4, <1>9 DEF Typed, WireTyped, Live
  <2>2. /\ c \in closed => down'[c] = <<>>
        /\ c \notin closed => down'[c] = <<>> \o sent
    BY <1>1, <1>2, <1>3, <1>4, <1>9 DEF Typed, WireTyped, file
  <2>3. Blocks(<<>> \o sent)
    <3>1. file \in Seq(Chunk)
      <4>1. torrents[id].name \in Names
        BY <1>1, <1>5, NameTyped
      <4> QED
        BY <1>1, <4>1 DEF Typed, ServerTyped, file
    <3>2. /\ Len(file) \in Nat /\ DOMAIN file = 1..Len(file)
          /\ \A k \in DOMAIN file : file[k] \in Chunk
      BY <3>1, LenProperties
    <3>3. sent \in [1..Len(file) -> DownMsg]
      BY <3>2, DownTypes
    <3>4. sent \in Seq(DownMsg) /\ <<>> \in Seq(DownMsg)
      BY <3>2, <3>3, SeqDef
    <3>5. <<>> \o sent = sent
      BY <3>4, ConcatEmptySeq
    <3>6. \A k \in DOMAIN sent : sent[k].type = 0
      BY MsgFields
    <3> QED
      BY <3>5, <3>6 DEF Blocks
  <2> HIDE DEF sent
  <2>4. UNCHANGED <<closed, cpc, ask, got>>
    BY <1>2
  <2>5. CASE ~Live(c)
    <3>1. Blocks(up'[c])
      BY <2>1, NoBlocks, Zenon
    <3>2. down'[c] = <<>> /\ c \in closed' /\ ~(Live(c)')
      BY <1>4, <1>9, <2>1, <2>2, <2>4, <2>5
    <3> QED
      BY <1>6, <3>1, <3>2, ChanEnd
  <2>6. CASE Live(c)
    <3>1. Blocks(down'[c])
      BY <2>2, <2>3, NoBlocks
    <3>2. ask[c[1]].id \in DOMAIN torrents' /\ Listed(torrents', ask[c[1]].id, c[1])
      BY <1>4, <1>5, <1>6, <1>9, <2>6 DEF Grows
    <3>3. Talk(c[1], <<>>, down'[c], "file", ask[c[1]], got[c[1]], torrents')
      BY <3>1, <3>2, TalkMakes
    <3>4. cpc[c[1]] = "file"
      BY <1>4, <1>9, <2>6
    <3>5. Talk(c[1], up'[c], down'[c], cpc'[c[1]], ask'[c[1]], got'[c[1]],
               torrents')
      BY <2>1, <2>4, <3>3, <3>4, Zenon
    <3> QED
      BY <1>6, <2>1, <2>6, <3>5, ChanLive
  <2> QED
    BY <1>6, <2>5, <2>6
<1> QED
  BY <1>6, <1>8, <1>9

(* What lies in the connection of a new command. *)
LEMMA TalkAsks ==
  ASSUME NEW u, NEW a, NEW k, NEW ts
  PROVE  /\ One(a, 12) /\ a[1].val = k.name /\ k.name \in Names
              => Talk(u, a, <<>>, "wait21", k, <<>>, ts)
         /\ One(a, 15) => Talk(u, a, <<>>, "wait51", k, <<>>, ts)
         /\ One(a, 14) => Talk(u, a, <<>>, "wait41", k, <<>>, ts)
         /\ One(a, 13) => Talk(u, a, <<>>, "wait31", k, <<>>, ts)
  BY DEF Talk

(* What a client has sent is one request or blocks. *)
LEMMA TalkUp ==
  ASSUME NEW u, NEW a, NEW b, NEW s \in States \ {"menu", "dead"}, NEW k,
         NEW g, NEW ts, Talk(u, a, b, s, k, g, ts)
  PROVE  Blocks(a) \/ Len(a) = 1
<1>1. a = <<>> => Blocks(a)
  BY DEF Blocks
<1>2. \A t : One(a, t) => Len(a) = 1
  BY DEF One
<1> QED
  BY <1>1, <1>2 DEF Talk, States

LEMMA CommandChan ==
  ASSUME Inv, NEW u \in Users, Types(u), NEW c \in Conn
  PROVE  ChannelOK(c)'
<1> DEFINE new == <<u, cmds[u] + 1>>
<1>1. Typed /\ ChannelOK(c)
  BY DEF Inv, Typed
<1>2. PICK t, x, wait : /\ Command(u, t, x, wait)
                        /\ <<t, wait>> \in Kinds
                        /\ t = 12 => x \in Names
  BY <1>1, CommandKind
<1>3. /\ cpc[u] = "menu" /\ cmds[u] < MaxCmds[u]
      /\ cmds' = [cmds EXCEPT ![u] = @ + 1]
      /\ up' = [up EXCEPT ![new] = <<Msg(t, x)>>]
      /\ ask' = [ask EXCEPT ![u].name = IF t = 12 THEN x ELSE None]
      /\ got' = [got EXCEPT ![u] = <<>>]
      /\ cpc' = [cpc EXCEPT ![u] = wait]
      /\ UNCHANGED <<torrents, down, closed>>
  BY <1>2 DEF Command, server
<1>4. /\ new \in Conn /\ cmds[u] \in Nat /\ new[1] = u /\ new[2] = cmds[u] + 1
  BY <1>1, <1>3, NewSock, ConnMember
<1>5. c[1] \in Users /\ c = <<c[1], c[2]>>
  BY ConnMember
<1>6. /\ cmds'[u] = cmds[u] + 1 /\ cpc'[u] = wait /\ got'[u] = <<>>
      /\ t = 12 => ask'[u].name = x
  BY <1>1, <1>3 DEF Typed, ClientTyped
<1>7. CASE c[1] # u
  <2>1. /\ cpc'[c[1]] = cpc[c[1]] /\ cmds'[c[1]] = cmds[c[1]]
        /\ ask'[c[1]] = ask[c[1]] /\ got'[c[1]] = got[c[1]]
    BY <1>1, <1>3, <1>5, <1>7 DEF Typed, ClientTyped
  <2>2. up'[c] = up[c]
    BY <1>1, <1>3, <1>4, <1>7 DEF Typed, WireTyped
  <2> QED
    BY <1>1, <1>3, <2>1, <2>2, GrowsSame, ChanKeep
<1>8. CASE c[1] = u /\ c # new
  <2>1. up'[c] = up[c]
    BY <1>1, <1>3, <1>4, <1>8 DEF Typed, WireTyped
  <2>2. ~Live(c) /\ ~(Live(c)')
    BY <1>3, <1>5, <1>6, <1>8 DEF Live
  <2> QED
    BY <1>1, <1>3, <2>1, <2>2, ChanIdle
<1>9. CASE c = new
  <2>1. ~Live(c) /\ down[c] = <<>>
    BY <1>1, <1>3, <1>4, <1>9 DEF Live, ChannelOK
  <2>2. Live(c)'
    BY <1>2, <1>4, <1>6, <1>9 DEF Live, Kinds
  <2>3. up'[c] = <<Msg(t, x)>> /\ down'[c] = <<>>
    BY <1>1, <1>3, <1>4, <1>9, <2>1 DEF Typed, WireTyped
  <2>4. One(up'[c], t) /\ up'[c][1].val = x
    BY <2>3, ReplyOne
  <2>5. Talk(u, up'[c], <<>>, wait, ask'[u], <<>>, torrents')
    <3>1. CASE t = 12 /\ wait = "wait21"
      <4>1. ask'[u].name = x /\ x \in Names
        BY <1>2, <1>6, <3>1
      <4> QED
        BY <2>4, <3>1, <4>1, TalkAsks
    <3>2. CASE t = 15 /\ wait = "wait51"
      BY <2>4, <3>2, TalkAsks
    <3>3. CASE t = 14 /\ wait = "wait41"
      BY <2>4, <3>3, TalkAsks
    <3>4. CASE t = 13 /\ wait = "wait31"
      BY <2>4, <3>4, TalkAsks
    <3> QED
      BY <1>2, <3>1, <3>2, <3>3, <3>4 DEF Kinds
  <2>6. c[1] = u
    BY <1>4, <1>9
  <2>7. Talk(c[1], up'[c], down'[c], cpc'[c[1]], ask'[c[1]], got'[c[1]],
             torrents')
    BY <1>6, <2>3, <2>5, <2>6, Zenon
  <2> QED
    BY <2>2, <2>7, ChanLive
<1> QED
  BY <1>7, <1>8, <1>9

(* The connection of the client at work, action by action. *)
LEMMA AcceptedChan ==
  ASSUME Inv, NEW u \in Users, Accepted(u), NEW c \in Conn, c = Sock(u)
  PROVE  ChannelOK(c)'
<1>1. Typed /\ CountsOK /\ ChannelOK(Sock(u))
  BY DEF Inv, Typed
<1>2. /\ Answer(u, "wait21")
      /\ down' = [down EXCEPT ![Sock(u)] = Tail(@)]
      /\ ask' = [ask EXCEPT ![u].id = Value(u)]
      /\ cpc' = [cpc EXCEPT ![u] = "body"]
      /\ UNCHANGED <<torrents, up, cmds, got>>
  BY DEF Accepted, server
<1>3. <<"wait21", 21>> \in Replies
  BY DEF Replies
<1>4. /\ Busy(u) /\ up[Sock(u)] = <<>> /\ One(down[Sock(u)], 21)
      /\ Head(down[Sock(u)]) = down[Sock(u)][1]
      /\ Tail(down[Sock(u)]) = <<>>
  BY <1>1, <1>2, <1>3, AnswerKind
<1>5. /\ Sock(u)[1] = u /\ Live(Sock(u)) /\ cpc[u] = "wait21"
      /\ down[Sock(u)] # <<>>
  BY <1>1, <1>2, <1>4, SockLive DEF Answer
<1>6. Talk(u, up[Sock(u)], down[Sock(u)], cpc[u], ask[u], got[u], torrents)
  BY <1>1, <1>4, SockTalk
<1>7. /\ ask[u].name \in Names /\ got[u] = <<>>
      /\ Own(torrents, Value(u), ask[u].name, u)
  BY <1>4, <1>5, <1>6 DEF Talk, Value, One
<1>8. /\ up'[c] = <<>> /\ down'[c] = <<>> /\ cpc'[u] = "body" /\ got'[u] = <<>>
      /\ ask'[u].name = ask[u].name /\ ask'[u].id = Value(u)
  BY <1>1, <1>2, <1>4, <1>7 DEF Typed, ClientTyped, WireTyped
<1>9. Len(<<>>) < Size
  BY DEF TrackerAssumption
<1>10. Talk(u, <<>>, <<>>, "body", ask'[u], <<>>, torrents)
  BY <1>7, <1>8, <1>9, NoBlocks, TalkMakes
<1>11. torrents' = torrents /\ c[1] = u
  BY <1>2, <1>5
<1>12. Talk(c[1], up'[c], down'[c], cpc'[c[1]], ask'[c[1]], got'[c[1]],
            torrents')
  BY <1>8, <1>10, <1>11, Zenon
<1>13. Live(c)'
  BY <1>2, <1>5, <1>8 DEF Live
<1> QED
  BY <1>12, <1>13, ChanLive

LEMMA AskChan ==
  ASSUME Inv, NEW u \in Users, AskForFile(u), NEW c \in Conn, c = Sock(u)
  PROVE  ChannelOK(c)'
<1>1. Typed /\ CountsOK /\ ChannelOK(Sock(u))
  BY DEF Inv, Typed
<1>2. /\ Answer(u, "wait41")
      /\ down' = [down EXCEPT ![Sock(u)] = Tail(@)]
      /\ ask' = [ask EXCEPT ![u].id = Value(u)]
      /\ up' = [up EXCEPT ![Sock(u)] = Append(@, Msg(16, Value(u)))]
      /\ cpc' = [cpc EXCEPT ![u] = "file"]
      /\ UNCHANGED <<torrents, cmds, got>>
  BY DEF AskForFile, server
<1>3. <<"wait41", 41>> \in Replies
  BY DEF Replies
<1>4. /\ Busy(u) /\ up[Sock(u)] = <<>> /\ One(down[Sock(u)], 41)
      /\ Head(down[Sock(u)]) = down[Sock(u)][1]
      /\ Tail(down[Sock(u)]) = <<>>
  BY <1>1, <1>2, <1>3, AnswerKind
<1>5. /\ Sock(u)[1] = u /\ Live(Sock(u)) /\ cpc[u] = "wait41"
      /\ down[Sock(u)] # <<>>
  BY <1>1, <1>2, <1>4, SockLive DEF Answer
<1>6. Talk(u, up[Sock(u)], down[Sock(u)], cpc[u], ask[u], got[u], torrents)
  BY <1>1, <1>4, SockTalk
<1>7. got[u] = <<>> /\ Value(u) \in DOMAIN torrents
  BY <1>4, <1>5, <1>6 DEF Talk, Value, One
<1>8. /\ up'[c] = Append(up[c], Msg(16, Value(u)))
      /\ down'[c] = <<>> /\ cpc'[u] = "file" /\ got'[u] = <<>>
      /\ ask'[u].id = Value(u)
  BY <1>1, <1>2, <1>4, <1>7 DEF Typed, ClientTyped, WireTyped
<1>9. up'[c] = <<Msg(16, Value(u))>>
  <2>1. \A m : Append(<<>>, m) = <<m>>
    OBVIOUS
  <2>2. up[c] = <<>>
    BY <1>4
  <2> QED
    BY <1>8, <2>1, <2>2, Zenon
<1>10. One(up'[c], 16) /\ up'[c][1].val = Value(u)
  BY <1>9, ReplyOne
<1>11. Talk(u, up'[c], <<>>, "file", ask'[u], <<>>, torrents)
  BY <1>7, <1>8, <1>10, TalkMakes
<1>12. torrents' = torrents /\ c[1] = u
  BY <1>2, <1>5
<1>13. Talk(c[1], up'[c], down'[c], cpc'[c[1]], ask'[c[1]], got'[c[1]],
            torrents')
  BY <1>8, <1>11, <1>12, Zenon
<1>14. Live(c)'
  BY <1>2, <1>5, <1>8 DEF Live
<1> QED
  BY <1>13, <1>14, ChanLive

(* A command that ends leaves one request or blocks behind. *)
LEMMA EndsChan ==
  ASSUME Typed, NEW u \in Users, NEW c \in Conn, c = Sock(u), c[1] = u,
         NEW next \in {"menu", "dead"}, Ends(u, next),
         Blocks(up'[c]) \/ Len(up'[c]) = 1
  PROVE  ChannelOK(c)'
<1>1. cpc'[u] = next /\ down'[c] = <<>> /\ c \in closed'
  BY EndsFrame
<1>2. ~(Live(c)')
  BY <1>1 DEF Live
<1> QED
  BY <1>1, <1>2, ChanEnd

LEMMA SendChan ==
  ASSUME Inv, NEW u \in Users, SendBlock(u), NEW c \in Conn, c = Sock(u)
  PROVE  ChannelOK(c)'
<1> DEFINE data == Body(u, ask[u].name)
           sent == Append(got[u], data[Len(got[u]) + 1])
<1>1. Typed /\ CountsOK /\ ChannelOK(Sock(u))
  BY DEF Inv, Typed
<1>2. /\ cpc[u] = "body"
      /\ up' = [up EXCEPT ![Sock(u)] = Append(@, Msg(0, data[Len(sent)]))]
      /\ IF Len(sent) = Size
           THEN Ends(u, "menu")
           ELSE got' = [got EXCEPT ![u] = sent] /\ UNCHANGED <<cpc, down, ask>>
      /\ UNCHANGED <<torrents, cmds>>
  BY DEF SendBlock, CloseSocket, server
<1>3. Busy(u) /\ Len(sent) = Len(got[u]) + 1 /\ Len(got[u]) < Size
      /\ Sock(u)[1] = u /\ Live(Sock(u))
  BY <1>1, NextBlock, SockLive
<1>4. Talk(u, up[Sock(u)], down[Sock(u)], cpc[u], ask[u], got[u], torrents)
  BY <1>1, <1>3, SockTalk
<1>5. /\ ask[u].name \in Names /\ Blocks(up[c]) /\ down[c] = <<>>
      /\ Own(torrents, ask[u].id, ask[u].name, u)
  BY <1>2, <1>4 DEF Talk
<1> HIDE DEF data, sent
<1>6. Blocks(up'[c])
  <2>1. up'[c] = Append(up[c], Msg(0, data[Len(sent)]))
    BY <1>1, <1>2 DEF Typed, WireTyped
  <2>2. Msg(0, data[Len(sent)]).type = 0
    BY MsgFields
  <2> QED
    BY <1>1, <1>5, <2>1, <2>2, BlocksAppend DEF Typed, WireTyped
<1>7. CASE Len(sent) = Size
  BY <1>1, <1>2, <1>3, <1>6, <1>7, EndsChan
<1>8. CASE Len(sent) # Size
  <2>1. Len(sent) < Size
    <3>1. Len(got[u]) \in Nat /\ Size \in Nat
      BY <1>1, LenProperties DEF Typed, ClientTyped, TrackerAssumption
    <3> QED
      BY <1>3, <1>8, <3>1
  <2>2. got'[u] = sent /\ UNCHANGED <<cpc, down, ask, torrents, cmds>>
    BY <1>1, <1>2, <1>8 DEF Typed, ClientTyped
  <2>3. Talk(u, up'[c], <<>>, "body", ask[u], sent, torrents)
    BY <1>5, <1>6, <2>1, TalkMakes
  <2>4. /\ c[1] = u /\ down'[c] = <<>> /\ cpc'[u] = "body" /\ ask'[u] = ask[u]
        /\ torrents' = torrents
    BY <1>2, <1>3, <1>5, <2>2
  <2>5. Talk(c[1], up'[c], down'[c], cpc'[c[1]], ask'[c[1]], got'[c[1]],
             torrents')
    BY <2>2, <2>3, <2>4, Zenon
  <2>6. Live(c)'
    BY <1>3, <2>2 DEF Live
  <2> QED
    BY <2>5, <2>6, ChanLive
<1> QED
  BY <1>7, <1>8

LEMMA RecvChan ==
  ASSUME Inv, NEW u \in Users, RecvFile(u), NEW c \in Conn, c = Sock(u)
  PROVE  ChannelOK(c)'
<1>1. Typed /\ CountsOK /\ ChannelOK(Sock(u))
  BY DEF Inv, Typed
<1>2. cpc[u] = "file" /\ UNCHANGED <<torrents, up, cmds>>
  BY DEF RecvFile, server
<1>3. PICK n \in DOMAIN down[Sock(u)] :
        \/ Ends(u, "menu")
        \/ /\ down' = [down EXCEPT ![Sock(u)] = SubSeq(@, n + 1, Len(@))]
           /\ \E g : got' = [got EXCEPT ![u] = g]
           /\ UNCHANGED <<cpc, ask>>
  BY DEF RecvFile, CloseSocket
<1>4. /\ Busy(u) /\ ask[u].id \in DOMAIN torrents
      /\ Listed(torrents, ask[u].id, u)
      /\ up[c] = <<>> /\ Blocks(down[c])
      /\ n \in Nat /\ 1 <= n /\ n <= Len(down[c])
  BY <1>1, <1>2, BlocksTaken
<1>5. Sock(u)[1] = u /\ Live(Sock(u))
  BY <1>1, <1>4, SockLive
<1>6. up'[c] = <<>>
  BY <1>2, <1>4
<1>7. CASE Ends(u, "menu")
  <2>1. Blocks(up'[c])
    BY <1>6, NoBlocks, Zenon
  <2> QED
    BY <1>1, <1>5, <1>7, <2>1, EndsChan
<1>8. CASE /\ down' = [down EXCEPT ![Sock(u)] = SubSeq(@, n + 1, Len(@))]
           /\ \E g : got' = [got EXCEPT ![u] = g]
           /\ UNCHANGED <<cpc, ask>>
  <2>1. down'[c] = SubSeq(down[c], n + 1, Len(down[c]))
    BY <1>1, <1>8 DEF Typed, WireTyped
  <2>2. Blocks(down'[c])
    <3>1. down[c] \in Seq(DownMsg) /\ Len(down[c]) \in Nat
          /\ DOMAIN down[c] = 1..Len(down[c])
      BY <1>1, LenProperties DEF Typed, WireTyped
    <3>2. \A k \in DOMAIN SubSeq(down[c], n + 1, Len(down[c])) :
            /\ k + n \in DOMAIN down[c]
            /\ SubSeq(down[c], n + 1, Len(down[c]))[k] = down[c][k + n]
      BY <1>4, <3>1, SubSeqProperties
    <3>3. \A k \in DOMAIN SubSeq(down[c], n + 1, Len(down[c])) :
            SubSeq(down[c], n + 1, Len(down[c]))[k].type = 0
      BY <1>4, <3>2 DEF Blocks
    <3>4. Blocks(SubSeq(down[c], n + 1, Len(down[c])))
      BY <3>3 DEF Blocks
    <3> QED
      BY <2>1, <3>4, Zenon
  <2>3. Talk(u, <<>>, down'[c], "file", ask[u], got'[u], torrents)
    BY <1>4, <2>2, TalkMakes
  <2>4. /\ c[1] = u /\ cpc'[u] = "file" /\ ask'[u] = ask[u]
        /\ torrents' = torrents
    BY <1>2, <1>5, <1>8
  <2>5. Talk(c[1], up'[c], down'[c], cpc'[c[1]], ask'[c[1]], got'[c[1]],
             torrents')
    BY <1>6, <2>3, <2>4, Zenon
  <2>6. Live(c)'
    BY <1>2, <1>5, <1>8 DEF Live
  <2> QED
    BY <2>5, <2>6, ChanLive
<1> QED
  BY <1>3, <1>7, <1>8

LEMMA WorksChan ==
  ASSUME Inv, NEW u \in Users, Works(u), NEW c \in Conn
  PROVE  ChannelOK(c)'
<1>1. Typed /\ CountsOK /\ \A d \in Conn : ChannelOK(d)
  BY DEF Inv, Typed
<1>2. Busy(u) /\ Sock(u) \in Conn /\ Live(Sock(u)) /\ Sock(u)[1] = u
  BY <1>1, WorksBusy, SockLive
<1>3. Frame(u)
  BY <1>1, <1>2, WorksFrame
<1>4. UNCHANGED <<torrents, cmds>> /\ closed \subseteq closed'
  BY <1>3 DEF Frame, server
<1>5. c[1] \in Users /\ c = <<c[1], c[2]>>
  BY ConnMember
<1>6. CASE c[1] # u
  <2>1. /\ cpc'[c[1]] = cpc[c[1]] /\ ask'[c[1]] = ask[c[1]]
        /\ got'[c[1]] = got[c[1]] /\ up'[c] = up[c] /\ down'[c] = down[c]
    BY <1>2, <1>3, <1>5, <1>6 DEF Frame
  <2> QED
    BY <1>1, <1>4, <2>1, GrowsSame, ChanKeep
<1>7. CASE c[1] = u /\ c # Sock(u)
  <2>1. up'[c] = up[c] /\ down'[c] = down[c]
    BY <1>3, <1>7 DEF Frame
  <2>2. ~Live(c) /\ ~(Live(c)')
    BY <1>4, <1>5, <1>7 DEF Live, Sock
  <2> QED
    BY <1>1, <1>4, <2>1, <2>2, ChanIdle
<1>8. CASE c = Sock(u)
  <2>1. CASE Accepted(u)
    BY <1>8, <2>1, AcceptedChan
  <2>2. CASE AskForFile(u)
    BY <1>8, <2>2, AskChan
  <2>3. CASE SendBlock(u)
    BY <1>8, <2>3, SendChan
  <2>4. CASE RecvFile(u)
    BY <1>8, <2>4, RecvChan
  <2>5. CASE FileCut(u) \/ StorePeers(u) \/ Quits(u)
    <3>1. /\ Ends(u, "menu") \/ Ends(u, "dead")
          /\ up' = up
      BY <2>5, QuitEnds DEF FileCut, StorePeers, CloseSocket
    <3>2. Talk(u, up[c], down[c], cpc[u], ask[u], got[u], torrents)
      BY <1>1, <1>2, <1>8, SockTalk
    <3>3. cpc[u] \in States \ {"menu", "dead"}
      BY <1>1, <1>2 DEF Busy, Typed, ClientTyped
    <3>4. Blocks(up'[c]) \/ Len(up'[c]) = 1
      BY <3>1, <3>2, <3>3, TalkUp
    <3> QED
      BY <1>1, <1>2, <1>8, <3>1, <3>4, EndsChan
  <2> QED
    BY <2>1, <2>2, <2>3, <2>4, <2>5 DEF Works
<1> QED
  BY <1>6, <1>7, <1>8

LEMMA ChanStep ==
  ASSUME Inv, Next, NEW c \in Conn
  PROVE  ChannelOK(c)' /\ Grows(torrents, torrents')
<1>1. Typed /\ ChannelOK(c)
  BY DEF Inv, Typed
<1>2. CASE Accept \/ Looks \/ Disconnect
  <2>1. UNCHANGED <<torrents, up, down, closed, cpc, cmds, ask, got>>
    BY <1>2 DEF Accept, Looks, Disconnect, StartScan, EndScan, ServerDies, client
  <2> QED
    BY <1>1, <2>1, GrowsSame, ChanKeep
<1>3. CASE Answers
  <2>1. torrents' = torrents
    BY <1>3 DEF Answers, TorrentList, DownloadTorrent, RequestPeerlist
  <2> QED
    BY <1>3, <2>1, AnswersChan, GrowsSame
<1>4. CASE UploadTorrentInfo
  BY <1>4, UploadChan
<1>5. CASE Bodies
  <2>1. torrents' = torrents
    BY <1>5 DEF Bodies, RecvBody, BodyCut
  <2> QED
    BY <1>5, <2>1, BodiesChan, GrowsSame
<1>6. CASE ReadyToReceive
  BY <1>6, ReadyChan
<1>7. ASSUME NEW u \in Users, Types(u)
      PROVE  ChannelOK(c)' /\ Grows(torrents, torrents')
  <2>1. torrents' = torrents
    BY <1>7 DEF Types, UploadTorrent, GetList, GetTorrent, GetPeers, Command,
                server
  <2> QED
    BY <1>7, <2>1, CommandChan, GrowsSame
<1>8. ASSUME NEW u \in Users, Works(u)
      PROVE  ChannelOK(c)' /\ Grows(torrents, torrents')
  <2>1. torrents' = torrents
    BY <1>1, <1>8, WorksBusy, SockLive, WorksFrame DEF Inv, Frame, server
  <2> QED
    BY <1>8, <2>1, WorksChan, GrowsSame
<1>9. ASSUME NEW u \in Users, NoTracker(u)
      PROVE  ChannelOK(c)' /\ Grows(torrents, torrents')
  <2>1. /\ cpc[u] = "menu"
        /\ cpc' = [cpc EXCEPT ![u] = "dead"]
        /\ UNCHANGED <<torrents, up, down, closed, cmds, ask, got>>
    BY <1>9 DEF NoTracker, server
  <2>2. CASE c[1] # u
    <3>1. cpc'[c[1]] = cpc[c[1]]
      BY <1>1, <2>1, <2>2, ConnMember DEF Typed, ClientTyped
    <3> QED
      BY <1>1, <2>1, <3>1, GrowsSame, ChanKeep
  <2>3. CASE c[1] = u
    <3>1. ~Live(c) /\ ~(Live(c)')
      BY <1>1, <2>1, <2>3 DEF Live, Typed, ClientTyped
    <3> QED
      BY <1>1, <2>1, <3>1, GrowsSame, ChanIdle
  <2> QED
    BY <2>2, <2>3
<1> QED
  BY <1>2, <1>3, <1>4, <1>5, <1>6, <1>7, <1>8, <1>9, NextCases

LEMMA GrowsStep ==
  ASSUME Inv, Next
  PROVE  Grows(torrents, torrents')
<1>1. CASE torrents' = torrents
  BY <1>1, GrowsSame
<1>2. CASE UploadTorrentInfo \/ ReadyToReceive
  <2>1. PICK i \in Slot : Serving(i)
    BY <1>2 DEF UploadTorrentInfo, ReadyToReceive, Request
  <2>2. fd[i] \in Conn
    BY <2>1, ServedSlot DEF Inv
  <2> QED
    BY <2>2, ChanStep
<1>3. \/ torrents' = torrents
      \/ UploadTorrentInfo \/ ReadyToReceive
  <2>1. CASE Accept \/ Looks \/ Disconnect \/ Answers \/ Bodies
    BY <2>1 DEF Accept, Looks, Disconnect, Answers, Bodies, StartScan, EndScan,
       ServerDies, TorrentList, DownloadTorrent, RequestPeerlist, RecvBody,
       BodyCut
  <2>2. ASSUME NEW u \in Users, Types(u) \/ NoTracker(u)
        PROVE  torrents' = torrents
    BY <2>2 DEF Types, UploadTorrent, GetList, GetTorrent, GetPeers, Command,
       NoTracker, server
  <2>3. ASSUME NEW u \in Users, Works(u) PROVE torrents' = torrents
    BY <2>3, WorksBusy, SockLive, WorksFrame DEF Inv, Typed, Frame, server
  <2> QED
    BY <2>1, <2>2, <2>3, NextCases
<1> QED
  BY <1>1, <1>2, <1>3

-----------------------------------------------------------------------------
(* The entries of the clients' vectors *)

LEMMA EntryKeep ==
  ASSUME NEW e, NEW u \in Users, NEW ts, NEW ts2, Grows(ts, ts2),
         EntryOK(e, u, ts)
  PROVE  EntryOK(e, u, ts2)
  BY DEF EntryOK, Grows

(* The entry a finished command adds. *)
LEMMA EntriesAdd ==
  ASSUME Typed, EntriesOK, NEW u \in Users, NEW e, EntryOK(e, u, torrents),
         local' = [local EXCEPT ![u] = Append(@, e)],
         UNCHANGED <<running, torrents>>
  PROVE  EntriesOK'
<1> SUFFICES ASSUME running, NEW v \in Users, NEW i \in DOMAIN local'[v]
             PROVE  EntryOK(local'[v][i], v, torrents)
  BY DEF EntriesOK
<1>1. CASE v # u
  <2>1. local'[v] = local[v]
    BY <1>1 DEF Typed, ClientTyped
  <2> QED
    BY <2>1 DEF EntriesOK
<1>2. CASE v = u
  <2>1. local'[u] = Append(local[u], e)
    BY DEF Typed, ClientTyped
  <2>2. local[u] \in Seq(Held \union {e}) /\ e \in Held \union {e}
    BY SeqMonotonic DEF Typed, ClientTyped
  <2>3. /\ DOMAIN local'[u] = 1..(Len(local[u]) + 1)
        /\ DOMAIN local[u] = 1..Len(local[u]) /\ Len(local[u]) \in Nat
        /\ \A k \in 1..Len(local[u]) : local'[u][k] = local[u][k]
        /\ local'[u][Len(local[u]) + 1] = e
    BY <2>1, <2>2, AppendProperties, LenProperties
  <2>4. CASE i \in DOMAIN local[u]
    BY <1>2, <2>3, <2>4 DEF EntriesOK
  <2>5. CASE i = Len(local[u]) + 1
    BY <1>2, <2>3, <2>5
  <2> QED
    BY <1>2, <2>3, <2>4, <2>5
<1> QED
  BY <1>1, <1>2

LEMMA EntriesStep ==
  ASSUME Inv, Next, Grows(torrents, torrents')
  PROVE  EntriesOK'
<1>1. Typed /\ CountsOK /\ EntriesOK /\ \A c \in Conn : ChannelOK(c)
  BY DEF Inv, Typed
<1>2. CASE local' = local /\ (running' => running)
  <2> SUFFICES ASSUME running', NEW u \in Users, NEW i \in DOMAIN local[u]
               PROVE  EntryOK(local[u][i], u, torrents')
    BY <1>2 DEF EntriesOK
  <2> QED
    BY <1>1, <1>2, EntryKeep DEF EntriesOK
<1>3. CASE \/ Accept \/ Looks \/ Disconnect \/ Answers \/ UploadTorrentInfo
           \/ Bodies \/ ReadyToReceive
  <2>1. local' = local
    BY <1>3, ServerFrame DEF client
  <2>2. running' => running
    BY <1>3
    DEF Accept, Looks, Disconnect, Answers, Bodies, StartScan, EndScan,
        ServerDies, TorrentList, DownloadTorrent, RequestPeerlist,
        UploadTorrentInfo, RecvBody, BodyCut, ReadyToReceive
  <2> QED
    BY <1>2, <2>1, <2>2
<1>4. ASSUME NEW u \in Users, Types(u) PROVE EntriesOK'
  <2>1. local' = local /\ running' = running
    BY <1>4 DEF Types, UploadTorrent, GetList, GetTorrent, GetPeers, Command,
                server
  <2> QED
    BY <1>2, <2>1
<1>5. ASSUME NEW u \in Users, NoTracker(u) PROVE EntriesOK'
  <2>1. local' = local /\ running' = running
    BY <1>5 DEF NoTracker, server
  <2> QED
    BY <1>2, <2>1
<1>6. ASSUME NEW u \in Users, Works(u) PROVE EntriesOK'
  <2>1. Busy(u) /\ Sock(u) \in Conn
    BY <1>1, <1>6, WorksBusy, SockLive
  <2>2. UNCHANGED <<running, torrents>>
    BY <1>1, <1>6, <2>1, WorksFrame DEF Frame, server
  <2>3. CASE Accepted(u) \/ AskForFile(u) \/ Quits(u)
    <3>1. local' = local
      BY <2>3, QuitEnds DEF Accepted, AskForFile
    <3> QED
      BY <1>2, <2>2, <3>1
  <2>4. CASE SendBlock(u)
    <3>1. \/ local' = local
          \/ \E data : local' = [local EXCEPT ![u] =
               Append(@, Entry(ask[u].id, ask[u].name, data, 1))]
      BY <2>4 DEF SendBlock
    <3>2. Own(torrents, ask[u].id, ask[u].name, u)
      <4>1. cpc[u] = "body"
        BY <2>4 DEF SendBlock
      <4> QED
        BY <1>1, <2>1, <4>1, SockTalk DEF Talk
    <3>3. \A data : EntryOK(Entry(ask[u].id, ask[u].name, data, 1), u, torrents)
      BY <3>2 DEF Own, Entry, EntryOK
    <3> QED
      BY <1>1, <1>2, <2>2, <3>1, <3>3, EntriesAdd
  <2>5. CASE RecvFile(u)
    <3>1. \/ local' = local
          \/ \E data : local' = [local EXCEPT ![u] = Append(@,
               Entry(ask[u].id, torrents[ask[u].id].name, data, 0))]
      BY <2>5 DEF RecvFile
    <3>2. ask[u].id \in DOMAIN torrents /\ Listed(torrents, ask[u].id, u)
      <4>1. cpc[u] = "file" /\ \E n : n \in DOMAIN down[Sock(u)]
        BY <2>5 DEF RecvFile
      <4> QED
        BY <1>1, <2>1, <4>1, BlocksTaken
    <3>3. \A data : EntryOK(Entry(ask[u].id, torrents[ask[u].id].name, data, 0),
                            u, torrents)
      BY <3>2 DEF Entry, EntryOK
    <3> QED
      BY <1>1, <1>2, <2>2, <3>1, <3>3, EntriesAdd
  <2>6. CASE FileCut(u)
    <3>1. ~running
      BY <2>6 DEF FileCut
    <3> QED
      BY <2>2, <3>1 DEF EntriesOK
  <2>7. CASE StorePeers(u)
    <3>1. SameEntries(u)
      BY <1>1, <2>1, <2>7, StoreTyped
    <3> QED
      BY <1>1, <2>2, <3>1 DEF EntriesOK, EntryOK, SameEntries
  <2> QED
    BY <1>6, <2>3, <2>4, <2>5, <2>6, <2>7 DEF Works
<1> QED
  BY <1>3, <1>4, <1>5, <1>6, NextCases

-----------------------------------------------------------------------------
(* The invariant *)

LEMMA InitInv == Init => Inv
<1> SUFFICES ASSUME Init PROVE Inv
  OBVIOUS
<1>1. Typed
  BY InitTyped
<1>2. CountsOK
  BY DEF Init, CountsOK, TrackerAssumption
<1>3. TableOK /\ TypedIn
  BY DEF Init, TableOK, TypedIn
<1>4. BodyOK
  BY DEF Init, BodyOK
<1>5. \A c \in Conn : ChannelOK(c)
  <2>1. TAKE c \in Conn
  <2>2. c[1] \in Users
    BY ConnMember
  <2>3. ~Live(c) /\ up[c] = <<>> /\ down[c] = <<>>
    BY <2>2 DEF Init, Live
  <2>4. Blocks(up[c])
    BY <2>3, NoBlocks, Zenon
  <2> QED
    BY <2>3, <2>4 DEF ChannelOK
<1>6. EntriesOK
  BY DEF Init, EntriesOK
<1> QED
  BY <1>1, <1>2, <1>3, <1>4, <1>5, <1>6 DEF Inv, Typed

LEMMA NextInv == Inv /\ [Next]_vars => Inv'
<1> SUFFICES ASSUME Inv, [Next]_vars PROVE Inv'
  OBVIOUS
<1>1. CASE UNCHANGED vars
  BY <1>1
  DEF vars, server, client, Inv, ServerTyped, WireTyped, ClientTyped, CountsOK,
      TableOK, TypedIn, BodyOK, ChannelOK, Live, EntriesOK
<1>2. CASE Next
  <2>1. Typed' /\ CountsOK' /\ TableOK' /\ TypedIn' /\ BodyOK'
    BY <1>2, TypedStep, CountsStep, TableStep, BodyStep
  <2>2. \A c \in Conn : ChannelOK(c)'
    BY <1>2, ChanStep
  <2>3. EntriesOK'
    BY <1>2, GrowsStep, EntriesStep
  <2> QED
    BY <2>1, <2>2, <2>3 DEF Inv, Typed
<1> QED
  BY <1>1, <1>2

LEMMA RangeTyped ==
  ASSUME NEW S, NEW s \in Seq(S)
  PROVE  Range(s) \subseteq S
  BY LenProperties, ElementOfSeq DEF Range

(* The strengthened invariant holds in every reachable state. *)
THEOREM Invariance == Spec => []Inv
<1>1. Init => Inv
  BY InitInv
<1>2. Inv /\ [Next]_vars => Inv'
  BY NextInv
<1> QED
  BY <1>1, <1>2, PTL DEF Spec

(* TypeOK: every variable of the tracker, the connections and the clients   *)
(* keeps its type, and no client sits in a slot the scan does not reach,    *)
(* for any number of users and commands.                                    *)
THEOREM TypeCorrect == Spec => []TypeOK
<1>1. Inv => TypeOK
  <2> SUFFICES ASSUME Inv PROVE TypeOK
    OBVIOUS
  <2>1. ServerTyped /\ WireTyped /\ ClientTyped /\ CountsOK /\ TableOK
    BY DEF Inv
  <2>2. at \in 0..Cardinality(Slot)
    BY <2>1, SlotCount DEF ServerTyped
  <2>3. \A i \in DOMAIN torrents : /\ torrents[i].name \in Names
                                   /\ torrents[i].owner \in Users
                                   /\ Range(torrents[i].peers) \subseteq PeerType
    <3>1. TAKE i \in DOMAIN torrents
    <3>2. torrents[i] \in Torrent
      BY <2>1, LenProperties, ElementOfSeq DEF ServerTyped
    <3> QED
      BY <3>2, RangeTyped DEF Torrent
  <2>4. \A n \in Names : Range(files[n]) \subseteq Chunk
    BY <2>1, RangeTyped DEF ServerTyped
  <2>5. Range(backlog) \subseteq Conn
    BY <2>1, RangeTyped DEF WireTyped
  <2>6. \A c \in Conn :
          /\ \A k \in DOMAIN up[c] : up[c][k].type \in {0} \union 12..16
          /\ \A k \in DOMAIN down[c] : down[c][k].type \in {0, 21, 31, 41, 51}
    <3>1. TAKE c \in Conn
    <3>2. /\ up[c] \in Seq(UpMsg(Len(torrents))) /\ down[c] \in Seq(DownMsg)
          /\ Len(torrents) \in Nat
      BY <2>1, LenProperties DEF WireTyped, ServerTyped
    <3>3. \A k \in DOMAIN up[c] : up[c][k] \in UpMsg(Len(torrents))
      BY <3>2, LenProperties, ElementOfSeq
    <3>4. \A k \in DOMAIN down[c] : down[c][k] \in DownMsg
      BY <3>2, LenProperties, ElementOfSeq
    <3> QED
      BY <3>2, <3>3, <3>4, UpValues, DownValues
  <2>7. \A u \in Users : cmds[u] \in 0..MaxCmds[u]
    BY <2>1 DEF ClientTyped, CountsOK, TrackerAssumption
  <2>8. \A u \in Users : \A i \in DOMAIN local[u] :
          /\ Range(local[u][i].data) \subseteq Chunk
          /\ local[u][i].peers.users \subseteq PeerType
    <3>1. TAKE u \in Users
    <3>2. TAKE i \in DOMAIN local[u]
    <3>3. local[u] \in Seq(Held)
      BY <2>1 DEF ClientTyped
    <3>4. local[u][i] \in Held
      BY <3>3, LenProperties, ElementOfSeq
    <3> QED
      BY <3>4, RangeTyped DEF Held
  <2>9. cpc \in [Users -> {"menu", "wait21", "body", "wait51", "wait41", "file",
                           "wait31", "dead"}]
    BY <2>1 DEF ClientTyped, States
  <2> QED
    BY <2>1, <2>2, <2>3, <2>4, <2>5, <2>6, <2>7, <2>8, <2>9
    DEF TypeOK, ServerTyped, WireTyped, TableOK
<1> QED
  BY <1>1, Invariance, PTL

(* ReplyForMe: what lies in a connection is for the command its client is   *)
(* in, with any number of clients and whoever dies.                         *)
THEOREM RepliesForAsker == Spec => []ReplyForMe
<1>1. Inv => ReplyForMe
  <2> SUFFICES ASSUME Inv, NEW u \in Users, cmds[u] > 0,
                      NEW k \in DOMAIN down[Sock(u)]
               PROVE  LET t == down[Sock(u)][k].type
                      IN  \/ t = 21 /\ cpc[u] = "wait21"
                          \/ t = 51 /\ cpc[u] = "wait51"
                          \/ t = 41 /\ cpc[u] = "wait41"
                          \/ t = 31 /\ cpc[u] = "wait31"
                          \/ t = 0 /\ cpc[u] = "file"
    BY DEF ReplyForMe
  <2>1. Typed /\ CountsOK /\ \A c \in Conn : ChannelOK(c)
    BY DEF Inv, Typed
  <2>2. Sock(u) \in Conn
    <3>1. cmds[u] \in Nat /\ MaxCmds[u] \in Nat /\ cmds[u] <= MaxCmds[u]
      BY <2>1 DEF Typed, ClientTyped, CountsOK, TrackerAssumption
    <3>2. cmds[u] \in 1..MaxCmds[u]
      BY <3>1
    <3> QED
      BY <3>2, ConnMember DEF Sock
  <2>3. down[Sock(u)] # <<>>
    OBVIOUS
  <2>4. Live(Sock(u))
    BY <2>1, <2>2, <2>3 DEF ChannelOK
  <2>5. Sock(u)[1] = u
    BY DEF Sock
  <2>6. Busy(u)
    BY <2>4, <2>5 DEF Live, Busy
  <2>7. Talk(u, up[Sock(u)], down[Sock(u)], cpc[u], ask[u], got[u], torrents)
    BY <2>1, <2>2, <2>6, SockTalk
  <2>8. cpc[u] \in {"wait21", "body", "wait51", "wait41", "file", "wait31"}
    BY <2>1, <2>6 DEF Busy, Typed, ClientTyped, States
  <2>9. down[Sock(u)] \in Seq(DownMsg)
    BY <2>1, <2>2 DEF Typed, WireTyped
  <2>10. \A t : One(down[Sock(u)], t) => down[Sock(u)][k].type = t
    <3>1. DOMAIN down[Sock(u)] = 1..Len(down[Sock(u)])
      BY <2>9, LenProperties
    <3> QED
      BY <3>1 DEF One
  <2>11. Blocks(down[Sock(u)]) => down[Sock(u)][k].type = 0
    BY DEF Blocks
  <2> QED
    BY <2>3, <2>7, <2>8, <2>10, <2>11 DEF Talk
<1> QED
  BY <1>1, Invariance, PTL

(* HoldersListed: whoever has a torrent is in the tracker's peer list of    *)
(* that id, under the tracker's name, and owns it if it published it.       *)
THEOREM HoldersAlwaysListed == Spec => []HoldersListed
<1>1. Inv => HoldersListed
  BY DEF Inv, EntriesOK, EntryOK, Listed, HoldersListed
<1> QED
  BY <1>1, Invariance, PTL

(* PeersFiled: a peer list lands at the torrent it is for, if that one is   *)
(* in the vector; no other step of anybody touches a stored list.           *)
Filing ==
  \A u \in Users : \A i \in DOMAIN local[u] :
    local'[u][i].peers # local[u][i].peers =>
      \/ local'[u][i].peers.id = local[u][i].id
      \/ local'[u][i].peers.id \notin LocalIds(u)

LEMMA AppendFiling ==
  ASSUME Typed, NEW u \in Users, NEW e,
         local' = [local EXCEPT ![u] = Append(@, e)]
  PROVE  Filing
<1> SUFFICES ASSUME NEW v \in Users, NEW i \in DOMAIN local[v]
             PROVE  local'[v][i] = local[v][i]
  BY DEF Filing
<1>1. CASE v # u
  BY <1>1 DEF Typed, ClientTyped
<1>2. CASE v = u
  <2>1. local'[u] = Append(local[u], e)
    BY DEF Typed, ClientTyped
  <2>2. local[u] \in Seq(Held \union {e}) /\ e \in Held \union {e}
    BY SeqMonotonic DEF Typed, ClientTyped
  <2>3. /\ DOMAIN local[u] = 1..Len(local[u])
        /\ \A k \in 1..Len(local[u]) : local'[u][k] = local[u][k]
    BY <2>1, <2>2, AppendProperties, LenProperties
  <2> QED
    BY <1>2, <2>3
<1> QED
  BY <1>1, <1>2

LEMMA StoreFiling ==
  ASSUME Typed, CountsOK, NEW u \in Users, ChannelOK(Sock(u)), StorePeers(u)
  PROVE  Filing
<1> DEFINE id == Value(u).id
           f == Filed(u, id)
           ps == [id |-> id, users |-> {p \in Range(Value(u).peers) : p.user # u}]
<1>1. /\ local[u] # <<>>
      /\ local' = [local EXCEPT ![u][f].peers = ps]
  BY DEF StorePeers
<1>2. /\ local[u] \in Seq(Held) /\ DOMAIN local[u] = 1..Len(local[u])
      /\ Len(local[u]) \in Nat
  BY LenProperties DEF Typed, ClientTyped
<1>3. f \in DOMAIN local[u]
  BY <1>1, FiledWhere
<1>4. id \in LocalIds(u) => local[u][f].id = id
  <2>1. SUFFICES ASSUME id \in LocalIds(u) PROVE local[u][f].id = id
    OBVIOUS
  <2> DEFINE S == {i \in DOMAIN local[u] : local[u][i].id = id}
  <2>2. S # {} /\ S \subseteq Nat
    BY <1>2, <2>1 DEF LocalIds
  <2>3. \E i \in S : \A j \in S : i <= j
    BY <2>2, LeastNatural
  <2>4. \E i \in DOMAIN local[u] :
          /\ local[u][i].id = id
          /\ \A j \in DOMAIN local[u] : local[u][j].id = id => i <= j
    BY <2>3
  <2> HIDE DEF id
  <2> QED
    BY <2>1, <2>4 DEF Filed
<1>5. local[u][f] \in Held
  BY <1>2, <1>3, ElementOfSeq
<1>6. /\ local'[u][f].peers = ps
      /\ \A i \in DOMAIN local[u] : i # f => local'[u][i] = local[u][i]
      /\ \A v \in Users : v # u => local'[v] = local[v]
  BY <1>1, <1>3, <1>5 DEF Typed, ClientTyped, Held
<1>7. ps.id = id
  OBVIOUS
<1> HIDE DEF id, f, ps
<1>8. ASSUME NEW v \in Users, NEW i \in DOMAIN local[v],
             local'[v][i].peers # local[v][i].peers
      PROVE  \/ local'[v][i].peers.id = local[v][i].id
             \/ local'[v][i].peers.id \notin LocalIds(v)
  <2>1. v = u /\ i = f
    BY <1>6, <1>8
  <2> QED
    BY <1>4, <1>6, <1>7, <2>1
<1> QED
  BY <1>8 DEF Filing

THEOREM ListsWellFiled == Spec => PeersFiled
<1>1. Inv /\ [Next]_vars => [Filing]_vars
  <2> SUFFICES ASSUME Inv, Next PROVE Filing
    OBVIOUS
  <2>1. Typed /\ CountsOK /\ \A c \in Conn : ChannelOK(c)
    BY DEF Inv, Typed
  <2>2. CASE local' = local
    BY <2>2 DEF Filing
  <2>3. CASE \/ Accept \/ Looks \/ Disconnect \/ Answers \/ UploadTorrentInfo
             \/ Bodies \/ ReadyToReceive
    BY <2>2, <2>3, ServerFrame DEF client
  <2>4. ASSUME NEW u \in Users, Types(u) \/ NoTracker(u) PROVE Filing
    BY <2>2, <2>4 DEF Types, UploadTorrent, GetList, GetTorrent, GetPeers,
       Command, NoTracker
  <2>5. ASSUME NEW u \in Users, Works(u) PROVE Filing
    <3>1. CASE StorePeers(u)
      BY <2>1, <2>5, <3>1, WorksBusy, SockLive, StoreFiling
    <3>2. CASE Accepted(u) \/ AskForFile(u) \/ Quits(u)
      BY <2>2, <3>2, QuitEnds DEF Accepted, AskForFile
    <3>3. CASE SendBlock(u) \/ RecvFile(u) \/ FileCut(u)
      <4>1. \/ local' = local
            \/ \E e : local' = [local EXCEPT ![u] = Append(@, e)]
        BY <3>3 DEF SendBlock, RecvFile, FileCut
      <4> QED
        BY <2>1, <2>2, <4>1, AppendFiling
    <3> QED
      BY <2>5, <3>1, <3>2, <3>3 DEF Works
  <2> QED
    BY <2>3, <2>4, <2>5, NextCases
<1> QED
  BY <1>1, Invariance, PTL DEF Spec, PeersFiled, Filing

-----------------------------------------------------------------------------
(* What is fetched: the blocks on their way, in the file and back           *)

(* A sequence of blocks without junk. *)
Clean(s) == \A k \in 1..Len(s) : s[k] # Junk

(* Has every torrent named n the owner o? *)
Sole(ts, n, o) == \A k \in DOMAIN ts : ts[k].name = n => ts[k].owner = o

(* Up to the first junk, s is what o uploaded as n. *)
Right(s, o, n) ==
  \A k \in 1..Len(s) : (\A j \in 1..k : s[j] # Junk) => s[k] = <<o, n, k>>

(* The same of the blocks g that were received and the messages b on the way. *)
Block(g, b, k) == IF k <= Len(g) THEN g[k] ELSE b[k - Len(g)].val
StreamRight(g, b, o, n) ==
  \A k \in 1..Len(g) + Len(b) :
    (\A j \in 1..k : Block(g, b, j) # Junk) => Block(g, b, k) = <<o, n, k>>

(* In the receive loop of request 12, with the connection c, the torrent m, *)
(* the blocks a on the way, r blocks received and the file f: the blocks on *)
(* the way are the next ones, the uploader (it remembers k and has sent g)  *)
(* will send those behind them, and the file has one block for each         *)
(* received one, unless it has junk.                                        *)
Storing(c, m, a, r, k, g, f) ==
  /\ m.owner = c[1]
  /\ \A j \in 1..Len(a) : a[j].val = <<c[1], m.name, r + j>>
  /\ Live(c) => k.name = m.name /\ Len(g) = r + Len(a)
  /\ Clean(f) => Len(f) = r

(* The torrent that was registered last. *)
Last == torrents[Len(torrents)]

BodyRight ==
  spc = "body" => Storing(fd[at], Last, up[fd[at]], received, ask[fd[at][1]],
                          got[fd[at][1]], files[Last.name])

(* The file of a name that one user alone uploaded, on disk, *)
FilesRight ==
  \A n \in Names, o \in Users :
    Sole(torrents, n, o) => Right(files[n], o, n)

(* and on its way to a client. *)
Fetching(u) ==
  cpc[u] = "file" =>
    \A o \in Users : Sole(torrents, torrents[ask[u].id].name, o) =>
      StreamRight(got[u], down[Sock(u)], o, torrents[ask[u].id].name)

WireRight == \A u \in Users : Fetching(u)

Fetch == BodyRight /\ FilesRight /\ WireRight /\ FetchedRight

LEMMA SoleGrows ==
  ASSUME NEW ts, NEW ts2, Grows(ts, ts2), NEW n, NEW o, Sole(ts2, n, o)
  PROVE  Sole(ts, n, o)
  BY DEF Sole, Grows

(* A sequence and one more element. *)
LEMMA OneMore ==
  ASSUME NEW S, NEW s \in Seq(S), NEW v \in S
  PROVE  /\ s \o <<v>> \in Seq(S)
         /\ Len(s) \in Nat /\ Len(s \o <<v>>) = Len(s) + 1
         /\ \A k \in 1..Len(s) : (s \o <<v>>)[k] = s[k]
         /\ (s \o <<v>>)[Len(s) + 1] = v
<1>1. <<v>> \in Seq(S) /\ Len(<<v>>) = 1 /\ <<v>>[1] = v
  OBVIOUS
<1> QED
  BY <1>1, LenProperties, ConcatProperties

LEMMA RightMore ==
  ASSUME NEW s \in Seq(Chunk), NEW v \in Chunk, NEW o, NEW n, Right(s, o, n),
         Clean(s) /\ v # Junk => v = <<o, n, Len(s) + 1>>
  PROVE  Right(s \o <<v>>, o, n)
<1> DEFINE t == s \o <<v>>
<1>1. /\ Len(s) \in Nat /\ Len(t) = Len(s) + 1
      /\ \A k \in 1..Len(s) : t[k] = s[k]
      /\ t[Len(s) + 1] = v
  BY OneMore
<1> HIDE DEF t
<1> SUFFICES ASSUME NEW k \in 1..Len(t), \A j \in 1..k : t[j] # Junk
             PROVE  t[k] = <<o, n, k>>
  BY DEF Right, t
<1>2. CASE k \in 1..Len(s)
  <2>1. \A j \in 1..k : j \in 1..Len(s)
    BY <1>1, <1>2
  <2>2. \A j \in 1..k : s[j] # Junk
    BY <1>1, <2>1
  <2> QED
    BY <1>1, <1>2, <2>2 DEF Right
<1>3. CASE k = Len(s) + 1
  <2>1. Clean(s)
    <3>1. \A j \in 1..Len(s) : j \in 1..k
      BY <1>1, <1>3
    <3> QED
      BY <1>1, <3>1 DEF Clean
  <2>2. v # Junk
    BY <1>1, <1>3
  <2> QED
    BY <1>1, <1>3, <2>1, <2>2
<1> QED
  BY <1>1, <1>2, <1>3

LEMMA CleanMore ==
  ASSUME NEW s \in Seq(Chunk), NEW v \in Chunk, Clean(s \o <<v>>)
  PROVE  Clean(s) /\ v # Junk
<1>1. /\ Len(s) \in Nat /\ Len(s \o <<v>>) = Len(s) + 1
      /\ \A k \in 1..Len(s) : (s \o <<v>>)[k] = s[k]
      /\ (s \o <<v>>)[Len(s) + 1] = v
  BY OneMore
<1>2. Len(s) + 1 \in 1..Len(s \o <<v>>) /\ \A k \in 1..Len(s) : k \in 1..Len(s \o <<v>>)
  BY <1>1
<1> QED
  BY <1>1, <1>2 DEF Clean

LEMMA JunkChunk == Junk \in Chunk
  BY DEF Chunk

(* Junk behind s. *)
LEMMA RightJunk ==
  ASSUME NEW s \in Seq(Chunk), NEW junk \in {<<>>, <<Junk>>}
  PROVE  /\ s \o junk \in Seq(Chunk)
         /\ \A o, n : Right(s, o, n) => Right(s \o junk, o, n)
         /\ Clean(s \o junk) => s \o junk = s
<1>1. CASE junk = <<>>
  <2>1. s \o <<>> = s
    BY ConcatEmptySeq
  <2> QED
    BY <1>1, <2>1
<1>2. CASE junk = <<Junk>>
  <2>1. s \o <<Junk>> \in Seq(Chunk)
    BY OneMore, JunkChunk
  <2>2. \A o, n : Right(s, o, n) => Right(s \o <<Junk>>, o, n)
    BY RightMore, JunkChunk
  <2>3. ~Clean(s \o <<Junk>>)
    BY CleanMore, JunkChunk
  <2> QED
    BY <1>2, <2>1, <2>2, <2>3
<1> QED
  BY <1>1, <1>2

(* The messages request 16 makes of the file s. *)
LEMMA StreamOfFile ==
  ASSUME NEW s \in Seq(Chunk), NEW o, NEW n, Right(s, o, n)
  PROVE  StreamRight(<<>>, [k \in DOMAIN s |-> Msg(0, s[k])], o, n)
<1> DEFINE b == [k \in DOMAIN s |-> Msg(0, s[k])]
<1>1. Len(s) \in Nat /\ DOMAIN s = 1..Len(s)
  BY LenProperties
<1>2. b \in Seq([type : {0}, val : Chunk]) /\ Len(b) = Len(s)
  <2>1. b \in [1..Len(s) -> [type : {0}, val : Chunk]]
    BY <1>1, ElementOfSeq DEF Msg
  <2> QED
    BY <1>1, <2>1, SeqDef, LenProperties
<1>3. Len(<<>>) = 0
  OBVIOUS
<1>4. \A k \in 1..Len(s) : b[k].val = s[k]
  BY <1>1 DEF Msg
<1> HIDE DEF b
<1>5. \A k \in 1..Len(s) : Block(<<>>, b, k) = s[k]
  <2>1. TAKE k \in 1..Len(s)
  <2>2. ~(k <= Len(<<>>)) /\ k - Len(<<>>) = k
    BY <1>1, <1>3
  <2> QED
    BY <1>4, <2>2 DEF Block
<1>6. 1..(Len(<<>>) + Len(b)) = 1..Len(s)
  BY <1>1, <1>2, <1>3
<1>7. ASSUME NEW k \in 1..Len(s), \A j \in 1..k : Block(<<>>, b, j) # Junk
      PROVE  Block(<<>>, b, k) = <<o, n, k>>
  <2>1. \A j \in 1..k : j \in 1..Len(s)
    BY <1>1
  <2>2. \A j \in 1..k : s[j] # Junk
    BY <1>5, <1>7, <2>1
  <2> QED
    BY <1>5, <2>2 DEF Right
<1> QED
  BY <1>6, <1>7 DEF StreamRight, b

LEMMA StreamEmpty ==
  ASSUME NEW o, NEW n
  PROVE  StreamRight(<<>>, <<>>, o, n)
<1>1. Len(<<>>) = 0 /\ 1..(0 + 0) = {}
  OBVIOUS
<1> QED
  BY <1>1 DEF StreamRight

(* n blocks are taken from the connection. *)
LEMMA StreamTake ==
  ASSUME NEW g \in Seq(Chunk), NEW b \in Seq(DownMsg), NEW n \in 1..Len(b),
         NEW h \in Seq(Chunk), h = [k \in 1..n |-> b[k].val],
         NEW o, NEW nm, StreamRight(g, b, o, nm)
  PROVE  /\ StreamRight(g \o h, SubSeq(b, n + 1, Len(b)), o, nm)
         /\ Right(g \o h, o, nm)
<1> DEFINE g2 == g \o h
           b2 == SubSeq(b, n + 1, Len(b))
<1>1. Len(g) \in Nat /\ Len(b) \in Nat /\ n \in Nat /\ 1 <= n /\ n <= Len(b)
  BY LenProperties
<1>2. Len(h) = n
  BY <1>1, LenProperties
<1>3. \A k \in 1..n : h[k] = b[k].val
  OBVIOUS
<1>4. /\ Len(b2) = Len(b) - n
      /\ \A k \in 1..Len(b) - n : b2[k] = b[k + n]
  <2>1. n + 1 \in 1..Len(b) + 1
    BY <1>1
  <2>2. \A k \in n + 1..Len(b) : k \in 1..Len(b)
    BY <1>1
  <2>3. /\ Len(b2) = IF n + 1 <= Len(b) THEN Len(b) - (n + 1) + 1 ELSE 0
        /\ \A k \in 1..Len(b) - (n + 1) + 1 : b2[k] = b[(n + 1) + k - 1]
    BY <1>1, <2>1, <2>2, SubSeqProperties
  <2> QED
    BY <1>1, <2>3
<1> HIDE DEF g2, b2
<1>5. /\ Len(g2) = Len(g) + n
      /\ \A k \in 1..Len(g) : g2[k] = g[k]
      /\ \A k \in 1..n : g2[Len(g) + k] = b[k].val
  <2>1. /\ Len(g \o h) = Len(g) + Len(h)
        /\ \A k \in 1..Len(g) : (g \o h)[k] = g[k]
        /\ \A k \in 1..Len(h) : (g \o h)[Len(g) + k] = h[k]
    BY ConcatProperties
  <2> QED
    BY <1>2, <1>3, <2>1 DEF g2
<1>6. Len(g2) + Len(b2) = Len(g) + Len(b)
  BY <1>1, <1>4, <1>5
<1>7. \A k \in 1..Len(g) + Len(b) : Block(g2, b2, k) = Block(g, b, k)
  <2>1. TAKE k \in 1..Len(g) + Len(b)
  <2>2. CASE k <= Len(g)
    <3>1. k \in 1..Len(g) /\ k <= Len(g2)
      BY <1>1, <1>5, <2>2
    <3> QED
      BY <1>5, <2>2, <3>1 DEF Block
  <2>3. CASE Len(g) < k /\ k <= Len(g2)
    <3>1. k - Len(g) \in 1..n /\ Len(g) + (k - Len(g)) = k /\ ~(k <= Len(g))
      BY <1>1, <1>5, <2>3
    <3>2. g2[k] = b[k - Len(g)].val
      BY <1>5, <3>1
    <3> QED
      BY <2>3, <3>1, <3>2 DEF Block
  <2>4. CASE Len(g2) < k
    <3>1. /\ k - Len(g2) \in 1..Len(b) - n
          /\ (k - Len(g2)) + n = k - Len(g)
          /\ ~(k <= Len(g)) /\ ~(k <= Len(g2))
      BY <1>1, <1>5, <2>4
    <3>2. b2[k - Len(g2)] = b[k - Len(g)]
      BY <1>4, <3>1
    <3> QED
      BY <3>1, <3>2 DEF Block
  <2> QED
    BY <1>1, <1>5, <2>2, <2>3, <2>4
<1>8. \A k \in 1..Len(g) + Len(b) : \A j \in 1..k : j \in 1..Len(g) + Len(b)
  BY <1>1
<1>9. StreamRight(g2, b2, o, nm)
  BY <1>6, <1>7, <1>8 DEF StreamRight
<1>10. Right(g2, o, nm)
  <2>1. ASSUME NEW k \in 1..Len(g2), \A j \in 1..k : g2[j] # Junk
        PROVE  g2[k] = <<o, nm, k>>
    <3>1. k \in 1..Len(g2) + Len(b2) /\ k <= Len(g2)
          /\ \A j \in 1..k : j <= Len(g2)
      BY <1>1, <1>4, <1>5
    <3>2. \A j \in 1..k : Block(g2, b2, j) = g2[j]
      BY <3>1 DEF Block
    <3>3. Block(g2, b2, k) = g2[k]
      BY <3>1 DEF Block
    <3> QED
      BY <1>9, <2>1, <3>1, <3>2, <3>3 DEF StreamRight
  <2> QED
    BY <2>1 DEF Right
<1> QED
  BY <1>9, <1>10 DEF g2, b2

(* A whole file without junk. *)
LEMMA WholeRight ==
  ASSUME NEW s \in Seq(Chunk), NEW o, NEW n, Right(s, o, n), Len(s) = Size,
         Junk \notin Range(s)
  PROVE  s = Body(o, n)
<1>1. DOMAIN s = 1..Size /\ Size \in Nat
  BY LenProperties DEF TrackerAssumption
<1>2. \A k \in 1..Size : s[k] # Junk
  BY <1>1 DEF Range
<1>3. \A k \in 1..Size : \A j \in 1..k : j \in 1..Size
  BY <1>1
<1>4. \A k \in 1..Size : s[k] = <<o, n, k>>
  BY <1>2, <1>3 DEF Right
<1>5. s \in [1..Size -> Chunk]
  BY LenProperties
<1> QED
  BY <1>4, <1>5 DEF Body

-----------------------------------------------------------------------------
(* The files *)

LEMMA LastOwner ==
  ASSUME ServerTyped, torrents # <<>>, NEW o, Sole(torrents, Last.name, o)
  PROVE  o = Last.owner
<1>1. Len(torrents) \in DOMAIN torrents
  BY LenProperties, EmptySeq, SeqEqual, HeadType DEF ServerTyped
<1> QED
  BY <1>1 DEF Sole, Last

(* The uploader whose blocks the tracker receives. *)
LEMMA Receiving ==
  ASSUME Inv, BodyRight, spc = "body"
  PROVE  /\ at \in Slot /\ fd[at] \in Conn /\ fd[at][1] \in Users
         /\ torrents # <<>> /\ Last.name \in Names
         /\ files[Last.name] \in Seq(Chunk)
         /\ received \in Nat /\ received < Size
         /\ up[fd[at]] \in Seq(UpMsg(Len(torrents))) /\ Blocks(up[fd[at]])
         /\ Storing(fd[at], Last, up[fd[at]], received, ask[fd[at][1]],
                    got[fd[at][1]], files[Last.name])
<1>1. /\ at \in Slot /\ fd[at] \in Conn /\ torrents # <<>> /\ received < Size
      /\ Blocks(up[fd[at]])
  BY DEF Inv, BodyOK
<1>2. fd[at][1] \in Users
  BY <1>1, ConnMember
<1>3. Last.name \in Names
  BY <1>1, LastTorrent DEF Inv, Last
<1>4. files[Last.name] \in Seq(Chunk) /\ received \in Nat
  BY <1>3 DEF Inv, ServerTyped, TrackerAssumption
<1>5. up[fd[at]] \in Seq(UpMsg(Len(torrents)))
  BY <1>1 DEF Inv, WireTyped
<1>6. Storing(fd[at], Last, up[fd[at]], received, ask[fd[at][1]],
              got[fd[at][1]], files[Last.name])
  BY DEF BodyRight
<1> QED
  BY <1>1, <1>2, <1>3, <1>4, <1>5, <1>6

(* The block that is received is the next one of the file. *)
LEMMA BlockStored ==
  ASSUME Inv, BodyRight, RecvBody
  PROVE  LET c == fd[at]
             v == Head(up[c]).val
         IN  /\ v \in Chunk
             /\ v = <<c[1], Last.name, received + 1>>
             /\ \E junk \in {<<>>, <<Junk>>} :
                  files' = [files EXCEPT ![Last.name] = (@ \o <<v>>) \o junk]
<1>1. /\ spc = "body" /\ up[fd[at]] # <<>>
      /\ \E junk \in {<<>>, <<Junk>>} :
           files' = [files EXCEPT ![Last.name] =
                       (@ \o <<Head(up[fd[at]]).val>>) \o junk]
  BY DEF RecvBody, Last
<1> DEFINE a == up[fd[at]]
<1>2. /\ a \in Seq(UpMsg(Len(torrents))) /\ Blocks(a)
      /\ received \in Nat
      /\ \A j \in 1..Len(a) : a[j].val = <<fd[at][1], Last.name, received + j>>
  BY <1>1, Receiving DEF Storing
<1>3. Head(a) = a[1] /\ a[1] \in UpMsg(Len(torrents)) /\ 1 \in 1..Len(a)
  BY <1>1, <1>2, HeadType
<1>4. a[1].type = 0
  BY <1>2, <1>3, LenProperties DEF Blocks
<1>5. a[1].val \in Chunk
  BY <1>3, <1>4 DEF UpMsg
<1>6. a[1].val = <<fd[at][1], Last.name, received + 1>>
  BY <1>2, <1>3
<1> QED
  BY <1>1, <1>3, <1>5, <1>6

LEMMA FilesStep ==
  ASSUME Inv, Next, BodyRight, FilesRight
  PROVE  FilesRight'
<1>1. ServerTyped /\ files \in [Names -> Seq(Chunk)]
  BY DEF Inv, ServerTyped
<1>2. \A n, o : Sole(torrents', n, o) => Sole(torrents, n, o)
  BY GrowsStep, SoleGrows
(* Only files[m] changes, and stays right. *)
<1>3. ASSUME NEW m \in Names, NEW f, files' = [files EXCEPT ![m] = f],
             \A o \in Users : Sole(torrents', m, o) => Right(f, o, m)
      PROVE  FilesRight'
  <2>1. \A n \in Names : files'[n] = IF n = m THEN f ELSE files[n]
    BY <1>1, <1>3
  <2> QED
    BY <1>2, <1>3, <2>1 DEF FilesRight
<1>4. CASE files' = files
  BY <1>2, <1>4 DEF FilesRight
<1>5. CASE UploadTorrentInfo
  <2>1. PICK i \in Slot : /\ Request(i, 12)
                          /\ files' = [files EXCEPT ![Parameter(i)] = <<>>]
    BY <1>5 DEF UploadTorrentInfo
  <2>2. \A o : Right(<<>>, o, Parameter(i))
    <3>1. Len(<<>>) = 0 /\ 1..0 = {}
      OBVIOUS
    <3> QED
      BY <3>1 DEF Right
  <2>3. CASE Parameter(i) \in Names
    BY <1>3, <2>1, <2>2, <2>3
  <2>4. CASE Parameter(i) \notin Names
    <3>1. files' = files
      BY <1>1, <2>1, <2>4
    <3> QED
      BY <1>4, <3>1
  <2> QED
    BY <2>3, <2>4
<1>6. CASE Bodies
  <2> DEFINE f == files[Last.name]
  <2>1. spc = "body" /\ torrents' = torrents
    BY <1>6 DEF Bodies, RecvBody, BodyCut
  <2>2. /\ Last.name \in Names /\ f \in Seq(Chunk) /\ torrents # <<>>
        /\ Last.owner = fd[at][1]
        /\ Clean(f) => Len(f) = received
    BY <2>1, Receiving DEF Storing
  <2>3. \A o \in Users : Sole(torrents', Last.name, o) =>
          o = Last.owner /\ Right(f, o, Last.name)
    BY <1>1, <2>1, <2>2, LastOwner DEF FilesRight
  <2>4. CASE RecvBody
    <3> DEFINE v == Head(up[fd[at]]).val
    <3>1. PICK junk \in {<<>>, <<Junk>>} :
            files' = [files EXCEPT ![Last.name] = (@ \o <<v>>) \o junk]
      BY <2>4, BlockStored
    <3>2. v \in Chunk /\ v = <<fd[at][1], Last.name, received + 1>>
      BY <2>4, BlockStored
    <3> HIDE DEF v
    <3>3. \A o \in Users : Sole(torrents', Last.name, o) =>
            Right(f \o <<v>>, o, Last.name)
      <4>1. TAKE o \in Users
      <4>2. HAVE Sole(torrents', Last.name, o)
      <4>3. o = Last.owner /\ Right(f, o, Last.name)
        BY <2>3, <4>2
      <4>4. Clean(f) => v = <<o, Last.name, Len(f) + 1>>
        BY <2>2, <3>2, <4>3
      <4> HIDE DEF f
      <4> QED
        BY <2>2, <3>2, <4>3, <4>4, RightMore
    <3>4. f \o <<v>> \in Seq(Chunk)
      BY <2>2, <3>2, OneMore
    <3>5. \A o : Right(f \o <<v>>, o, Last.name) =>
                 Right((f \o <<v>>) \o junk, o, Last.name)
      BY <3>4, RightJunk
    <3>6. files' = [files EXCEPT ![Last.name] = (f \o <<v>>) \o junk]
      BY <3>1
    <3> HIDE DEF f
    <3> QED
      BY <1>3, <2>2, <3>3, <3>5, <3>6
  <2>5. CASE BodyCut
    <3>1. PICK junk \in {<<>>, <<Junk>>} :
            files' = [files EXCEPT ![Last.name] = @ \o junk]
      BY <2>5 DEF BodyCut, Last
    <3>2. \A o : Right(f, o, Last.name) => Right(f \o junk, o, Last.name)
      BY <2>2, RightJunk
    <3>3. files' = [files EXCEPT ![Last.name] = f \o junk]
      BY <3>1
    <3> HIDE DEF f
    <3> QED
      BY <1>3, <2>2, <2>3, <3>2, <3>3
  <2> QED
    BY <1>6, <2>4, <2>5 DEF Bodies
<1>7. CASE Accept \/ Looks \/ Disconnect \/ Answers \/ ReadyToReceive
  <2>1. files' = files
    BY <1>7 DEF Accept, Looks, Disconnect, Answers, StartScan, EndScan,
       ServerDies, TorrentList, DownloadTorrent, RequestPeerlist, ReadyToReceive
  <2> QED
    BY <1>4, <2>1
<1>8. ASSUME NEW u \in Users, Types(u) \/ NoTracker(u) PROVE FilesRight'
  <2>1. files' = files
    BY <1>8 DEF Types, UploadTorrent, GetList, GetTorrent, GetPeers, Command,
       NoTracker, server
  <2> QED
    BY <1>4, <2>1
<1>9. ASSUME NEW u \in Users, Works(u) PROVE FilesRight'
  <2>1. files' = files
    BY <1>9, WorksBusy, SockLive, WorksFrame DEF Inv, Typed, Frame, server
  <2> QED
    BY <1>4, <2>1
<1> QED
  BY <1>5, <1>6, <1>7, <1>8, <1>9, NextCases

-----------------------------------------------------------------------------
(* The blocks on their way to the tracker *)

LEMMA BodyRightStep ==
  ASSUME Inv, Next, BodyRight
  PROVE  BodyRight'
<1>1. Typed /\ CountsOK /\ TypedIn /\ \A c \in Conn : ChannelOK(c)
  BY DEF Inv, Typed
<1>2. CASE \/ Accept \/ Looks \/ Disconnect \/ Answers \/ ReadyToReceive
           \/ BodyCut
  <2>1. spc' # "body"
    BY <1>2
    DEF Accept, Looks, Disconnect, Answers, ReadyToReceive, StartScan, EndScan,
        ServerDies, TorrentList, DownloadTorrent, RequestPeerlist, Request,
        Serving, BodyCut
  <2> QED
    BY <2>1 DEF BodyRight
<1>3. CASE UploadTorrentInfo
  <2>1. PICK i \in Slot :
          /\ Request(i, 12)
          /\ torrents' = Append(torrents, [name |-> Parameter(i),
                                           owner |-> fd[i][1],
                                           peers |-> <<Peer(fd[i][1])>>])
          /\ files' = [files EXCEPT ![Parameter(i)] = <<>>]
          /\ received' = 0
          /\ at' = i
          /\ UNCHANGED <<fd, client>>
    BY <1>3 DEF UploadTorrentInfo
  <2>2. fd[i] \in Conn /\ fd[i][1] \in Users
    BY <1>1, <2>1, ServedSlot DEF Request, Typed
  <2>3. PICK c \in Conn : c = fd[i]
    BY <2>2
  <2>4. PICK n : n = Parameter(i)
    OBVIOUS
  <2>5. /\ up' = [up EXCEPT ![c] = <<>>]
        /\ Live(c) => ask[c[1]].name = n /\ got[c[1]] = <<>>
    BY <1>1, <2>1, <2>2, <2>3, <2>4, Taken
  <2>6. up'[c] = <<>>
    BY <1>1, <2>5 DEF Typed, WireTyped
  <2>7. torrents' \in Seq(Torrent)
    BY <1>1, <1>3, UploadTyped DEF Inv, Typed, ServerTyped
  <2>8. Last'.name = n /\ Last'.owner = c[1] /\ Last'.name \in Names
    <3> DEFINE t == [name |-> n, owner |-> c[1], peers |-> <<Peer(c[1])>>]
    <3>1. torrents \in Seq(Torrent \union {t}) /\ t \in Torrent \union {t}
      BY <1>1, SeqMonotonic DEF Typed, ServerTyped
    <3>2. torrents' = Append(torrents, t)
      BY <2>1, <2>3, <2>4
    <3>3. t.name = n /\ t.owner = c[1]
      OBVIOUS
    <3> HIDE DEF t
    <3>4. /\ Len(torrents') = Len(torrents) + 1
          /\ torrents'[Len(torrents) + 1] = t
          /\ Len(torrents) \in Nat
      BY <3>1, <3>2, AppendProperties, LenProperties
    <3>5. Last' = t
      BY <3>4 DEF Last
    <3>6. Len(torrents') \in DOMAIN torrents'
      BY <2>7, <3>4, LenProperties
    <3>7. Last' \in Torrent
      BY <2>7, <3>6, ElementOfSeq, LenProperties DEF Last
    <3> QED
      BY <3>3, <3>5, <3>7 DEF Torrent
  <2>9. files'[n] = <<>>
    BY <1>1, <2>1, <2>8, <2>4 DEF Typed, ServerTyped
  <2>10. Len(<<>>) = 0 /\ 1..0 = {}
    OBVIOUS
  <2>11. fd'[at'] = c /\ received' = 0 /\ UNCHANGED <<cpc, cmds, ask, got>>
    BY <2>1, <2>3 DEF client
  <2>12. Live(c)' => ask'[c[1]].name = n /\ got'[c[1]] = <<>>
    <3>1. Live(c)' => Live(c)
      BY <2>11 DEF Live
    <3> QED
      BY <2>5, <2>11, <3>1
  <2> QED
    BY <2>6, <2>8, <2>9, <2>10, <2>11, <2>12 DEF BodyRight, Storing, Live
<1>4. CASE RecvBody
  <2>1. spc = "body"
    BY <1>4 DEF RecvBody
  <2>2. PICK c \in Conn : c = fd[at]
    BY <2>1, Receiving
  <2> DEFINE f == files[Last.name]
             v == Head(up[c]).val
  <2>3. /\ spc = "body" /\ up[c] # <<>>
        /\ up' = [up EXCEPT ![c] = Tail(@)]
        /\ received' = received + 1
        /\ IF received + 1 = Size THEN spc' = "scan"
                                  ELSE UNCHANGED <<spc, at>>
        /\ UNCHANGED <<fd, torrents, client>>
    BY <1>4, <2>2 DEF RecvBody
  <2>4. /\ c \in Conn /\ c[1] \in Users
        /\ Last.name \in Names /\ f \in Seq(Chunk) /\ received \in Nat
        /\ up[c] \in Seq(UpMsg(Len(torrents)))
        /\ Storing(c, Last, up[c], received, ask[c[1]], got[c[1]], f)
    BY <2>1, <2>2, Receiving
  <2> SUFFICES ASSUME spc' = "body" PROVE BodyRight'
    BY DEF BodyRight
  <2>5. UNCHANGED <<at, fd, torrents, cpc, cmds, ask, got>>
    BY <2>3 DEF client
  <2>6. up'[c] = Tail(up[c])
    BY <1>1, <2>3, <2>4 DEF Typed, WireTyped
  <2>7. /\ Len(up'[c]) = Len(up[c]) - 1 /\ Len(up[c]) \in Nat
        /\ \A j \in 1..Len(up'[c]) : j + 1 \in 1..Len(up[c])
                                     /\ up'[c][j] = up[c][j + 1]
    <3>1. /\ Tail(up[c]) \in Seq(UpMsg(Len(torrents)))
          /\ Len(Tail(up[c])) = Len(up[c]) - 1 /\ Len(up[c]) \in Nat
          /\ \A j \in DOMAIN Tail(up[c]) :
               j + 1 \in DOMAIN up[c] /\ Tail(up[c])[j] = up[c][j + 1]
      BY <2>3, <2>4, HeadType
    <3>2. /\ DOMAIN Tail(up[c]) = 1..Len(Tail(up[c]))
          /\ DOMAIN up[c] = 1..Len(up[c])
      BY <2>4, <3>1, LenProperties
    <3> QED
      BY <2>6, <3>1, <3>2
  <2>8. \A j \in 1..Len(up'[c]) :
          up'[c][j].val = <<c[1], Last.name, received' + j>>
    <3>1. TAKE j \in 1..Len(up'[c])
    <3>2. received + (j + 1) = received' + j
      BY <2>3, <2>4
    <3>3. up[c][j + 1].val = <<c[1], Last.name, received + (j + 1)>>
      BY <2>4, <2>7 DEF Storing
    <3> QED
      BY <2>7, <3>2, <3>3
  <2>9. PICK junk \in {<<>>, <<Junk>>} :
          files' = [files EXCEPT ![Last.name] = (@ \o <<v>>) \o junk]
    BY <1>4, <2>2, BlockStored
  <2>10. files'[Last.name] = (f \o <<v>>) \o junk
    BY <1>1, <2>4, <2>9 DEF Typed, ServerTyped
  <2>11. v \in Chunk
    BY <1>4, <2>2, BlockStored
  <2> HIDE DEF v, f
  <2>12. Clean(files'[Last.name]) => Len(files'[Last.name]) = received'
    <3>1. HAVE Clean(files'[Last.name])
    <3>2. f \o <<v>> \in Seq(Chunk) /\ Len(f \o <<v>>) = Len(f) + 1
      BY <2>4, <2>11, OneMore
    <3>3. (f \o <<v>>) \o junk = f \o <<v>> /\ Clean(f \o <<v>>)
      BY <2>10, <3>1, <3>2, RightJunk
    <3>4. Len(f) = received
      BY <2>4, <2>11, <3>3, CleanMore DEF Storing
    <3> QED
      BY <2>3, <2>10, <3>2, <3>3, <3>4
  <2>13. Live(c)' => ask'[c[1]].name = Last.name
                     /\ Len(got'[c[1]]) = received' + Len(up'[c])
    <3>1. Live(c)' => Live(c)
      BY <2>5 DEF Live
    <3>2. Live(c) => ask[c[1]].name = Last.name
                     /\ Len(got[c[1]]) = received + Len(up[c])
      BY <2>4 DEF Storing
    <3>3. received' + Len(up'[c]) = received + Len(up[c])
      <4>1. PICK r \in Nat, l \in Nat : r = received /\ l = Len(up[c])
        BY <2>4, <2>7
      <4>2. received' = r + 1 /\ Len(up'[c]) = l - 1
        BY <2>3, <2>7, <4>1
      <4>3. (r + 1) + (l - 1) = r + l
        OBVIOUS
      <4> QED
        BY <4>1, <4>2, <4>3
    <3> QED
      BY <2>5, <3>1, <3>2, <3>3
  <2>14. Last.owner = c[1] /\ Last' = Last
    BY <2>4, <2>5 DEF Storing, Last
  <2>15. c = fd'[at']
    BY <2>5, <2>2
  <2> QED
    BY <2>5, <2>8, <2>12, <2>13, <2>14, <2>15 DEF BodyRight, Storing, Live
(* The steps of the clients, when the tracker receives from connection c. *)
<1>5. ASSUME UNCHANGED <<spc, at, fd, torrents, received, files>>,
             \A c \in Conn : c = fd[at] /\ spc = "body" =>
               /\ \A j \in 1..Len(up'[c]) :
                    up'[c][j].val = <<c[1], Last.name, received + j>>
               /\ Live(c)' => /\ ask'[c[1]].name = Last.name
                              /\ Len(got'[c[1]]) = received + Len(up'[c])
      PROVE  BodyRight'
  <2> SUFFICES ASSUME spc = "body" PROVE BodyRight'
    BY <1>5 DEF BodyRight
  <2>1. PICK c \in Conn : c = fd[at]
    BY Receiving
  <2>2. /\ \A j \in 1..Len(up'[c]) :
             up'[c][j].val = <<c[1], Last.name, received + j>>
        /\ Live(c)' => /\ ask'[c[1]].name = Last.name
                       /\ Len(got'[c[1]]) = received + Len(up'[c])
    BY <1>5, <2>1
  <2>3. /\ Last.owner = c[1]
        /\ Clean(files[Last.name]) => Len(files[Last.name]) = received
    BY <2>1, Receiving DEF Storing
  <2>4. c = fd'[at'] /\ Last' = Last /\ files' = files /\ received' = received
    BY <1>5, <2>1 DEF Last
  <2> QED
    BY <2>2, <2>3, <2>4 DEF BodyRight, Storing, Live
<1>6. ASSUME NEW u \in Users, Types(u) PROVE BodyRight'
  <2> DEFINE new == <<u, cmds[u] + 1>>
  <2>1. PICK t, x, wait : Command(u, t, x, wait)
    BY <1>1, <1>6, CommandKind
  <2>2. /\ cmds[u] < MaxCmds[u]
        /\ cmds' = [cmds EXCEPT ![u] = @ + 1]
        /\ up' = [up EXCEPT ![new] = <<Msg(t, x)>>]
        /\ cpc' = [cpc EXCEPT ![u] = wait]
        /\ ask' = [ask EXCEPT ![u].name = IF t = 12 THEN x ELSE None]
        /\ got' = [got EXCEPT ![u] = <<>>]
        /\ UNCHANGED <<spc, at, fd, torrents, received, files>>
    BY <2>1 DEF Command, server
  <2>3. cmds[u] \in Nat /\ new[1] = u /\ new[2] = cmds[u] + 1 /\ new \in Conn
    BY <1>1, <2>2, NewSock, ConnMember
  <2> SUFFICES ASSUME NEW c \in Conn, c = fd[at], spc = "body"
      PROVE /\ \A j \in 1..Len(up'[c]) :
                 up'[c][j].val = <<c[1], Last.name, received + j>>
            /\ Live(c)' => /\ ask'[c[1]].name = Last.name
                           /\ Len(got'[c[1]]) = received + Len(up'[c])
    BY <1>5, <2>2
  <2>4. /\ at \in Slot
        /\ \A j \in 1..Len(up[c]) :
             up[c][j].val = <<c[1], Last.name, received + j>>
        /\ Live(c) => /\ ask[c[1]].name = Last.name
                      /\ Len(got[c[1]]) = received + Len(up[c])
    BY Receiving DEF Storing
  <2>5. c[2] <= cmds[c[1]] /\ c[1] \in Users /\ c[2] \in Nat
    BY <1>1, <2>4, ConnMember DEF TypedIn
  <2>6. c # new
    BY <2>3, <2>5
  <2> HIDE DEF new
  <2>7. up'[c] = up[c]
    BY <1>1, <2>2, <2>3, <2>4, <2>6 DEF Typed, WireTyped
  <2>8. CASE c[1] = u
    <3>1. cmds'[u] = cmds[u] + 1
      BY <1>1, <2>2 DEF Typed, ClientTyped
    <3>2. ~(Live(c)')
      BY <2>3, <2>5, <2>8, <3>1 DEF Live
    <3> QED
      BY <2>4, <2>7, <3>2
  <2>9. CASE c[1] # u
    <3>1. /\ cmds'[c[1]] = cmds[c[1]] /\ cpc'[c[1]] = cpc[c[1]]
          /\ ask'[c[1]] = ask[c[1]] /\ got'[c[1]] = got[c[1]]
      BY <1>1, <2>2, <2>5, <2>9 DEF Typed, ClientTyped
    <3>2. Live(c)' => Live(c)
      BY <3>1 DEF Live
    <3> QED
      BY <2>4, <2>7, <3>1, <3>2
  <2> QED
    BY <2>8, <2>9
<1>7. ASSUME NEW u \in Users, Works(u) PROVE BodyRight'
  <2>1. Busy(u) /\ Sock(u) \in Conn /\ Live(Sock(u)) /\ Sock(u)[1] = u
    BY <1>1, <1>7, WorksBusy, SockLive
  <2>2. Frame(u)
    BY <1>1, <1>7, <2>1, WorksFrame
  <2>3. UNCHANGED <<spc, at, fd, torrents, received, files, cmds>>
    BY <2>2 DEF Frame, server
  <2> SUFFICES ASSUME NEW c \in Conn, c = fd[at], spc = "body"
      PROVE /\ \A j \in 1..Len(up'[c]) :
                 up'[c][j].val = <<c[1], Last.name, received + j>>
            /\ Live(c)' => /\ ask'[c[1]].name = Last.name
                           /\ Len(got'[c[1]]) = received + Len(up'[c])
    BY <1>5, <2>3
  <2>4. /\ \A j \in 1..Len(up[c]) :
             up[c][j].val = <<c[1], Last.name, received + j>>
        /\ Live(c) => /\ ask[c[1]].name = Last.name
                      /\ Len(got[c[1]]) = received + Len(up[c])
        /\ received \in Nat
    BY Receiving DEF Storing
  <2>5. c[1] \in Users /\ c = <<c[1], c[2]>>
    BY <2>4, ConnMember
  <2>6. CASE c[1] # u
    <3>1. /\ up'[c] = up[c] /\ cpc'[c[1]] = cpc[c[1]]
          /\ ask'[c[1]] = ask[c[1]] /\ got'[c[1]] = got[c[1]]
      BY <2>1, <2>2, <2>5, <2>6 DEF Frame
    <3>2. Live(c)' => Live(c)
      BY <2>3, <3>1 DEF Live
    <3> QED
      BY <2>4, <3>1, <3>2
  <2>7. CASE c[1] = u /\ c # Sock(u)
    <3>1. up'[c] = up[c]
      BY <2>2, <2>7 DEF Frame
    <3>2. ~(Live(c)')
      BY <2>3, <2>5, <2>7 DEF Live, Sock
    <3> QED
      BY <2>4, <3>1, <3>2
  <2>8. CASE c = Sock(u)
    <3>1. cpc[u] \in {"wait21", "body"}
      BY <2>1, <2>8 DEF Inv, BodyOK
    <3>2. CASE Accepted(u)
      <4>1. up' = up /\ got' = got /\ ask' = [ask EXCEPT ![u].id = Value(u)]
        BY <3>2 DEF Accepted
      <4>2. ask'[u].name = ask[u].name
        BY <1>1, <4>1 DEF Typed, ClientTyped
      <4> QED
        BY <2>1, <2>4, <2>8, <4>1, <4>2
    <3>3. CASE SendBlock(u)
      <4> DEFINE sent == Append(got[u], Body(u, ask[u].name)[Len(got[u]) + 1])
                 m == Msg(0, Body(u, ask[u].name)[Len(sent)])
      <4>1. /\ up' = [up EXCEPT ![Sock(u)] = Append(@, m)]
            /\ \/ Ends(u, "menu")
               \/ got' = [got EXCEPT ![u] = sent] /\ UNCHANGED ask
        BY <3>3 DEF SendBlock, CloseSocket
      <4>2. /\ Len(sent) = Len(got[u]) + 1 /\ Len(got[u]) < Size
            /\ Len(got[u]) \in Nat
            /\ Body(u, ask[u].name)[Len(got[u]) + 1] \in Chunk
        BY <1>1, <2>1, <3>3, NextBlock, LenProperties DEF Typed, ClientTyped
      <4>3. m.val = <<u, ask[u].name, Len(got[u]) + 1>> /\ m.type = 0
        <5>1. Len(got[u]) + 1 \in 1..Size
          <6>1. Len(got[u]) < Size /\ Len(got[u]) \in Nat
            BY <4>2
          <6>2. Size \in Nat
            BY DEF TrackerAssumption
          <6> QED
            BY <6>1, <6>2
        <5> QED
          BY <4>2, <5>1 DEF Body, Msg
      <4>4. ask[u].name = Last.name /\ Len(got[u]) = received + Len(up[c])
        BY <2>1, <2>4, <2>8
      <4> HIDE DEF m, sent
      <4>5. up'[c] = Append(up[c], m)
        BY <1>1, <2>1, <2>8, <4>1 DEF Typed, WireTyped
      <4>6. /\ Len(up'[c]) = Len(up[c]) + 1 /\ Len(up[c]) \in Nat
            /\ \A j \in 1..Len(up[c]) : up'[c][j] = up[c][j]
            /\ up'[c][Len(up[c]) + 1] = m
        <5>1. up[c] \in Seq(UpMsg(Len(torrents)) \union {m})
          BY <1>1, SeqMonotonic DEF Typed, WireTyped
        <5> QED
          BY <4>5, <5>1, AppendProperties, LenProperties
      <4>7. \A j \in 1..Len(up'[c]) :
              up'[c][j].val = <<c[1], Last.name, received + j>>
        <5>1. TAKE j \in 1..Len(up'[c])
        <5>2. CASE j \in 1..Len(up[c])
          BY <2>4, <4>6, <5>2
        <5>3. CASE j = Len(up[c]) + 1
          <6>1. Len(got[u]) + 1 = received + j
            BY <2>4, <4>4, <4>6, <5>3
          <6> QED
            BY <2>1, <2>8, <4>3, <4>4, <4>6, <5>3, <6>1
        <5> QED
          BY <4>6, <5>2, <5>3
      <4>8. CASE Ends(u, "menu")
        <5>1. cpc'[u] = "menu"
          BY <1>1, <4>8, EndsFrame
        <5> QED
          BY <2>1, <2>8, <4>7, <5>1 DEF Live
      <4>9. CASE got' = [got EXCEPT ![u] = sent] /\ UNCHANGED ask
        <5>1. got'[u] = sent
          BY <1>1, <4>9 DEF Typed, ClientTyped
        <5>2. Len(got'[u]) = received + Len(up'[c])
          <6>1. PICK r \in Nat, l \in Nat : r = received /\ l = Len(up[c])
            BY <2>4, <4>6
          <6>2. /\ Len(got[u]) = r + l
                /\ Len(got'[u]) = Len(got[u]) + 1
                /\ Len(up'[c]) = l + 1
            BY <4>2, <4>4, <4>6, <5>1, <6>1
          <6>3. (r + l) + 1 = r + (l + 1)
            OBVIOUS
          <6> QED
            BY <6>1, <6>2, <6>3
        <5> QED
          BY <2>1, <2>8, <4>4, <4>7, <4>9, <5>2
      <4> QED
        BY <4>1, <4>8, <4>9
    <3>4. CASE Quits(u)
      <4>1. /\ up' = up
            /\ Ends(u, "menu") \/ Ends(u, "dead")
        BY <3>4, QuitEnds
      <4>2. cpc'[u] \in {"menu", "dead"}
        BY <1>1, <4>1, EndsFrame
      <4> QED
        BY <2>1, <2>4, <2>8, <4>1, <4>2 DEF Live
    <3>5. ~(AskForFile(u) \/ RecvFile(u) \/ FileCut(u) \/ StorePeers(u))
      BY <3>1 DEF AskForFile, RecvFile, FileCut, StorePeers, Answer
    <3> QED
      BY <1>7, <3>2, <3>3, <3>4, <3>5 DEF Works
  <2> QED
    BY <2>6, <2>7, <2>8
<1>8. ASSUME NEW u \in Users, NoTracker(u) PROVE BodyRight'
  <2>1. /\ cpc' = [cpc EXCEPT ![u] = "dead"]
        /\ UNCHANGED <<server, up, cmds, ask, got>>
    BY <1>8 DEF NoTracker
  <2> SUFFICES ASSUME NEW c \in Conn, c = fd[at], spc = "body"
      PROVE /\ \A j \in 1..Len(up'[c]) :
                 up'[c][j].val = <<c[1], Last.name, received + j>>
            /\ Live(c)' => /\ ask'[c[1]].name = Last.name
                           /\ Len(got'[c[1]]) = received + Len(up'[c])
    BY <1>5, <2>1 DEF server
  <2>2. /\ \A j \in 1..Len(up[c]) :
             up[c][j].val = <<c[1], Last.name, received + j>>
        /\ Live(c) => /\ ask[c[1]].name = Last.name
                      /\ Len(got[c[1]]) = received + Len(up[c])
    BY Receiving DEF Storing
  <2>3. \A v \in Users : cpc'[v] = cpc[v] \/ cpc'[v] = "dead"
    BY <1>1, <2>1 DEF Typed, ClientTyped
  <2>4. c[1] \in Users
    BY ConnMember
  <2>5. Live(c)' => Live(c)
    BY <2>1, <2>3, <2>4 DEF Live
  <2> QED
    BY <2>1, <2>2, <2>5
<1> QED
  BY <1>2, <1>3, <1>4, <1>6, <1>7, <1>8, NextCases DEF Bodies

-----------------------------------------------------------------------------
(* The blocks on their way to a client *)

LEMMA FetchingKeep ==
  ASSUME Inv, Next, NEW u \in Users, Fetching(u), cpc'[u] = cpc[u],
         cmds'[u] = cmds[u], ask'[u] = ask[u], got'[u] = got[u],
         cpc[u] = "file" => down'[Sock(u)] = down[Sock(u)]
  PROVE  Fetching(u)'
<1> SUFFICES ASSUME cpc[u] = "file" PROVE Fetching(u)'
  BY DEF Fetching
<1> DEFINE id == ask[u].id
<1>1. Busy(u) /\ Typed /\ CountsOK
  BY DEF Busy, Inv, Typed
<1>2. Sock(u) \in Conn
  BY <1>1, SockLive
<1>3. id \in DOMAIN torrents
  BY <1>1, <1>2, SockTalk DEF Talk, Inv
<1>4. torrents'[id].name = torrents[id].name
  BY <1>3, GrowsStep DEF Grows
<1>5. \A n, o : Sole(torrents', n, o) => Sole(torrents, n, o)
  BY GrowsStep, SoleGrows
<1>6. Sock(u)' = Sock(u)
  BY DEF Sock
<1> QED
  BY <1>4, <1>5, <1>6 DEF Fetching

(* Who waits for a file sends no other request. *)
LEMMA OtherReply ==
  ASSUME Inv, NEW i \in Slot, NEW t \in 12..15, Request(i, t),
         NEW u \in Users, cpc[u] = "file"
  PROVE  fd[i] # Sock(u)
<1>1. Typed /\ CountsOK /\ Busy(u) /\ t \in 12..16 /\ fd[i] \in Conn
  BY ServedSlot DEF Inv, Typed, Busy, Request
<1>2. Sock(u) \in Conn /\ Live(Sock(u)) /\ Sock(u)[1] = u
  BY <1>1, SockLive
<1>3. ChannelOK(fd[i])
  BY <1>1 DEF Inv
<1>4. Live(fd[i]) => cpc[fd[i][1]] # "file"
  <2>1. Live(fd[i]) => LET v == fd[i][1]
                       IN  /\ t = 12 => cpc[v] = "wait21"
                           /\ t = 13 => cpc[v] = "wait31"
                           /\ t = 14 => cpc[v] = "wait41"
                           /\ t = 15 => cpc[v] = "wait51"
    BY <1>1, <1>3, Taken
  <2> QED
    BY <2>1
<1> QED
  BY <1>2, <1>4

LEMMA WireRightStep ==
  ASSUME Inv, Next, FilesRight, WireRight
  PROVE  WireRight'
<1>1. Typed /\ CountsOK /\ \A c \in Conn : ChannelOK(c)
  BY DEF Inv, Typed
<1>2. ASSUME UNCHANGED client,
             \A u \in Users : cpc[u] = "file" => down'[Sock(u)] = down[Sock(u)]
      PROVE  WireRight'
  BY <1>2, FetchingKeep DEF WireRight, client
<1>3. ASSUME NEW i \in Slot, NEW t \in 12..15, Request(i, t), UNCHANGED client,
             \E m : Reply(i, m)
      PROVE  WireRight'
  <2>1. PICK m : down' = IF fd[i] \in closed THEN down
                                           ELSE [down EXCEPT ![fd[i]] = Append(@, m)]
    BY <1>3 DEF Reply, Asker
  <2>2. \A u \in Users : cpc[u] = "file" => fd[i] # Sock(u)
    BY <1>3, OtherReply
  <2>3. \A u \in Users : cpc[u] = "file" => Sock(u) \in Conn
    BY <1>1, SockLive DEF Busy
  <2>4. \A u \in Users : cpc[u] = "file" => down'[Sock(u)] = down[Sock(u)]
    BY <1>1, <2>1, <2>2, <2>3 DEF Typed, WireTyped
  <2> QED
    BY <1>2, <1>3, <2>4
<1>4. CASE Accept \/ Looks \/ Disconnect \/ Bodies
  <2>1. UNCHANGED client /\ UNCHANGED down
    BY <1>4 DEF Accept, Looks, Disconnect, Bodies, StartScan, EndScan,
       ServerDies, RecvBody, BodyCut
  <2> QED
    BY <1>2, <2>1
<1>5. CASE Answers \/ UploadTorrentInfo
  <2>1. \E i \in Slot : \E t \in 12..15 :
          Request(i, t) /\ UNCHANGED client /\ \E m : Reply(i, m)
    <3>1. 12 \in 12..15 /\ 13 \in 12..15 /\ 14 \in 12..15 /\ 15 \in 12..15
      OBVIOUS
    <3>2. CASE UploadTorrentInfo
      BY <3>1, <3>2 DEF UploadTorrentInfo
    <3>3. CASE TorrentList
      BY <3>1, <3>3 DEF TorrentList
    <3>4. CASE DownloadTorrent
      BY <3>1, <3>4 DEF DownloadTorrent
    <3>5. CASE RequestPeerlist
      BY <3>1, <3>5 DEF RequestPeerlist
    <3> QED
      BY <1>5, <3>2, <3>3, <3>4, <3>5 DEF Answers
  <2> QED
    BY <1>3, <2>1
<1>6. CASE ReadyToReceive
  <2>1. PICK i \in Slot :
          /\ Request(i, 16)
          /\ down' = IF fd[i] \in closed THEN down
                     ELSE [down EXCEPT ![fd[i]] =
                             @ \o [k \in DOMAIN files[torrents[Parameter(i)].name] |->
                                     Msg(0, files[torrents[Parameter(i)].name][k])]]
          /\ UNCHANGED client
    BY <1>6 DEF ReadyToReceive
  <2>2. fd[i] \in Conn /\ 16 \in 12..16
    BY <1>1, <2>1, ServedSlot DEF Request, Typed
  <2> SUFFICES ASSUME NEW u \in Users, cpc[u] = "file"
               PROVE  Fetching(u)'
    <3>1. ASSUME NEW u \in Users, cpc[u] # "file" PROVE Fetching(u)'
      BY <2>1, <3>1 DEF Fetching, client
    <3> QED
      BY <3>1 DEF WireRight
  <2>3. Sock(u) \in Conn /\ Live(Sock(u)) /\ Sock(u)[1] = u
    BY <1>1, SockLive DEF Busy
  <2>4. CASE Sock(u) # fd[i]
    <3>1. down'[Sock(u)] = down[Sock(u)]
      BY <1>1, <2>1, <2>3, <2>4 DEF Typed, WireTyped
    <3> QED
      BY <2>1, <3>1, FetchingKeep DEF WireRight, client
  <2>5. CASE Sock(u) = fd[i]
    <3> DEFINE id == Parameter(i)
               n == torrents[id].name
               sent == [k \in DOMAIN files[n] |-> Msg(0, files[n][k])]
    <3>1. /\ down[Sock(u)] = <<>>
          /\ ask[u].id = id /\ id \in DOMAIN torrents
      BY <1>1, <2>1, <2>2, <2>3, <2>5, Taken
    <3>2. got[u] = <<>>
      <4>1. Talk(u, up[Sock(u)], down[Sock(u)], cpc[u], ask[u], got[u], torrents)
        BY <1>1, <2>3, SockTalk DEF Busy
      <4>2. up[Sock(u)] # <<>>
        BY <2>1, <2>5 DEF Request
      <4> QED
        BY <4>1, <4>2 DEF Talk
    <3>3. n \in Names /\ files[n] \in Seq(Chunk)
      BY <1>1, <3>1, NameTyped DEF Typed, ServerTyped
    <3>4. down'[Sock(u)] = <<>> \/ down'[Sock(u)] = <<>> \o sent
      BY <1>1, <2>1, <2>3, <2>5, <3>1 DEF Typed, WireTyped
    <3>5. <<>> \o sent = sent
      <4>1. /\ Len(files[n]) \in Nat /\ DOMAIN files[n] = 1..Len(files[n])
            /\ \A k \in DOMAIN files[n] : files[n][k] \in Chunk
        BY <3>3, LenProperties
      <4>2. sent \in [1..Len(files[n]) -> DownMsg]
        BY <4>1, DownTypes
      <4>3. sent \in Seq(DownMsg)
        BY <4>1, <4>2, SeqDef
      <4> HIDE DEF sent
      <4> QED
        BY <4>3, ConcatEmptySeq
    <3>6. torrents'[id].name = n
      BY <3>1, GrowsStep DEF Grows
    <3>7. \A o \in Users : Sole(torrents', n, o) => Right(files[n], o, n)
      BY <3>3, GrowsStep, SoleGrows DEF FilesRight
    <3>8. \A o \in Users : Sole(torrents', n, o) => StreamRight(<<>>, sent, o, n)
      BY <3>3, <3>7, StreamOfFile
    <3>9. ask'[u].id = id /\ got'[u] = <<>> /\ Sock(u)' = Sock(u)
      BY <2>1, <3>1, <3>2 DEF client, Sock
    <3> HIDE DEF sent, id, n
    <3>10. \A o \in Users : Sole(torrents', n, o) =>
             StreamRight(<<>>, down'[Sock(u)], o, n)
      BY <3>4, <3>5, <3>8, StreamEmpty
    <3>11. \A o \in Users : Sole(torrents', torrents'[ask'[u].id].name, o) =>
             StreamRight(got'[u], down'[Sock(u)'], o, torrents'[ask'[u].id].name)
      BY <3>6, <3>9, <3>10 DEF n
    <3> QED
      BY <3>11 DEF Fetching
  <2> QED
    BY <2>4, <2>5
<1>7. ASSUME NEW v \in Users, Types(v) PROVE WireRight'
  <2>1. PICK t, x, wait : Command(v, t, x, wait) /\ <<t, wait>> \in Kinds
    BY <1>1, <1>7, CommandKind
  <2>2. /\ cpc' = [cpc EXCEPT ![v] = wait]
        /\ cmds' = [cmds EXCEPT ![v] = @ + 1]
        /\ ask' = [ask EXCEPT ![v].name = IF t = 12 THEN x ELSE None]
        /\ got' = [got EXCEPT ![v] = <<>>]
        /\ down' = down
        /\ wait # "file"
    BY <2>1 DEF Command, Kinds
  <2> SUFFICES ASSUME NEW u \in Users PROVE Fetching(u)'
    BY DEF WireRight
  <2>3. CASE u = v
    <3>1. cpc'[u] # "file"
      BY <1>1, <2>2, <2>3 DEF Typed, ClientTyped
    <3> QED
      BY <3>1 DEF Fetching
  <2>4. CASE u # v
    <3>1. /\ cpc'[u] = cpc[u] /\ cmds'[u] = cmds[u] /\ ask'[u] = ask[u]
          /\ got'[u] = got[u] /\ down'[Sock(u)] = down[Sock(u)]
      BY <1>1, <2>2, <2>4 DEF Typed, ClientTyped
    <3> QED
      BY <3>1, FetchingKeep DEF WireRight
  <2> QED
    BY <2>3, <2>4
<1>8. ASSUME NEW v \in Users, NoTracker(v) PROVE WireRight'
  <2>1. /\ cpc' = [cpc EXCEPT ![v] = "dead"]
        /\ UNCHANGED <<cmds, ask, got, down>>
    BY <1>8 DEF NoTracker
  <2> SUFFICES ASSUME NEW u \in Users PROVE Fetching(u)'
    BY DEF WireRight
  <2>2. cpc'[u] = "dead" \/ cpc'[u] = cpc[u]
    BY <1>1, <2>1 DEF Typed, ClientTyped
  <2>3. CASE cpc'[u] = "dead"
    BY <2>3 DEF Fetching
  <2>4. CASE cpc'[u] = cpc[u]
    BY <2>1, <2>4, FetchingKeep DEF WireRight
  <2> QED
    BY <2>2, <2>3, <2>4
<1>9. ASSUME NEW v \in Users, Works(v) PROVE WireRight'
  <2>1. Busy(v) /\ Sock(v) \in Conn /\ Sock(v)[1] = v
    BY <1>1, <1>9, WorksBusy, SockLive
  <2>2. Frame(v)
    BY <1>1, <1>9, <2>1, WorksFrame
  <2>3. cmds' = cmds /\ torrents' = torrents
    BY <2>2 DEF Frame, server
  <2>4. ASSUME NEW u \in Users, u # v PROVE Fetching(u)'
    <3>1. cpc'[u] = cpc[u] /\ ask'[u] = ask[u] /\ got'[u] = got[u]
      BY <2>2, <2>4 DEF Frame
    <3>2. cpc[u] = "file" => down'[Sock(u)] = down[Sock(u)]
      <4>1. HAVE cpc[u] = "file"
      <4>2. Sock(u) \in Conn /\ Sock(u)[1] = u
        BY <1>1, <4>1, SockLive DEF Busy
      <4> QED
        BY <2>1, <2>2, <2>4, <4>2 DEF Frame
    <3> QED
      BY <2>3, <3>1, <3>2, FetchingKeep DEF WireRight
  <2>5. CASE cpc'[v] # "file"
    BY <2>4, <2>5 DEF WireRight, Fetching
  <2>6. CASE AskForFile(v)
    <3>1. /\ Answer(v, "wait41")
          /\ down' = [down EXCEPT ![Sock(v)] = Tail(@)]
          /\ got' = got
      BY <2>6 DEF AskForFile
    <3>2. <<"wait41", 41>> \in Replies
      BY DEF Replies
    <3>3. Tail(down[Sock(v)]) = <<>>
      BY <1>1, <2>1, <3>1, <3>2, AnswerKind
    <3>4. got[v] = <<>>
      BY <1>1, <2>1, <3>1, SockTalk DEF Talk, Answer
    <3>5. down'[Sock(v)] = <<>>
      BY <1>1, <2>1, <3>1, <3>3 DEF Typed, WireTyped
    <3>6. got'[v] = <<>> /\ down'[Sock(v)'] = <<>>
      BY <2>3, <3>1, <3>4, <3>5 DEF Sock
    <3>7. Fetching(v)'
      BY <3>6, StreamEmpty DEF Fetching
    <3> QED
      BY <2>4, <3>7 DEF WireRight
  <2>7. CASE RecvFile(v) /\ cpc' = cpc
    <3>1. PICK n \in DOMAIN down[Sock(v)] :
            /\ cpc[v] = "file"
            /\ \/ CloseSocket(v)
               \/ /\ down' = [down EXCEPT ![Sock(v)] = SubSeq(@, n + 1, Len(@))]
                  /\ got' = [got EXCEPT ![v] =
                               got[v] \o [k \in 1..n |-> down[Sock(v)][k].val]]
                  /\ UNCHANGED ask
      BY <2>7 DEF RecvFile
    <3> DEFINE h == [k \in 1..n |-> down[Sock(v)][k].val]
               b == down[Sock(v)]
    <3>2. /\ h \in Seq(Chunk) /\ n \in 1..Len(b)
      <4>1. h \in Seq(Chunk) /\ n \in Nat /\ 1 <= n /\ n <= Len(b)
        BY <1>1, <2>1, <3>1, BlocksTaken
      <4>2. Len(b) \in Nat
        BY <1>1, <2>1, LenProperties DEF Typed, WireTyped
      <4> QED
        BY <4>1, <4>2
    <3>3. ~CloseSocket(v)
      <4>1. CloseSocket(v) => cpc'[v] = "menu"
        BY <1>1 DEF CloseSocket, Ends, Typed, ClientTyped
      <4> QED
        BY <2>7, <3>1, <4>1
    <3>4. /\ b \in Seq(DownMsg) /\ got[v] \in Seq(Chunk)
          /\ down'[Sock(v)] = SubSeq(b, n + 1, Len(b))
          /\ got'[v] = got[v] \o h
          /\ ask'[v] = ask[v]
      BY <1>1, <2>1, <3>1, <3>3 DEF Typed, WireTyped, ClientTyped
    <3>5. h = [k \in 1..n |-> b[k].val]
      OBVIOUS
    <3> HIDE DEF h, b
    <3> DEFINE nm == torrents[ask[v].id].name
    <3>6. \A o \in Users : Sole(torrents, nm, o) => StreamRight(got[v], b, o, nm)
      BY <3>1 DEF WireRight, Fetching, b
    <3>7. \A o \in Users : Sole(torrents, nm, o) =>
            StreamRight(got[v] \o h, SubSeq(b, n + 1, Len(b)), o, nm)
      BY <3>2, <3>4, <3>5, <3>6, StreamTake
    <3>8. Sock(v)' = Sock(v)
      BY <2>3 DEF Sock
    <3>9. Fetching(v)'
      BY <2>3, <3>4, <3>7, <3>8 DEF Fetching
    <3> QED
      BY <2>4, <3>9 DEF WireRight
  <2>8. \/ cpc'[v] # "file" \/ AskForFile(v) \/ (RecvFile(v) /\ cpc' = cpc)
    <3>1. ASSUME NEW next, next # "file", Ends(v, next) PROVE cpc'[v] # "file"
      BY <1>1, <3>1, EndsFrame
    <3>2. ASSUME Accepted(v) PROVE cpc'[v] # "file"
      BY <1>1, <3>2 DEF Accepted, Typed, ClientTyped
    <3>3. ASSUME Ends(v, "menu") \/ Ends(v, "dead") PROVE cpc'[v] # "file"
      BY <3>1, <3>3
    <3>4. ASSUME SendBlock(v) PROVE cpc'[v] # "file"
      <4>1. /\ cpc[v] = "body"
            /\ Ends(v, "menu") \/ cpc' = cpc
        BY <3>4 DEF SendBlock, CloseSocket
      <4> QED
        BY <3>3, <4>1
    <3>5. RecvFile(v) => Ends(v, "menu") \/ cpc' = cpc
      BY DEF RecvFile, CloseSocket
    <3>6. FileCut(v) \/ StorePeers(v) \/ Quits(v) =>
            Ends(v, "menu") \/ Ends(v, "dead")
      BY QuitEnds DEF FileCut, StorePeers, CloseSocket
    <3> QED
      BY <1>9, <3>2, <3>3, <3>4, <3>5, <3>6, Zenon DEF Works
  <2> QED
    BY <2>5, <2>6, <2>7, <2>8
<1> QED
  BY <1>4, <1>5, <1>6, <1>7, <1>8, <1>9, NextCases

-----------------------------------------------------------------------------
(* What the clients got *)

EntryRight(e, ts) ==
  /\ Junk \notin Range(e.data)
  /\ Sole(ts, e.name, ts[e.id].owner)
  => e.data = Body(ts[e.id].owner, e.name)

LEMMA FetchedDef ==
  FetchedRight <=>
    (running => \A u \in Users : \A i \in DOMAIN local[u] :
                  EntryRight(local[u][i], torrents))
  BY DEF FetchedRight, EntryRight, Sole

LEMMA EntryRightKeep ==
  ASSUME NEW e, NEW ts, NEW ts2, Grows(ts, ts2), e.id \in DOMAIN ts,
         EntryRight(e, ts)
  PROVE  EntryRight(e, ts2)
<1>1. ts2[e.id].owner = ts[e.id].owner
  BY DEF Grows
<1>2. Sole(ts2, e.name, ts[e.id].owner) => Sole(ts, e.name, ts[e.id].owner)
  BY SoleGrows
<1> QED
  BY <1>1, <1>2 DEF EntryRight

(* A vector with one more entry. *)
LEMMA LocalAdd ==
  ASSUME Typed, NEW u \in Users, NEW e,
         local' = [local EXCEPT ![u] = Append(@, e)],
         NEW v \in Users, NEW i \in DOMAIN local'[v]
  PROVE  \/ i \in DOMAIN local[v] /\ local'[v][i] = local[v][i]
         \/ v = u /\ local'[v][i] = e
<1>1. CASE v # u
  <2>1. local'[v] = local[v]
    BY <1>1 DEF Typed, ClientTyped
  <2> QED
    BY <2>1
<1>2. CASE v = u
  <2>1. local'[u] = Append(local[u], e)
    BY DEF Typed, ClientTyped
  <2>2. local[u] \in Seq(Held \union {e}) /\ e \in Held \union {e}
    BY SeqMonotonic DEF Typed, ClientTyped
  <2>3. /\ DOMAIN local'[u] = 1..(Len(local[u]) + 1)
        /\ DOMAIN local[u] = 1..Len(local[u]) /\ Len(local[u]) \in Nat
        /\ \A k \in 1..Len(local[u]) : local'[u][k] = local[u][k]
        /\ local'[u][Len(local[u]) + 1] = e
    BY <2>1, <2>2, AppendProperties, LenProperties
  <2>4. CASE i \in DOMAIN local[u]
    BY <1>2, <2>3, <2>4
  <2>5. CASE i = Len(local[u]) + 1
    BY <1>2, <2>3, <2>5
  <2> QED
    BY <1>2, <2>3, <2>4, <2>5
<1> QED
  BY <1>1, <1>2

LEMMA FetchedRightStep ==
  ASSUME Inv, Next, WireRight, FetchedRight
  PROVE  FetchedRight'
<1>1. Typed /\ CountsOK /\ EntriesOK /\ \A c \in Conn : ChannelOK(c)
  BY DEF Inv, Typed
<1>2. ASSUME running PROVE
        \A u \in Users : \A i \in DOMAIN local[u] :
          /\ EntryRight(local[u][i], torrents)
          /\ EntryRight(local[u][i], torrents')
  <2>1. TAKE u \in Users
  <2>2. TAKE i \in DOMAIN local[u]
  <2>3. EntryRight(local[u][i], torrents)
    BY <1>2, FetchedDef
  <2>4. local[u][i].id \in DOMAIN torrents
    BY <1>1, <1>2 DEF EntriesOK, EntryOK
  <2> QED
    BY <2>3, <2>4, GrowsStep, EntryRightKeep
<1>3. (running' => \A u \in Users : \A i \in DOMAIN local'[u] :
                     EntryRight(local'[u][i], torrents'))
      => FetchedRight'
  BY DEF FetchedRight, EntryRight, Sole
<1>4. CASE local' = local /\ (running' => running)
  BY <1>2, <1>3, <1>4
(* A new entry of u. *)
<1>5. ASSUME NEW u \in Users, NEW e, EntryRight(e, torrents),
             local' = [local EXCEPT ![u] = Append(@, e)],
             UNCHANGED <<running, torrents>>
      PROVE  FetchedRight'
  <2> SUFFICES ASSUME running, NEW v \in Users, NEW i \in DOMAIN local'[v]
               PROVE  EntryRight(local'[v][i], torrents)
    BY <1>3, <1>5
  <2>1. \/ i \in DOMAIN local[v] /\ local'[v][i] = local[v][i]
        \/ v = u /\ local'[v][i] = e
    BY <1>1, <1>5, LocalAdd
  <2>2. CASE i \in DOMAIN local[v] /\ local'[v][i] = local[v][i]
    BY <1>2, <2>2
  <2>3. CASE local'[v][i] = e
    BY <1>5, <2>3
  <2> QED
    BY <2>1, <2>2, <2>3
<1>6. CASE \/ Accept \/ Looks \/ Disconnect \/ Answers \/ UploadTorrentInfo
           \/ Bodies \/ ReadyToReceive
  <2>1. local' = local
    BY <1>6, ServerFrame DEF client
  <2>2. running' => running
    BY <1>6
    DEF Accept, Looks, Disconnect, Answers, Bodies, StartScan, EndScan,
        ServerDies, TorrentList, DownloadTorrent, RequestPeerlist,
        UploadTorrentInfo, RecvBody, BodyCut, ReadyToReceive
  <2> QED
    BY <1>4, <2>1, <2>2
<1>7. ASSUME NEW u \in Users, Types(u) \/ NoTracker(u) PROVE FetchedRight'
  <2>1. local' = local /\ running' = running
    BY <1>7 DEF Types, UploadTorrent, GetList, GetTorrent, GetPeers, Command,
                NoTracker, server
  <2> QED
    BY <1>4, <2>1
<1>8. ASSUME NEW u \in Users, Works(u) PROVE FetchedRight'
  <2>1. Busy(u) /\ Sock(u) \in Conn
    BY <1>1, <1>8, WorksBusy, SockLive
  <2>2. UNCHANGED <<running, torrents>>
    BY <1>1, <1>8, <2>1, WorksFrame DEF Frame, server
  <2>3. CASE Accepted(u) \/ AskForFile(u) \/ Quits(u)
    <3>1. local' = local
      BY <2>3, QuitEnds DEF Accepted, AskForFile
    <3> QED
      BY <1>4, <2>2, <3>1
  <2>4. CASE SendBlock(u)
    <3> DEFINE e == Entry(ask[u].id, ask[u].name, Body(u, ask[u].name), 1)
    <3>1. cpc[u] = "body" /\ (\/ local' = local
                              \/ local' = [local EXCEPT ![u] = Append(@, e)])
      BY <2>4 DEF SendBlock
    <3>2. Own(torrents, ask[u].id, ask[u].name, u)
      BY <1>1, <2>1, <3>1, SockTalk DEF Talk
    <3>3. EntryRight(e, torrents)
      BY <3>2 DEF Own, Entry, EntryRight
    <3> HIDE DEF e
    <3> QED
      BY <1>4, <1>5, <2>2, <3>1, <3>3
  <2>5. CASE RecvFile(u)
    <3> DEFINE id == ask[u].id
               nm == torrents[id].name
               o == torrents[id].owner
    <3>1. PICK n \in DOMAIN down[Sock(u)] :
            /\ cpc[u] = "file"
            /\ LET data == got[u] \o [k \in 1..n |-> down[Sock(u)][k].val]
               IN  \/ local' = local
                   \/ /\ Len(data) = Size
                      /\ local' = [local EXCEPT ![u] =
                           Append(@, Entry(id, nm, data, 0))]
      BY <2>5 DEF RecvFile, Received
    <3> DEFINE h == [k \in 1..n |-> down[Sock(u)][k].val]
               b == down[Sock(u)]
               data == got[u] \o h
               e == Entry(id, nm, data, 0)
    <3>2. CASE local' = local
      BY <1>4, <2>2, <3>2
    <3>3. CASE Len(data) = Size /\ local' = [local EXCEPT ![u] = Append(@, e)]
      <4>1. /\ h \in Seq(Chunk) /\ data \in Seq(Chunk)
            /\ id \in DOMAIN torrents
            /\ n \in Nat /\ 1 <= n /\ n <= Len(b)
        BY <1>1, <2>1, <3>1, BlocksTaken
      <4>2. b \in Seq(DownMsg) /\ got[u] \in Seq(Chunk) /\ Len(b) \in Nat
        BY <1>1, <2>1, LenProperties DEF Typed, WireTyped, ClientTyped
      <4>3. n \in 1..Len(b)
        BY <4>1, <4>2
      <4>4. h = [k \in 1..n |-> b[k].val]
        OBVIOUS
      <4>5. o \in Users
        <5>1. torrents \in Seq(Torrent) /\ id \in 1..Len(torrents)
          BY <1>1, <4>1, LenProperties DEF Typed, ServerTyped
        <5>2. torrents[id] \in Torrent
          BY <5>1, ElementOfSeq
        <5> QED
          BY <5>2 DEF Torrent
      <4>6. Sole(torrents, nm, o) => StreamRight(got[u], b, o, nm)
        BY <3>1, <4>5 DEF WireRight, Fetching
      <4>7. e.data = data /\ e.id = id /\ e.name = nm
        BY DEF Entry
      <4>8. data = got[u] \o h
        OBVIOUS
      <4> HIDE DEF h, b, e, data, nm, o, id
      <4>9. Sole(torrents, nm, o) => Right(data, o, nm)
        BY <4>1, <4>2, <4>3, <4>4, <4>6, <4>8, StreamTake
      <4>10. Sole(torrents, nm, o) /\ Junk \notin Range(data) =>
               data = Body(o, nm)
        BY <3>3, <4>1, <4>9, WholeRight
      <4>11. EntryRight(e, torrents)
        BY <4>7, <4>10 DEF EntryRight, o
      <4> QED
        BY <1>5, <2>2, <3>3, <4>11
    <3> QED
      BY <3>1, <3>2, <3>3
  <2>6. CASE FileCut(u)
    <3>1. ~running
      BY <2>6 DEF FileCut
    <3> QED
      BY <2>2, <3>1 DEF FetchedRight
  <2>7. CASE StorePeers(u)
    <3>1. SameEntries(u)
      BY <1>1, <2>1, <2>7, StoreTyped
    <3>2. \A v \in Users : \A i \in DOMAIN local[v] :
            EntryRight(local[v][i], torrents) => EntryRight(local'[v][i], torrents)
      BY <3>1 DEF SameEntries, EntryRight
    <3> QED
      BY <1>2, <1>3, <2>2, <3>1, <3>2 DEF SameEntries
  <2> QED
    BY <1>8, <2>3, <2>4, <2>5, <2>6, <2>7 DEF Works
<1> QED
  BY <1>6, <1>7, <1>8, NextCases

LEMMA InitFetch == Init => Fetch
<1> SUFFICES ASSUME Init PROVE Fetch
  OBVIOUS
<1>1. BodyRight /\ WireRight /\ FetchedRight
  BY DEF Init, BodyRight, WireRight, Fetching, FetchedRight
<1>2. FilesRight
  <2>1. \A o, n : Right(<<>>, o, n)
    <3>1. Len(<<>>) = 0 /\ 1..0 = {}
      OBVIOUS
    <3> QED
      BY <3>1 DEF Right
  <2> QED
    BY <2>1 DEF Init, FilesRight
<1> QED
  BY <1>1, <1>2 DEF Fetch

LEMMA NextFetch == Inv /\ Fetch /\ [Next]_vars => Fetch'
<1> SUFFICES ASSUME Inv, Fetch, [Next]_vars PROVE Fetch'
  OBVIOUS
<1>1. CASE UNCHANGED vars
  BY <1>1 DEF vars, server, client, Fetch, BodyRight, Storing, Last, Live,
              FilesRight, WireRight, Fetching, Sock, FetchedRight
<1>2. CASE Next
  BY <1>2, BodyRightStep, FilesStep, WireRightStep, FetchedRightStep DEF Fetch
<1> QED
  BY <1>1, <1>2

(* FetchedRight: a torrent file that a running tracker delivered, with no   *)
(* junk in it and under a name that one user alone uploads, is block by     *)
(* block the one its owner uploaded, however the commands of the users, the *)
(* deaths of clients and the select loop interleave.                        *)
THEOREM FetchedAlwaysRight == Spec => []FetchedRight
<1>1. Init => Inv /\ Fetch
  BY InitInv, InitFetch
<1>2. Inv /\ Fetch /\ [Next]_vars => (Inv /\ Fetch)'
  BY NextInv, NextFetch
<1>3. Inv /\ Fetch => FetchedRight
  BY DEF Fetch
<1> QED
  BY <1>1, <1>2, <1>3, PTL DEF Spec

=============================================================================
