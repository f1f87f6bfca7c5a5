----------------------------- MODULE SwarmProofs -----------------------------
(***************************************************************************)
(* The safety of the swarm simulation for any number of clients, pieces    *)
(* and slots: types, the global owner lists, friendships and their ledgers,*)
(* and the down tables.                                                    *)
(***************************************************************************)
EXTENDS Swarm, FiniteSetTheorems, SequenceTheorems, TLAPS

USE SwarmAssumption

-----------------------------------------------------------------------------
(* Slots *)

(* No two entries of s are for the same client. *)
Distinct(s) == \A i, j \in DOMAIN s : s[i].peer_id = s[j].peer_id => i = j

(* r is s without its entry for x, in whatever order. *)
IsRemoval(r, s, x) ==
  /\ r \in Seq(PEER)
  /\ Distinct(r)
  /\ Ids(r) = Ids(s) \ {x}
  /\ \A i \in DOMAIN r : \E k \in DOMAIN s : r[i] = s[k]

(* Taking entry n out of s removes the one client named there. *)
LEMMA RemovingOne ==
  ASSUME NEW s \in Seq(PEER), Distinct(s), NEW n \in DOMAIN s,
         NEW r \in Seq(PEER), Len(r) = Len(s) - 1,
         \A i \in DOMAIN r : r[i] = IF i < n THEN s[i] ELSE s[i + 1]
  PROVE  IsRemoval(r, s, s[n].peer_id)
<1>1. /\ Len(s) \in Nat /\ DOMAIN s = 1..Len(s)
      /\ Len(r) \in Nat /\ DOMAIN r = 1..Len(r)
  BY LenProperties
<1>2. \A i \in DOMAIN r : \E k \in DOMAIN s : r[i] = s[k] /\ k # n /\ k = IF i < n THEN i ELSE i + 1
  BY <1>1
<1>3. Distinct(r)
  BY <1>1, <1>2 DEF Distinct
<1>4. Ids(r) \subseteq Ids(s) \ {s[n].peer_id}
  BY <1>2 DEF Distinct, Ids
<1>5. ASSUME NEW k \in DOMAIN s, s[k].peer_id # s[n].peer_id
      PROVE  s[k].peer_id \in Ids(r)
  <2>1. k # n
    BY <1>5
  <2>2. CASE k < n
    <3>1. k \in DOMAIN r /\ r[k] = s[k]
      BY <1>1, <2>2
    <3> QED
      BY <3>1 DEF Ids
  <2>3. CASE k > n
    <3>1. k - 1 \in DOMAIN r /\ r[k - 1] = s[k]
      BY <1>1, <2>3
    <3> QED
      BY <3>1 DEF Ids
  <2> QED
    BY <1>1, <2>1, <2>2, <2>3
<1>6. Ids(s) \ {s[n].peer_id} \subseteq Ids(r)
  BY <1>5 DEF Ids
<1> QED
  BY <1>2, <1>3, <1>4, <1>6 DEF IsRemoval

(* The slots of a kicked friend lose the kicker and nobody else. *)
LEMMA WithoutRemoves ==
  ASSUME NEW s \in Seq(PEER), Distinct(s), NEW c
  PROVE  IsRemoval(Without(s, c), s, c)
<1>1. Len(s) \in Nat /\ DOMAIN s = 1..Len(s)
  BY LenProperties
<1>2. CASE c \notin Ids(s)
  <2>1. Without(s, c) = s
    BY <1>2 DEF Without
  <2>2. Ids(s) = Ids(s) \ {c}
    BY <1>2
  <2> QED
    BY <2>1, <2>2 DEF IsRemoval
<1>3. CASE c \in Ids(s)
  <2>1. PICK n \in DOMAIN s : s[n].peer_id = c
    BY <1>3 DEF Ids
  <2>2. n \in DOMAIN s /\ s[n].peer_id = c /\ \A j \in DOMAIN s : s[j].peer_id = c => n <= j
    <3>1. \A j \in DOMAIN s : s[j].peer_id = c => j = n
      BY <2>1 DEF Distinct
    <3> QED
      BY <1>1, <2>1, <3>1
  <2>3. FirstAt(s, c) \in DOMAIN s /\ s[FirstAt(s, c)].peer_id = c
    BY <2>2 DEF FirstAt
  <2> DEFINE m == FirstAt(s, c)
             r == SubSeq(s, 1, m - 1) \o SubSeq(s, m + 1, Len(s))
  <2>4. Without(s, c) = r
    BY <1>3 DEF Without
  <2>5. m \in 1..Len(s) /\ s[m].peer_id = c
    BY <1>1, <2>3
  <2> HIDE DEF m
  <2>6. \A i \in 1..Len(s) : s[i] \in PEER
    BY ElementOfSeq
  <2>7. /\ SubSeq(s, 1, m - 1) \in Seq(PEER)
        /\ Len(SubSeq(s, 1, m - 1)) = m - 1
        /\ \A i \in 1..m - 1 : SubSeq(s, 1, m - 1)[i] = s[i]
    <3>1. m - 1 \in Int /\ \A i \in 1..m - 1 : s[i] \in PEER
      BY <1>1, <2>5, <2>6
    <3> QED
      BY <1>1, <2>5, <3>1, SubSeqProperties
  <2>8. /\ SubSeq(s, m + 1, Len(s)) \in Seq(PEER)
        /\ Len(SubSeq(s, m + 1, Len(s))) = Len(s) - m
        /\ \A i \in 1..Len(s) - m : SubSeq(s, m + 1, Len(s))[i] = s[m + i]
    <3>1. m + 1 \in Int /\ Len(s) \in Int /\ \A i \in m + 1..Len(s) : s[i] \in PEER
      BY <1>1, <2>5, <2>6
    <3>2. Len(SubSeq(s, m + 1, Len(s))) = IF m + 1 <= Len(s) THEN Len(s) - (m + 1) + 1 ELSE 0
      BY <3>1, SubSeqProperties
    <3>3. \A i \in 1..Len(s) - (m + 1) + 1 : SubSeq(s, m + 1, Len(s))[i] = s[m + 1 + i - 1]
      BY <3>1, SubSeqProperties
    <3>4. SubSeq(s, m + 1, Len(s)) \in Seq(PEER)
      BY <3>1, SubSeqProperties
    <3>5. Len(SubSeq(s, m + 1, Len(s))) = Len(s) - m
      <4>1. CASE m + 1 <= Len(s)
        BY <1>1, <2>5, <3>2, <4>1
      <4>2. CASE ~(m + 1 <= Len(s))
        <5>1. m = Len(s)
          <6>1. m \in Int /\ Len(s) \in Int /\ m <= Len(s)
            BY <1>1, <2>5
          <6> QED
            BY <4>2, <6>1
        <5> QED
          BY <1>1, <3>2, <4>2, <5>1
      <4> QED
        BY <4>1, <4>2
    <3>6. ASSUME NEW i \in 1..Len(s) - m
          PROVE  SubSeq(s, m + 1, Len(s))[i] = s[m + i]
      <4>1. i \in 1..Len(s) - (m + 1) + 1 /\ m + 1 + i - 1 = m + i
        BY <1>1, <2>5
      <4> QED
        BY <3>3, <4>1
    <3> QED
      BY <3>4, <3>5, <3>6
  <2>9. /\ r \in Seq(PEER) /\ Len(r) = Len(s) - 1
        /\ \A i \in 1..Len(r) : r[i] = IF i < m THEN s[i] ELSE s[i + 1]
    <3>1. /\ r \in Seq(PEER)
          /\ Len(r) = (m - 1) + (Len(s) - m)
          /\ \A i \in 1..(m - 1) + (Len(s) - m) :
               r[i] = IF i <= m - 1 THEN SubSeq(s, 1, m - 1)[i]
                                    ELSE SubSeq(s, m + 1, Len(s))[i - (m - 1)]
      BY <2>7, <2>8, ConcatProperties
    <3> HIDE DEF r
    <3>2. ASSUME NEW i \in 1..Len(r) PROVE r[i] = IF i < m THEN s[i] ELSE s[i + 1]
      <4>1. CASE i < m
        BY <1>1, <2>5, <2>7, <3>1, <4>1
      <4>2. CASE ~(i < m)
        <5>1. r[i] = SubSeq(s, m + 1, Len(s))[i - (m - 1)]
          BY <1>1, <2>5, <3>1, <4>2
        <5>2. i - (m - 1) \in 1..Len(s) - m /\ m + (i - (m - 1)) = i + 1
          BY <1>1, <2>5, <3>1, <4>2
        <5> QED
          BY <4>2, <5>1, <5>2, <2>8
      <4> QED
        BY <4>1, <4>2
    <3> QED
      BY <1>1, <2>5, <3>1, <3>2
  <2>10. DOMAIN r = 1..Len(r)
    BY <2>9, LenProperties
  <2> HIDE DEF r
  <2>11. IsRemoval(r, s, s[m].peer_id)
    BY <1>1, <2>5, <2>9, <2>10, RemovingOne
  <2> QED
    BY <2>4, <2>5, <2>11
<1> QED
  BY <1>2, <1>3

(* Sorting keeps the entries. *)
LEMMA SortedKeeps ==
  ASSUME NEW s \in Seq(PEER), Distinct(s), NEW t \in Sorted(s)
  PROVE  /\ t \in Seq(PEER) /\ Len(t) = Len(s) /\ Distinct(t)
         /\ Ids(t) = Ids(s)
         /\ \A i \in DOMAIN t : \E k \in DOMAIN s : t[i] = s[k]
<1>1. Len(s) \in Nat /\ DOMAIN s = 1..Len(s) /\ \A i \in DOMAIN s : s[i] \in PEER
  BY LenProperties, ElementOfSeq
<1>2. PICK f \in Bijection(DOMAIN s, DOMAIN s) : t = [i \in DOMAIN s |-> s[f[i]]]
  BY DEF Sorted
<1>3. /\ f \in [DOMAIN s -> DOMAIN s]
      /\ \A i, j \in DOMAIN s : f[i] = f[j] => i = j
      /\ \A k \in DOMAIN s : \E i \in DOMAIN s : f[i] = k
  BY <1>2 DEF Bijection, Injection, Surjection, IsInjective
<1>4. DOMAIN t = DOMAIN s /\ \A i \in DOMAIN s : f[i] \in DOMAIN s /\ t[i] = s[f[i]]
  BY <1>2, <1>3
<1>5. t \in [1..Len(s) -> PEER]
  BY <1>1, <1>2, <1>3
<1>6. t \in Seq(PEER)
  BY <1>1, <1>5, SeqDef
<1>7. Len(t) = Len(s)
  BY <1>1, <1>4, <1>6, LenProperties
<1>8. Distinct(t)
  <2> SUFFICES ASSUME NEW i \in DOMAIN s, NEW j \in DOMAIN s,
                      t[i].peer_id = t[j].peer_id
               PROVE  i = j
    BY <1>4 DEF Distinct
  <2>1. f[i] \in DOMAIN s /\ f[j] \in DOMAIN s /\ s[f[i]].peer_id = s[f[j]].peer_id
    BY <1>4
  <2>2. f[i] = f[j]
    BY <2>1 DEF Distinct
  <2> QED
    BY <1>3, <2>2
<1>9. Ids(t) = Ids(s)
  BY <1>3, <1>4 DEF Ids
<1> QED
  BY <1>4, <1>6, <1>7, <1>8, <1>9

(* The laziest friend is the last one; the others stay. *)
LEMMA DroppingLast ==
  ASSUME NEW s \in Seq(PEER), Distinct(s), NEW t \in Sorted(s), Len(s) > 0
  PROVE  /\ t[Len(t)].peer_id \in Ids(s)
         /\ IsRemoval(SubSeq(t, 1, Len(t) - 1), s, t[Len(t)].peer_id)
<1>1. /\ t \in Seq(PEER) /\ Len(t) = Len(s) /\ Distinct(t)
      /\ Ids(t) = Ids(s)
      /\ \A i \in DOMAIN t : \E k \in DOMAIN s : t[i] = s[k]
  BY SortedKeeps
<1>2. /\ Len(t) \in Nat /\ Len(t) > 0
      /\ DOMAIN t = 1..Len(t)
      /\ \A i \in 1..Len(t) : t[i] \in PEER
  BY <1>1, LenProperties, ElementOfSeq
<1> DEFINE r == SubSeq(t, 1, Len(t) - 1)
<1>3. /\ r \in Seq(PEER)
      /\ Len(r) = Len(t) - 1
      /\ \A i \in 1..Len(t) - 1 : r[i] = t[i]
  <2>1. Len(t) - 1 \in Int /\ \A i \in 1..Len(t) - 1 : t[i] \in PEER
    BY <1>2
  <2>2. Len(r) = IF 1 <= Len(t) - 1 THEN Len(t) - 1 - 1 + 1 ELSE 0
    BY <2>1, SubSeqProperties
  <2>3. \A i \in 1..Len(t) - 1 - 1 + 1 : r[i] = t[1 + i - 1]
    BY <2>1, SubSeqProperties
  <2> QED
    BY <1>2, <2>1, <2>2, <2>3, SubSeqProperties
<1>4. DOMAIN r = 1..Len(r)
  BY <1>3, LenProperties
<1> HIDE DEF r
<1>5. IsRemoval(r, t, t[Len(t)].peer_id)
  <2>1. \A i \in DOMAIN r : r[i] = IF i < Len(t) THEN t[i] ELSE t[i + 1]
    BY <1>2, <1>3, <1>4
  <2>2. Len(t) \in DOMAIN t
    BY <1>2
  <2> QED
    BY <1>1, <1>3, <2>1, <2>2, RemovingOne
<1>6. t[Len(t)].peer_id \in Ids(s)
  BY <1>1, <1>2 DEF Ids
<1>7. \A i \in DOMAIN r : \E k \in DOMAIN s : r[i] = s[k]
  BY <1>1, <1>5 DEF IsRemoval
<1> QED
  BY <1>1, <1>5, <1>6, <1>7 DEF IsRemoval, r

(* A new entry for a client that is not there yet. *)
LEMMA Adding ==
  ASSUME NEW s \in Seq(PEER), Distinct(s), NEW u \in Clients, u \notin Ids(s)
  PROVE  /\ Append(s, NewPeer(u)) \in Seq(PEER)
         /\ Distinct(Append(s, NewPeer(u)))
         /\ Ids(Append(s, NewPeer(u))) = Ids(s) \union {u}
         /\ \A i \in DOMAIN Append(s, NewPeer(u)) :
              \/ i \in DOMAIN s /\ Append(s, NewPeer(u))[i] = s[i]
              \/ Append(s, NewPeer(u))[i] = NewPeer(u)
<1> DEFINE r == Append(s, NewPeer(u))
<1>1. NewPeer(u) \in PEER /\ NewPeer(u).peer_id = u
  BY DEF NewPeer, PEER
<1>2. Len(s) \in Nat /\ DOMAIN s = 1..Len(s)
  BY LenProperties
<1>3. /\ r \in Seq(PEER) /\ Len(r) = Len(s) + 1
      /\ \A i \in 1..Len(s) : r[i] = s[i]
      /\ r[Len(s) + 1] = NewPeer(u)
  BY <1>1, AppendProperties
<1>4. DOMAIN r = 1..Len(s) + 1
  BY <1>3, LenProperties
<1> HIDE DEF r
<1>5. \A i \in DOMAIN r : i \in DOMAIN s \/ i = Len(s) + 1
  BY <1>2, <1>4
<1>6. \A i \in DOMAIN s : s[i].peer_id # u
  BY DEF Ids
<1>7. Distinct(r)
  BY <1>1, <1>2, <1>3, <1>5, <1>6 DEF Distinct
<1>8. Ids(r) = Ids(s) \union {u}
  <2>1. Ids(r) \subseteq Ids(s) \union {u}
    BY <1>1, <1>2, <1>3, <1>5 DEF Ids
  <2>2. \A i \in DOMAIN s : i \in DOMAIN r /\ r[i] = s[i]
    BY <1>2, <1>3, <1>4
  <2>3. Len(s) + 1 \in DOMAIN r
    BY <1>2, <1>4
  <2> QED
    BY <1>1, <1>3, <2>1, <2>2, <2>3 DEF Ids
<1> QED
  BY <1>2, <1>3, <1>5, <1>7, <1>8 DEF r

(* r is s with the entry e at n. *)
Replaced(r, s, n, e) == r = [s EXCEPT ![n] = e]

(* Counting in one entry changes no identity. *)
LEMMA Counting ==
  ASSUME NEW s \in Seq(PEER), Distinct(s), NEW n \in DOMAIN s,
         NEW e \in PEER, e.peer_id = s[n].peer_id,
         NEW r, Replaced(r, s, n, e)
  PROVE  /\ r \in Seq(PEER) /\ Distinct(r) /\ Ids(r) = Ids(s)
         /\ DOMAIN r = DOMAIN s /\ r[n] = e
         /\ \A i \in DOMAIN s : i # n => r[i] = s[i]
<1>1. Len(s) \in Nat /\ DOMAIN s = 1..Len(s) /\ s \in [1..Len(s) -> PEER]
  BY LenProperties
<1>2. r \in [1..Len(s) -> PEER]
  BY <1>1 DEF Replaced
<1>3. r \in Seq(PEER)
  BY <1>1, <1>2, SeqDef
<1>4. /\ DOMAIN r = DOMAIN s /\ r[n] = e
      /\ \A i \in DOMAIN s : i # n => r[i] = s[i]
  BY <1>1 DEF Replaced
<1>5. \A i \in DOMAIN s : r[i].peer_id = s[i].peer_id
  BY <1>4
<1>6. Distinct(r) /\ Ids(r) = Ids(s)
  BY <1>4, <1>5 DEF Distinct, Ids
<1> QED
  BY <1>3, <1>4, <1>6

(* The entry for c is found where it is. *)
LEMMA FirstIsThere ==
  ASSUME NEW s \in Seq(PEER), Distinct(s), NEW c \in Ids(s)
  PROVE  FirstAt(s, c) \in DOMAIN s /\ s[FirstAt(s, c)].peer_id = c
<1>1. PICK n \in DOMAIN s : s[n].peer_id = c
  BY DEF Ids
<1>2. n \in Int
  BY LenProperties
<1>3. \A j \in DOMAIN s : s[j].peer_id = c => n <= j
  <2>1. \A j \in DOMAIN s : s[j].peer_id = c => j = n
    BY <1>1 DEF Distinct
  <2> QED
    BY <1>2, <2>1
<1> QED
  BY <1>1, <1>3 DEF FirstAt

-----------------------------------------------------------------------------
(* Friendships and their ledgers under the three changes *)

(* The slots hold no client twice and not their owner, and are mutual. *)
Mutual(fs) ==
  \A c \in Clients :
    /\ Distinct(fs[c])
    /\ c \notin Ids(fs[c])
    /\ \A d \in Clients : d \in Ids(fs[c]) => c \in Ids(fs[d])

Friends(fs) == fs \in [Clients -> Seq(PEER)]
Ledgers(fs) ==
  \A c, d \in Clients : \A i \in DOMAIN fs[c], j \in DOMAIN fs[d] :
    fs[c][i].peer_id = d /\ fs[d][j].peer_id = c
    => /\ fs[c][i].up_number = fs[d][j].down_number
       /\ fs[c][i].down_number = fs[d][j].up_number

Society(fs) == Friends(fs) /\ Mutual(fs) /\ Ledgers(fs)

(* g is fs with the slots r of c and the slots q of f. *)
Updated(g, fs, c, r, f, q) == g = [fs EXCEPT ![c] = r, ![f] = q]
CountedUp(s, i) == [s EXCEPT ![i].up_number = @ + 1]
CountedDown(s, i) == [s EXCEPT ![i].down_number = @ + 1]

LEMMA Updating ==
  ASSUME NEW fs, Friends(fs), NEW c \in Clients, NEW f \in Clients, c # f,
         NEW r \in Seq(PEER), NEW q \in Seq(PEER),
         NEW g, Updated(g, fs, c, r, f, q)
  PROVE  /\ Friends(g) /\ g[c] = r /\ g[f] = q
         /\ \A d \in Clients : d # c /\ d # f => g[d] = fs[d]
  BY DEF Friends, Updated

LEMMA FriendsAreClients ==
  ASSUME NEW fs, Friends(fs), NEW c \in Clients
  PROVE  /\ Ids(fs[c]) \subseteq Clients
         /\ fs[c] \in Seq(PEER)
         /\ \A i \in DOMAIN fs[c] : fs[c][i] \in PEER
<1>1. fs[c] \in Seq(PEER)
  BY DEF Friends
<1>2. \A i \in DOMAIN fs[c] : fs[c][i] \in PEER
  BY <1>1, LenProperties, ElementOfSeq
<1> QED
  BY <1>1, <1>2 DEF Ids, PEER

(* A kick takes both entries of a friendship away. *)
LEMMA Unfriending ==
  ASSUME NEW fs, Society(fs), NEW c \in Clients, NEW f \in Clients, c # f,
         NEW r, IsRemoval(r, fs[c], f),
         NEW q, IsRemoval(q, fs[f], c),
         NEW g, Updated(g, fs, c, r, f, q)
  PROVE  Society(g)
<1>1. /\ Friends(g)
      /\ g[c] = r /\ g[f] = q
      /\ \A d \in Clients : d # c /\ d # f => g[d] = fs[d]
  BY Updating DEF Society, IsRemoval
<1>2. \A d \in Clients : Distinct(g[d])
  BY <1>1 DEF Society, Mutual, IsRemoval
<1>3. /\ Ids(g[c]) = Ids(fs[c]) \ {f}
      /\ Ids(g[f]) = Ids(fs[f]) \ {c}
      /\ \A d \in Clients : d # c /\ d # f => Ids(g[d]) = Ids(fs[d])
  BY <1>1 DEF IsRemoval
<1>4. Mutual(g)
  <2>1. \A d \in Clients : d \notin Ids(g[d])
    BY <1>3 DEF Society, Mutual
  <2>2. ASSUME NEW a \in Clients, NEW b \in Clients, b \in Ids(g[a])
        PROVE  a \in Ids(g[b])
    <3>1. b \in Ids(fs[a])
      BY <1>3, <2>2
    <3>2. a \in Ids(fs[b])
      BY <3>1 DEF Society, Mutual
    <3>3. ~(a = c /\ b = f) /\ ~(a = f /\ b = c)
      BY <1>3, <2>2
    <3> QED
      BY <1>3, <3>2, <3>3
  <2> QED
    BY <1>2, <2>1, <2>2 DEF Mutual
<1>5. \A d \in Clients : \A i \in DOMAIN g[d] :
        \E k \in DOMAIN fs[d] : g[d][i] = fs[d][k]
  BY <1>1 DEF IsRemoval
<1>6. Ledgers(g)
  <2> SUFFICES ASSUME NEW a \in Clients, NEW b \in Clients,
                      NEW i \in DOMAIN g[a], NEW j \in DOMAIN g[b],
                      g[a][i].peer_id = b, g[b][j].peer_id = a
               PROVE  /\ g[a][i].up_number = g[b][j].down_number
                      /\ g[a][i].down_number = g[b][j].up_number
    BY DEF Ledgers
  <2>1. PICK k \in DOMAIN fs[a] : g[a][i] = fs[a][k]
    BY <1>5
  <2>2. PICK l \in DOMAIN fs[b] : g[b][j] = fs[b][l]
    BY <1>5
  <2> QED
    BY <2>1, <2>2 DEF Society, Ledgers
<1> QED
  BY <1>1, <1>4, <1>6 DEF Society, Friends

(* A new friendship of two strangers. *)
LEMMA Befriending ==
  ASSUME NEW fs, Society(fs), NEW c \in Clients, NEW u \in Clients, c # u,
         u \notin Ids(fs[c]),
         NEW g, Updated(g, fs, c, Append(fs[c], NewPeer(u)),
                               u, Append(fs[u], NewPeer(c)))
  PROVE  Society(g)
<1> DEFINE r == Append(fs[c], NewPeer(u))
           q == Append(fs[u], NewPeer(c))
<1>1. c \notin Ids(fs[u])
  BY DEF Society, Mutual
<1>2. /\ r \in Seq(PEER) /\ Distinct(r) /\ Ids(r) = Ids(fs[c]) \union {u}
      /\ \A i \in DOMAIN r : \/ i \in DOMAIN fs[c] /\ r[i] = fs[c][i]
                             \/ r[i] = NewPeer(u)
  <2>1. fs[c] \in Seq(PEER) /\ Distinct(fs[c])
    BY DEF Society, Friends, Mutual
  <2> QED
    BY <2>1, Adding
<1>3. /\ q \in Seq(PEER) /\ Distinct(q) /\ Ids(q) = Ids(fs[u]) \union {c}
      /\ \A i \in DOMAIN q : \/ i \in DOMAIN fs[u] /\ q[i] = fs[u][i]
                             \/ q[i] = NewPeer(c)
  <2>1. fs[u] \in Seq(PEER) /\ Distinct(fs[u])
    BY DEF Society, Friends, Mutual
  <2> QED
    BY <1>1, <2>1, Adding
<1> HIDE DEF r, q
<1>4. /\ Friends(g)
      /\ g[c] = r /\ g[u] = q
      /\ \A d \in Clients : d # c /\ d # u => g[d] = fs[d]
  <2>1. Updated(g, fs, c, r, u, q)
    BY DEF r, q
  <2> QED
    BY <1>2, <1>3, <2>1, Updating DEF Society
<1>5. Mutual(g)
  <2>1. \A d \in Clients : Distinct(g[d])
    BY <1>2, <1>3, <1>4 DEF Society, Mutual
  <2>2. /\ Ids(g[c]) = Ids(fs[c]) \union {u}
        /\ Ids(g[u]) = Ids(fs[u]) \union {c}
        /\ \A d \in Clients : d # c /\ d # u => Ids(g[d]) = Ids(fs[d])
    BY <1>2, <1>3, <1>4
  <2> QED
    BY <2>1, <2>2 DEF Society, Mutual
<1>6. Ledgers(g)
  <2> SUFFICES ASSUME NEW a \in Clients, NEW b \in Clients,
                      NEW i \in DOMAIN g[a], NEW j \in DOMAIN g[b],
                      g[a][i].peer_id = b, g[b][j].peer_id = a
               PROVE  /\ g[a][i].up_number = g[b][j].down_number
                      /\ g[a][i].down_number = g[b][j].up_number
    BY DEF Ledgers
  <2>1. \/ i \in DOMAIN fs[a] /\ g[a][i] = fs[a][i]
        \/ a = c /\ g[a][i] = NewPeer(u)
        \/ a = u /\ g[a][i] = NewPeer(c)
    BY <1>2, <1>3, <1>4
  <2>2. \/ j \in DOMAIN fs[b] /\ g[b][j] = fs[b][j]
        \/ b = c /\ g[b][j] = NewPeer(u)
        \/ b = u /\ g[b][j] = NewPeer(c)
    BY <1>2, <1>3, <1>4
  <2>3. NewPeer(u).peer_id = u /\ NewPeer(c).peer_id = c
    BY DEF NewPeer
  <2>4. CASE i \in DOMAIN fs[a] /\ g[a][i] = fs[a][i]
    <3>1. b \in Ids(fs[a])
      BY <2>4 DEF Ids
    <3>2. j \in DOMAIN fs[b] /\ g[b][j] = fs[b][j]
      BY <2>2, <2>3, <3>1, <1>1
    <3> QED
      BY <2>4, <3>2 DEF Society, Ledgers
  <2>5. CASE \/ a = c /\ g[a][i] = NewPeer(u)
             \/ a = u /\ g[a][i] = NewPeer(c)
    <3>1. ~(j \in DOMAIN fs[b] /\ g[b][j] = fs[b][j])
      <4>1. SUFFICES ASSUME j \in DOMAIN fs[b], g[b][j] = fs[b][j]
                     PROVE  FALSE
        OBVIOUS
      <4>2. a \in Ids(fs[b])
        BY <4>1 DEF Ids
      <4> QED
        BY <2>3, <2>5, <4>2, <1>1
    <3>2. \A x, y \in Clients : /\ NewPeer(x).up_number = NewPeer(y).down_number
                               /\ NewPeer(x).down_number = NewPeer(y).up_number
      BY DEF NewPeer
    <3> QED
      BY <2>2, <2>5, <3>1, <3>2
  <2> QED
    BY <2>1, <2>4, <2>5
<1> QED
  BY <1>4, <1>5, <1>6 DEF Society

(* A friend serves: one download on one side, one upload on the other. *)
LEMMA Serving ==
  ASSUME NEW fs, Society(fs), NEW c \in Clients, NEW i \in DOMAIN fs[c],
         NEW f, f = fs[c][i].peer_id,
         NEW k \in DOMAIN fs[f], fs[f][k].peer_id = c,
         NEW g, Updated(g, fs, c, CountedUp(fs[c], i), f, CountedDown(fs[f], k))
  PROVE  Society(g)
<1>1. /\ f \in Ids(fs[c]) /\ fs[c][i] \in PEER
      /\ f \in Clients
  BY FriendsAreClients DEF Society, Ids
<1>2. f # c
  BY <1>1 DEF Society, Mutual
<1>3. /\ fs[c] \in Seq(PEER) /\ Distinct(fs[c])
      /\ fs[f] \in Seq(PEER) /\ Distinct(fs[f])
  BY <1>1 DEF Society, Friends, Mutual
<1>4. fs[f][k] \in PEER
  BY <1>1, FriendsAreClients DEF Society
<1> DEFINE mine == [fs[c][i] EXCEPT !.up_number = @ + 1]
           its == [fs[f][k] EXCEPT !.down_number = @ + 1]
           r == CountedUp(fs[c], i)
           q == CountedDown(fs[f], k)
<1>5. /\ mine \in PEER /\ mine.peer_id = f
      /\ mine.up_number = fs[c][i].up_number + 1
      /\ mine.down_number = fs[c][i].down_number
  BY <1>1 DEF PEER
<1>6. /\ its \in PEER /\ its.peer_id = c
      /\ its.down_number = fs[f][k].down_number + 1
      /\ its.up_number = fs[f][k].up_number
  BY <1>4 DEF PEER
<1>7. Replaced(r, fs[c], i, mine) /\ Replaced(q, fs[f], k, its)
  BY DEF CountedUp, CountedDown, Replaced
<1> HIDE DEF mine, its, r, q
<1>8. /\ r \in Seq(PEER) /\ Distinct(r) /\ Ids(r) = Ids(fs[c])
      /\ DOMAIN r = DOMAIN fs[c] /\ r[i] = mine
      /\ \A j \in DOMAIN fs[c] : j # i => r[j] = fs[c][j]
  <2>1. mine.peer_id = fs[c][i].peer_id
    BY <1>5
  <2> QED
    BY <1>3, <1>5, <1>7, <2>1, Counting
<1>9. /\ q \in Seq(PEER) /\ Distinct(q) /\ Ids(q) = Ids(fs[f])
      /\ DOMAIN q = DOMAIN fs[f] /\ q[k] = its
      /\ \A j \in DOMAIN fs[f] : j # k => q[j] = fs[f][j]
  <2>1. its.peer_id = fs[f][k].peer_id
    BY <1>6
  <2> QED
    BY <1>3, <1>6, <1>7, <2>1, Counting
<1>10. /\ Friends(g)
       /\ g[c] = r /\ g[f] = q
       /\ \A d \in Clients : d # c /\ d # f => g[d] = fs[d]
  <2>1. Updated(g, fs, c, r, f, q)
    BY DEF r, q
  <2> QED
    BY <1>1, <1>2, <1>8, <1>9, <2>1, Updating DEF Society
<1>11. Mutual(g)
  <2>1. \A d \in Clients : Distinct(g[d]) /\ Ids(g[d]) = Ids(fs[d])
    BY <1>10, <1>8, <1>9 DEF Society, Mutual
  <2> QED
    BY <2>1 DEF Society, Mutual
<1>12. Ledgers(g)
  <2> SUFFICES ASSUME NEW a \in Clients, NEW b \in Clients,
                      NEW m \in DOMAIN g[a], NEW n \in DOMAIN g[b],
                      g[a][m].peer_id = b, g[b][n].peer_id = a
               PROVE  /\ g[a][m].up_number = g[b][n].down_number
                      /\ g[a][m].down_number = g[b][n].up_number
    BY DEF Ledgers
  <2>1. \A d \in Clients : /\ DOMAIN g[d] = DOMAIN fs[d]
                          /\ \A j \in DOMAIN fs[d] : g[d][j].peer_id = fs[d][j].peer_id
    <3> TAKE d \in Clients
    <3>1. CASE d = c
      BY <1>5, <1>10, <1>8, <3>1
    <3>2. CASE d = f
      <4>1. DOMAIN g[d] = DOMAIN fs[d]
        BY <1>9, <1>10, <3>2
      <4>2. \A j \in DOMAIN fs[d] : j # k => g[d][j] = fs[d][j]
        BY <1>9, <1>10, <3>2
      <4>3. g[d][k].peer_id = fs[d][k].peer_id
        BY <1>6, <1>9, <1>10, <3>2
      <4> QED
        BY <4>1, <4>2, <4>3
    <3>3. CASE d # c /\ d # f
      BY <1>10, <3>3
    <3> QED
      BY <3>1, <3>2, <3>3
  <2>2. /\ m \in DOMAIN fs[a] /\ fs[a][m].peer_id = b
        /\ n \in DOMAIN fs[b] /\ fs[b][n].peer_id = a
    BY <2>1
  <2>3. /\ fs[a][m].up_number = fs[b][n].down_number
        /\ fs[a][m].down_number = fs[b][n].up_number
    BY <2>2 DEF Society, Ledgers
  <2>4. CASE a = c /\ b = f
    <3>1. m = i
      BY <1>3, <2>2, <2>4 DEF Distinct
    <3>2. n = k
      <4>1. n \in DOMAIN fs[f] /\ fs[f][n].peer_id = fs[f][k].peer_id
        BY <2>2, <2>4
      <4> QED
        BY <1>3, <4>1 DEF Distinct
    <3>3. g[a][m] = mine /\ g[b][n] = its
      BY <1>8, <1>9, <1>10, <2>4, <3>1, <3>2
    <3> QED
      BY <1>5, <1>6, <2>3, <2>4, <3>1, <3>2, <3>3
  <2>5. CASE a = f /\ b = c
    <3>1. m = k
      BY <1>3, <2>2, <2>5 DEF Distinct
    <3>2. n = i
      BY <1>3, <2>2, <2>5 DEF Distinct
    <3>3. g[a][m] = its /\ g[b][n] = mine
      BY <1>8, <1>9, <1>10, <2>5, <3>1, <3>2
    <3> QED
      BY <1>5, <1>6, <2>3, <2>5, <3>1, <3>2, <3>3
  <2>6. CASE ~(a = c /\ b = f) /\ ~(a = f /\ b = c)
    <3>1. ASSUME NEW d \in Clients, NEW j \in DOMAIN fs[d],
                 ~(d = c /\ fs[d][j].peer_id = f), ~(d = f /\ fs[d][j].peer_id = c)
          PROVE  g[d][j] = fs[d][j]
      <4>1. CASE d = c
        BY <1>10, <1>8, <3>1, <4>1
      <4>2. CASE d = f
        BY <1>10, <1>9, <3>1, <4>2
      <4>3. CASE d # c /\ d # f
        BY <1>10, <4>3
      <4> QED
        BY <4>1, <4>2, <4>3
    <3>2. g[a][m] = fs[a][m] /\ g[b][n] = fs[b][n]
      BY <2>2, <2>6, <3>1
    <3> QED
      BY <2>3, <3>2
  <2> QED
    BY <2>4, <2>5, <2>6
<1> QED
  BY <1>10, <1>11, <1>12 DEF Society

-----------------------------------------------------------------------------
(* Owners *)

(* Every set of naturals has a least element. *)
LEMMA LeastNatural ==
  ASSUME NEW S \in SUBSET Nat, S # {}
  PROVE  \E m \in S : \A n \in S : m <= n
<1> DEFINE R == OpToRel(<, Nat)
<1>1. \A x, y \in Nat : x < y => <<x, y>> \in R
  BY DEF OpToRel
<1>2. IsWellFoundedOn(R, Nat)
  BY NatLessThanWellFounded
<1> HIDE DEF R
<1>3. PICK x \in S : \A y \in S : ~ (<<y, x>> \in R)
  BY <1>2, WFMin
<1>4. x \in Nat /\ \A n \in S : n \in Nat /\ ~(n < x)
  BY <1>1, <1>3
<1>5. \A n \in S : x <= n
  BY <1>4
<1> QED
  BY <1>5

(* One more owner. *)
LEMMA OneMore ==
  ASSUME NEW s \in Seq(Clients), IsInjective(s), NEW c \in Clients, c \notin Range(s)
  PROVE  /\ Append(s, c) \in Seq(Clients)
         /\ IsInjective(Append(s, c))
         /\ Range(Append(s, c)) = Range(s) \union {c}
<1> DEFINE r == Append(s, c)
<1>1. Len(s) \in Nat /\ DOMAIN s = 1..Len(s)
  BY LenProperties
<1>2. /\ r \in Seq(Clients) /\ Len(r) = Len(s) + 1
      /\ \A i \in 1..Len(s) : r[i] = s[i]
      /\ r[Len(s) + 1] = c
  BY AppendProperties
<1>3. DOMAIN r = 1..Len(s) + 1
  BY <1>2, LenProperties
<1> HIDE DEF r
<1>4. /\ \A i \in DOMAIN r : i \in DOMAIN s \/ i = Len(s) + 1
      /\ \A i \in DOMAIN s : i \in DOMAIN r /\ r[i] = s[i] /\ s[i] # c
      /\ Len(s) + 1 \in DOMAIN r
  BY <1>1, <1>2, <1>3 DEF Range
<1>5. IsInjective(r)
  BY <1>2, <1>4 DEF IsInjective
<1>6. Range(r) = Range(s) \union {c}
  BY <1>2, <1>4 DEF Range
<1> QED
  BY <1>2, <1>5, <1>6 DEF r

(* A list that names nobody twice and not c is shorter than the clients are *)
(* many.                                                                    *)
LEMMA SomebodyMissing ==
  ASSUME NEW s \in Seq(Clients), IsInjective(s), NEW c \in Clients, c \notin Range(s)
  PROVE  Len(s) < CLIENT_NUMBER
<1>1. /\ IsFiniteSet(Clients) /\ Cardinality(Clients) = CLIENT_NUMBER
  <2>1. 0 \in Int /\ CLIENT_NUMBER - 1 \in Int /\ ~(0 > CLIENT_NUMBER - 1)
    OBVIOUS
  <2>2. /\ IsFiniteSet(0..CLIENT_NUMBER - 1)
        /\ Cardinality(0..CLIENT_NUMBER - 1) =
             IF 0 > CLIENT_NUMBER - 1 THEN 0 ELSE CLIENT_NUMBER - 1 - 0 + 1
    BY <2>1, FS_Interval
  <2>3. Cardinality(0..CLIENT_NUMBER - 1) = CLIENT_NUMBER - 1 - 0 + 1
    BY <2>1, <2>2
  <2> QED
    BY <2>2, <2>3 DEF Clients
<1>2. /\ IsFiniteSet(Clients \ {c})
      /\ Cardinality(Clients \ {c}) = CLIENT_NUMBER - 1
  BY <1>1, FS_RemoveElement
<1>3. Len(s) \in Nat /\ DOMAIN s = 1..Len(s) /\ s \in [1..Len(s) -> Clients]
  BY LenProperties
<1>4. s \in [1..Len(s) -> Clients \ {c}]
  BY <1>3 DEF Range
<1>5. s \in Injection(1..Len(s), Clients \ {c})
  BY <1>4 DEF Injection
<1>6. Cardinality(1..Len(s)) <= CLIENT_NUMBER - 1
  BY <1>2, <1>5, FS_Injection
<1>7. Cardinality(1..Len(s)) = Len(s)
  <2>1. Cardinality(1..Len(s)) = IF 1 > Len(s) THEN 0 ELSE Len(s) - 1 + 1
    BY <1>3, FS_Interval
  <2> QED
    BY <1>3, <2>1
<1> QED
  BY <1>3, <1>6, <1>7

-----------------------------------------------------------------------------
(* The invariant *)

(* The types but for the friends. *)
Types ==
  /\ phase \in {"kick", "request", "update", "finished"}
  /\ queue \in [1..CLIENT_NUMBER -> Clients]
  /\ pos \in 1..CLIENT_NUMBER + 1
  /\ odd \in BOOLEAN
  /\ pieces \in [Clients -> [Parts -> {-1, 0, 1}]]
  /\ gpieces \in [Parts -> Seq(Clients)]
  /\ passby \in [Clients -> Seq(Clients)]
  /\ betrayers \in [Clients -> SUBSET Clients]
  /\ served \in [Clients -> [Clients -> Nat]]

Owners == GodKnows /\ NamedOnce

Inv == Types /\ Owners /\ Society(friends)

(* A client that misses pieces finds the rarest of them. *)
LEMMA WantedExists ==
  ASSUME Inv, NEW c \in Clients, Incomplete(c)
  PROVE  Wanted(c) # {}
<1>1. PICK p \in Parts : pieces[c][p] # 1
  BY DEF Incomplete
<1>2. gpieces[p] \in Seq(Clients) /\ IsInjective(gpieces[p]) /\ c \notin Range(gpieces[p])
  BY <1>1 DEF Inv, Types, Owners, GodKnows, NamedOnce
<1>3. Len(gpieces[p]) < CLIENT_NUMBER
  BY <1>2, SomebodyMissing
<1> QED
  BY <1>1, <1>3 DEF Wanted

LEMMA RarestWanted ==
  ASSUME Inv, NEW c \in Clients, Incomplete(c)
  PROVE  Rarest(c) \in Parts /\ pieces[c][Rarest(c)] # 1
<1> DEFINE W == Wanted(c)
           lens == {Len(gpieces[p]) : p \in W}
<1>1. W # {} /\ W \subseteq Parts /\ W \subseteq Nat
  BY WantedExists DEF Wanted, Parts
<1>2. \A p \in W : Len(gpieces[p]) \in Nat
  BY <1>1, LenProperties DEF Inv, Types
<1> HIDE DEF W
<1>3. lens \in SUBSET Nat /\ lens # {}
  BY <1>1, <1>2
<1>4. PICK m \in lens : \A n \in lens : m <= n
  BY <1>3, LeastNatural
<1> DEFINE M == {p \in W : Len(gpieces[p]) = m}
<1>5. M \in SUBSET Nat /\ M # {}
  BY <1>1, <1>4
<1>6. PICK r \in M : \A q \in M : r <= q
  BY <1>5, LeastNatural
<1>7. ASSUME NEW q \in W
      PROVE  \/ Len(gpieces[r]) < Len(gpieces[q])
             \/ Len(gpieces[r]) = Len(gpieces[q]) /\ r <= q
  <2>1. Len(gpieces[r]) = m /\ m <= Len(gpieces[q])
    BY <1>4, <1>6
  <2>2. m \in Nat /\ Len(gpieces[q]) \in Nat
    BY <1>2, <1>3, <1>4
  <2>3. CASE Len(gpieces[q]) = m
    BY <1>6, <2>1, <2>3
  <2>4. CASE Len(gpieces[q]) # m
    BY <2>1, <2>2, <2>4
  <2> QED
    BY <2>3, <2>4
<1>8. r \in W
  BY <1>6
<1>9. Rarest(c) \in W
  BY <1>7, <1>8 DEF Rarest, W
<1> QED
  BY <1>9 DEF W, Wanted

LEMMA InitInv == Init => Inv
<1> SUFFICES ASSUME Init PROVE Inv
  OBVIOUS
<1>1. Types
  <2>1. queue \in [1..CLIENT_NUMBER -> Clients]
    BY DEF Init, Orders, Bijection, Injection
  <2>2. 0 \in Clients /\ 1 \in Clients
    BY DEF Clients
  <2>3. <<0, 1>> \in Seq(Clients) /\ <<0>> \in Seq(Clients)
    BY <2>2
  <2>4. gpieces \in [Parts -> Seq(Clients)]
    BY <2>3 DEF Init
  <2>5. passby \in [Clients -> Seq(Clients)]
    BY EmptySeq DEF Init
  <2>6. pieces \in [Clients -> [Parts -> {-1, 0, 1}]]
    BY DEF Init
  <2>7. /\ betrayers \in [Clients -> SUBSET Clients]
        /\ served \in [Clients -> [Clients -> Nat]]
    BY DEF Init
  <2>8. /\ phase \in {"kick", "request", "update", "finished"}
        /\ pos \in 1..CLIENT_NUMBER + 1
        /\ odd \in BOOLEAN
    BY DEF Init
  <2> QED
    BY <2>1, <2>4, <2>5, <2>6, <2>7, <2>8 DEF Types
<1>2. Owners
  <2> SUFFICES ASSUME NEW p \in Parts
               PROVE  /\ Range(gpieces[p]) = {c \in Clients : pieces[c][p] = 1}
                      /\ IsInjective(gpieces[p])
    BY DEF Owners, GodKnows, NamedOnce
  <2>1. \A c \in Clients : pieces[c][p] = 1 <=> Owns0(c, p)
    BY DEF Init
  <2>2. 0 \in Clients /\ 1 \in Clients
    BY DEF Clients
  <2>3. CASE p = 0
    <3>1. gpieces[p] = <<0, 1>>
      BY <2>3 DEF Init
    <3>2. Range(<<0, 1>>) = {0, 1} /\ IsInjective(<<0, 1>>)
      BY DEF Range, IsInjective
    <3>3. {c \in Clients : pieces[c][p] = 1} = {0, 1}
      BY <2>1, <2>2, <2>3 DEF Owns0
    <3> QED
      BY <3>1, <3>2, <3>3
  <2>4. CASE p # 0
    <3>1. gpieces[p] = <<0>>
      BY <2>4 DEF Init
    <3>2. Range(<<0>>) = {0} /\ IsInjective(<<0>>)
      BY DEF Range, IsInjective
    <3>3. {c \in Clients : pieces[c][p] = 1} = {0}
      BY <2>1, <2>2, <2>4 DEF Owns0
    <3> QED
      BY <3>1, <3>2, <3>3
  <2> QED
    BY <2>3, <2>4
<1>3. Society(friends)
  <2>1. \A c \in Clients : friends[c] = <<>>
    BY DEF Init
  <2>2. Friends(friends)
    BY EmptySeq DEF Init, Friends
  <2>3. DOMAIN <<>> = {} /\ Ids(<<>>) = {} /\ Distinct(<<>>)
    BY DEF Ids, Distinct
  <2>4. Mutual(friends)
    BY <2>1, <2>3 DEF Mutual
  <2>5. Ledgers(friends)
    BY <2>1, <2>3 DEF Ledgers
  <2> QED
    BY <2>2, <2>4, <2>5 DEF Society
<1> QED
  BY <1>1, <1>2, <1>3 DEF Inv

-----------------------------------------------------------------------------
(* The steps *)

(* Owners and friends depend on the pieces and the slots alone. *)
LEMMA OwnersKept ==
  ASSUME Owners, UNCHANGED <<pieces, gpieces>>
  PROVE  Owners'
  BY DEF Owners, GodKnows, NamedOnce

(* A piece the client does not own is marked. *)
LEMMA MarkingKeepsOwners ==
  ASSUME Inv, NEW c \in Clients, NEW p \in Parts, pieces[c][p] # 1,
         pieces' = [pieces EXCEPT ![c][p] = -1], UNCHANGED gpieces
  PROVE  Owners' /\ pieces' \in [Clients -> [Parts -> {-1, 0, 1}]]
<1>1. pieces' \in [Clients -> [Parts -> {-1, 0, 1}]]
  BY DEF Inv, Types
<1>2. \A d \in Clients, q \in Parts : pieces'[d][q] = 1 <=> pieces[d][q] = 1
  <2>1. \A d \in Clients, q \in Parts :
          pieces'[d][q] = IF d = c /\ q = p THEN -1 ELSE pieces[d][q]
    BY DEF Inv, Types
  <2>2. -1 # 1
    OBVIOUS
  <2> QED
    BY <2>1, <2>2
<1>3. \A q \in Parts : {d \in Clients : pieces'[d][q] = 1} = {d \in Clients : pieces[d][q] = 1}
  BY <1>2
<1> QED
  BY <1>1, <1>3 DEF Inv, Owners, GodKnows, NamedOnce

LEMMA Advancing ==
  ASSUME Types, Advance, pos <= CLIENT_NUMBER
  PROVE  /\ phase' = phase /\ queue' = queue /\ odd' = odd
         /\ pos' \in 1..CLIENT_NUMBER + 1
  BY DEF Types, Advance

LEMMA KickLaziestInv ==
  ASSUME Inv, NEW c \in Clients, KickLaziest(c)
  PROVE  Inv'
<1>1. PICK t \in Sorted(friends[c]) :
         /\ friends' = [friends EXCEPT ![c] = SubSeq(t, 1, Len(t) - 1),
                                       ![t[Len(t)].peer_id] = Forget(t[Len(t)].peer_id, c)]
         /\ betrayers' = [betrayers EXCEPT ![t[Len(t)].peer_id] = @ \union {c}]
  BY DEF KickLaziest
<1>2. PICK f : f = t[Len(t)].peer_id
  OBVIOUS
<1>3. /\ friends[c] \in Seq(PEER) /\ Distinct(friends[c]) /\ Len(friends[c]) > 0
      /\ Society(friends) /\ Friends(friends)
  BY DEF Inv, Society, Friends, Mutual, KickLaziest
<1>4. f \in Ids(friends[c]) /\ IsRemoval(SubSeq(t, 1, Len(t) - 1), friends[c], f)
  BY <1>2, <1>3, DroppingLast
<1>5. f \in Clients /\ f # c
  BY <1>3, <1>4, FriendsAreClients DEF Society, Mutual
<1>6. IsRemoval(Forget(f, c), friends[f], c)
  <2>1. friends[f] \in Seq(PEER) /\ Distinct(friends[f])
    BY <1>3, <1>5 DEF Society, Friends, Mutual
  <2> QED
    BY <2>1, WithoutRemoves DEF Forget
<1>7. Updated(friends', friends, c, SubSeq(t, 1, Len(t) - 1), f, Forget(f, c))
  BY <1>1, <1>2 DEF Updated
<1>8. Society(friends')
  <2> HIDE DEF KickLaziest
  <2> QED
    BY <1>3, <1>4, <1>5, <1>6, <1>7, Unfriending
<1>9. betrayers' \in [Clients -> SUBSET Clients]
  BY <1>1, <1>2, <1>5 DEF Inv, Types
<1>10. /\ pos <= CLIENT_NUMBER /\ Advance
       /\ UNCHANGED <<pieces, gpieces, served>>
       /\ passby' = [passby EXCEPT ![c] = <<>>]
  BY DEF KickLaziest, Turn
<1>11. passby' \in [Clients -> Seq(Clients)]
  BY <1>10, EmptySeq DEF Inv, Types
<1>12. Types'
  BY <1>9, <1>10, <1>11, Advancing DEF Inv, Types
<1>13. Owners'
  BY <1>10, OwnersKept DEF Inv
<1> QED
  BY <1>8, <1>12, <1>13 DEF Inv

LEMMA KickNobodyInv ==
  ASSUME Inv, NEW c \in Clients, KickNobody(c)
  PROVE  Inv'
<1>1. /\ pos <= CLIENT_NUMBER /\ Advance
      /\ UNCHANGED <<pieces, gpieces, friends, betrayers, served>>
      /\ passby' = [passby EXCEPT ![c] = <<>>]
  BY DEF KickNobody, Turn
<1>2. passby' \in [Clients -> Seq(Clients)]
  BY <1>1, EmptySeq DEF Inv, Types
<1>3. Types'
  BY <1>1, <1>2, Advancing DEF Inv, Types
<1> QED
  BY <1>1, <1>3, OwnersKept DEF Inv

(* What every request for a piece has in common. *)
LEMMA Requesting ==
  ASSUME Inv, NEW c \in Clients, NEW p \in Parts, Requests(c, p), Advance
  PROVE  /\ pieces[c][p] # 1
         /\ phase' = phase /\ queue' = queue /\ odd' = odd
         /\ pos' \in 1..CLIENT_NUMBER + 1
         /\ Downloading(c, p) /\ UNCHANGED gpieces =>
              Owners' /\ pieces' \in [Clients -> [Parts -> {-1, 0, 1}]]
<1>1. pieces[c][p] # 1
  BY RarestWanted DEF Requests
<1>2. pos <= CLIENT_NUMBER
  BY DEF Requests, Turn
<1> QED
  BY <1>1, <1>2, Advancing, MarkingKeepsOwners DEF Inv, Downloading

LEMMA ServedType ==
  ASSUME Types, NEW u \in Clients, NEW c \in Clients, Serves(u, c)
  PROVE  served' \in [Clients -> [Clients -> Nat]]
<1>1. served[u] \in [Clients -> Nat]
  BY DEF Types
<1>2. served[u][c] \in Nat
  BY <1>1
<1>3. served[u][c] + 1 \in Nat
  BY <1>2
<1>4. [served[u] EXCEPT ![c] = @ + 1] \in [Clients -> Nat]
  BY <1>1, <1>3
<1>5. served' = [served EXCEPT ![u] = [served[u] EXCEPT ![c] = @ + 1]]
  BY DEF Serves
<1> QED
  BY <1>4, <1>5 DEF Types

LEMMA FetchFromFriendInv ==
  ASSUME Inv, NEW c \in Clients, FetchFromFriend(c)
  PROVE  Inv'
<1>1. PICK p \in Parts :
         /\ Requests(c, p) /\ Downloading(c, p) /\ Advance
         /\ UNCHANGED <<gpieces, passby, betrayers>>
         /\ \E i \in Helpers(c, p) :
              LET f == friends[c][i].peer_id
              IN  /\ \A j \in Helpers(c, p) : i <= j
                  /\ friends' = [friends EXCEPT ![c][i].up_number = @ + 1,
                                                ![f] = CountDown(f, c)]
                  /\ Serves(f, c)
  BY DEF FetchFromFriend
<1>2. PICK i \in Helpers(c, p) :
         /\ friends' = [friends EXCEPT ![c][i].up_number = @ + 1,
                        ![friends[c][i].peer_id] = CountDown(friends[c][i].peer_id, c)]
         /\ Serves(friends[c][i].peer_id, c)
  BY <1>1
<1>3. PICK f : f = friends[c][i].peer_id
  OBVIOUS
<1>4. i \in DOMAIN friends[c] /\ Society(friends) /\ Friends(friends)
  BY DEF Helpers, Inv, Society
<1>5. f \in Ids(friends[c]) /\ f \in Clients
  BY <1>3, <1>4, FriendsAreClients DEF Ids
<1>6. c \in Ids(friends[f]) /\ f # c
  BY <1>4, <1>5 DEF Society, Mutual
<1>7. friends[f] \in Seq(PEER) /\ Distinct(friends[f])
  BY <1>4, <1>5 DEF Society, Friends, Mutual
<1>8. PICK k : k = FirstAt(friends[f], c)
  OBVIOUS
<1>9. k \in DOMAIN friends[f] /\ friends[f][k].peer_id = c
  BY <1>6, <1>7, <1>8, FirstIsThere
<1>10. CountDown(f, c) = CountedDown(friends[f], k)
  BY <1>6, <1>8 DEF CountDown, CountedDown
<1>11. Updated(friends', friends, c, CountedUp(friends[c], i), f, CountedDown(friends[f], k))
  <2>1. friends' = [friends EXCEPT ![c][i].up_number = @ + 1, ![f] = CountedDown(friends[f], k)]
    BY <1>2, <1>3, <1>10
  <2> QED
    BY <2>1, <1>6 DEF Updated, CountedUp
<1>12. Society(friends')
  BY <1>3, <1>4, <1>9, <1>11, Serving
<1>13. served' \in [Clients -> [Clients -> Nat]]
  BY <1>2, <1>3, <1>5, ServedType DEF Inv
<1>14. Owners' /\ Types'
  BY <1>1, <1>13, Requesting DEF Inv, Types
<1> QED
  BY <1>12, <1>14 DEF Inv

(* Who is asked owns the piece: it is neither the client nor a friend. *)
LEMMA TargetsAreStrangers ==
  ASSUME Inv, NEW c \in Clients, NEW p \in Parts, pieces[c][p] # 1,
         NEW u \in Targets(c, p)
  PROVE  /\ u \in Clients /\ u # c
         /\ Helpers(c, p) = {} => u \notin Ids(friends[c])
<1>1. u \in Clients /\ pieces[u][p] = 1
  BY DEF Targets, Inv, Owners, GodKnows
<1> QED
  BY <1>1 DEF Helpers, Ids

LEMMA MakeFriendInv ==
  ASSUME Inv, NEW c \in Clients, MakeFriend(c)
  PROVE  Inv'
<1>1. PICK p \in Parts : \E u \in Targets(c, p) :
         /\ Requests(c, p) /\ Helpers(c, p) = {}
         /\ Downloading(c, p) /\ Advance
         /\ UNCHANGED <<gpieces, passby, betrayers>>
         /\ friends' = [friends EXCEPT ![c] = Append(@, NewPeer(u)),
                                       ![u] = Append(@, NewPeer(c))]
         /\ Serves(u, c)
  BY DEF MakeFriend
<1>2. PICK u \in Targets(c, p) :
         /\ Requests(c, p) /\ Helpers(c, p) = {}
         /\ Downloading(c, p) /\ Advance
         /\ UNCHANGED <<gpieces, passby, betrayers>>
         /\ friends' = [friends EXCEPT ![c] = Append(@, NewPeer(u)),
                                       ![u] = Append(@, NewPeer(c))]
         /\ Serves(u, c)
  BY <1>1
<1>3. pieces[c][p] # 1
  BY <1>2, Requesting
<1>4. u \in Clients /\ u # c /\ u \notin Ids(friends[c])
  BY <1>2, <1>3, TargetsAreStrangers
<1>5. Society(friends) /\ Friends(friends)
  BY DEF Inv, Society
<1>6. Updated(friends', friends, c, Append(friends[c], NewPeer(u)),
                                 u, Append(friends[u], NewPeer(c)))
  BY <1>2, <1>4, <1>5 DEF Updated, Friends
<1>7. Society(friends')
  BY <1>4, <1>5, <1>6, Befriending
<1>8. served' \in [Clients -> [Clients -> Nat]]
  BY <1>2, <1>4, ServedType DEF Inv
<1>9. Owners' /\ Types'
  BY <1>2, <1>8, Requesting DEF Inv, Types
<1> QED
  BY <1>7, <1>9 DEF Inv

LEMMA PassByInv ==
  ASSUME Inv, NEW c \in Clients, PassBy(c)
  PROVE  Inv'
<1>1. PICK p \in Parts : \E u \in Targets(c, p) :
         /\ Requests(c, p)
         /\ Downloading(c, p) /\ Advance
         /\ UNCHANGED <<gpieces, friends, betrayers>>
         /\ passby' = [passby EXCEPT ![u] = Append(@, c)]
         /\ Serves(u, c)
  BY DEF PassBy
<1>2. PICK u \in Targets(c, p) :
         /\ Requests(c, p)
         /\ Downloading(c, p) /\ Advance
         /\ UNCHANGED <<gpieces, friends, betrayers>>
         /\ passby' = [passby EXCEPT ![u] = Append(@, c)]
         /\ Serves(u, c)
  BY <1>1
<1>3. u \in Clients
  BY <1>2, Requesting, TargetsAreStrangers
<1>4. passby' \in [Clients -> Seq(Clients)]
  <2>1. Append(passby[u], c) \in Seq(Clients)
    BY <1>3, AppendProperties DEF Inv, Types
  <2> QED
    BY <1>2, <1>3, <2>1 DEF Inv, Types
<1>5. served' \in [Clients -> [Clients -> Nat]]
  BY <1>2, <1>3, ServedType DEF Inv
<1>6. Owners' /\ Types'
  BY <1>2, <1>4, <1>5, Requesting DEF Inv, Types
<1> QED
  BY <1>2, <1>6 DEF Inv

LEMMA NothingDoneInv ==
  ASSUME Inv, NEW c \in Clients, NobodyWantsMe(c) \/ NothingToFetch(c)
  PROVE  Inv'
<1>1. /\ pos <= CLIENT_NUMBER /\ Advance
      /\ UNCHANGED <<pieces, gpieces, friends, passby, betrayers, served>>
  BY DEF NobodyWantsMe, NothingToFetch, Requests, Turn
<1>2. Types'
  BY <1>1, Advancing DEF Inv, Types
<1> QED
  BY <1>1, <1>2, OwnersKept DEF Inv

LEMMA ArriveInv ==
  ASSUME Inv, NEW c \in Clients, Arrive(c)
  PROVE  Inv'
<1>1. /\ pos <= CLIENT_NUMBER /\ Advance
      /\ UNCHANGED <<friends, passby, betrayers, served>>
      /\ pieces' = [pieces EXCEPT ![c] =
                     [p \in Parts |-> IF Arrives(c, p) THEN 1 ELSE @[p]]]
      /\ gpieces' = [p \in Parts |-> IF Arrives(c, p) THEN Listed(c, p) ELSE gpieces[p]]
  BY DEF Arrive, Turn
<1>2. pieces' \in [Clients -> [Parts -> {-1, 0, 1}]]
  BY <1>1 DEF Inv, Types
<1>3. \A d \in Clients, p \in Parts :
        pieces'[d][p] = IF d = c /\ Arrives(c, p) THEN 1 ELSE pieces[d][p]
  BY <1>1 DEF Inv, Types
<1>4. ASSUME NEW p \in Parts
      PROVE  /\ gpieces'[p] \in Seq(Clients)
             /\ IsInjective(gpieces'[p])
             /\ Range(gpieces'[p]) = {d \in Clients : pieces'[d][p] = 1}
  <2>1. /\ gpieces[p] \in Seq(Clients)
        /\ IsInjective(gpieces[p])
        /\ Range(gpieces[p]) = {d \in Clients : pieces[d][p] = 1}
    BY DEF Inv, Types, Owners, GodKnows, NamedOnce
  <2>2. CASE Arrives(c, p)
    <3>1. gpieces'[p] = Append(gpieces[p], c)
      BY <1>1, <2>2 DEF Listed
    <3>2. c \notin Range(gpieces[p])
      BY <2>1, <2>2 DEF Arrives
    <3>3. /\ Append(gpieces[p], c) \in Seq(Clients)
          /\ IsInjective(Append(gpieces[p], c))
          /\ Range(Append(gpieces[p], c)) = Range(gpieces[p]) \union {c}
      BY <2>1, <3>2, OneMore
    <3>4. {d \in Clients : pieces'[d][p] = 1} = {d \in Clients : pieces[d][p] = 1} \union {c}
      BY <1>3, <2>2
    <3> QED
      BY <2>1, <3>1, <3>3, <3>4
  <2>3. CASE ~Arrives(c, p)
    <3>1. gpieces'[p] = gpieces[p]
      BY <1>1, <2>3
    <3>2. \A d \in Clients : pieces'[d][p] = pieces[d][p]
      BY <1>3, <2>3
    <3> QED
      BY <2>1, <3>1, <3>2
  <2> QED
    BY <2>2, <2>3
<1>5. gpieces' \in [Parts -> Seq(Clients)]
  BY <1>1, <1>4
<1>6. Owners'
  BY <1>4 DEF Owners, GodKnows, NamedOnce
<1>7. Types'
  BY <1>1, <1>2, <1>5, Advancing DEF Inv, Types
<1> QED
  BY <1>1, <1>6, <1>7 DEF Inv

LEMMA PhaseInv ==
  ASSUME Inv,
         NextPhase("kick", "request") \/ NextPhase("request", "update")
  PROVE  Inv'
<1>1. /\ phase' \in {"request", "update"} /\ pos' = 1
      /\ UNCHANGED <<queue, odd, pieces, gpieces, friends, passby, betrayers, served>>
  BY DEF NextPhase
<1>2. Types'
  BY <1>1 DEF Inv, Types
<1> QED
  BY <1>1, <1>2, OwnersKept DEF Inv

LEMMA EndTurnInv ==
  ASSUME Inv, EndTurn
  PROVE  Inv'
<1>1. /\ UNCHANGED <<pieces, gpieces, friends, passby, served>>
      /\ phase' \in {"kick", "finished"} /\ pos' = 1 /\ odd' = ~odd
      /\ queue' = queue \/ queue' \in Orders
      /\ betrayers' = [c \in Clients |-> {}] \/ betrayers' = betrayers
  BY DEF EndTurn
<1>2. queue' \in [1..CLIENT_NUMBER -> Clients]
  BY <1>1 DEF Inv, Types, Orders, Bijection, Injection
<1>3. betrayers' \in [Clients -> SUBSET Clients]
  BY <1>1 DEF Inv, Types
<1>4. odd' \in BOOLEAN
  BY <1>1 DEF Inv, Types
<1>5. pos' \in 1..CLIENT_NUMBER + 1
  BY <1>1
<1>6. Types'
  BY <1>1, <1>2, <1>3, <1>4, <1>5 DEF Inv, Types
<1> QED
  BY <1>1, <1>6, OwnersKept DEF Inv

LEMMA NextInv == Inv /\ [Next]_vars => Inv'
<1> SUFFICES ASSUME Inv, [Next]_vars PROVE Inv'
  OBVIOUS
<1>1. ASSUME NEW c \in Clients, Act(c) PROVE Inv'
  BY <1>1, KickLaziestInv, KickNobodyInv, FetchFromFriendInv, MakeFriendInv,
     PassByInv, NothingDoneInv, ArriveInv DEF Act
<1>2. CASE UNCHANGED vars
  BY <1>2, OwnersKept DEF vars, Inv, Types
<1>3. CASE Finished
  BY <1>2, <1>3 DEF Finished
<1> QED
  BY <1>1, <1>2, <1>3, PhaseInv, EndTurnInv DEF Next

(* The invariant of the simulation for every number of clients, pieces and  *)
(* slots.                                                                   *)
THEOREM Invariance == Spec => []Inv
<1> QED
  BY InitInv, NextInv, PTL DEF Spec

-----------------------------------------------------------------------------
(* The theorems *)

(* Every variable keeps its type: no index is out of range and no count     *)
(* negative.                                                                *)
THEOREM TypeCorrect == Spec => []TypeOK
<1>1. Inv => TypeOK
  BY DEF Inv, Types, Society, Friends, TypeOK
<1> QED
  BY <1>1, Invariance, PTL

(* The hand-kept owner lists name exactly the owners of each piece.         *)
THEOREM OwnersKnown == Spec => []GodKnows
<1>1. Inv => GodKnows
  BY DEF Inv, Owners
<1> QED
  BY <1>1, Invariance, PTL

(* They name nobody twice.                                                  *)
THEOREM OwnersNamedOnce == Spec => []NamedOnce
<1>1. Inv => NamedOnce
  BY DEF Inv, Owners
<1> QED
  BY <1>1, Invariance, PTL

(* get_rarest_piece never returns -1 to a client that misses a piece: the   *)
(* lists are right, so the list of a missing piece is shorter than the      *)
(* clients are many.                                                        *)
THEOREM RarestFound == Spec => []RarestExists
<1>1. Inv => RarestExists
  BY WantedExists DEF RarestExists
<1> QED
  BY <1>1, Invariance, PTL

(* Slots without doubles are as long as they name clients. *)
LEMMA DistinctCounts ==
  ASSUME NEW s \in Seq(PEER), Distinct(s)
  PROVE  Cardinality(Ids(s)) = Len(s)
<1>1. Len(s) \in Nat /\ DOMAIN s = 1..Len(s)
  BY LenProperties
<1> DEFINE f == [i \in 1..Len(s) |-> s[i].peer_id]
<1>2. f \in Injection(1..Len(s), Ids(s)) /\ f \in Surjection(1..Len(s), Ids(s))
  BY <1>1 DEF Injection, Surjection, IsInjective, Distinct, Ids
<1> HIDE DEF f
<1>3. ExistsBijection(1..Len(s), Ids(s))
  BY <1>2 DEF ExistsBijection, Bijection
<1> QED
  BY <1>1, <1>3, FS_CountingElements

(* Friendship is mutual, without doubles and never with oneself, through    *)
(* kicks and new friendships.                                               *)
THEOREM FriendshipsMutual == Spec => []Friendship
<1>1. Inv => Friendship
  <2> SUFFICES ASSUME Inv, NEW c \in Clients, NEW d \in Clients
               PROVE  /\ c \in Ids(friends[d]) <=> d \in Ids(friends[c])
                      /\ c \notin Ids(friends[c])
                      /\ Cardinality(Ids(friends[c])) = Len(friends[c])
    BY DEF Friendship
  <2>1. friends[c] \in Seq(PEER) /\ Distinct(friends[c])
    BY DEF Inv, Society, Friends, Mutual
  <2> QED
    BY <2>1, DistinctCounts DEF Inv, Society, Mutual
<1> QED
  BY <1>1, Invariance, PTL

(* Two friends keep the same ledger: what one counts as up the other counts *)
(* as down.                                                                 *)
THEOREM SameLedgers == Spec => []LedgersAgree
<1>1. Inv => LedgersAgree
  BY DEF Inv, Society, Ledgers, LedgersAgree
<1> QED
  BY <1>1, Invariance, PTL

(* No step takes an owned piece back. *)
LEMMA OwnedStep ==
  ASSUME Inv, [Next]_vars
  PROVE  \A c \in Clients, p \in Parts : pieces[c][p] = 1 => pieces'[c][p] = 1
<1> SUFFICES ASSUME NEW d \in Clients, NEW q \in Parts, pieces[d][q] = 1
             PROVE  pieces'[d][q] = 1
  OBVIOUS
<1>1. ASSUME NEW c \in Clients, NEW p \in Parts,
             Requests(c, p), Advance, Downloading(c, p)
      PROVE  pieces'[d][q] = 1
  <2>1. pieces[c][p] # 1
    BY <1>1, Requesting
  <2>2. ~(c = d /\ p = q)
    BY <2>1
  <2> QED
    BY <1>1, <2>2 DEF Downloading, Inv, Types
<1>2. ASSUME NEW c \in Clients, Arrive(c) PROVE pieces'[d][q] = 1
  BY <1>2 DEF Arrive, Arrives, Inv, Types
<1>3. ASSUME NEW c \in Clients,
             \/ FetchFromFriend(c) \/ MakeFriend(c) \/ PassBy(c)
      PROVE  pieces'[d][q] = 1
  BY <1>1, <1>3 DEF FetchFromFriend, MakeFriend, PassBy
<1>4. CASE UNCHANGED pieces
  BY <1>4
<1> QED
  BY <1>2, <1>3, <1>4
     DEF Next, Act, KickLaziest, KickNobody, NobodyWantsMe, NothingToFetch,
         NextPhase, EndTurn, Finished, vars

(* An owned piece is never lost or asked for again. *)
THEOREM OwnedKept == Spec => OwnedForEver
<1>1. Spec => [][\A c \in Clients, p \in Parts :
                   pieces[c][p] = 1 => pieces'[c][p] = 1]_vars
  BY OwnedStep, Invariance, PTL DEF Spec
<1> QED
  BY <1>1 DEF OwnedForEver

-----------------------------------------------------------------------------
(* The down tables *)

(* A piece is marked -1 only between its request and its arrival in the     *)
(* same turn. *)
Marking ==
  \A c \in Clients, p \in Parts : pieces[c][p] = -1 =>
    \/ phase = "request" /\ \E k \in 1..pos - 1 : queue[k] = c
    \/ phase = "update" /\ \E k \in pos..CLIENT_NUMBER : queue[k] = c

(* What c asked for. *)
Fetched(c) == {p \in Parts : pieces[c][p] # 0 /\ ~Owns0(c, p)}

(* One entry in a down table for every piece asked for. *)
Counted ==
  \A c \in Clients : /\ IsFiniteSet(Entries(c)) /\ IsFiniteSet(Fetched(c))
                     /\ Cardinality(Entries(c)) = Cardinality(Fetched(c))

Tables ==
  /\ IsInjective(queue)
  /\ \A c \in Clients, p \in Parts : Owns0(c, p) => pieces[c][p] = 1
  /\ Marking
  /\ Counted

LEMMA InitTables == Init => Tables
<1> SUFFICES ASSUME Init PROVE Tables
  OBVIOUS
<1>1. IsInjective(queue)
  BY DEF Init, Orders, Bijection, Injection
<1>2. \A c \in Clients, p \in Parts :
        pieces[c][p] = IF Owns0(c, p) THEN 1 ELSE 0
  BY DEF Init
<1>3. Marking
  BY <1>2 DEF Marking
<1>4. ASSUME NEW c \in Clients
      PROVE  Entries(c) = {} /\ Fetched(c) = {}
  <2>1. \A u \in Clients : served[u][c] = 0
    BY DEF Init
  <2>2. 1..0 = {}
    OBVIOUS
  <2> QED
    BY <1>2, <2>1, <2>2 DEF Entries, Fetched
<1>5. Counted
  BY <1>4, FS_EmptySet DEF Counted
<1> QED
  BY <1>1, <1>2, <1>3, <1>5 DEF Tables

(* One more of a finite set. *)
LEMMA OneEntry ==
  ASSUME Types, NEW u \in Clients, NEW c \in Clients, Serves(u, c),
         NEW d \in Clients
  PROVE  /\ d # c => Entries(d)' = Entries(d)
         /\ d = c => /\ Entries(d)' = Entries(d) \union {<<u, served[u][c] + 1>>}
                     /\ <<u, served[u][c] + 1>> \notin Entries(d)
<1>1. \A v, e \in Clients :
        /\ served[v][e] \in Nat
        /\ served'[v][e] = IF v = u /\ e = c THEN served[v][e] + 1 ELSE served[v][e]
  BY DEF Types, Serves
<1>2. CASE d # c
  <2>1. \A v \in Clients : served'[v][d] = served[v][d]
    BY <1>1, <1>2
  <2> QED
    BY <1>2, <2>1 DEF Entries
<1>3. CASE d = c
  <2>1. PICK n \in Nat : n = served[u][c]
    BY <1>1
  <2>2. 1..n + 1 = (1..n) \union {n + 1} /\ n + 1 \notin 1..n
    OBVIOUS
  <2>3. \A x : x \in Entries(c) <=>
          \E v \in Clients : \E k \in 1..served[v][c] : x = <<v, k>>
    BY DEF Entries
  <2>4. \A x : x \in Entries(c)' <=>
          \E v \in Clients : \E k \in 1..served'[v][c] : x = <<v, k>>
    BY DEF Entries
  <2>5. \A v \in Clients : v # u => served'[v][c] = served[v][c]
    BY <1>1
  <2>6. served'[u][c] = n + 1
    BY <1>1, <2>1
  <2>7. <<u, n + 1>> \notin Entries(c)
    BY <2>1, <2>2, <2>3
  <2>8. Entries(c)' = Entries(c) \union {<<u, n + 1>>}
    <3>1. ASSUME NEW x
          PROVE  x \in Entries(c)' <=> x \in Entries(c) \/ x = <<u, n + 1>>
      <4>1. ASSUME NEW v \in Clients, NEW k \in 1..served'[v][c], x = <<v, k>>
            PROVE  x \in Entries(c) \/ x = <<u, n + 1>>
        <5>1. CASE v = u
          BY <2>1, <2>2, <2>3, <2>6, <4>1, <5>1
        <5>2. CASE v # u
          BY <2>3, <2>5, <4>1, <5>2
        <5> QED
          BY <5>1, <5>2
      <4>2. ASSUME NEW v \in Clients, NEW k \in 1..served[v][c], x = <<v, k>>
            PROVE  x \in Entries(c)'
        <5>1. CASE v = u
          <6>1. k \in 1..served'[u][c]
            BY <2>1, <2>2, <2>6, <4>2, <5>1
          <6> QED
            BY <2>4, <4>2, <5>1, <6>1
        <5>2. CASE v # u
          BY <2>4, <2>5, <4>2, <5>2
        <5> QED
          BY <5>1, <5>2
      <4>3. <<u, n + 1>> \in Entries(c)'
        <5>1. n + 1 \in 1..served'[u][c]
          BY <2>2, <2>6
        <5> QED
          BY <2>4, <5>1
      <4> QED
        BY <2>3, <2>4, <4>1, <4>2, <4>3
    <3> QED
      BY <3>1
  <2> QED
    BY <1>3, <2>1, <2>7, <2>8
<1> QED
  BY <1>2, <1>3

(* A request that is granted: one entry and one piece more. *)
LEMMA GrantTables ==
  ASSUME Inv, Tables, NEW c \in Clients, NEW p \in Parts, NEW u \in Clients,
         Requests(c, p), Downloading(c, p), Advance, Serves(u, c)
  PROVE  Tables'
<1>1. /\ phase = "request" /\ pos <= CLIENT_NUMBER /\ c = queue[pos]
      /\ phase' = phase /\ queue' = queue /\ pos' = pos + 1
      /\ pos \in 1..CLIENT_NUMBER + 1
      /\ queue \in [1..CLIENT_NUMBER -> Clients]
  BY DEF Requests, Turn, Advance, Inv, Types
<1>2. pieces[c][p] = 0
  <2>1. pieces[c][p] # 1 /\ pieces[c][p] \in {-1, 0, 1}
    <3>1. pieces[c][p] # 1
      BY Requesting
    <3>2. pieces \in [Clients -> [Parts -> {-1, 0, 1}]]
      BY DEF Inv, Types
    <3> QED
      BY <3>1, <3>2
  <2>2. \A k \in 1..pos - 1 : queue[k] # c
    <3>1. \A j, k \in 1..CLIENT_NUMBER : queue[j] = queue[k] => j = k
      BY <1>1 DEF Tables, IsInjective
    <3>2. \A k \in 1..pos - 1 : k \in 1..CLIENT_NUMBER /\ k # pos
      BY <1>1
    <3>3. pos \in 1..CLIENT_NUMBER
      BY <1>1
    <3> QED
      BY <1>1, <3>1, <3>2, <3>3
  <2>3. pieces[c][p] # -1
    BY <1>1, <2>2 DEF Tables, Marking
  <2> QED
    BY <2>1, <2>3
<1>3. \A d \in Clients, q \in Parts :
        pieces'[d][q] = IF d = c /\ q = p THEN -1 ELSE pieces[d][q]
  BY DEF Downloading, Inv, Types
<1>4. ~Owns0(c, p)
  BY <1>2 DEF Tables
<1>5. \A d \in Clients, q \in Parts : Owns0(d, q) => pieces'[d][q] = 1
  BY <1>3, <1>4 DEF Tables
<1>6. Marking'
  <2> SUFFICES ASSUME NEW d \in Clients, NEW q \in Parts, pieces'[d][q] = -1
               PROVE  \E k \in 1..pos' - 1 : queue[k] = d
    BY <1>1 DEF Marking
  <2>1. pos \in 1..pos' - 1 /\ \A k \in 1..pos - 1 : k \in 1..pos' - 1
    BY <1>1
  <2>2. CASE d = c
    BY <1>1, <2>1, <2>2
  <2>3. CASE d # c
    <3>1. pieces[d][q] = -1
      BY <1>3, <2>3
    <3> QED
      BY <1>1, <2>1, <3>1 DEF Tables, Marking
  <2> QED
    BY <2>2, <2>3
<1>7. ASSUME NEW d \in Clients
      PROVE  /\ IsFiniteSet(Entries(d)') /\ IsFiniteSet(Fetched(d)')
             /\ Cardinality(Entries(d)') = Cardinality(Fetched(d)')
  <2>1. /\ IsFiniteSet(Entries(d)) /\ IsFiniteSet(Fetched(d))
        /\ Cardinality(Entries(d)) = Cardinality(Fetched(d))
    BY DEF Tables, Counted
  <2>2. CASE d # c
    <3>1. Entries(d)' = Entries(d)
      BY <2>2, OneEntry DEF Inv
    <3>2. Fetched(d)' = Fetched(d)
      BY <1>3, <2>2 DEF Fetched
    <3> QED
      BY <2>1, <3>1, <3>2
  <2>3. CASE d = c
    <3>1. /\ Entries(c)' = Entries(c) \union {<<u, served[u][c] + 1>>}
          /\ <<u, served[u][c] + 1>> \notin Entries(c)
      BY OneEntry DEF Inv
    <3>2. Fetched(c)' = Fetched(c) \union {p} /\ p \notin Fetched(c)
      BY <1>2, <1>3, <1>4 DEF Fetched
    <3>3. /\ Cardinality(Entries(c)') = Cardinality(Entries(c)) + 1
          /\ IsFiniteSet(Entries(c)')
      BY <2>1, <2>3, <3>1, FS_AddElement
    <3>4. /\ Cardinality(Fetched(c)') = Cardinality(Fetched(c)) + 1
          /\ IsFiniteSet(Fetched(c)')
      BY <2>1, <2>3, <3>2, FS_AddElement
    <3> QED
      BY <2>1, <2>3, <3>3, <3>4
  <2> QED
    BY <2>2, <2>3
<1>8. Counted'
  BY <1>7 DEF Counted
<1> QED
  BY <1>1, <1>5, <1>6, <1>8 DEF Tables

(* Nothing is requested. *)
LEMMA KeepTables ==
  ASSUME Tables, UNCHANGED <<pieces, served>>, IsInjective(queue'), Marking'
  PROVE  Tables'
<1>1. \A c : Entries(c)' = Entries(c) /\ Fetched(c)' = Fetched(c)
  BY DEF Entries, Fetched
<1> QED
  BY <1>1 DEF Tables, Counted

LEMMA ArriveTables ==
  ASSUME Inv, Tables, NEW c \in Clients, Arrive(c)
  PROVE  Tables'
<1>1. /\ phase = "update" /\ pos <= CLIENT_NUMBER /\ c = queue[pos]
      /\ UNCHANGED <<phase, queue, served>> /\ pos' = pos + 1
      /\ pos \in 1..CLIENT_NUMBER + 1
  BY DEF Arrive, Turn, Advance, Inv, Types
<1>2. \A d \in Clients, q \in Parts :
        pieces'[d][q] = IF d = c /\ pieces[d][q] = -1 THEN 1 ELSE pieces[d][q]
  BY DEF Arrive, Arrives, Inv, Types
<1>3. \A d \in Clients, q \in Parts : Owns0(d, q) => pieces'[d][q] = 1
  BY <1>2 DEF Tables
<1>4. Marking'
  <2> SUFFICES ASSUME NEW d \in Clients, NEW q \in Parts, pieces'[d][q] = -1
               PROVE  \E k \in pos'..CLIENT_NUMBER : queue[k] = d
    BY <1>1 DEF Marking
  <2>1. d # c /\ pieces[d][q] = -1
    BY <1>2
  <2>2. PICK k \in pos..CLIENT_NUMBER : queue[k] = d
    BY <1>1, <2>1 DEF Tables, Marking
  <2>3. k # pos
    BY <1>1, <2>1, <2>2
  <2>4. k \in pos'..CLIENT_NUMBER
    BY <1>1, <2>2, <2>3
  <2> QED
    BY <2>2, <2>4
<1>5. \A d \in Clients : Entries(d)' = Entries(d) /\ Fetched(d)' = Fetched(d)
  BY <1>1, <1>2 DEF Entries, Fetched
<1>6. Counted'
  BY <1>5 DEF Tables, Counted
<1> QED
  BY <1>1, <1>3, <1>4, <1>6 DEF Tables

LEMMA NextTables == Inv /\ Tables /\ [Next]_vars => Tables'
<1> SUFFICES ASSUME Inv, Tables, [Next]_vars PROVE Tables'
  OBVIOUS
<1>1. /\ pos \in 1..CLIENT_NUMBER + 1 /\ IsInjective(queue) /\ Marking
  BY DEF Inv, Types, Tables
(* A client has its go and nothing is requested or arrives. *)
<1>2. ASSUME Advance, UNCHANGED <<pieces, served>>, phase # "update"
      PROVE  Tables'
  <2>1. pos' = pos + 1 /\ phase' = phase /\ queue' = queue
    BY <1>2 DEF Advance
  <2>2. \A k \in 1..pos - 1 : k \in 1..pos' - 1
    BY <1>1, <2>1
  <2>3. Marking'
    BY <1>1, <1>2, <2>1, <2>2 DEF Marking
  <2> QED
    BY <1>1, <1>2, <2>1, <2>3, KeepTables
<1>3. ASSUME NEW c \in Clients, Act(c) PROVE Tables'
  <2>1. CASE FetchFromFriend(c)
    <3>1. PICK p \in Parts :
            /\ Requests(c, p) /\ Downloading(c, p) /\ Advance
            /\ \E i \in Helpers(c, p) : Serves(friends[c][i].peer_id, c)
      BY <2>1 DEF FetchFromFriend
    <3>2. PICK i \in Helpers(c, p) : Serves(friends[c][i].peer_id, c)
      BY <3>1
    <3>3. friends[c][i].peer_id \in Clients
      <4>1. Friends(friends) /\ friends[c][i].peer_id \in Ids(friends[c])
        BY DEF Inv, Society, Helpers, Ids
      <4> QED
        BY <4>1, FriendsAreClients
    <3> QED
      BY <3>1, <3>2, <3>3, GrantTables
  <2>2. CASE MakeFriend(c) \/ PassBy(c)
    <3>1. PICK p \in Parts :
            /\ Requests(c, p) /\ Downloading(c, p) /\ Advance
            /\ \E u \in Targets(c, p) : Serves(u, c)
      BY <2>2 DEF MakeFriend, PassBy
    <3>2. PICK u \in Targets(c, p) : Serves(u, c)
      BY <3>1
    <3>3. u \in Clients
      BY <3>1, <3>2 DEF Targets, Inv, Owners, GodKnows
    <3> QED
      BY <3>1, <3>2, <3>3, GrantTables
  <2>3. CASE Arrive(c)
    BY <2>3, ArriveTables
  <2>4. CASE \/ KickLaziest(c) \/ KickNobody(c) \/ NobodyWantsMe(c)
             \/ NothingToFetch(c)
    <3>1. Advance /\ UNCHANGED <<pieces, served>> /\ phase # "update"
      BY <2>4 DEF KickLaziest, KickNobody, NobodyWantsMe, NothingToFetch, Requests
    <3> QED
      BY <1>2, <3>1
  <2> QED
    BY <1>3, <2>1, <2>2, <2>3, <2>4 DEF Act
<1>4. ASSUME NEW from, NEW to, NextPhase(from, to),
             <<from, to>> \in {<<"kick", "request">>, <<"request", "update">>}
      PROVE  Tables'
  <2>1. /\ phase = from /\ phase' = to /\ pos = CLIENT_NUMBER + 1 /\ pos' = 1
        /\ UNCHANGED <<queue, pieces, served>>
    BY <1>4 DEF NextPhase
  <2>2. \A k \in 1..pos - 1 : k \in pos'..CLIENT_NUMBER
    BY <2>1
  <2>3. Marking'
    BY <1>1, <1>4, <2>1, <2>2 DEF Marking
  <2> QED
    BY <1>1, <2>1, <2>3, KeepTables
<1>5. CASE EndTurn
  <2>1. /\ phase = "update" /\ pos = CLIENT_NUMBER + 1
        /\ queue' = queue \/ queue' \in Orders
        /\ UNCHANGED <<pieces, served>>
    BY <1>5 DEF EndTurn
  <2>2. IsInjective(queue')
    BY <1>1, <2>1 DEF Orders, Bijection, Injection
  <2>3. \A k : k \notin pos..CLIENT_NUMBER
    BY <2>1
  <2>4. Marking'
    BY <1>1, <2>1, <2>3 DEF Marking
  <2> QED
    BY <2>1, <2>2, <2>4, KeepTables
<1>6. CASE Finished \/ UNCHANGED vars
  <2>1. UNCHANGED <<phase, pos, queue, pieces, served>>
    BY <1>6 DEF Finished, vars
  <2>2. Marking'
    BY <1>1, <2>1 DEF Marking
  <2> QED
    BY <1>1, <2>1, <2>2, KeepTables
<1> QED
  BY <1>3, <1>4, <1>5, <1>6 DEF Next

(* No piece is fetched twice and none arrives unserved: the down tables of  *)
(* all clients together name a client once for every piece it did not start *)
(* with.                                                                    *)
THEOREM FetchedExactlyOnce == Spec => []FetchedOnce
<1>1. Init => Inv /\ Tables
  BY InitInv, InitTables
<1>2. Inv /\ Tables /\ [Next]_vars => (Inv /\ Tables)'
  BY NextInv, NextTables
<1>3. Tables => FetchedOnce
  BY DEF Tables, Counted, FetchedOnce, Fetched
<1> QED
  BY <1>1, <1>2, <1>3, PTL DEF Spec
=============================================================================
