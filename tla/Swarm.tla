-------------------------------- MODULE Swarm -------------------------------
(***************************************************************************)
(* The peer selection algorithm of algorithm/: CLIENT_NUMBER clients       *)
(* distribute PIECES_NUMBER pieces in turns.  In a turn every client, in a *)
(* shuffled order, first kicks its laziest friend and its passers-by, then *)
(* requests its rarest missing piece, then the granted pieces arrive.      *)
(* algorithmcpp.cpp is the loop over the turns, client_t.{h,cpp} the       *)
(* clients.                                                                *)
(***************************************************************************)
EXTENDS Integers, Sequences, FiniteSets, Functions

CONSTANTS
  CLIENT_NUMBER,
  PIECES_NUMBER,
  UP_SLOT_FRIEND_SIZE,   \* friends a client has room for
  UP_SLOT_PASSBY_SIZE    \* one-turn downloads a client has room for

ASSUME SwarmAssumption ==
  /\ CLIENT_NUMBER \in Nat \ {0, 1}
  /\ PIECES_NUMBER \in Nat \ {0}
  /\ UP_SLOT_FRIEND_SIZE \in Nat \ {0}
  /\ UP_SLOT_PASSBY_SIZE \in Nat

Clients == 0..CLIENT_NUMBER - 1
Parts == 0..PIECES_NUMBER - 1

VARIABLES
  phase,       \* the loop of the turn that is running
  queue,       \* action_queue: the order of the clients in this turn
  pos,         \* how many of them have had their go in this phase
  odd,         \* is turn odd?
  pieces,      \* pieces[c][p]: 1 owned, 0 missing, -1 downloading
  gpieces,     \* G_pieces: per piece the list of its owners
  friends,     \* up_friend_slot: a list of PEER records
  passby,      \* up_passby_slot
  betrayers,   \* betrayer_list
  served       \* down_table of u: how often it names c

vars == <<phase, queue, pos, odd, pieces, gpieces, friends, passby, betrayers,
          served>>

PEER == [peer_id : Clients, up_number : Nat, down_number : Nat]

(* Faulty variant: counters the constructor left unset. *)
NewPeer_Unset(c) == [peer_id |-> c, up_number |-> -1, down_number |-> 0]

NewPeer(c) == [peer_id |-> c, up_number |-> 0, down_number |-> 0]
Balance(e) == e.down_number - e.up_number

Ids(s) == {s[i].peer_id : i \in DOMAIN s}

(* The position of the first entry for c, as the while loops find it. *)
FirstAt(s, c) ==
  CHOOSE i \in DOMAIN s : /\ s[i].peer_id = c
                          /\ \A j \in DOMAIN s : s[j].peer_id = c => i <= j

(* The list s without its entry for c, or s itself. *)
Without(s, c) ==
  IF c \notin Ids(s) THEN s
  ELSE LET i == FirstAt(s, c)
       IN  SubSeq(s, 1, i - 1) \o SubSeq(s, i + 1, Len(s))

Orders == Bijection(1..CLIENT_NUMBER, Clients)

(* main() has run add_piece for client 0 (every piece) and client 1 (the    *)
(* first one) and shuffled the first queue.                                 *)
Owns0(c, p) == c = 0 \/ (c = 1 /\ p = 0)

Init ==
  /\ phase = "kick"
  /\ queue \in Orders
  /\ pos = 1
  /\ odd = TRUE
  /\ pieces = [c \in Clients |-> [p \in Parts |-> IF Owns0(c, p) THEN 1 ELSE 0]]
  /\ gpieces = [p \in Parts |-> IF p = 0 THEN <<0, 1>> ELSE <<0>>]
  /\ friends = [c \in Clients |-> <<>>]
  /\ passby = [c \in Clients |-> <<>>]
  /\ betrayers = [c \in Clients |-> {}]
  /\ served = [u \in Clients |-> [c \in Clients |-> 0]]

-----------------------------------------------------------------------------
(* The order of the clients within a phase *)

Turn(c) == pos <= CLIENT_NUMBER /\ c = queue[pos]
Advance == pos' = pos + 1 /\ UNCHANGED <<phase, queue, odd>>

NextPhase(from, to) ==
  /\ phase = from
  /\ pos = CLIENT_NUMBER + 1
  /\ phase' = to
  /\ pos' = 1
  /\ UNCHANGED <<queue, odd, pieces, gpieces, friends, passby, betrayers,
                 served>>

EveryoneDone == \A c \in Clients, p \in Parts : pieces[c][p] = 1

-----------------------------------------------------------------------------
(* Kicking *)

(* What sort() may make of the slots: ascending balance, ties in any order. *)
Sorted(s) ==
  {t \in {[i \in DOMAIN s |-> s[f[i]]] : f \in Bijection(DOMAIN s, DOMAIN s)} :
     \A i, j \in DOMAIN s : i < j => Balance(t[i]) <= Balance(t[j])}

(* Faulty variant: the kicked friend keeps the kicker. *)
Forget_Nothing(f, c) == friends[f]

(* The kicked friend's own slots lose the kicker. *)
Forget(f, c) == Without(friends[f], c)

(* kick_my_lazyiest_friend_to_betray, then kick_the_passbay: only with      *)
(* exactly UP_SLOT_FRIEND_SIZE friends, the one with the highest balance    *)
(* goes (KICK_EACH_TURN is 1) and will remember it.                         *)
KickLaziest(c) ==
  /\ phase = "kick"
  /\ Turn(c)
  /\ Len(friends[c]) = UP_SLOT_FRIEND_SIZE
  /\ \E t \in Sorted(friends[c]) :
       LET f == t[Len(t)].peer_id
       IN  /\ friends' = [friends EXCEPT ![c] = SubSeq(t, 1, Len(t) - 1),
                                         ![f] = Forget(f, c)]
           /\ betrayers' = [betrayers EXCEPT ![f] = @ \union {c}]
  /\ passby' = [passby EXCEPT ![c] = <<>>]
  /\ Advance
  /\ UNCHANGED <<pieces, gpieces, served>>

(* "no need to dump any one since not full loaded" *)
KickNobody(c) ==
  /\ phase = "kick"
  /\ Turn(c)
  /\ Len(friends[c]) # UP_SLOT_FRIEND_SIZE
  /\ passby' = [passby EXCEPT ![c] = <<>>]
  /\ Advance
  /\ UNCHANGED <<pieces, gpieces, friends, betrayers, served>>

-----------------------------------------------------------------------------
(* Requesting *)

Incomplete(c) == \E p \in Parts : pieces[c][p] # 1

(* Faulty variants: smallest_size starts one too low; the pieces the client *)
(* owns are not skipped.                                                    *)
Wanted_TooLow(c) ==
  {p \in Parts : pieces[c][p] # 1 /\ Len(gpieces[p]) < CLIENT_NUMBER - 1}
Wanted_OwnedToo(c) == {p \in Parts : Len(gpieces[p]) < CLIENT_NUMBER}

(* get_rarest_piece: among the pieces c does not own and not everybody has, *)
(* the first one with the fewest owners; none: -1.                          *)
Wanted(c) ==
  {p \in Parts : pieces[c][p] # 1 /\ Len(gpieces[p]) < CLIENT_NUMBER}

Rarest(c) ==
  CHOOSE p \in Wanted(c) :
    \A q \in Wanted(c) : \/ Len(gpieces[p]) < Len(gpieces[q])
                         \/ Len(gpieces[p]) = Len(gpieces[q]) /\ p <= q

(* Friends that have the piece; the first of them in the slots is asked. *)
Helpers(c, p) ==
  {i \in DOMAIN friends[c] : pieces[friends[c][i].peer_id][p] = 1}

(* Faulty variant: the piece is not marked -1. *)
Downloading_Unmarked(c, p) == UNCHANGED pieces

Downloading(c, p) == pieces' = [pieces EXCEPT ![c][p] = -1]
Serves(u, c) == served' = [served EXCEPT ![u][c] = @ + 1]

(* The owners that are not hated: the targets of the while loop. *)
Targets(c, p) == Range(gpieces[p]) \ betrayers[c]
HasFriendSlot(u) == Len(friends[u]) < UP_SLOT_FRIEND_SIZE
HasPassbySlot(u) == Len(passby[u]) < UP_SLOT_PASSBY_SIZE

Requests(c, p) ==
  /\ phase = "request"
  /\ Turn(c)
  /\ Incomplete(c)
  /\ p = Rarest(c)

(* Faulty variant: the friend does not count. *)
CountDown_Nothing(f, c) == friends[f]

(* The slots of f after its entry for c counted one more download. *)
CountDown(f, c) ==
  IF c \in Ids(friends[f])
    THEN [friends[f] EXCEPT ![FirstAt(friends[f], c)].down_number = @ + 1]
    ELSE friends[f]

(* A friend serves: my entry for it counts an upload, its entry for me a    *)
(* download.                                                                *)
FetchFromFriend(c) ==
  \E p \in Parts :
    /\ Requests(c, p)
    /\ \E i \in Helpers(c, p) :
         LET f == friends[c][i].peer_id
         IN  /\ \A j \in Helpers(c, p) : i <= j
             /\ friends' = [friends EXCEPT ![c][i].up_number = @ + 1,
                                           ![f] = CountDown(f, c)]
             /\ Serves(f, c)
    /\ Downloading(c, p)
    /\ Advance
    /\ UNCHANGED <<gpieces, passby, betrayers>>

(* No friend has it, a random owner has a free friend slot: each enters the *)
(* other's slots; the requester does not look whether its own are full.     *)
MakeFriend(c) ==
  \E p \in Parts :
    /\ Requests(c, p)
    /\ Helpers(c, p) = {}
    /\ \E u \in Targets(c, p) :
         /\ HasFriendSlot(u)
         /\ friends' = [friends EXCEPT ![c] = Append(@, NewPeer(u)),
                                       ![u] = Append(@, NewPeer(c))]
         /\ Serves(u, c)
    /\ Downloading(c, p)
    /\ Advance
    /\ UNCHANGED <<gpieces, passby, betrayers>>

(* The owner's friend slots are full but it serves passers-by. *)
PassBy(c) ==
  \E p \in Parts :
    /\ Requests(c, p)
    /\ Helpers(c, p) = {}
    /\ \E u \in Targets(c, p) :
         /\ ~HasFriendSlot(u)
         /\ HasPassbySlot(u)
         /\ passby' = [passby EXCEPT ![u] = Append(@, c)]
         /\ Serves(u, c)
    /\ Downloading(c, p)
    /\ Advance
    /\ UNCHANGED <<gpieces, friends, betrayers>>

(* Every target is hated or fully loaded: the loop runs out of targets. *)
NobodyWantsMe(c) ==
  \E p \in Parts :
    /\ Requests(c, p)
    /\ Helpers(c, p) = {}
    /\ \A u \in Targets(c, p) : ~HasFriendSlot(u) /\ ~HasPassbySlot(u)
    /\ Advance
    /\ UNCHANGED <<pieces, gpieces, friends, passby, betrayers, served>>

(* "download all stuff" *)
NothingToFetch(c) ==
  /\ phase = "request"
  /\ Turn(c)
  /\ ~Incomplete(c)
  /\ Advance
  /\ UNCHANGED <<pieces, gpieces, friends, passby, betrayers, served>>

-----------------------------------------------------------------------------
(* The granted pieces arrive, and the turn ends *)

(* Faulty variants: pieces arrive again; the owner is not listed. *)
Arrives_Again(c, p) == pieces[c][p] # 0
Listed_Nobody(c, p) == gpieces[p]

Arrives(c, p) == pieces[c][p] = -1
Listed(c, p) == Append(gpieces[p], c)

(* add_piece for every piece marked -1. *)
Arrive(c) ==
  /\ phase = "update"
  /\ Turn(c)
  /\ pieces' = [pieces EXCEPT ![c] =
                  [p \in Parts |-> IF Arrives(c, p) THEN 1 ELSE @[p]]]
  /\ gpieces' = [p \in Parts |-> IF Arrives(c, p) THEN Listed(c, p)
                                                  ELSE gpieces[p]]
  /\ Advance
  /\ UNCHANGED <<friends, passby, betrayers, served>>

(* Faulty variant: grudges for ever. *)
ForgivingTurn_Never == FALSE

(* period_clean_betrayer_list runs when turn % 2 = 0. *)
ForgivingTurn == ~odd

(* Grudges are forgotten every second turn; the next turn starts unless     *)
(* everyone is done.                                                        *)
EndTurn ==
  /\ phase = "update"
  /\ pos = CLIENT_NUMBER + 1
  /\ betrayers' = IF ForgivingTurn THEN [c \in Clients |-> {}]
                                    ELSE betrayers
  /\ odd' = ~odd
  /\ pos' = 1
  /\ IF EveryoneDone
       THEN phase' = "finished" /\ queue' = queue
       ELSE phase' = "kick" /\ queue' \in Orders
  /\ UNCHANGED <<pieces, gpieces, friends, passby, served>>

(* main() has left the loop. *)
Finished ==
  /\ phase = "finished"
  /\ UNCHANGED vars

Act(c) ==
  \/ KickLaziest(c)
  \/ KickNobody(c)
  \/ FetchFromFriend(c)
  \/ MakeFriend(c)
  \/ PassBy(c)
  \/ NobodyWantsMe(c)
  \/ NothingToFetch(c)
  \/ Arrive(c)

Next ==
  \/ \E c \in Clients : Act(c)
  \/ NextPhase("kick", "request")
  \/ NextPhase("request", "update")
  \/ EndTurn
  \/ Finished

Spec == Init /\ [][Next]_vars

(* The simulation is one thread: it never stops on its own. *)
FairSpec == Spec /\ WF_vars(Next)
-----------------------------------------------------------------------------
(* Properties *)

TypeOK ==
  /\ phase \in {"kick", "request", "update", "finished"}
  /\ queue \in [1..CLIENT_NUMBER -> Clients]
  /\ pos \in 1..CLIENT_NUMBER + 1
  /\ odd \in BOOLEAN
  /\ pieces \in [Clients -> [Parts -> {-1, 0, 1}]]
  /\ gpieces \in [Parts -> Seq(Clients)]
  /\ friends \in [Clients -> Seq(PEER)]
  /\ passby \in [Clients -> Seq(Clients)]
  /\ betrayers \in [Clients -> SUBSET Clients]
  /\ served \in [Clients -> [Clients -> Nat]]

(* G_pieces is what everybody relies on to find owners ("GOD ... KNOWS      *)
(* EVERYTHING"): in every state each piece's list names exactly its owners. *)
GodKnows ==
  \A p \in Parts : Range(gpieces[p]) = {c \in Clients : pieces[c][p] = 1}

(* ... and names no owner twice, although add_piece never looks: otherwise  *)
(* sizes, and with them the rarest piece, would be wrong.                   *)
NamedOnce == \A p \in Parts : IsInjective(gpieces[p])

(* While a client misses a piece, get_rarest_piece finds one: its -1 is     *)
(* never used as an index into pieces[].                                    *)
RarestExists ==
  \A c \in Clients : phase = "request" /\ Incomplete(c) => Wanted(c) # {}

(* Friendship is mutual, without doubles and never with oneself, through    *)
(* kicks and new friendships: MakeFriend does not check for an old          *)
(* friendship ("i do not need to worry about select them again").           *)
Friendship ==
  \A c, d \in Clients :
    /\ c \in Ids(friends[d]) <=> d \in Ids(friends[c])
    /\ c \notin Ids(friends[c])
    /\ Cardinality(Ids(friends[c])) = Len(friends[c])

(* Two friends keep the same ledger: what one counts as up the other counts *)
(* as down.  The kick sorts by it.                                          *)
LedgersAgree ==
  \A c, d \in Clients :
    \A i \in DOMAIN friends[c], j \in DOMAIN friends[d] :
      /\ friends[c][i].peer_id = d
      /\ friends[d][j].peer_id = c
      => /\ friends[c][i].up_number = friends[d][j].down_number
         /\ friends[c][i].down_number = friends[d][j].up_number

(* The entries that name c in the down tables of all clients. *)
Entries(c) == UNION {{u} \X (1..served[u][c]) : u \in Clients}

(* No piece is fetched twice and none arrives unserved: the down tables     *)
(* name a client once for every piece it did not start with.                *)
FetchedOnce ==
  \A c \in Clients :
    Cardinality(Entries(c)) =
      Cardinality({p \in Parts : pieces[c][p] # 0 /\ ~Owns0(c, p)})

(* An owned piece is never lost or asked for again. *)
OwnedForEver ==
  [][\A c \in Clients, p \in Parts : pieces[c][p] = 1 => pieces'[c][p] = 1]_vars

(* Whatever the shuffles and the random choices of targets are, kicks,      *)
(* grudges and full slots starve nobody: everyone ends with every piece.    *)
EveryoneGetsAll == <>[]EveryoneDone

=============================================================================
