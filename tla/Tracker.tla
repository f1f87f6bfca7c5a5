-------------------------------- MODULE Tracker -------------------------------
(***************************************************************************)
(* The tracker, server/server_multi.cpp, and the console commands 2 to 5   *)
(* of client/client_console.h that talk to it.                             *)
(*                                                                         *)
(* The server is one thread around select(): it accepts one connection, or *)
(* scans its slots and serves what is readable; while it receives the body *)
(* of an uploaded torrent file it does nothing else.  Each command of a    *)
(* client opens one connection and closes it at the end.                   *)
(*                                                                         *)
(* A request or a reply, and one block of a torrent file, are one message. *)
(* Users run on machines of their own: a user is also its IP address.      *)
(***************************************************************************)
EXTENDS Integers, Sequences, FiniteSets, Functions

CONSTANTS
  Users,
  Names,      \* names of torrent files
  Size,       \* blocks of a torrent file (torrent_size)
  MaxCmds,    \* bound: how many commands each user types
  Menu,       \* bound: which of the commands 2 to 5 each user may type
  Careless,   \* may a user type an id the tracker has not given out?
  Faults      \* may a client be killed?

ASSUME TrackerAssumption ==
  /\ IsFiniteSet(Users) /\ Users # {}
  /\ Names # {}
  /\ Size \in Nat \ {0}
  /\ MaxCmds \in [Users -> Nat]
  /\ Menu \in [Users -> SUBSET (2..5)]
  /\ Careless \in BOOLEAN
  /\ Faults \in BOOLEAN

(* The k-th connection of a user.  FD_SETSIZE slots always suffice here. *)
Conn == UNION {{u} \X (1..MaxCmds[u]) : u \in Users}
None == <<>>
Slot == 0..Cardinality(Conn) - 1

Msg(t, x) == [type |-> t, val |-> x]
Body(u, n) == [k \in 1..Size |-> <<u, n, k>>]

(* What a console thread remembers of its command: nothing, or the name of *)
(* the torrent file it uploads and the torrent's id.                        *)
Nothing == [name |-> None, id |-> 0]

(* What "out_stream << recv_data_buf" adds when the buffer, which is        *)
(* neither cleared nor terminated, holds something beyond the bytes received. *)
Junk == <<"junk">>

VARIABLES
  (* the server *)
  running,    \* does the process live?
  spc,        \* "select", "scan" or, in the receive loop of request 12, "body"
  fd,         \* client[i].fd: a connection or None
  addr,       \* client[i].addr: stays when the client is gone
  maxi,
  rset,       \* what select() found readable
  at,         \* the index of the scan
  received,   \* blocks of the body received so far
  torrents,   \* the torrents vector, each with its peer list
  files,      \* the torrent files in the server's directory
  (* the connections *)
  backlog,    \* established, not accepted yet
  up,         \* per connection, on the way to the server
  down,       \* per connection, on the way to the client
  closed,     \* connections whose client end is closed
  (* the clients *)
  cpc,        \* what the console thread of each user waits for
  cmds,       \* commands typed so far: the last one names the connection
  ask,        \* the torrent the command is about
  got,        \* blocks sent (command 2) or received (command 4)
  local       \* the client's torrents vector

server == <<running, spc, fd, addr, maxi, rset, at, received, torrents, files>>
client == <<cpc, cmds, ask, got, local>>
vars == <<server, backlog, up, down, closed, client>>

Init ==
  /\ running = TRUE
  /\ spc = "select"
  /\ fd = [i \in Slot |-> None]
  /\ addr = [i \in Slot |-> None]
  /\ maxi = -1
  /\ rset = {}
  /\ at = 0
  /\ received = 0
  /\ torrents = <<>>
  /\ files = [n \in Names |-> <<>>]
  /\ backlog = <<>>
  /\ up = [c \in Conn |-> <<>>]
  /\ down = [c \in Conn |-> <<>>]
  /\ closed = {}
  /\ cpc = [u \in Users |-> "menu"]
  /\ cmds = [u \in Users |-> 0]
  /\ ask = [u \in Users |-> Nothing]
  /\ got = [u \in Users |-> <<>>]
  /\ local = [u \in Users |-> <<>>]

-----------------------------------------------------------------------------
(* The server: the select loop *)

FreeSlot == CHOOSE i \in Slot : /\ fd[i] = None
                                /\ \A j \in Slot : fd[j] = None => i <= j

(* Faulty variant: maxi set once only. *)
UpperMark_Once(i) == IF maxi = -1 THEN i ELSE maxi

UpperMark(i) == IF i > maxi THEN i ELSE maxi

(* A new connection takes the first free slot; nothing is read this time. *)
Accept ==
  /\ running
  /\ spc = "select"
  /\ backlog # <<>>
  /\ fd' = [fd EXCEPT ![FreeSlot] = Head(backlog)]
  /\ addr' = [addr EXCEPT ![FreeSlot] = Head(backlog)[1]]
  /\ maxi' = UpperMark(FreeSlot)
  /\ backlog' = Tail(backlog)
  /\ UNCHANGED <<running, spc, rset, at, received, torrents, files, up, down,
                 closed, client>>

Readable(c) == c \in Conn /\ (up[c] # <<>> \/ c \in closed)

(* No connection waits, something is readable: scan the slots. *)
StartScan ==
  /\ running
  /\ spc = "select"
  /\ backlog = <<>>
  /\ rset' = {c \in Range(fd) : Readable(c)}
  /\ rset' # {}
  /\ at' = 0
  /\ spc' = "scan"
  /\ UNCHANGED <<running, fd, addr, maxi, received, torrents, files, backlog,
                 up, down, closed, client>>

Due == {i \in Slot : at <= i /\ i <= maxi /\ fd[i] \in rset}

EndScan ==
  /\ running
  /\ spc = "scan"
  /\ Due = {}
  /\ spc' = "select"
  /\ rset' = {}
  /\ at' = 0
  /\ received' = 0
  /\ UNCHANGED <<running, fd, addr, maxi, torrents, files, backlog, up, down,
                 closed, client>>

(* The scan is at slot i. *)
Serving(i) ==
  /\ running
  /\ spc = "scan"
  /\ i \in Due
  /\ \A j \in Due : i <= j

(* recv() returns 0 or -1. *)
Disconnect ==
  \E i \in Slot :
    /\ Serving(i)
    /\ up[fd[i]] = <<>>
    /\ fd' = [fd EXCEPT ![i] = None]
    /\ at' = i + 1
    /\ UNCHANGED <<running, spc, addr, maxi, rset, received, torrents, files,
                   backlog, up, down, closed, client>>

(* recv() returns a request of type t from the client in slot i. *)
Request(i, t) ==
  /\ Serving(i)
  /\ up[fd[i]] # <<>>
  /\ Head(up[fd[i]]).type = t
  /\ up' = [up EXCEPT ![fd[i]] = Tail(@)]

Parameter(i) == Head(up[fd[i]]).val

(* Faulty variant: the i of the parameter loop used for the socket, too. *)
Asker_SlotZero(i) == fd[0]

(* sockfd: where the reply to the request of slot i goes. *)
Asker(i) == fd[i]

Reply(i, m) ==
  down' = IF Asker(i) \in closed THEN down
                                 ELSE [down EXCEPT ![Asker(i)] = Append(@, m)]

-----------------------------------------------------------------------------
(* The server: the requests *)

(* The address written into the peer list: in the loop over the parameters  *)
(* i is the index of the parameter, not the slot of the client.             *)
RecordedIp == addr[0]

Peer(u) == [user |-> u, ip |-> RecordedIp]

(* Faulty variant: ids from 0. *)
NextId_Zero == Len(torrents)

NextId == Len(torrents) + 1

(* 12, upload: register the torrent with its uploader as first peer, reply  *)
(* with its id, open (and thereby empty) the file and wait for the body.    *)
UploadTorrentInfo ==
  \E i \in Slot :
    /\ Request(i, 12)
    /\ torrents' = Append(torrents, [name |-> Parameter(i),
                                     owner |-> fd[i][1],
                                     peers |-> <<Peer(fd[i][1])>>])
    /\ Reply(i, Msg(21, NextId))
    /\ files' = [files EXCEPT ![Parameter(i)] = <<>>]
    /\ received' = 0
    /\ at' = i
    /\ spc' = "body"
    /\ UNCHANGED <<running, fd, addr, maxi, rset, backlog, closed, client>>

(* One turn of the receive loop: everyone else waits. *)
RecvBody ==
  LET c == fd[at]
      name == torrents[Len(torrents)].name
  IN  /\ running
      /\ spc = "body"
      /\ up[c] # <<>>
      /\ up' = [up EXCEPT ![c] = Tail(@)]
      /\ \E junk \in {<<>>, <<Junk>>} :
           files' = [files EXCEPT ![name] = @ \o <<Head(up[c]).val>> \o junk]
      /\ received' = received + 1
      /\ IF received + 1 = Size THEN spc' = "scan" /\ at' = at + 1
                                ELSE UNCHANGED <<spc, at>>
      /\ UNCHANGED <<running, fd, addr, maxi, rset, torrents, backlog, down,
                     closed, client>>

(* The uploader is gone before torrent_size bytes: the torrent stays.  A    *)
(* recv() of -1 on the way writes the old buffer to the file.               *)
BodyCut ==
  LET name == torrents[Len(torrents)].name
  IN  /\ running
      /\ spc = "body"
      /\ up[fd[at]] = <<>>
      /\ fd[at] \in closed
      /\ \E junk \in {<<>>, <<Junk>>} :
           files' = [files EXCEPT ![name] = @ \o junk]
      /\ spc' = "scan"
      /\ at' = at + 1
      /\ UNCHANGED <<running, fd, addr, maxi, rset, received, torrents,
                     backlog, up, down, closed, client>>

(* 15, the list of all torrents: their ids are 1 to its length. *)
TorrentList ==
  \E i \in Slot :
    /\ Request(i, 15)
    /\ Reply(i, Msg(51, Len(torrents)))
    /\ at' = i + 1
    /\ UNCHANGED <<running, spc, fd, addr, maxi, rset, received, torrents,
                   files, backlog, closed, client>>

(* 14, what the tracker knows of one torrent. *)
DownloadTorrent ==
  \E i \in Slot :
    /\ Request(i, 14)
    /\ Parameter(i) \in DOMAIN torrents
    /\ Reply(i, Msg(41, Parameter(i)))
    /\ at' = i + 1
    /\ UNCHANGED <<running, spc, fd, addr, maxi, rset, received, torrents,
                   files, backlog, closed, client>>

(* 16: the client becomes a peer, once more if it is one, and gets the file. *)
ReadyToReceive ==
  \E i \in Slot :
    /\ Request(i, 16)
    /\ LET id == Parameter(i)
           file == files[torrents[id].name]
           c == fd[i]
       IN  /\ torrents' = [torrents EXCEPT ![id].peers = Append(@, Peer(c[1]))]
           /\ down' = IF c \in closed THEN down
                      ELSE [down EXCEPT ![c] =
                              @ \o [k \in DOMAIN file |-> Msg(0, file[k])]]
    /\ at' = i + 1
    /\ UNCHANGED <<running, spc, fd, addr, maxi, rset, received, files,
                   backlog, closed, client>>

(* 13, the peer list of one torrent. *)
RequestPeerlist ==
  \E i \in Slot :
    /\ Request(i, 13)
    /\ LET id == Parameter(i)
       IN  /\ id \in DOMAIN torrents
           /\ Reply(i, Msg(31, [id |-> id, peers |-> torrents[id].peers]))
    /\ at' = i + 1
    /\ UNCHANGED <<running, spc, fd, addr, maxi, rset, received, torrents,
                   files, backlog, closed, client>>

(* torrents.at() throws at an unknown id; or the second block of a file is  *)
(* sent to a client that is gone (SIGPIPE): the tracker dies.               *)
ServerDies ==
  \E i \in Slot :
    /\ Serving(i)
    /\ up[fd[i]] # <<>>
    /\ LET m == Head(up[fd[i]])
       IN  \/ m.type \in {13, 14} /\ m.val \notin DOMAIN torrents
           \/ /\ m.type = 16
              /\ fd[i] \in closed
              /\ Len(files[torrents[m.val].name]) > 1
    /\ running' = FALSE
    /\ UNCHANGED <<spc, fd, addr, maxi, rset, at, received, torrents, files,
                   backlog, up, down, closed, client>>

Server ==
  \/ Accept
  \/ StartScan
  \/ EndScan
  \/ Disconnect
  \/ UploadTorrentInfo
  \/ RecvBody
  \/ BodyCut
  \/ TorrentList
  \/ DownloadTorrent
  \/ ReadyToReceive
  \/ RequestPeerlist
  \/ ServerDies

-----------------------------------------------------------------------------
(* The client: the console commands *)

Sock(u) == <<u, cmds[u]>>

LocalIds(u) == {local[u][i].id : i \in DOMAIN local[u]}

(* Commands 2 (upload a torrent file), 3 (list), 4 (get a torrent) and 5    *)
(* (get its peers, "after 4."): connect, send the request, wait.            *)
Command(u, t, x, wait) ==
  /\ running
  /\ cpc[u] = "menu"
  /\ cmds[u] < MaxCmds[u]
  /\ cmds' = [cmds EXCEPT ![u] = @ + 1]
  /\ backlog' = Append(backlog, <<u, cmds[u] + 1>>)
  /\ up' = [up EXCEPT ![<<u, cmds[u] + 1>>] = <<Msg(t, x)>>]
  /\ ask' = [ask EXCEPT ![u].name = IF t = 12 THEN x ELSE None]
  /\ got' = [got EXCEPT ![u] = <<>>]
  /\ cpc' = [cpc EXCEPT ![u] = wait]
  /\ UNCHANGED <<server, down, closed, local>>

Unknown == IF Careless THEN {Len(torrents) + 1} ELSE {}

UploadTorrent(u) ==
  /\ 2 \in Menu[u]
  /\ \E n \in Names : Command(u, 12, n, "wait21")

GetList(u) == 3 \in Menu[u] /\ Command(u, 15, 0, "wait51")

GetTorrent(u) ==
  /\ 4 \in Menu[u]
  /\ \E id \in DOMAIN torrents \union Unknown : Command(u, 14, id, "wait41")

GetPeers(u) ==
  /\ 5 \in Menu[u]
  /\ \E id \in LocalIds(u) \union (IF Careless THEN DOMAIN torrents ELSE {})
                            \union Unknown : Command(u, 13, id, "wait31")

(* The command ends, or the client with it: what is in flight to it is lost *)
(* and its local variables are gone.                                        *)
Ends(u, next) ==
  /\ closed' = closed \union {Sock(u)}
  /\ down' = [down EXCEPT ![Sock(u)] = <<>>]
  /\ ask' = [ask EXCEPT ![u] = Nothing]
  /\ got' = [got EXCEPT ![u] = <<>>]
  /\ cpc' = [cpc EXCEPT ![u] = next]

CloseSocket(u) == Ends(u, "menu")

(* recv() returns the reply the client waits for. *)
Answer(u, wait) ==
  /\ cpc[u] = wait
  /\ down[Sock(u)] # <<>>

Value(u) == Head(down[Sock(u)]).val

(* 2: accepted, the id is noted and the file will be sent. *)
Accepted(u) ==
  /\ Answer(u, "wait21")
  /\ down' = [down EXCEPT ![Sock(u)] = Tail(@)]
  /\ ask' = [ask EXCEPT ![u].id = Value(u)]
  /\ cpc' = [cpc EXCEPT ![u] = "body"]
  /\ UNCHANGED <<server, backlog, up, closed, cmds, got, local>>

Entry(id, name, data, status) ==
  [id |-> id, name |-> name, data |-> data, status |-> status,
   peers |-> [id |-> 0, users |-> {}]]

(* 2: one block of the file; with the last one the torrent enters the       *)
(* vector with status 1 and the socket is closed.                           *)
SendBlock(u) ==
  LET data == Body(u, ask[u].name)
      sent == Append(got[u], data[Len(got[u]) + 1])
  IN  /\ cpc[u] = "body"
      /\ up' = [up EXCEPT ![Sock(u)] = Append(@, Msg(0, data[Len(sent)]))]
      /\ IF Len(sent) = Size
           THEN /\ local' = [local EXCEPT ![u] =
                     Append(@, Entry(ask[u].id, ask[u].name, data, 1))]
                /\ CloseSocket(u)
           ELSE /\ got' = [got EXCEPT ![u] = sent]
                /\ UNCHANGED <<local, closed, cpc, down, ask>>
      /\ UNCHANGED <<server, backlog, cmds>>

(* 3: the list is printed. *)
ShowList(u) ==
  /\ Answer(u, "wait51")
  /\ CloseSocket(u)
  /\ UNCHANGED <<server, backlog, up, cmds, local>>

(* 4: the reply names the torrent; request 16 asks for the file. *)
AskForFile(u) ==
  /\ Answer(u, "wait41")
  /\ down' = [down EXCEPT ![Sock(u)] = Tail(@)]
  /\ ask' = [ask EXCEPT ![u].id = Value(u)]
  /\ up' = [up EXCEPT ![Sock(u)] = Append(@, Msg(16, Value(u)))]
  /\ cpc' = [cpc EXCEPT ![u] = "file"]
  /\ UNCHANGED <<server, backlog, closed, cmds, got, local>>

(* Faulty variant: content with one block less. *)
Received_Early(data) == Len(data) >= Size - 1

(* The receive loop of command 4 ends at exactly torrent_size bytes. *)
Received(data) == Len(data) = Size

(* 4: one turn of the loop takes one or more of the blocks that arrived.    *)
RecvFile(u) ==
  /\ cpc[u] = "file"
  /\ \E n \in DOMAIN down[Sock(u)] :
    LET data == got[u] \o [k \in 1..n |-> down[Sock(u)][k].val]
    IN  IF Received(data)
          THEN /\ local' = [local EXCEPT ![u] = Append(@,
                    Entry(ask[u].id, torrents[ask[u].id].name, data, 0))]
               /\ CloseSocket(u)
          ELSE /\ down' = [down EXCEPT ![Sock(u)] = SubSeq(@, n + 1, Len(@))]
               /\ got' = [got EXCEPT ![u] = data]
               /\ UNCHANGED <<local, closed, cpc, ask>>
  /\ UNCHANGED <<server, backlog, up, cmds>>

(* 4: the tracker died: recv() returns 0, and what there is is the file. *)
FileCut(u) ==
  /\ cpc[u] = "file"
  /\ ~running
  /\ down[Sock(u)] = <<>>
  /\ local' = [local EXCEPT ![u] =
       Append(@, Entry(ask[u].id, torrents[ask[u].id].name, got[u], 0))]
  /\ CloseSocket(u)
  /\ UNCHANGED <<server, backlog, up, cmds>>

(* Faulty variant: the break of the loop forgotten. *)
Filed_Last(u, id) == Len(local[u])

(* The torrent a peer list is stored at: the first one with that id, or,    *)
(* when there is none, the last one of the vector.                          *)
Filed(u, id) ==
  IF id \in LocalIds(u)
    THEN CHOOSE i \in DOMAIN local[u] :
           /\ local[u][i].id = id
           /\ \A j \in DOMAIN local[u] : local[u][j].id = id => i <= j
    ELSE Len(local[u])

(* 5: the peers but for the client itself replace the list of the torrent. *)
StorePeers(u) ==
  LET reply == Value(u)
      others == {p \in Range(reply.peers) : p.user # u}
  IN  /\ Answer(u, "wait31")
      /\ local[u] # <<>>
      /\ local' = [local EXCEPT ![u][Filed(u, reply.id)].peers =
                     [id |-> reply.id, users |-> others]]
      /\ CloseSocket(u)
      /\ UNCHANGED <<server, backlog, up, cmds>>

(* 5 with an empty vector: a pointer never set is used, the client dies. *)
NoTorrent(u) ==
  /\ Answer(u, "wait31")
  /\ local[u] = <<>>
  /\ Ends(u, "dead")
  /\ UNCHANGED <<server, backlog, up, cmds, local>>

(* The tracker died before it replied: recv() leaves a buffer never set,    *)
(* which is no JSON (back to the menu) or makes substr throw.               *)
NoReply(u) ==
  /\ cpc[u] \in {"wait21", "wait51", "wait41", "wait31"}
  /\ ~running
  /\ down[Sock(u)] = <<>>
  /\ Ends(u, "menu") \/ Ends(u, "dead")
  /\ UNCHANGED <<server, backlog, up, cmds, local>>

(* The tracker is gone when a command is typed: connect() fails unnoticed,  *)
(* and send() raises SIGPIPE.                                               *)
NoTracker(u) ==
  /\ ~running
  /\ cpc[u] = "menu"
  /\ cmds[u] < MaxCmds[u]
  /\ cpc' = [cpc EXCEPT ![u] = "dead"]
  /\ UNCHANGED <<server, backlog, up, down, closed, cmds, ask, got, local>>

(* The client is killed in the middle of a command, or by SIGPIPE when the  *)
(* tracker is gone.                                                         *)
ClientDies(u) ==
  /\ Faults \/ ~running
  /\ cpc[u] \notin {"menu", "dead"}
  /\ Ends(u, "dead")
  /\ UNCHANGED <<server, backlog, up, cmds, local>>

Client(u) ==
  \/ Accepted(u)
  \/ SendBlock(u)
  \/ ShowList(u)
  \/ AskForFile(u)
  \/ RecvFile(u)
  \/ FileCut(u)
  \/ StorePeers(u)
  \/ NoTorrent(u)
  \/ NoReply(u)

User(u) ==
  \/ UploadTorrent(u)
  \/ GetList(u)
  \/ GetTorrent(u)
  \/ GetPeers(u)
  \/ NoTracker(u)

Next ==
  \/ Server
  \/ \E u \in Users : Client(u) \/ User(u) \/ ClientDies(u)

(* The server and the console threads run when they can; nothing makes a    *)
(* user type or die.                                                        *)
Fairness ==
  /\ WF_vars(Server)
  /\ \A u \in Users : WF_vars(Client(u))

Spec == Init /\ [][Next]_vars /\ Fairness
-----------------------------------------------------------------------------
(* Properties *)

Chunk == (Users \X Names \X (1..Size)) \union {Junk}
PeerType == [user : Users, ip : Users]

(* Every variable keeps its type; above all no client sits in a slot above  *)
(* maxi, where the scan would never see it.                                 *)
TypeOK ==
  /\ running \in BOOLEAN
  /\ spc \in {"select", "scan", "body"}
  /\ fd \in [Slot -> Conn \union {None}]
  /\ addr \in [Slot -> Users \union {None}]
  /\ maxi \in Slot \union {-1}
  /\ \A i \in Slot : i > maxi => fd[i] = None
  /\ rset \subseteq Conn
  /\ at \in 0..Cardinality(Slot)
  /\ received \in 0..Size
  /\ \A i \in DOMAIN torrents : /\ torrents[i].name \in Names
                                /\ torrents[i].owner \in Users
                                /\ Range(torrents[i].peers) \subseteq PeerType
  /\ \A n \in Names : Range(files[n]) \subseteq Chunk
  /\ Range(backlog) \subseteq Conn
  /\ \A c \in Conn : /\ \A k \in DOMAIN up[c] : up[c][k].type \in {0} \union 12..16
                     /\ \A k \in DOMAIN down[c] : down[c][k].type \in {0, 21, 31, 41, 51}
  /\ closed \subseteq Conn
  /\ cpc \in [Users -> {"menu", "wait21", "body", "wait51", "wait41", "file",
                        "wait31", "dead"}]
  /\ \A u \in Users : cmds[u] \in 0..MaxCmds[u]
  /\ \A u \in Users : \A i \in DOMAIN local[u] :
       /\ Range(local[u][i].data) \subseteq Chunk
       /\ local[u][i].peers.users \subseteq PeerType

(* What lies in a connection is for the command its client is in: commands  *)
(* of several clients, crashes and slots used again never send a reply to   *)
(* somebody else, and no reply of an earlier command is left over.          *)
ReplyForMe ==
  \A u \in Users : cmds[u] > 0 =>
    \A k \in DOMAIN down[Sock(u)] :
      LET t == down[Sock(u)][k].type
      IN  \/ t = 21 /\ cpc[u] = "wait21"
          \/ t = 51 /\ cpc[u] = "wait51"
          \/ t = 41 /\ cpc[u] = "wait41"
          \/ t = 31 /\ cpc[u] = "wait31"
          \/ t = 0 /\ cpc[u] = "file"

(* While the tracker runs, whoever has a torrent in its vector is in the    *)
(* peer list the tracker has under that id, under the name it has there; an *)
(* uploader got the id of its own torrent, however uploads interleave.      *)
HoldersListed ==
  running =>
    \A u \in Users : \A i \in DOMAIN local[u] :
      LET e == local[u][i]
      IN  /\ e.id \in DOMAIN torrents
          /\ e.name = torrents[e.id].name
          /\ e.status = 1 => torrents[e.id].owner = u
          /\ \E k \in DOMAIN torrents[e.id].peers :
               torrents[e.id].peers[k].user = u

(* A torrent file a running tracker delivered is the one its owner          *)
(* uploaded, block by block, unless the tracker stored junk or two users    *)
(* used one name.                                                           *)
FetchedRight ==
  running =>
    \A u \in Users : \A i \in DOMAIN local[u] :
      LET e == local[u][i]
          owner == torrents[e.id].owner
      IN  /\ Junk \notin Range(e.data)
          /\ \A k \in DOMAIN torrents :
               torrents[k].name = e.name => torrents[k].owner = owner
          => e.data = Body(owner, e.name)

(* A peer list never lands at a torrent it is not for while the one it is   *)
(* for is in the vector.                                                    *)
PeersFiled ==
  [][\A u \in Users : \A i \in DOMAIN local[u] :
       local'[u][i].peers # local[u][i].peers =>
         \/ local'[u][i].peers.id = local[u][i].id
         \/ local'[u][i].peers.id \notin LocalIds(u)]_vars

(* Every request is answered, or the client learns that the tracker is      *)
(* gone: an uploader that dies in the middle of its file, clients that      *)
(* leave, and the slots they leave behind block nobody for ever.            *)
Answered ==
  \A u \in Users :
    cpc[u] \in {"wait21", "wait51", "wait41", "wait31"} ~>
      cpc[u] \notin {"wait21", "wait51", "wait41", "wait31"}

-----------------------------------------------------------------------------
(* What the repository says and the code does not do *)

(* "add this new guy into the peer list": a peer list gives every peer's    *)
(* own address, for others to connect to it (communication_rule, 5).        *)
OwnAddress ==
  \A i \in DOMAIN torrents : \A k \in DOMAIN torrents[i].peers :
    torrents[i].peers[k].ip = torrents[i].peers[k].user
=============================================================================
