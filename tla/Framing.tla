------------------------------- MODULE Framing -------------------------------
(***************************************************************************)
(* How a request or reply is found in the bytes that recv() returns        *)
(* (include/C_R.h and the receive loops of server/server_multi.cpp and     *)
(* client/multi_client.cpp).                                               *)
(*                                                                         *)
(* A message is a JSON value between "$~" and "~$".  The two strings are   *)
(* handed to find_first_of() and find_last_of(), which look for any of     *)
(* their characters, and nothing keeps the bytes behind a message: the     *)
(* code counts on recv() returning one message, no more and no less.       *)
(* TCP promises less.                                                      *)
(*                                                                         *)
(* The characters "$", "~", "{" and "}" are "dollar", "tilde", "left" and  *)
(* "right", and one stands for what a message says.  Bodies hold an inner  *)
(* value, so that the rest of a torn message may look like a message of    *)
(* its own.                                                                *)
(***************************************************************************)
EXTENDS Integers, Sequences, FiniteSets

CONSTANTS
  Characters,  \* of messages and of what a buffer holds
  Contents,    \* what the messages say that are sent one after the other
  MAXBUF,      \* the most one recv() returns
  Junk         \* what a reply buffer may hold behind the reply

ASSUME FramingAssumption ==
  /\ {"dollar", "tilde", "left", "right", "newline"} \subseteq Characters
  /\ Contents \in Seq(Characters)
  /\ \A junk \in Junk : junk \in Seq(Characters)
  /\ \A i, j \in DOMAIN Contents : Contents[i] = Contents[j] => i = j
  /\ \A i \in DOMAIN Contents :
       Contents[i] \notin {"dollar", "tilde", "left", "right"}
  /\ MAXBUF \in Nat \ {0}

Messages == Len(Contents)

Marks == {"dollar", "tilde"}
STX_FLAG == <<"dollar", "tilde">>
ETX_FLAG == <<"tilde", "dollar">>

(* Positions of the characters of the flags in s; 0 stands for npos. *)
MarkAt(s) == {i \in DOMAIN s : s[i] \in Marks}
FirstMark(s) ==
  IF MarkAt(s) = {} THEN 0
  ELSE CHOOSE i \in MarkAt(s) : \A j \in MarkAt(s) : i <= j
LastMark(s) ==
  IF MarkAt(s) = {} THEN 0
  ELSE CHOOSE i \in MarkAt(s) : \A j \in MarkAt(s) : j <= i

detect_STX(s) == FirstMark(s) = 1

(* find_last_of() is an index from 0 or npos, and only 0 is false. *)
detect_ETX(s) == LastMark(s) # 1

(* Faulty variant: one character of the flag is removed. *)
remove_header_One(s) == SubSeq(s, FirstMark(s) + 1, Len(s))

(* Behind the first mark and the character that follows it; npos + 2 is 1. *)
remove_header(s) ==
  IF FirstMark(s) = 0 THEN SubSeq(s, 2, Len(s))
                      ELSE SubSeq(s, FirstMark(s) + 2, Len(s))

(* Up to the character before the last mark; 0 - 1 and npos - 1 are large. *)
remove_ender(s) ==
  IF LastMark(s) \in {0, 1} THEN s ELSE SubSeq(s, 1, LastMark(s) - 2)

remove_header_ender(s) == remove_ender(remove_header(s))

(* substr() throws when it shall start behind the end. *)
Throws(s) == IF FirstMark(s) = 0 THEN Len(s) = 0 ELSE FirstMark(s) + 1 > Len(s)

(* The writer ends its line with a newline, which is dropped. *)
add_header_ender(line) == STX_FLAG \o SubSeq(line, 1, Len(line) - 1) \o ETX_FLAG

-----------------------------------------------------------------------------
(* The JSON reader takes one value and ignores what follows. *)

Count(s, n, c) == Cardinality({i \in 1..n : s[i] = c})

(* Where the value ends that s begins with; 0: s begins with none. *)
ValueEnd(s) ==
  IF s = <<>> \/ s[1] # "left" THEN 0
  ELSE LET ends == {n \in DOMAIN s : Count(s, n, "left") = Count(s, n, "right")}
       IN IF ends = {} THEN 0 ELSE CHOOSE n \in ends : \A m \in ends : n <= m

(* Faulty variant: what comes behind the value is an error. *)
Parses_Strict(s) == ValueEnd(s) # 0 /\ ValueEnd(s) = Len(s)

Parses(s) == ValueEnd(s) # 0

(* Which message the value says, not the values in it; 0: none.             *)
(* Faulty variant: the text is searched, not the value.                     *)
Says_Anywhere(s) ==
  LET found == {k \in 1..Messages : \E i \in DOMAIN s : s[i] = Contents[k]}
  IN IF found = {} THEN 0 ELSE CHOOSE k \in found : TRUE

Says(s) ==
  IF Parses(s) /\ \E k \in 1..Messages : s[2] = Contents[k]
  THEN CHOOSE k \in 1..Messages : s[2] = Contents[k] ELSE 0

Body(k) == <<"left", Contents[k], "left", "right", "right">>
Newline == <<"newline">>
Frame(k) == add_header_ender(Body(k) \o Newline)

-----------------------------------------------------------------------------
VARIABLES
  role,        \* of the receiver: "loop", the select loop of a server or
               \* uploader, or "console", which awaits the reply to a command
  sent,        \* messages the other side has sent
  open,        \* has the other side not closed the connection?
  wire,        \* bytes that were not received yet
  pc,          \* "recv", "more" (the loop for the rest), "dead" or "closed"
  instruction,
  buf,         \* the characters in buf during the loop for the rest
  handled,     \* the messages it acted on
  recvs        \* where in the stream each recv() began, and the next will

vars == <<role, sent, open, wire, pc, instruction, buf, handled, recvs>>

Init ==
  /\ role \in {"loop", "console"}
  /\ sent = 0 /\ open = TRUE /\ wire = <<>>
  /\ pc = "recv" /\ instruction = <<>> /\ buf = <<>>
  /\ handled = <<>> /\ recvs = <<0>>

SendMessage ==
  /\ open
  /\ sent < Messages
  /\ sent' = sent + 1
  /\ wire' = wire \o Frame(sent + 1)
  /\ UNCHANGED <<role, open, pc, instruction, buf, handled, recvs>>

Close ==
  /\ open
  /\ open' = FALSE
  /\ UNCHANGED <<role, sent, wire, pc, instruction, buf, handled, recvs>>

(* What recv() may return: as many bytes as it likes. *)
Chunks == {SubSeq(wire, 1, n) : n \in {m \in 1..MAXBUF : m <= Len(wire)}}

Received(chunk) ==
  /\ wire' = SubSeq(wire, Len(chunk) + 1, Len(wire))
  /\ recvs' = Append(recvs, recvs[Len(recvs)] + Len(chunk))

EndOfInput == wire = <<>> /\ ~open

(* exit(-1) when s does not parse, else the request is answered; a value    *)
(* without a known request_type is passed over.                             *)
Handle(s) ==
  /\ pc' = IF Parses(s) THEN "recv" ELSE "dead"
  /\ handled' = IF Says(s) # 0 THEN Append(handled, Says(s)) ELSE handled

(* A recv() in the select loop: both marks, or no start mark at all, or the *)
(* loop for the rest.                                                       *)
Receive(chunk) ==
  /\ role = "loop" /\ pc = "recv"
  /\ Received(chunk)
  /\ IF detect_STX(chunk) /\ ~detect_ETX(chunk)
     THEN pc' = "more" /\ instruction' = chunk /\ UNCHANGED handled
     ELSE /\ Handle(IF detect_STX(chunk) THEN remove_header_ender(chunk) ELSE chunk)
          /\ UNCHANGED instruction
  /\ UNCHANGED <<role, sent, open, buf>>

(* The loop for the rest adds what is in buf, which it does not clear, and  *)
(* ends when the last mark is not at the start of buf.  Nothing is removed  *)
(* before the parser gets it.                                               *)
Rest(chunk) ==
  LET now == chunk \o SubSeq(buf, Len(chunk) + 1, Len(buf))
  IN IF detect_ETX(now)
     THEN Handle(instruction \o now) /\ instruction' = <<>> /\ buf' = <<>>
     ELSE /\ instruction' = instruction \o now /\ buf' = now
          /\ UNCHANGED <<pc, handled>>

ReceiveMore(chunk) ==
  /\ pc = "more"
  /\ Received(chunk)
  /\ Rest(chunk)
  /\ UNCHANGED <<role, sent, open>>

(* recv() returns 0 in the loop for the rest: it ends if buf is empty.      *)
(* (Otherwise it adds buf again and again and never ends.)                  *)
EndInLoop ==
  /\ pc = "more"
  /\ EndOfInput
  /\ buf = <<>>
  /\ Rest(<<>>)
  /\ UNCHANGED <<role, sent, open, wire, recvs>>

Disconnect ==
  /\ role = "loop" /\ pc = "recv"
  /\ EndOfInput
  /\ pc' = "closed"
  /\ UNCHANGED <<role, sent, open, wire, instruction, buf, handled, recvs>>

(* The console reads the reply with one recv() into a buffer that holds     *)
(* junk and is not terminated, and removes the marks unseen; when it does   *)
(* not parse the command is given up.                                       *)
ReadReply(chunk, junk) ==
  /\ role = "console" /\ pc = "recv"
  /\ Received(chunk)
  /\ LET text == chunk \o junk
         s == remove_header_ender(text)
     IN /\ pc' = IF Throws(text) THEN "dead" ELSE "closed"
        /\ handled' = IF ~Throws(text) /\ Says(s) # 0 THEN <<Says(s)>> ELSE <<>>
  /\ UNCHANGED <<role, sent, open, instruction, buf>>

Next ==
  \/ SendMessage
  \/ Close
  \/ \E chunk \in Chunks : Receive(chunk) \/ ReceiveMore(chunk)
  \/ EndInLoop
  \/ Disconnect
  \/ \E junk \in Junk :
       \/ \E chunk \in Chunks : ReadReply(chunk, junk)
       \/ EndOfInput /\ ReadReply(<<>>, junk)

Spec == Init /\ [][Next]_vars
-----------------------------------------------------------------------------
(* Properties *)

FrameLength == Len(Frame(1))

(* Every recv() so far returned whole messages, one or more of them. *)
Whole == \A i \in DOMAIN recvs : recvs[i] % FrameLength = 0

(* The message at the start of each recv(). *)
Firsts ==
  [i \in 1..Len(recvs) - 1 |-> recvs[i] \div FrameLength + 1]

(* As long as recv() returns whole messages the receiver lives and acts on  *)
(* the first one of each recv(): not on those glued to it, which get no     *)
(* answer.                                                                  *)
FirstUnderstood ==
  role = "loop" /\ Whole => pc # "dead" /\ handled = Firsts

(* Where the value of message k starts in the stream. *)
Start(k) == (k - 1) * FrameLength + Len(STX_FLAG)

(* However the bytes are cut, a receiver never acts on a request that is    *)
(* torn, mixed with another, or was acted on before: the whole value of     *)
(* what it acted on came in one recv(), and in the order of sending.        *)
NothingInvented ==
  role = "loop" =>
    \A i \in DOMAIN handled :
      /\ i > 1 => handled[i - 1] < handled[i]
      /\ \E j \in 1..Len(recvs) - 1 :
           /\ recvs[j] <= Start(handled[i])
           /\ recvs[j + 1] >= Start(handled[i]) + Len(Body(1))

(* A reply that came in one recv() is understood whatever the buffer held   *)
(* behind it.                                                               *)
ReplyUnderstood ==
  role = "console" /\ Len(recvs) > 1 /\ recvs[2] >= FrameLength
    => handled = <<1>>

-----------------------------------------------------------------------------
(* What the repository says and the code does not do *)

(* "detect the start of the instruction", then a loop until "finish receive *)
(* instruction from client" (server_multi.cpp:170-198): a request that      *)
(* comes in two pieces is put together and does not end the server.         *)
PiecesPutTogether == role = "loop" => pc # "dead"
=============================================================================
