---------------------------- MODULE FramingProofs ----------------------------
(***************************************************************************)
(* What a receiver makes of a stream of messages, for any messages, any    *)
(* number of them, any way recv() cuts the bytes and any junk in a buffer: *)
(* whole messages are understood (FirstUnderstood), a torn one is never    *)
(* taken for another (NothingInvented), and a reply that came at once is   *)
(* understood whatever lies behind it (ReplyUnderstood).                   *)
(***************************************************************************)
EXTENDS Framing, SequenceTheorems, FiniteSetTheorems, NaturalsInduction,
        WellFoundedInduction, TLAPS

-----------------------------------------------------------------------------
(* The inductive invariant *)

(* The character at place i of everything that is ever sent, counted from   *)
(* 1: character PlaceAt(i) of message MessageAt(i).                         *)
MessageAt(i) == ((i - 1) \div 9) + 1
PlaceAt(i) == ((i - 1) % 9) + 1
CharAt(i) == Frame(MessageAt(i))[PlaceAt(i)]

(* The number of characters received. *)
Got == recvs[Len(recvs)]

(* What is on its way is the rest of what was sent. *)
StreamOK ==
  /\ sent \in 0..Messages
  /\ wire \in Seq(Characters)
  /\ recvs \in Seq(Nat) /\ Len(recvs) >= 1
  /\ \A i \in 1..Len(recvs) : recvs[i] <= Got
  /\ Len(wire) = 9 * sent - Got
  /\ \A i \in 1..Len(wire) : wire[i] = CharAt(Got + i)

(* What the loop for the rest puts together begins with a mark, not with a  *)
(* value.                                                                   *)
ReceiverOK ==
  /\ role \in {"loop", "console"}
  /\ pc \in {"recv", "more", "dead", "closed"}
  /\ instruction \in Seq(Characters) /\ buf \in Seq(Characters)
  /\ handled \in Seq(1..Messages)
  /\ pc = "more" => /\ role = "loop"
                    /\ Len(instruction) >= 1 /\ instruction[1] \in Marks

(* The console calls recv() once. *)
ConsoleOK ==
  role = "console" /\ pc = "recv" =>
    Len(recvs) = 1 /\ Got = 0 /\ handled = <<>>

(* Of whole messages there is no rest to wait for. *)
LoopOK ==
  role = "loop" /\ Whole => pc \in {"recv", "closed"} /\ handled = Firsts

Inv ==
  /\ StreamOK /\ ReceiverOK /\ ConsoleOK /\ LoopOK
  /\ NothingInvented /\ ReplyUnderstood

-----------------------------------------------------------------------------
(* Sequences *)

LEMMA Part ==
  ASSUME NEW S, NEW s \in Seq(S), NEW m \in Nat \ {0}, NEW n \in Nat, n <= Len(s)
  PROVE  /\ SubSeq(s, m, n) \in Seq(S)
         /\ Len(SubSeq(s, m, n)) = IF m <= n THEN n - m + 1 ELSE 0
         /\ \A i \in 1..Len(SubSeq(s, m, n)) : SubSeq(s, m, n)[i] = s[m + i - 1]
<1>1. Len(s) \in Nat /\ \A i \in 1..Len(s) : s[i] \in S
  BY LenProperties
<1>2. \A i \in m..n : s[i] \in S
  BY <1>1
<1> QED
  BY <1>1, <1>2, SubSeqProperties

LEMMA LeastNatural ==
  ASSUME NEW S, S \subseteq Nat, S # {}
  PROVE  \E n \in S : \A m \in S : n <= m
<1>1. IsWellFoundedOn(OpToRel(<, Nat), Nat)
  BY NatLessThanWellFounded
<1>2. \E x \in S : \A y \in S : ~(<<y, x>> \in OpToRel(<, Nat))
  BY <1>1, WFMin
<1>3. PICK n \in S : \A y \in S : ~(<<y, n>> \in OpToRel(<, Nat))
  BY <1>2
<1>4. \A y \in S : ~(y < n)
  BY <1>3 DEF OpToRel
<1> QED
  BY <1>4

LEMMA GreatestNatural ==
  ASSUME NEW b \in Nat, NEW S, S \subseteq 0..b, S # {}
  PROVE  \E n \in S : \A m \in S : m <= n
<1> DEFINE T == {x \in 0..b : b - x \in S}
<1>1. \A m \in S : b - m \in T
  OBVIOUS
<1>2. PICK x \in T : \A y \in T : x <= y
  <2>1. T \subseteq Nat
    OBVIOUS
  <2>2. PICK m \in S : TRUE
    OBVIOUS
  <2>3. b - m \in T
    BY <1>1
  <2>4. T # {}
    BY <2>3
  <2> HIDE DEF T
  <2> QED
    BY <2>1, <2>4, LeastNatural
<1>3. b - x \in S /\ x \in 0..b
  OBVIOUS
<1>4. \A m \in S : x <= b - m
  BY <1>1, <1>2
<1>5. \A m \in S : m <= b - x
  BY <1>3, <1>4
<1> QED
  BY <1>3, <1>5

-----------------------------------------------------------------------------
(* Messages *)

LEMMA ContentsFacts ==
  /\ Messages \in Nat
  /\ DOMAIN Contents = 1..Messages
  /\ \A k \in 1..Messages : /\ Contents[k] \in Characters
                            /\ Contents[k] \notin {"dollar", "tilde", "left", "right"}
  /\ \A k, m \in 1..Messages : Contents[k] = Contents[m] => k = m
<1>1. Contents \in Seq(Characters)
  BY FramingAssumption
<1>2. Messages \in Nat /\ DOMAIN Contents = 1..Messages
      /\ \A k \in 1..Messages : Contents[k] \in Characters
  BY <1>1, LenProperties DEF Messages
<1>3. \A i \in DOMAIN Contents : Contents[i] \notin {"dollar", "tilde", "left", "right"}
  BY FramingAssumption
<1>4. \A i, j \in DOMAIN Contents : Contents[i] = Contents[j] => i = j
  BY FramingAssumption
<1> QED
  BY <1>2, <1>3, <1>4

(* The characters of a message. *)
LEMMA FrameParts ==
  ASSUME NEW S, NEW k, Contents[k] \in S,
         "dollar" \in S, "tilde" \in S, "left" \in S, "right" \in S, "newline" \in S
  PROVE  /\ Frame(k) \in Seq(S) /\ Len(Frame(k)) = 9
         /\ Frame(k)[1] = "dollar" /\ Frame(k)[2] = "tilde" /\ Frame(k)[3] = "left"
         /\ Frame(k)[4] = Contents[k] /\ Frame(k)[5] = "left"
         /\ Frame(k)[6] = "right" /\ Frame(k)[7] = "right"
         /\ Frame(k)[8] = "tilde" /\ Frame(k)[9] = "dollar"
<1> DEFINE b == Body(k)
           line == b \o Newline
           text == SubSeq(line, 1, Len(line) - 1)
           front == STX_FLAG \o text
           all == front \o ETX_FLAG
<1>1. b \in Seq(S) /\ Newline \in Seq(S) /\ STX_FLAG \in Seq(S) /\ ETX_FLAG \in Seq(S)
  BY DEF Body, Newline, STX_FLAG, ETX_FLAG
<1>2. Len(b) = 5 /\ Len(Newline) = 1 /\ Len(STX_FLAG) = 2 /\ Len(ETX_FLAG) = 2
  BY DEF Body, Newline, STX_FLAG, ETX_FLAG
<1>3. /\ b[1] = "left" /\ b[2] = Contents[k] /\ b[3] = "left"
      /\ b[4] = "right" /\ b[5] = "right"
      /\ STX_FLAG[1] = "dollar" /\ STX_FLAG[2] = "tilde"
      /\ ETX_FLAG[1] = "tilde" /\ ETX_FLAG[2] = "dollar"
  BY DEF Body, STX_FLAG, ETX_FLAG
<1> HIDE DEF b
<1>4. /\ line \in Seq(S) /\ Len(line) = Len(b) + Len(Newline)
      /\ \A i \in 1..Len(b) + Len(Newline) :
           line[i] = IF i <= Len(b) THEN b[i] ELSE Newline[i - Len(b)]
  BY <1>1, ConcatProperties
<1> HIDE DEF line
<1>5. line \in Seq(S) /\ Len(line) = 6 /\ \A i \in 1..5 : line[i] = b[i]
  BY <1>2, <1>4
<1>6. text \in Seq(S) /\ Len(text) = 5 /\ \A i \in 1..5 : text[i] = b[i]
  <2>1. PICK n \in Nat : n = 5 /\ n = Len(line) - 1
    BY <1>5
  <2>2. 1 \in Nat \ {0} /\ n <= Len(line) /\ text = SubSeq(line, 1, n)
    BY <1>5, <2>1
  <2> HIDE DEF text
  <2>3. /\ SubSeq(line, 1, n) \in Seq(S)
        /\ Len(SubSeq(line, 1, n)) = IF 1 <= n THEN n - 1 + 1 ELSE 0
        /\ \A i \in 1..Len(SubSeq(line, 1, n)) :
             SubSeq(line, 1, n)[i] = line[1 + i - 1]
    BY <1>5, <2>2, Part
  <2> QED
    BY <1>5, <2>1, <2>2, <2>3
<1> HIDE DEF text
<1>7. /\ front \in Seq(S) /\ Len(front) = Len(STX_FLAG) + Len(text)
      /\ \A i \in 1..Len(STX_FLAG) + Len(text) :
           front[i] = IF i <= Len(STX_FLAG) THEN STX_FLAG[i]
                                            ELSE text[i - Len(STX_FLAG)]
  BY <1>1, <1>6, ConcatProperties
<1> HIDE DEF front
<1>8. /\ front \in Seq(S) /\ Len(front) = 7
      /\ front[1] = "dollar" /\ front[2] = "tilde" /\ front[3] = "left"
      /\ front[4] = Contents[k] /\ front[5] = "left"
      /\ front[6] = "right" /\ front[7] = "right"
  BY <1>2, <1>3, <1>6, <1>7
<1>9. /\ all \in Seq(S) /\ Len(all) = Len(front) + Len(ETX_FLAG)
      /\ \A i \in 1..Len(front) + Len(ETX_FLAG) :
           all[i] = IF i <= Len(front) THEN front[i] ELSE ETX_FLAG[i - Len(front)]
  BY <1>1, <1>8, ConcatProperties
<1>10. Frame(k) = all
  BY DEF Frame, add_header_ender, front, text, line, b
<1> HIDE DEF all
<1> QED
  BY <1>2, <1>3, <1>8, <1>9, <1>10

LEMMA FrameIs ==
  ASSUME NEW k
  PROVE  /\ Len(Frame(k)) = 9
         /\ Frame(k)[1] = "dollar" /\ Frame(k)[2] = "tilde" /\ Frame(k)[3] = "left"
         /\ Frame(k)[4] = Contents[k] /\ Frame(k)[5] = "left"
         /\ Frame(k)[6] = "right" /\ Frame(k)[7] = "right"
         /\ Frame(k)[8] = "tilde" /\ Frame(k)[9] = "dollar"
<1> DEFINE S == {"dollar", "tilde", "left", "right", "newline"} \union {Contents[k]}
<1>1. /\ Contents[k] \in S
      /\ "dollar" \in S /\ "tilde" \in S /\ "left" \in S /\ "right" \in S /\ "newline" \in S
  OBVIOUS
<1> HIDE DEF S
<1> QED
  BY <1>1, FrameParts

LEMMA FrameTyped ==
  ASSUME NEW k \in 1..Messages
  PROVE  Frame(k) \in Seq(Characters)
<1>1. /\ Contents[k] \in Characters
      /\ "dollar" \in Characters /\ "tilde" \in Characters /\ "left" \in Characters
      /\ "right" \in Characters /\ "newline" \in Characters
  BY ContentsFacts, FramingAssumption
<1> QED
  BY <1>1, FrameParts

LEMMA Lengths ==
  /\ FrameLength = 9 /\ Len(STX_FLAG) = 2 /\ Len(Body(1)) = 5
  /\ \A k : Start(k) = (k - 1) * 9 + 2
<1>1. FrameLength = 9
  BY FrameIs DEF FrameLength
<1> QED
  BY <1>1 DEF STX_FLAG, Body, Start

(* Places in the stream. *)
LEMMA Places ==
  ASSUME NEW i \in Nat \ {0}
  PROVE  /\ MessageAt(i) \in Nat \ {0} /\ PlaceAt(i) \in 1..9
         /\ i = 9 * (MessageAt(i) - 1) + PlaceAt(i)
         /\ \A n \in Nat : i <= 9 * n => MessageAt(i) <= n
BY DEF MessageAt, PlaceAt

LEMMA PlaceOf ==
  ASSUME NEW m \in Nat, NEW r \in 1..9
  PROVE  MessageAt(9 * m + r) = m + 1 /\ PlaceAt(9 * m + r) = r
BY DEF MessageAt, PlaceAt

(* The characters of the message behind m whole ones. *)
LEMMA CharsOf ==
  ASSUME NEW m \in Nat
  PROVE  /\ CharAt(9 * m + 1) = "dollar" /\ CharAt(9 * m + 2) = "tilde"
         /\ CharAt(9 * m + 3) = "left" /\ CharAt(9 * m + 4) = Contents[m + 1]
         /\ CharAt(9 * m + 5) = "left" /\ CharAt(9 * m + 6) = "right"
         /\ CharAt(9 * m + 7) = "right" /\ CharAt(9 * m + 8) = "tilde"
         /\ CharAt(9 * m + 9) = "dollar"
<1>1. \A r \in 1..9 : CharAt(9 * m + r) = Frame(m + 1)[r]
  BY PlaceOf DEF CharAt
<1> QED
  BY <1>1, FrameIs

LEMMA MessageBound ==
  ASSUME NEW i \in Nat \ {0}, i <= 9 * Messages
  PROVE  /\ MessageAt(i) \in 1..Messages /\ PlaceAt(i) \in 1..9
         /\ i = 9 * (MessageAt(i) - 1) + PlaceAt(i)
<1>1. Messages \in Nat
  BY ContentsFacts
<1>2. MessageAt(i) <= Messages
  BY <1>1, Places
<1> QED
  BY <1>1, <1>2, Places

(* A character that tells the message stands at one place only. *)
LEMMA ContentPlace ==
  ASSUME NEW i \in Nat \ {0}, i <= 9 * Messages, NEW k \in 1..Messages,
         CharAt(i) = Contents[k]
  PROVE  i = 9 * (k - 1) + 4
<1>1. PICK m \in 1..Messages, r \in 1..9 :
        i = 9 * (m - 1) + r /\ Frame(m)[r] = Contents[k]
  BY MessageBound DEF CharAt
<1>2. Contents[k] \notin {"dollar", "tilde", "left", "right"}
  BY ContentsFacts
<1>3. r = 4
  BY <1>1, <1>2, FrameIs
<1>4. Contents[m] = Contents[k]
  BY <1>1, <1>3, FrameIs
<1>5. m = k
  BY <1>4, ContentsFacts
<1> QED
  BY <1>1, <1>3, <1>5

LEMMA CharTyped ==
  ASSUME NEW i \in Nat \ {0}, i <= 9 * Messages
  PROVE  CharAt(i) \in Characters
<1>1. PICK m \in 1..Messages, r \in 1..9 : CharAt(i) = Frame(m)[r]
  BY MessageBound DEF CharAt
<1>2. Frame(m) \in Seq(Characters) /\ Len(Frame(m)) = 9
  BY FrameTyped, FrameIs
<1>3. Frame(m)[r] \in Characters
  BY <1>2, ElementOfSeq
<1> QED
  BY <1>1, <1>3

-----------------------------------------------------------------------------
(* The JSON value at the start of a sequence *)

(* One brace, and the two opening ones of a message. *)
LEMMA Braces ==
  ASSUME NEW s, s[1] = "left", s[2] \notin {"left", "right"},
         s[3] = "left" \/ s[3] = "right" \/ s[3] # "right"
  PROVE  /\ Count(s, 1, "left") = 1 /\ Count(s, 1, "right") = 0
         /\ Count(s, 2, "left") = 1 /\ Count(s, 2, "right") = 0
<1>1. {i \in 1..1 : s[i] = "left"} = {1} /\ {i \in 1..1 : s[i] = "right"} = {}
  OBVIOUS
<1>2. {i \in 1..2 : s[i] = "left"} = {1} /\ {i \in 1..2 : s[i] = "right"} = {}
  OBVIOUS
<1> QED
  BY <1>1, <1>2, FS_Singleton, FS_EmptySet DEF Count

LEMMA TwoElements ==
  ASSUME NEW a, NEW b, a # b
  PROVE  Cardinality({a, b}) = 2
<1>1. IsFiniteSet({a}) /\ Cardinality({a}) = 1 /\ b \notin {a}
  BY FS_Singleton
<1>2. Cardinality({a} \union {b}) = 1 + 1
  BY <1>1, FS_AddElement
<1>3. {a, b} = {a} \union {b}
  OBVIOUS
<1> QED
  BY <1>2, <1>3

LEMMA InnerBraces ==
  ASSUME NEW s, s[1] = "left", s[2] \notin {"left", "right"}, s[3] = "left"
  PROVE  /\ Count(s, 3, "left") = 2 /\ Count(s, 3, "right") = 0
         /\ s[4] = "right" => Count(s, 4, "left") = 2 /\ Count(s, 4, "right") = 1
         /\ s[4] = "right" /\ s[5] = "right"
              => Count(s, 5, "left") = 2 /\ Count(s, 5, "right") = 2
<1>1. Cardinality({1, 3}) = 2 /\ Cardinality({4, 5}) = 2
  <2>1. 1 # 3 /\ 4 # 5
    OBVIOUS
  <2> QED
    BY <2>1, TwoElements, Zenon
<1>2. {i \in 1..3 : s[i] = "left"} = {1, 3} /\ {i \in 1..3 : s[i] = "right"} = {}
  OBVIOUS
<1>3. s[4] = "right" => /\ {i \in 1..4 : s[i] = "left"} = {1, 3}
                        /\ {i \in 1..4 : s[i] = "right"} = {4}
  OBVIOUS
<1>4. s[4] = "right" /\ s[5] = "right" =>
        /\ {i \in 1..5 : s[i] = "left"} = {1, 3}
        /\ {i \in 1..5 : s[i] = "right"} = {4, 5}
  OBVIOUS
<1>5. Cardinality({4}) = 1 /\ Cardinality({}) = 0
  BY FS_Singleton, FS_EmptySet
<1> QED
  BY <1>1, <1>2, <1>3, <1>4, <1>5 DEF Count

(* Where one prefix is balanced the value has an end. *)
LEMMA ValueEnds ==
  ASSUME NEW s \in Seq(Characters)
  PROVE  /\ ValueEnd(s) # 0 =>
              /\ s # <<>> /\ s[1] = "left"
              /\ \E n \in 1..Len(s) : Count(s, n, "left") = Count(s, n, "right")
         /\ s # <<>> /\ s[1] = "left"
              /\ (\E n \in 1..Len(s) : Count(s, n, "left") = Count(s, n, "right"))
                 => ValueEnd(s) # 0
<1> DEFINE ends == {n \in DOMAIN s : Count(s, n, "left") = Count(s, n, "right")}
<1>1. DOMAIN s = 1..Len(s) /\ Len(s) \in Nat
  BY LenProperties
<1>2. CASE s = <<>> \/ s[1] # "left"
  BY <1>2 DEF ValueEnd
<1>3. CASE s # <<>> /\ s[1] = "left" /\ ends = {}
  <2>1. ValueEnd(s) = 0
    BY <1>3 DEF ValueEnd
  <2> QED
    BY <1>1, <1>3, <2>1
<1>4. CASE s # <<>> /\ s[1] = "left" /\ ends # {}
  <2>1. ends \subseteq Nat /\ 0 \notin ends
    BY <1>1
  <2>2. ValueEnd(s) = CHOOSE n \in ends : \A m \in ends : n <= m
    BY <1>4 DEF ValueEnd
  <2>3. \E n \in ends : Count(s, n, "left") = Count(s, n, "right") /\ n \in 1..Len(s)
    BY <1>1, <1>4
  <2> HIDE DEF ends
  <2>4. ValueEnd(s) \in ends
    BY <1>4, <2>1, <2>2, LeastNatural
  <2> QED
    BY <1>4, <2>1, <2>3, <2>4
<1> QED
  BY <1>2, <1>3, <1>4

LEMMA SaysWhat ==
  ASSUME NEW s, NEW k \in 1..Messages
  PROVE  /\ Says(s) = k => Parses(s) /\ s[2] = Contents[k]
         /\ Parses(s) /\ s[2] = Contents[k] => Says(s) = k
<1>1. k # 0
  BY ContentsFacts
<1>2. ASSUME s[2] = Contents[k]
      PROVE  (CHOOSE m \in 1..Messages : s[2] = Contents[m]) = k
  BY <1>2, ContentsFacts
<1>3. ASSUME Says(s) = k
      PROVE  Parses(s) /\ s[2] = Contents[k]
  <2>1. Parses(s) /\ \E m \in 1..Messages : s[2] = Contents[m]
    BY <1>1, <1>3 DEF Says
  <2>2. k = CHOOSE m \in 1..Messages : s[2] = Contents[m]
    BY <1>3, <2>1 DEF Says
  <2> QED
    BY <2>1, <2>2
<1> QED
  BY <1>2, <1>3 DEF Says

LEMMA SaysOne ==
  ASSUME NEW s, Says(s) # 0
  PROVE  Says(s) \in 1..Messages
<1>1. Parses(s) /\ \E m \in 1..Messages : s[2] = Contents[m]
  BY DEF Says
<1> QED
  BY <1>1 DEF Says

(* A whole body, whatever comes behind it, says its message. *)
LEMMA BodyUnderstood ==
  ASSUME NEW s \in Seq(Characters), Len(s) >= 5, NEW k \in 1..Messages,
         s[1] = "left", s[2] = Contents[k], s[3] = "left",
         s[4] = "right", s[5] = "right"
  PROVE  Parses(s) /\ Says(s) = k
<1>1. s[2] \notin {"left", "right"}
  BY ContentsFacts
<1>2. Count(s, 5, "left") = Count(s, 5, "right")
  BY <1>1, InnerBraces
<1>3. 5 \in 1..Len(s) /\ s # <<>>
  BY LenProperties, EmptySeq
<1>4. Parses(s)
  BY <1>2, <1>3, ValueEnds DEF Parses
<1> QED
  BY <1>4, SaysWhat

(* A part of the stream that says message k begins with its body and holds  *)
(* it all.                                                                  *)
LEMMA PartUnderstood ==
  ASSUME NEW q \in Nat, NEW s \in Seq(Characters), q + Len(s) <= 9 * Messages,
         \A i \in 1..Len(s) : s[i] = CharAt(q + i),
         NEW k \in 1..Messages, Says(s) = k
  PROVE  q = Start(k) /\ Len(s) >= 5
<1>1. Len(s) \in Nat /\ Messages \in Nat
  BY LenProperties, ContentsFacts
<1>2. /\ s # <<>> /\ s[1] = "left" /\ s[2] = Contents[k]
      /\ \E n \in 1..Len(s) : Count(s, n, "left") = Count(s, n, "right")
  BY SaysWhat, ValueEnds DEF Parses
<1>3. PICK n \in 1..Len(s) : Count(s, n, "left") = Count(s, n, "right")
  BY <1>2
<1>4. s[2] \notin {"left", "right"}
  BY <1>2, ContentsFacts
<1>5. Len(s) >= 2
  BY <1>1, <1>2, <1>3, <1>4, Braces
<1>6. CharAt(q + 2) = Contents[k]
  BY <1>1, <1>2, <1>5
<1>7. q + 2 = 9 * (k - 1) + 4
  BY <1>1, <1>5, <1>6, ContentPlace
<1> DEFINE m == k - 1
<1>8. m \in Nat /\ q = 9 * m + 2
  BY <1>1, <1>7
<1>9. Len(s) >= 3 => s[3] = "left"
  <2>1. q + 3 = 9 * m + 5
    BY <1>8
  <2>2. CharAt(9 * m + 5) = "left"
    BY <1>8, CharsOf
  <2>3. Len(s) >= 3 => s[3] = CharAt(q + 3)
    BY <1>1
  <2> QED
    BY <2>1, <2>2, <2>3
<1>10. Len(s) >= 4 => s[4] = "right"
  <2>1. q + 4 = 9 * m + 6
    BY <1>8
  <2>2. CharAt(9 * m + 6) = "right"
    BY <1>8, CharsOf
  <2>3. Len(s) >= 4 => s[4] = CharAt(q + 4)
    BY <1>1
  <2> QED
    BY <2>1, <2>2, <2>3
<1>11. n >= 5
  BY <1>1, <1>2, <1>3, <1>4, <1>9, <1>10, Braces, InnerBraces
<1>12. Start(k) = m * 9 + 2
  BY Lengths
<1> QED
  BY <1>1, <1>8, <1>11, <1>12

-----------------------------------------------------------------------------
(* Marks *)

LEMMA FirstMarkIs ==
  ASSUME NEW s \in Seq(Characters)
  PROVE  /\ FirstMark(s) \in 0..Len(s)
         /\ FirstMark(s) # 0 => s[FirstMark(s)] \in Marks
         /\ Len(s) >= 1 /\ s[1] \in Marks => FirstMark(s) = 1
<1>1. DOMAIN s = 1..Len(s) /\ Len(s) \in Nat
  BY LenProperties
<1>2. MarkAt(s) \subseteq 1..Len(s) /\ \A i \in MarkAt(s) : s[i] \in Marks
  BY <1>1 DEF MarkAt
<1>3. Len(s) >= 1 /\ s[1] \in Marks => 1 \in MarkAt(s)
  BY <1>1 DEF MarkAt
<1>4. CASE MarkAt(s) = {}
  BY <1>1, <1>3, <1>4 DEF FirstMark
<1>5. CASE MarkAt(s) # {}
  <2>1. \E i \in MarkAt(s) : \A j \in MarkAt(s) : i <= j
    <3>1. MarkAt(s) \subseteq Nat
      BY <1>1, <1>2
    <3> QED
      BY <1>5, <3>1, LeastNatural
  <2>2. /\ FirstMark(s) \in MarkAt(s)
        /\ \A j \in MarkAt(s) : FirstMark(s) <= j
    BY <1>5, <2>1 DEF FirstMark
  <2> QED
    BY <1>1, <1>2, <1>3, <2>2
<1> QED
  BY <1>4, <1>5

LEMMA LastMarkIs ==
  ASSUME NEW s \in Seq(Characters)
  PROVE  /\ LastMark(s) \in 0..Len(s)
         /\ \A i \in 1..Len(s) : s[i] \in Marks => i <= LastMark(s)
<1>1. DOMAIN s = 1..Len(s) /\ Len(s) \in Nat
  BY LenProperties
<1>2. MarkAt(s) \subseteq 0..Len(s)
  BY <1>1 DEF MarkAt
<1>3. \A i \in 1..Len(s) : s[i] \in Marks => i \in MarkAt(s)
  BY <1>1 DEF MarkAt
<1>4. CASE MarkAt(s) = {}
  BY <1>1, <1>3, <1>4 DEF LastMark
<1>5. CASE MarkAt(s) # {}
  <2>1. \E i \in MarkAt(s) : \A j \in MarkAt(s) : j <= i
    BY <1>1, <1>2, <1>5, GreatestNatural
  <2>2. /\ LastMark(s) \in MarkAt(s)
        /\ \A j \in MarkAt(s) : j <= LastMark(s)
    BY <1>5, <2>1 DEF LastMark
  <2> QED
    BY <1>1, <1>2, <1>3, <2>2
<1> QED
  BY <1>4, <1>5

(* The ender is cut off at the end only. *)
LEMMA EnderRemoved ==
  ASSUME NEW s \in Seq(Characters)
  PROVE  /\ remove_ender(s) \in Seq(Characters)
         /\ Len(remove_ender(s)) <= Len(s)
         /\ \A i \in 1..Len(remove_ender(s)) : remove_ender(s)[i] = s[i]
         /\ \A i \in 2..Len(s) : s[i] \in Marks => Len(remove_ender(s)) >= i - 2
<1>1. Len(s) \in Nat
  BY LenProperties
<1>2. /\ LastMark(s) \in 0..Len(s)
      /\ \A i \in 1..Len(s) : s[i] \in Marks => i <= LastMark(s)
  BY LastMarkIs
<1>3. CASE LastMark(s) \in {0, 1}
  <2>1. remove_ender(s) = s
    BY <1>3 DEF remove_ender
  <2> QED
    BY <1>1, <2>1
<1>4. CASE LastMark(s) \notin {0, 1}
  <2>1. remove_ender(s) = SubSeq(s, 1, LastMark(s) - 2)
    BY <1>4 DEF remove_ender
  <2>2. LastMark(s) - 2 \in Nat /\ LastMark(s) - 2 <= Len(s) /\ 1 \in Nat \ {0}
    BY <1>1, <1>2, <1>4
  <2>3. /\ remove_ender(s) \in Seq(Characters)
        /\ Len(remove_ender(s)) = IF 1 <= LastMark(s) - 2
                                  THEN LastMark(s) - 2 - 1 + 1 ELSE 0
        /\ \A i \in 1..Len(remove_ender(s)) : remove_ender(s)[i] = s[1 + i - 1]
    BY <2>1, <2>2, Part
  <2>4. Len(remove_ender(s)) = LastMark(s) - 2
    BY <2>2, <2>3
  <2> QED
    BY <1>1, <1>2, <2>2, <2>3, <2>4
<1> QED
  BY <1>3, <1>4

(* Behind a first mark at the start two characters are removed. *)
LEMMA HeaderRemoved ==
  ASSUME NEW s \in Seq(Characters), FirstMark(s) = 1
  PROVE  /\ remove_header(s) \in Seq(Characters)
         /\ Len(s) >= 1
         /\ Len(remove_header(s)) = IF Len(s) >= 2 THEN Len(s) - 2 ELSE 0
         /\ \A i \in 1..Len(remove_header(s)) : remove_header(s)[i] = s[i + 2]
<1>1. Len(s) \in Nat /\ Len(s) >= 1
  BY LenProperties, FirstMarkIs
<1>2. remove_header(s) = SubSeq(s, 3, Len(s)) /\ 3 \in Nat \ {0}
  BY DEF remove_header
<1>3. /\ remove_header(s) \in Seq(Characters)
      /\ Len(remove_header(s)) = IF 3 <= Len(s) THEN Len(s) - 3 + 1 ELSE 0
      /\ \A i \in 1..Len(remove_header(s)) : remove_header(s)[i] = s[3 + i - 1]
  BY <1>1, <1>2, Part
<1> QED
  BY <1>1, <1>3

(* What is left of a sequence that begins with a mark. *)
LEMMA Trimmed ==
  ASSUME NEW s \in Seq(Characters), FirstMark(s) = 1
  PROVE  /\ remove_header_ender(s) \in Seq(Characters)
         /\ Len(remove_header_ender(s)) <= IF Len(s) >= 2 THEN Len(s) - 2 ELSE 0
         /\ \A i \in 1..Len(remove_header_ender(s)) :
              remove_header_ender(s)[i] = s[i + 2]
         /\ \A i \in 4..Len(s) :
              s[i] \in Marks => Len(remove_header_ender(s)) >= i - 4
<1> DEFINE h == remove_header(s)
<1>1. /\ h \in Seq(Characters) /\ Len(s) >= 1
      /\ Len(h) = IF Len(s) >= 2 THEN Len(s) - 2 ELSE 0
      /\ \A i \in 1..Len(h) : h[i] = s[i + 2]
  BY HeaderRemoved
<1>2. Len(s) \in Nat /\ Len(h) \in Nat
  BY <1>1, LenProperties
<1>3. remove_header_ender(s) = remove_ender(h)
  BY DEF remove_header_ender
<1> HIDE DEF h
<1>4. /\ remove_ender(h) \in Seq(Characters)
      /\ Len(remove_ender(h)) <= Len(h)
      /\ \A i \in 1..Len(remove_ender(h)) : remove_ender(h)[i] = h[i]
      /\ \A i \in 2..Len(h) : h[i] \in Marks => Len(remove_ender(h)) >= i - 2
  BY <1>1, EnderRemoved
<1>5. Len(remove_ender(h)) \in Nat
  BY <1>4, LenProperties
<1>6. ASSUME NEW i \in 4..Len(s), s[i] \in Marks
      PROVE  Len(remove_ender(h)) >= i - 4
  <2>1. h[i - 2] = s[i] /\ i - 2 \in 2..Len(h)
    BY <1>1, <1>2, <1>6
  <2> QED
    BY <1>4, <1>6, <2>1
<1> QED
  BY <1>1, <1>2, <1>3, <1>4, <1>5, <1>6
-----------------------------------------------------------------------------
(* What recv() does to the stream *)

(* The chunk recv() returns, possibly nothing, and what comes behind it. *)
LEMMA ReceivedFacts ==
  ASSUME StreamOK, NEW chunk, chunk \in Chunks \/ chunk = <<>>, Received(chunk),
         sent' = sent
  PROVE  /\ chunk \in Seq(Characters) /\ Len(chunk) \in Nat
         /\ chunk \in Chunks => Len(chunk) >= 1
         /\ Len(chunk) <= Len(wire) /\ Len(wire) \in Nat /\ Got \in Nat
         /\ Messages \in Nat /\ Got + Len(chunk) <= 9 * Messages
         /\ \A i \in 1..Len(chunk) : chunk[i] = CharAt(Got + i)
         /\ Got' = Got + Len(chunk) /\ Len(recvs') = Len(recvs) + 1
         /\ Len(recvs) \in Nat /\ recvs' \in Seq(Nat)
         /\ recvs'[Len(recvs) + 1] = Got + Len(chunk)
         /\ \A i \in 1..Len(recvs) : recvs'[i] = recvs[i]
         /\ StreamOK'
<1>1. /\ sent \in 0..Messages /\ wire \in Seq(Characters)
      /\ recvs \in Seq(Nat) /\ Len(recvs) >= 1
      /\ \A i \in 1..Len(recvs) : recvs[i] <= Got
      /\ Len(wire) = 9 * sent - Got
      /\ \A i \in 1..Len(wire) : wire[i] = CharAt(Got + i)
  BY DEF StreamOK
<1>2. Messages \in Nat /\ Len(wire) \in Nat /\ Len(recvs) \in Nat /\ sent \in Nat
  BY <1>1, ContentsFacts, LenProperties
<1>3. Got \in Nat
  BY <1>1, <1>2, ElementOfSeq DEF Got
<1>4. PICK n \in Nat : /\ n <= Len(wire)
                       /\ chunk \in Chunks => n >= 1
                       /\ chunk \in Seq(Characters) /\ Len(chunk) = n
                       /\ \A i \in 1..n : chunk[i] = wire[i]
  <2>1. CASE chunk \in Chunks
    <3>1. PICK n \in 1..MAXBUF : n <= Len(wire) /\ chunk = SubSeq(wire, 1, n)
      BY <2>1 DEF Chunks
    <3>2. n \in Nat /\ n >= 1 /\ 1 \in Nat \ {0}
      BY FramingAssumption
    <3>3. /\ chunk \in Seq(Characters)
          /\ Len(chunk) = IF 1 <= n THEN n - 1 + 1 ELSE 0
          /\ \A i \in 1..Len(chunk) : chunk[i] = wire[1 + i - 1]
      BY <1>1, <3>1, <3>2, Part
    <3>4. Len(chunk) = n /\ \A i \in 1..n : chunk[i] = wire[i]
      BY <3>2, <3>3
    <3> QED
      BY <3>1, <3>2, <3>3, <3>4
  <2>2. CASE chunk = <<>>
    <3>1. chunk \in Seq(Characters) /\ Len(chunk) = 0
      BY <2>2, EmptySeq
    <3>2. chunk \notin Chunks \/ chunk \in Chunks
      OBVIOUS
    <3>3. CASE chunk \notin Chunks
      BY <1>2, <3>1, <3>3
    <3> QED
      BY <2>1, <3>3
  <2> QED
    BY <2>1, <2>2
<1>5. /\ wire' = SubSeq(wire, n + 1, Len(wire))
      /\ recvs' = Append(recvs, Got + n)
  BY <1>4 DEF Received, Got
<1>6. /\ recvs' \in Seq(Nat) /\ Len(recvs') = Len(recvs) + 1
      /\ \A i \in 1..Len(recvs) : recvs'[i] = recvs[i]
      /\ recvs'[Len(recvs) + 1] = Got + n
  <2>1. Got + n \in Nat
    BY <1>3, <1>4
  <2> QED
    BY <1>1, <1>5, <2>1, AppendProperties
<1>7. Got' = Got + n
  BY <1>6 DEF Got
<1>8. /\ wire' \in Seq(Characters) /\ Len(wire') = Len(wire) - n
      /\ \A i \in 1..Len(wire') : wire'[i] = wire[n + i]
  <2>1. n + 1 \in Nat \ {0}
    BY <1>4
  <2>2. /\ wire' \in Seq(Characters)
        /\ Len(wire') = IF n + 1 <= Len(wire) THEN Len(wire) - (n + 1) + 1 ELSE 0
        /\ \A i \in 1..Len(wire') : wire'[i] = wire[n + 1 + i - 1]
    BY <1>1, <1>2, <1>5, <2>1, Part
  <2>3. Len(wire') = Len(wire) - n /\ Len(wire') \in Nat
    BY <1>2, <1>4, <2>2
  <2>4. \A i \in 1..Len(wire') : n + 1 + i - 1 = n + i
    BY <1>4, <2>3
  <2> QED
    BY <2>2, <2>3, <2>4
<1>9. StreamOK'
  <2>1. Len(wire') = 9 * sent' - Got'
    BY <1>1, <1>2, <1>3, <1>4, <1>7, <1>8
  <2>2. ASSUME NEW i \in 1..Len(wire')
        PROVE  wire'[i] = CharAt(Got' + i)
    <3>1. n + i \in 1..Len(wire) /\ Got + (n + i) = Got' + i
      BY <1>2, <1>3, <1>4, <1>7, <1>8
    <3>2. wire[n + i] = CharAt(Got + (n + i))
      BY <1>1, <3>1
    <3> QED
      BY <1>8, <3>1, <3>2
  <2>3. /\ sent' \in 0..Messages' /\ Len(recvs') >= 1
    BY <1>1, <1>2, <1>6 DEF Messages
  <2>4. \A i \in 1..Len(recvs') : recvs'[i] <= Got'
    <3>1. ASSUME NEW i \in 1..Len(recvs)
          PROVE  recvs'[i] <= Got'
      <4>1. recvs[i] \in Nat /\ recvs[i] <= Got
        BY <1>1, ElementOfSeq
      <4>2. recvs'[i] = recvs[i]
        BY <1>6
      <4> QED
        BY <1>3, <1>4, <1>7, <4>1, <4>2
    <3> QED
      BY <1>2, <1>3, <1>4, <1>6, <1>7, <3>1
  <2> QED
    BY <1>6, <1>8, <2>1, <2>2, <2>3, <2>4 DEF StreamOK, CharAt, MessageAt, PlaceAt
<1>10. Got + n <= 9 * Messages
  BY <1>1, <1>2, <1>3, <1>4
<1>11. /\ Got' = Got + Len(chunk)
       /\ recvs'[Len(recvs) + 1] = Got + Len(chunk)
       /\ Got + Len(chunk) <= 9 * Messages
  BY <1>4, <1>6, <1>7, <1>10
<1>12. \A i \in 1..Len(chunk) : chunk[i] = CharAt(Got + i)
  BY <1>1, <1>2, <1>4
<1> QED
  BY <1>2, <1>3, <1>4, <1>6, <1>9, <1>11, <1>12

LEMMA FirstFive ==
  ASSUME NEW n \in Nat, n >= 5
  PROVE  1 \in 1..n /\ 2 \in 1..n /\ 3 \in 1..n /\ 4 \in 1..n /\ 5 \in 1..n
OBVIOUS

(* A chunk that begins with a whole message is one that is understood. *)
LEMMA WholeUnderstood ==
  ASSUME NEW s \in Seq(Characters), NEW m \in Nat, m < Messages, Len(s) >= 9,
         \A i \in 1..9 : s[i] = CharAt(9 * m + i)
  PROVE  /\ FirstMark(s) = 1 /\ LastMark(s) >= 9
         /\ Parses(remove_header_ender(s))
         /\ Says(remove_header_ender(s)) = m + 1
<1> DEFINE t == remove_header_ender(s)
<1>1. /\ s[1] = "dollar" /\ s[3] = "left" /\ s[4] = Contents[m + 1]
      /\ s[5] = "left" /\ s[6] = "right" /\ s[7] = "right" /\ s[9] = "dollar"
  <2>1. /\ s[1] = CharAt(9 * m + 1) /\ s[3] = CharAt(9 * m + 3)
        /\ s[4] = CharAt(9 * m + 4) /\ s[5] = CharAt(9 * m + 5)
        /\ s[6] = CharAt(9 * m + 6) /\ s[7] = CharAt(9 * m + 7)
        /\ s[9] = CharAt(9 * m + 9)
    OBVIOUS
  <2> QED
    BY <2>1, CharsOf, Zenon
<1>2. Len(s) \in Nat /\ Messages \in Nat
  BY LenProperties, ContentsFacts
<1>3. FirstMark(s) = 1
  <2>1. s[1] \in Marks /\ Len(s) >= 1
    BY <1>1, <1>2 DEF Marks
  <2> QED
    BY <2>1, FirstMarkIs
<1>4. LastMark(s) >= 9
  <2>1. 9 \in 1..Len(s) /\ s[9] \in Marks
    BY <1>1, <1>2 DEF Marks
  <2> QED
    BY <2>1, LastMarkIs
<1>5. /\ t \in Seq(Characters)
      /\ \A i \in 1..Len(t) : t[i] = s[i + 2]
      /\ \A i \in 4..Len(s) : s[i] \in Marks => Len(t) >= i - 4
  BY <1>3, Trimmed
<1> HIDE DEF t
<1>6. Len(t) \in Nat /\ Len(t) >= 5
  <2>1. 9 \in 4..Len(s) /\ s[9] \in Marks
    BY <1>1, <1>2 DEF Marks
  <2>2. Len(t) >= 9 - 4
    BY <1>5, <2>1
  <2> QED
    BY <1>5, <2>2, LenProperties
<1>7. /\ t[1] = "left" /\ t[2] = Contents[m + 1] /\ t[3] = "left"
      /\ t[4] = "right" /\ t[5] = "right"
  <2>1. PICK n \in Nat : n = Len(t) /\ n >= 5
    BY <1>6
  <2>2. /\ 1 \in 1..Len(t) /\ 2 \in 1..Len(t) /\ 3 \in 1..Len(t)
        /\ 4 \in 1..Len(t) /\ 5 \in 1..Len(t)
    <3>1. /\ 1 \in 1..n /\ 2 \in 1..n /\ 3 \in 1..n /\ 4 \in 1..n /\ 5 \in 1..n
      BY <2>1, FirstFive
    <3> QED
      BY <2>1, <3>1, Zenon
  <2>3. /\ t[1] = s[1 + 2] /\ t[2] = s[2 + 2] /\ t[3] = s[3 + 2]
        /\ t[4] = s[4 + 2] /\ t[5] = s[5 + 2]
    BY <1>5, <2>2, Zenon
  <2>4. 1 + 2 = 3 /\ 2 + 2 = 4 /\ 3 + 2 = 5 /\ 4 + 2 = 6 /\ 5 + 2 = 7
    OBVIOUS
  <2> QED
    BY <1>1, <2>3, <2>4
<1>8. PICK k \in 1..Messages : k = m + 1
  BY <1>2
<1>9. Parses(t) /\ Says(t) = k
  BY <1>5, <1>6, <1>7, <1>8, BodyUnderstood
<1> QED
  BY <1>3, <1>4, <1>8, <1>9 DEF t

(* What begins with a mark is no value. *)
LEMMA MarkedSaysNothing ==
  ASSUME NEW s \in Seq(Characters), s[1] \in Marks
  PROVE  ~Parses(s) /\ Says(s) = 0
<1>1. s[1] # "left"
  BY DEF Marks
<1>2. ~Parses(s)
  BY <1>1, ValueEnds DEF Parses
<1> QED
  BY <1>2 DEF Says

(* What the loop for the rest makes of a chunk is no value. *)
LEMMA RestFacts ==
  ASSUME ReceiverOK, pc = "more", NEW chunk \in Seq(Characters), Rest(chunk)
  PROVE  /\ handled' = handled /\ pc' \in {"more", "dead"}
         /\ instruction' \in Seq(Characters) /\ buf' \in Seq(Characters)
         /\ pc' = "more" => Len(instruction') >= 1 /\ instruction'[1] \in Marks
<1> DEFINE behind == SubSeq(buf, Len(chunk) + 1, Len(buf))
           now == chunk \o behind
           all == instruction \o now
<1>1. /\ instruction \in Seq(Characters) /\ buf \in Seq(Characters)
      /\ Len(instruction) >= 1 /\ instruction[1] \in Marks
  BY DEF ReceiverOK
<1>2. behind \in Seq(Characters)
  <2>1. Len(chunk) + 1 \in Nat \ {0} /\ Len(buf) \in Nat
    BY <1>1, LenProperties
  <2> QED
    BY <1>1, <2>1, Part
<1>3. IF detect_ETX(now)
      THEN Handle(all) /\ instruction' = <<>> /\ buf' = <<>>
      ELSE instruction' = all /\ buf' = now /\ UNCHANGED <<pc, handled>>
  BY DEF Rest
<1> HIDE DEF behind
<1>4. now \in Seq(Characters)
  BY <1>2, ConcatProperties
<1> HIDE DEF now
<1>5. /\ all \in Seq(Characters) /\ Len(all) >= 1 /\ all[1] \in Marks
  <2>1. Len(instruction) \in Nat /\ Len(now) \in Nat
    BY <1>1, <1>4, LenProperties
  <2>2. /\ all \in Seq(Characters) /\ Len(all) = Len(instruction) + Len(now)
        /\ \A i \in 1..Len(instruction) + Len(now) :
             all[i] = IF i <= Len(instruction) THEN instruction[i]
                                               ELSE now[i - Len(instruction)]
    BY <1>1, <1>4, ConcatProperties
  <2> QED
    BY <1>1, <2>1, <2>2
<1> HIDE DEF all
<1>6. ~Parses(all) /\ Says(all) = 0
  BY <1>5, MarkedSaysNothing
<1>7. CASE detect_ETX(now)
  BY <1>3, <1>6, <1>7, EmptySeq DEF Handle
<1>8. CASE ~detect_ETX(now)
  BY <1>3, <1>4, <1>5, <1>8
<1> QED
  BY <1>7, <1>8

-----------------------------------------------------------------------------
(* What stays as it is *)

(* Nothing new is acted on, and the recv()s so far stay. *)
LEMMA Kept ==
  ASSUME NothingInvented, StreamOK, handled' = handled, role' = role,
         Len(recvs') \in Nat, Len(recvs) <= Len(recvs'),
         \A i \in 1..Len(recvs) : recvs'[i] = recvs[i]
  PROVE  NothingInvented'
<1> SUFFICES ASSUME role = "loop", NEW i \in DOMAIN handled
             PROVE  /\ i > 1 => handled[i - 1] < handled[i]
                    /\ \E j \in 1..Len(recvs') - 1 :
                         /\ recvs'[j] <= Start(handled[i])
                         /\ recvs'[j + 1] >= Start(handled[i]) + Len(Body(1))
  BY DEF NothingInvented, Start, FrameLength
<1>1. i > 1 => handled[i - 1] < handled[i]
  BY DEF NothingInvented
<1>2. PICK j \in 1..Len(recvs) - 1 :
        /\ recvs[j] <= Start(handled[i])
        /\ recvs[j + 1] >= Start(handled[i]) + Len(Body(1))
  BY DEF NothingInvented
<1>3. Len(recvs) \in Nat
  BY LenProperties DEF StreamOK
<1>4. /\ j \in 1..Len(recvs') - 1 /\ j \in 1..Len(recvs) /\ j + 1 \in 1..Len(recvs)
  BY <1>3
<1> QED
  BY <1>1, <1>2, <1>4

(* Steps of the other side and of a connection that ends. *)
LEMMA Untouched ==
  ASSUME Inv, UNCHANGED <<role, handled, recvs>>, ReceiverOK', StreamOK',
         pc' = pc \/ (role = "loop" /\ pc' = "closed")
  PROVE  Inv'
<1>1. Len(recvs) \in Nat
  BY LenProperties DEF Inv, StreamOK
<1>2. NothingInvented'
  BY <1>1, Kept DEF Inv
<1>3. Firsts' = Firsts /\ Whole' = Whole /\ Got' = Got /\ FrameLength' = FrameLength
  BY DEF Firsts, Whole, Got, FrameLength
<1>4. ConsoleOK' /\ LoopOK' /\ ReplyUnderstood'
  BY <1>3 DEF Inv, ConsoleOK, LoopOK, ReplyUnderstood
<1> QED
  BY <1>2, <1>4 DEF Inv

(* The list of the first messages of the recv()s. *)
LEMMA FirstsIs ==
  ASSUME NEW r \in Seq(Nat), Len(r) >= 1,
         NEW f, f = [i \in 1..Len(r) - 1 |-> r[i] \div FrameLength + 1]
  PROVE  /\ f \in Seq(Nat) /\ Len(f) = Len(r) - 1
         /\ \A i \in 1..Len(r) - 1 : f[i] = r[i] \div 9 + 1
<1>1. Len(r) \in Nat
  BY LenProperties
<1>2. PICK n \in Nat : n = Len(r) - 1
  BY <1>1
<1>3. \A i \in 1..n : r[i] \in Nat
  BY <1>1, <1>2, ElementOfSeq
<1>4. f = [i \in 1..n |-> r[i] \div 9 + 1]
  BY <1>2, Lengths
<1>5. f \in [1..n -> Nat]
  <2>1. \A x \in Nat : x \div 9 + 1 \in Nat
    OBVIOUS
  <2>2. \A i \in 1..n : r[i] \div 9 + 1 \in Nat
    BY <1>3, <2>1
  <2> QED
    BY <1>4, <2>2
<1>6. f \in Seq(Nat)
  BY <1>5, SeqDef
<1>7. 1..Len(f) = 1..n /\ Len(f) \in Nat
  BY <1>5, <1>6, LenProperties
<1>8. Len(f) = n
  BY <1>7
<1> QED
  BY <1>2, <1>4, <1>6, <1>8

-----------------------------------------------------------------------------
(* The steps *)

LEMMA InitInv == ASSUME Init PROVE Inv
<1>1. /\ recvs \in Seq(Nat) /\ Len(recvs) = 1 /\ Got = 0 /\ recvs[1] = 0
      /\ wire \in Seq(Characters) /\ Len(wire) = 0
      /\ instruction \in Seq(Characters) /\ buf \in Seq(Characters)
      /\ handled \in Seq(1..Messages) /\ handled = <<>>
  BY DEF Init, Got
<1>2. StreamOK
  BY <1>1, ContentsFacts DEF Init, StreamOK
<1>3. ReceiverOK /\ ConsoleOK
  BY <1>1 DEF Init, ReceiverOK, ConsoleOK
<1>4. NothingInvented /\ ReplyUnderstood
  BY <1>1 DEF NothingInvented, ReplyUnderstood
<1>5. LoopOK
  <2>1. Firsts = <<>>
    <3>1. Firsts \in Seq(Nat) /\ Len(Firsts) = 0
      BY <1>1, FirstsIs DEF Firsts
    <3> QED
      BY <3>1, EmptySeq
  <2> QED
    BY <1>1, <2>1 DEF Init, LoopOK
<1> QED
  BY <1>2, <1>3, <1>4, <1>5 DEF Inv

LEMMA StepSend == ASSUME Inv, SendMessage PROVE Inv'
<1>1. /\ sent \in 0..Messages /\ sent < Messages /\ sent' = sent + 1
      /\ wire \in Seq(Characters) /\ wire' = wire \o Frame(sent + 1)
      /\ UNCHANGED <<role, pc, instruction, buf, handled, recvs>>
      /\ recvs \in Seq(Nat) /\ Len(recvs) >= 1
      /\ \A i \in 1..Len(recvs) : recvs[i] <= Got
      /\ Len(wire) = 9 * sent - Got
      /\ \A i \in 1..Len(wire) : wire[i] = CharAt(Got + i)
  BY DEF Inv, StreamOK, SendMessage
<1>2. /\ Messages \in Nat /\ sent \in Nat /\ sent + 1 \in 1..Messages
      /\ Len(wire) \in Nat /\ Got \in Nat
  BY <1>1, ContentsFacts, LenProperties, ElementOfSeq DEF Got
<1>3. Frame(sent + 1) \in Seq(Characters) /\ Len(Frame(sent + 1)) = 9
  BY <1>2, FrameTyped, FrameIs
<1>4. /\ wire' \in Seq(Characters) /\ Len(wire') = Len(wire) + 9
      /\ \A i \in 1..Len(wire) + 9 :
           wire'[i] = IF i <= Len(wire) THEN wire[i]
                                        ELSE Frame(sent + 1)[i - Len(wire)]
  <2>1. /\ wire \o Frame(sent + 1) \in Seq(Characters)
        /\ Len(wire \o Frame(sent + 1)) = Len(wire) + Len(Frame(sent + 1))
        /\ \A i \in 1..Len(wire) + Len(Frame(sent + 1)) :
             (wire \o Frame(sent + 1))[i] =
               IF i <= Len(wire) THEN wire[i] ELSE Frame(sent + 1)[i - Len(wire)]
    BY <1>1, <1>3, ConcatProperties
  <2>2. wire' = wire \o Frame(sent + 1) /\ Len(Frame(sent + 1)) = 9
    BY <1>1, <1>3
  <2> QED
    BY <2>1, <2>2, Zenon
<1>5. Got' = Got
  BY <1>1 DEF Got
<1>6. ASSUME NEW i \in 1..Len(wire')
      PROVE  wire'[i] = CharAt(Got + i)
  <2>1. CASE i <= Len(wire)
    BY <1>1, <1>2, <1>4, <2>1
  <2>2. CASE ~(i <= Len(wire))
    <3>1. PICK r \in 1..9 : r = i - Len(wire)
      BY <1>2, <1>4, <2>2
    <3>2. wire'[i] = Frame(sent + 1)[r] /\ Got + i = 9 * sent + r
      BY <1>1, <1>2, <1>4, <2>2, <3>1
    <3>3. CharAt(9 * sent + r) = Frame(sent + 1)[r]
      BY <1>2, PlaceOf DEF CharAt
    <3> QED
      BY <3>2, <3>3
  <2> QED
    BY <2>1, <2>2
<1>7. StreamOK'
  <2>1. sent' \in 0..Messages' /\ Len(wire') = 9 * sent' - Got'
    BY <1>1, <1>2, <1>4, <1>5 DEF Messages
  <2> QED
    BY <1>1, <1>4, <1>5, <1>6, <2>1 DEF StreamOK, CharAt, MessageAt, PlaceAt
<1>8. ReceiverOK'
  BY <1>1 DEF Inv, ReceiverOK, Messages
<1> QED
  BY <1>1, <1>7, <1>8, Untouched

LEMMA StepEnd == ASSUME Inv, Close \/ Disconnect PROVE Inv'
<1>1. /\ UNCHANGED <<role, sent, wire, instruction, buf, handled, recvs>>
      /\ pc' = pc \/ (role = "loop" /\ pc' = "closed")
  BY DEF Close, Disconnect
<1>2. StreamOK'
  BY <1>1 DEF Inv, StreamOK, Got, CharAt, MessageAt, PlaceAt, Messages
<1>3. ReceiverOK'
  BY <1>1 DEF Inv, ReceiverOK, Messages
<1> QED
  BY <1>1, <1>2, <1>3, Untouched

LEMMA StepMore ==
  ASSUME Inv, pc = "more", NEW chunk \in Seq(Characters), Rest(chunk),
         role' = role, StreamOK', Len(recvs') \in Nat, Len(recvs) <= Len(recvs'),
         \A i \in 1..Len(recvs) : recvs'[i] = recvs[i]
  PROVE  Inv'
<1>1. /\ handled' = handled /\ pc' \in {"more", "dead"}
      /\ instruction' \in Seq(Characters) /\ buf' \in Seq(Characters)
      /\ pc' = "more" => Len(instruction') >= 1 /\ instruction'[1] \in Marks
  BY RestFacts DEF Inv
<1>2. role = "loop" /\ handled \in Seq(1..Messages)
  BY DEF Inv, ReceiverOK
<1>3. ReceiverOK'
  BY <1>1, <1>2 DEF ReceiverOK, Messages
<1>4. NothingInvented'
  BY <1>1, Kept DEF Inv
<1>5. ~Whole'
  <2>1. ~Whole
    BY <1>2 DEF Inv, LoopOK
  <2>2. PICK i \in 1..Len(recvs) : recvs[i] % FrameLength # 0
    BY <2>1, LenProperties DEF Whole, Inv, StreamOK
  <2>3. DOMAIN recvs' = 1..Len(recvs') /\ Len(recvs) \in Nat
    BY LenProperties DEF Inv, StreamOK
  <2>4. i \in DOMAIN recvs' /\ recvs'[i] = recvs[i] /\ FrameLength' = FrameLength
    BY <2>3 DEF FrameLength
  <2> QED
    BY <2>2, <2>4 DEF Whole
<1> QED
  BY <1>2, <1>3, <1>4, <1>5 DEF Inv, ConsoleOK, LoopOK, ReplyUnderstood

LEMMA StepRest ==
  ASSUME Inv, EndInLoop \/ (\E chunk \in Chunks : ReceiveMore(chunk))
  PROVE  Inv'
<1>1. CASE EndInLoop
  <2>1. <<>> \in Seq(Characters)
    BY EmptySeq
  <2>2. /\ pc = "more" /\ Rest(<<>>) /\ UNCHANGED <<role, sent, open, wire, recvs>>
    BY <1>1 DEF EndInLoop
  <2>3. StreamOK'
    BY <2>2 DEF Inv, StreamOK, Got, CharAt, MessageAt, PlaceAt, Messages
  <2>4. Len(recvs) \in Nat
    BY LenProperties DEF Inv, StreamOK
  <2>5. /\ role' = role /\ Len(recvs') \in Nat /\ Len(recvs) <= Len(recvs')
        /\ \A i \in 1..Len(recvs) : recvs'[i] = recvs[i]
    BY <2>2, <2>4
  <2> QED
    BY <2>1, <2>2, <2>3, <2>5, StepMore
<1>2. ASSUME NEW chunk \in Chunks, ReceiveMore(chunk)
      PROVE  Inv'
  <2>1. pc = "more" /\ Received(chunk) /\ Rest(chunk) /\ UNCHANGED <<role, sent, open>>
    BY <1>2 DEF ReceiveMore
  <2>2. /\ chunk \in Seq(Characters) /\ StreamOK'
        /\ Len(recvs') = Len(recvs) + 1 /\ Len(recvs) \in Nat
        /\ \A i \in 1..Len(recvs) : recvs'[i] = recvs[i]
    BY <1>2, <2>1, ReceivedFacts DEF Inv
  <2> QED
    BY <2>1, <2>2, StepMore
<1> QED
  BY <1>1, <1>2

(* What the select loop acts on when the chunk is not the start of a request *)
(* whose end is missing.                                                    *)
LEMMA ReceiveHandles ==
  ASSUME Inv, NEW chunk \in Chunks, Receive(chunk), NEW k \in 1..Messages,
         Says(IF detect_STX(chunk) THEN remove_header_ender(chunk) ELSE chunk) = k
  PROVE  Got <= Start(k) /\ Start(k) + 5 <= Got + Len(chunk)
<1>1. /\ chunk \in Seq(Characters) /\ Len(chunk) \in Nat /\ Len(chunk) >= 1
      /\ Got \in Nat /\ Messages \in Nat /\ Got + Len(chunk) <= 9 * Messages
      /\ \A i \in 1..Len(chunk) : chunk[i] = CharAt(Got + i)
  BY ReceivedFacts DEF Inv, Receive
<1>2. CASE ~detect_STX(chunk)
  <2>1. Says(chunk) = k
    BY <1>2
  <2>2. Got = Start(k) /\ Len(chunk) >= 5
    BY <1>1, <2>1, PartUnderstood
  <2> QED
    BY <1>1, <2>2
<1>3. CASE detect_STX(chunk)
  <2> DEFINE s == remove_header_ender(chunk)
  <2>1. Says(s) = k
    BY <1>3
  <2>2. FirstMark(chunk) = 1
    BY <1>3 DEF detect_STX
  <2>3. /\ s \in Seq(Characters)
        /\ Len(s) <= IF Len(chunk) >= 2 THEN Len(chunk) - 2 ELSE 0
        /\ \A i \in 1..Len(s) : s[i] = chunk[i + 2]
    BY <1>1, <2>2, Trimmed
  <2> HIDE DEF s
  <2>4. s # <<>>
    BY <2>1, <2>3, SaysWhat, ValueEnds DEF Parses
  <2>5. Len(s) \in Nat /\ Len(s) >= 1 /\ Len(s) <= Len(chunk) - 2
    BY <1>1, <2>3, <2>4, EmptySeq
  <2>6. PICK q \in Nat : q = Got + 2
    BY <1>1
  <2>7. q + Len(s) <= 9 * Messages
    BY <1>1, <2>5, <2>6
  <2>8. ASSUME NEW i \in 1..Len(s)
        PROVE  s[i] = CharAt(q + i)
    <3>1. i + 2 \in 1..Len(chunk) /\ Got + (i + 2) = q + i
      BY <1>1, <2>5, <2>6
    <3>2. chunk[i + 2] = CharAt(Got + (i + 2))
      BY <1>1, <3>1
    <3> QED
      BY <2>3, <3>1, <3>2
  <2>9. q = Start(k) /\ Len(s) >= 5
    BY <2>1, <2>3, <2>7, <2>8, PartUnderstood
  <2> QED
    BY <1>1, <2>5, <2>6, <2>9
<1> QED
  BY <1>2, <1>3

(* The next message that was acted on lies behind the earlier ones. *)
LEMMA Later ==
  ASSUME Inv, role = "loop", NEW chunk \in Chunks, Received(chunk), sent' = sent,
         NEW k \in 1..Messages, Got <= Start(k), Start(k) + 5 <= Got + Len(chunk),
         handled' = Append(handled, k), role' = role
  PROVE  NothingInvented'
<1>1. /\ Len(chunk) \in Nat /\ Got \in Nat /\ Len(recvs) \in Nat
      /\ Len(recvs') = Len(recvs) + 1
      /\ recvs'[Len(recvs) + 1] = Got + Len(chunk)
      /\ \A i \in 1..Len(recvs) : recvs'[i] = recvs[i]
  BY ReceivedFacts DEF Inv
<1>2. handled \in Seq(1..Messages) /\ Len(recvs) >= 1 /\ recvs \in Seq(Nat)
      /\ \A i \in 1..Len(recvs) : recvs[i] <= Got
  BY DEF Inv, ReceiverOK, StreamOK
<1>3. /\ Len(handled) \in Nat /\ Len(handled') = Len(handled) + 1
      /\ DOMAIN handled = 1..Len(handled) /\ DOMAIN handled' = 1..Len(handled')
      /\ handled'[Len(handled) + 1] = k
      /\ \A i \in 1..Len(handled) : handled'[i] = handled[i]
  BY <1>2, LenProperties, AppendProperties
<1>4. /\ \A i \in 1..Len(handled) : i > 1 => handled[i - 1] < handled[i]
      /\ \A i \in 1..Len(handled) : \E j \in 1..Len(recvs) - 1 :
           recvs[j] <= Start(handled[i]) /\ recvs[j + 1] >= Start(handled[i]) + 5
  BY <1>3, Lengths DEF Inv, NothingInvented
<1>5. ASSUME NEW i \in 1..Len(handled)
      PROVE  handled[i] < k
  <2>1. PICK j \in 1..Len(recvs) - 1 : recvs[j + 1] >= Start(handled[i]) + 5
    BY <1>4
  <2>2. j + 1 \in 1..Len(recvs)
    BY <1>1
  <2>3. recvs[j + 1] <= Got /\ recvs[j + 1] \in Nat
    BY <1>2, <2>2, ElementOfSeq
  <2>4. handled[i] \in Nat /\ k \in Nat
    BY <1>2, ElementOfSeq, ContentsFacts
  <2>5. Start(handled[i]) = (handled[i] - 1) * 9 + 2 /\ Start(k) = (k - 1) * 9 + 2
    BY Lengths
  <2>6. PICK h \in Nat, r \in Nat : h = handled[i] /\ r = recvs[j + 1]
    BY <2>3, <2>4
  <2>7. r <= Got /\ r >= (h - 1) * 9 + 2 + 5 /\ Got <= (k - 1) * 9 + 2
    BY <2>1, <2>3, <2>5, <2>6
  <2>8. h < k
    BY <1>1, <2>4, <2>7
  <2> QED
    BY <2>6, <2>8
<1>6. ASSUME NEW i \in 1..Len(handled')
      PROVE  /\ i > 1 => handled'[i - 1] < handled'[i]
             /\ \E j \in 1..Len(recvs') - 1 :
                  recvs'[j] <= Start(handled'[i]) /\ recvs'[j + 1] >= Start(handled'[i]) + 5
  <2>1. CASE i \in 1..Len(handled)
    <3>1. PICK j \in 1..Len(recvs) - 1 :
            recvs[j] <= Start(handled[i]) /\ recvs[j + 1] >= Start(handled[i]) + 5
      BY <1>4, <2>1
    <3>2. j \in 1..Len(recvs') - 1 /\ recvs'[j] = recvs[j] /\ recvs'[j + 1] = recvs[j + 1]
      BY <1>1
    <3>3. i > 1 => handled'[i - 1] = handled[i - 1] /\ handled[i - 1] < handled[i]
      BY <1>3, <1>4, <2>1
    <3>4. handled'[i] = handled[i]
      BY <1>3, <2>1
    <3> QED
      BY <3>1, <3>2, <3>3, <3>4
  <2>2. CASE i = Len(handled) + 1
    <3>1. handled'[i] = k
      BY <1>3, <2>2
    <3>2. ASSUME i > 1
          PROVE  handled'[i - 1] < k
      <4>1. i - 1 \in 1..Len(handled)
        BY <1>3, <2>2, <3>2
      <4> QED
        BY <1>3, <1>5, <4>1
    <3>3. Len(recvs) \in 1..Len(recvs') - 1 /\ recvs'[Len(recvs)] = Got
      BY <1>1, <1>2 DEF Got
    <3> QED
      BY <1>1, <3>1, <3>2, <3>3
  <2> QED
    BY <1>3, <2>1, <2>2
<1>7. Start(0)' = Start(0) /\ Len(Body(1)) = 5 /\ Len(Body(1))' = 5
  BY Lengths DEF Start, FrameLength, Body
<1> QED
  BY <1>3, <1>6, <1>7, Lengths DEF NothingInvented, Start, FrameLength

(* A chunk of whole messages is understood, and what was received before    *)
(* was whole messages too.                                                  *)
LEMMA WholeReceived ==
  ASSUME Inv, role = "loop", pc = "recv", NEW chunk \in Chunks, Receive(chunk), Whole'
  PROVE  pc' = "recv" /\ handled' = Firsts'
<1>1. /\ chunk \in Seq(Characters) /\ Len(chunk) \in Nat /\ Len(chunk) >= 1
      /\ Got \in Nat /\ Messages \in Nat /\ Got + Len(chunk) <= 9 * Messages
      /\ \A i \in 1..Len(chunk) : chunk[i] = CharAt(Got + i)
      /\ Len(recvs') = Len(recvs) + 1 /\ Len(recvs) \in Nat /\ recvs' \in Seq(Nat)
      /\ recvs'[Len(recvs) + 1] = Got + Len(chunk)
      /\ \A i \in 1..Len(recvs) : recvs'[i] = recvs[i]
      /\ StreamOK'
  BY ReceivedFacts DEF Inv, Receive
<1>2. /\ Len(recvs) >= 1 /\ recvs \in Seq(Nat) /\ recvs[Len(recvs)] = Got
      /\ handled \in Seq(1..Messages)
  BY DEF Inv, StreamOK, ReceiverOK, Got
<1>3. DOMAIN recvs' = 1..Len(recvs') /\ DOMAIN recvs = 1..Len(recvs)
  BY <1>1, <1>2, LenProperties
<1>4. FrameLength = 9 /\ FrameLength' = 9
  BY Lengths DEF FrameLength
<1>5. \A i \in 1..Len(recvs') : recvs'[i] % 9 = 0
  BY <1>3, <1>4 DEF Whole
<1>6. Whole
  BY <1>1, <1>3, <1>4, <1>5 DEF Whole
<1>7. handled = Firsts
  BY <1>6 DEF Inv, LoopOK
<1>8. Got % 9 = 0 /\ (Got + Len(chunk)) % 9 = 0
  <2>1. Len(recvs) \in 1..Len(recvs') /\ Len(recvs) + 1 \in 1..Len(recvs')
    BY <1>1, <1>2
  <2>2. recvs'[Len(recvs)] % 9 = 0 /\ recvs'[Len(recvs) + 1] % 9 = 0
    BY <1>5, <2>1
  <2>3. recvs'[Len(recvs)] = Got
    <3>1. Len(recvs) \in 1..Len(recvs)
      BY <1>1, <1>2
    <3>2. recvs'[Len(recvs)] = recvs[Len(recvs)]
      BY <1>1, <3>1
    <3> QED
      BY <1>2, <3>2
  <2> QED
    BY <1>1, <2>2, <2>3
<1>9. PICK m \in Nat : Got = 9 * m /\ m = Got \div 9
  BY <1>1, <1>8
<1>10. Len(chunk) >= 9 /\ m < Messages
  BY <1>1, <1>8, <1>9
<1>11. /\ FirstMark(chunk) = 1 /\ LastMark(chunk) >= 9
       /\ Parses(remove_header_ender(chunk))
       /\ Says(remove_header_ender(chunk)) = m + 1
  <2>1. \A i \in 1..9 : chunk[i] = CharAt(9 * m + i)
    BY <1>1, <1>9, <1>10
  <2> QED
    BY <1>1, <1>10, <2>1, WholeUnderstood
<1>12. detect_STX(chunk) /\ detect_ETX(chunk)
  <2>1. LastMark(chunk) \in Nat
    BY <1>1, LastMarkIs
  <2> QED
    BY <1>11, <2>1 DEF detect_STX, detect_ETX
<1>13. pc' = "recv" /\ handled' = Append(handled, m + 1)
  <2>1. Handle(remove_header_ender(chunk))
    BY <1>12 DEF Receive
  <2>2. m + 1 # 0
    BY <1>9
  <2> QED
    BY <1>11, <2>1, <2>2 DEF Handle
<1>14. handled' = Firsts'
  <2>1. /\ Firsts \in Seq(Nat) /\ Len(Firsts) = Len(recvs) - 1
        /\ \A i \in 1..Len(recvs) - 1 : Firsts[i] = recvs[i] \div 9 + 1
    BY <1>2, FirstsIs DEF Firsts
  <2>2. /\ Firsts' \in Seq(Nat) /\ Len(Firsts') = Len(recvs') - 1
        /\ \A i \in 1..Len(recvs') - 1 : Firsts'[i] = recvs'[i] \div 9 + 1
    <3>1. Len(recvs') >= 1
      BY <1>1
    <3> QED
      BY <1>1, <3>1, FirstsIs DEF Firsts, FrameLength
  <2>3. m + 1 \in Nat
    BY <1>9
  <2>4. /\ handled' \in Seq(Nat) /\ Len(handled') = Len(Firsts) + 1
        /\ handled'[Len(Firsts) + 1] = m + 1
        /\ \A i \in 1..Len(Firsts) : handled'[i] = Firsts[i]
    BY <1>7, <1>13, <2>1, <2>3, AppendProperties
  <2>5. Len(handled') = Len(Firsts')
    BY <1>1, <2>1, <2>2, <2>4
  <2>6. ASSUME NEW i \in 1..Len(handled')
        PROVE  handled'[i] = Firsts'[i]
    <3>1. CASE i \in 1..Len(Firsts)
      BY <1>1, <2>1, <2>2, <2>4, <3>1
    <3>2. CASE i = Len(Firsts) + 1
      <4>1. i = Len(recvs) /\ i \in 1..Len(recvs') - 1
        BY <1>1, <1>2, <2>1, <3>2
      <4>2. recvs'[i] = Got
        BY <1>1, <1>2, <4>1
      <4>3. Firsts'[i] = Got \div 9 + 1
        BY <2>2, <4>1, <4>2
      <4> QED
        BY <1>9, <2>4, <3>2, <4>3
    <3>3. Len(Firsts) \in Nat /\ i \in 1..Len(Firsts) + 1
      BY <2>1, <2>4, LenProperties
    <3> QED
      BY <3>1, <3>2, <3>3
  <2> QED
    BY <2>2, <2>4, <2>5, <2>6, SeqEqual
<1> QED
  BY <1>13, <1>14

LEMMA StepReceive ==
  ASSUME Inv, NEW chunk \in Chunks, Receive(chunk)
  PROVE  Inv'
<1> DEFINE s == IF detect_STX(chunk) THEN remove_header_ender(chunk) ELSE chunk
<1>1. /\ role = "loop" /\ role' = "loop" /\ pc = "recv" /\ sent' = sent /\ buf' = buf
      /\ Received(chunk)
      /\ \/ /\ detect_STX(chunk) /\ pc' = "more"
            /\ instruction' = chunk /\ handled' = handled
         \/ Handle(s) /\ instruction' = instruction
  BY DEF Receive
<1>2. /\ chunk \in Seq(Characters) /\ Len(chunk) >= 1 /\ Len(recvs) \in Nat
      /\ Len(recvs') = Len(recvs) + 1
      /\ \A i \in 1..Len(recvs) : recvs'[i] = recvs[i]
      /\ StreamOK'
  BY <1>1, ReceivedFacts DEF Inv
<1>3. /\ handled \in Seq(1..Messages)
      /\ instruction \in Seq(Characters) /\ buf \in Seq(Characters)
  BY DEF Inv, ReceiverOK
<1>4. ASSUME NEW k \in 1..Messages, Says(s) = k
      PROVE  Got <= Start(k) /\ Start(k) + 5 <= Got + Len(chunk)
  BY <1>4, ReceiveHandles
<1> HIDE DEF s
<1>5. LoopOK'
  BY <1>1, WholeReceived DEF LoopOK
<1>6. ReceiverOK' /\ NothingInvented'
  <2>1. CASE /\ detect_STX(chunk) /\ pc' = "more"
             /\ instruction' = chunk /\ handled' = handled
    <3>1. chunk[1] \in Marks
      BY <1>2, <2>1, FirstMarkIs DEF detect_STX
    <3>2. ReceiverOK'
      BY <1>1, <1>2, <1>3, <2>1, <3>1 DEF ReceiverOK, Messages
    <3>3. NothingInvented'
      BY <1>1, <1>2, <2>1, Kept DEF Inv
    <3> QED
      BY <3>2, <3>3
  <2>2. CASE Handle(s) /\ instruction' = instruction
    <3>1. pc' \in {"recv", "dead"}
      BY <2>2 DEF Handle
    <3>2. CASE Says(s) = 0
      <4>1. handled' = handled
        BY <2>2, <3>2 DEF Handle
      <4>2. ReceiverOK'
        BY <1>1, <1>3, <2>2, <3>1, <4>1 DEF ReceiverOK, Messages
      <4>3. NothingInvented'
        BY <1>1, <1>2, <4>1, Kept DEF Inv
      <4> QED
        BY <4>2, <4>3
    <3>3. CASE Says(s) # 0
      <4>1. PICK k \in 1..Messages : k = Says(s)
        BY <3>3, SaysOne
      <4>2. handled' = Append(handled, k)
        BY <2>2, <3>3, <4>1 DEF Handle
      <4>3. handled' \in Seq(1..Messages)
        BY <1>3, <4>2, AppendProperties
      <4>4. ReceiverOK'
        BY <1>1, <1>3, <2>2, <3>1, <4>3 DEF ReceiverOK, Messages
      <4>5. NothingInvented'
        BY <1>1, <1>4, <4>1, <4>2, Later
      <4> QED
        BY <4>4, <4>5
    <3> QED
      BY <3>2, <3>3
  <2> QED
    BY <1>1, <2>1, <2>2
<1>7. ConsoleOK' /\ ReplyUnderstood'
  BY <1>1 DEF ConsoleOK, ReplyUnderstood
<1> QED
  BY <1>2, <1>5, <1>6, <1>7 DEF Inv

LEMMA StepReply ==
  ASSUME Inv, NEW chunk, chunk \in Chunks \/ chunk = <<>>, NEW junk \in Junk,
         ReadReply(chunk, junk)
  PROVE  Inv'
<1> DEFINE text == chunk \o junk
           s == remove_header_ender(text)
<1>1. /\ role = "console" /\ role' = "console" /\ pc = "recv" /\ sent' = sent
      /\ buf' = buf /\ instruction' = instruction /\ Received(chunk)
      /\ pc' = IF Throws(text) THEN "dead" ELSE "closed"
      /\ handled' = IF ~Throws(text) /\ Says(s) # 0 THEN <<Says(s)>> ELSE <<>>
  BY DEF ReadReply
<1>2. /\ chunk \in Seq(Characters) /\ Len(chunk) \in Nat
      /\ Messages \in Nat /\ Got + Len(chunk) <= 9 * Messages
      /\ \A i \in 1..Len(chunk) : chunk[i] = CharAt(Got + i)
      /\ recvs'[Len(recvs) + 1] = Got + Len(chunk)
      /\ StreamOK'
  BY <1>1, ReceivedFacts DEF Inv
<1>3. Len(recvs) = 1 /\ Got = 0
  BY <1>1 DEF Inv, ConsoleOK
<1>4. junk \in Seq(Characters)
  BY FramingAssumption
<1>5. /\ text \in Seq(Characters) /\ Len(text) = Len(chunk) + Len(junk)
      /\ \A i \in 1..Len(chunk) + Len(junk) :
           text[i] = IF i <= Len(chunk) THEN chunk[i] ELSE junk[i - Len(chunk)]
  BY <1>2, <1>4, ConcatProperties
<1>6. Len(junk) \in Nat
  BY <1>4, LenProperties
<1> HIDE DEF text
<1>7. ASSUME Len(chunk) >= 9
      PROVE  ~Throws(text) /\ Says(s) = 1
  <2>1. PICK m \in Nat : m = 0
    OBVIOUS
  <2>2. ASSUME NEW i \in 1..9
        PROVE  text[i] = CharAt(9 * m + i)
    <3>1. i \in 1..Len(chunk) /\ i \in 1..Len(chunk) + Len(junk)
      BY <1>2, <1>6, <1>7
    <3>2. text[i] = chunk[i] /\ chunk[i] = CharAt(Got + i)
      BY <1>2, <1>5, <3>1
    <3>3. Got + i = 9 * m + i
      BY <1>3, <2>1
    <3> QED
      BY <3>2, <3>3
  <2>3. /\ m < Messages /\ Len(text) >= 9
        /\ \A i \in 1..9 : text[i] = CharAt(9 * m + i)
    BY <1>2, <1>3, <1>5, <1>6, <1>7, <2>1, <2>2
  <2>4. FirstMark(text) = 1 /\ Says(s) = m + 1
    BY <1>5, <2>3, WholeUnderstood
  <2> QED
    BY <1>5, <2>1, <2>3, <2>4, LenProperties DEF Throws
<1> HIDE DEF s
<1>8. ReplyUnderstood'
  <2>1. FrameLength' = 9
    BY Lengths DEF FrameLength
  <2>2. recvs'[2] >= 9 => Len(chunk) >= 9
    BY <1>2, <1>3
  <2>3. Len(chunk) >= 9 => handled' = <<1>>
    BY <1>1, <1>7
  <2> QED
    BY <2>1, <2>2, <2>3 DEF ReplyUnderstood
<1>9. ReceiverOK'
  <2>1. handled' \in Seq(1..Messages)
    <3>1. CASE Says(s) = 0
      BY <1>1, <3>1, EmptySeq
    <3>2. CASE Says(s) # 0
      <4>1. PICK k \in 1..Messages : k = Says(s)
        BY <3>2, SaysOne
      <4>2. <<k>> \in Seq(1..Messages) /\ <<>> \in Seq(1..Messages)
        OBVIOUS
      <4> QED
        BY <1>1, <4>1, <4>2
    <3> QED
      BY <3>1, <3>2
  <2> QED
    BY <1>1, <2>1 DEF Inv, ReceiverOK, Messages
<1>10. ConsoleOK' /\ LoopOK' /\ NothingInvented'
  BY <1>1 DEF ConsoleOK, LoopOK, NothingInvented
<1> QED
  BY <1>2, <1>8, <1>9, <1>10 DEF Inv

LEMMA StutterInv == ASSUME Inv, UNCHANGED vars PROVE Inv'
<1>1. /\ UNCHANGED <<role, sent, wire, pc, instruction, buf, handled, recvs>>
  BY DEF vars
<1>2. StreamOK'
  BY <1>1 DEF Inv, StreamOK, Got, CharAt, MessageAt, PlaceAt, Messages
<1>3. ReceiverOK'
  BY <1>1 DEF Inv, ReceiverOK, Messages
<1> QED
  BY <1>1, <1>2, <1>3, Untouched

LEMMA StepInv == Inv /\ [Next]_vars => Inv'
<1> SUFFICES ASSUME Inv, [Next]_vars
             PROVE  Inv'
  OBVIOUS
<1>1. CASE SendMessage
  BY <1>1, StepSend
<1>2. CASE Close \/ Disconnect
  BY <1>2, StepEnd
<1>3. ASSUME NEW chunk \in Chunks, Receive(chunk)
      PROVE  Inv'
  BY <1>3, StepReceive
<1>4. CASE EndInLoop \/ \E chunk \in Chunks : ReceiveMore(chunk)
  BY <1>4, StepRest
<1>5. ASSUME NEW junk \in Junk, NEW chunk, chunk \in Chunks \/ chunk = <<>>,
             ReadReply(chunk, junk)
      PROVE  Inv'
  BY <1>5, StepReply
<1>6. CASE UNCHANGED vars
  BY <1>6, StutterInv
<1> QED
  BY <1>1, <1>2, <1>3, <1>4, <1>5, <1>6 DEF Next

LEMMA Invariant == Spec => []Inv
BY InitInv, StepInv, PTL DEF Spec

-----------------------------------------------------------------------------
(* The properties *)

(* As long as recv() returns whole messages, however many at a time, a      *)
(* server or uploader lives and acts on the first one of each recv().       *)
THEOREM WholeServed == Spec => []FirstUnderstood
<1>1. Inv => FirstUnderstood
  BY DEF Inv, LoopOK, FirstUnderstood
<1> QED
  BY <1>1, Invariant, PTL

(* However recv() cuts the bytes, what a server or uploader acts on is a    *)
(* request that was sent, whole and in one piece, and none is acted on      *)
(* twice or out of order.                                                   *)
THEOREM TornIgnored == Spec => []NothingInvented
<1>1. Inv => NothingInvented
  BY DEF Inv
<1> QED
  BY <1>1, Invariant, PTL

(* A reply that one recv() returned is understood whatever the buffer of    *)
(* the console holds behind it.                                             *)
THEOREM ReplyServed == Spec => []ReplyUnderstood
<1>1. Inv => ReplyUnderstood
  BY DEF Inv
<1> QED
  BY <1>1, Invariant, PTL
=============================================================================
