-------------------------- MODULE TorrentFileProofs --------------------------
(***************************************************************************)
(* For every size of a block, range of an int and length of a read: in a   *)
(* torrent made for the file as it is, the thread of each piece waits for  *)
(* exactly what the uploader sends (ExpectedIsServed), and the merged      *)
(* pieces are the whole file (WholeFile); publisher and downloader agree   *)
(* on the pieces of every torrent (SidesAgree); and the digests of a       *)
(* torrent of command 1 are those of its pieces (DigestsInPlace).          *)
(***************************************************************************)
EXTENDS TorrentFile, SequenceTheorems, TLAPS

USE TorrentFileAssumption

-----------------------------------------------------------------------------
(* Division *)

(* The two operators of a division with a positive divisor are integers and *)
(* satisfy the equation that defines them.                                  *)
LEMMA Division ==
  ASSUME NEW a \in Int, NEW b \in Int, b > 0
  PROVE  /\ a \div b \in Int
         /\ a % b \in Int
         /\ a = b * (a \div b) + (a % b)
         /\ 0 <= a % b /\ a % b < b
  OBVIOUS

(* The equation determines them. *)
LEMMA DivisionUnique ==
  ASSUME NEW a \in Int, NEW b \in Int, b > 0,
         NEW q \in Int, NEW r \in Int, a = b * q + r, 0 <= r, r < b
  PROVE  a \div b = q /\ a % b = r
<1>1. /\ a \div b \in Int
      /\ a % b \in Int
      /\ a = b * (a \div b) + (a % b)
      /\ 0 <= a % b /\ a % b < b
  BY Division
<1>2. b * ((a \div b) - q) = r - (a % b)
  BY <1>1
<1>3. a \div b = q
  BY <1>1, <1>2
<1> QED
  BY <1>1, <1>3

(* An int that fits is kept. *)
LEMMA WrapFits ==
  ASSUME NEW x \in Nat, x < IntRange
  PROVE  Wrap(x) = x
<1>1. /\ x + IntRange \in Int
      /\ 2 * IntRange \in Int
      /\ 2 * IntRange > 0
      /\ x + IntRange = (2 * IntRange) * 0 + (x + IntRange)
      /\ 0 <= x + IntRange /\ x + IntRange < 2 * IntRange
  OBVIOUS
<1>2. (x + IntRange) % (2 * IntRange) = x + IntRange
  BY <1>1, DivisionUnique
<1> QED
  BY <1>2 DEF Wrap

(* A conversion gives an int, whatever is converted. *)
LEMMA WrapInt ==
  ASSUME NEW x \in Int
  PROVE  Wrap(x) \in Int
<1>1. (x + IntRange) % (2 * IntRange) \in Int
  BY Division
<1> QED
  BY <1>1 DEF Wrap

(* So is the number of pieces. *)
LEMMA PieceCountInt ==
  ASSUME NEW x \in Int
  PROVE  PieceCount(x) \in Int
<1>1. x \div BLOCK \in Int /\ (-x) \div BLOCK \in Int
  BY Division
<1> QED
  BY <1>1 DEF PieceCount, Quotient

(* A torrent file of one line or more is sent with one read or more. *)
LEMMA SomeRounds ==
  ASSUME NEW len \in Nat, len > 0
  PROVE  /\ (len + LinesPerRead - 1) \div LinesPerRead \in Nat
         /\ (len + LinesPerRead - 1) \div LinesPerRead >= 1
<1> DEFINE a == len + LinesPerRead - 1
           q == a \div LinesPerRead
<1>1. a \in Int /\ a >= LinesPerRead
  OBVIOUS
<1> HIDE DEF a
<1>2. /\ q \in Int
      /\ a = LinesPerRead * q + (a % LinesPerRead)
      /\ 0 <= a % LinesPerRead /\ a % LinesPerRead < LinesPerRead
  BY <1>1, Division
<1> HIDE DEF q
<1>3. q >= 1
  <2>1. SUFFICES ASSUME q <= 0 PROVE FALSE
    BY <1>2
  <2>2. LinesPerRead * q <= 0
    BY <1>2, <2>1
  <2> QED
    BY <1>1, <1>2, <2>2
<1> QED
  BY <1>2, <1>3 DEF a, q

-----------------------------------------------------------------------------
(* Both sides of one piece *)

(* The first n entries the publisher pushes are its pieces in order. *)
LEMMA PushedFirst ==
  ASSUME NEW size \in Int, NEW n \in Int, NEW ls, Len(ls) \in Nat, Len(ls) > 0,
         NEW p \in 1..n
  PROVE  /\ p \in DOMAIN Pushed(size, n, ls)
         /\ Pushed(size, n, ls)[p].order = p
         /\ Pushed(size, n, ls)[p].size = PieceSize(size, n, p - 1)
<1> DEFINE rounds == (Len(ls) + LinesPerRead - 1) \div LinesPerRead
<1>1. rounds \in Nat /\ rounds >= 1
  BY SomeRounds
<1>2. Pushed(size, n, ls) =
        [k \in 1..n * rounds |->
           [order |-> k, size |-> PieceSize(size, n, IndexOf(k, n))]]
  BY DEF Pushed
<1> HIDE DEF rounds
<1>3. n * rounds \in Int /\ n * rounds >= n
  BY <1>1
<1>4. p \in 1..n * rounds
  BY <1>3
<1>5. IndexOf(p, n) = p - 1
  <2>1. p - 1 \in Int /\ n > 0 /\ p - 1 = n * 0 + (p - 1) /\ 0 <= p - 1 /\ p - 1 < n
    OBVIOUS
  <2> QED
    BY <2>1, DivisionUnique DEF IndexOf
<1> QED
  BY <1>2, <1>4, <1>5

(* The length of the p-th read of a file is the size of piece p. *)
LEMMA ReadIsPiece ==
  ASSUME NEW s \in Nat, s < IntRange,
         NEW p \in 1..PieceCount(s)
  PROVE  /\ p = PieceCount(s) => Length(s, p) = PieceSize(s, PieceCount(s), p - 1)
         /\ p # PieceCount(s) => Length(s, p) = BLOCK
<1> DEFINE q == s \div BLOCK
           r == s % BLOCK
<1>1. /\ q \in Int /\ r \in Int
      /\ s = BLOCK * q + r
      /\ 0 <= r /\ r < BLOCK
  BY Division
<1>2. PieceCount(s) = q + 1
  BY DEF PieceCount, Quotient
<1> HIDE DEF q, r
<1>3. CASE p = q + 1
  <2>1. (p - 1) * BLOCK = s - r /\ p * BLOCK = s - r + BLOCK
    BY <1>1, <1>3
  <2>2. p * BLOCK > s /\ (p - 1) * BLOCK <= s
    BY <1>1, <2>1
  <2>3. Length(s, p) = r
    BY <1>1, <2>1, <2>2 DEF Length
  <2>4. BLOCK * (p - 1) = s - r
    BY <1>1, <1>3
  <2>5. s - BLOCK * (p - 1) = r
    BY <1>1, <2>4
  <2>6. r \in Nat /\ r < IntRange
    <3>1. q >= 0
      BY <1>3, p \in Nat, p >= 1, <1>1
    <3>2. BLOCK * q >= 0
      BY <3>1, <1>1
    <3> QED
      BY <1>1, <3>2
  <2>7. Wrap(s - BLOCK * (p - 1)) = r
    BY <2>5, <2>6, WrapFits
  <2>8. PieceSize(s, PieceCount(s), p - 1) = r
    BY <2>7, <1>2, <1>3 DEF PieceSize
  <2> QED
    BY <2>3, <2>8, <1>2, <1>3
<1>4. CASE p # q + 1
  <2>1. p <= q
    BY <1>1, <1>2, <1>4
  <2>2. BLOCK * (q - p) >= 0
    BY <1>1, <2>1
  <2>3. p * BLOCK <= s
    BY <1>1, <2>2
  <2> QED
    BY <2>3, <1>2, <1>4 DEF Length
<1> QED
  BY <1>3, <1>4

-----------------------------------------------------------------------------
(* The invariant *)

Line == [kind : {"number", "ip", "file", "configuration"}, value : Int]

(* The first two lines of the torrent file ls are those for the file m.of. *)
HeaderOf(ls, m) ==
  /\ Len(ls) >= 2
  /\ m.of \in Sizes
  /\ ls[1] = Number(Wrap(m.of))
  /\ ls[2] = Number(PieceCount(Wrap(m.of)))

(* A torrent file on disk begins with the numbers it was made with, *)
DiskInv ==
  /\ file \in Sizes
  /\ lines \in Seq(Line)
  /\ lines # <<>> => HeaderOf(lines, made)

(* the published one too, and the publisher's pieces come from it, *)
PubInv ==
  /\ sent \in Seq(Line)
  /\ sent # <<>> =>
       /\ Len(sent) >= 2
       /\ pub.pieces = Pushed(sent[1].value, sent[2].value, sent)
  /\ basis.by # "nobody" => sent # <<>> /\ HeaderOf(sent, basis)

(* and those of the client that got it. *)
GotInv ==
  got # NoTorrent =>
    /\ sent # <<>>
    /\ got.pieceNumber = sent[2].value
    /\ \A p \in 1..got.pieceNumber :
         got.pieces[p].size = PieceSize(sent[1].value, got.pieceNumber, p - 1)

Inv == DiskInv /\ PubInv /\ GotInv

(* What is appended to a torrent file leaves its first two lines. *)
LEMMA Appending ==
  ASSUME NEW ls \in Seq(Line), NEW more \in Seq(Line), Len(ls) >= 2
  PROVE  /\ ls \o more \in Seq(Line) /\ Len(ls \o more) >= 2
         /\ (ls \o more)[1] = ls[1] /\ (ls \o more)[2] = ls[2]
<1>1. Len(ls) \in Nat /\ Len(more) \in Nat
  BY LenProperties
<1>2. /\ ls \o more \in Seq(Line)
      /\ Len(ls \o more) = Len(ls) + Len(more)
      /\ \A i \in 1..Len(ls) + Len(more) :
           (ls \o more)[i] = IF i <= Len(ls) THEN ls[i] ELSE more[i - Len(ls)]
  BY ConcatProperties
<1> QED
  BY <1>1, <1>2

(* What the two programs write begins with the two numbers. *)
LEMMA WrittenLines ==
  ASSUME NEW s \in Sizes
  PROVE  /\ MenuLines(s) \in Seq(Line) /\ Len(MenuLines(s)) >= 2
         /\ MenuLines(s)[1] = Number(Wrap(s))
         /\ MenuLines(s)[2] = Number(PieceCount(Wrap(s)))
         /\ ToolLines(s) \in Seq(Line) /\ Len(ToolLines(s)) >= 2
         /\ ToolLines(s)[1] = Number(Wrap(s))
         /\ ToolLines(s)[2] = Number(PieceCount(Wrap(s)))
<1>1. s \in Nat /\ Wrap(s) \in Int /\ PieceCount(Wrap(s)) \in Int
  BY WrapInt, PieceCountInt
<1>2. Reads(s) \in Int
  <2>1. s + BLOCK - 1 \in Int
    BY <1>1
  <2> QED
    BY <2>1, Division DEF Reads
<1>3. /\ Header(s) \in Seq(Line) /\ Len(Header(s)) = 2
      /\ Header(s)[1] = Number(Wrap(s)) /\ Header(s)[2] = Number(PieceCount(Wrap(s)))
  <2>1. Number(Wrap(s)) \in Line /\ Number(PieceCount(Wrap(s))) \in Line
    BY <1>1 DEF Number, Line
  <2> QED
    BY <2>1 DEF Header
<1> DEFINE digests == [k \in 1..Reads(s) |-> Digest("file", k)]
<1>4. digests \in Seq(Line)
  <2>1. \A k \in 1..Reads(s) : Digest("file", k) \in Line
    BY <1>2 DEF Digest, Line
  <2>2. digests \in [1..Reads(s) -> Line]
    BY <2>1
  <2>3. CASE Reads(s) \in Nat
    BY <2>2, <2>3, SeqDef
  <2>4. CASE Reads(s) \notin Nat
    <3>1. 1..Reads(s) = 1..0
      BY <1>2, <2>4
    <3>2. digests \in [1..0 -> Line]
      BY <3>1, <2>2
    <3> HIDE DEF digests
    <3> QED
      BY <3>2, SeqDef, 0 \in Nat
  <2> QED
    BY <2>3, <2>4
<1>5. Address \in Line /\ Digest("configuration", 1) \in Line
  BY DEF Address, Digest, Line
<1>6. <<Address>> \in Seq(Line) /\ <<Digest("configuration", 1), Address>> \in Seq(Line)
  BY <1>5
<1>7. MenuLines(s) = (Header(s) \o digests) \o <<Address>>
  BY DEF MenuLines
<1> HIDE DEF digests
<1>8. /\ Header(s) \o digests \in Seq(Line)
      /\ Len(Header(s) \o digests) >= 2
      /\ (Header(s) \o digests)[1] = Header(s)[1]
      /\ (Header(s) \o digests)[2] = Header(s)[2]
  <2>1. Header(s) \in Seq(Line) /\ Len(Header(s)) >= 2
    BY <1>3
  <2> QED
    BY <2>1, <1>4, Appending
<1>9. /\ MenuLines(s) \in Seq(Line) /\ Len(MenuLines(s)) >= 2
      /\ MenuLines(s)[1] = (Header(s) \o digests)[1]
      /\ MenuLines(s)[2] = (Header(s) \o digests)[2]
  BY <1>6, <1>7, <1>8, Appending
<1>10. /\ ToolLines(s) \in Seq(Line) /\ Len(ToolLines(s)) >= 2
       /\ ToolLines(s)[1] = Header(s)[1]
       /\ ToolLines(s)[2] = Header(s)[2]
  <2>1. Header(s) \in Seq(Line) /\ Len(Header(s)) >= 2
    BY <1>3
  <2>2. ToolLines(s) = Header(s) \o <<Digest("configuration", 1), Address>>
    BY DEF ToolLines
  <2> QED
    BY <2>1, <2>2, <1>6, Appending
<1> QED
  BY <1>3, <1>8, <1>9, <1>10

LEMMA InitInv == Init => Inv
<1> SUFFICES ASSUME Init PROVE Inv
  OBVIOUS
<1>1. DiskInv
  BY DEF Init, DiskInv
<1>2. PubInv
  BY DEF Init, PubInv, NotMade
<1>3. GotInv
  BY DEF Init, GotInv
<1> QED
  BY <1>1, <1>2, <1>3 DEF Inv

LEMMA NextInv == Inv /\ [Next]_vars => Inv'
<1> SUFFICES ASSUME Inv, [Next]_vars PROVE Inv'
  OBVIOUS
<1> USE DEF Inv
<1>1. CASE CreateTorrent
  <2>1. lines' = MenuLines(file)
    <3>1. MenuLines(file) \in Seq(Line)
      BY WrittenLines DEF DiskInv
    <3> QED
      BY <1>1, <3>1, ConcatEmptySeq DEF CreateTorrent, Truncated
  <2>2. DiskInv'
    <3>1. made'.of = file
      BY <1>1 DEF CreateTorrent
    <3> QED
      BY <1>1, <2>1, <3>1, WrittenLines DEF CreateTorrent, DiskInv, HeaderOf
  <2>3. PubInv' /\ GotInv'
    BY <1>1 DEF CreateTorrent, PubInv, GotInv, HeaderOf
  <2> QED
    BY <2>2, <2>3
<1>2. CASE RunTool
  <2>1. DiskInv'
    <3>1. CASE lines = <<>>
      <4>1. lines' = ToolLines(file)
        BY <1>2, <3>1, WrittenLines, ConcatEmptySeq DEF RunTool, DiskInv
      <4>2. made'.of = file
        BY <1>2, <3>1 DEF RunTool
      <4> QED
        BY <1>2, <4>1, <4>2, WrittenLines DEF RunTool, DiskInv, HeaderOf
    <3>2. CASE lines # <<>>
      <4>1. ToolLines(file) \in Seq(Line)
        BY WrittenLines DEF DiskInv
      <4>2. lines' = lines \o ToolLines(file) /\ made' = made /\ file' = file
        BY <1>2, <3>2 DEF RunTool
      <4>3. /\ lines' \in Seq(Line) /\ Len(lines') >= 2
            /\ lines'[1] = lines[1] /\ lines'[2] = lines[2]
        BY <3>2, <4>1, <4>2, Appending DEF DiskInv, HeaderOf
      <4> QED
        BY <3>2, <4>2, <4>3 DEF DiskInv, HeaderOf
    <3> QED
      BY <3>1, <3>2
  <2>2. PubInv' /\ GotInv'
    BY <1>2 DEF RunTool, PubInv, GotInv, HeaderOf
  <2> QED
    BY <2>1, <2>2
<1>3. ASSUME NEW s \in Sizes, Edit(s) PROVE Inv'
  BY <1>3 DEF Edit, DiskInv, PubInv, GotInv, HeaderOf, NotMade
<1>4. CASE Publish
  <2>1. DiskInv'
    BY <1>4 DEF Publish, DiskInv, HeaderOf
  <2>2. PubInv'
    <3>1. HeaderOf(lines, made) /\ lines # <<>>
      BY <1>4 DEF Publish, DiskInv
    <3>2. sent' = lines /\ basis' = made
      BY <1>4 DEF Publish
    <3>3. pub'.pieces = Pushed(lines[1].value, lines[2].value, lines)
      BY <1>4 DEF Publish
    <3> QED
      BY <3>1, <3>2, <3>3 DEF PubInv, DiskInv, HeaderOf
  <2>3. GotInv'
    BY <1>4 DEF Publish, GotInv
  <2> QED
    BY <2>1, <2>2, <2>3
<1>5. CASE GetTorrent
  <2>1. DiskInv' /\ PubInv'
    BY <1>5 DEF GetTorrent, DiskInv, PubInv, HeaderOf
  <2>2. GotInv'
    <3>1. sent # <<>> /\ sent' = sent
      BY <1>5 DEF GetTorrent
    <3>2. got'.pieceNumber = sent[2].value
      BY <1>5 DEF GetTorrent
    <3>3. got'.pieces = [i \in 1..sent[2].value |->
             [order |-> i, size |-> PieceSize(sent[1].value, sent[2].value, i - 1),
              SHA |-> LineFor(i, sent)]]
      BY <1>5 DEF GetTorrent
    <3> QED
      BY <3>1, <3>2, <3>3 DEF GotInv
  <2> QED
    BY <2>1, <2>2
<1>6. ASSUME NEW p \in DOMAIN part, FetchPiece(p) PROVE Inv'
  BY <1>6 DEF FetchPiece, DiskInv, PubInv, GotInv, HeaderOf
<1>7. CASE MergePiece
  BY <1>7 DEF MergePiece, DiskInv, PubInv, GotInv, HeaderOf
<1>8. CASE UNCHANGED vars
  BY <1>8 DEF vars, DiskInv, PubInv, GotInv, HeaderOf
<1> QED
  BY <1>1, <1>2, <1>3, <1>4, <1>5, <1>6, <1>7, <1>8 DEF Next

(* The invariant holds for every BLOCK, IntRange and read length. *)
THEOREM Invariance == Spec => []Inv
<1> QED
  BY InitInv, NextInv, PTL DEF Spec

-----------------------------------------------------------------------------
(* The theorems *)

(* The uploader sends what one fread() of the piece returns. *)
LEMMA ServedIsRead ==
  ASSUME Inv, Faithful, NEW p \in 1..got.pieceNumber
  PROVE  Served(p) = Length(file, p) /\ got.pieceNumber = PieceCount(file)
<1>1. file \in Nat /\ Wrap(file) = file
  BY WrapFits DEF Inv, DiskInv, Faithful
<1>2. /\ sent # <<>> /\ sent \in Seq(Line)
      /\ sent[1].value = file /\ sent[2].value = PieceCount(file)
      /\ pub.pieces = Pushed(file, PieceCount(file), sent)
  BY <1>1 DEF Inv, PubInv, HeaderOf, Faithful, Number
<1>3. got # NoTorrent
  BY DEF NoTorrent
<1>4. got.pieceNumber = PieceCount(file)
  BY <1>2, <1>3 DEF Inv, GotInv
<1>5. Len(sent) \in Nat /\ Len(sent) > 0
  BY <1>2, EmptySeq, LenProperties
<1>6. pub.pieces[p].order = p
  <2>1. PieceCount(file) \in Int
    BY <1>1, PieceCountInt
  <2> QED
    <3>1. PICK n \in Int : n = PieceCount(file)
      BY <2>1
    <3>2. p \in 1..n /\ pub.pieces = Pushed(file, n, sent)
      BY <1>2, <1>4, <3>1
    <3>3. Pushed(file, n, sent)[p].order = p
      BY <1>1, <1>5, <3>2, PushedFirst
    <3> QED
      BY <3>2, <3>3
<1> QED
  BY <1>4, <1>6 DEF Served

(* That is what the downloader waits for. *)
LEMMA ServedIsExpected == Inv => ExpectedIsServed
<1> SUFFICES ASSUME Inv, Faithful, NEW p \in 1..got.pieceNumber
             PROVE  Served(p) = Expected(p)
  BY DEF ExpectedIsServed
<1>1. Served(p) = Length(file, p) /\ got.pieceNumber = PieceCount(file)
  BY ServedIsRead
<1>2. file \in Nat /\ file < IntRange /\ Wrap(file) = file
  BY WrapFits DEF Inv, DiskInv, Faithful
<1>3. sent[1].value = file
  BY <1>2 DEF Inv, PubInv, HeaderOf, Faithful, Number
<1>4. got # NoTorrent
  BY DEF NoTorrent
<1>5. got.pieces[p].size = PieceSize(file, PieceCount(file), p - 1)
  BY <1>1, <1>3, <1>4 DEF Inv, GotInv
<1> QED
  BY <1>1, <1>2, <1>5, ReadIsPiece DEF Expected

(* In a torrent made for the file as it is, no thread of the download waits *)
(* for a byte that the uploader's fread() does not return, for every file   *)
(* an int can measure and every size of a piece.                            *)
THEOREM NobodyWaitsInVain == Spec => []ExpectedIsServed
BY Invariance, ServedIsExpected, PTL

(* Publisher and downloader agree on order and size of the pieces, also in  *)
(* torrent files that are stale, appended to or beyond the range of an int, *)
(* and however often the publisher pushes them.                             *)
THEOREM SidesAlwaysAgree == Spec => []SidesAgree
<1>1. Inv => SidesAgree
  <2> SUFFICES ASSUME Inv, got # NoTorrent, NEW p \in 1..got.pieceNumber
               PROVE  /\ p \in DOMAIN pub.pieces
                      /\ pub.pieces[p].order = p
                      /\ pub.pieces[p].size = got.pieces[p].size
    BY DEF SidesAgree
  <2>1. /\ sent # <<>> /\ sent \in Seq(Line) /\ Len(sent) >= 2
        /\ pub.pieces = Pushed(sent[1].value, sent[2].value, sent)
        /\ got.pieceNumber = sent[2].value
        /\ got.pieces[p].size = PieceSize(sent[1].value, sent[2].value, p - 1)
    BY DEF Inv, PubInv, GotInv
  <2>2. Len(sent) \in Nat
    BY <2>1, LenProperties
  <2>3. sent[1].value \in Int /\ sent[2].value \in Int
    <3>1. sent[1] \in Line /\ sent[2] \in Line
      BY <2>1, <2>2, ElementOfSeq
    <3> QED
      BY <3>1 DEF Line
  <2> QED
    BY <2>1, <2>2, <2>3, PushedFirst
<1> QED
  BY <1>1, Invariance, PTL

-----------------------------------------------------------------------------
(* The merged file *)

(* Piece files hold what the uploader sent, and the output file the pieces  *)
(* merged so far: nothing else was read of a file that is as it was when    *)
(* the torrent was made.                                                    *)
PartInv ==
  /\ part \in [DOMAIN part -> Int]
  /\ merged \in Nat /\ out \in Int
  /\ got = NoTorrent => DOMAIN part = {} /\ merged = 0 /\ out = 0
  /\ got # NoTorrent => DOMAIN part = 1..got.pieceNumber
  /\ Faithful => /\ \A p \in DOMAIN part : part[p] \in {-1, Length(file, p)}
                 /\ out = Least(merged * BLOCK, file)

LEMMA LengthNat ==
  ASSUME NEW s \in Nat, NEW p \in Nat \ {0}
  PROVE  Length(s, p) \in Nat /\ Length(s, p) <= BLOCK
<1>1. p * BLOCK \in Int /\ (p - 1) * BLOCK \in Int /\ p * BLOCK = (p - 1) * BLOCK + BLOCK
  OBVIOUS
<1> QED
  BY <1>1 DEF Length

(* The first reads of a file are as many bytes, or the whole file. *)
LEMMA LengthAdded ==
  ASSUME NEW s \in Nat, NEW m \in Nat
  PROVE  Least(m * BLOCK, s) + Length(s, m + 1) = Least((m + 1) * BLOCK, s)
<1>1. PICK a \in Nat : a = m * BLOCK
  OBVIOUS
<1>2. (m + 1) * BLOCK = a + BLOCK /\ (m + 1 - 1) * BLOCK = a
  BY <1>1
<1> QED
  BY <1>1, <1>2 DEF Least, Length

(* All pieces are more than the file. *)
LEMMA AllPieces ==
  ASSUME NEW s \in Nat
  PROVE  PieceCount(s) \in Nat \ {0} /\ Least(PieceCount(s) * BLOCK, s) = s
<1> DEFINE q == s \div BLOCK
<1>1. /\ q \in Int /\ s % BLOCK \in Int
      /\ s = BLOCK * q + (s % BLOCK)
      /\ 0 <= s % BLOCK /\ s % BLOCK < BLOCK
  BY Division
<1>2. PieceCount(s) = q + 1
  BY DEF PieceCount, Quotient
<1> HIDE DEF q
<1>3. q >= 0
  <2>1. SUFFICES ASSUME q <= -1 PROVE FALSE
    BY <1>1
  <2>2. BLOCK * q <= -BLOCK
    BY <1>1, <2>1
  <2> QED
    BY <1>1, <2>2
<1>4. (q + 1) * BLOCK = BLOCK * q + BLOCK
  BY <1>1
<1>5. (q + 1) * BLOCK > s /\ (q + 1) * BLOCK \in Int
  BY <1>1, <1>4
<1> QED
  BY <1>1, <1>2, <1>3, <1>5 DEF Least

LEMMA PartInit == Init => PartInv
<1> SUFFICES ASSUME Init PROVE PartInv
  OBVIOUS
<1>1. part = <<>> /\ merged = 0 /\ out = 0 /\ got = NoTorrent /\ ~Faithful
  BY DEF Init, Faithful, NotMade
<1> QED
  BY <1>1 DEF PartInv

LEMMA PartNext == Inv /\ PartInv /\ [Next]_vars => PartInv'
<1> SUFFICES ASSUME Inv, PartInv, [Next]_vars PROVE PartInv'
  OBVIOUS
<1>1. CASE CreateTorrent \/ RunTool \/ UNCHANGED vars
  BY <1>1 DEF CreateTorrent, RunTool, vars, PartInv, Faithful
<1>2. ASSUME NEW s \in Sizes, Edit(s) PROVE PartInv'
  <2>1. ~Faithful'
    BY <1>2 DEF Edit, Faithful, NotMade
  <2> QED
    BY <1>2, <2>1 DEF Edit, PartInv
<1>3. CASE Publish
  <2>1. got = NoTorrent
    BY <1>3 DEF Publish, Inv, GotInv
  <2>2. DOMAIN part = {} /\ merged = 0 /\ out = 0
    BY <2>1 DEF PartInv
  <2>3. UNCHANGED <<file, got, part, merged, out>>
    BY <1>3 DEF Publish
  <2>4. Least(0 * BLOCK, file) = 0
    <3>1. 0 * BLOCK = 0 /\ file \in Nat
      BY DEF Inv, DiskInv
    <3> QED
      BY <3>1 DEF Least
  <2> QED
    BY <2>1, <2>2, <2>3, <2>4 DEF PartInv
<1>4. CASE GetTorrent
  <2> DEFINE n == sent[2].value
  <2>1. /\ got = NoTorrent /\ part' = [i \in 1..n |-> -1] /\ got'.pieceNumber = n
        /\ UNCHANGED <<file, basis, merged, out>>
    BY <1>4 DEF GetTorrent
  <2>2. merged = 0 /\ out = 0
    BY <2>1 DEF PartInv
  <2> HIDE DEF n
  <2>3. part' \in [1..n -> Int] /\ DOMAIN part' = 1..n
    BY <2>1
  <2>4. got' = NoTorrent => DOMAIN part' = {}
    BY <2>1, <2>3 DEF NoTorrent
  <2>5. Faithful' = Faithful
    BY <2>1 DEF Faithful
  <2> QED
    BY <2>1, <2>2, <2>3, <2>4, <2>5 DEF PartInv
<1>5. ASSUME NEW p \in DOMAIN part, FetchPiece(p) PROVE PartInv'
  <2>1. got # NoTorrent /\ p \in 1..got.pieceNumber
    BY DEF PartInv
  <2>2. PICK n \in Int : /\ part' = [part EXCEPT ![p] = n]
                         /\ \/ Expected(p) <= 0 /\ n = 0
                            \/ ~(Expected(p) <= 0) /\ n \in Expected(p)..Served(p)
    BY <1>5 DEF FetchPiece
  <2>3. UNCHANGED <<file, basis, got, merged, out>>
    BY <1>5 DEF FetchPiece
  <2>4. part' \in [DOMAIN part -> Int] /\ DOMAIN part' = DOMAIN part
    BY <2>2 DEF PartInv
  <2>5. ASSUME Faithful
        PROVE  n = Length(file, p)
    <3>1. Served(p) = Length(file, p) /\ got.pieceNumber = PieceCount(file)
      BY <2>1, <2>5, ServedIsRead
    <3>2. file \in Nat /\ got.pieceNumber \in Nat
      BY <3>1, AllPieces DEF Inv, DiskInv
    <3>3. Length(file, p) \in Nat
      BY <2>1, <3>2, LengthNat
    <3>4. Expected(p) = Length(file, p)
      BY <2>1, <2>5, <3>1, ServedIsExpected DEF ExpectedIsServed
    <3> QED
      BY <2>2, <3>1, <3>3, <3>4
  <2>6. Faithful' = Faithful
    BY <2>3 DEF Faithful
  <2> QED
    BY <2>2, <2>3, <2>4, <2>5, <2>6 DEF PartInv
<1>6. CASE MergePiece
  <2>1. /\ merged' = merged + 1 /\ out' = out + Least(part[merged + 1], BLOCK)
        /\ merged < got.pieceNumber
        /\ \A p \in DOMAIN part : part[p] # -1
        /\ UNCHANGED <<file, basis, got, part>>
    BY <1>6 DEF MergePiece
  <2>2. Faithful' = Faithful
    BY <2>1 DEF Faithful
  <2>3. got # NoTorrent
    BY <2>1 DEF PartInv, NoTorrent
  <2>4. got.pieceNumber \in Int
    <3>1. /\ sent # <<>> /\ sent \in Seq(Line) /\ Len(sent) >= 2
          /\ got.pieceNumber = sent[2].value
      BY <2>3 DEF Inv, PubInv, GotInv
    <3>2. sent[2] \in Line
      BY <3>1, LenProperties, ElementOfSeq
    <3> QED
      BY <3>1, <3>2 DEF Line
  <2>5. merged \in Nat /\ merged + 1 \in 1..got.pieceNumber /\ merged + 1 \in DOMAIN part
    BY <2>1, <2>3, <2>4 DEF PartInv
  <2>6. part[merged + 1] \in Int
    BY <2>5 DEF PartInv
  <2>7. out' \in Int
    BY <2>1, <2>6 DEF PartInv, Least
  <2>8. ASSUME Faithful
        PROVE  out' = Least((merged + 1) * BLOCK, file)
    <3>1. part[merged + 1] = Length(file, merged + 1)
      BY <2>1, <2>5, <2>8 DEF PartInv
    <3>2. file \in Nat
      BY DEF Inv, DiskInv
    <3>3. Length(file, merged + 1) \in Nat /\ Length(file, merged + 1) <= BLOCK
      BY <2>5, <3>2, LengthNat
    <3>4. Least(part[merged + 1], BLOCK) = Length(file, merged + 1)
      BY <3>1, <3>3 DEF Least
    <3>5. out = Least(merged * BLOCK, file)
      BY <2>8 DEF PartInv
    <3> QED
      BY <2>1, <2>5, <3>2, <3>4, <3>5, LengthAdded
  <2> QED
    BY <2>1, <2>2, <2>3, <2>5, <2>7, <2>8 DEF PartInv
<1> QED
  BY <1>1, <1>2, <1>3, <1>4, <1>5, <1>6 DEF Next

(* When all pieces of a torrent that was made for the file as it is are     *)
(* merged, the output file has as many bytes as that file: the last recv()  *)
(* of a thread brings nothing that does not belong to its piece.            *)
THEOREM WholeFileMerged == Spec => []WholeFile
<1>1. Inv /\ PartInv => WholeFile
  <2> SUFFICES ASSUME Inv, PartInv, Faithful, got # NoTorrent, merged = got.pieceNumber
               PROVE  out = file
    BY DEF WholeFile
  <2>1. file \in Nat /\ Wrap(file) = file
    BY WrapFits DEF Inv, DiskInv, Faithful
  <2>2. got.pieceNumber = PieceCount(file)
    BY <2>1 DEF Inv, GotInv, PubInv, HeaderOf, Faithful, Number
  <2> QED
    BY <2>1, <2>2, AllPieces DEF PartInv
<1>2. Spec => []PartInv
  BY Invariance, PartInit, PartNext, PTL DEF Spec
<1> QED
  BY <1>1, <1>2, Invariance, PTL

-----------------------------------------------------------------------------
(* Digests *)

(* Behind the two numbers a torrent file of command 1 has the digest of     *)
(* each read and the address.                                               *)
LinesOf(ls, m) ==
  m.by = "menu" =>
    /\ Reads(m.of) \in Nat
    /\ Len(ls) >= Reads(m.of) + 3
    /\ \A k \in 1..Reads(m.of) : ls[k + 2] = Digest("file", k)
    /\ ls[Reads(m.of) + 3] = Address

DigestInv ==
  /\ lines # <<>> => LinesOf(lines, made)
  /\ basis.by # "nobody" => LinesOf(sent, basis)
  /\ got # NoTorrent =>
       \A p \in 1..got.pieceNumber : got.pieces[p].SHA = LineFor(p, sent)

LEMMA ReadsNat ==
  ASSUME NEW s \in Nat
  PROVE  /\ Reads(s) \in Nat
         /\ PieceCount(s) \in Int
         /\ PieceCount(s) <= Reads(s) + 1
<1> DEFINE a == s + BLOCK - 1
           q == s \div BLOCK
           k == a \div BLOCK
<1>1. a \in Int /\ a >= 0
  OBVIOUS
<1>2. /\ k \in Int /\ a % BLOCK \in Int
      /\ a = BLOCK * k + (a % BLOCK)
      /\ 0 <= a % BLOCK /\ a % BLOCK < BLOCK
  BY <1>1, Division
<1>3. /\ q \in Int /\ s % BLOCK \in Int
      /\ s = BLOCK * q + (s % BLOCK)
      /\ 0 <= s % BLOCK /\ s % BLOCK < BLOCK
  BY Division
<1>4. Reads(s) = k /\ PieceCount(s) = q + 1
  BY DEF Reads, PieceCount, Quotient
<1>5. a = s + BLOCK - 1
  OBVIOUS
<1> HIDE DEF a, q, k
<1>6. k >= 0
  <2>1. SUFFICES ASSUME k <= -1 PROVE FALSE
    BY <1>2
  <2>2. BLOCK * k <= -BLOCK
    BY <1>2, <2>1
  <2> QED
    BY <1>1, <1>2, <2>2
<1>7. q <= k
  <2>1. SUFFICES ASSUME k <= q - 1 PROVE FALSE
    BY <1>2, <1>3
  <2>2. BLOCK * k <= BLOCK * q - BLOCK
    BY <1>2, <1>3, <2>1
  <2> QED
    BY <1>2, <1>3, <1>5, <2>2
<1> QED
  BY <1>2, <1>3, <1>4, <1>6, <1>7

(* Command 1 writes them. *)
LEMMA MenuDigests ==
  ASSUME NEW s \in Nat
  PROVE  /\ Len(MenuLines(s)) = Reads(s) + 3
         /\ \A k \in 1..Reads(s) : MenuLines(s)[k + 2] = Digest("file", k)
         /\ MenuLines(s)[Reads(s) + 3] = Address
<1> DEFINE digests == [k \in 1..Reads(s) |-> Digest("file", k)]
           front == Header(s) \o digests
<1>1. Reads(s) \in Nat /\ Wrap(s) \in Int /\ PieceCount(Wrap(s)) \in Int
  BY ReadsNat, WrapInt, PieceCountInt
<1>2. Header(s) \in Seq(Line) /\ Len(Header(s)) = 2
  BY <1>1 DEF Header, Number, Line
<1>3. digests \in Seq(Line) /\ Len(digests) = Reads(s)
      /\ \A k \in 1..Reads(s) : digests[k] = Digest("file", k)
  <2>1. \A k \in 1..Reads(s) : Digest("file", k) \in Line
    BY <1>1 DEF Digest, Line
  <2>2. digests \in [1..Reads(s) -> Line]
    BY <2>1
  <2>3. digests \in Seq(Line)
    BY <1>1, <2>2, SeqDef
  <2>4. \A k \in 1..Reads(s) : digests[k] = Digest("file", k)
    OBVIOUS
  <2> HIDE DEF digests
  <2>5. 1..Len(digests) = 1..Reads(s) /\ Len(digests) \in Nat
    BY <2>2, <2>3, LenProperties
  <2>6. Len(digests) = Reads(s)
    BY <1>1, <2>5
  <2> QED
    BY <2>3, <2>4, <2>6
<1>4. <<Address>> \in Seq(Line) /\ Len(<<Address>>) = 1 /\ <<Address>>[1] = Address
  BY DEF Address, Line
<1>5. MenuLines(s) = front \o <<Address>>
  BY DEF MenuLines
<1> HIDE DEF digests
<1>6. /\ front \in Seq(Line) /\ Len(front) = 2 + Reads(s)
      /\ \A i \in 1..2 + Reads(s) :
           front[i] = IF i <= 2 THEN Header(s)[i] ELSE digests[i - 2]
  <2>1. /\ front \in Seq(Line) /\ Len(front) = Len(Header(s)) + Len(digests)
        /\ \A i \in 1..Len(Header(s)) + Len(digests) :
             front[i] = IF i <= Len(Header(s)) THEN Header(s)[i]
                                               ELSE digests[i - Len(Header(s))]
    BY <1>2, <1>3, ConcatProperties
  <2> QED
    BY <1>2, <1>3, <2>1
<1> HIDE DEF front
<1>7. /\ Len(MenuLines(s)) = Len(front) + 1
      /\ \A i \in 1..Len(front) + 1 :
           MenuLines(s)[i] = IF i <= Len(front) THEN front[i]
                                                ELSE <<Address>>[i - Len(front)]
  BY <1>4, <1>5, <1>6, ConcatProperties
<1>8. Len(MenuLines(s)) = Reads(s) + 3
  BY <1>1, <1>6, <1>7
<1>9. ASSUME NEW k \in 1..Reads(s)
      PROVE  MenuLines(s)[k + 2] = Digest("file", k)
  <2>1. k + 2 \in 1..Len(front) + 1 /\ k + 2 <= Len(front) /\ ~(k + 2 <= 2)
        /\ k + 2 \in 1..2 + Reads(s) /\ k + 2 - 2 = k
    BY <1>1, <1>6
  <2>2. MenuLines(s)[k + 2] = front[k + 2]
    BY <1>7, <2>1
  <2>3. front[k + 2] = digests[k + 2 - 2]
    BY <1>6, <2>1
  <2> QED
    BY <1>3, <2>1, <2>2, <2>3
<1>10. MenuLines(s)[Reads(s) + 3] = Address
  <2>1. PICK i \in 1..Len(front) + 1 : i = Reads(s) + 3 /\ ~(i <= Len(front))
                                       /\ i - Len(front) = 1
    BY <1>1, <1>6
  <2> QED
    BY <1>4, <1>7, <2>1
<1> QED
  BY <1>8, <1>9, <1>10

LEMMA DigestInit == Init => DigestInv
BY DEF Init, DigestInv, NotMade

LEMMA DigestNext == Inv /\ DigestInv /\ [Next]_vars => DigestInv'
<1> SUFFICES ASSUME Inv, DigestInv, [Next]_vars PROVE DigestInv'
  OBVIOUS
<1>1. file \in Nat /\ file \in Sizes
  BY DEF Inv, DiskInv
<1>2. CASE CreateTorrent
  <2>1. lines' = MenuLines(file) /\ made' = [by |-> "menu", of |-> file]
    <3>1. MenuLines(file) \in Seq(Line)
      BY <1>1, WrittenLines
    <3> QED
      BY <1>2, <3>1, ConcatEmptySeq DEF CreateTorrent, Truncated
  <2>2. LinesOf(lines, made)'
    <3>1. /\ Reads(file) \in Nat /\ Len(MenuLines(file)) = Reads(file) + 3
          /\ \A k \in 1..Reads(file) : MenuLines(file)[k + 2] = Digest("file", k)
          /\ MenuLines(file)[Reads(file) + 3] = Address
      BY <1>1, MenuDigests, ReadsNat
    <3>2. made'.of = file
      BY <2>1
    <3>3. Reads(file) + 3 >= Reads(file) + 3
      BY <3>1
    <3> QED
      BY <2>1, <3>1, <3>2, <3>3 DEF LinesOf
  <2>3. UNCHANGED <<sent, basis, got>>
    BY <1>2 DEF CreateTorrent
  <2> QED
    BY <2>2, <2>3 DEF DigestInv, LinesOf
<1>3. CASE RunTool
  <2>1. UNCHANGED <<sent, basis, got>>
    BY <1>3 DEF RunTool
  <2>2. LinesOf(lines, made)'
    <3>1. CASE lines = <<>>
      BY <1>3, <3>1 DEF RunTool, LinesOf
    <3>2. CASE lines # <<>>
      <4>1. lines' = lines \o ToolLines(file) /\ made' = made
        BY <1>3, <3>2 DEF RunTool
      <4>2. lines \in Seq(Line) /\ ToolLines(file) \in Seq(Line)
        BY <1>1, WrittenLines DEF Inv, DiskInv
      <4>3. Len(lines) \in Nat /\ Len(ToolLines(file)) \in Nat
        BY <4>2, LenProperties
      <4>4. /\ Len(lines') = Len(lines) + Len(ToolLines(file))
            /\ \A i \in 1..Len(lines) : lines'[i] = lines[i]
        <5>1. /\ Len(lines \o ToolLines(file)) = Len(lines) + Len(ToolLines(file))
              /\ \A i \in 1..Len(lines) + Len(ToolLines(file)) :
                   (lines \o ToolLines(file))[i] =
                     IF i <= Len(lines) THEN lines[i] ELSE ToolLines(file)[i - Len(lines)]
          BY <4>2, ConcatProperties
        <5>2. \A i \in 1..Len(lines) : (lines \o ToolLines(file))[i] = lines[i]
          BY <4>3, <5>1
        <5> QED
          BY <4>1, <5>1, <5>2
      <4>5. ASSUME made.by = "menu"
            PROVE  /\ Reads(made.of) \in Nat
                   /\ Len(lines') >= Reads(made.of) + 3
                   /\ \A k \in 1..Reads(made.of) : lines'[k + 2] = Digest("file", k)
                   /\ lines'[Reads(made.of) + 3] = Address
        <5>1. /\ Reads(made.of) \in Nat
              /\ Len(lines) >= Reads(made.of) + 3
              /\ \A k \in 1..Reads(made.of) : lines[k + 2] = Digest("file", k)
              /\ lines[Reads(made.of) + 3] = Address
          BY <3>2, <4>5 DEF DigestInv, LinesOf
        <5>2. Reads(made.of) + 3 \in 1..Len(lines)
          BY <4>3, <5>1
        <5>3. \A k \in 1..Reads(made.of) : k + 2 \in 1..Len(lines)
          BY <4>3, <5>1
        <5> QED
          BY <4>3, <4>4, <5>1, <5>2, <5>3
      <4> QED
        BY <4>1, <4>5 DEF LinesOf
    <3> QED
      BY <3>1, <3>2
  <2> QED
    BY <2>1, <2>2 DEF DigestInv, LinesOf
<1>4. ASSUME NEW s \in Sizes, Edit(s) PROVE DigestInv'
  BY <1>4 DEF Edit, DigestInv, LinesOf, NotMade
<1>5. CASE Publish
  <2>1. lines # <<>> /\ sent = <<>> /\ sent' = lines /\ basis' = made
        /\ UNCHANGED <<lines, made, got>>
    BY <1>5 DEF Publish
  <2>2. got = NoTorrent
    BY <2>1 DEF Inv, GotInv
  <2> QED
    BY <2>1, <2>2 DEF DigestInv, LinesOf
<1>6. CASE GetTorrent
  <2> DEFINE n == sent[2].value
  <2>1. /\ got'.pieceNumber = n
        /\ got'.pieces = [i \in 1..n |->
             [order |-> i, size |-> PieceSize(sent[1].value, n, i - 1),
              SHA |-> LineFor(i, sent)]]
        /\ UNCHANGED <<lines, made, sent, basis>>
    BY <1>6 DEF GetTorrent
  <2> HIDE DEF n
  <2>2. \A p \in 1..got'.pieceNumber : got'.pieces[p].SHA = LineFor(p, sent)
    BY <2>1
  <2> QED
    BY <2>1, <2>2 DEF DigestInv, LinesOf, LineFor
<1>7. ASSUME NEW p \in DOMAIN part, FetchPiece(p) PROVE DigestInv'
  BY <1>7 DEF FetchPiece, DigestInv, LinesOf, LineFor
<1>8. CASE MergePiece \/ UNCHANGED vars
  BY <1>8 DEF MergePiece, vars, DigestInv, LinesOf, LineFor
<1> QED
  BY <1>2, <1>3, <1>4, <1>5, <1>6, <1>7, <1>8 DEF Next

(* In a torrent of command 1 the digest of each piece is that of the read   *)
(* it came from, also when the stand-alone program appended to the torrent  *)
(* file afterwards; the empty last piece gets the address line.             *)
THEOREM DigestsOfPieces == Spec => []DigestsInPlace
<1>1. Inv /\ DigestInv => DigestsInPlace
  <2> SUFFICES ASSUME Inv, DigestInv, basis.by = "menu", basis.of < IntRange,
                      NEW p \in 1..got.pieceNumber
               PROVE  got.pieces[p].SHA =
                        IF p <= Reads(basis.of) THEN Digest("file", p) ELSE Address
    BY DEF DigestsInPlace
  <2>1. got # NoTorrent
    BY DEF NoTorrent
  <2>2. basis.of \in Nat /\ sent[2] = Number(PieceCount(Wrap(basis.of)))
        /\ got.pieceNumber = sent[2].value
    BY <2>1 DEF Inv, PubInv, HeaderOf, GotInv
  <2>3. Wrap(basis.of) = basis.of
    BY <2>2, WrapFits
  <2>4. got.pieceNumber = PieceCount(basis.of)
    BY <2>2, <2>3 DEF Number
  <2>5. /\ Reads(basis.of) \in Nat /\ PieceCount(basis.of) \in Int
        /\ PieceCount(basis.of) <= Reads(basis.of) + 1
    BY <2>2, ReadsNat
  <2>6. p \in Nat /\ p >= 1 /\ p <= Reads(basis.of) + 1
    BY <2>4, <2>5
  <2>7. /\ Len(sent) >= Reads(basis.of) + 3
        /\ \A k \in 1..Reads(basis.of) : sent[k + 2] = Digest("file", k)
        /\ sent[Reads(basis.of) + 3] = Address
    BY DEF DigestInv, LinesOf
  <2>8. Len(sent) \in Nat
    BY LenProperties DEF Inv, PubInv
  <2>9. got.pieces[p].SHA = sent[p + 2]
    <3>1. p + 2 <= Len(sent)
      BY <2>5, <2>6, <2>7, <2>8
    <3> QED
      BY <2>1, <3>1 DEF DigestInv, LineFor, DigestLine
  <2>10. CASE p <= Reads(basis.of)
    <3>1. p \in 1..Reads(basis.of)
      BY <2>5, <2>6, <2>10
    <3> QED
      BY <2>7, <2>9, <2>10, <3>1
  <2>11. CASE ~(p <= Reads(basis.of))
    <3>1. p + 2 = Reads(basis.of) + 3
      BY <2>5, <2>6, <2>11
    <3> QED
      BY <2>7, <2>9, <2>11, <3>1
  <2> QED
    BY <2>10, <2>11
<1>2. Spec => []DigestInv
  BY Invariance, DigestInit, DigestNext, PTL DEF Spec
<1> QED
  BY <1>1, <1>2, Invariance, PTL
=============================================================================
