----------------------------- MODULE TorrentFile -----------------------------
(***************************************************************************)
(* The torrent file and the sizes in it, from the local file to the merged *)
(* download: it is created by command 1 or by the stand-alone              *)
(* create_torrent, published by command 2, got by another client with      *)
(* command 4, and at last it decides how many bytes each thread of command *)
(* 6 waits for.  Sizes are C ints.                                         *)
(*                                                                         *)
(* What a downloader waits for and what an uploader sends are computed in  *)
(* different programs from different numbers; a thread that waits for one  *)
(* byte too many waits for ever.                                           *)
(***************************************************************************)
EXTENDS Integers, Sequences

CONSTANTS
  BLOCK,        \* bytes of a piece (4 MB)
  IntRange,     \* an int holds -IntRange .. IntRange - 1
  LinesPerRead, \* lines of the torrent file in one fread() of command 2
  Sizes         \* bound: sizes the local file may have

ASSUME TorrentFileAssumption ==
  /\ BLOCK \in Nat \ {0}
  /\ IntRange \in Nat \ {0}
  /\ LinesPerRead \in Nat \ {0}
  /\ Sizes \subseteq Nat

(* Conversion to int, and the division of C, which truncates. *)
Wrap(x) == ((x + IntRange) % (2 * IntRange)) - IntRange
Quotient(x) == IF x >= 0 THEN x \div BLOCK ELSE -((-x) \div BLOCK)

VARIABLES
  file,   \* size of the local file
  lines,  \* the torrent file on disk
  made,   \* what its first two lines were written for
  sent,   \* the torrent file as it was published, <<>> before
  basis,  \* `made' of it, until the file is changed
  pub,    \* the publisher's T_TORRENT: numbers and pieces
  got,    \* the T_TORRENT of a client that got it
  part,   \* bytes in the piece files of its download, -1 before
  merged, \* how many of the piece files are in the output file
  out     \* bytes in the output file

vars == <<file, lines, made, sent, basis, pub, got, part, merged, out>>

NoTorrent == [fileSize |-> 0, pieceNumber |-> 0, pieces |-> <<>>]
NotMade == [by |-> "nobody", of |-> 0]

Init ==
  /\ file \in Sizes
  /\ lines = <<>> /\ made = NotMade
  /\ sent = <<>> /\ basis = NotMade
  /\ pub = NoTorrent /\ got = NoTorrent
  /\ part = <<>>
  /\ merged = 0 /\ out = 0

-----------------------------------------------------------------------------
(* Creation *)

Number(n) == [kind |-> "number", value |-> n]
Address == [kind |-> "ip", value |-> 0]

(* The digest after the k-th read of file f. *)
Digest(f, k) == [kind |-> f, value |-> k]

(* A file of s bytes is read in so many freads() that return something. *)
Reads(s) == (s + BLOCK - 1) \div BLOCK

(* What the k-th of the freads() returns. *)
Length(s, k) ==
  IF k * BLOCK <= s THEN BLOCK
  ELSE IF (k - 1) * BLOCK <= s THEN s - (k - 1) * BLOCK
  ELSE 0

(* Faulty variant: no piece for the rest. *)
PieceCount_NoRest(size) == Quotient(size)

PieceCount(size) == Quotient(size) + 1

Header(s) == <<Number(Wrap(s)), Number(PieceCount(Wrap(s)))>>

(* The contents command 1 writes for a file of s bytes, and those of the    *)
(* stand-alone program, which opens its configuration file, in one read, to *)
(* compute digests.                                                         *)
MenuLines(s) ==
  Header(s) \o [k \in 1..Reads(s) |-> Digest("file", k)] \o <<Address>>
ToolLines(s) == Header(s) \o <<Digest("configuration", 1), Address>>

(* Faulty variant: the old contents stay. *)
Truncated_Not(old) == old

(* fopen(.., "w") before fopen(.., "a"). *)
Truncated(old) == <<>>

(* Command 1.  (Bound, here and below: what is done to the torrent file     *)
(* after it was published is left out, since nobody reads it again.)        *)
CreateTorrent ==
  /\ sent = <<>>
  /\ lines' = Truncated(lines) \o MenuLines(file)
  /\ made' = [by |-> "menu", of |-> file]
  /\ UNCHANGED <<file, sent, basis, pub, got, part, merged, out>>

(* The stand-alone program appends to what is there.  (Bound: once.) *)
RunTool ==
  /\ sent = <<>>
  /\ Len(lines) <= Reads(made.of) + 3
  /\ lines' = lines \o ToolLines(file)
  /\ made' = IF lines = <<>> THEN [by |-> "tool", of |-> file] ELSE made
  /\ UNCHANGED <<file, sent, basis, pub, got, part, merged, out>>

(* The user changes the file. *)
Edit(s) ==
  /\ s # file
  /\ file' = s
  /\ basis' = NotMade
  /\ UNCHANGED <<lines, made, sent, pub, got, part, merged, out>>

-----------------------------------------------------------------------------
(* Reading *)

(* The size of the i-th piece, i from 0, in commands 2 and 4 alike. *)
PieceSize(size, n, i) == IF i = n - 1 THEN Wrap(size - BLOCK * i) ELSE BLOCK

(* Faulty variant: the loop starts at 1. *)
IndexOf_FromOne(k, n) == ((k - 1) % n) + 1

(* The loop variable for the k-th piece command 2 pushes. *)
IndexOf(k, n) == (k - 1) % n

(* Command 2 pushes all pieces once for each fread() of the torrent file it *)
(* sends; the numbers in `order' go on.                                     *)
Pushed(size, n, ls) ==
  LET rounds == (Len(ls) + LinesPerRead - 1) \div LinesPerRead
  IN [k \in 1..n * rounds |->
        [order |-> k, size |-> PieceSize(size, n, IndexOf(k, n))]]

Publish ==
  /\ lines # <<>> /\ sent = <<>>
  /\ sent' = lines
  /\ basis' = made
  /\ pub' = [fileSize |-> lines[1].value, pieceNumber |-> lines[2].value,
             pieces |-> Pushed(lines[1].value, lines[2].value, lines)]
  /\ UNCHANGED <<file, lines, made, got, part, merged, out>>

(* Faulty variant: the line is read before the two numbers. *)
DigestLine_Early(i) == i + 1

(* getline() for piece i, i from 1; the last line stays when there are no   *)
(* more.                                                                    *)
DigestLine(i) == i + 2

LineFor(i, ls) ==
  IF DigestLine(i) <= Len(ls) THEN ls[DigestLine(i)] ELSE ls[Len(ls)]

(* Command 4, by another client. *)
GetTorrent ==
  /\ sent # <<>> /\ got = NoTorrent
  /\ LET size == sent[1].value
         n == sent[2].value
     IN /\ got' = [fileSize |-> size, pieceNumber |-> n,
                   pieces |-> [i \in 1..n |->
                                 [order |-> i, size |-> PieceSize(size, n, i - 1),
                                  SHA |-> LineFor(i, sent)]]]
        /\ part' = [i \in 1..n |-> -1]
  /\ UNCHANGED <<file, lines, made, sent, basis, pub, merged, out>>

-----------------------------------------------------------------------------
(* The download *)

(* What thread p of the downloader waits for, *)
Expected(p) == IF p = got.pieceNumber THEN got.pieces[p].size ELSE BLOCK

(* and what the publisher sends: the piece's order is the number of freads. *)
Served(p) == Length(file, pub.pieces[p].order)

(* Enough arrives; the last recv() may bring more than was waited for.      *)
FetchPiece(p) ==
  /\ part[p] = -1
  /\ IF Expected(p) <= 0
     THEN part' = [part EXCEPT ![p] = 0]
     ELSE \E n \in Expected(p)..Served(p) : part' = [part EXCEPT ![p] = n]
  /\ UNCHANGED <<file, lines, made, sent, basis, pub, got, merged, out>>

Least(m, n) == IF m <= n THEN m ELSE n

(* When all threads are joined the next piece file is added to the output  *)
(* file, with one fread() of BLOCK bytes.                                   *)
MergePiece ==
  /\ \A p \in DOMAIN part : part[p] # -1
  /\ merged < got.pieceNumber
  /\ merged' = merged + 1
  /\ out' = out + Least(part[merged + 1], BLOCK)
  /\ UNCHANGED <<file, lines, made, sent, basis, pub, got, part>>

Next ==
  \/ CreateTorrent
  \/ RunTool
  \/ \E s \in Sizes : Edit(s)
  \/ Publish
  \/ GetTorrent
  \/ \E p \in DOMAIN part : FetchPiece(p)
  \/ MergePiece

Spec == Init /\ [][Next]_vars
-----------------------------------------------------------------------------
(* Properties *)

(* The torrent was made for the local file as it is, and its size is an int. *)
Faithful == basis.by # "nobody" /\ basis.of = file /\ file < IntRange

(* Every thread waits for exactly what it is sent: full pieces and a last   *)
(* one that is shorter, also none at all when the size is a multiple of     *)
(* BLOCK.                                                                   *)
ExpectedIsServed ==
  Faithful => \A p \in 1..got.pieceNumber : Served(p) = Expected(p)

(* Faithful torrents download the whole file and no byte more. *)
WholeFile ==
  Faithful /\ got # NoTorrent /\ merged = got.pieceNumber => out = file

(* Publisher and downloader agree on the pieces, although the publisher     *)
(* pushes them again for each 4096 bytes of the torrent file: whatever      *)
(* number of a piece the downloader can send or look up in the bitfield is  *)
(* there and has the same order and size.                                   *)
SidesAgree ==
  got # NoTorrent =>
    \A p \in 1..got.pieceNumber :
      /\ p \in DOMAIN pub.pieces
      /\ pub.pieces[p].order = p
      /\ pub.pieces[p].size = got.pieces[p].size

(* The digest of a piece is the one of its read, in a torrent of command 1, *)
(* except for the empty last piece, which gets the address line.            *)
DigestsInPlace ==
  basis.by = "menu" /\ basis.of < IntRange =>
    \A p \in 1..got.pieceNumber :
      got.pieces[p].SHA = IF p <= Reads(basis.of) THEN Digest("file", p) ELSE Address
=============================================================================
