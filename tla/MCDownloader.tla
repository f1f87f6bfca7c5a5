---------------------------- MODULE MCDownloader ----------------------------
(* Instances of Downloader for TLC. *)
EXTENDS Downloader

(* Every uploader is a seed. *)
AllSeeds == {[u \in Uploaders |-> Pieces]}

(* Any distribution of the pieces over the uploaders. *)
AnyHoldings == [Uploaders -> SUBSET Pieces]

(* The last uploader is a seed or holds the first piece only; the others    *)
(* hold any pieces: some pieces are nowhere, some at one place, some twice. *)
MixedHoldings == {h \in AnyHoldings : h[NU] \in {Pieces, {1}}}

(* The abstract download a state stands for. *)
T == INSTANCE Transfer WITH
  Parts <- Pieces,
  File <- Whole,
  phase <- CASE pc = "off" -> "idle"
             [] pc = "done" -> "delivered"
             [] OTHER -> "fetching",
  fetched <- {p \in Pieces : th[p].pc = "ended"},
  result <- IF pc = "done" THEN out[outName] ELSE <<>>

(* When no uploader and no process fails, Downloader implements Transfer:   *)
(* each piece is fetched once, and the file appears complete in one step,   *)
(* which fairness brings about.                                             *)
ImplementsTransfer == T!Spec

NoUploader == {}
LastUploader == {NU}
=============================================================================
