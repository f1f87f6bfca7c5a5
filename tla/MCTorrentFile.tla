---------------------------- MODULE MCTorrentFile ----------------------------
(* Files up to past the range of an int. *)
EXTENDS TorrentFile

CONSTANT Largest
UpToLargest == 0..Largest
=============================================================================
