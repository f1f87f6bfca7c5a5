------------------------------ MODULE MCTracker -----------------------------
(* Instances of Tracker for TLC. *)
EXTENDS Tracker, TLC

CONSTANTS u1, u2

(* Both publish; one also lists and fetches, the other asks for peers. *)
TwoPublishers == (u1 :> {2, 3, 4}) @@ (u2 :> {2, 5})

(* Three commands are enough to publish two torrents and ask for the peers  *)
(* of the first one.                                                        *)
OneAndThree == (u1 :> 1) @@ (u2 :> 3)

TwoEach == (u1 :> 2) @@ (u2 :> 2)
=============================================================================
