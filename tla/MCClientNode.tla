----------------------------- MODULE MCClientNode ----------------------------
(* Instances of ClientNode for TLC. *)
EXTENDS ClientNode

CONSTANTS c1, c2, a, b, o

(* Two peers with one published torrent; one peer, a torrent that is        *)
(* published or got, and another; a client that is killed and restarted.    *)
Some == {[who |-> {c1, c2, o}, lives |-> 1],
         [who |-> {c1, a, b}, lives |-> 1],
         [who |-> {c1, a}, lives |-> 2]}
Single == {[who |-> {c1, a}, lives |-> 1]}
=============================================================================
