------------------------------ MODULE MCFraming ------------------------------
(* Buffers that are clean, or hold the end of an older reply or the start   *)
(* of one, or something else.                                               *)
EXTENDS Framing

Alphabet == {"dollar", "tilde", "left", "right", "newline", "a", "b", "c", "n"}

One == <<"a">>
Three == <<"a", "b", "c">>

Leftovers ==
  {<<>>, <<"n", "n">>, <<"right", "tilde", "dollar">>, <<"tilde">>,
   <<"dollar", "tilde", "left", "a">>, <<"right">>}
=============================================================================
