------------------------------ MODULE Transfer ------------------------------
(***************************************************************************)
(* What a download promises, whatever threads, semaphores, connections and *)
(* piece files it is made of: every piece is fetched once, in any order,   *)
(* and when all are there the file is delivered in one step, complete and  *)
(* in order.  Downloader implements this when nothing fails.               *)
(***************************************************************************)
CONSTANTS
  Parts,   \* the pieces of the file
  File     \* its contents

VARIABLES
  phase,    \* "idle", "fetching" or "delivered"
  fetched,  \* the pieces received in this download
  result    \* what the user finds when it is delivered

vars == <<phase, fetched, result>>

Init ==
  /\ phase = "idle"
  /\ fetched = {}
  /\ result = <<>>

(* The user asks for the file, for the first time or once more. *)
Begin ==
  /\ phase \in {"idle", "delivered"}
  /\ phase' = "fetching"
  /\ fetched' = {}
  /\ result' = <<>>

Fetch(p) ==
  /\ phase = "fetching"
  /\ p \notin fetched
  /\ fetched' = fetched \union {p}
  /\ UNCHANGED <<phase, result>>

Deliver ==
  /\ phase = "fetching"
  /\ fetched = Parts
  /\ phase' = "delivered"
  /\ result' = File
  /\ UNCHANGED fetched

Progress == Deliver \/ \E p \in Parts : Fetch(p)

Next == Begin \/ Progress

Spec == Init /\ [][Next]_vars /\ WF_vars(Progress)
=============================================================================
