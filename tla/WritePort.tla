----------------------------- MODULE WritePort -----------------------------
(***************************************************************************)
(* What the core counts on from the write port of the HBM, and what module *)
(* Relin makes of it: after a request the port is busy, and when it says   *)
(* done the polynomial is in the memory.                                   *)
(***************************************************************************)
EXTENDS Naturals

CONSTANT MaxWrites  \* bound on the requests

VARIABLES
  busy,
  written  \* polynomials in the memory

Init == busy = FALSE /\ written = 0

Request ==
  /\ ~busy /\ written < MaxWrites
  /\ busy' = TRUE
  /\ UNCHANGED written

Done ==
  /\ busy
  /\ busy' = FALSE
  /\ written' = written + 1

Next == Request \/ Done

\* A request is carried out; nobody has to make one.
Spec == Init /\ [][Next]_<<busy, written>> /\ WF_<<busy, written>>(Done)
=============================================================================
