------------------------------ MODULE ReadPort ------------------------------
(***************************************************************************)
(* What the core counts on from a read port of the HBM, and what module    *)
(* Relin makes of it: a request leaves it busy, some time later the stream *)
(* of the polynomial asked for starts, and done ends it.                   *)
(***************************************************************************)
EXTENDS Naturals

CONSTANT MaxReads  \* bound on the requests

VARIABLES
  rd_state,  \* idle, busy or stream
  served     \* requests done

Init == rd_state = "idle" /\ served = 0

Request ==
  /\ rd_state = "idle" /\ served < MaxReads
  /\ rd_state' = "busy"
  /\ UNCHANGED served

Start ==
  /\ rd_state = "busy"
  /\ rd_state' = "stream"
  /\ UNCHANGED served

Done ==
  /\ rd_state = "stream"
  /\ rd_state' = "idle"
  /\ served' = served + 1

Next == Request \/ Start \/ Done

\* A request is served; nobody has to make one.
Spec == Init /\ [][Next]_<<rd_state, served>> /\ WF_<<rd_state, served>>(Start \/ Done)
=============================================================================
