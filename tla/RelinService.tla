---------------------------- MODULE RelinService ----------------------------
(***************************************************************************)
(* What the relinearization core promises its user: a run writes the two   *)
(* components of the result modulo every prime, in the order of the primes *)
(* and ct0 before ct1, each one right, and reports done only after that.   *)
(***************************************************************************)
EXTENDS RelinData

VARIABLES
  running,    \* between start and done
  delivered,  \* results written in this run
  results     \* the output area of the HBM

TypeOK ==
  /\ running \in BOOLEAN
  /\ delivered \in 0 .. 2 * L
  /\ results \in [Comp -> [Poly -> Value]]

Init ==
  /\ running = FALSE
  /\ delivered = 0
  /\ results = [x \in Comp |-> [i \in Poly |-> None]]

Begin ==
  /\ ~running
  /\ running' = TRUE
  /\ UNCHANGED <<delivered, results>>

Deliver ==
  /\ running /\ delivered < 2 * L
  /\ LET x == delivered % 2
         i == delivered \div 2
     IN results' = [results EXCEPT ![x][i] = Result(x, i)]
  /\ delivered' = delivered + 1
  /\ UNCHANGED running

Finish ==
  /\ running /\ delivered = 2 * L
  /\ running' = FALSE /\ delivered' = 0
  /\ UNCHANGED results

Next == Begin \/ Deliver \/ Finish

vars == <<running, delivered, results>>

\* Results are delivered in order, each one right, and all of them before done.
InOrder == Init /\ [][Next]_vars

\* A run that was begun goes on; nothing makes anyone begin one.
Spec == InOrder /\ WF_vars(Deliver \/ Finish)
=============================================================================
