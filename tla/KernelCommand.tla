---------------------------- MODULE KernelCommand ----------------------------
(***************************************************************************)
(* What the control registers promise the host: a start it asks for makes  *)
(* the core run once, and the host learns of the completion of that run    *)
(* only after it. Under auto restart the core runs again by itself.        *)
(***************************************************************************)
EXTENDS Naturals

CONSTANT MaxRuns  \* bound on the starts the host asks for

VARIABLES asked, ran, finished, reported

Init == asked = 0 /\ ran = 0 /\ finished = 0 /\ reported = 0

Ask ==
  /\ asked < MaxRuns /\ reported = asked
  /\ asked' = asked + 1
  /\ UNCHANGED <<ran, finished, reported>>

Run ==
  /\ ran < asked
  /\ ran' = ran + 1
  /\ UNCHANGED <<asked, finished, reported>>

Finish ==
  /\ finished < ran
  /\ finished' = finished + 1
  /\ UNCHANGED <<asked, ran, reported>>

Report ==
  /\ reported < finished
  /\ reported' = reported + 1
  /\ UNCHANGED <<asked, ran, finished>>

Next == Ask \/ Run \/ Finish \/ Report

\* What was asked for is run, finished and reported.
Spec == Init /\ [][Next]_<<asked, ran, finished, reported>>
             /\ WF_<<asked, ran, finished, reported>>(Run \/ Finish \/ Report)
=============================================================================
