---------------------------- MODULE KernelProofs ----------------------------
(***************************************************************************)
(* Theorems about the control registers, for every number of runs, for a   *)
(* host that polls ap_idle or waits for the interrupt and does not use     *)
(* auto restart. (The other two uses are those the runs find at fault.)    *)
(***************************************************************************)
EXTENDS KernelControl, TLAPS

WellUsed == Waits \subseteq {"idle", "irq"} /\ AutoRestart = FALSE

(***************************************************************************)
(* The life of a run, as the registers show it to the block control.       *)
(***************************************************************************)
Idling ==
  /\ core = "idle" /\ ~int_ap_start /\ ~ap_is_busy
  /\ asked = ran /\ ran = finished

Starting ==
  /\ core = "idle" /\ int_ap_start /\ ~ap_start_q /\ ~ap_is_busy
  /\ asked = ran + 1 /\ ran = finished

Running ==
  /\ core = "running" /\ int_ap_start /\ ap_start_q /\ ap_is_busy /\ ~ap_done_r
  /\ asked = ran /\ ran = finished + 1

Ending ==
  /\ core = "done" /\ int_ap_start /\ ap_start_q /\ ap_is_busy /\ ~ap_done_r
  /\ asked = ran /\ ran = finished

\* The host has asked for a run and does not know yet that it is over.
Pending == host \in {"poll", "irq", "ack"} \/ (host = "go" /\ wstate = "WRRESP")

Counts == asked \in Nat /\ ran \in Nat /\ finished \in Nat /\ reported \in Nat

Registers ==
  /\ int_gie \in BOOLEAN
  /\ int_isr \subseteq {0, 1} /\ int_ier \in {{}, {0, 1}}
  /\ wstate \in {"WRIDLE", "WRDATA", "WRRESP"} /\ rstate \in {"RDIDLE", "RDDATA"}
  /\ host \in {"gie", "ier", "go", "poll", "irq", "ack"} /\ wait \in {"idle", "irq"}

\* The host uses one channel at a time, and writes to the address it has sent.
Bus ==
  /\ host \in {"gie", "ier", "go", "ack"} => rstate = "RDIDLE"
  /\ host \in {"poll", "irq"} => wstate = "WRIDLE"
  /\ wstate = "WRDATA" => waddr = ToWrite[1] /\ (host = "go" => asked < MaxRuns)

Phase == Idling \/ Starting \/ Running \/ Ending

\* The host goes on from a run only when it is over; what it then knows it from.
Knows ==
  /\ ~Pending \/ host = "ack" => Idling
  /\ host = "poll" => wait = "idle" /\ (rstate = "RDDATA" /\ 2 \in rdata => Idling)
  /\ host \in {"gie", "ier", "irq", "ack"} => wait = "irq"
  /\ asked = IF Pending THEN reported + 1 ELSE reported
  /\ ~int_auto_restart

\* The interrupt stands for the one run that is over and not yet reported.
Interrupts ==
  /\ wait = "idle" => int_ier = {} /\ int_isr = {}
  /\ int_isr # {} => Idling /\ Pending
  /\ host = "irq" /\ rstate = "RDDATA" => rdata = int_isr /\ int_isr # {}
  /\ host = "ack" => int_isr = IF wstate = "WRRESP" THEN {} ELSE rdata
  /\ wait = "irq" /\ (host \notin {"gie", "ier"} \/ (host = "ier" /\ wstate = "WRRESP")) => int_ier = {0, 1}
  /\ wait = "irq" /\ (host # "gie" \/ wstate = "WRRESP") => int_gie
  /\ wait = "irq" /\ Pending /\ host # "ack" /\ Idling => int_isr # {}

IInv == Counts /\ Registers /\ Bus /\ Phase /\ Knows /\ Interrupts

\* The invariant holds after a reset.
LEMMA InitIInv == WellUsed /\ Init => IInv
<1> SUFFICES ASSUME WellUsed, Init PROVE IInv
  OBVIOUS
<1>1. wait \in {"idle", "irq"} /\ host = IF wait = "irq" THEN "gie" ELSE "go"
  BY DEF WellUsed, Init
<1>2. Idling /\ ~Pending
  BY <1>1 DEF Init, Idling, Pending
<1>3. Counts /\ Registers /\ Bus /\ Phase
  BY <1>1, <1>2 DEF Init, Counts, Registers, Bus, Phase
<1>4. Knows /\ Interrupts
  BY <1>1, <1>2 DEF Init, Knows, Interrupts
<1> QED
  BY <1>3, <1>4 DEF IInv

-----------------------------------------------------------------------------
(***************************************************************************)
(* What a clock edge writes to the registers of csrs.sv.                   *)
(***************************************************************************)
Starts(w) == w /\ wstate = "WRDATA" /\ host = "go"
Acks(w)   == w /\ wstate = "WRDATA" /\ host = "ack"

\* What the host's writes do to the registers, by where the host is.
LEMMA WrittenBits ==
  ASSUME WellUsed, IInv, NEW w \in BOOLEAN, w => Writing
  PROVE  /\ 0 \in Written("AP_CTRL", w) <=> Starts(w)
         /\ Written("ISR", w) = IF Acks(w) THEN rdata ELSE {}
         /\ w_hs(w) /\ waddr = "AP_CTRL" => 7 \notin ToWrite[2]
         /\ w_hs(w) /\ waddr = "GIE" <=> w /\ wstate = "WRDATA" /\ host = "gie"
         /\ w_hs(w) /\ waddr = "IER" <=> w /\ wstate = "WRDATA" /\ host = "ier"
<1>1. CASE w_hs(w)
  <2>1. wstate = "WRDATA" /\ w /\ waddr = ToWrite[1] /\ Writing
    BY <1>1 DEF w_hs, IInv, Bus
  <2>2. host \in {"gie", "ier", "go", "ack"}
    BY <2>1 DEF Writing
  <2>3. CASE host = "gie"
    <3>1. ToWrite[1] = "GIE"
      BY <2>3 DEF ToWrite
    <3> QED
      BY <1>1, <2>1, <2>3, <3>1 DEF Written, Starts, Acks, w_hs
  <2>4. CASE host = "ier"
    <3>1. ToWrite[1] = "IER"
      BY <2>4 DEF ToWrite
    <3> QED
      BY <1>1, <2>1, <2>4, <3>1 DEF Written, Starts, Acks, w_hs
  <2>5. CASE host = "go"
    <3>1. ToWrite[1] = "AP_CTRL" /\ ToWrite[2] = {0}
      BY <2>5 DEF ToWrite, WellUsed
    <3> QED
      BY <1>1, <2>1, <2>5, <3>1 DEF Written, Starts, Acks, w_hs
  <2>6. CASE host = "ack"
    <3>1. ToWrite[1] = "ISR" /\ ToWrite[2] = rdata
      BY <2>6 DEF ToWrite
    <3> QED
      BY <1>1, <2>1, <2>6, <3>1 DEF Written, Starts, Acks, w_hs
  <2> QED
    BY <2>2, <2>3, <2>4, <2>5, <2>6
<1>2. CASE ~w_hs(w)
  BY <1>2 DEF Written, Starts, Acks, w_hs
<1> QED
  BY <1>1, <1>2

\* A run goes through its phases in order, one start after the other.
LEMMA PhaseStep ==
  ASSUME WellUsed, IInv, NEW w \in BOOLEAN, NEW r \in BOOLEAN, NEW c \in BOOLEAN, Clock(w, r, c)
  PROVE  /\ Starts(w) => Idling /\ Starting'
         /\ Idling /\ ~Starts(w) => Idling' /\ asked' = asked
         /\ Starting => Running' /\ asked' = asked
         /\ Running => (IF c THEN Ending' ELSE Running') /\ asked' = asked
         /\ Ending => Idling' /\ asked' = asked
<1>1. 0 \in Written("AP_CTRL", w) <=> Starts(w)
  BY WrittenBits DEF Clock
<1>2. Starts(w) => Idling
  BY DEF Starts, IInv, Knows, Pending
<1>3. /\ int_ap_start' = (Starts(w) \/ IF ap_ready THEN FALSE ELSE int_ap_start)
      /\ asked' = IF Starts(w) THEN asked + 1 ELSE asked
  BY <1>1 DEF Clock, StartRegister, Counting, Count, IInv, Knows
<1>4. /\ ap_is_busy' = (~ap_done /\ (int_ap_start \/ ap_is_busy))
      /\ ap_done_r' = (core = "done")
      /\ ap_start_q' = int_ap_start
  BY DEF Clock, BlockControl, BusyNext, ap_start, cmd_done
<1>5. /\ core = "idle" => core' = IF int_ap_start /\ ~ap_start_q THEN "running" ELSE "idle"
      /\ core = "running" => core' = IF c THEN "done" ELSE "running"
      /\ core = "done" => core' = "idle"
  BY DEF Clock, CoreStep, CoreStarts, ap_start_pulse, ap_start
<1>6. /\ ran' = IF core = "idle" /\ core' = "running" THEN ran + 1 ELSE ran
      /\ finished' = IF core = "running" /\ core' = "done" THEN finished + 1 ELSE finished
  BY DEF Clock, Counting, Count
<1>7. ap_ready <=> core = "done" /\ ~ap_done_r
  BY DEF ap_ready, ap_done, cmd_done
<1>8. ap_done <=> core = "done" /\ ~ap_done_r
  BY DEF ap_done, cmd_done
<1>a. asked \in Nat /\ ran \in Nat /\ finished \in Nat
  BY DEF IInv, Counts
<1>9. CASE Idling /\ Starts(w)
  BY <1>3, <1>4, <1>5, <1>6, <1>7, <1>8, <1>9, <1>a DEF Idling, Starting, Running, Ending
<1>10. CASE Idling /\ ~Starts(w)
  BY <1>3, <1>4, <1>5, <1>6, <1>7, <1>8, <1>10, <1>a DEF Idling, Starting, Running, Ending
<1>11. CASE Starting
  BY <1>2, <1>3, <1>4, <1>5, <1>6, <1>7, <1>8, <1>11, <1>a DEF Idling, Starting, Running, Ending
<1>12. CASE Running
  BY <1>2, <1>3, <1>4, <1>5, <1>6, <1>7, <1>8, <1>12, <1>a DEF Idling, Starting, Running, Ending
<1>13. CASE Ending
  BY <1>2, <1>3, <1>4, <1>5, <1>6, <1>7, <1>8, <1>13, <1>a DEF Idling, Starting, Running, Ending
<1> QED
  BY <1>2, <1>9, <1>10, <1>11, <1>12, <1>13

-----------------------------------------------------------------------------
(***************************************************************************)
(* The host and the bus.                                                   *)
(***************************************************************************)

\* Where the host and the channels go, with the handshakes spelled out.
LEMMA HostMoves ==
  ASSUME WellUsed, IInv, NEW w \in BOOLEAN, NEW r \in BOOLEAN, NEW c \in BOOLEAN, Clock(w, r, c)
  PROVE  /\ host \in {"gie", "ier", "go", "ack"} =>
              /\ wstate' = IF ~w THEN wstate
                           ELSE IF wstate = "WRIDLE" THEN "WRDATA"
                           ELSE IF wstate = "WRDATA" THEN "WRRESP" ELSE "WRIDLE"
              /\ rstate' = "RDIDLE" /\ rdata' = rdata
              /\ host' = IF ~(w /\ wstate = "WRRESP") THEN host
                         ELSE IF host = "gie" THEN "ier"
                         ELSE IF host \in {"ier", "ack"} THEN "go"
                         ELSE IF wait = "irq" THEN "irq" ELSE "poll"
         /\ host \in {"poll", "irq"} =>
              /\ wstate' = "WRIDLE"
              /\ rstate' = IF ~r THEN rstate ELSE IF rstate = "RDIDLE" THEN "RDDATA" ELSE "RDIDLE"
              /\ rdata' = IF r /\ rstate = "RDIDLE"
                          THEN (IF host = "poll" THEN Register("AP_CTRL") ELSE int_isr) ELSE rdata
              /\ host' = IF ~(r /\ rstate = "RDDATA") THEN host
                         ELSE IF host = "irq" THEN "ack"
                         ELSE IF 2 \in rdata THEN "go" ELSE "poll"
         /\ wait' = wait
<1>1. CASE host \in {"gie", "ier", "go", "ack"}
  <2>1. ~r /\ rstate = "RDIDLE"
    BY <1>1 DEF Clock, Reading, IInv, Bus
  <2> QED
    BY <1>1, <2>1 DEF Clock, WriteChannel, ReadChannel, HostStep, aw_hs, w_hs, b_hs, ar_hs, r_hs,
                      IInv, Registers
<1>2. CASE host \in {"poll", "irq"}
  <2>1. ~w /\ wstate = "WRIDLE"
    BY <1>2 DEF Clock, Writing, IInv, Bus
  <2>2. host = "poll" => Awaited = 2
    BY DEF IInv, Knows, Awaited
  <2>3. Register(ToRead) = IF host = "poll" THEN Register("AP_CTRL") ELSE int_isr
    BY <1>2 DEF ToRead, Register
  <2>4. wstate' = "WRIDLE"
    BY <2>1 DEF Clock, WriteChannel, aw_hs, w_hs, b_hs
  <2>5. /\ rstate' = IF ~r THEN rstate ELSE IF rstate = "RDIDLE" THEN "RDDATA" ELSE "RDIDLE"
        /\ rdata' = IF r /\ rstate = "RDIDLE" THEN Register(ToRead) ELSE rdata
    BY DEF Clock, ReadChannel, ar_hs, r_hs, IInv, Registers
  <2>6. host' = IF ~(r /\ rstate = "RDDATA") THEN host
                ELSE IF host = "irq" THEN "ack"
                ELSE IF 2 \in rdata THEN "go" ELSE "poll"
    BY <1>2, <2>1, <2>2 DEF Clock, HostStep, b_hs, r_hs
  <2> QED
    BY <1>2, <2>3, <2>4, <2>5, <2>6 DEF Clock
<1>3. host \in {"gie", "ier", "go", "poll", "irq", "ack"} /\ wait' = wait
  BY DEF IInv, Registers, Clock
<1> QED
  BY <1>1, <1>2, <1>3

\* Every edge keeps what is said of the handshakes of the bus.
LEMMA BusStep ==
  ASSUME WellUsed, IInv, NEW w \in BOOLEAN, NEW r \in BOOLEAN, NEW c \in BOOLEAN, Clock(w, r, c)
  PROVE  Bus'
<1>1. host \in {"gie", "ier", "go", "ack"} \/ host \in {"poll", "irq"}
  BY DEF IInv, Registers
<1>2. host' \in {"gie", "ier", "go", "ack"} => rstate' = "RDIDLE"
  BY <1>1, HostMoves DEF IInv, Registers, Bus
<1>3. host' \in {"poll", "irq"} => wstate' = "WRIDLE"
  BY <1>1, HostMoves DEF IInv, Registers, Bus
<1>4. wstate' = "WRDATA" /\ host' = "go" => asked' < MaxRuns
  <2>1. asked' = IF Starts(w) THEN asked + 1 ELSE asked
    BY WrittenBits DEF Clock, Counting, Count
  <2>2. w => Writing
    BY DEF Clock
  <2> QED
    BY <1>1, <2>1, <2>2, HostMoves DEF Starts, Writing, IInv, Registers, Bus
<1>5. ASSUME wstate' = "WRDATA" PROVE waddr' = ToWrite[1]'
  <2>1. host \in {"gie", "ier", "go", "ack"} /\ host' = host /\ rdata' = rdata
    BY <1>1, <1>5, HostMoves DEF IInv, Registers
  <2>2. ToWrite' = ToWrite
    BY <2>1 DEF ToWrite
  <2>3. waddr' = ToWrite[1]
    <3>1. waddr' = IF aw_hs(w) THEN ToWrite[1] ELSE waddr
      BY DEF Clock, WriteChannel
    <3>2. ~aw_hs(w) => wstate = "WRDATA"
      BY <1>5, <2>1, HostMoves DEF aw_hs, IInv, Registers
    <3> QED
      BY <3>1, <3>2 DEF IInv, Bus
  <2> QED
    BY <2>2, <2>3
<1> QED
  BY <1>2, <1>3, <1>4, <1>5 DEF Bus

\* Every edge keeps what is said of what the host knows of its run.
LEMMA KnowsStep ==
  ASSUME WellUsed, IInv, NEW w \in BOOLEAN, NEW r \in BOOLEAN, NEW c \in BOOLEAN, Clock(w, r, c)
  PROVE  Knows'
<1>1. host \in {"gie", "ier", "go", "ack"} \/ host \in {"poll", "irq"}
  BY DEF IInv, Registers
<1>2. Idling /\ ~Starts(w) => Idling'
  BY PhaseStep
<1>3. ap_idle => Idling
  BY DEF ap_idle, ap_start, IInv, Phase, Starting, Running, Ending
<1>4. ~Pending' \/ host' = "ack" => Idling'
  <2>1. CASE host \in {"gie", "ier", "go", "ack"}
    BY <1>2, <2>1, HostMoves DEF IInv, Registers, Knows, Pending, Starts
  <2>2. CASE host \in {"poll", "irq"}
    <3>1. ~Starts(w)
      BY <2>2 DEF Starts
    <3>2. host = "irq" /\ rstate = "RDDATA" => Idling
      BY DEF IInv, Interrupts
    <3>3. host = "poll" /\ rstate = "RDDATA" /\ 2 \in rdata => Idling
      BY DEF IInv, Knows
    <3> QED
      BY <1>2, <2>2, <3>1, <3>2, <3>3, HostMoves DEF Pending
  <2> QED
    BY <1>1, <2>1, <2>2
<1>5. host' = "poll" => wait' = "idle" /\ (rstate' = "RDDATA" /\ 2 \in rdata' => Idling')
  <2>1. CASE host \in {"gie", "ier", "go", "ack"}
    BY <2>1, HostMoves DEF IInv, Registers
  <2>2. CASE host \in {"poll", "irq"}
    <3>1. ~Starts(w)
      BY <2>2 DEF Starts
    <3>2. 2 \in Register("AP_CTRL") => ap_idle
      BY DEF Register
    <3> QED
      BY <1>2, <1>3, <2>2, <3>1, <3>2, HostMoves DEF IInv, Knows, Registers
  <2> QED
    BY <1>1, <2>1, <2>2
<1>6. host' \in {"gie", "ier", "irq", "ack"} => wait' = "irq"
  BY <1>1, HostMoves DEF IInv, Knows
<1>7. asked' = IF Pending' THEN reported' + 1 ELSE reported'
  <2>1. asked' = IF Starts(w) THEN asked + 1 ELSE asked
    BY WrittenBits DEF Clock, Counting, Count
  <2>2. reported' = IF host \in {"poll", "ack"} /\ host' = "go" THEN reported + 1 ELSE reported
    BY DEF Clock, Counting, Count
  <2>3. CASE host \in {"gie", "ier", "go", "ack"}
    BY <2>1, <2>2, <2>3, HostMoves DEF IInv, Registers, Counts, Knows, Pending, Starts
  <2>4. CASE host \in {"poll", "irq"}
    BY <2>1, <2>2, <2>4, HostMoves DEF IInv, Registers, Counts, Knows, Pending, Starts
  <2> QED
    BY <1>1, <2>3, <2>4
<1>8. ~int_auto_restart'
  BY WrittenBits DEF Clock, AutoRestartRegister, IInv, Knows
<1> QED
  BY <1>4, <1>5, <1>6, <1>7, <1>8 DEF Knows

\* The interrupt registers at an edge: the end of a run raises the enabled bits, the
\* host's acknowledgement takes them away.
LEMMA InterruptMoves ==
  ASSUME WellUsed, IInv, NEW w \in BOOLEAN, NEW r \in BOOLEAN, NEW c \in BOOLEAN, Clock(w, r, c)
  PROVE  /\ int_gie' = IF w /\ wstate = "WRDATA" /\ host = "gie" THEN TRUE ELSE int_gie
         /\ int_ier' = IF w /\ wstate = "WRDATA" /\ host = "ier" THEN {0, 1} ELSE int_ier
         /\ int_isr' = IF Ending THEN int_ier ELSE IF Acks(w) THEN {} ELSE int_isr
<1>1. int_gie' = IF w /\ wstate = "WRDATA" /\ host = "gie" THEN TRUE ELSE int_gie
  <2>1. host = "gie" => ToWrite[2] = {0}
    BY DEF ToWrite
  <2>2. w_hs(w) /\ waddr = "GIE" <=> w /\ wstate = "WRDATA" /\ host = "gie"
    BY WrittenBits DEF Clock
  <2>3. int_gie' = IF w_hs(w) /\ waddr = "GIE" THEN 0 \in ToWrite[2] ELSE int_gie
    BY DEF Clock, EnableRegisters
  <2> QED
    BY <2>1, <2>2, <2>3
<1>2. int_ier' = IF w /\ wstate = "WRDATA" /\ host = "ier" THEN {0, 1} ELSE int_ier
  <2>1. host = "ier" => ToWrite[2] = {0, 1}
    BY DEF ToWrite
  <2>2. w_hs(w) /\ waddr = "IER" <=> w /\ wstate = "WRDATA" /\ host = "ier"
    BY WrittenBits DEF Clock
  <2>3. int_ier' = IF w_hs(w) /\ waddr = "IER" THEN ToWrite[2] \cap {0, 1} ELSE int_ier
    BY DEF Clock, EnableRegisters
  <2> QED
    BY <2>1, <2>2, <2>3
<1>3. Raised = IF Ending THEN int_ier ELSE {}
  <2>1. ap_done <=> Ending
    BY DEF ap_done, cmd_done, IInv, Phase, Idling, Starting, Running, Ending
  <2>2. ap_ready <=> Ending
    BY <2>1 DEF ap_ready
  <2> QED
    BY <2>1, <2>2 DEF Raised, IInv, Registers
<1>4. int_isr' = Raised \cup {b \in {0, 1} : (b \in int_isr) # (b \in Written("ISR", w))}
  BY DEF Clock, StatusRegister
<1>5. Written("ISR", w) = IF Acks(w) THEN rdata ELSE {}
  BY WrittenBits DEF Clock
<1>6. Acks(w) => int_isr = rdata
  BY DEF Acks, IInv, Interrupts
<1>7. Ending => int_isr = {} /\ ~Acks(w)
  BY DEF Acks, IInv, Interrupts, Knows, Idling, Ending
<1>8. int_isr \subseteq {0, 1} /\ int_ier \subseteq {0, 1}
  BY DEF IInv, Registers
<1>9. CASE Ending
  <2>1. {b \in {0, 1} : (b \in int_isr) # (b \in Written("ISR", w))} = {}
    BY <1>5, <1>7, <1>9
  <2> QED
    BY <1>1, <1>2, <1>3, <1>4, <1>9, <2>1
<1>10. CASE ~Ending
  <2>1. {b \in {0, 1} : (b \in int_isr) # (b \in Written("ISR", w))} = IF Acks(w) THEN {} ELSE int_isr
    <3>1. CASE Acks(w)
      BY <1>5, <1>6, <3>1
    <3>2. CASE ~Acks(w)
      <4>1. \A b \in {0, 1} : (b \in int_isr) # (b \in Written("ISR", w)) <=> b \in int_isr
        BY <1>5, <3>2
      <4> QED
        BY <1>8, <3>2, <4>1
    <3> QED
      BY <3>1, <3>2
  <2> QED
    BY <1>1, <1>2, <1>3, <1>4, <1>10, <2>1
<1> QED
  BY <1>9, <1>10

\* Every edge keeps what is said of the interrupt line and its registers.
LEMMA InterruptsStep ==
  ASSUME WellUsed, IInv, NEW w \in BOOLEAN, NEW r \in BOOLEAN, NEW c \in BOOLEAN, Clock(w, r, c)
  PROVE  Interrupts'
<1>1. host \in {"gie", "ier", "go", "ack"} \/ host \in {"poll", "irq"}
  BY DEF IInv, Registers
<1>2. Ending => ~Idling
  BY DEF Ending, Idling
<1>3. Ending => Pending /\ host # "ack"
  BY <1>2 DEF IInv, Knows
<1>4. Idling' => Idling \/ Ending
  <2>1. ~Starting' \/ ~Idling'
    BY DEF Starting, Idling
  <2>2. ~Running' \/ ~Idling'
    BY DEF Running, Idling
  <2>3. ~Ending' \/ ~Idling'
    BY DEF Ending, Idling
  <2> QED
    BY <2>1, <2>2, <2>3, PhaseStep DEF IInv, Phase
<1>5. (Idling /\ ~Starts(w)) \/ Ending => Idling'
  BY PhaseStep
<1>6. int_ier' \in {{}, {0, 1}}
  BY InterruptMoves DEF IInv, Registers
<1>7. CASE Ending
  <2>1. int_isr' = int_ier /\ int_ier' = int_ier /\ int_gie' = int_gie
    BY <1>3, <1>7, InterruptMoves DEF Pending
  <2>2. wait = "irq" => int_ier = {0, 1}
    BY <1>3, <1>7 DEF Pending, IInv, Interrupts
  <2>3. ~(host = "irq" /\ rstate = "RDDATA")
    BY <1>2, <1>7 DEF IInv, Interrupts
  <2>4. ~(host = "poll" /\ rstate = "RDDATA" /\ 2 \in rdata)
    BY <1>2, <1>7 DEF IInv, Knows
  <2>5. Pending' /\ host' # "ack"
    BY <1>1, <1>3, <1>7, <2>3, <2>4, HostMoves DEF Pending
  <2>6. host = "irq" => ~r
    BY <1>2, <1>7 DEF Clock, Reading, interrupt, IInv, Interrupts
  <2>7. wait' = wait /\ (wait = "idle" => int_ier = {})
    BY HostMoves DEF IInv, Interrupts
  <2>8. wait = "irq" => int_gie
    BY <1>3, <1>7 DEF Pending, IInv, Interrupts
  <2>9. host' = "irq" => rstate' # "RDDATA"
    BY <1>1, <2>3, <2>6, HostMoves DEF IInv, Registers
  <2> QED
    BY <1>3, <1>5, <1>7, <2>1, <2>2, <2>5, <2>7, <2>8, <2>9 DEF Interrupts
<1>8. CASE ~Ending
  <2>1. int_isr' = IF Acks(w) THEN {} ELSE int_isr
    BY <1>8, InterruptMoves
  <2>2. CASE host \in {"gie", "ier", "go", "ack"}
    <3>1. wait' = "idle" => int_ier' = {} /\ int_isr' = {}
      BY <2>1, <2>2, HostMoves, InterruptMoves DEF IInv, Interrupts, Knows
    <3>2. int_isr' # {} => Idling' /\ Pending'
      BY <1>5, <2>1, <2>2, HostMoves DEF Pending, Starts, Acks, IInv, Interrupts, Registers
    <3>3. host' = "irq" => rstate' # "RDDATA"
      BY <2>2, HostMoves
    <3>4. host' = "ack" => int_isr' = IF wstate' = "WRRESP" THEN {} ELSE rdata'
      BY <2>1, <2>2, HostMoves DEF Acks, IInv, Interrupts, Registers
    <3>5. /\ wait' = "irq" /\ (host' \notin {"gie", "ier"} \/ (host' = "ier" /\ wstate' = "WRRESP")) => int_ier' = {0, 1}
          /\ wait' = "irq" /\ (host' # "gie" \/ wstate' = "WRRESP") => int_gie'
      BY <2>2, HostMoves, InterruptMoves DEF IInv, Interrupts, Registers
    <3>6. wait' = "irq" /\ Pending' /\ host' # "ack" /\ Idling' => int_isr' # {}
      BY <1>4, <1>8, <2>1, <2>2, HostMoves, PhaseStep DEF Pending, Starts, Acks, IInv, Interrupts, Registers, Idling, Starting
    <3> QED
      BY <3>1, <3>2, <3>3, <3>4, <3>5, <3>6 DEF Interrupts
  <2>3. CASE host \in {"poll", "irq"}
    <3>1. ~Starts(w) /\ int_isr' = int_isr /\ int_ier' = int_ier /\ int_gie' = int_gie
      BY <2>1, <2>3, InterruptMoves DEF Starts, Acks
    <3>2. host = "irq" /\ r => int_isr # {}
      BY DEF Clock, Reading, interrupt
    <3> QED
      BY <1>4, <1>5, <1>8, <2>3, <3>1, <3>2, HostMoves DEF Pending, IInv, Interrupts, Registers, Knows
  <2> QED
    BY <1>1, <2>2, <2>3
<1> QED
  BY <1>7, <1>8

-----------------------------------------------------------------------------
(***************************************************************************)
(* The invariant, and what follows from it.                                *)
(***************************************************************************)
LEMMA StepIInv == WellUsed /\ IInv /\ [Next]_vars => IInv'
<1> SUFFICES ASSUME WellUsed, IInv, [Next]_vars PROVE IInv'
  OBVIOUS
<1>1. ASSUME NEW w \in BOOLEAN, NEW r \in BOOLEAN, NEW c \in BOOLEAN, Clock(w, r, c) PROVE IInv'
  <2>1. Counts'
    BY <1>1 DEF Clock, Counting, Count, IInv, Counts
  <2>2. host \in {"gie", "ier", "go", "ack"} \/ host \in {"poll", "irq"}
    BY DEF IInv, Registers
  <2>3. /\ wstate' \in {"WRIDLE", "WRDATA", "WRRESP"} /\ rstate' \in {"RDIDLE", "RDDATA"}
        /\ host' \in {"gie", "ier", "go", "poll", "irq", "ack"} /\ wait' \in {"idle", "irq"}
    BY <1>1, <2>2, HostMoves DEF IInv, Registers
  <2>4. int_gie' \in BOOLEAN /\ int_isr' \subseteq {0, 1} /\ int_ier' \in {{}, {0, 1}}
    BY <1>1, InterruptMoves DEF IInv, Registers
  <2>6. Registers'
    BY <2>3, <2>4 DEF Registers
  <2>7. Phase'
    <3>1. Idling /\ Starts(w) => Starting'
      BY <1>1, PhaseStep
    <3> QED
      BY <1>1, <3>1, PhaseStep DEF IInv, Phase
  <2> QED
    BY <1>1, <2>1, <2>6, <2>7, BusStep, KnowsStep, InterruptsStep DEF IInv
<1>2. ASSUME UNCHANGED vars PROVE IInv'
  <2>1. /\ UNCHANGED <<wstate, waddr, rstate, rdata>>
        /\ UNCHANGED <<int_ap_start, int_ap_done_q, int_auto_restart, int_gie, int_ier, int_isr>>
        /\ UNCHANGED <<ap_start_q, ap_is_busy, ap_done_r, started, core, host, wait>>
        /\ UNCHANGED <<asked, ran, finished, reported>>
    BY <1>2 DEF vars, busVars, csrVars, kernelVars, hostVars, countVars
  <2>2. Counts' /\ Registers'
    BY <2>1 DEF IInv, Counts, Registers
  <2>3. Bus'
    BY <2>1 DEF IInv, Bus, ToWrite
  <2>4. Phase' /\ (Idling <=> Idling') /\ (Pending <=> Pending')
    BY <2>1 DEF IInv, Phase, Idling, Starting, Running, Ending, Pending
  <2>5. Knows' /\ Interrupts'
    BY <2>1, <2>4 DEF IInv, Knows, Interrupts
  <2> QED
    BY <2>2, <2>3, <2>4, <2>5 DEF IInv
<1> QED
  BY <1>1, <1>2 DEF Next

\* The inductive invariant holds.
LEMMA IInvHolds == WellUsed /\ Spec => [](WellUsed /\ IInv)
<1>1. WellUsed /\ Init => WellUsed /\ IInv
  BY InitIInv
<1>2. (WellUsed /\ IInv) /\ [Next]_vars => (WellUsed /\ IInv)'
  BY StepIInv DEF WellUsed
<1> QED
  BY <1>1, <1>2, PTL DEF Spec

\* What TypeOK says beyond IInv.
Bits ==
  /\ waddr \in Address /\ rdata \subseteq Bit
  /\ int_ap_start \in BOOLEAN /\ int_ap_done_q \in BOOLEAN /\ int_auto_restart \in BOOLEAN
  /\ ap_start_q \in BOOLEAN /\ ap_is_busy \in BOOLEAN /\ ap_done_r \in BOOLEAN /\ started \in BOOLEAN
  /\ wait \in Waits /\ asked =< MaxRuns

\* Every edge keeps the types.
LEMMA StepBits == WellUsed /\ IInv /\ Bits /\ [Next]_vars => Bits'
<1> SUFFICES ASSUME WellUsed, IInv, Bits, [Next]_vars PROVE Bits'
  OBVIOUS
<1>1. ASSUME NEW w \in BOOLEAN, NEW r \in BOOLEAN, NEW c \in BOOLEAN, Clock(w, r, c) PROVE Bits'
  <2>1. waddr' \in Address
    <3>1. aw_hs(w) => ToWrite[1] \in Address
      <4>1. w => host \in {"gie", "ier", "go", "ack"}
        BY <1>1 DEF Clock, Writing
      <4> QED
        BY <4>1 DEF aw_hs, ToWrite, Address
    <3> QED
      BY <1>1, <3>1 DEF Clock, WriteChannel, Bits
  <2>2. rdata' \subseteq Bit
    <3>1. Register("AP_CTRL") \subseteq Bit
      BY DEF Register
    <3>2. int_isr \subseteq Bit
      BY DEF IInv, Registers, Bit
    <3>3. host \in {"gie", "ier", "go", "ack"} \/ host \in {"poll", "irq"}
      BY DEF IInv, Registers
    <3> QED
      BY <1>1, <3>1, <3>2, <3>3, HostMoves DEF Bits
  <2>3. int_ap_start' \in BOOLEAN /\ int_ap_done_q' \in BOOLEAN /\ int_auto_restart' \in BOOLEAN
    <3>1. int_ap_start' \in BOOLEAN
      BY <1>1, Zenon DEF Clock, StartRegister
    <3>2. int_ap_done_q' \in BOOLEAN
      BY <1>1, Zenon DEF Clock, DoneRegister
    <3>3. int_auto_restart' \in BOOLEAN
      <4>1. CASE w_hs(w) /\ waddr = "AP_CTRL"
        <5>1. int_auto_restart' = (7 \in ToWrite[2])
          BY <1>1, <4>1, Zenon DEF Clock, AutoRestartRegister
        <5>2. (7 \in ToWrite[2]) = TRUE \/ (7 \in ToWrite[2]) = FALSE
          OBVIOUS
        <5>3. int_auto_restart' = TRUE \/ int_auto_restart' = FALSE
          BY <5>1, <5>2, Zenon
        <5> QED
          BY <5>3
      <4>2. CASE ~(w_hs(w) /\ waddr = "AP_CTRL")
        BY <1>1, <4>2 DEF Clock, AutoRestartRegister, Bits
      <4> QED
        BY <4>1, <4>2
    <3> QED
      BY <3>1, <3>2, <3>3
  <2>4. ap_start_q' \in BOOLEAN /\ ap_is_busy' \in BOOLEAN /\ ap_done_r' \in BOOLEAN /\ started' \in BOOLEAN
    BY <1>1 DEF Clock, BlockControl, BusyNext, ap_start, cmd_done, Bits
  <2>5. asked' =< MaxRuns
    <3>1. asked' = IF Starts(w) THEN asked + 1 ELSE asked
      BY <1>1, WrittenBits DEF Clock, Counting, Count
    <3>2. Starts(w) => asked < MaxRuns
      BY DEF Starts, IInv, Bus
    <3> QED
      BY <3>1, <3>2, MaxRunsAssumption DEF Bits, IInv, Counts
  <2>6. wait' \in Waits
    BY <1>1 DEF Clock, Bits
  <2> QED
    BY <2>1, <2>2, <2>3, <2>4, <2>5, <2>6 DEF Bits
<1>2. CASE UNCHANGED vars
  BY <1>2 DEF vars, busVars, csrVars, kernelVars, hostVars, countVars, Bits
<1> QED
  BY <1>1, <1>2 DEF Next

\* However many runs: every register holds a value of its type, and no count passes the
\* number of starts the host asks for.
THEOREM TypeCorrect == WellUsed /\ Spec => []TypeOK
<1>1. Init => Bits
  <2> SUFFICES ASSUME Init PROVE Bits
    OBVIOUS
  <2>1. waddr \in Address /\ rdata \subseteq Bit /\ wait \in Waits /\ asked =< MaxRuns
    BY MaxRunsAssumption DEF Init, Address
  <2> QED
    BY <2>1, Zenon DEF Init, Bits
<1>2. IInv /\ Bits => TypeOK
  <2> SUFFICES ASSUME IInv, Bits PROVE TypeOK
    OBVIOUS
  <2>1. asked \in 0 .. MaxRuns /\ ran \in 0 .. MaxRuns /\ finished \in 0 .. MaxRuns
    BY MaxRunsAssumption DEF IInv, Bits, Counts, Phase, Idling, Starting, Running, Ending
  <2>2. reported \in 0 .. MaxRuns
    BY <2>1, MaxRunsAssumption DEF IInv, Counts, Knows
  <2>3. core \in {"idle", "running", "done"}
    BY DEF IInv, Phase, Idling, Starting, Running, Ending
  <2>4. int_ier \in SUBSET {0, 1} /\ int_isr \in SUBSET {0, 1} /\ int_gie \in BOOLEAN
    BY DEF IInv, Registers
  <2> QED
    BY <2>1, <2>2, <2>3, <2>4 DEF TypeOK, IInv, Bits, Registers
<1> QED
  BY <1>1, <1>2, StepBits, IInvHolds, PTL DEF Spec

\* However many runs the host asks for: while the kernel says it is idle, the core is
\* idle and every run asked for is over (kernel.sv:1019-1027).
THEOREM IdleCorrect == WellUsed /\ Spec => []IdleIsIdle
<1>1. IInv => IdleIsIdle
  BY DEF IInv, Phase, Idling, Starting, Running, Ending, IdleIsIdle, ap_idle, ap_start
<1> QED
  BY <1>1, IInvHolds, PTL

\* However many runs: a host that waits for the interrupt of a run that is over
\* finds the line high (csrs.sv:534-558).
THEOREM InterruptCorrect == WellUsed /\ Spec => []InterruptNotLost
<1>1. IInv => InterruptNotLost
  BY DEF IInv, Counts, Phase, Knows, Interrupts, Pending, Idling, Starting, Running, Ending,
         InterruptNotLost, interrupt
<1> QED
  BY <1>1, IInvHolds, PTL

-----------------------------------------------------------------------------
(***************************************************************************)
(* Refinement: every clock edge is a step of KernelCommand or none.        *)
(***************************************************************************)

\* The host asks, the core runs and finishes and the host hears of it, one thing at an
\* edge and in the order KernelCommand promises, however many runs there are.
THEOREM CommandSafe == WellUsed /\ Spec => Command!Init /\ [][Command!Next]_<<asked, ran, finished, reported>>
<1>1. Init => Command!Init
  BY DEF Init, Command!Init
<1>2. WellUsed /\ IInv /\ [Next]_vars => [Command!Next]_<<asked, ran, finished, reported>>
  <2> SUFFICES ASSUME WellUsed, IInv, [Next]_vars PROVE [Command!Next]_<<asked, ran, finished, reported>>
    OBVIOUS
  <2>1. CASE UNCHANGED vars
    BY <2>1 DEF vars, countVars
  <2>2. ASSUME NEW w \in BOOLEAN, NEW r \in BOOLEAN, NEW c \in BOOLEAN, Clock(w, r, c)
        PROVE  [Command!Next]_<<asked, ran, finished, reported>>
    <3>1. /\ asked' = IF Starts(w) THEN asked + 1 ELSE asked
          /\ ran' = IF core = "idle" /\ core' = "running" THEN ran + 1 ELSE ran
          /\ finished' = IF core = "running" /\ core' = "done" THEN finished + 1 ELSE finished
          /\ reported' = IF host \in {"poll", "ack"} /\ host' = "go" THEN reported + 1 ELSE reported
      BY <2>2, WrittenBits DEF Clock, Counting, Count
    <3>2. host \in {"poll", "ack"} /\ host' = "go" => Idling /\ Pending /\ ~Starts(w)
      <4>1. host = "poll" /\ host' = "go" => rstate = "RDDATA" /\ 2 \in rdata
        BY <2>2, HostMoves
      <4> QED
        BY <4>1 DEF IInv, Knows, Pending, Starts
    <3>3. Starts(w) => Idling /\ ~Pending /\ asked < MaxRuns
      BY DEF Starts, IInv, Bus, Knows, Pending
    <3>4. asked = IF Pending THEN reported + 1 ELSE reported
      BY DEF IInv, Knows
    <3>5. asked \in Nat /\ ran \in Nat /\ finished \in Nat /\ reported \in Nat
      BY DEF IInv, Counts
    <3>6. Idling => core' = "idle"
      BY <2>2, PhaseStep DEF Idling, Starting
    <3>7. CASE Starts(w)
      <4>1. Command!Ask
        BY <3>1, <3>2, <3>3, <3>4, <3>7, <3>6 DEF Command!Ask, Idling
      <4> QED
        BY <4>1 DEF Command!Next
    <3>8. CASE host \in {"poll", "ack"} /\ host' = "go"
      <4>1. Command!Report
        BY <3>1, <3>2, <3>4, <3>5, <3>8, <3>6 DEF Command!Report, Idling
      <4> QED
        BY <4>1 DEF Command!Next
    <3>9. CASE ~Starts(w) /\ ~(host \in {"poll", "ack"} /\ host' = "go")
      <4>1. CASE core = "idle" /\ core' = "running"
        <5>1. Starting
          BY <2>2, <4>1, <3>9, PhaseStep DEF IInv, Phase, Idling, Running, Ending
        <5>2. Command!Run
          BY <3>1, <3>5, <3>9, <4>1, <5>1 DEF Command!Run, Starting
        <5> QED
          BY <5>2 DEF Command!Next
      <4>2. CASE core = "running" /\ core' = "done"
        <5>1. Running
          BY <4>2 DEF IInv, Phase, Idling, Starting, Ending
        <5>2. Command!Finish
          BY <3>1, <3>5, <3>9, <4>2, <5>1 DEF Command!Finish, Running
        <5> QED
          BY <5>2 DEF Command!Next
      <4> QED
        BY <3>1, <3>9, <4>1, <4>2
    <3> QED
      BY <3>7, <3>8, <3>9
  <2> QED
    BY <2>1, <2>2 DEF Next
<1> QED
  BY <1>1, <1>2, IInvHolds, PTL DEF Spec
=============================================================================
