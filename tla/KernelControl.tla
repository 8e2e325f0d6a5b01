--------------------------- MODULE KernelControl ---------------------------
(***************************************************************************)
(* The control registers of the kernel (src/hbm/csrs.sv) and the block     *)
(* control logic around the core (src/hbm/kernel.sv), between a host on    *)
(* the AXI4-Lite port and the core. One step is one clock edge: every      *)
(* register takes its next value at once, from what the wires carry in     *)
(* the cycle before it. A register of flags is the set of its set bits.    *)
(***************************************************************************)
EXTENDS Naturals, FiniteSets

CONSTANTS
  MaxRuns,  \* bound on the starts the host asks for
  Waits,    \* how a host may wait: polling ap_done, polling ap_idle, by interrupt
  AutoRestart  \* whether the host sets auto_restart

ASSUME MaxRunsAssumption == MaxRuns \in Nat \ {0}
ASSUME WaitsAssumption == Waits \subseteq {"done", "idle", "irq"} /\ Waits # {}
ASSUME AutoRestartAssumption == AutoRestart \in BOOLEAN

VARIABLES
  \* csrs.sv
  wstate, waddr, rstate, rdata, int_ap_start, int_ap_done_q, int_auto_restart,
  int_gie, int_ier, int_isr,
  \* kernel.sv
  ap_start_q, ap_is_busy, ap_done_r, started,
  \* the core: idle, running, or pulsing cmd_done
  core,
  \* the host: where its program is and how it waits
  host, wait,
  \* how many runs were asked for, started, finished and reported to the host
  asked, ran, finished, reported

busVars    == <<wstate, waddr, rstate, rdata>>
csrVars    == <<int_ap_start, int_ap_done_q, int_auto_restart, int_gie, int_ier, int_isr>>
kernelVars == <<ap_start_q, ap_is_busy, ap_done_r, started>>
hostVars   == <<host, wait>>
countVars  == <<asked, ran, finished, reported>>
vars == <<busVars, csrVars, kernelVars, core, hostVars, countVars>>

Address == {"AP_CTRL", "GIE", "IER", "ISR"}
Bit     == {0, 1, 2, 3, 7}

----------------------------------------------------------------------------
\* Wires.

cmd_done       == core = "done"
ap_start       == int_ap_start
ap_start_pulse == ap_start /\ ~ap_start_q
\* Mutant: the idle flag looks at ap_is_busy only, which ap_start sets one edge later.
ap_idleLate    == ~ap_is_busy
ap_idle        == ~ap_start /\ ~ap_is_busy
ap_done        == cmd_done /\ ~ap_done_r
ap_ready       == ap_done
int_ap_done    == ap_done \/ int_ap_done_q
interrupt      == int_gie /\ int_isr # {}

----------------------------------------------------------------------------
\* The host. It sets the interrupts up once, then asks for runs one after the
\* other and waits for each; by interrupt it reads the status register and
\* writes it back to toggle the bits it found.

\* What the host has to write: the address and the bits.
ToWrite ==
  CASE host = "gie" -> <<"GIE", {0}>>
    [] host = "ier" -> <<"IER", {0, 1}>>
    [] host = "go"  -> <<"AP_CTRL", {0} \cup (IF AutoRestart THEN {7} ELSE {})>>
    [] host = "ack" -> <<"ISR", rdata>>

Writing == \/ host \in {"gie", "ier", "ack"}
           \/ host = "go" /\ (asked < MaxRuns \/ wstate # "WRIDLE")

\* What the host has to read.
ToRead == IF host = "poll" THEN "AP_CTRL" ELSE "ISR"

Reading == host = "poll" \/ (host = "irq" /\ interrupt)

\* The bit of AP_CTRL that ends a poll.
Awaited == IF wait = "done" THEN 1 ELSE 2

----------------------------------------------------------------------------
\* The two channels of csrs.sv. `w` and `r` say whether the host drives the
\* handshake the channel stands at in this cycle.

aw_hs(w) == w /\ wstate = "WRIDLE"
w_hs(w)  == w /\ wstate = "WRDATA"
b_hs(w)  == w /\ wstate = "WRRESP"
ar_hs(r) == r /\ rstate = "RDIDLE"
r_hs(r)  == r /\ rstate = "RDDATA"

\* The bits a write puts in the register at address a, none when there is no write.
Written(a, w) == IF w_hs(w) /\ waddr = a THEN ToWrite[2] ELSE {}

\* Mutant: after a response the write channel goes through its reset state.
WriteChannelReset(w) ==
  /\ wstate' = CASE aw_hs(w) -> "WRDATA"
                 [] w_hs(w)  -> "WRRESP"
                 [] b_hs(w)  -> "WRRESET"
                 [] OTHER    -> wstate
  /\ waddr' = IF aw_hs(w) THEN ToWrite[1] ELSE waddr

WriteChannel(w) ==
  /\ wstate' = CASE aw_hs(w) -> "WRDATA"
                 [] w_hs(w)  -> "WRRESP"
                 [] b_hs(w)  -> "WRIDLE"
                 [] OTHER    -> wstate
  /\ waddr' = IF aw_hs(w) THEN ToWrite[1] ELSE waddr

\* The value of the register at address a.
Register(a) ==
  CASE a = "AP_CTRL" -> {b \in Bit : \/ b = 0 /\ int_ap_start
                                     \/ b = 1 /\ int_ap_done
                                     \/ b = 2 /\ ap_idle
                                     \/ b = 3 /\ ap_ready
                                     \/ b = 7 /\ int_auto_restart}
    [] a = "GIE" -> IF int_gie THEN {0} ELSE {}
    [] a = "IER" -> int_ier
    [] a = "ISR" -> int_isr

ReadChannel(r) ==
  /\ rstate' = CASE ar_hs(r) -> "RDDATA"
                 [] r_hs(r)  -> "RDIDLE"
                 [] OTHER    -> rstate
  /\ rdata' = IF ar_hs(r) THEN Register(ToRead) ELSE rdata

----------------------------------------------------------------------------
\* The registers of csrs.sv.

\* A start written wins over the handshake that clears it.
StartRegister(w) ==
  int_ap_start' = \/ 0 \in Written("AP_CTRL", w)
                  \/ IF ap_ready THEN int_auto_restart ELSE int_ap_start

\* An ap_done of this cycle wins over the read that clears the flag.
DoneRegister(r) ==
  int_ap_done_q' = (ap_done \/ (int_ap_done_q /\ ~(ar_hs(r) /\ ToRead = "AP_CTRL")))

AutoRestartRegister(w) ==
  int_auto_restart' = IF w_hs(w) /\ waddr = "AP_CTRL" THEN 7 \in ToWrite[2]
                                                      ELSE int_auto_restart

EnableRegisters(w) ==
  /\ int_gie' = IF w_hs(w) /\ waddr = "GIE" THEN 0 \in ToWrite[2] ELSE int_gie
  /\ int_ier' = IF w_hs(w) /\ waddr = "IER" THEN ToWrite[2] \cap {0, 1} ELSE int_ier

\* Mutant: the status bits wait for the second cycle of a done that lasts one.
RaisedLate == IF cmd_done /\ ap_done_r THEN int_ier ELSE {}

\* The interrupt bits an event of this cycle sets.
Raised == {b \in int_ier : (b = 0 /\ ap_done) \/ (b = 1 /\ ap_ready)}

\* Mutant: writing a one sets the bit instead of toggling it.
StatusRegisterSets(w) ==
  int_isr' = Raised \cup int_isr \cup (Written("ISR", w) \cap {0, 1})

\* A bit an event sets is set; the others are toggled by what the host writes.
StatusRegister(w) ==
  int_isr' = Raised \cup {b \in {0, 1} : (b \in int_isr) # (b \in Written("ISR", w))}

----------------------------------------------------------------------------
\* The block control of kernel.sv.

BusyNext == ~ap_done /\ (ap_start \/ ap_is_busy)

BlockControl ==
  /\ ap_is_busy' = BusyNext
  /\ ap_done_r'  = cmd_done
  /\ ap_start_q' = ap_start
  /\ started'    = (~ap_done /\ (ap_start_pulse \/ started))

\* The core takes a start when idle, runs for any time, and pulses done for a cycle.
CoreStarts == core = "idle" /\ ap_start_pulse

CoreStep(c) ==
  core' = CASE CoreStarts                        -> "running"
            [] core = "running" /\ c           -> "done"
            [] core = "done"                   -> "idle"
            [] OTHER                           -> core

----------------------------------------------------------------------------
\* Where the host's program goes when the bus answers.

HostStep(w, r) ==
  host' = CASE b_hs(w) /\ host = "gie" -> "ier"
            [] b_hs(w) /\ host = "ier" -> "go"
            [] b_hs(w) /\ host = "go"  -> IF wait = "irq" THEN "irq" ELSE "poll"
            [] b_hs(w) /\ host = "ack" -> "go"
            [] r_hs(r) /\ host = "poll" /\ Awaited \in rdata -> "go"
            [] r_hs(r) /\ host = "irq" -> "ack"
            [] OTHER -> host

Count(n, event) == IF event THEN n + 1 ELSE n

\* A run is reported when the host leaves the loop or handler it waits in.
Counting(w) ==
  /\ asked'    = Count(asked, 0 \in Written("AP_CTRL", w))
  /\ ran'      = Count(ran, core = "idle" /\ core' = "running")
  /\ finished' = Count(finished, core = "running" /\ core' = "done")
  /\ reported' = Count(reported, host \in {"poll", "ack"} /\ host' = "go")

----------------------------------------------------------------------------
\* ARESET is tied low: the registers start from their initial values, and the channels have
\* left their reset states (WRRESET, RDRESET) at the first edge, before any host is there.
Init ==
  /\ wstate = "WRIDLE" /\ waddr = "AP_CTRL" /\ rstate = "RDIDLE" /\ rdata = {}
  /\ int_ap_start = FALSE /\ int_ap_done_q = FALSE /\ int_auto_restart = FALSE
  /\ int_gie = FALSE /\ int_ier = {} /\ int_isr = {}
  /\ ap_start_q = FALSE /\ ap_is_busy = FALSE /\ ap_done_r = FALSE /\ started = FALSE
  /\ core = "idle"
  /\ wait \in Waits
  /\ host = (IF wait = "irq" THEN "gie" ELSE "go")
  /\ asked = 0 /\ ran = 0 /\ finished = 0 /\ reported = 0

\* One clock edge: w and r, the host drives its write or read handshake; c, the
\* core ends its run.
Clock(w, r, c) ==
  /\ w => Writing
  /\ r => Reading
  /\ c => core = "running"
  /\ WriteChannel(w) /\ ReadChannel(r)
  /\ StartRegister(w) /\ DoneRegister(r) /\ AutoRestartRegister(w)
  /\ EnableRegisters(w) /\ StatusRegister(w)
  /\ BlockControl /\ CoreStep(c)
  /\ HostStep(w, r) /\ Counting(w)
  /\ UNCHANGED wait

HostWrites == \E r, c \in BOOLEAN : Clock(TRUE, r, c)
HostReads  == \E w, c \in BOOLEAN : Clock(w, TRUE, c)
CoreEnds   == \E w, r \in BOOLEAN : Clock(w, r, TRUE)

Next == \E w, r, c \in BOOLEAN : Clock(w, r, c)

\* The clock runs, the host drives the handshake it stands at, and the core,
\* once started, ends (RunFinishes of Relin).
Spec == /\ Init /\ [][Next]_vars
        /\ WF_vars(Next) /\ WF_vars(HostWrites) /\ WF_vars(HostReads) /\ WF_vars(CoreEnds)

----------------------------------------------------------------------------
\* Every register holds a value of its type.
TypeOK ==
  /\ wstate \in {"WRIDLE", "WRDATA", "WRRESP"} /\ waddr \in Address
  /\ rstate \in {"RDIDLE", "RDDATA"} /\ rdata \in SUBSET Bit
  /\ {int_ap_start, int_ap_done_q, int_auto_restart, int_gie} \subseteq BOOLEAN
  /\ int_ier \in SUBSET {0, 1} /\ int_isr \in SUBSET {0, 1}
  /\ {ap_start_q, ap_is_busy, ap_done_r, started} \subseteq BOOLEAN
  /\ core \in {"idle", "running", "done"}
  /\ host \in {"gie", "ier", "go", "poll", "irq", "ack"} /\ wait \in Waits
  /\ asked \in 0 .. MaxRuns /\ ran \in 0 .. MaxRuns
  /\ finished \in 0 .. MaxRuns /\ reported \in 0 .. MaxRuns

\* The idle flag of AP_CTRL tells the truth: when the kernel says idle, the core
\* is idle and every run asked for has been finished (kernel.sv derives the
\* flag from ap_start and ap_is_busy, not from the core).
IdleIsIdle == ap_idle => core = "idle" /\ asked = finished

\* An interrupt is not lost: while a host waits for it and the run it waits for is
\* over, the interrupt line is high, from the edge that ends ap_done on.
InterruptNotLost == host = "irq" /\ reported < finished => interrupt \/ core = "done"

Command == INSTANCE KernelCommand

\* A host that polls ap_idle or waits for the interrupt gets one run for every
\* start, and hears of its completion once and not before it; the run it asks
\* for is carried out and reported.
ImplementsCommand == Command!Spec

\* csrs.sv:82 and 103: ap_done is "Clear on Read", so that a host that polls it
\* learns of the completion of a run once, never of a run that still goes on.
DoneClearsOnRead == reported <= finished

\* csrs.sv:85 and 484, "clear on handshake/auto restart": with auto restart on,
\* the end of a run makes the core start again.
AutoRestarts == (int_auto_restart /\ core = "done") ~> (core = "running")
=============================================================================
