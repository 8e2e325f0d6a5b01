# Relin-FPGA in TLA+

TLA+ models, TLC runs and machine-checked proofs for the relinearization
accelerator of this repository: the core in `src/relin`, the HBM adapter and the
kernel control in `src/hbm`, the host program in `HBM_interface/src/host`, and the SystemC model of the AXI VIP
in `vivado_2023`. Paths below are relative to the repository. `PROJECT.json` lists
components, runs, the source lines of every definition, findings, hazards and theorems.

## 1. The system

Relinearization takes the third component ct2 of a CKKS/BFV ciphertext, given
modulo L primes, and folds it into ct0, ct1 with a key. The accelerator works in
L + 1 **rounds**, one per prime, the special prime first. In a round every residue
polynomial of ct2 is transformed (NTT) modulo the round's prime, multiplied with two
key polynomials and summed up in two accumulators; the sums are transformed back
and go to the final operation. In the special prime's round it keeps them; in
the others it subtracts what it kept, divides by the special prime, adds ct0, ct1 and
the two polynomials of the result are written to HBM.

| part | source | state | operations | talks to |
|---|---|---|---|---|
| main state machine | `relin.sv` | `state`, `ctr` (round) | start, load moduli, start p0, wait for the accumulators, the final operation, the writes | all units, by pulses |
| modulus loader | `relin_q_loader.v` | round counter, moduli of two groups of units | load_q_g1, load_q_g2 | main state machine, arithmetic units |
| control of p0 | `relin_cu_p0_ntt.sv` | state, round, polynomial | load table, polynomials of ct2, inverse table; intt_ready | port p0, NTT unit, accumulators |
| control of p1/p2 | `relin_cu_p1_p2.sv` | state, round, polynomial, two sticky request bits | load keys on p1 and p2, then ct0, ct1 on p1 | ports p1, p2; asked by results of the NTT unit |
| NTT unit, multiplexer | `relin_ntt_mux.sv`, `relin_ntt_wrapper.sv` | mode, table, polynomials in the pipeline | transform either way, route the result by mode | FIFOs, control of p1/p2 |
| FIFOs | `relin_fifo.sv` | two rings of FIFO_M polynomials | write, read; no full or empty test | multipliers, final operation |
| accumulators | `relin_accum_wrapper.sv`, `relin_accum.sv` | state, two counters, sticky start_read, sums | add, read 0, read 1 | NTT unit, main state machine |
| final operation | `relin_final_op_wrapper.sv`, `relin_final_op.sv` | counter, `last_q`, `offset_q`, kept polynomials | keep, combine | control of p3, main state machine |
| control of p3 | `relin_cu_out.sv` | state, round | write ct0, write ct1, done | port p3, main state machine |
| HBM adapter | `relin_hbm_adapter.sv`, `dma_rx.sv`, `dma_tx.sv` | per port a state machine and counters; per channel a DMA engine and a FIFO | stream a polynomial in or out in bursts on 8 channels | HBM over AXI, the core's ports |
| registers | `csrs.sv` | AP_CTRL, GIE, IER, ISR, two AXI4-Lite channels | read, write | host |
| block control | `kernel.sv` | `ap_start_q`, `ap_is_busy`, `ap_done_r`, `started` | start pulse, done, idle, ready | registers, core |
| host program | `HBM_interface/src/host/kernel.cpp` | vectors, `offset`, both sides of the buffers, files | settings, device, input files, fill HBM, readback test, run, results, files | registers, HBM, command line parser |
| command line parser | `cmdparser/cmdlineparser.cpp` | switches, shortcuts, default key | addSwitch, setDefaultKey, parse, value, isValid | host program |
| AXI VIP | `axi_vip_0/sysc/axi_vip.cpp`, `axi_vip_0/sim/axi_vip_0*.cpp` | sockets, stubs, bridges, transactor | constructors, before_end_of_elaboration, destructors | the test bench's master, another simulation |
| AXI bridge | `sim_ipc_aximm_slave.cpp`, `sim_ipc_aximm_master.cpp` | what is in the sockets and in the utils | aximm2ipc_send, aximm_resp_handler, ipc2aximm_receive, send_response | its twin in the other simulation |

**What is hard.** All units run at once and talk by one-cycle pulses that nobody
acknowledges: a pulse that arrives in the wrong state is lost and nothing retries. Five
units count the rounds separately. Streams cannot be held back once started: a
unit that starts counts K words whatever its neighbours do. HBM answers when it
likes, on every channel separately. The host looks at few of the results of the calls it makes, and its
two copies of every buffer agree only where it says so. The bridge's methods wait for events and never look again. In the registers, events of the core and of
the bus meet in one clock edge and a priority decides. Section 7 lists what has to be true and
is easy to get wrong; `PROJECT.json` "hazards" gives each one its line.

## 2. Modules

| module | role |
|---|---|
| `RelinData` | values on the data paths and what the arithmetic units make of them |
| `Relin` | the core, all units of `src/relin` composed |
| `RelinService` | what the core promises: the 2L results, in order, then done |
| `KernelControl` | registers, block control, host; the core is a box that takes a start and ends |
| `KernelCommand` | what the registers promise the host |
| `HbmReadPort`, `ReadPort` | p0, p1, p2 of the adapter with DMA and FIFOs; what the core counts on |
| `HbmWritePort`, `WritePort` | p3 likewise |
| `Accum` | the accumulators and their wrapper, cycle by cycle |
| `FinalOp` | the final operation and its wrapper, cycle by cycle |
| `HbmLayout` | where the host puts polynomials in HBM and where the adapter looks for them |
| `CmdLineParser` | the parser, and programs that use it |
| `HostProgram` | `main` and `test_kernel`, from the command line to the files; composes `CmdLineParser` and `HbmLayout` |
| `VipBridge` | the two ends of the AXI bridge between two simulations |
| `AxiVip` | the VIP's life: constructors, elaboration, simulation (`VipBridge`), destructors |
| `RelinRounds` | where the units stand in a round, and what the places of the data path then hold: the inductive invariants `Control` and `Data` |
| `RelinProofs` | theorems about the core: types, moduli and requests, control, data and refinement |
| `KernelProofs` | theorems about the registers |
| `HbmReadProofs`, `HbmWriteProofs` | theorems about the ports of the HBM adapter |
| `AccumProofs`, `FinalOpProofs` | theorems about `Accum` and `FinalOp` |
| `HostProofs` | theorems about `HostProgram`, the memory layout and `CmdLineParser` |
| `VipProofs` | theorems about `AxiVip` and `VipBridge` |
| `MC*` | the modules with the values TLC uses (in the `.cfg` files) |

### The core: `RelinData`, `Relin`
A polynomial is the *name* of what it holds (`<<"rlk", prime, residue>>`), and an
arithmetic unit is an operator on names that returns `Junk` when its operands do
not belong together: a key of another prime, a table of another mode, a sum with a product
missing. A control error anywhere thus ends as `Junk` in some register, and a right
run ends with `<<"out", prime, component>>` in HBM. The numbers, the NTT and
the multiplier are in submodules that this repository does not contain.

Variables keep the source's names (prefixed by the unit where two units share one). An action is a whole
event: what happens when the pulse is high, at every unit the wire reaches. So
`P1Valid` (first word on port p1) pops a FIFO and, by `p1_sel`, either feeds the
accumulator or the final operation, and with the latter moves `last_q`,
`offset_q`, the write port and the main state machine.

*Time.* A stream of K words is one action, at its `valid`. That is right as long as
what takes a fixed handful of cycles is over before what takes K cycles or an HBM access.
`Settled` says so: registers that change at the next edge whatever happens
change first. Five further guards stand for inequalities between cycle
counts that **no handshake enforces**; each is a named operator of `Relin`:

| guard | what it says | the code's reason | without it |
|---|---|---|---|
| `NttDrained` | tables are switched when the NTT unit is empty | the two waits of 4 * DEPTH cycles in `relin_cu_p0_ntt.sv` | `OperandsMatch` fails |
| `KeysKeepUp` | a key request is taken before the next result of the NTT unit | key and polynomial loads take about the same time, p0 starts first | `OperandsMatch` fails |
| `SumWritten` | a product is written back before the next one arrives | write-back lags by a fixed latency, keys come one after the other | `RunFinishes` fails |
| `ReadsOver` | the first word of an inverse transform comes after the reads that feed it | the NTT unit's latency exceeds K | `PortsAligned` fails |
| `WriteKeepsUp` | ct0 is written before ct1 is computed | ACC0_REN__ACC1_REN__DELAY and the load of ct1 | `ImplementsService` fails |

`SumWritten` is discharged by `Accum`: with at least ADD_LAT + 1 idle cycles between
two products (`GapAssumption`; port p1 leaves more than ten, its `done` alone comes ten cycles after
the last word) every product is counted before the next one comes.

The guards are the timing assumptions the design rests on; the models make them
explicit and show (last column, each was tried) that the design is wrong without any of them. That the
cycle counts satisfy the other four is not checked here (section 8). So four hazards are assumed away, not
caught: the request lost in `relin_cu_p1_p2.sv:98` and the writer that runs ahead in `relin_fifo.sv:31` (`KeysKeepUp`),
the `o_valid` nobody hears in `relin_cu_out.sv:83` (`WriteKeepsUp`) and the switch of `relin_ntt_mux.sv:100`
(`NttDrained`). The properties named beside them hold under the guard and say what else cannot go wrong there.

*Undriven registers.* `ctr_L_inc` and `ctr_L_rst` of `relin_final_op_wrapper.sv` are driven nowhere;
synthesis ties them to 0, so `ctr_L` stays 0 and `last_q`, once cleared, is set by a reset only.

### The registers: `KernelControl`
One step is one clock edge; all registers of `csrs.sv` and `kernel.sv` change at once. A
register of flags is the set of its set bits. The parameters of a step say
whether the host drives the handshake it stands at and whether the core ends. The host is what
XRT does for `kernel.cpp`'s start and `run.wait()`: write AP_CTRL, then poll
`ap_done`, poll `ap_idle`, or wait for the interrupt, read ISR and write it
back (constant `Waits`); it never starts a run before the one before is reported. Address and parameter registers
are storage and left out. `ARESET` is tied low in `kernel.sv`.

### The adapter: `HbmReadPort`, `HbmWritePort`
Also one step per clock edge: the port's state machine and counters, per channel the DMA
state machine, data register and FIFO, and the memory, which takes addresses and
gives or takes words whenever it likes. The unit behind a port takes (or gives) one word on
every channel in each of K cycles, which nothing can stop. A word is
`<<request, number>>`, so that gaps, repeats, words of a wrong burst or of the
request before are all visible. p0, p1 and p2 are the same logic and one module. K
and K/B are powers of two as in the code (`% K` is the width of the counter there).
The burst length is fixed when the port is built; the modules choose it from `Lens` in the initial state and never change it,
so that one run covers polynomials of many bursts and of one. `EarlyData` says whether a memory may take write data before its address.

### Inside the core: `Accum`, `FinalOp`
`Relin` takes an accumulator and the final operation for what they do to whole polynomials; these two
modules show that they do, word by word. One step is one clock edge. Delay lines and arithmetic
pipelines are sequences shifted by one place, the latencies are constants, and arithmetic builds terms
(`Sum(Sub(a, k), b)`), so that a word combined with a word of another index, polynomial or round is
visible. `Accum` has both accumulators, the product counters, `first`, the sticky request and the output
multiplexer; products come on each side at any distance from `Gap` on, the request for the sums at any time.
`FinalOp` has the delay lines of A, B, valid and offset, the BRAM with its write-back, `last_q` and `offset_q`; polynomials
follow each other immediately or later. Both are at the edge of what the code needs: with a gap smaller by
one, `CountsProducts` and `KeptWhole` fail, and so they do with polynomials as short as the write-back
(`K > ADD_LAT + 2`, `K > LAT_ADD + 1`; the real K is in the hundreds). The gap of `FinalOp`
lies between the special prime's round and the next one, which in `Relin` are a whole NTT apart; `FinalOp` gives one
run, as `last` is set by a reset only (finding 4).

### Memory layout: `HbmLayout`
The host's offsets are taken from `kernel.cpp`, the adapter's from its localparams and address expressions, each in its own
terms. The host writes constants chunk by chunk round the channels, live data
preprocessed and channel by channel; the adapter answers every request `relin_cu_p0_ntt` and
`relin_cu_p1_p2` can make, burst by burst, and writes the results in the order of `relin_cu_out`; the host
reads them, postprocesses them, and does its readback test. A buffer has a side of the host (`bo`) and one of the device (`hbm`); `Sync`
copies the range the code names, and only that. A word is `<<object, row, number>>`. Addresses count words of 32 bytes;
`POLY_CC` and `B` are powers of two in the code, so that its shifts by `LOG_*` are products. `PSI_N` = `POLY_N` as in
`kernel.cpp`, which reads the tables with `POLY_N`: another `PSI_N` would need that line changed.

### The host program: `CmdLineParser`, `HostProgram`
The parser goes through the arguments token by token; a token is its dashes and its text. Clients are the calls a program makes
before it parses: `main`'s, and others that use what `main` does not (toggles, a default key, a default key named with one dash, calls that are refused, a switch without a shortcut).
Of dashes the model tells none, one, two and three apart: `setDefaultKey` and `value` put two dashes before every name that does not start with `--` (`Dashed`), so that `-x` becomes `---x`.
`ParseRight` compares the result with the meaning of the command line as a whole (`Named`, `Options`, `Values`, `Stops`), which is stated without a parse.
`Texts` is what tokens may say; `CallsAssumption` and `ArgvsAssumption` ask for no more than that calls and arguments are made of tokens and that there is a program's name.
Two places are undefined behaviour: the null pointer behind the arguments becomes a string (`TakeValue`), and the shortcut made up for a
switch that comes without one is read from behind a literal (`NoShortcut`); in both the program may crash, in the second it may also go on.

`HostProgram` is `main` step by step: settings, device, xclbin, kernel, the seven sets of input files, buffers, `HbmLayout`'s moves, the files it
writes. An input file may be short or missing (`Disks`); a result file may fail to open, after any number of others; the device may give up
a run at any moment (`RunGivenUp`). A file is its lines, two for each word. What the code ignores the model ignores: parse's result, the status of
the reads, the state `run.wait` returns. So a success says less than it seems to, and `HostReadsRight`, `SuccessIsWhole` state what it does say: they describe the zeros of a short file
(`kernel.cpp:456`) and leave the results of a run that was given up (`kernel.cpp:686`) out; they catch neither.

### The AXI VIP: `VipBridge`, `AxiVip`
A SystemC method runs when an event of its list has been notified; `awake` is the set of those that are going to, and two notifications before a
method runs wake it once. An action is one activation of a method and takes what the code takes in one: at most one write and one read.
The sensitivity lists are the constructors'. `AxiVip` has the pointers of the two classes, the objects there are, and the destructors in the order C++ runs
them. The constants are chosen for `axi_vip_0` (mode 2, two outstanding transactions in a direction) and for the other two modes `axi_vip.cpp` serves. The variants of
`axi_vip_0.cpp` for the five simulators are two: Xilinx, Xcelium and Riviera make the pins' transactor before the end of the elaboration, VCS and Questa in the constructor.

`EveryRequestAnswered` rests on three things no code enforces: the socket takes at least as many requests as can be outstanding (with `Depth` = 1 or 3 for two in
each direction a request sleeps for ever, as `aximm2ipc_send` is not sensitive to the socket's event, `sim_ipc_aximm_slave.cpp:69`), the master issues at most one transaction
in a direction between two activations, and the socket notifies every answer separately. Each was tried: without it the property fails. The sleeping request and the answer left in the socket (line 105) are therefore assumed away by `Depth`, `Issue` and `Arrive`.

## 3. Abstract specifications

- `RelinService`: results appear in the order of the primes, ct0 before ct1, each right; done
  after the last one and every begun run goes on. `Relin` implements it with `mem` and a
  count of results derived from `relin_cu_out` (property `ImplementsService`).
- `KernelCommand`: asked, run, finished, reported, one after the other.
  `KernelControl` implements it (`ImplementsCommand`) for hosts that poll `ap_idle` or use the interrupt.
- `ReadPort`, `WritePort`: idle, busy, (stream,) done; every request is served. They are
  how `Relin` sees a port (`rd_state`, `wr.busy`), and the cycle-level ports implement
  them (`ImplementsReadPort`, `ImplementsWritePort`): that is what joins the two levels.

## 4. Runs

| run | instance | shows |
|---|---|---|
| `core` | L = 5, FIFO_M = 2, EN_ADD on and off | all properties of `Relin`, the refinement and termination, for both builds: they differ in the wiring of the final operation and of p1/p2 |
| `core_restart` | L = 2, two starts | `EveryRunRight` is violated (finding 4) |
| `kernel_control` | three runs, hosts that poll `ap_idle` or use the interrupt | idle flag, interrupt, refinement |
| `kernel_done_read` | hosts that poll `ap_done` | `DoneClearsOnRead` is violated (finding 1) |
| `kernel_auto_restart` | auto restart on | `AutoRestarts` is violated (finding 2) |
| `hbm_read` | 2 channels, K = 8, B = 2 or 8 (single burst), two requests | gapless streams, no word lost or left, stable addresses, refinement |
| `hbm_write` | the same sizes | framing, memory at done, stable addresses, refinement |
| `hbm_write_early` | memory takes data early | `SentInWrData` is violated (finding 3) |
| `accumulators` | L = 3, K = 4, two rounds | counted products, whole sums, in order; the request is never lost |
| `final_op` | K = 4, latencies 1 and 2, six polynomials | paths of equal length, whole kept polynomials, nothing swallowed |
| `host` | L = 3, 3 channels, 2 bursts of 2 words; every command line of up to four arguments, five clients; four states of the input files | the parse; right words for every request, no overlap, nothing outside a buffer; every file right, line by line, whatever fails |
| `axi_vip` | three transactions in a direction, two outstanding, a socket of four | answers to the right transaction and in order, none forgotten, nothing deleted twice |

*Bounds.* L = 5 gives the special prime's round, a first, three middle and a last round, and
per round as many polynomials; the FIFO wraps more than once inside a round and its pointers meet each
round at a different place (5 is not a multiple of 2). Two channels are enough for every disagreement between channels the
logic can see, because it looks at them only through "all" (the AND over the channels). Four bursts have a
first, middle and last one; two requests show what one leaves behind for the next. Three
runs of the kernel: after the second, no register distinguishes it from the third. `PREFILL` = K as in
the code (both are 2^(LOGN-LOGTP)); `DEPTH` = K is the least a FIFO may hold, the code's holds 2048.
In `final_op` the latencies differ, so that no two paths agree by accident, and six polynomials are two kept and two
pairs, one for each half after the other. `accumulators` has a first, a middle and a last product and a second round that meets the
first's leavings. `host` has three channels and four words in each, so that the permutation of
the host is not its own inverse, and every request is made at every point of the run; four arguments are two options with their values, or any
shorter sequence with a stray token before, between or after; a short file is in the middle of a row or of the rows, or behind a short one. Three transactions
are one more than the bridge may have in flight. `DoneLat` = 2 for the code's 10 only shortens the wait after a stream. A run is
bounded by `MaxStarts`, `MaxRuns`, `MaxReads`, `MaxWrites`, `MaxPolys`, `MaxRounds`; they occur only where a run is asked for.

*Deadlock* is checked except in the `core*` runs, where the core stops in
ST_IDLE after its last start (that it stops nowhere else is `RunFinishes`), in `host`, where the program ends, and in `axi_vip`, where the simulation ends.

## 5. Fairness

- `Relin`: `WF(Step)`. The clock runs, and a requested HBM access is answered. One condition on
  all steps is enough because a run has finitely many events; a start is never forced.
- `KernelControl`: the clock runs, the host drives a handshake it has begun
  (`HostWrites`, `HostReads`), the core ends (`CoreEnds`; that is `RunFinishes` of `Relin`).
- Ports: the clock runs, and every memory answers (`Answers(c)` per channel, no fairness between channels
  beyond that: one may be arbitrarily slower). AXI requires no less.
- `Accum`, `FinalOp`: the clock runs. Nobody is made to give a word or to ask.
- `AxiVip`: both SystemC kernels run a method that is awake, the socket delivers, the far slave answers. Nobody is made to ask, and the simulation may end at any moment.
- `HostProgram` states no liveness: it waits for XRT and for the run, and `RunFinishes` is the core's part of that.

## 6. Theorems

`tlapm` proves, for every value of the constants under the `ASSUME`s of the modules:

| theorem | statement | argument |
|---|---|---|
| `TypeCorrect` | `Spec => []TypeOK` (`Relin`) | one lemma per operator of `RelinData` and per wire, one step per action |
| `ModuliCorrect` | `Spec => []ModuliAligned` | inductive but for the end of a run, where the main counter is cleared and the loader's has wrapped by itself: `ModuliInv` adds `state = "ST_DONE" => ctr = L` |
| `RequestsCorrect` | `Spec => []RequestsHeard` | `RequestsInv`: the state of a control unit says exactly which of its ports have a request under way, whichever of p1, p2 is done first |
| `ControlCorrect` | `Spec => []ControlInv` | below |
| `PortsCorrect`, `RoundsSeparate`, `PulsesCorrect` | `Spec => [](FirstRun => PortsAligned)`, and so for `RoundStartsClean`, `PulsesHeard` | from `ControlCorrect`, `TypeCorrect`, `RequestsCorrect` |
| `ReadsUndisturbed`, `ModuliHeld` | `MaxStarts = 1`: `Spec => ReadUndisturbed`, `Spec => ModulusHeld` | from `ControlCorrect`, one step per action |
| `DataCorrect`, `OperandsCorrect` | `FIFO_M >= 2`: `Spec => []DataInv`, `Spec => [](FirstRun => OperandsMatch)` | below |
| `ServiceSafe` | `FIFO_M >= 2`, `MaxStarts = 1`: `Spec => Service!InOrder`, the safety part of `ImplementsService` | one step per action: `P3Done` is `Deliver`, `Start` is `Begin`, `Done` is `Finish`, all others stutter |
| `StreamsRight`, `StreamsExact`, `ReadTypeCorrect`, `AddressesHeld` | `PREFILL = K`: `Spec => []StreamRight`, `[]StreamExact`, `[]TypeOK`, `AddressHeld` (`HbmReadPort`) | `IInv`, below |
| `ReadPortSafe` | `PREFILL = K`: `Spec` implies `ReadPort`'s initial condition and steps | the phase of the request says which step of `ReadPort` an edge is |
| `BurstsFramedCorrect`, `WrittenCorrect`, `AddressesHeld` | `DEPTH >= K`, `~EarlyData`: `Spec => []BurstsFramed`, `[]WrittenAtDone`, `AddressHeld` (`HbmWritePort`) | `IInv`, below |
| `WritePortSafe` | `DEPTH >= K`, `~EarlyData`: `Spec` implies `WritePort`'s initial condition and steps | `IInv`: the port's registers (`PortBusy`) are busy exactly while the core waits for done (`BusyIs`) |
| `CountsCorrect`, `SumsCorrect` | `Spec => []CountsProducts`, `[]SumsRight` (`Accum`) | `IInv`, below |
| `OutputCorrect`, `KeptCorrect` | `Spec => []OutputRight`, `[]KeptWhole` (`FinalOp`) | `IInv`, below |
| `TypeCorrect`, `IdleCorrect`, `InterruptCorrect` | `WellUsed /\ Spec => []TypeOK`, `[]IdleIsIdle`, `[]InterruptNotLost` (`KernelControl`) | `IInv`, below |
| `CommandSafe` | `WellUsed /\ Spec` implies `KernelCommand`'s initial condition and steps | `IInv`; which counters a step moves follows from the phase |
| `BuffersCorrect`, `ReadsCorrect`, `NothingLost`, `HostReadsCorrect`, `SuccessCorrect` | `Spec => []InBuffers`, `[]ReadsRight`, `NothingOverwritten`, `[]HostReadsRight`, `[]SuccessIsWhole` (`HostProgram`) | `IInv`, below |
| `ParseCorrect` | `Spec => []ParseRight` (`CmdLineParser` in `HostProgram`) | `ParserInv`, below |
| `HostTypeCorrect` | `Spec => []TypeOK` (`HostProgram`) | `IInv`, `ParserInv` and `HostTypes` (files, vectors, outcome) together |
| `AnswersCorrect` | `Spec => []AnswersRight` (`VipBridge` in `AxiVip`) | `BridgeInv`, below |
| `NoEventMissed` | `Depth >= 2 * Outstanding`: `Spec => []NobodySleeps` (`VipBridge` in `AxiVip`; defined in `VipProofs`) | `BridgeInv` and `AwakeInv`, below |
| `DeletionsCorrect`, `MasterDeletesTwice` | `Spec => [](~Meets => DeletedOnce)`, `Spec => [](Meets /\ phase = "over" => twice)` (`AxiVip`) | `BuildInv`, below |

*The core.* None of its invariants is inductive: each speaks of one place or one moment, and what makes it true is
where all the other units are. `Control` (`RelinRounds`) says that for all of them at once. A round has three phases, read off
the main state machine: at rest, forward (polynomials of ct2 up to the sums), backward (the sums up to the results). Within a phase a
unit is located by a *count*, how many polynomials of the round have passed it: `In`, `Out`, `Asked`, `Mult(x)` forward; `Entered`, `Left`,
`CtAsked`, `Fin` backward. The counts are functions of the states and counters of the units, not variables. `Control` ties them together
(the pipeline of the NTT unit holds In - Out polynomials, FIFO x holds Out - Mult(x), `relin_cu_out` is where Fin puts it) and says
how far p1/p2 may lag behind the round (the last ct polynomial's `done`) or lead it. `Data` then says what lies at each place: polynomial
Out + k - 1 at place k of the pipeline, the sum of the first Mult(x) products in accumulator x, the kept polynomials in every round but the first. TLC
checked both invariants on small instances before they were proved (L = 1 and 3, both builds, two starts); `RelinProofs` has one lemma
per action for `Control` and another for `Data`.

The hypotheses are those of the code. `FirstRun`: from the second run on the property is false (finding 4, run `core_restart`); `FirstRun`
allows a second start to be made and says nothing from then on, `MaxStarts = 1` is the same for properties of steps. `FIFO_M >= 2`: with one place in a FIFO the
NTT unit's next result overwrites a polynomial still waiting for its key, as the FIFOs test neither full nor empty; the code's
parameter is 2. `Control` needs no bound on FIFO_M. The five timing guards of section 2 are part of the actions.

*The ports.* A request goes through phases (`Idling`, `Fetching`, `Streaming`, `Ending` of a read port, `Idling`, `Writing`, `Ending` of the
write port), and within a request each channel is where its own memory has let it come. `Fetch(c)` and `Write(c)` say where, for each state of the
DMA engine, in numbers of words: how many lie in the FIFO, in the data register, on the way (`Stored`, `Got`, `Sent`), how many the core has handed over
and a memory has taken (`Given`, `Out`), and that these are the words of the request from the first on and in order. The bursts tie
the channels to the port: a channel in its DMA's idle state has come to the end of burst `ctr_addr`, all others are inside it, so that
the AND over `dma_done_q` is the only moment when all are equal, and the stored words reach K only after the last burst. For a write, `Kept(c, n)`
says what is in memory; the burst that is written there follows from `BurstOf` (`a[2] \div B` is the burst of a word). TLC checked both
invariants first (K = 4 with bursts of 1, 2 and 4 words; K = 8 with bursts of 2 and 8).

The hypotheses: `PREFILL = K` is the code's setting (`2^(LOGN-LOGTP)`); with less, a stream starts before the polynomial is in the FIFOs and nothing makes a memory
keep up with it. `DEPTH >= K` for the write port, as the code's 2048 words: with less, a memory that takes no words while the core hands them over
loses some. `~EarlyData` is finding 3: without it `BurstsFramed` is false.

*The final operation.* `OutputRight` speaks of the output only; the invariant has to say where every word is
on its way there. It does so by age, not by time: `Met` says that if place i of B's delay line holds word j of polynomial n, then so do the places
of the same age on the path of A, behind the BRAM and in the pipelines of the arithmetic; `Word(i, n, j)` is then the one fact "word j came i
cycles ago", and one lemma (`WordMoves`) ages it by a cycle, from either direction. `Follow` says that behind a word comes the next, `Valids` that the pulses in the line
of `valid` are the first words of the polynomials not yet begun, in order; that no other pulse comes while a result is taken follows. The polynomials that are kept go through the phases of the state machine (`Rest`,
`Starts`, `Waits`, `Writes`, `Ends`), with `Tail0` for words still in the adder; a polynomial may begin while the one before is still being written
(`Before`). Where the assumption `Gap + 1 >= LAT_ADD` is needed shows in `EndsStep`: the third polynomial comes
when at most one word is still to be written. TLC checked the invariant for four choices of K, latencies and gap first.

*The accumulators.* Both counters of an accumulator are started by a pulse and run on by themselves, and the end of a product is told
from the value of one while the other is zero. `Product(x)` says what they then are: functions of how many words of the product have come
(`pos[x]`) and how many products (`given[x]`), the cycles up to the next product included; `DoneMeans`, that the end of a read is never taken for the end of a write,
follows, and with it that the counter of products moves once per product. This is where K > ADD_LAT + 2 and Gap > ADD_LAT are needed. `Data(x)` says what then lies in the BRAM's
output, in every stage of the adder and in the BRAM: up to the word just written the sum of `given[x]` products, from there on of one less. `Reading`, `Valid` and `Stages`
follow the read-out by the number of words read. The output lags behind it, and accumulator 1 is asked READ_DELAY cycles
after 0 while the last two words of 0 are still on their way, so `Output` has to say that they come out right when nothing is
read any more (`LastWords`). One lemma (`ReadSteps`) says which of eight kinds of cycle an edge is; each part of the invariant is then
preserved by a lemma of its own. TLC checked the invariant for five choices of L, K, latencies and gap first.

*The registers.* `WellUsed` (the host polls `ap_idle` or waits for the interrupt, no auto restart) excludes the two uses the runs find
at fault. `IInv` of `KernelProofs` has six parts: types, what the bus is
doing (`Bus`), the four phases of a run as the registers show them (`Phase`: Idling, Starting, Running,
Ending), what the host may conclude from where it is (`Knows`), and that the
interrupt bits stand for exactly the run that is over and not yet reported (`Interrupts`). The
invariants the runs check are not inductive: they do not say, for example, that `ap_start` is still high when the core
ends, without which a new start would make no edge.

*The host and the layout.* The code has no map of the memories: the host adds up offsets as it writes, the adapter has constants. `HostProofs` states the
map (`PortOf`, `From`, `Extent`) and shows that both computations are that map, `Offsets` for the host's variable and
`AddressFits` for the adapter's base, stride and burst. `Buffers` says what the memories hold while the host lays one
object after the other: the objects laid so far, word by word, and nothing anywhere else, so that the next one overwrites nothing
(`Apart`). How a word got there is gone from `Buffers`: chunk by chunk or preprocessed and coalesced, it lies where `Laid` says
(`ConstantLaid`, `LiveLaid`), and this is why the readback, which reads ct2 by the way it was not written, is right. `Reading` follows the bursts
of a request, `Writing` the counters of the write port: the words written are those the counters have passed
(`Written`), for every length of a burst. `ReadIn` and `Files` say what the host has read and written, the failures included. The arithmetic under it is that of
division and products of unknowns (`Split`, `RowOf`, `InFlat`, `OfFlat`), in lemmas of its own. TLC checked the invariant
first (L = 2, two words in a burst; L = 3, three). Powers of two are not needed: `BurstAssumption` asks for a burst that divides the polynomial and nothing more.

*The write port as `WritePort`.* What the core waits for (`waiting`) and what the port is doing are two things; `Port3` takes `busy` from the port: its
state machine is out of ST_IDLE or done is in its delay line. That the two never differ is a consequence of `IInv`, and it is what makes
a request, which the core makes by its own count, a request of the abstract port.

*The parser.* `ParseRight` compares the outcome with what the command line means, and whether a token is a value depends on all
tokens before it: in a run of options that take values every second one is a value. `Values` is chosen as the set that
satisfies this place by place (`Alternates`). That there is one for every command line (`AlternatesExist`), and no other (`AlternatesUnique`), would be an induction over the
places; it is proved by the least counterexample instead (`Smallest`, from the well-foundedness of `<` on the naturals). From there on `ValuesRight` is all that is used. `ParserInv` adds to the types `ParsedTo(n)`: before place n the parser has counted the options
there are, given each switch what its last occurrence says, and passed no place where it should have stopped; the parser stands at no value (`Stands`), and
goes on by one place or by two (`Passed`). What tokens mean does not change while values are given (`SameMeaning`), as it depends on which switches
there are and which are toggles. No assumption is made on the clients but the types of their calls: keys that clash, refused calls, shortcuts given twice and default keys are covered.

*The VIP.* A transaction is, in its direction, in one of seven places: pending, in the socket, at the far slave, its answer ready, on the wire, in the socket back, given. `InOrder(d)` says that the
numbers of a direction run through these places without gap or repeat (`Stages`, from the bounds between neighbouring places); a queue that both directions
share is looked at through one direction at a time (`Run`), so that a read that overtakes a write says nothing about writes. Each method moves at most one
transaction of a direction across one of the bounds, by the same few lemmas on queues (`RunPut`, `RunTakeWrite`, `RunTakeRead`). `AnswersRight` needs neither `Depth` nor `Outstanding`: it rests on order
alone. That nothing is left lying rests on the sizes. `Counted` says that what was asked and not given is on its way, at most `Outstanding` of a direction; `Awake` that every queue that is
not empty has its method awake or, for the requests, a transaction at the slave whose answer will wake it. With `Depth >= 2 * Outstanding` the method that sends leaves nothing
behind when it goes to sleep (`SendWakes`), the one that receives only behind a busy slave (`ReceiveWakes`), and an answer that arrives finds the response queue empty and a
master that has asked (`ResponseWakes`; here `Stages` is needed). `NobodySleeps` follows: it is `EveryRequestAnswered` without the fairness. The hypothesis is the condition of section 2; before the proof, TLC confirmed
`AwakeInv` and `NobodySleeps` for one and two transactions in a direction, and found `NobodySleeps` violated with `Depth` = 3 for two. `BuildInv` says which members point at which objects in each phase; the destructors then delete what is
there, but for a master behind a socket, where they delete the sockets twice in every run (`MasterDeletesTwice`).

Every invariant and every action property of the passing runs is proved, and the safety part of each of the four refinements. Checked only on TLC's
instances is what is out of the prover's reach: liveness under fairness (`RunFinishes`, `SumsDelivered`, `EachDelivered`, `EveryRequestAnswered`, the fairness parts of
`ImplementsService`, `ImplementsCommand`, `ImplementsReadPort`, `ImplementsWritePort`) and ENABLED. The findings are violations TLC shows.

## 7. Properties

`Relin`: `ModuliAligned`, `PortsAligned` (the five round counters); `RoundStartsClean` (nothing of a round
is left when the next is announced); `RequestsHeard`, `PulsesHeard` (no pulse is lost
or mistaken); `OperandsMatch` (no `Junk` anywhere, only right results in HBM);
`ReadUndisturbed`, `ModulusHeld` (nothing is replaced under a unit that still uses it); `ImplementsService`; `RunFinishes`.
`KernelControl`: `IdleIsIdle`, `InterruptNotLost`, `ImplementsCommand`.
`HbmReadPort`: `StreamRight` (no gap, right words), `StreamExact` (K words, no more), `AddressHeld`, `ImplementsReadPort`.
`HbmWritePort`: `BurstsFramed`, `WrittenAtDone`, `AddressHeld`, `ImplementsWritePort`. A word lost at a full FIFO shows in `StreamRight` and `WrittenAtDone`.
`Accum`: `CountsProducts` (counter and BRAM agree), `SumsRight` (whole sums, in order), `SumsDelivered`.
`FinalOp`: `OutputRight` (words of equal index meet), `KeptWhole`, `EachDelivered`.
`HostProgram` (with `CmdLineParser` and `HbmLayout`): `ParseRight`; `ReadsRight`, `InBuffers`, `NothingOverwritten`; `HostReadsRight` (every file written), `SuccessIsWhole`.
`AxiVip`, `VipBridge`: `AnswersRight`, `DeletedOnce`, `EveryRequestAnswered`.
Each has a mutant of the code it catches (`PROJECT.json` "mutants"; their definitions stand before the ones they replace).

### Findings
1. `csrs.sv`: `ap_done` is documented as clear-on-read, but a read in the very cycle of `ap_done` returns it and leaves it
   set: the completion is seen twice, and the second time may be taken for a later run.
2. `kernel.sv`: with `auto_restart` the core never starts again, because its start is an edge of `ap_start`, which stays high; the kernel is busy for ever.
3. `dma_tx.sv`: `wvalid` is not tied to S_WRDATA as the comment says; with a memory that takes data before its
   address, words go out before the burst's counter is cleared and `wlast` moves (`BurstsFramed` fails as well then).
4. `relin_final_op_wrapper.sv`: a second run without a reset writes wrong results, because the counter that
   should set `last_q` again is never incremented. `kernel.xml` declares a kernel that can be started again.

### Observations
Met while modelling, outside what the repository's docs claim:
- `kernel.cpp:456-469`: a short or unreadable input file is reported as "[INFO] Input files are read", and the program goes on with zeros in its place to exit status 0.
- `kernel.cpp:686`: a run that was given up is followed by the results that happen to be in HBM and by exit status 0.
- `kernel.cpp:407-411`: after an unrecognized option or `--help` the program goes on with what was parsed until then; `stoi` throws before the arguments are counted.
- `cmdlineparser.cpp:94`: the automatic shortcut adds a letter to a pointer (undefined behaviour) and is filed under the empty string (line 118), where no token finds it.
- `cmdlineparser.cpp:141`: whether a toggle may be the default key is asked of the default key there was before.
- `cmdlineparser.cpp:138`: a default key named with one dash is registered and looked up with three.
- `cmdlineparser.cpp:109`: a toggle is valid without having been given.
- `sim_ipc_aximm_slave.cpp:69`: the socket's event is named but not put on the sensitivity list (section 2).
- `axi_vip.cpp:130-136`: in mode 0 with `ENABLE_XTLM_IPC_IN_VIP` set, `~axi_vip` deletes the sockets and `~sim_ipc_aximm_master` deletes them again. `DeletedOnce` fails with that build, which `MCAxiVip` therefore leaves
  out; `axi_vip_0` is not built so. Stubs are never deleted.

## 8. Not modelled, and the plan

Not modelled: the logger and `time_utils.h` (messages, and helpers nobody calls); the parser's `printHelp`, `value_to_int`, `value_to_double`, `getCmdSwitch` (text, and conversions nobody calls);
the host's timing and debug output; in `axi_vip_0.cpp` which pin goes to which port, and the transactor and sockets, which are libraries; the headers, which only declare; the arithmetic (submodules), constants of the primes, AXI wiring (`kernel_top.v`, `axi.sv`), plain
registers, build scripts, vendor IP (the FIFO is modelled by how it is used, `ip.tcl` gives
depth and first-word fall-through), test benches. Whether the NTT core still
needs the old modulus while its last words stream out when the next round loads its own cannot be read from this repository.

Order of the plan, the most important behaviour first:
1. *(done)* `RelinData`, `Relin`, `RelinService`: the core and its promise.
2. *(done)* `KernelControl`, `KernelCommand`: control.
3. *(done)* `HbmReadPort`, `HbmWritePort` and their abstractions: the ports.
4. *(done)* `RelinProofs`, `KernelProofs`: types, moduli, requests of the core; all safety of the registers.
5. *(done)* `FinalOp`, `Accum`: the BRAM state machines of `relin_final_op.sv` and `relin_accum.sv` cycle by cycle.
6. *(done)* `HbmLayout`: the adapter's offsets against the host's placement.
7. *(done)* `CmdLineParser`, `HostProgram`: the whole host program, with the failures of files, device and run.
8. *(done)* `VipBridge`, `AxiVip`: the SystemC model of the AXI VIP.
9. `RelinTiming`: a cycle-counting model of NTT unit, p0 and p1/p2 that discharges the four open guards of section 2 from the latencies and states how slow HBM may be.
10. *(done)* `RelinRounds`, the rest of `RelinProofs`: all safety of the core in the first run, and that it implements `RelinService`.
11. *(done)* `HbmReadProofs`, `HbmWriteProofs`: the safety of the ports for every K, B and set of channels, and that they implement `ReadPort` and `WritePort`.
12. *(done)* `FinalOpProofs`: the paths of `relin_final_op.sv` in step for every K and every latency.
13. *(done)* `AccumProofs`: the counters of `relin_accum.sv` in step, and the sums whole, for every K and latency.
14. *(done)* `HostProofs`: the layout, the two ways through the host and the files, for every number of primes and channels and every size; the parser for every command line and every set of switches; the types of both.
15. *(done)* `VipProofs`: answers in order for every number of transactions, no wake-up lost in a socket that is large enough, deletions in every build.
