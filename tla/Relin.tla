-------------------------------- MODULE Relin --------------------------------
(***************************************************************************)
(* The relinearization core (src/src/relin): the main state machine, the   *)
(* modulus loader, the control units of the HBM ports p0, p1/p2 and p3,    *)
(* the NTT unit, the two FIFOs, the accumulators and the final operation,  *)
(* composed as relin.sv wires them.                                        *)
(*                                                                         *)
(* A stream of K words is one event, at the cycle its `valid` pulse is     *)
(* high: every data path unit starts on that pulse and then counts the     *)
(* words of the stream by itself. Pulses are wires: a pulse nobody waits   *)
(* for in the state it arrives is lost, here as in the code. HBM answers   *)
(* after an arbitrary time.                                                *)
(***************************************************************************)
EXTENDS RelinData

CONSTANTS
  Builds,    \* settings of EN_ADD: is the final addition of ct0, ct1 built in?
  MaxStarts  \* bound on the starts after a reset

ASSUME BuildsAssumption    == Builds \subseteq BOOLEAN
ASSUME MaxStartsAssumption == MaxStarts \in Nat \ {0}

VARIABLES
  \* relin.sv, main state machine
  state, ctr, starts,
  \* relin_q_loader and the moduli it has loaded
  q_ctr, q_g1, q_g2,
  \* relin_cu_p0_ntt
  p0_state, p0_ctr_L, p0_ctr_poly,
  \* relin_ntt_mux and relin_ntt_wrapper: mode, twiddle table, polynomials inside
  intt_q, psi, pipe,
  \* relin_cu_p1_p2
  p12_state, p12_ctr, p12_ctr_L, en_rlk_q, en_poly_q,
  \* read ports of the HBM adapter
  rd_state, rd_data,
  \* relin_fifo, twice
  fifo, ctr_i, ctr_o,
  \* relin_accum_wrapper and its two relin_accum
  state_i, acc_ctr, start_read_q, ren_1, sum, adding,
  \* relin_final_op_wrapper and relin_final_op; en_add is the parameter EN_ADD, which never changes
  fn_ctr, last_q, offset_q, kept, en_add,
  \* relin_cu_out, the write port of the HBM adapter, the results in HBM
  out_state, out_ctr, wr, mem

mainVars == <<state, ctr, starts>>
qVars    == <<q_ctr, q_g1, q_g2>>
p0Vars   == <<p0_state, p0_ctr_L, p0_ctr_poly>>
nttVars  == <<intt_q, psi, pipe>>
p12Vars  == <<p12_state, p12_ctr, p12_ctr_L, en_rlk_q, en_poly_q>>
rdVars   == <<rd_state, rd_data>>
fifoVars == <<fifo, ctr_i, ctr_o>>
accVars  == <<state_i, acc_ctr, start_read_q, ren_1, sum, adding>>
fnVars   == <<fn_ctr, last_q, offset_q, kept, en_add>>
outVars  == <<out_state, out_ctr, wr, mem>>

vars == <<mainVars, qVars, p0Vars, nttVars, p12Vars, rdVars, fifoVars, accVars, fnVars, outVars>>

MainState == {"ST_IDLE", "ST_LOAD_Q_G1", "ST_OP", "ST_WAIT_ACC_O_VALID", "ST_LOAD_Q_G2",
              "ST_WAIT_FN_DONE", "ST_WAIT_W_DONE", "ST_DONE"}
P0State   == {"ST_IDLE", "ST_WAIT_BEFORE_PSI", "ST_LOAD_PSI_START", "ST_LOAD_PSI_WAIT_DONE",
              "ST_LOAD_POLY_START", "ST_LOAD_POLY_WAIT_DONE", "ST_WAIT_BEFORE_IPSI",
              "ST_LOAD_IPSI_START", "ST_LOAD_IPSI_WAIT_DONE", "ST_INTT_READY"}
P12State  == {"ST_LOAD_RLK", "ST_WAIT_DONE", "ST_WAIT_DONE_0", "ST_WAIT_DONE_1",
              "ST_LOAD_POLY_0", "ST_WAIT_DONE_2", "ST_LOAD_POLY_1", "ST_WAIT_DONE_3"}
AccState  == {"ST_NTT", "ST_INTT_1", "ST_INTT_2", "ST_INTT_3"}
OutState  == {"ST_POLY_0_WRITE_START", "ST_POLY_0_WRITE_WAIT_DONE",
              "ST_POLY_1_WRITE_START", "ST_POLY_1_WRITE_WAIT_DONE", "ST_END"}
Port      == 0 .. 2
Slot      == 0 .. FIFO_M - 1
Idle      == [busy |-> FALSE, x |-> 0, i |-> 0, data |-> None]
Write     == [busy : BOOLEAN, x : Comp, i : Poly, data : Value]

MainType == state \in MainState /\ ctr \in Round /\ starts \in 0 .. MaxStarts
QType    == q_ctr \in Round /\ q_g1 \in Prime /\ q_g2 \in Prime
P0Type   == p0_state \in P0State /\ p0_ctr_L \in Round /\ p0_ctr_poly \in Poly
NttType  == intt_q \in BOOLEAN /\ psi \in Value /\ pipe \in Seq(Value)
P12Type  == /\ p12_state \in P12State /\ p12_ctr \in Poly /\ p12_ctr_L \in Round
            /\ en_rlk_q \in BOOLEAN /\ en_poly_q \in BOOLEAN
RdType   == rd_state \in [Port -> {"idle", "busy", "stream"}] /\ rd_data \in [Port -> Value]
FifoType == fifo \in [Comp -> [Slot -> Value]] /\ ctr_i \in [Comp -> Slot] /\ ctr_o \in [Comp -> Slot]
AccType  == /\ state_i \in AccState /\ acc_ctr \in [Comp -> Round] /\ start_read_q \in BOOLEAN
            /\ ren_1 \in BOOLEAN /\ sum \in [Comp -> SUBSET Value] /\ adding \in [Comp -> BOOLEAN]
FnType   == fn_ctr \in 0 .. 1 /\ last_q \in BOOLEAN /\ offset_q \in 0 .. 1 /\ kept \in [0 .. 1 -> Value]
            /\ en_add \in Builds
OutType  == /\ out_state \in OutState /\ out_ctr \in Poly /\ wr \in Write
            /\ mem \in [Comp -> [Poly -> Value]]

TypeOK == /\ MainType /\ QType /\ P0Type /\ NttType /\ P12Type
          /\ RdType /\ FifoType /\ AccType /\ FnType /\ OutType

Init ==
  /\ state = "ST_IDLE" /\ ctr = 0 /\ starts = 0
  /\ q_ctr = 0 /\ q_g1 = 0 /\ q_g2 = 0
  /\ p0_state = "ST_IDLE" /\ p0_ctr_L = 0 /\ p0_ctr_poly = 0
  /\ intt_q = FALSE /\ psi = None /\ pipe = <<>>
  /\ p12_state = "ST_LOAD_RLK" /\ p12_ctr = 0 /\ p12_ctr_L = 0
  /\ en_rlk_q = FALSE /\ en_poly_q = FALSE
  /\ rd_state = [n \in Port |-> "idle"] /\ rd_data = [n \in Port |-> None]
  /\ fifo = [x \in Comp |-> [s \in Slot |-> None]]
  /\ ctr_i = [x \in Comp |-> 0] /\ ctr_o = [x \in Comp |-> 0]
  /\ state_i = "ST_NTT" /\ acc_ctr = [x \in Comp |-> 0] /\ start_read_q = FALSE
  /\ ren_1 = FALSE /\ sum = [x \in Comp |-> {}] /\ adding = [x \in Comp |-> FALSE]
  /\ fn_ctr = 0 /\ last_q = TRUE /\ offset_q = 1 /\ kept = [x \in 0 .. 1 |-> None]
  /\ en_add \in Builds
  /\ out_state = "ST_POLY_0_WRITE_START" /\ out_ctr = 0 /\ wr = Idle
  /\ mem = [x \in Comp |-> [i \in Poly |-> None]]

-----------------------------------------------------------------------------
(***************************************************************************)
(* Time. A register that changes at the next clock edge whatever its       *)
(* inputs changes before anything that takes a stream (K words) or an HBM  *)
(* access: no unit is then in a state it leaves unconditionally. The five  *)
(* conditions after it are inequalities between cycle counts that no       *)
(* handshake enforces; each names what would have to be late for it to     *)
(* fail. They guard stream events below and nothing else.                  *)
(***************************************************************************)
RlkRequested  == p12_state = "ST_LOAD_RLK" /\ en_rlk_q
PolyRequested == p12_state \in {"ST_LOAD_POLY_0", "ST_LOAD_POLY_1"} /\ en_poly_q
\* Mutant: one full accumulator is enough to start reading.
AccFullAny == state_i = "ST_NTT" /\ \E x \in Comp : acc_ctr[x] = L

AccFull       == state_i = "ST_NTT" /\ \A x \in Comp : acc_ctr[x] = L
AccReading    == state_i = "ST_INTT_1" /\ start_read_q

Settled ==
  /\ state \notin {"ST_LOAD_Q_G1", "ST_OP", "ST_LOAD_Q_G2", "ST_DONE"}
  /\ p0_state \notin {"ST_LOAD_PSI_START", "ST_LOAD_POLY_START", "ST_LOAD_IPSI_START", "ST_INTT_READY"}
  /\ ~RlkRequested /\ ~PolyRequested /\ ~AccFull /\ ~AccReading
  /\ out_state # "ST_END"

\* Mutant: relin_cu_p0_ntt does not wait before it loads a table.
NttNotDrained == TRUE

\* 4 * DEPTH cycles are longer than the latency of the NTT unit.
NttDrained == pipe = <<>>

\* Key loads lag the NTT unit by less than two polynomials.
KeysKeepUp == ~en_rlk_q

\* The sum of a product is written back before the next key arrives.
SumWritten(x) == ~adding[x]

\* The last key is over 10 cycles after its last word, and reading an accumulator takes K
\* cycles: the first word of an inverse transform comes out later than either.
ReadsOver ==
  /\ p12_state \notin {"ST_WAIT_DONE", "ST_WAIT_DONE_0", "ST_WAIT_DONE_1"}
  /\ state_i # "ST_INTT_2"
  /\ state_i = "ST_INTT_3" => ren_1 \/ Len(pipe) = 2

\* ct0 of a round is written to HBM before ct1 of that round is computed.
WriteKeepsUp == out_state \notin {"ST_POLY_0_WRITE_WAIT_DONE", "ST_POLY_1_WRITE_WAIT_DONE"}

-----------------------------------------------------------------------------
(***************************************************************************)
(* Wires: what a pulse does at the units it reaches.                       *)
(***************************************************************************)
\* A read port takes a request only when it is idle.
Request(ports, data) ==
  LET taken == {n \in ports : rd_state[n] = "idle"}
  IN /\ rd_state' = [n \in Port |-> IF n \in taken THEN "busy" ELSE rd_state[n]]
     /\ rd_data'  = [n \in Port |-> IF n \in taken THEN data ELSE rd_data[n]]

\* Mutant: the pointer wraps one slot late.
NextSlotLate(s) == IF s = FIFO_M THEN 0 ELSE s + 1

NextSlot(s) == IF s = FIFO_M - 1 THEN 0 ELSE s + 1

\* wen of the FIFOs xs: no test for a slot that has not been read.
Push(xs, v) ==
  /\ fifo' = [x \in Comp |-> IF x \in xs THEN [fifo[x] EXCEPT ![ctr_i[x]] = v] ELSE fifo[x]]
  /\ ctr_i' = [x \in Comp |-> IF x \in xs THEN NextSlot(ctr_i[x]) ELSE ctr_i[x]]

\* ren of FIFO x: no test for a slot that has not been written.
Front(x) == fifo[x][ctr_o[x]]
Pop(x)   == ctr_o' = [ctr_o EXCEPT ![x] = NextSlot(@)]

\* p1_sel routes port p1 to the final operation instead of the multiplier.
p1_sel == state \in {"ST_LOAD_Q_G2", "ST_WAIT_FN_DONE", "ST_WAIT_W_DONE"}

\* A product enters accumulator x; it replaces the sum while acc_ctr[x] is 0.
Accumulate(x, v) ==
  /\ sum' = [sum EXCEPT ![x] = Add(@, v, acc_ctr[x] = 0)]
  /\ adding' = [adding EXCEPT ![x] = TRUE]
  /\ UNCHANGED <<state_i, acc_ctr, start_read_q, ren_1>>

\* o_valid of the final operation reaches relin_cu_out and the write port.
OValid(v) ==
  /\ WriteKeepsUp
  /\ LET x == IF out_state = "ST_POLY_0_WRITE_START" THEN 0 ELSE 1
     IN wr' = [busy |-> TRUE, x |-> x, i |-> out_ctr, data |-> v]
  /\ out_state' = IF out_state = "ST_POLY_0_WRITE_START"
                  THEN "ST_POLY_0_WRITE_WAIT_DONE" ELSE "ST_POLY_1_WRITE_WAIT_DONE"
  /\ UNCHANGED <<out_ctr, mem>>

\* Mutant: i_done with the first of the two polynomials.
FnIDoneEarly ==
  IF fn_ctr = 0 /\ state = "ST_WAIT_FN_DONE"
  THEN state' = "ST_LOAD_Q_G1" /\ ctr' = NextRound(ctr) /\ UNCHANGED starts
  ELSE UNCHANGED mainVars

\* i_done of the final operation reaches the main state machine, which hears it in one state.
FnIDone ==
  IF fn_ctr = 1 /\ state = "ST_WAIT_FN_DONE"
  THEN state' = "ST_LOAD_Q_G1" /\ ctr' = NextRound(ctr) /\ UNCHANGED starts
  ELSE UNCHANGED mainVars

\* i_valid of the final operation with operands a and b. Its counter of rounds (ctr_L) is
\* never incremented, so that last_q, once cleared, is never set again.
FnIValid(a, b) ==
  /\ fn_ctr' = 1 - fn_ctr
  /\ last_q' = (last_q /\ fn_ctr # 1)
  /\ offset_q' = 1 - offset_q
  /\ UNCHANGED en_add
  /\ IF last_q
     THEN /\ kept' = [kept EXCEPT ![offset_q'] = AddHalf(a, q_g2)]
          /\ UNCHANGED outVars
     ELSE /\ OValid(Combine(a, b, kept[offset_q'], q_g2, en_add))
          /\ UNCHANGED kept
  /\ FnIDone

-----------------------------------------------------------------------------
(***************************************************************************)
(* relin.sv: the main state machine.                                       *)
(***************************************************************************)
Start ==
  /\ state = "ST_IDLE" /\ starts < MaxStarts
  /\ state' = "ST_LOAD_Q_G1" /\ starts' = starts + 1
  /\ UNCHANGED <<ctr, qVars, p0Vars, nttVars, p12Vars, rdVars, fifoVars, accVars, fnVars, outVars>>

LoadQG1 ==
  /\ state = "ST_LOAD_Q_G1"
  /\ state' = "ST_OP" /\ q_g1' = PrimeOf(q_ctr)
  /\ UNCHANGED <<ctr, starts, q_ctr, q_g2>>
  /\ UNCHANGED <<p0Vars, nttVars, p12Vars, rdVars, fifoVars, accVars, fnVars, outVars>>

\* cu_p0_start is lost unless relin_cu_p0_ntt is idle.
Op ==
  /\ state = "ST_OP"
  /\ state' = "ST_WAIT_ACC_O_VALID"
  /\ p0_state' = IF p0_state = "ST_IDLE" THEN "ST_WAIT_BEFORE_PSI" ELSE p0_state
  /\ UNCHANGED <<ctr, starts, p0_ctr_L, p0_ctr_poly>>
  /\ UNCHANGED <<qVars, nttVars, p12Vars, rdVars, fifoVars, accVars, fnVars, outVars>>

\* Mutant: results are awaited in the special prime's round too.
AfterG2Write == "ST_WAIT_W_DONE"

\* The special prime's round writes nothing: it ends with the final operation.
AfterG2 == IF ctr = 0 THEN "ST_WAIT_FN_DONE" ELSE "ST_WAIT_W_DONE"

\* Mutant: the modulus of the second group is loaded without going to the next one.
LoadQG2Uncounted ==
  /\ state = "ST_LOAD_Q_G2"
  /\ state' = AfterG2
  /\ q_g2' = PrimeOf(q_ctr)
  /\ UNCHANGED <<ctr, starts, q_ctr, q_g1>>
  /\ UNCHANGED <<p0Vars, nttVars, p12Vars, rdVars, fifoVars, accVars, fnVars, outVars>>

LoadQG2 ==
  /\ state = "ST_LOAD_Q_G2"
  /\ state' = AfterG2
  /\ q_g2' = PrimeOf(q_ctr) /\ q_ctr' = NextRound(q_ctr)
  /\ UNCHANGED <<ctr, starts, q_g1>>
  /\ UNCHANGED <<p0Vars, nttVars, p12Vars, rdVars, fifoVars, accVars, fnVars, outVars>>

Done ==
  /\ state = "ST_DONE"
  /\ state' = "ST_IDLE" /\ ctr' = 0
  /\ UNCHANGED <<starts, qVars, p0Vars, nttVars, p12Vars, rdVars, fifoVars, accVars, fnVars, outVars>>

-----------------------------------------------------------------------------
(***************************************************************************)
(* relin_cu_p0_ntt: twiddle table, the L polynomials of ct2, inverse table.*)
(***************************************************************************)
P0WaitOver ==
  /\ Settled /\ NttDrained
  /\ \/ p0_state = "ST_WAIT_BEFORE_PSI"  /\ p0_state' = "ST_LOAD_PSI_START"
     \/ p0_state = "ST_WAIT_BEFORE_IPSI" /\ p0_state' = "ST_LOAD_IPSI_START"
  /\ UNCHANGED <<p0_ctr_L, p0_ctr_poly>>
  /\ UNCHANGED <<mainVars, qVars, nttVars, p12Vars, rdVars, fifoVars, accVars, fnVars, outVars>>

P0Load ==
  /\ \/ /\ p0_state = "ST_LOAD_PSI_START" /\ p0_state' = "ST_LOAD_PSI_WAIT_DONE"
        /\ Request({0}, <<"psi", PrimeOf(p0_ctr_L), 0>>)
     \/ /\ p0_state = "ST_LOAD_POLY_START" /\ p0_state' = "ST_LOAD_POLY_WAIT_DONE"
        /\ Request({0}, <<"ct2", p0_ctr_poly, 0>>)
     \/ /\ p0_state = "ST_LOAD_IPSI_START" /\ p0_state' = "ST_LOAD_IPSI_WAIT_DONE"
        /\ Request({0}, <<"psi", PrimeOf(p0_ctr_L), 1>>)
  /\ UNCHANGED <<p0_ctr_L, p0_ctr_poly>>
  /\ UNCHANGED <<mainVars, qVars, nttVars, p12Vars, fifoVars, accVars, fnVars, outVars>>

\* First word on port p0: a table is loaded and sets the mode of the NTT unit, spoiling what
\* is still inside; a polynomial enters the unit.
P0Valid ==
  /\ Settled /\ rd_state[0] = "busy"
  /\ rd_state' = [rd_state EXCEPT ![0] = "stream"]
  /\ CASE p0_state \in {"ST_LOAD_PSI_WAIT_DONE", "ST_LOAD_IPSI_WAIT_DONE"} ->
            /\ psi' = rd_data[0]
            /\ intt_q' = (p0_state = "ST_LOAD_IPSI_WAIT_DONE")
            /\ pipe' = [k \in 1 .. Len(pipe) |-> Junk]
       [] p0_state = "ST_LOAD_POLY_WAIT_DONE" ->
            /\ pipe' = Append(pipe, Transform(rd_data[0], psi, q_g1))
            /\ intt_q' = FALSE
            /\ UNCHANGED psi
       [] OTHER -> UNCHANGED nttVars
  /\ UNCHANGED <<rd_data, mainVars, qVars, p0Vars, p12Vars, fifoVars, accVars, fnVars, outVars>>

P0Done ==
  /\ Settled /\ rd_state[0] = "stream"
  /\ rd_state' = [rd_state EXCEPT ![0] = "idle"]
  /\ CASE p0_state = "ST_LOAD_PSI_WAIT_DONE"  -> p0_state' = "ST_LOAD_POLY_START" /\ UNCHANGED p0_ctr_poly
       [] p0_state = "ST_LOAD_POLY_WAIT_DONE" ->
            IF p0_ctr_poly < L - 1
            THEN p0_state' = "ST_LOAD_POLY_START" /\ p0_ctr_poly' = p0_ctr_poly + 1
            ELSE p0_state' = "ST_WAIT_BEFORE_IPSI" /\ p0_ctr_poly' = 0
       [] p0_state = "ST_LOAD_IPSI_WAIT_DONE" -> p0_state' = "ST_INTT_READY" /\ UNCHANGED p0_ctr_poly
       [] OTHER -> UNCHANGED <<p0_state, p0_ctr_poly>>
  /\ UNCHANGED <<p0_ctr_L, rd_data>>
  /\ UNCHANGED <<mainVars, qVars, nttVars, p12Vars, fifoVars, accVars, fnVars, outVars>>

\* intt_ready is start_read of the accumulators, where it is remembered.
P0InttReady ==
  /\ p0_state = "ST_INTT_READY"
  /\ p0_state' = "ST_IDLE" /\ p0_ctr_L' = NextRound(p0_ctr_L)
  /\ start_read_q' = TRUE
  /\ UNCHANGED <<p0_ctr_poly, state_i, acc_ctr, ren_1, sum, adding>>
  /\ UNCHANGED <<mainVars, qVars, nttVars, p12Vars, rdVars, fifoVars, fnVars, outVars>>

-----------------------------------------------------------------------------
(***************************************************************************)
(* relin_ntt_mux: results leave the unit in order, routed by the mode the  *)
(* unit is in when they leave.                                             *)
(***************************************************************************)
\* ntt_o_valid: into both FIFOs, and en_rlk to relin_cu_p1_p2.
NttOValid ==
  /\ Settled /\ pipe # <<>> /\ ~intt_q /\ KeysKeepUp
  /\ pipe' = Tail(pipe)
  /\ Push(Comp, Head(pipe))
  /\ en_rlk_q' = TRUE
  /\ UNCHANGED <<intt_q, psi, ctr_o, p12_state, p12_ctr, p12_ctr_L, en_poly_q>>
  /\ UNCHANGED <<mainVars, qVars, p0Vars, rdVars, accVars, fnVars, outVars>>

\* intt_o_valid in a round that adds no ct polynomial: straight through FIFO 0, or past it
\* without EN_ADD, into the final operation.
InttOValidToFn ==
  /\ Settled /\ pipe # <<>> /\ intt_q /\ ReadsOver /\ (ctr = 0 \/ ~en_add)
  /\ pipe' = Tail(pipe)
  /\ IF en_add
     THEN /\ Push({0}, Head(pipe)) /\ Pop(0)
          /\ FnIValid(fifo'[0][ctr_o[0]], rd_data[1])
     ELSE /\ FnIValid(Head(pipe), None)
          /\ UNCHANGED fifoVars
  /\ en_poly_q' = (en_poly_q \/ ctr # 0)
  /\ UNCHANGED <<intt_q, psi, p12_state, p12_ctr, p12_ctr_L, en_rlk_q>>
  /\ UNCHANGED <<qVars, p0Vars, rdVars, accVars>>

\* intt_o_valid in the other rounds: into FIFO 0, and en_poly to relin_cu_p1_p2.
InttOValidToFifo ==
  /\ Settled /\ pipe # <<>> /\ intt_q /\ ReadsOver /\ en_add /\ ctr # 0
  /\ pipe' = Tail(pipe)
  /\ Push({0}, Head(pipe))
  /\ en_poly_q' = TRUE
  /\ UNCHANGED <<intt_q, psi, ctr_o, p12_state, p12_ctr, p12_ctr_L, en_rlk_q>>
  /\ UNCHANGED <<mainVars, qVars, p0Vars, rdVars, accVars, fnVars, outVars>>

-----------------------------------------------------------------------------
(***************************************************************************)
(* relin_cu_p1_p2: per polynomial of ct2 a key on each of p1 and p2, then  *)
(* (except in the special prime's round) ct0 and ct1 on p1.                *)
(***************************************************************************)
P12LoadRlk ==
  /\ RlkRequested
  /\ p12_state' = "ST_WAIT_DONE" /\ en_rlk_q' = FALSE
  /\ Request({1, 2}, <<"rlk", PrimeOf(p12_ctr_L), p12_ctr>>)
  /\ UNCHANGED <<p12_ctr, p12_ctr_L, en_poly_q>>
  /\ UNCHANGED <<mainVars, qVars, p0Vars, nttVars, fifoVars, accVars, fnVars, outVars>>

P12LoadPoly ==
  /\ PolyRequested
  /\ en_poly_q' = FALSE
  /\ \E x \in Comp :
       /\ p12_state = <<"ST_LOAD_POLY_0", "ST_LOAD_POLY_1">>[x + 1]
       /\ p12_state' = <<"ST_WAIT_DONE_2", "ST_WAIT_DONE_3">>[x + 1]
       /\ Request({1}, <<"ct", PrimeOf(p12_ctr_L), x>>)
  /\ UNCHANGED <<p12_ctr, p12_ctr_L, en_rlk_q>>
  /\ UNCHANGED <<mainVars, qVars, p0Vars, nttVars, fifoVars, accVars, fnVars, outVars>>

\* First word on port p1: to the multiplier of accumulator 0, or to the final operation.
P1Valid ==
  /\ Settled /\ rd_state[1] = "busy"
  /\ rd_state' = [rd_state EXCEPT ![1] = "stream"]
  /\ Pop(0)
  /\ IF p1_sel
     THEN /\ FnIValid(Front(0), rd_data[1])
          /\ UNCHANGED accVars
     ELSE /\ SumWritten(0)
          /\ Accumulate(0, Multiply(Front(0), rd_data[1], q_g1))
          /\ UNCHANGED <<mainVars, fnVars, outVars>>
  /\ UNCHANGED <<rd_data, fifo, ctr_i, qVars, p0Vars, nttVars, p12Vars>>

\* First word on port p2: always to the multiplier of accumulator 1.
P2Valid ==
  /\ Settled /\ rd_state[2] = "busy" /\ SumWritten(1)
  /\ rd_state' = [rd_state EXCEPT ![2] = "stream"]
  /\ Pop(1)
  /\ Accumulate(1, Multiply(Front(1), rd_data[2], q_g1))
  /\ UNCHANGED <<rd_data, fifo, ctr_i, mainVars, qVars, p0Vars, nttVars, p12Vars, fnVars, outVars>>

\* Mutant: the special prime's round loads ct polynomials too.
CtFollowsEvery == en_add

\* After the last key of a round: are there ct polynomials to add?
CtFollows == en_add /\ p12_ctr_L # 0

\* Mutant: the key counter is not reset after the last key of a round.
NextKeyKept == IF p12_ctr < L - 1 THEN p12_ctr + 1 ELSE p12_ctr

NextKey == IF p12_ctr < L - 1 THEN p12_ctr + 1 ELSE 0

\* Both keys of a polynomial are loaded: next polynomial, or the end of the round's keys.
KeysLoaded ==
  LET last == p12_ctr = L - 1
  IN /\ p12_ctr' = NextKey
     /\ p12_state' = IF last /\ CtFollows THEN "ST_LOAD_POLY_0" ELSE "ST_LOAD_RLK"
     /\ p12_ctr_L' = IF last /\ ~CtFollows THEN NextRound(p12_ctr_L) ELSE p12_ctr_L

\* Mutant: done of one port ends the load of both keys.
BothLoadedAny(ends) == p12_state \in {"ST_WAIT_DONE", "ST_WAIT_DONE_0", "ST_WAIT_DONE_1"}

\* done of the second port, or of both in the same cycle.
BothLoaded(ends) ==
  \/ p12_state = "ST_WAIT_DONE" /\ ends = {1, 2}
  \/ p12_state = "ST_WAIT_DONE_0" /\ 1 \in ends
  \/ p12_state = "ST_WAIT_DONE_1" /\ 2 \in ends

\* done of the ports in `ends`, which may come in the same cycle.
P12Done(ends) ==
  /\ Settled /\ \A n \in ends : rd_state[n] = "stream"
  /\ rd_state' = [n \in Port |-> IF n \in ends THEN "idle" ELSE rd_state[n]]
  /\ CASE BothLoaded(ends) -> KeysLoaded
       [] p12_state = "ST_WAIT_DONE" /\ ~BothLoaded(ends) ->
            /\ p12_state' = IF 2 \in ends THEN "ST_WAIT_DONE_0" ELSE "ST_WAIT_DONE_1"
            /\ UNCHANGED <<p12_ctr, p12_ctr_L>>
       [] p12_state = "ST_WAIT_DONE_2" /\ 1 \in ends ->
            p12_state' = "ST_LOAD_POLY_1" /\ UNCHANGED <<p12_ctr, p12_ctr_L>>
       [] p12_state = "ST_WAIT_DONE_3" /\ 1 \in ends ->
            /\ p12_state' = "ST_LOAD_RLK" /\ p12_ctr_L' = NextRound(p12_ctr_L)
            /\ UNCHANGED p12_ctr
       [] OTHER -> UNCHANGED <<p12_state, p12_ctr, p12_ctr_L>>
  /\ UNCHANGED <<en_rlk_q, en_poly_q, rd_data>>
  /\ UNCHANGED <<mainVars, qVars, p0Vars, nttVars, fifoVars, accVars, fnVars, outVars>>

-----------------------------------------------------------------------------
(***************************************************************************)
(* relin_accum_wrapper: L products into each accumulator, then accumulator *)
(* 0 and after it accumulator 1 to the NTT unit.                           *)
(***************************************************************************)
\* wdone of accumulator x.
AccWDone(x) ==
  /\ Settled /\ adding[x]
  /\ adding' = [adding EXCEPT ![x] = FALSE]
  /\ acc_ctr' = IF state_i = "ST_NTT" /\ acc_ctr[x] < L THEN [acc_ctr EXCEPT ![x] = @ + 1] ELSE acc_ctr
  /\ UNCHANGED <<state_i, start_read_q, ren_1, sum>>
  /\ UNCHANGED <<mainVars, qVars, p0Vars, nttVars, p12Vars, rdVars, fifoVars, fnVars, outVars>>

AccAllDone ==
  /\ AccFull
  /\ state_i' = "ST_INTT_1" /\ acc_ctr' = [x \in Comp |-> 0]
  /\ UNCHANGED <<start_read_q, ren_1, sum, adding>>
  /\ UNCHANGED <<mainVars, qVars, p0Vars, nttVars, p12Vars, rdVars, fifoVars, fnVars, outVars>>

\* o_valid of accumulator x: it enters the NTT unit.
IntoIntt(x) ==
  /\ pipe' = Append(pipe, InverseTransform(sum[x], x, psi, q_g1))
  /\ intt_q' = TRUE
  /\ UNCHANGED psi

\* ren_0; acc_o_valid also reaches the main state machine.
AccRead0 ==
  /\ AccReading
  /\ state_i' = "ST_INTT_2" /\ start_read_q' = FALSE
  /\ IntoIntt(0)
  /\ state' = IF state = "ST_WAIT_ACC_O_VALID" THEN "ST_LOAD_Q_G2" ELSE state
  /\ UNCHANGED <<ctr, starts, acc_ctr, ren_1, sum, adding>>
  /\ UNCHANGED <<qVars, p0Vars, p12Vars, rdVars, fifoVars, fnVars, outVars>>

\* rdone of accumulator 0 starts the delay line of ren_1.
AccRead0Done ==
  /\ Settled /\ state_i = "ST_INTT_2"
  /\ state_i' = "ST_INTT_3" /\ ren_1' = TRUE
  /\ UNCHANGED <<acc_ctr, start_read_q, sum, adding>>
  /\ UNCHANGED <<mainVars, qVars, p0Vars, nttVars, p12Vars, rdVars, fifoVars, fnVars, outVars>>

\* READ_DELAY cycles later accumulator 1 is read.
AccRead1 ==
  /\ Settled /\ ren_1
  /\ ren_1' = FALSE
  /\ IntoIntt(1)
  /\ state' = IF state = "ST_WAIT_ACC_O_VALID" THEN "ST_LOAD_Q_G2" ELSE state
  /\ UNCHANGED <<ctr, starts, state_i, acc_ctr, start_read_q, sum, adding>>
  /\ UNCHANGED <<qVars, p0Vars, p12Vars, rdVars, fifoVars, fnVars, outVars>>

AccRead1Done ==
  /\ Settled /\ state_i = "ST_INTT_3" /\ ~ren_1
  /\ state_i' = "ST_NTT"
  /\ UNCHANGED <<acc_ctr, start_read_q, ren_1, sum, adding>>
  /\ UNCHANGED <<mainVars, qVars, p0Vars, nttVars, p12Vars, rdVars, fifoVars, fnVars, outVars>>

-----------------------------------------------------------------------------
(***************************************************************************)
(* relin_cu_out and the write port p3.                                     *)
(***************************************************************************)
\* Mutant: relin_cu_out is done after the first component.
AfterWriteEnd == "ST_END"

AfterWrite == IF out_state = "ST_POLY_0_WRITE_WAIT_DONE" THEN "ST_POLY_1_WRITE_START" ELSE "ST_END"

P3Done ==
  /\ Settled /\ wr.busy
  /\ mem' = [mem EXCEPT ![wr.x][wr.i] = wr.data]
  /\ wr' = Idle
  /\ out_state' = AfterWrite
  /\ UNCHANGED out_ctr
  /\ UNCHANGED <<mainVars, qVars, p0Vars, nttVars, p12Vars, rdVars, fifoVars, accVars, fnVars>>

\* Mutant: every round is written to the place of the first one.
NextOutFixed == out_ctr

NextOut == IF out_ctr = L - 1 THEN 0 ELSE out_ctr + 1

\* done of relin_cu_out reaches the main state machine, which hears it in one state.
OutEnd ==
  /\ out_state = "ST_END"
  /\ out_state' = "ST_POLY_0_WRITE_START"
  /\ out_ctr' = NextOut
  /\ IF state = "ST_WAIT_W_DONE"
     THEN IF ctr = L THEN state' = "ST_DONE" /\ UNCHANGED ctr
                     ELSE state' = "ST_LOAD_Q_G1" /\ ctr' = ctr + 1
     ELSE UNCHANGED <<state, ctr>>
  /\ UNCHANGED <<starts, wr, mem>>
  /\ UNCHANGED <<qVars, p0Vars, nttVars, p12Vars, rdVars, fifoVars, accVars, fnVars>>

-----------------------------------------------------------------------------
Step ==
  \/ LoadQG1 \/ Op \/ LoadQG2 \/ Done
  \/ P0WaitOver \/ P0Load \/ P0Valid \/ P0Done \/ P0InttReady
  \/ NttOValid \/ InttOValidToFn \/ InttOValidToFifo
  \/ P12LoadRlk \/ P12LoadPoly \/ P1Valid \/ P2Valid
  \/ \E ends \in {{1}, {2}, {1, 2}} : P12Done(ends)
  \/ \E x \in Comp : AccWDone(x)
  \/ AccAllDone \/ AccRead0 \/ AccRead0Done \/ AccRead1 \/ AccRead1Done
  \/ P3Done \/ OutEnd

Next == Start \/ Step

\* The clock runs and HBM answers; nothing makes anyone start a run.
Spec == Init /\ [][Next]_vars /\ WF_vars(Step)

-----------------------------------------------------------------------------
(***************************************************************************)
(* Properties.                                                             *)
(***************************************************************************)
\* The words of ct1 are taken, only the done pulse of port p1 is still under way.
CtLoaded == p12_state = "ST_WAIT_DONE_3" /\ rd_state[1] = "stream"

\* The modulus a unit computes with is that of the round it is in: relin_q_loader counts the rounds
\* by itself, one load_q_g2 at a time, and the main state machine counts them by the results.
ModuliAligned ==
  /\ q_ctr = IF state \in {"ST_WAIT_FN_DONE", "ST_WAIT_W_DONE", "ST_DONE"} THEN NextRound(ctr) ELSE ctr
  /\ state \in {"ST_OP", "ST_WAIT_ACC_O_VALID", "ST_LOAD_Q_G2"} => q_g1 = PrimeOf(ctr)
  /\ state \in {"ST_WAIT_FN_DONE", "ST_WAIT_W_DONE"} => q_g2 = PrimeOf(ctr)

\* The control units of the HBM ports count the rounds by themselves too. A unit that works on a
\* round has the counter of the main state machine; a round begins with all of them there.
PortsAligned ==
  /\ p0_state # "ST_IDLE" => state = "ST_WAIT_ACC_O_VALID" /\ p0_ctr_L = ctr
  /\ p12_state # "ST_LOAD_RLK" /\ ~CtLoaded =>
       p12_ctr_L = ctr /\ state \in {"ST_WAIT_ACC_O_VALID", "ST_LOAD_Q_G2", "ST_WAIT_FN_DONE", "ST_WAIT_W_DONE"}
  /\ out_state # "ST_POLY_0_WRITE_START" => ctr = out_ctr + 1 /\ state = "ST_WAIT_W_DONE"
  /\ state \in {"ST_LOAD_Q_G1", "ST_OP"} =>
       /\ p0_ctr_L = ctr
       /\ p12_ctr_L = ctr \/ CtLoaded
       /\ out_ctr = IF ctr = 0 THEN 0 ELSE ctr - 1

\* Nothing of a round is left when the next one is announced: no polynomial in a unit or a FIFO,
\* no request at a port, no unit waiting for a word of the round before.
RoundStartsClean ==
  state \in {"ST_LOAD_Q_G1", "ST_OP"} =>
    /\ p0_state = "ST_IDLE" /\ (p12_state = "ST_LOAD_RLK" \/ CtLoaded) /\ p12_ctr = 0 /\ ~en_rlk_q
    /\ pipe = <<>> /\ ctr_i = ctr_o
    /\ \A n \in Port : rd_state[n] = "idle" \/ (n = 1 /\ CtLoaded)
    /\ state_i = "ST_NTT" /\ ~start_read_q /\ ~ren_1
    /\ \A x \in Comp : acc_ctr[x] = 0 /\ ~adding[x]
    /\ fn_ctr = 0 /\ out_state = "ST_POLY_0_WRITE_START" /\ ~wr.busy

\* A pulse is not acknowledged: whoever sends one finds the receiver in the state that hears it.
\* A read port hears a request only when it is idle.
RequestsHeard ==
  /\ p0_state \in {"ST_LOAD_PSI_START", "ST_LOAD_POLY_START", "ST_LOAD_IPSI_START"} => rd_state[0] = "idle"
  /\ RlkRequested => rd_state[1] = "idle" /\ rd_state[2] = "idle"
  /\ PolyRequested => rd_state[1] = "idle"

\* cu_p0_start, intt_ready, the first acc_o_valid of a round and the done of relin_cu_out are each
\* heard; the second acc_o_valid of a round is not taken for the first one of the next.
PulsesHeard ==
  /\ state = "ST_OP" => p0_state = "ST_IDLE"
  /\ p0_state = "ST_INTT_READY" => ~start_read_q /\ state_i \in {"ST_NTT", "ST_INTT_1"}
  /\ AccReading => state = "ST_WAIT_ACC_O_VALID"
  /\ ren_1 => state # "ST_WAIT_ACC_O_VALID"
  /\ out_state = "ST_END" => state = "ST_WAIT_W_DONE"

\* No unit ever combined operands that do not belong together: every modulus, twiddle table, key,
\* sum and kept polynomial is that of the polynomial it is used on, in every one of the rounds.
OperandsMatch ==
  /\ \A k \in 1 .. Len(pipe) : pipe[k] # Junk
  /\ \A x \in Comp : /\ Junk \notin sum[x] /\ kept[x] # Junk
                     /\ \A s \in Slot : fifo[x][s] # Junk
                     /\ \A i \in Poly : mem[x][i] \in {None, Result(x, i)}
  /\ wr.busy => wr.data = Result(wr.x, wr.i)

\* The words of an accumulator being read are not overwritten by a product of the next round.
ReadUndisturbed ==
  [][state_i = "ST_INTT_2" \/ (state_i = "ST_INTT_3" /\ ~ren_1) => sum' = sum]_vars

\* A modulus is not replaced under a unit that still has words of the old round to take.
ModulusHeld ==
  [][q_g1' # q_g1 => /\ pipe = <<>>
                     /\ \A n \in Port : rd_state[n] = "idle" \/ (n = 1 /\ CtLoaded)
                     /\ \A x \in Comp : ~adding[x]]_vars

\* The core does what it promises: RelinService with the results in HBM, counted by the write port.
Service == INSTANCE RelinService WITH
  running   <- state # "ST_IDLE",
  delivered <- IF state = "ST_DONE" THEN 2 * L
               ELSE 2 * out_ctr + (CASE out_state \in {"ST_POLY_1_WRITE_START", "ST_POLY_1_WRITE_WAIT_DONE"} -> 1
                                     [] out_state = "ST_END" -> 2
                                     [] OTHER -> 0),
  results   <- mem

ImplementsService == Service!Spec

\* A started run ends, and then every result is in HBM. Nothing retries a lost pulse or request.
RunFinishes ==
  state # "ST_IDLE" ~> state = "ST_IDLE" /\ \A x \in Comp : \A i \in Poly : mem[x][i] = Result(x, i)

\* kernel.xml:3, hwControlProtocol="ap_ctrl_hs": a kernel that is done can be started again. What the
\* core writes is the result in every run, not in the first one after a reset only.
EveryRunRight == wr.busy => wr.data = Result(wr.x, wr.i)
=============================================================================
