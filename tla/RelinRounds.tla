----------------------------- MODULE RelinRounds -----------------------------
(***************************************************************************)
(* Where the units of the core stand in a round: the inductive invariant   *)
(* behind PortsAligned, RoundStartsClean, PulsesHeard and OperandsMatch.   *)
(*                                                                         *)
(* A round has three phases. At rest every unit is done with the last      *)
(* round; only the done pulse of the last ct polynomial may be under way.  *)
(* Forward the polynomials of ct2 go through NTT unit, FIFOs, multipliers *)
(* and accumulators. Backward the two sums go through the NTT unit and the  *)
(* final operation to the results. A unit is located by counts: how many   *)
(* polynomials of the round have passed each point of the path, read off   *)
(* the states and counters of the units there.                             *)
(***************************************************************************)
EXTENDS Relin

\* The core is right in the run after a reset; see EveryRunRight.
FirstRun == starts =< 1

Rest  == state \in {"ST_IDLE", "ST_LOAD_Q_G1", "ST_OP", "ST_DONE"}
Forward == state = "ST_WAIT_ACC_O_VALID"
Backward  == state \in {"ST_LOAD_Q_G2", "ST_WAIT_FN_DONE", "ST_WAIT_W_DONE"}

\* The round at work, or at rest the round to come.
Now == IF state = "ST_DONE" THEN 0 ELSE ctr

\* Does the round add ct0 and ct1?
Adds == en_add /\ ctr # 0

KeyWait == {"ST_WAIT_DONE", "ST_WAIT_DONE_0", "ST_WAIT_DONE_1"}

-----------------------------------------------------------------------------
(***************************************************************************)
(* Counts of the forward phase.                                              *)
(***************************************************************************)
\* Polynomials of ct2 that have entered the NTT unit.
In ==
  CASE p0_state = "ST_LOAD_POLY_START"     -> p0_ctr_poly
    [] p0_state = "ST_LOAD_POLY_WAIT_DONE" -> IF rd_state[0] = "stream" THEN p0_ctr_poly + 1 ELSE p0_ctr_poly
    [] p0_state \in {"ST_WAIT_BEFORE_PSI", "ST_LOAD_PSI_START", "ST_LOAD_PSI_WAIT_DONE"} -> 0
    [] OTHER -> L

\* Those whose keys have been asked for.
Asked ==
  CASE p12_state \in KeyWait                         -> p12_ctr + 1
    [] p12_state = "ST_LOAD_RLK" /\ p12_ctr_L = ctr  -> p12_ctr
    [] p12_state = "ST_WAIT_DONE_3"                  -> 0
    [] OTHER                                         -> L

\* Those that have left the NTT unit.
Out == IF en_rlk_q THEN Asked + 1 ELSE Asked

\* Those that have been multiplied into accumulator x.
Mult(x) == IF p12_state \in KeyWait /\ rd_state[x + 1] = "busy" THEN p12_ctr ELSE Asked

\* FIFO x holds n polynomials.
Holds(x, n) ==
  \/ n = 0 /\ ctr_i[x] = ctr_o[x]
  \/ n = 1 /\ ctr_i[x] = NextSlot(ctr_o[x])
  \/ n = 2 /\ ctr_i[x] = NextSlot(NextSlot(ctr_o[x]))

(***************************************************************************)
(* Counts of the backward phase.                                               *)
(***************************************************************************)
\* Sums that have entered the NTT unit, and those that have left it.
Entered == IF state_i = "ST_INTT_2" \/ ren_1 THEN 1 ELSE 2
Left    == Entered - Len(pipe)

\* Polynomials of ct0, ct1 that have been asked for.
CtAsked ==
  CASE p12_state \in {"ST_WAIT_DONE_2", "ST_LOAD_POLY_1"} -> 1
    [] p12_state \in {"ST_WAIT_DONE_3", "ST_LOAD_RLK"}    -> 2
    [] OTHER                                              -> 0

\* Sums that have entered the final operation.
Fin ==
  IF ~Adds THEN Left
  ELSE IF p12_state \in {"ST_WAIT_DONE_2", "ST_WAIT_DONE_3"} /\ rd_state[1] = "busy" THEN CtAsked - 1
  ELSE CtAsked

-----------------------------------------------------------------------------
(***************************************************************************)
(* The invariant, one group of units at a time.                            *)
(***************************************************************************)
MainInv ==
  /\ state # "ST_IDLE" => starts > 0 /\ (last_q <=> ctr = 0)
  /\ state = "ST_IDLE" => ctr = 0 /\ (starts = 0 => last_q)
  /\ state = "ST_WAIT_FN_DONE" => ctr = 0
  /\ state = "ST_WAIT_W_DONE" => ctr # 0
  /\ state = "ST_DONE" => ctr = L

P0Inv ==
  /\ ~Forward => p0_state = "ST_IDLE"
  /\ p0_ctr_L = IF Rest THEN Now ELSE IF p0_state # "ST_IDLE" THEN ctr ELSE NextRound(ctr)
  /\ p0_state \notin {"ST_LOAD_POLY_START", "ST_LOAD_POLY_WAIT_DONE"} => p0_ctr_poly = 0
  /\ start_read_q <=> Forward /\ p0_state = "ST_IDLE"

\* relin_cu_p1_p2 has yet to hear that the last ct polynomial of the round before r is loaded.
Lags(r) == CtLoaded /\ NextRound(p12_ctr_L) = r /\ p12_ctr = 0

\* relin_cu_p1_p2 is done with round r.
Leads(r) == p12_state = "ST_LOAD_RLK" /\ p12_ctr_L = NextRound(r) /\ p12_ctr = 0

P12Rest == (p12_state = "ST_LOAD_RLK" /\ p12_ctr_L = Now /\ p12_ctr = 0) \/ Lags(Now)
P12Forward ==
  \/ Lags(ctr)
  \/ p12_state \in KeyWait \union {"ST_LOAD_RLK"} /\ p12_ctr_L = ctr
  \/ ~Adds /\ Leads(ctr)
  \/ Adds /\ p12_state = "ST_LOAD_POLY_0" /\ p12_ctr_L = ctr /\ p12_ctr = 0

P12Backward ==
  \/ /\ p12_state \in KeyWait /\ p12_ctr_L = ctr /\ p12_ctr = L - 1
     /\ rd_state[1] # "busy" /\ rd_state[2] # "busy"
  \/ Leads(ctr)
  \/ /\ Adds /\ p12_ctr_L = ctr /\ p12_ctr = 0
     /\ p12_state \in {"ST_LOAD_POLY_0", "ST_WAIT_DONE_2", "ST_LOAD_POLY_1", "ST_WAIT_DONE_3"}

P12Inv ==
  /\ Rest => P12Rest
  /\ Forward => P12Forward
  /\ Backward => P12Backward
  /\ ~Forward => ~en_rlk_q
  /\ en_add /\ ~(Backward /\ ctr # 0) => ~en_poly_q

NttInv ==
  /\ Rest => pipe = <<>>
  /\ Forward => Len(pipe) = In - Out
  /\ Forward /\ p0_state \in {"ST_LOAD_IPSI_START", "ST_LOAD_IPSI_WAIT_DONE", "ST_INTT_READY", "ST_IDLE"} => pipe = <<>>
  /\ p0_state \in {"ST_LOAD_POLY_START", "ST_LOAD_POLY_WAIT_DONE", "ST_WAIT_BEFORE_IPSI"} => ~intt_q
  /\ p0_state = "ST_LOAD_PSI_WAIT_DONE" /\ rd_state[0] = "stream" => ~intt_q
  /\ p0_state = "ST_LOAD_IPSI_WAIT_DONE" /\ rd_state[0] = "stream" => intt_q
  /\ p0_state = "ST_INTT_READY" \/ (Forward /\ p0_state = "ST_IDLE") \/ Backward => intt_q

FifoInv ==
  /\ Rest  => \A x \in Comp : Holds(x, 0)
  /\ Forward => \A x \in Comp : Holds(x, Out - Mult(x))
  /\ Backward  => Holds(0, IF Adds THEN Left - Fin ELSE 0) /\ Holds(1, 0)

AccInv ==
  /\ Rest => state_i = "ST_NTT"
  /\ Forward => state_i \in {"ST_NTT", "ST_INTT_1"}
  /\ Backward => state_i \in {"ST_INTT_2", "ST_INTT_3", "ST_NTT"}
  /\ ren_1 => Backward /\ state_i = "ST_INTT_3"
  /\ \A x \in Comp :
       IF Forward /\ state_i = "ST_NTT"
       THEN Mult(x) = IF adding[x] THEN acc_ctr[x] + 1 ELSE acc_ctr[x]
       ELSE acc_ctr[x] = 0 /\ ~adding[x] /\ (Forward => Mult(x) = L)

BackwardInv ==
  Backward =>
    /\ Left \in 0 .. 2
    /\ state = "ST_LOAD_Q_G2" => state_i = "ST_INTT_2"
    /\ state_i = "ST_INTT_2" => Left = 0
    /\ state_i = "ST_INTT_3" => Left =< 1
    /\ p12_state \in KeyWait => Left = 0
    /\ ctr = 0 => Left =< 1
    /\ Adds => /\ Fin =< Left
               /\ IF en_poly_q THEN Left = CtAsked + 1 ELSE Left = CtAsked

WriteState(n) == IF n = 0 THEN {"ST_POLY_0_WRITE_START"}
               ELSE IF n = 1 THEN {"ST_POLY_0_WRITE_WAIT_DONE", "ST_POLY_1_WRITE_START"}
               ELSE {"ST_POLY_1_WRITE_WAIT_DONE", "ST_END"}

OutInv ==
  /\ fn_ctr = IF Backward /\ Fin = 1 THEN 1 ELSE 0
  /\ offset_q = 1 - fn_ctr
  /\ out_ctr = IF Now = 0 THEN 0 ELSE Now - 1
  /\ out_state \in IF Backward /\ ctr # 0 THEN WriteState(Fin) ELSE {"ST_POLY_0_WRITE_START"}
  /\ wr.busy <=> out_state \in {"ST_POLY_0_WRITE_WAIT_DONE", "ST_POLY_1_WRITE_WAIT_DONE"}
  /\ wr.busy => wr.i = out_ctr /\ wr.x = IF out_state = "ST_POLY_0_WRITE_WAIT_DONE" THEN 0 ELSE 1

Control == /\ MainInv /\ P0Inv /\ P12Inv /\ NttInv
           /\ FifoInv /\ AccInv /\ BackwardInv /\ OutInv

ControlInv == FirstRun => Control

-----------------------------------------------------------------------------
(***************************************************************************)
(* What the places of the path hold, given where the units stand.          *)
(***************************************************************************)
\* The prime of the round at work.
Q == PrimeOf(ctr)

ModuliInv1 == state \in {"ST_OP"} \/ Forward \/ Backward => q_g1 = Q
ModuliInv2 == state \in {"ST_WAIT_FN_DONE", "ST_WAIT_W_DONE"} => q_g2 = Q

\* What the ports are reading is what the control units wait for.
PortData ==
  /\ p0_state = "ST_LOAD_PSI_WAIT_DONE"  => rd_data[0] = <<"psi", Q, 0>>
  /\ p0_state = "ST_LOAD_POLY_WAIT_DONE" => rd_data[0] = <<"ct2", p0_ctr_poly, 0>>
  /\ p0_state = "ST_LOAD_IPSI_WAIT_DONE" => rd_data[0] = <<"psi", Q, 1>>
  /\ p12_state \in KeyWait => \A x \in Comp : rd_data[x + 1] = <<"rlk", Q, p12_ctr>>
  /\ p12_state = "ST_WAIT_DONE_2" => rd_data[1] = <<"ct", Q, 0>>
  /\ p12_state = "ST_WAIT_DONE_3" /\ Backward => rd_data[1] = <<"ct", Q, 1>>

TableData ==
  /\ p0_state \in {"ST_LOAD_POLY_START", "ST_LOAD_POLY_WAIT_DONE", "ST_WAIT_BEFORE_IPSI"} => psi = <<"psi", Q, 0>>
  /\ p0_state = "ST_LOAD_PSI_WAIT_DONE" /\ rd_state[0] = "stream" => psi = <<"psi", Q, 0>>
  /\ p0_state = "ST_LOAD_IPSI_WAIT_DONE" /\ rd_state[0] = "stream" => psi = <<"psi", Q, 1>>
  /\ p0_state = "ST_INTT_READY" \/ (Forward /\ p0_state = "ST_IDLE") \/ Backward => psi = <<"psi", Q, 1>>

PipeData ==
  \A k \in 1 .. Len(pipe) : pipe[k] = IF Forward THEN <<"ntt", Q, Out + k - 1>> ELSE <<"ksw", Q, Left + k - 1>>

\* FIFO x, if it holds n polynomials, holds a in front and b behind it.
Queue(x, n, a, b) ==
  /\ n > 0 => fifo[x][ctr_o[x]] = a
  /\ n > 1 => fifo[x][NextSlot(ctr_o[x])] = b

FifoData ==
  /\ Forward => \A x \in Comp : Queue(x, Out - Mult(x), <<"ntt", Q, Mult(x)>>, <<"ntt", Q, Mult(x) + 1>>)
  /\ Backward /\ Adds => Queue(0, Left - Fin, <<"ksw", Q, Fin>>, <<"ksw", Q, Fin + 1>>)

\* The sum of the first n products modulo q.
SumOf(q, n) == {<<"prod", q, j>> : j \in 0 .. n - 1}

SumData ==
  /\ Forward => \A x \in Comp : Mult(x) > 0 => sum[x] = SumOf(Q, Mult(x))
  /\ Backward /\ Entered = 1 => sum[1] = FullSum(Q)

KeptData ==
  /\ state # "ST_IDLE" /\ ctr # 0 => \A x \in Comp : kept[x] = <<"ksw", L, x>>
  /\ Backward /\ Fin = 1 => kept[0] = <<"ksw", L, 0>>

WriteData == wr.busy => wr.data = Result(wr.x, wr.i)

\* Nothing spoilt is left where a later round could meet it.
Clean ==
  \A x \in Comp : /\ Junk \notin sum[x] /\ kept[x] # Junk
                  /\ \A s \in Slot : fifo[x][s] # Junk
                  /\ \A i \in Poly : mem[x][i] \in {None, Result(x, i)}

Data == /\ ModuliInv1 /\ ModuliInv2 /\ PortData /\ TableData /\ PipeData /\ FifoData
        /\ SumData /\ KeptData /\ WriteData /\ Clean

DataInv == FirstRun => Data
=============================================================================
