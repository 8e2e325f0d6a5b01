----------------------------- MODULE RelinProofs -----------------------------
(***************************************************************************)
(* Theorems about the relinearization core, for every number of primes and *)
(* every FIFO depth, with and without the final addition. First, for any   *)
(* number of runs, what type every register has, that the moduli are in    *)
(* step and that no request is lost. Then, for the first run after a       *)
(* reset: where the units of the core stand (no pulse is lost and every    *)
(* unit is ready for the next round), and what the core computes (no unit  *)
(* combines operands that do not belong together, and the results come in  *)
(* order, each right).                                                     *)
(***************************************************************************)
EXTENDS RelinRounds, SequenceTheorems, TLAPS

-----------------------------------------------------------------------------
(***************************************************************************)
(* The operators of RelinData.                                             *)
(***************************************************************************)
\* A modulus, once loaded, is one of the L + 1: the round counters never name another.
LEMMA PrimeOfType == \A c \in Round : PrimeOf(c) \in Prime
BY LAssumption DEF Round, Prime, PrimeOf

\* The round after a round is a round.
LEMMA NextRoundType == \A c \in Round : NextRound(c) \in Round
BY LAssumption DEF Round, NextRound

\* What a unit is handed by its neighbours stays in the range the wires can carry.
LEMMA ValueType ==
  /\ None \in Value /\ Junk \in Value
  /\ \A q \in Prime, j \in Prime, k \in Kind : <<k, q, j>> \in Value
  /\ \A p \in Value : p[2] \in Prime /\ p[3] \in Prime
<1>1. 0 \in Prime
  BY LAssumption DEF Prime
<1>2. None \in Value /\ Junk \in Value
  BY <1>1 DEF Value, Kind, None, Junk
<1>3. \A q \in Prime, j \in Prime, k \in Kind : <<k, q, j>> \in Value
  BY DEF Value
<1>4. \A p \in Value : p[2] \in Prime /\ p[3] \in Prime
  BY DEF Value
<1> QED
  BY <1>2, <1>3, <1>4

\* A transformed polynomial is a value.
LEMMA TransformType ==
  \A p \in Value, tab \in Value, q \in Prime : Transform(p, tab, q) \in Value
BY ValueType DEF Transform, Kind

\* A product is a value.
LEMMA MultiplyType ==
  \A p \in Value, key \in Value, q \in Prime : Multiply(p, key, q) \in Value
BY ValueType DEF Multiply, Kind

\* A sum is a set of values.
LEMMA AddType ==
  \A s \in SUBSET Value, p \in Value, first \in BOOLEAN : Add(s, p, first) \in SUBSET Value
BY ValueType DEF Add

\* The inverse transform of a sum is a value.
LEMMA InverseTransformType ==
  \A s \in SUBSET Value, x \in Comp, tab \in Value, q \in Prime :
    InverseTransform(s, x, tab, q) \in Value
<1>1. Comp \subseteq Prime
  BY LAssumption DEF Comp, Prime
<1> QED
  BY <1>1, ValueType DEF InverseTransform, Kind

\* A value with half the prime added is a value.
LEMMA AddHalfType == \A p \in Value, q \in Prime : AddHalf(p, q) \in Value
BY ValueType DEF AddHalf

\* A result of the final operation is a value.
LEMMA CombineType ==
  \A a \in Value, b \in Value, k \in Value, q \in Prime, add \in BOOLEAN :
    Combine(a, b, k, q, add) \in Value
BY ValueType DEF Combine, Kind

-----------------------------------------------------------------------------
(***************************************************************************)
(* What the units compute from operands that belong together.              *)
(***************************************************************************)
LEMMA TransformRight == \A q, i : Transform(<<"ct2", i, 0>>, <<"psi", q, 0>>, q) = <<"ntt", q, i>>
BY DEF Transform

\* The product of a polynomial and the key that belong together is the right one.
LEMMA MultiplyRight == \A q, i : Multiply(<<"ntt", q, i>>, <<"rlk", q, i>>, q) = <<"prod", q, i>>
BY DEF Multiply

\* The inverse transform of a full sum with the right table is the key-switched polynomial.
LEMMA InverseTransformRight ==
  \A q, x : InverseTransform(FullSum(q), x, <<"psi", q, 1>>, q) = <<"ksw", q, x>>
BY DEF InverseTransform

\* A key-switched polynomial with half the prime added goes by the same name.
LEMMA AddHalfRight == \A q, x : AddHalf(<<"ksw", q, x>>, q) = <<"ksw", q, x>>
BY DEF AddHalf

\* From the operands of one prime and component comes their result.
LEMMA CombineRight ==
  ASSUME NEW q, NEW x \in Comp, NEW b, NEW add \in BOOLEAN, add => b = <<"ct", q, x>>
  PROVE  Combine(<<"ksw", q, x>>, b, <<"ksw", L, x>>, q, add) = Result(x, q)
BY DEF Combine, Result

\* What is named is right: it is neither Junk nor None.
LEMMA NamedRight ==
  \A q, i : \A k \in {"ct", "ct2", "psi", "rlk", "ntt", "prod", "ksw", "out"} :
    <<k, q, i>> # Junk /\ <<k, q, i>> # None
BY DEF Junk, None

-----------------------------------------------------------------------------
(***************************************************************************)
(* Types, one group of registers at a time.                                *)
(***************************************************************************)
LEMMA InitType == Init => TypeOK
<1> SUFFICES ASSUME Init PROVE TypeOK
  OBVIOUS
<1>1. 0 \in Round /\ 0 \in Prime /\ 0 \in Poly /\ 0 \in Slot /\ 0 \in 0 .. MaxStarts
  BY LAssumption, FifoAssumption, MaxStartsAssumption DEF Round, Prime, Poly, Slot
<1>2. MainType /\ QType /\ P0Type /\ P12Type
  BY <1>1 DEF Init, MainType, QType, P0Type, P12Type, MainState, P0State, P12State
<1>3. NttType
  <2>1. pipe = <<>> /\ psi \in Value /\ intt_q = FALSE
    BY ValueType DEF Init
  <2> QED
    BY <2>1, EmptySeq DEF NttType
<1>4. RdType /\ FifoType
  BY <1>1, ValueType DEF Init, RdType, FifoType
<1>5. FnType
  BY ValueType DEF Init, FnType
<1>6. AccType
  BY <1>1 DEF Init, AccType, AccState
<1>7. OutType
  BY <1>1, ValueType DEF Init, OutType, OutState, Write, Idle, Comp
<1> QED
  BY <1>2, <1>3, <1>4, <1>5, <1>6, <1>7 DEF TypeOK

\* What a step leaves alone keeps its type.
LEMMA FrameType ==
  ASSUME TypeOK
  PROVE  /\ UNCHANGED mainVars => MainType'
         /\ UNCHANGED qVars => QType'
         /\ UNCHANGED p0Vars => P0Type'
         /\ UNCHANGED nttVars => NttType'
         /\ UNCHANGED p12Vars => P12Type'
         /\ UNCHANGED rdVars => RdType'
         /\ UNCHANGED fifoVars => FifoType'
         /\ UNCHANGED accVars => AccType'
         /\ UNCHANGED fnVars => FnType'
         /\ UNCHANGED outVars => OutType'
BY DEF TypeOK, MainType, QType, P0Type, NttType, P12Type, RdType, FifoType, AccType, FnType, OutType,
       mainVars, qVars, p0Vars, nttVars, p12Vars, rdVars, fifoVars, accVars, fnVars, outVars

\* A request keeps the types of the read ports.
LEMMA RequestType ==
  ASSUME RdType, NEW ports, NEW data \in Value, Request(ports, data)
  PROVE  RdType'
BY DEF RdType, Request

\* A polynomial pushed keeps the types of the FIFOs.
LEMMA PushType ==
  ASSUME FifoType, NEW xs, NEW v \in Value, Push(xs, v)
  PROVE  fifo' \in [Comp -> [Slot -> Value]] /\ ctr_i' \in [Comp -> Slot]
<1>1. \A s \in Slot : NextSlot(s) \in Slot
  BY FifoAssumption DEF Slot, NextSlot
<1> QED
  BY <1>1 DEF FifoType, Push

\* A polynomial popped keeps the type of the read pointers.
LEMMA PopType ==
  ASSUME FifoType, NEW x \in Comp, Pop(x)
  PROVE  ctr_o' \in [Comp -> Slot]
<1>1. \A s \in Slot : NextSlot(s) \in Slot
  BY FifoAssumption DEF Slot, NextSlot
<1> QED
  BY <1>1 DEF FifoType, Pop

\* A product added keeps the types of the accumulators.
LEMMA AccumulateType ==
  ASSUME AccType, NEW x \in Comp, NEW v \in Value, Accumulate(x, v)
  PROVE  AccType'
<1>1. Add(sum[x], v, acc_ctr[x] = 0) \in SUBSET Value
  BY AddType DEF AccType
<1> QED
  BY <1>1 DEF AccType, Accumulate

\* A result given out keeps the types of the output.
LEMMA OValidType ==
  ASSUME OutType, NEW v \in Value, OValid(v)
  PROVE  OutType'
BY DEF OutType, OValid, OutState, Write, Comp

\* The end of a polynomial's final operation keeps the types of the main state machine.
LEMMA FnIDoneType ==
  ASSUME MainType, FnIDone
  PROVE  MainType'
BY NextRoundType DEF MainType, FnIDone, MainState, mainVars

\* A polynomial for the final operation keeps the types it touches.
LEMMA FnIValidType ==
  ASSUME MainType, FnType, OutType, q_g2 \in Prime,
         NEW a \in Value, NEW b \in Value, FnIValid(a, b)
  PROVE  MainType' /\ FnType' /\ OutType'
<1>1. MainType'
  BY FnIDoneType DEF FnIValid
<1>2. fn_ctr' \in 0 .. 1 /\ offset_q' \in 0 .. 1 /\ last_q' \in BOOLEAN
  BY DEF FnType, FnIValid
<1>3. AddHalf(a, q_g2) \in Value /\ Combine(a, b, kept[offset_q'], q_g2, en_add) \in Value
  BY <1>2, AddHalfType, CombineType, BuildsAssumption DEF FnType
<1>4. CASE last_q
  BY <1>1, <1>2, <1>3, <1>4 DEF FnType, OutType, FnIValid, outVars
<1>5. CASE ~last_q
  BY <1>1, <1>2, <1>3, <1>5, OValidType DEF FnType, FnIValid
<1> QED
  BY <1>4, <1>5

\* Every step keeps the types.
LEMMA StepType == TypeOK /\ [Next]_vars => TypeOK'
<1> SUFFICES ASSUME TypeOK, [Next]_vars PROVE TypeOK'
  OBVIOUS
<1> USE FrameType DEF TypeOK
<1>1. CASE Start
  <2>1. MainType'
    BY <1>1, MaxStartsAssumption DEF Start, MainType, MainState
  <2> QED
    BY <1>1, <2>1 DEF Start
<1>2. CASE LoadQG1
  <2>1. MainType' /\ QType'
    BY <1>2, PrimeOfType DEF LoadQG1, MainType, QType, MainState
  <2> QED
    BY <1>2, <2>1 DEF LoadQG1
<1>3. CASE Op
  <2>1. MainType' /\ P0Type'
    BY <1>3 DEF Op, MainType, P0Type, MainState, P0State
  <2> QED
    BY <1>3, <2>1 DEF Op
<1>4. CASE LoadQG2
  <2>1. MainType' /\ QType'
    BY <1>4, PrimeOfType, NextRoundType DEF LoadQG2, AfterG2, MainType, QType, MainState
  <2> QED
    BY <1>4, <2>1 DEF LoadQG2
<1>5. CASE Done
  <2>1. MainType'
    BY <1>5, LAssumption DEF Done, MainType, MainState, Round
  <2> QED
    BY <1>5, <2>1 DEF Done
<1>6. CASE P0WaitOver
  <2>1. P0Type'
    BY <1>6 DEF P0WaitOver, P0Type, P0State
  <2> QED
    BY <1>6, <2>1 DEF P0WaitOver
<1>7. CASE P0Load
  <2>1. P0Type'
    BY <1>7 DEF P0Load, P0Type, P0State
  <2>2. PrimeOf(p0_ctr_L) \in Prime /\ p0_ctr_poly \in Prime /\ 0 \in Prime /\ 1 \in Prime
    BY PrimeOfType, LAssumption DEF P0Type, Poly, Prime
  <2>3. /\ <<"psi", PrimeOf(p0_ctr_L), 0>> \in Value
        /\ <<"ct2", p0_ctr_poly, 0>> \in Value
        /\ <<"psi", PrimeOf(p0_ctr_L), 1>> \in Value
    BY <2>2, ValueType DEF Kind
  <2>4. RdType'
    BY <1>7, <2>3, RequestType DEF P0Load
  <2> QED
    BY <1>7, <2>1, <2>4 DEF P0Load
<1>8. CASE P0Valid
  <2>1. RdType'
    BY <1>8 DEF P0Valid, RdType, rdVars
  <2>2. rd_data[0] \in Value /\ q_g1 \in Prime
    BY DEF RdType, Port, QType
  <2>3. NttType'
    <3>1. [k \in 1 .. Len(pipe) |-> Junk] \in Seq(Value)
      BY ValueType, LenProperties DEF NttType
    <3>2. Append(pipe, Transform(rd_data[0], psi, q_g1)) \in Seq(Value)
      BY <2>2, TransformType, AppendProperties DEF NttType
    <3> QED
      BY <1>8, <2>2, <3>1, <3>2 DEF P0Valid, NttType, nttVars
  <2> QED
    BY <1>8, <2>1, <2>3 DEF P0Valid
<1>9. CASE P0Done
  <2>1. RdType'
    BY <1>9 DEF P0Done, RdType
  <2>2. p0_ctr_poly < L - 1 => p0_ctr_poly + 1 \in Poly
    BY LAssumption DEF P0Type, Poly
  <2>3. 0 \in Poly
    BY LAssumption DEF Poly
  <2>4. P0Type'
    BY <1>9, <2>2, <2>3 DEF P0Done, P0Type, P0State
  <2> QED
    BY <1>9, <2>1, <2>4 DEF P0Done
<1>10. CASE P0InttReady
  <2>1. P0Type' /\ AccType'
    BY <1>10, NextRoundType DEF P0InttReady, P0Type, AccType, P0State
  <2> QED
    BY <1>10, <2>1 DEF P0InttReady
<1>11. CASE NttOValid
  <2>1. NttType' /\ Head(pipe) \in Value
    BY <1>11, HeadTailProperties DEF NttOValid, NttType
  <2>2. FifoType'
    BY <1>11, <2>1, PushType DEF NttOValid, FifoType
  <2>3. P12Type'
    BY <1>11 DEF NttOValid, P12Type
  <2> QED
    BY <1>11, <2>1, <2>2, <2>3 DEF NttOValid
<1>12. CASE InttOValidToFn
  <2>1. NttType' /\ Head(pipe) \in Value
    BY <1>12, HeadTailProperties DEF InttOValidToFn, NttType
  <2>2. P12Type'
    BY <1>12 DEF InttOValidToFn, P12Type
  <2>3. rd_data[1] \in Value /\ None \in Value /\ q_g2 \in Prime
    BY ValueType DEF RdType, Port, QType
  <2>4. CASE en_add
    <3>1. Push({0}, Head(pipe)) /\ Pop(0) /\ FnIValid(fifo'[0][ctr_o[0]], rd_data[1])
      BY <1>12, <2>4 DEF InttOValidToFn
    <3>2. FifoType'
      BY <2>1, <3>1, PushType, PopType DEF FifoType, Comp
    <3>3. fifo'[0][ctr_o[0]] \in Value
      BY <3>2 DEF FifoType, Comp
    <3>4. MainType' /\ FnType' /\ OutType'
      BY <2>3, <3>1, <3>3, FnIValidType
    <3> QED
      BY <1>12, <2>1, <2>2, <3>2, <3>4 DEF InttOValidToFn
  <2>5. CASE ~en_add
    <3>1. FnIValid(Head(pipe), None) /\ UNCHANGED fifoVars
      BY <1>12, <2>5 DEF InttOValidToFn
    <3>2. MainType' /\ FnType' /\ OutType'
      BY <2>1, <2>3, <3>1, FnIValidType
    <3> QED
      BY <1>12, <2>1, <2>2, <3>1, <3>2 DEF InttOValidToFn
  <2> QED
    BY <2>4, <2>5
<1>13. CASE InttOValidToFifo
  <2>1. NttType' /\ Head(pipe) \in Value
    BY <1>13, HeadTailProperties DEF InttOValidToFifo, NttType
  <2>2. FifoType'
    BY <1>13, <2>1, PushType DEF InttOValidToFifo, FifoType
  <2>3. P12Type'
    BY <1>13 DEF InttOValidToFifo, P12Type
  <2> QED
    BY <1>13, <2>1, <2>2, <2>3 DEF InttOValidToFifo
<1>14. CASE P12LoadRlk
  <2>1. P12Type'
    BY <1>14 DEF P12LoadRlk, P12Type, P12State
  <2>2. PrimeOf(p12_ctr_L) \in Prime /\ p12_ctr \in Prime
    BY PrimeOfType, LAssumption DEF P12Type, Poly, Prime
  <2>3. <<"rlk", PrimeOf(p12_ctr_L), p12_ctr>> \in Value
    BY <2>2, ValueType DEF Kind
  <2>4. RdType'
    BY <1>14, <2>3, RequestType DEF P12LoadRlk
  <2> QED
    BY <1>14, <2>1, <2>4 DEF P12LoadRlk
<1>15. CASE P12LoadPoly
  <2>1. PICK x \in Comp : /\ p12_state' = <<"ST_WAIT_DONE_2", "ST_WAIT_DONE_3">>[x + 1]
                           /\ Request({1}, <<"ct", PrimeOf(p12_ctr_L), x>>)
    BY <1>15 DEF P12LoadPoly
  <2>2. x \in {0, 1}
    BY DEF Comp
  <2>3. p12_state' \in {"ST_WAIT_DONE_2", "ST_WAIT_DONE_3"}
    BY <2>1, <2>2
  <2>4. P12Type'
    BY <1>15, <2>3 DEF P12LoadPoly, P12Type, P12State
  <2>5. PrimeOf(p12_ctr_L) \in Prime /\ x \in Prime
    BY <2>2, PrimeOfType, LAssumption DEF P12Type, Prime
  <2>6. <<"ct", PrimeOf(p12_ctr_L), x>> \in Value
    BY <2>5, ValueType DEF Kind
  <2>7. RdType'
    BY <2>1, <2>6, RequestType
  <2> QED
    BY <1>15, <2>4, <2>7 DEF P12LoadPoly
<1>16. CASE P1Valid
  <2>1. RdType'
    BY <1>16 DEF P1Valid, RdType
  <2>2. FifoType'
    BY <1>16, PopType DEF P1Valid, FifoType, Comp
  <2>3. Front(0) \in Value /\ rd_data[1] \in Value /\ q_g1 \in Prime /\ q_g2 \in Prime
    BY DEF FifoType, RdType, QType, Front, Comp, Port
  <2>4. CASE p1_sel
    <3>1. MainType' /\ FnType' /\ OutType'
      BY <1>16, <2>3, <2>4, FnIValidType DEF P1Valid
    <3> QED
      BY <1>16, <2>1, <2>2, <2>4, <3>1 DEF P1Valid
  <2>5. CASE ~p1_sel
    <3>1. Accumulate(0, Multiply(Front(0), rd_data[1], q_g1))
      BY <1>16, <2>5 DEF P1Valid
    <3>2. Multiply(Front(0), rd_data[1], q_g1) \in Value
      BY <2>3, MultiplyType
    <3>3. AccType'
      BY <3>1, <3>2, AccumulateType DEF Comp
    <3> QED
      BY <1>16, <2>1, <2>2, <2>5, <3>3 DEF P1Valid
  <2> QED
    BY <2>4, <2>5
<1>17. CASE P2Valid
  <2>1. RdType'
    BY <1>17 DEF P2Valid, RdType
  <2>2. FifoType'
    BY <1>17, PopType DEF P2Valid, FifoType, Comp
  <2>3. Front(1) \in Value /\ rd_data[2] \in Value /\ q_g1 \in Prime
    BY DEF FifoType, RdType, QType, Front, Comp, Port
  <2>4. AccType'
    BY <1>17, <2>3, MultiplyType, AccumulateType DEF P2Valid, Comp
  <2> QED
    BY <1>17, <2>1, <2>2, <2>4 DEF P2Valid
<1>18. ASSUME NEW ends \in {{1}, {2}, {1, 2}}, P12Done(ends) PROVE TypeOK'
  <2>1. RdType'
    BY <1>18 DEF P12Done, RdType
  <2>2. CASE KeysLoaded
    <3>1. P12Type'
      BY <1>18, <2>2, NextRoundType, LAssumption DEF P12Done, KeysLoaded, NextKey, P12Type, P12State, Poly
    <3> QED
      BY <1>18, <2>1, <3>1 DEF P12Done
  <2>3. CASE ~KeysLoaded
    <3>1. P12Type'
      BY <1>18, <2>3, NextRoundType DEF P12Done, P12Type, P12State
    <3> QED
      BY <1>18, <2>1, <3>1 DEF P12Done
  <2> QED
    BY <2>2, <2>3
<1>19. ASSUME NEW x \in Comp, AccWDone(x) PROVE TypeOK'
  <2>1. AccType'
    BY <1>19, LAssumption DEF AccWDone, AccType, Round
  <2> QED
    BY <1>19, <2>1 DEF AccWDone
<1>20. CASE AccAllDone
  <2>1. AccType'
    BY <1>20, LAssumption DEF AccAllDone, AccType, AccState, Round
  <2> QED
    BY <1>20, <2>1 DEF AccAllDone
<1>21. CASE AccRead0
  <2>1. MainType' /\ AccType'
    BY <1>21 DEF AccRead0, MainType, AccType, MainState, AccState
  <2>2. 0 \in Comp /\ sum[0] \in SUBSET Value
    BY DEF AccType, Comp
  <2>3. InverseTransform(sum[0], 0, psi, q_g1) \in Value
    BY <2>2, InverseTransformType DEF NttType, QType
  <2>4. NttType'
    BY <1>21, <2>3, AppendProperties DEF AccRead0, IntoIntt, NttType
  <2> QED
    BY <1>21, <2>1, <2>4 DEF AccRead0
<1>22. CASE AccRead0Done
  <2>1. AccType'
    BY <1>22 DEF AccRead0Done, AccType, AccState
  <2> QED
    BY <1>22, <2>1 DEF AccRead0Done
<1>23. CASE AccRead1
  <2>1. MainType' /\ AccType'
    BY <1>23 DEF AccRead1, MainType, AccType, MainState
  <2>2. 1 \in Comp /\ sum[1] \in SUBSET Value
    BY DEF AccType, Comp
  <2>3. InverseTransform(sum[1], 1, psi, q_g1) \in Value
    BY <2>2, InverseTransformType DEF NttType, QType
  <2>4. NttType'
    BY <1>23, <2>3, AppendProperties DEF AccRead1, IntoIntt, NttType
  <2> QED
    BY <1>23, <2>1, <2>4 DEF AccRead1
<1>24. CASE AccRead1Done
  <2>1. AccType'
    BY <1>24 DEF AccRead1Done, AccType, AccState
  <2> QED
    BY <1>24, <2>1 DEF AccRead1Done
<1>25. CASE P3Done
  <2>1. Idle \in Write
    BY ValueType, LAssumption DEF Idle, Write, Comp, Poly
  <2>2. OutType'
    BY <1>25, <2>1 DEF P3Done, AfterWrite, OutType, OutState, Write
  <2> QED
    BY <1>25, <2>2 DEF P3Done
<1>26. CASE OutEnd
  <2>1. MainType'
    BY <1>26, LAssumption DEF OutEnd, MainType, MainState, Round
  <2>2. OutType'
    BY <1>26, LAssumption DEF OutEnd, NextOut, OutType, OutState, Poly
  <2> QED
    BY <1>26, <2>1, <2>2 DEF OutEnd
<1>27. CASE UNCHANGED vars
  BY <1>27 DEF vars
<1> QED
  BY <1>1, <1>2, <1>3, <1>4, <1>5, <1>6, <1>7, <1>8, <1>9, <1>10, <1>11, <1>12, <1>13, <1>14,
     <1>15, <1>16, <1>17, <1>18, <1>19, <1>20, <1>21, <1>22, <1>23, <1>24, <1>25, <1>26, <1>27
     DEF Next, Step

\* Every register and memory of the core stays in its range, whatever HBM does.
THEOREM TypeCorrect == Spec => []TypeOK
BY InitType, StepType, PTL DEF Spec

-----------------------------------------------------------------------------
(***************************************************************************)
(* Moduli. ModuliAligned is inductive but for the last step of a run, when *)
(* the main state machine clears its counter and relin_q_loader does not:  *)
(* that is right because relin_q_loader has wrapped around by then.        *)
(***************************************************************************)
ModuliInv == ModuliAligned /\ (state = "ST_DONE" => ctr = L)

\* The loader and the state machine begin in the same round.
LEMMA ModuliInit == Init => ModuliInv
BY DEF Init, ModuliInv, ModuliAligned

\* The end of a final operation, part of several steps, keeps them together.
LEMMA FnIDoneModuli ==
  ASSUME TypeOK, ModuliInv, FnIDone, UNCHANGED qVars
  PROVE  ModuliInv'
BY DEF ModuliInv, ModuliAligned, FnIDone, mainVars, qVars

\* Every step keeps the loader and the state machine together.
LEMMA ModuliStep == TypeOK /\ ModuliInv /\ [Next]_vars => ModuliInv'
<1> SUFFICES ASSUME TypeOK, ModuliInv, [Next]_vars PROVE ModuliInv'
  OBVIOUS
<1>0. ctr \in Round /\ q_ctr \in Round
  BY DEF TypeOK, MainType, QType
<1>1. CASE Start
  BY <1>1 DEF Start, ModuliInv, ModuliAligned, qVars
<1>2. CASE LoadQG1
  BY <1>2 DEF LoadQG1, ModuliInv, ModuliAligned
<1>3. CASE Op
  BY <1>3 DEF Op, ModuliInv, ModuliAligned, qVars
<1>4. CASE LoadQG2
  BY <1>4 DEF LoadQG2, AfterG2, ModuliInv, ModuliAligned
<1>5. CASE Done
  BY <1>5, LAssumption DEF Done, ModuliInv, ModuliAligned, qVars, NextRound
<1>6. CASE AccRead0 \/ AccRead1
  BY <1>6 DEF AccRead0, AccRead1, ModuliInv, ModuliAligned, qVars
<1>7. CASE OutEnd
  BY <1>7, <1>0 DEF OutEnd, ModuliInv, ModuliAligned, qVars, NextRound
<1>8. CASE InttOValidToFn
  BY <1>8, FnIDoneModuli DEF InttOValidToFn, FnIValid
<1>9. CASE P1Valid
  <2>1. CASE p1_sel
    BY <1>9, <2>1, FnIDoneModuli DEF P1Valid, FnIValid
  <2>2. CASE ~p1_sel
    BY <1>9, <2>2 DEF P1Valid, ModuliInv, ModuliAligned, mainVars, qVars
  <2> QED
    BY <2>1, <2>2
<1>10. CASE UNCHANGED <<mainVars, qVars>>
  BY <1>10 DEF ModuliInv, ModuliAligned, mainVars, qVars
<1>11. \/ Start \/ LoadQG1 \/ Op \/ LoadQG2 \/ Done \/ AccRead0 \/ AccRead1 \/ OutEnd
       \/ InttOValidToFn \/ P1Valid \/ UNCHANGED <<mainVars, qVars>>
  BY DEF Next, Step, vars, P0WaitOver, P0Load, P0Valid, P0Done, P0InttReady, NttOValid, InttOValidToFifo,
         P12LoadRlk, P12LoadPoly, P2Valid, P12Done, AccWDone, AccAllDone, AccRead0Done, AccRead1Done, P3Done
<1> QED
  BY <1>1, <1>2, <1>3, <1>4, <1>5, <1>6, <1>7, <1>8, <1>9, <1>10, <1>11

\* No unit ever computes with the modulus of another round: relin_q_loader, which counts load_q_g2
\* pulses, and the main state machine, which counts results, never disagree.
THEOREM ModuliCorrect == Spec => []ModuliAligned
<1>1. ModuliInv => ModuliAligned
  BY DEF ModuliInv
<1> QED
  BY <1>1, ModuliInit, ModuliStep, InitType, StepType, PTL DEF Spec

-----------------------------------------------------------------------------
(***************************************************************************)
(* Requests. Each control unit knows by its state which of its ports have  *)
(* a request under way, in whichever order p1 and p2 are done.             *)
(***************************************************************************)
Waits0 == {"ST_LOAD_PSI_WAIT_DONE", "ST_LOAD_POLY_WAIT_DONE", "ST_LOAD_IPSI_WAIT_DONE"}
Waits1 == {"ST_WAIT_DONE", "ST_WAIT_DONE_0", "ST_WAIT_DONE_2", "ST_WAIT_DONE_3"}
Waits2 == {"ST_WAIT_DONE", "ST_WAIT_DONE_1"}

RequestsInv ==
  /\ rd_state[0] # "idle" <=> p0_state \in Waits0
  /\ rd_state[1] # "idle" <=> p12_state \in Waits1
  /\ rd_state[2] # "idle" <=> p12_state \in Waits2

\* In the beginning no port is asked.
LEMMA RequestsInit == Init => RequestsInv
BY DEF Init, RequestsInv, Waits0, Waits1, Waits2, Port

\* Every step keeps it so that a port is asked only when it is idle.
LEMMA RequestsStep == TypeOK /\ RequestsInv /\ [Next]_vars => RequestsInv'
<1> SUFFICES ASSUME TypeOK, RequestsInv, [Next]_vars PROVE RequestsInv'
  OBVIOUS
<1> USE DEF RequestsInv, Waits0, Waits1, Waits2
<1>0. rd_state \in [Port -> {"idle", "busy", "stream"}] /\ Port = {0, 1, 2} /\ p12_state \in P12State
  BY DEF TypeOK, RdType, P12Type, Port
<1>1. CASE Op
  BY <1>1 DEF Op, rdVars, p12Vars
<1>2. CASE P0WaitOver
  BY <1>2 DEF P0WaitOver, rdVars, p12Vars
<1>3. CASE P0Load
  BY <1>3, <1>0 DEF P0Load, Request, p12Vars
<1>4. CASE P0Valid
  BY <1>4, <1>0 DEF P0Valid, p0Vars, p12Vars
<1>5. CASE P0Done
  BY <1>5, <1>0 DEF P0Done, p12Vars
<1>6. CASE P0InttReady
  BY <1>6 DEF P0InttReady, rdVars, p12Vars
<1>7. CASE P12LoadRlk
  BY <1>7, <1>0 DEF P12LoadRlk, RlkRequested, Request, p0Vars
<1>8. CASE P12LoadPoly
  <2>1. PICK x \in {0, 1} : /\ p12_state = <<"ST_LOAD_POLY_0", "ST_LOAD_POLY_1">>[x + 1]
                            /\ p12_state' = <<"ST_WAIT_DONE_2", "ST_WAIT_DONE_3">>[x + 1]
                            /\ Request({1}, <<"ct", PrimeOf(p12_ctr_L), x>>)
    BY <1>8 DEF P12LoadPoly, Comp
  <2>2. /\ p12_state \in {"ST_LOAD_POLY_0", "ST_LOAD_POLY_1"}
        /\ p12_state' \in {"ST_WAIT_DONE_2", "ST_WAIT_DONE_3"}
    BY <2>1
  <2> QED
    BY <1>8, <1>0, <2>1, <2>2 DEF P12LoadPoly, Request, p0Vars
<1>9. CASE P1Valid
  BY <1>9, <1>0 DEF P1Valid, p0Vars, p12Vars
<1>10. CASE P2Valid
  BY <1>10, <1>0 DEF P2Valid, p0Vars, p12Vars
<1>11. ASSUME NEW ends \in {{1}, {2}, {1, 2}}, P12Done(ends) PROVE RequestsInv'
  <2>1. CASE BothLoaded(ends)
    BY <1>11, <1>0, <2>1 DEF P12Done, BothLoaded, KeysLoaded, p0Vars
  <2>2. CASE ~BothLoaded(ends)
    BY <1>11, <1>0, <2>2 DEF P12Done, BothLoaded, P12State, p0Vars
  <2> QED
    BY <2>1, <2>2
<1>12. CASE UNCHANGED <<rd_state, p0_state, p12_state>>
  BY <1>12
<1>13. \/ Op \/ P0WaitOver \/ P0Load \/ P0Valid \/ P0Done \/ P0InttReady \/ P12LoadRlk \/ P12LoadPoly
       \/ P1Valid \/ P2Valid \/ \E ends \in {{1}, {2}, {1, 2}} : P12Done(ends)
       \/ UNCHANGED <<rd_state, p0_state, p12_state>>
  BY DEF Next, Step, vars, Start, LoadQG1, LoadQG2, Done, NttOValid, InttOValidToFn, InttOValidToFifo,
         AccWDone, AccAllDone, AccRead0, AccRead0Done, AccRead1, AccRead1Done, P3Done, OutEnd,
         p0Vars, p12Vars, rdVars
<1> QED
  BY <1>1, <1>2, <1>3, <1>4, <1>5, <1>6, <1>7, <1>8, <1>9, <1>10, <1>11, <1>12, <1>13

\* No request is lost: a control unit asks a port of the HBM adapter only when the port is idle.
THEOREM RequestsCorrect == Spec => []RequestsHeard
<1>1. TypeOK /\ RequestsInv => RequestsHeard
  BY DEF RequestsInv, Waits0, Waits1, Waits2, RequestsHeard, RlkRequested, PolyRequested,
         TypeOK, P0Type, P12Type
<1> QED
  BY <1>1, RequestsInit, RequestsStep, InitType, StepType, PTL DEF Spec

-----------------------------------------------------------------------------
(***************************************************************************)
(* What a step that leaves a group of registers alone cannot disturb.      *)
(***************************************************************************)
\* The registers a unit is located by.
LEMMA Frame ==
  ASSUME Control
  PROVE  /\ UNCHANGED <<mainVars, last_q>> => MainInv'
         /\ UNCHANGED <<state, ctr, p0Vars, start_read_q>> => P0Inv'
         /\ UNCHANGED <<state, ctr, en_add, p12Vars, rd_state[1], rd_state[2]>> => P12Inv'
         /\ UNCHANGED <<state, ctr, nttVars, p0Vars, p12Vars, rd_state[0]>> => NttInv'
         /\ UNCHANGED <<state, ctr, en_add, p12Vars, rd_state[1], rd_state[2], fifoVars, pipe, state_i, ren_1>> => FifoInv'
         /\ UNCHANGED <<state, ctr, p12Vars, rd_state[1], rd_state[2], accVars>> => AccInv'
         /\ UNCHANGED <<state, ctr, en_add, p12Vars, rd_state[1], rd_state[2], pipe, state_i, ren_1>> => BackwardInv'
         /\ UNCHANGED <<state, ctr, p12Vars, rd_state[1], rd_state[2], pipe, state_i, ren_1, fnVars, outVars>> => OutInv'
<1> USE DEF Control, Rest, Forward, Backward, Now, Adds, KeyWait, mainVars, p0Vars, p12Vars, nttVars
<1>1. UNCHANGED <<mainVars, last_q>> => MainInv'
  BY DEF MainInv
<1>2. UNCHANGED <<state, ctr, p0Vars, start_read_q>> => P0Inv'
  BY DEF P0Inv
<1>3. UNCHANGED <<state, ctr, en_add, p12Vars, rd_state[1], rd_state[2]>> => P12Inv'
  BY DEF P12Inv, P12Rest, P12Forward, P12Backward, Lags, Leads, CtLoaded
<1>4. UNCHANGED <<state, ctr, nttVars, p0Vars, p12Vars, rd_state[0]>> => NttInv'
  BY DEF NttInv, In, Out, Asked
<1>5. UNCHANGED <<state, ctr, en_add, p12Vars, rd_state[1], rd_state[2], fifoVars, pipe, state_i, ren_1>> => FifoInv'
  BY DEF FifoInv, Holds, Out, Asked, Mult, Entered, Left, CtAsked, Fin, Comp, fifoVars
<1>6. UNCHANGED <<state, ctr, p12Vars, rd_state[1], rd_state[2], accVars>> => AccInv'
  BY DEF AccInv, Asked, Mult, Comp, accVars
<1>7. UNCHANGED <<state, ctr, en_add, p12Vars, rd_state[1], rd_state[2], pipe, state_i, ren_1>> => BackwardInv'
  BY DEF BackwardInv, Entered, Left, CtAsked, Fin
<1>8. UNCHANGED <<state, ctr, p12Vars, rd_state[1], rd_state[2], pipe, state_i, ren_1, fnVars, outVars>> => OutInv'
  BY DEF OutInv, WriteState, Entered, Left, CtAsked, Fin, fnVars, outVars
<1> QED
  BY <1>1, <1>2, <1>3, <1>4, <1>5, <1>6, <1>7, <1>8

\* The control begins with nothing counted.
LEMMA ControlInit == Init => Control
<1> SUFFICES ASSUME Init PROVE Control
  OBVIOUS
<1> USE DEF Init, Rest, Forward, Backward, Now, Adds
<1>1. MainInv /\ P0Inv
  BY DEF MainInv, P0Inv
<1>2. P12Inv
  BY DEF P12Inv, P12Rest
<1>3. NttInv
  BY DEF NttInv
<1>4. FifoInv /\ AccInv
  BY DEF FifoInv, Holds, AccInv
<1>5. BackwardInv /\ OutInv
  BY DEF BackwardInv, OutInv, Idle
<1> QED
  BY <1>1, <1>2, <1>3, <1>4, <1>5 DEF Control

-----------------------------------------------------------------------------
(***************************************************************************)
(* Steps, unit by unit. What a step can disturb is proved of it, the rest  *)
(* is Frame.                                                               *)
(***************************************************************************)
\* The main state machine.
LEMMA MainSteps ==
  ASSUME TypeOK, FirstRun', Control, Start \/ LoadQG1 \/ Op \/ LoadQG2 \/ Done
  PROVE  Control'
<1> USE Frame DEF Control, FirstRun, Rest, Forward, Backward, Now, Adds, KeyWait, mainVars
<1>0. ctr \in Round /\ starts \in Nat /\ L \in Nat /\ L > 0
  BY LAssumption, MaxStartsAssumption DEF TypeOK, MainType
<1>1. CASE Start
  <2>1. MainInv' /\ P0Inv'
    BY <1>0, <1>1 DEF Start, MainInv, P0Inv, p0Vars, fnVars, accVars
  <2>2. P12Inv' /\ NttInv'
    BY <1>1 DEF Start, P12Inv, P12Rest, Lags, CtLoaded, NttInv, p12Vars, rdVars, nttVars, p0Vars, fnVars
  <2>3. FifoInv' /\ AccInv' /\ BackwardInv' /\ OutInv'
    BY <1>1 DEF Start, FifoInv, Holds, AccInv, BackwardInv, OutInv, fifoVars, accVars, fnVars, outVars
  <2> QED
    BY <2>1, <2>2, <2>3
<1>2. CASE LoadQG1
  <2>1. MainInv' /\ P0Inv'
    BY <1>2 DEF LoadQG1, MainInv, P0Inv, p0Vars, fnVars, accVars
  <2>2. P12Inv' /\ NttInv'
    BY <1>2 DEF LoadQG1, P12Inv, P12Rest, Lags, CtLoaded, NttInv, p12Vars, rdVars, nttVars, p0Vars, fnVars
  <2>3. FifoInv' /\ AccInv' /\ BackwardInv' /\ OutInv'
    BY <1>2 DEF LoadQG1, FifoInv, Holds, AccInv, BackwardInv, OutInv, fifoVars, accVars, fnVars, outVars
  <2> QED
    BY <2>1, <2>2, <2>3
<1>3. CASE Op
  <2>1. MainInv' /\ P0Inv'
    BY <1>3 DEF Op, MainInv, P0Inv, fnVars, accVars
  <2>2. P12Inv'
    BY <1>3 DEF Op, P12Inv, P12Rest, P12Forward, Lags, CtLoaded, p12Vars, rdVars, fnVars
  <2>3. Asked' = 0 /\ Out' = 0 /\ \A x \in Comp : Mult(x)' = 0
    BY <1>0, <1>3 DEF Op, P12Inv, P12Rest, Lags, CtLoaded, Out, Asked, Mult, p12Vars, rdVars
  <2>4. NttInv'
    BY <1>3, <2>3 DEF Op, P0Inv, NttInv, In, nttVars, rdVars
  <2>5. FifoInv' /\ AccInv' /\ BackwardInv' /\ OutInv'
    BY <1>3, <2>3 DEF Op, FifoInv, Holds, AccInv, BackwardInv, OutInv, fifoVars, accVars, fnVars, outVars
  <2> QED
    BY <2>1, <2>2, <2>4, <2>5
<1>4. CASE LoadQG2
  <2>1. state' = IF ctr = 0 THEN "ST_WAIT_FN_DONE" ELSE "ST_WAIT_W_DONE"
    BY <1>4 DEF LoadQG2, AfterG2
  <2>2. MainInv' /\ P0Inv'
    BY <1>4, <2>1 DEF LoadQG2, MainInv, P0Inv, p0Vars, fnVars, accVars
  <2>3. P12Inv' /\ NttInv'
    BY <1>4, <2>1 DEF LoadQG2, P12Inv, P12Backward, Leads, NttInv, p12Vars, rdVars, nttVars, p0Vars, fnVars
  <2>4. UNCHANGED <<Left, Fin, CtAsked>>
    BY <1>4 DEF LoadQG2, Left, Fin, CtAsked, Entered, nttVars, p12Vars, rdVars, accVars, fnVars
  <2>5. FifoInv' /\ AccInv' /\ BackwardInv' /\ OutInv'
    BY <1>4, <2>1, <2>4 DEF LoadQG2, FifoInv, Holds, AccInv, BackwardInv, OutInv, WriteState,
                            p12Vars, fifoVars, accVars, fnVars, outVars
  <2> QED
    BY <2>2, <2>3, <2>5
<1>5. CASE Done
  <2>1. MainInv' /\ P0Inv'
    BY <1>0, <1>5 DEF Done, MainInv, P0Inv, p0Vars, fnVars, accVars
  <2>2. P12Inv' /\ NttInv'
    BY <1>5 DEF Done, P12Inv, P12Rest, Lags, CtLoaded, NttInv, p12Vars, rdVars, nttVars, p0Vars, fnVars
  <2>3. FifoInv' /\ AccInv' /\ BackwardInv' /\ OutInv'
    BY <1>5 DEF Done, FifoInv, Holds, AccInv, BackwardInv, OutInv, fifoVars, accVars, fnVars, outVars
  <2> QED
    BY <2>1, <2>2, <2>3
<1> QED
  BY <1>1, <1>2, <1>3, <1>4, <1>5

\* relin_cu_p0_ntt.
LEMMA P0Steps ==
  ASSUME TypeOK, TypeOK', RequestsInv, Control, P0WaitOver \/ P0Load \/ P0Valid \/ P0Done \/ P0InttReady
  PROVE  Control'
<1> USE Frame DEF Control, Rest, Forward, Backward
<1>0. /\ Port = {0, 1, 2} /\ L \in Nat /\ L > 0
      /\ p0_ctr_poly \in Poly /\ rd_state \in [Port -> {"idle", "busy", "stream"}]
      /\ pipe \in Seq(Value)
  BY LAssumption DEF Port, TypeOK, P0Type, RdType, NttType
<1>1. CASE P0WaitOver
  <2>1. P0Inv'
    BY <1>1 DEF P0WaitOver, P0Inv, Now, mainVars, accVars
  <2>2. NttInv'
    BY <1>1 DEF P0WaitOver, NttDrained, P0Inv, NttInv, In, Out, Asked, mainVars, nttVars, p12Vars, rdVars
  <2> QED
    BY <1>1, <2>1, <2>2 DEF P0WaitOver, mainVars, rdVars, accVars, fnVars, nttVars
<1>2. CASE P0Load
  <2>1. UNCHANGED <<rd_state[1], rd_state[2]>>
    BY <1>0, <1>2 DEF P0Load, Request
  <2>2. P0Inv'
    BY <1>2 DEF P0Load, P0Inv, Now, mainVars, accVars
  <2>3. rd_state[0] = "idle" /\ rd_state'[0] = "busy"
    BY <1>0, <1>2 DEF P0Load, Request, RequestsInv, Waits0
  <2>4. NttInv'
    BY <1>2, <2>3 DEF P0Load, P0Inv, NttInv, In, Out, Asked, KeyWait, mainVars, nttVars, p12Vars
  <2> QED
    BY <1>2, <2>1, <2>2, <2>4 DEF P0Load, mainVars, accVars, fnVars, nttVars
<1>3. CASE P0Valid
  <2>1. UNCHANGED <<rd_state[1], rd_state[2]>> /\ rd_state'[0] = "stream" /\ p0_state \in Waits0
    BY <1>0, <1>3 DEF P0Valid, RequestsInv
  <2>2. P0Inv'
    BY <1>3 DEF P0Valid, P0Inv, Now, mainVars, p0Vars, accVars
  <2>3. p0_state = "ST_LOAD_POLY_WAIT_DONE" => Len(pipe') = Len(pipe) + 1 /\ intt_q' = FALSE
    BY <1>0, <1>3, AppendProperties, TransformType DEF P0Valid, TypeOK, RdType, QType, NttType, Port
  <2>4. p0_state # "ST_LOAD_POLY_WAIT_DONE" => Len(pipe') = Len(pipe) /\ intt_q' = (p0_state = "ST_LOAD_IPSI_WAIT_DONE")
    BY <1>0, <1>3, <2>1, LenProperties DEF P0Valid, Waits0
  <2>5. pipe' = <<>> <=> Len(pipe') = 0
    BY <1>0, EmptySeq DEF TypeOK, NttType
  <2>6. NttInv'
    BY <1>0, <1>3, <2>1, <2>3, <2>4, <2>5 DEF P0Valid, P0Inv, NttInv, In, Out, Asked, KeyWait, Waits0, mainVars, p0Vars, p12Vars
  <2>7. Forward /\ UNCHANGED <<state, Out, Mult(0), Mult(1)>>
    BY <1>3, <2>1 DEF P0Valid, P0Inv, Waits0, Out, Asked, Mult, KeyWait, mainVars, p12Vars
  <2>8. FifoInv' /\ BackwardInv' /\ OutInv'
    BY <1>3, <2>7 DEF P0Valid, FifoInv, BackwardInv, OutInv, Holds, Comp, Now, mainVars, fifoVars, fnVars, outVars
  <2> QED
    BY <1>3, <2>1, <2>2, <2>6, <2>8 DEF P0Valid, mainVars, accVars, fnVars
<1>4. CASE P0Done
  <2>1. UNCHANGED <<rd_state[1], rd_state[2]>> /\ rd_state'[0] = "idle" /\ p0_state \in Waits0
    BY <1>0, <1>4 DEF P0Done, RequestsInv
  <2>2. P0Inv'
    BY <1>4, <2>1 DEF P0Done, P0Inv, Now, Waits0, mainVars, accVars
  <2>3. NttInv'
    BY <1>0, <1>4, <2>1 DEF P0Done, P0Inv, NttInv, In, Out, Asked, KeyWait, Poly, mainVars, nttVars, p12Vars
  <2> QED
    BY <1>4, <2>1, <2>2, <2>3 DEF P0Done, mainVars, accVars, fnVars, nttVars
<1>5. CASE P0InttReady
  <2>1. P0Inv'
    BY <1>5 DEF P0InttReady, P0Inv, mainVars
  <2>2. NttInv'
    BY <1>5 DEF P0InttReady, P0Inv, NttInv, In, Out, Asked, KeyWait, mainVars, nttVars, p12Vars, rdVars
  <2>3. AccInv'
    BY <1>5 DEF P0InttReady, AccInv, Asked, Mult, KeyWait, mainVars, p12Vars, rdVars
  <2> QED
    BY <1>5, <2>1, <2>2, <2>3 DEF P0InttReady, mainVars, rdVars, fnVars, nttVars
<1> QED
  BY <1>1, <1>2, <1>3, <1>4, <1>5

\* The counts are numbers, and those of the path differ by what its units can hold.
LEMMA Counts ==
  ASSUME TypeOK
  PROVE  /\ In \in 0 .. L /\ Asked \in 0 .. L /\ Out \in {Asked, Asked + 1} /\ Len(pipe) \in Nat
         /\ \A x \in Comp : Mult(x) \in Nat /\ Asked - Mult(x) \in {0, 1}
<1> USE DEF KeyWait
<1>0. L \in Nat /\ p0_ctr_poly \in 0 .. L - 1 /\ p12_ctr \in 0 .. L - 1
  BY LAssumption DEF TypeOK, P0Type, P12Type, Poly
<1>1. In \in 0 .. L
  BY <1>0 DEF In
<1>2. Asked \in 0 .. L
  BY <1>0 DEF Asked
<1>3. \A x \in Comp : Mult(x) \in Nat /\ Asked - Mult(x) \in {0, 1}
  BY <1>0, <1>2 DEF Asked, Mult
<1> QED
  BY <1>1, <1>2, <1>3, LenProperties DEF Out, TypeOK, NttType

\* An operand of the final operation: in the special prime's round it is kept, and the second one
\* ends the round; in the others a result goes to the write port.
LEMMA FnIValidEffect ==
  ASSUME MainInv, state \in {"ST_WAIT_FN_DONE", "ST_WAIT_W_DONE"}, NEW a, NEW b, FnIValid(a, b)
  PROVE  /\ fn_ctr' = 1 - fn_ctr /\ offset_q' = 1 - offset_q /\ UNCHANGED en_add
         /\ last_q' <=> (last_q /\ fn_ctr # 1)
         /\ ctr = 0 => /\ UNCHANGED outVars
                       /\ IF fn_ctr = 1 THEN state' = "ST_LOAD_Q_G1" /\ ctr' = NextRound(ctr) /\ UNCHANGED starts
                                        ELSE UNCHANGED mainVars
         /\ ctr # 0 => /\ UNCHANGED mainVars /\ UNCHANGED out_ctr /\ WriteKeepsUp
                       /\ wr'.busy /\ wr'.i = out_ctr
                       /\ out_state = "ST_POLY_0_WRITE_START" =>
                            out_state' = "ST_POLY_0_WRITE_WAIT_DONE" /\ wr'.x = 0
                       /\ out_state # "ST_POLY_0_WRITE_START" =>
                            out_state' = "ST_POLY_1_WRITE_WAIT_DONE" /\ wr'.x = 1
<1>1. last_q <=> ctr = 0
  BY DEF MainInv
<1>2. ctr = 0 <=> state = "ST_WAIT_FN_DONE"
  BY DEF MainInv
<1>3. last_q' <=> (last_q /\ fn_ctr # 1)
  BY Zenon DEF FnIValid
<1> QED
  BY <1>1, <1>2, <1>3 DEF FnIValid, FnIDone, OValid, mainVars, outVars

\* relin_ntt_mux.
LEMMA NttOValidStep ==
  ASSUME TypeOK, TypeOK', RequestsInv, Control, NttOValid
  PROVE  Control'
<1> USE Frame DEF Control, Rest, Forward, Backward
<1>0. /\ Port = {0, 1, 2} /\ Comp = {0, 1} /\ L \in Nat /\ L > 0
      /\ p0_ctr_poly \in Poly /\ p12_ctr \in Poly /\ Len(pipe) \in Nat
      /\ state \in MainState
  BY LAssumption, LenProperties DEF Port, Comp, TypeOK, MainType, P0Type, P12Type, NttType
<1>1. Len(pipe') = Len(pipe) - 1 /\ Len(pipe) > 0
  BY HeadTailProperties, EmptySeq DEF NttOValid, TypeOK, NttType
<1>2. Forward
  BY <1>0 DEF NttOValid, NttInv, MainState
<1>3. /\ UNCHANGED <<In, Asked, Mult(0), Mult(1)>>
      /\ Out' = Out + 1 /\ Out = Asked
  BY DEF NttOValid, KeysKeepUp, In, Out, Asked, Mult, KeyWait, mainVars, p0Vars, rdVars
<1>4. P12Inv'
  BY <1>2 DEF NttOValid, P12Inv, P12Forward, Lags, Leads, CtLoaded, Adds, KeyWait, mainVars, rdVars, fnVars
<1>5. NttInv'
  BY <1>1, <1>2, <1>3, Counts DEF NttOValid, NttInv, mainVars, p0Vars, rdVars
<1>6. FifoInv'
  <2>1. \A x \in Comp : Out - Mult(x) \in {0, 1}
    BY <1>3, Counts
  <2>2. \A x \in Comp : ctr_i'[x] = NextSlot(ctr_i[x]) /\ ctr_o'[x] = ctr_o[x]
    BY <1>0 DEF NttOValid, Push
  <2>3. \A x \in Comp : Holds(x, Out - Mult(x))' 
    <3> SUFFICES ASSUME NEW x \in Comp PROVE Holds(x, Out - Mult(x))'
      OBVIOUS
    <3>1. Holds(x, Out - Mult(x)) /\ Out' - Mult(x)' = (Out - Mult(x)) + 1
      BY <1>0, <1>2, <1>3, Counts DEF FifoInv
    <3> QED
      BY <2>1, <2>2, <3>1 DEF Holds
  <2> QED
    BY <1>2, <2>3 DEF FifoInv, NttOValid, mainVars
<1>7. AccInv'
  BY <1>0, <1>2, <1>3 DEF NttOValid, AccInv, mainVars, accVars
<1>8. BackwardInv' /\ OutInv'
  BY <1>2 DEF NttOValid, BackwardInv, OutInv, Now, mainVars, fnVars, outVars
<1> QED
  BY <1>4, <1>5, <1>6, <1>7, <1>8 DEF NttOValid, mainVars, fnVars, p0Vars, accVars

\* A sum leaves the NTT unit in the backward phase only, after the reads that could be under way.
LEMMA InttPhase ==
  ASSUME TypeOK, Control, Settled, pipe # <<>>, intt_q, ReadsOver
  PROVE  /\ state \in {"ST_WAIT_FN_DONE", "ST_WAIT_W_DONE"}
         /\ Len(pipe) \in Nat /\ Len(pipe) > 0 /\ Len(Tail(pipe)) = Len(pipe) - 1
         /\ Left \in {0, 1} /\ p12_state \notin KeyWait
         /\ IF Left = 0 THEN state_i \in {"ST_INTT_3", "ST_NTT"}
                        ELSE state_i = "ST_NTT" /\ Len(pipe) = 1
<1> USE DEF Control, Rest, Forward, Backward
<1>0. /\ L \in Nat /\ L > 0 /\ p0_ctr_poly \in Poly /\ p12_ctr \in Poly
      /\ state \in MainState /\ state_i \in AccState /\ p0_state \in P0State
  BY LAssumption DEF TypeOK, MainType, P0Type, P12Type, AccType
<1>1. Len(pipe) \in Nat /\ Len(pipe) > 0 /\ Len(Tail(pipe)) = Len(pipe) - 1
  BY HeadTailProperties, EmptySeq, LenProperties DEF TypeOK, NttType
<1>2. ~Forward
  <2>1. In = 0 => ~Forward
    BY <1>0, <1>1 DEF NttInv, Out, Asked, Poly
  <2> QED
    BY <1>0, <1>1, <2>1 DEF NttInv, P0State, In
<1>3. state \in {"ST_WAIT_FN_DONE", "ST_WAIT_W_DONE"}
  BY <1>0, <1>2 DEF NttInv, MainState, Settled
<1>4. p12_state \notin KeyWait
  BY DEF ReadsOver, KeyWait
<1>5. Left \in {0, 1}
  BY <1>1, <1>3 DEF BackwardInv, Left, Entered
<1>6. IF Left = 0 THEN state_i \in {"ST_INTT_3", "ST_NTT"} ELSE state_i = "ST_NTT" /\ Len(pipe) = 1
  BY <1>0, <1>1, <1>3, <1>5 DEF BackwardInv, AccInv, Left, Entered, ReadsOver
<1> QED
  BY <1>1, <1>3, <1>4, <1>5, <1>6

\* A polynomial goes from the inverse transform to the final operation, which waits for it.
LEMMA InttOValidToFnStep ==
  ASSUME TypeOK, TypeOK', RequestsInv, FirstRun', Control, InttOValidToFn
  PROVE  /\ Control'
         /\ state \in {"ST_WAIT_FN_DONE", "ST_WAIT_W_DONE"} /\ ~Adds
         /\ Left \in {0, 1} /\ Fin = Left /\ fn_ctr = Left /\ Left' = Left + 1
<1> USE DEF Control, Rest, Forward, Backward, Adds
<1>0. /\ Comp = {0, 1} /\ L \in Nat /\ L > 0 /\ ctr \in Nat /\ fn_ctr \in {0, 1} /\ ~Adds
  BY LAssumption DEF Comp, TypeOK, MainType, FnType, Round, InttOValidToFn
<1>1. /\ state \in {"ST_WAIT_FN_DONE", "ST_WAIT_W_DONE"}
      /\ Len(pipe) \in Nat /\ Len(pipe) > 0 /\ Len(pipe') = Len(pipe) - 1
      /\ Left \in {0, 1} /\ p12_state \notin KeyWait
      /\ IF Left = 0 THEN state_i \in {"ST_INTT_3", "ST_NTT"} ELSE state_i = "ST_NTT" /\ Len(pipe) = 1
  BY InttPhase DEF InttOValidToFn
<1>2. PICK a, b : FnIValid(a, b)
  BY DEF InttOValidToFn
<1>3. /\ fn_ctr' = 1 - fn_ctr /\ offset_q' = 1 - offset_q /\ UNCHANGED en_add
      /\ last_q' <=> (ctr = 0 /\ fn_ctr = 0)
  <2>1. (last_q' <=> (last_q /\ fn_ctr # 1)) /\ fn_ctr' = 1 - fn_ctr /\ offset_q' = 1 - offset_q /\ UNCHANGED en_add
    BY <1>1, <1>2, FnIValidEffect
  <2>2. last_q <=> ctr = 0
    BY <1>1 DEF MainInv
  <2> QED
    BY <1>0, <2>1, <2>2
<1>4. Fin = Left /\ fn_ctr = Left /\ Leads(ctr) /\ Left' = Left + 1
  <2>1. Fin = Left
    BY <1>0 DEF Fin
  <2>2. fn_ctr = Left
    BY <1>1, <2>1 DEF OutInv
  <2>3. Leads(ctr)
    BY <1>0, <1>1 DEF P12Inv, P12Backward
  <2>4. UNCHANGED <<state_i, ren_1>>
    BY DEF InttOValidToFn, accVars
  <2>5. Left' = Left + 1
    BY <1>1, <2>4 DEF Left, Entered
  <2> QED
    BY <2>1, <2>2, <2>3, <2>5
<1>5. \A x \in Comp : Holds(x, 0)'
  <2>1. \A x \in Comp : Holds(x, 0)
    BY <1>0, <1>1 DEF FifoInv
  <2>2. CASE en_add
    BY <1>0, <2>1, <2>2 DEF InttOValidToFn, Holds, Push, Pop, TypeOK, FifoType
  <2>3. CASE ~en_add
    BY <2>1, <2>3 DEF InttOValidToFn, Holds, fifoVars
  <2> QED
    BY <2>2, <2>3
<1>6. /\ UNCHANGED <<accVars, p0Vars, p12_state, p12_ctr, p12_ctr_L, en_rlk_q, intt_q, rd_state>>
      /\ ~en_rlk_q /\ intt_q
  BY <1>1 DEF InttOValidToFn, P12Inv, rdVars
<1>6a. en_add => ~en_poly_q'
  BY <1>0, <1>1 DEF InttOValidToFn, P12Inv
<1>7. ASSUME ctr = 0, fn_ctr = 0 PROVE Control'
  <2>1. UNCHANGED mainVars /\ UNCHANGED outVars
    BY <1>1, <1>2, <1>7, FnIValidEffect
  <2>2. MainInv' /\ P0Inv'
    BY <1>1, <1>3, <1>6, <1>7, <2>1 DEF MainInv, P0Inv, Now, mainVars, p0Vars, accVars
  <2>3. P12Inv' /\ NttInv' /\ FifoInv' /\ AccInv'
    BY <1>0, <1>1, <1>3, <1>4, <1>5, <1>6, <1>6a, <2>1 DEF P12Inv, P12Backward, Leads, NttInv, FifoInv, AccInv, mainVars, p0Vars, accVars
  <2>4. BackwardInv' /\ OutInv'
    BY <1>0, <1>1, <1>3, <1>4, <1>7, <2>1 DEF InttOValidToFn, BackwardInv, OutInv, Fin, Now, mainVars, accVars, outVars
  <2> QED
    BY <2>2, <2>3, <2>4
<1>8. ASSUME ctr = 0, fn_ctr = 1 PROVE Control'
  <2>1. state' = "ST_LOAD_Q_G1" /\ ctr' = 1 /\ UNCHANGED starts /\ UNCHANGED outVars
    BY <1>0, <1>1, <1>2, <1>8, FnIValidEffect DEF NextRound
  <2>2. pipe' = <<>>
    <3>1. Len(pipe') = 0
      BY <1>1, <1>4, <1>8
    <3> QED
      BY <3>1, EmptySeq DEF TypeOK, NttType
  <2>3. MainInv' /\ P0Inv'
    BY <1>0, <1>1, <1>3, <1>6, <1>8, <2>1 DEF MainInv, P0Inv, Now, NextRound, p0Vars, accVars
  <2>4. P12Inv'
    BY <1>0, <1>1, <1>3, <1>4, <1>6, <1>6a, <1>8, <2>1 DEF P12Inv, P12Rest, Leads, Now, NextRound
  <2>5. NttInv' /\ FifoInv' /\ AccInv'
    BY <1>1, <1>4, <1>5, <1>6, <1>8, <2>1, <2>2 DEF NttInv, P0Inv, FifoInv, AccInv, p0Vars, accVars
  <2>6. BackwardInv' /\ OutInv'
    BY <1>0, <1>1, <1>3, <1>4, <1>8, <2>1 DEF BackwardInv, OutInv, Now, outVars
  <2> QED
    BY <2>3, <2>4, <2>5, <2>6
<1>9. ASSUME ctr # 0 PROVE Control'
  <2>1. /\ UNCHANGED mainVars /\ UNCHANGED out_ctr /\ WriteKeepsUp
        /\ wr'.busy /\ wr'.i = out_ctr
        /\ out_state = "ST_POLY_0_WRITE_START" => out_state' = "ST_POLY_0_WRITE_WAIT_DONE" /\ wr'.x = 0
        /\ out_state # "ST_POLY_0_WRITE_START" => out_state' = "ST_POLY_1_WRITE_WAIT_DONE" /\ wr'.x = 1
    BY <1>1, <1>2, <1>9, FnIValidEffect
  <2>2. MainInv' /\ P0Inv'
    BY <1>0, <1>1, <1>3, <1>6, <1>9, <2>1 DEF MainInv, P0Inv, Now, mainVars, p0Vars, accVars
  <2>3. P12Inv' /\ NttInv' /\ FifoInv' /\ AccInv'
    BY <1>0, <1>1, <1>3, <1>4, <1>5, <1>6, <1>6a, <2>1 DEF P12Inv, P12Backward, Leads, NttInv, FifoInv, AccInv, mainVars, p0Vars, accVars
  <2>4. BackwardInv'
    BY <1>0, <1>1, <1>3, <1>4, <1>9, <2>1 DEF InttOValidToFn, BackwardInv, mainVars, accVars
  <2>5. OutInv'
    BY <1>0, <1>1, <1>3, <1>4, <1>9, <2>1 DEF InttOValidToFn, OutInv, Fin, WriteState, WriteKeepsUp, Settled, Now, mainVars
  <2> QED
    BY <2>2, <2>3, <2>4, <2>5
<1> QED
  BY <1>0, <1>1, <1>4, <1>7, <1>8, <1>9

\* A polynomial goes from the inverse transform into the FIFO, where there is room for one more.
LEMMA InttOValidToFifoStep ==
  ASSUME TypeOK, TypeOK', RequestsInv, Control, InttOValidToFifo
  PROVE  /\ Control'
         /\ state \in {"ST_WAIT_FN_DONE", "ST_WAIT_W_DONE"}
         /\ Fin \in Int /\ Left - Fin \in {0, 1} /\ Left' = Left + 1 /\ UNCHANGED Fin
<1> USE DEF Control, Rest, Forward, Backward, Adds
<1>0. /\ Comp = {0, 1} /\ L \in Nat /\ L > 0 /\ ctr \in Nat /\ p12_state \in P12State /\ Adds
  BY LAssumption DEF Comp, TypeOK, MainType, P12Type, Round, InttOValidToFifo
<1>1. /\ state \in {"ST_WAIT_FN_DONE", "ST_WAIT_W_DONE"}
      /\ Len(pipe) \in Nat /\ Len(pipe) > 0 /\ Len(pipe') = Len(pipe) - 1
      /\ Left \in {0, 1} /\ p12_state \notin KeyWait
      /\ IF Left = 0 THEN state_i \in {"ST_INTT_3", "ST_NTT"} ELSE state_i = "ST_NTT" /\ Len(pipe) = 1
  BY InttPhase DEF InttOValidToFifo
<1>2. Left' = Left + 1 /\ UNCHANGED <<Fin, CtAsked>> /\ CtAsked \in {0, 1, 2} /\ Fin \in {CtAsked - 1, CtAsked}
  BY <1>0, <1>1 DEF InttOValidToFifo, Left, Entered, Fin, CtAsked, mainVars, rdVars, accVars, fnVars
<1>3. Left = CtAsked /\ ~en_poly_q
  <2>1. ~en_poly_q
    <3>1. p12_state \notin {"ST_LOAD_POLY_0", "ST_LOAD_POLY_1"} \/ ~en_poly_q
      BY DEF InttOValidToFifo, Settled, PolyRequested
    <3>2. en_poly_q => CtAsked = 0
      BY <1>0, <1>1, <1>2 DEF BackwardInv
    <3> QED
      BY <1>1, <3>1, <3>2 DEF CtAsked, P12Inv, P12Backward, Leads
  <2> QED
    BY <1>0, <1>1, <2>1 DEF BackwardInv
<1>4. P12Inv' /\ NttInv'
  BY <1>1 DEF InttOValidToFifo, P12Inv, P12Backward, Leads, NttInv, KeyWait, mainVars, rdVars, fnVars, p0Vars
<1>5. FifoInv'
  <2>1. ctr_i'[0] = NextSlot(ctr_i[0]) /\ UNCHANGED <<ctr_o, ctr_i[1]>>
    BY <1>0 DEF InttOValidToFifo, Push
  <2>2. Holds(0, Left - Fin) /\ Holds(1, 0) /\ Left - Fin \in {0, 1} /\ Left' - Fin' = (Left - Fin) + 1
    BY <1>0, <1>1, <1>2, <1>3 DEF FifoInv
  <2>3. Holds(0, Left - Fin)' /\ Holds(1, 0)'
    BY <2>1, <2>2 DEF Holds
  <2> QED
    BY <1>0, <1>1, <2>3 DEF InttOValidToFifo, FifoInv, mainVars, fnVars
<1>6. AccInv'
  BY <1>1 DEF InttOValidToFifo, AccInv, mainVars, accVars
<1>7. BackwardInv'
  BY <1>0, <1>1, <1>2, <1>3 DEF InttOValidToFifo, BackwardInv, KeyWait, mainVars, accVars, fnVars
<1>8. OutInv'
  BY <1>1, <1>2 DEF InttOValidToFifo, OutInv, Now, WriteState, mainVars, fnVars, outVars
<1> QED
  BY <1>1, <1>2, <1>3, <1>4, <1>5, <1>6, <1>7, <1>8, Frame DEF InttOValidToFifo, mainVars, fnVars, p0Vars, accVars

\* relin_cu_p1_p2.
LEMMA P12LoadSteps ==
  ASSUME TypeOK, TypeOK', RequestsInv, Control, P12LoadRlk \/ P12LoadPoly
  PROVE  /\ Control'
         /\ Forward => UNCHANGED <<Out, Mult(0), Mult(1)>>
         /\ Backward => UNCHANGED <<Left, Fin>>
<1> USE DEF Control, Rest, Forward, Backward, Adds
<1>0. /\ Port = {0, 1, 2} /\ Comp = {0, 1} /\ L \in Nat /\ L > 0
      /\ rd_state \in [Port -> {"idle", "busy", "stream"}]
      /\ p12_ctr \in Poly /\ Len(pipe) \in Nat /\ ctr \in Round /\ In \in 0 .. L
  <2>1. In \in 0 .. L
    BY LAssumption DEF In, TypeOK, P0Type, Poly
  <2> QED
    BY <2>1, LAssumption, Counts DEF Port, Comp, TypeOK, MainType, P12Type, RdType
<1>1. CASE P12LoadRlk
  <2>1. Forward /\ p12_state = "ST_LOAD_RLK" /\ en_rlk_q
    BY <1>1 DEF P12LoadRlk, RlkRequested, P12Inv
  <2>2. p12_ctr_L = ctr
    <3>1. Out =< L
      BY <1>0, <2>1, Counts DEF NttInv
    <3>2. Asked # L
      BY <1>0, <2>1, <3>1 DEF Out
    <3> QED
      BY <2>1, <3>2 DEF Asked, KeyWait
  <2>3. p12_state' = "ST_WAIT_DONE" /\ ~en_rlk_q' /\ UNCHANGED <<p12_ctr, p12_ctr_L, en_poly_q>>
    BY <1>1 DEF P12LoadRlk
  <2>4. UNCHANGED rd_state[0] /\ rd_state'[1] = "busy" /\ rd_state'[2] = "busy"
    BY <1>0, <1>1, <2>1 DEF P12LoadRlk, Request, RequestsInv, Waits1, Waits2
  <2>5. UNCHANGED <<In, Out, Mult(0), Mult(1)>>
    BY <1>0, <1>1, <2>1, <2>2, <2>3, <2>4 DEF P12LoadRlk, In, Out, Asked, Mult, KeyWait, mainVars, p0Vars
  <2>6. P12Inv'
    BY <1>1, <2>1, <2>2, <2>3 DEF P12LoadRlk, P12Inv, P12Forward, KeyWait, mainVars, fnVars
  <2>7. NttInv'
    BY <1>1, <2>1, <2>4, <2>5 DEF P12LoadRlk, NttInv, mainVars, p0Vars, nttVars
  <2>8. FifoInv' /\ AccInv'
    BY <1>0, <1>1, <2>1, <2>5 DEF P12LoadRlk, FifoInv, AccInv, Holds, mainVars, fifoVars, accVars
  <2>9. BackwardInv' /\ OutInv'
    BY <1>1, <2>1 DEF P12LoadRlk, BackwardInv, OutInv, Now, mainVars, fnVars, outVars
  <2> QED
    BY <1>1, <2>1, <2>5, <2>6, <2>7, <2>8, <2>9, Frame DEF P12LoadRlk, mainVars, fnVars, p0Vars, accVars
<1>2. CASE P12LoadPoly
  <2>1. PICK x \in Comp : /\ p12_state = <<"ST_LOAD_POLY_0", "ST_LOAD_POLY_1">>[x + 1]
                          /\ p12_state' = <<"ST_WAIT_DONE_2", "ST_WAIT_DONE_3">>[x + 1]
                          /\ Request({1}, <<"ct", PrimeOf(p12_ctr_L), x>>)
    BY <1>2 DEF P12LoadPoly
  <2>2. /\ p12_state \in {"ST_LOAD_POLY_0", "ST_LOAD_POLY_1"}
        /\ p12_state' = IF p12_state = "ST_LOAD_POLY_0" THEN "ST_WAIT_DONE_2" ELSE "ST_WAIT_DONE_3"
    BY <1>0, <2>1
  <2>3. en_poly_q /\ ~en_poly_q' /\ UNCHANGED <<p12_ctr, p12_ctr_L, en_rlk_q>>
    BY <1>2 DEF P12LoadPoly, PolyRequested
  <2>4. UNCHANGED <<rd_state[0], rd_state[2]>> /\ rd_state'[1] = "busy"
    BY <1>0, <2>1, <2>2 DEF Request, RequestsInv, Waits1
  <2>5. Backward /\ Adds /\ p12_ctr_L = ctr /\ p12_ctr = 0
    <3>1. Adds
      BY <2>2, <2>3, <1>0, LAssumption DEF P12Inv, P12Rest, P12Forward, P12Backward, Lags, Leads, CtLoaded, KeyWait, TypeOK, MainType, MainState
    <3>2. Backward
      BY <2>3, <3>1 DEF P12Inv
    <3> QED
      BY <2>2, <3>1, <3>2 DEF P12Inv, P12Backward, Leads, KeyWait
  <2>6. UNCHANGED <<Left, Fin>> /\ CtAsked' = CtAsked + 1
    BY <1>2, <2>2, <2>4, <2>5 DEF P12LoadPoly, Left, Entered, Fin, CtAsked, mainVars, nttVars, accVars, fnVars
  <2>7. P12Inv' /\ NttInv'
    BY <1>2, <2>2, <2>3, <2>5 DEF P12LoadPoly, P12Inv, P12Backward, NttInv, P0Inv, mainVars, p0Vars, nttVars, fnVars
  <2>8. FifoInv' /\ AccInv' /\ OutInv'
    BY <1>2, <2>5, <2>6 DEF P12LoadPoly, FifoInv, Holds, AccInv, OutInv, WriteState, Now, mainVars, fifoVars, accVars, fnVars, outVars
  <2>9. BackwardInv'
    BY <1>2, <2>2, <2>3, <2>5, <2>6 DEF P12LoadPoly, BackwardInv, KeyWait, mainVars, accVars, fnVars
  <2> QED
    BY <1>2, <2>5, <2>6, <2>7, <2>8, <2>9, Frame DEF P12LoadPoly, mainVars, fnVars, p0Vars, accVars
<1> QED
  BY <1>1, <1>2

\* A key arrives in the forward phase only, while the accumulators collect, and finds its polynomial.
LEMMA KeyPhase ==
  ASSUME TypeOK, RequestsInv, Control, NEW x \in Comp, rd_state[x + 1] = "busy", p12_state \in KeyWait
  PROVE  /\ Forward /\ Mult(x) = p12_ctr /\ p12_ctr < L /\ Asked = p12_ctr + 1
         /\ state_i = "ST_NTT" /\ Out - Mult(x) \in {1, 2}
<1> USE DEF Control, Rest, Forward, Backward
<1>0. /\ x \in {0, 1} /\ L \in Nat /\ L > 0 /\ p12_ctr \in Nat /\ p12_ctr < L
      /\ state \in MainState
  BY LAssumption DEF Comp, TypeOK, MainType, P12Type, Poly
<1>1. Mult(x) = p12_ctr /\ Asked = p12_ctr + 1
  BY DEF Mult, Asked, KeyWait
<1>2. Forward
  <2>1. ~Backward
    BY <1>0, LAssumption DEF P12Inv, P12Backward, Leads, KeyWait
  <2> QED
    BY <1>0, <2>1 DEF P12Inv, P12Rest, Lags, CtLoaded, MainState, KeyWait
<1>3. state_i = "ST_NTT"
  BY <1>0, <1>1, <1>2 DEF AccInv
<1> QED
  BY <1>0, <1>1, <1>2, <1>3, Counts

\* A product enters accumulator x.
LEMMA KeyArrives ==
  ASSUME TypeOK, TypeOK', RequestsInv, Control, NEW x \in Comp,
         Settled, rd_state[x + 1] = "busy", p12_state \in KeyWait,
         rd_state' = [rd_state EXCEPT ![x + 1] = "stream"],
         Pop(x), SumWritten(x), NEW v, Accumulate(x, v),
         UNCHANGED <<rd_data, fifo, ctr_i, mainVars, qVars, p0Vars, nttVars, p12Vars, fnVars, outVars>>
  PROVE  /\ Control'
         /\ UNCHANGED Out /\ Mult(x)' = Mult(x) + 1 /\ \A y \in Comp \ {x} : Mult(y)' = Mult(y)
<1> USE DEF Control, Rest, Forward, Backward
<1>0. /\ Port = {0, 1, 2} /\ Comp = {0, 1} /\ x \in {0, 1}
      /\ rd_state \in [Port -> {"idle", "busy", "stream"}]
      /\ p12_ctr \in Nat /\ adding \in [Comp -> BOOLEAN] /\ acc_ctr \in [Comp -> Round] /\ ctr_o \in [Comp -> Slot]
  BY DEF Port, Comp, TypeOK, P12Type, RdType, AccType, Poly, FifoType
<1>1. /\ Forward /\ Mult(x) = p12_ctr /\ Asked = p12_ctr + 1
      /\ state_i = "ST_NTT" /\ Out - Mult(x) \in {1, 2}
  BY KeyPhase
<1>2. rd_state'[x + 1] = "stream" /\ \A n \in Port \ {x + 1} : rd_state'[n] = rd_state[n]
  BY <1>0
<1>3. /\ UNCHANGED <<Asked, Out, state>> /\ Mult(x)' = Mult(x) + 1
      /\ \A y \in Comp \ {x} : Mult(y)' = Mult(y)
  BY <1>0, <1>1, <1>2 DEF Mult, Asked, Out, KeyWait, mainVars, p12Vars
<1>4. P12Inv' /\ NttInv'
  <2>1. UNCHANGED rd_state[0]
    BY <1>0, <1>2
  <2> QED
    BY <1>1, <2>1, Frame DEF P12Inv, P12Forward, Lags, Leads, CtLoaded, Adds, KeyWait, mainVars, p12Vars, fnVars
<1>5. FifoInv'
  <2>1. ctr_o'[x] = NextSlot(ctr_o[x]) /\ \A y \in Comp \ {x} : ctr_o'[y] = ctr_o[y]
    BY <1>0 DEF Pop
  <2>2. Holds(x, Out - Mult(x))'
    <3>1. Out' - Mult(x)' = (Out - Mult(x)) - 1
      BY <1>3, Counts
    <3>2. Holds(x, Out - Mult(x))
      BY <1>1 DEF FifoInv
    <3> QED
      BY <1>1, <2>1, <3>1, <3>2 DEF Holds
  <2>3. \A y \in Comp \ {x} : Holds(y, Out - Mult(y))'
    BY <1>1, <1>3, <2>1 DEF FifoInv, Holds
  <2> QED
    BY <1>1, <1>3, <2>2, <2>3 DEF FifoInv
<1>6. AccInv'
  BY <1>0, <1>1, <1>3 DEF AccInv, Accumulate, SumWritten
<1>7. BackwardInv' /\ OutInv'
  BY <1>1, <1>3 DEF BackwardInv, OutInv, Now, mainVars, fnVars, outVars
<1> QED
  BY <1>3, <1>4, <1>5, <1>6, <1>7, Frame DEF Accumulate, mainVars, fnVars

\* A ct polynomial arrives in the backward phase only and finds its sum in FIFO 0.
LEMMA CtArrives ==
  ASSUME TypeOK, TypeOK', RequestsInv, FirstRun', Control, P1Valid, p1_sel
  PROVE  /\ Control'
         /\ state \in {"ST_WAIT_FN_DONE", "ST_WAIT_W_DONE"} /\ Adds
         /\ UNCHANGED Left /\ Fin \in {0, 1} /\ Fin' = Fin + 1 /\ Left - Fin \in {1, 2}
         /\ p12_state = IF Fin = 0 THEN "ST_WAIT_DONE_2" ELSE "ST_WAIT_DONE_3"
<1> USE DEF Control, Rest, Forward, Backward
<1>0. /\ Port = {0, 1, 2} /\ Comp = {0, 1} /\ L \in Nat /\ L > 0 /\ ctr \in Nat
      /\ rd_state \in [Port -> {"idle", "busy", "stream"}] /\ ctr_o \in [Comp -> Slot]
      /\ p12_state \in P12State /\ p12_state \in Waits1 /\ fn_ctr \in {0, 1}
  BY LAssumption DEF Port, Comp, TypeOK, MainType, P12Type, RdType, FifoType, FnType, Round, P1Valid, RequestsInv
<1>1. state \in {"ST_WAIT_FN_DONE", "ST_WAIT_W_DONE"}
  BY DEF P1Valid, p1_sel, Settled
<1>2. Adds /\ p12_state \in {"ST_WAIT_DONE_2", "ST_WAIT_DONE_3"} /\ p12_ctr_L = ctr /\ p12_ctr = 0 /\ ctr # 0
  BY <1>0, <1>1 DEF P1Valid, P12Inv, P12Backward, Leads, Waits1, KeyWait, Adds
<1>3. UNCHANGED <<rd_state[0], rd_state[2]>> /\ rd_state[1] = "busy" /\ rd_state'[1] = "stream"
  BY <1>0 DEF P1Valid
<1>4. FnIValid(Front(0), rd_data[1]) /\ UNCHANGED accVars
  BY DEF P1Valid
<1>5. /\ fn_ctr' = 1 - fn_ctr /\ offset_q' = 1 - offset_q /\ UNCHANGED en_add
      /\ last_q' <=> (last_q /\ fn_ctr # 1)
      /\ UNCHANGED mainVars /\ UNCHANGED out_ctr /\ WriteKeepsUp
      /\ wr'.busy /\ wr'.i = out_ctr
      /\ out_state = "ST_POLY_0_WRITE_START" => out_state' = "ST_POLY_0_WRITE_WAIT_DONE" /\ wr'.x = 0
      /\ out_state # "ST_POLY_0_WRITE_START" => out_state' = "ST_POLY_1_WRITE_WAIT_DONE" /\ wr'.x = 1
  BY <1>1, <1>2, <1>4, FnIValidEffect
<1>6. /\ UNCHANGED <<Left, CtAsked, p12Vars, nttVars, p0Vars>> /\ Fin' = Fin + 1
      /\ Fin = CtAsked - 1 /\ CtAsked \in {1, 2}
  BY <1>2, <1>3, <1>4, <1>5 DEF P1Valid, Left, Entered, Fin, CtAsked, Adds, mainVars, accVars, nttVars, p12Vars
<1>7. MainInv' /\ P0Inv'
  BY <1>1, <1>2, <1>4, <1>5, <1>6 DEF MainInv, P0Inv, Now, mainVars, p0Vars, accVars
<1>8. P12Inv' /\ NttInv'
  <2>1. P12Inv'
    BY <1>1, <1>2, <1>5, <1>6 DEF P12Inv, P12Backward, Adds, mainVars, p12Vars
  <2> QED
    BY <1>3, <1>5, <1>6, <2>1, Frame DEF mainVars
<1>9. FifoInv'
  <2>1. ctr_o'[0] = NextSlot(ctr_o[0]) /\ ctr_o'[1] = ctr_o[1] /\ UNCHANGED ctr_i
    BY <1>0 DEF P1Valid, Pop
  <2>2. Left \in {CtAsked, CtAsked + 1} /\ Holds(0, Left - Fin) /\ Holds(1, 0)
    BY <1>0, <1>1, <1>2 DEF BackwardInv, FifoInv
  <2>3. Left - Fin \in {1, 2} /\ Left' - Fin' = (Left - Fin) - 1
    BY <1>6, <2>2
  <2>4. Holds(0, Left - Fin)' /\ Holds(1, 0)'
    BY <2>1, <2>2, <2>3 DEF Holds
  <2> QED
    BY <1>1, <1>2, <1>5, <2>4 DEF FifoInv, Adds, mainVars
<1>10. AccInv'
  BY <1>1, <1>4, <1>5 DEF AccInv, mainVars, accVars
<1>11. BackwardInv'
  BY <1>1, <1>2, <1>4, <1>5, <1>6 DEF BackwardInv, Adds, mainVars, accVars, p12Vars
<1>12. OutInv'
  BY <1>0, <1>1, <1>2, <1>5, <1>6 DEF P1Valid, Settled, OutInv, WriteState, WriteKeepsUp, Now, mainVars
<1>13. /\ Left - Fin \in {1, 2}
       /\ p12_state = IF Fin = 0 THEN "ST_WAIT_DONE_2" ELSE "ST_WAIT_DONE_3"
  <2>1. Left \in {CtAsked, CtAsked + 1}
    BY <1>0, <1>1, <1>2 DEF BackwardInv
  <2> QED
    BY <1>2, <1>6, <2>1 DEF CtAsked
<1> QED
  BY <1>1, <1>2, <1>6, <1>7, <1>8, <1>9, <1>10, <1>11, <1>12, <1>13

\* What arrives on port p1 while it is routed to the multiplier is a key.
LEMMA KeyOnP1 ==
  ASSUME TypeOK, RequestsInv, Control, rd_state[1] = "busy", ~p1_sel
  PROVE  p12_state \in KeyWait
BY DEF p1_sel, RequestsInv, Waits1, KeyWait, Control, P12Inv, P12Rest, P12Forward, Lags, Leads,
       CtLoaded, Rest, Forward, TypeOK, MainType, MainState

\* A word of port p1 goes to the unit that its round's counts name.
LEMMA P1ValidStep ==
  ASSUME TypeOK, TypeOK', RequestsInv, FirstRun', Control, P1Valid
  PROVE  Control'
<1>1. CASE p1_sel
  BY <1>1, CtArrives
<1>2. CASE ~p1_sel
  <2>1. p12_state \in KeyWait
    BY <1>2, KeyOnP1 DEF P1Valid
  <2>2. 0 \in Comp /\ 0 + 1 = 1
    BY DEF Comp
  <2> QED
    BY <1>2, <2>1, <2>2, KeyArrives DEF P1Valid
<1> QED
  BY <1>1, <1>2

\* A word of port p2 goes to the second multiplier, which has had its operand.
LEMMA P2ValidStep ==
  ASSUME TypeOK, TypeOK', RequestsInv, Control, P2Valid
  PROVE  Control'
<1>1. p12_state \in KeyWait
  BY DEF P2Valid, RequestsInv, Waits2, KeyWait
<1>2. 1 \in Comp /\ 1 + 1 = 2
  BY DEF Comp
<1> QED
  BY <1>1, <1>2, KeyArrives DEF P2Valid

\* Ports p1 and p2 end a polynomial together or one after the other, and the counts stay together.
LEMMA P12DoneStep ==
  ASSUME TypeOK, TypeOK', RequestsInv, RequestsInv', Control, NEW ends \in {{1}, {2}, {1, 2}}, P12Done(ends)
  PROVE  /\ Control'
         /\ Forward => UNCHANGED <<Out, Mult(0), Mult(1)>>
         /\ Backward => UNCHANGED <<Left, Fin>>
<1> USE DEF Control, Rest, Forward, Backward, Adds
<1>0. /\ Port = {0, 1, 2} /\ Comp = {0, 1} /\ L \in Nat /\ L > 0
      /\ rd_state \in [Port -> {"idle", "busy", "stream"}] /\ p12_state \in P12State
      /\ p12_ctr \in 0 .. L - 1 /\ ctr \in 0 .. L /\ p12_ctr_L \in 0 .. L /\ state \in MainState
  BY LAssumption DEF Port, Comp, TypeOK, MainType, P12Type, RdType, Poly, Round
<1>1. /\ UNCHANGED <<en_rlk_q, en_poly_q, state, ctr, starts, en_add, pipe, state_i, ren_1>>
      /\ UNCHANGED <<mainVars, p0Vars, nttVars, fifoVars, accVars, fnVars, outVars>>
  BY DEF P12Done, mainVars, fnVars, nttVars, accVars
<1>2. /\ rd_state'[0] = rd_state[0]
      /\ \A x \in Comp : rd_state'[x + 1] = "busy" <=> rd_state[x + 1] = "busy"
  BY <1>0 DEF P12Done
<1>3. CASE BothLoaded(ends)
  <2>1. p12_state \in KeyWait /\ rd_state[1] # "busy" /\ rd_state[2] # "busy"
    BY <1>0, <1>3 DEF P12Done, BothLoaded, KeyWait, RequestsInv, Waits1, Waits2
  <2>2. p12_ctr_L = ctr /\ (Forward \/ Backward)
    BY <1>0, <2>1, LAssumption DEF P12Inv, P12Rest, P12Forward, P12Backward, Lags, Leads, CtLoaded, KeyWait, MainState
  <2>3. KeysLoaded
    BY <1>3, <2>1 DEF P12Done, KeyWait
  <2>4. IF p12_ctr = L - 1
        THEN p12_ctr' = 0 /\ IF Adds THEN p12_state' = "ST_LOAD_POLY_0" /\ p12_ctr_L' = ctr
                                     ELSE p12_state' = "ST_LOAD_RLK" /\ p12_ctr_L' = NextRound(ctr)
        ELSE p12_ctr' = p12_ctr + 1 /\ p12_state' = "ST_LOAD_RLK" /\ p12_ctr_L' = ctr
    BY <1>0, <2>2, <2>3 DEF KeysLoaded, NextKey, CtFollows
  <2>5. UNCHANGED <<Asked, Out, Mult(0), Mult(1), In>>
    <3>1. NextRound(ctr) # ctr
      BY <1>0 DEF NextRound
    <3>2. Asked = p12_ctr + 1 /\ Asked' = p12_ctr + 1
      BY <1>0, <1>1, <2>1, <2>4, <3>1 DEF Asked, KeyWait
    <3>3. UNCHANGED Out
      BY <1>1, <3>2 DEF Out
    <3>4. UNCHANGED In
      BY <1>1, <1>2 DEF In, p0Vars
    <3> QED
      BY <1>0, <1>1, <1>2, <2>1, <3>2, <3>3, <3>4 DEF Mult
  <2>6. Backward => p12_ctr = L - 1
    BY <2>1, <2>2 DEF P12Inv, P12Backward, Leads, KeyWait
  <2>7. Backward => UNCHANGED <<Left, Fin>> /\ Left = 0 /\ (Adds => Fin = 0 /\ CtAsked = 0 /\ CtAsked' = 0)
    BY <1>0, <1>1, <2>1, <2>4, <2>6 DEF BackwardInv, Left, Entered, Fin, CtAsked, KeyWait
  <2>8. P12Inv'
    BY <1>0, <1>1, <2>2, <2>4, <2>6 DEF P12Inv, P12Forward, P12Backward, Leads
  <2>9. NttInv'
    BY <1>1, <1>2, <2>2, <2>5 DEF NttInv, p0Vars, nttVars
  <2>10. FifoInv' /\ AccInv'
    BY <1>0, <1>1, <2>2, <2>5, <2>7 DEF FifoInv, AccInv, Holds, fifoVars, accVars
  <2>11. BackwardInv' /\ OutInv'
    BY <1>1, <2>1, <2>2, <2>4, <2>6, <2>7 DEF BackwardInv, OutInv, KeyWait, Now, fnVars, outVars
  <2> QED
    BY <1>1, <2>5, <2>7, <2>8, <2>9, <2>10, <2>11, Frame DEF accVars, fnVars
<1>4. CASE p12_state = "ST_WAIT_DONE" /\ ~BothLoaded(ends)
  <2>1. p12_state' \in {"ST_WAIT_DONE_0", "ST_WAIT_DONE_1"} /\ UNCHANGED <<p12_ctr, p12_ctr_L>>
    BY <1>4 DEF P12Done
  <2>2. Forward \/ Backward
    BY <1>0, <1>4 DEF P12Inv, P12Rest, Lags, CtLoaded, MainState
  <2>3. /\ UNCHANGED <<Asked, Out, Mult(0), Mult(1), In, Left>>
        /\ (Backward => UNCHANGED <<Fin, CtAsked>>)
    BY <1>0, <1>1, <1>2, <1>4, <2>1 DEF Asked, Out, Mult, In, Left, Entered, Fin, CtAsked, KeyWait, p0Vars
  <2>4. P12Inv' /\ NttInv'
    BY <1>0, <1>1, <1>2, <1>4, <2>1, <2>2, <2>3 DEF P12Inv, P12Forward, P12Backward, Lags, Leads, CtLoaded, NttInv, KeyWait, p0Vars, nttVars
  <2>5. FifoInv' /\ AccInv'
    BY <1>0, <1>1, <2>2, <2>3 DEF FifoInv, AccInv, Holds, fifoVars, accVars
  <2>6. BackwardInv' /\ OutInv'
    BY <1>1, <1>4, <2>1, <2>2, <2>3 DEF BackwardInv, OutInv, KeyWait, Now, fnVars, outVars
  <2> QED
    BY <1>1, <2>3, <2>4, <2>5, <2>6, Frame DEF accVars, fnVars
<1>5. CASE p12_state = "ST_WAIT_DONE_2"
  <2>1. p12_state' = "ST_LOAD_POLY_1" /\ UNCHANGED <<p12_ctr, p12_ctr_L>>
    BY <1>0, <1>5 DEF P12Done, BothLoaded, RequestsInv, Waits2
  <2>2. Backward /\ rd_state[1] = "stream"
    BY <1>0, <1>5 DEF P12Done, P12Inv, P12Rest, P12Forward, Lags, Leads, CtLoaded, KeyWait, MainState, RequestsInv, Waits2
  <2>3. UNCHANGED <<Left, Fin, CtAsked>>
    BY <1>1, <1>5, <2>1, <2>2 DEF Left, Entered, Fin, CtAsked
  <2>4. P12Inv' /\ NttInv'
    BY <1>1, <1>2, <1>5, <2>1, <2>2 DEF P12Inv, P12Backward, Leads, NttInv, P0Inv, KeyWait, p0Vars, nttVars
  <2>5. FifoInv' /\ AccInv'
    BY <1>1, <2>2, <2>3 DEF FifoInv, AccInv, Holds, fifoVars, accVars
  <2>6. BackwardInv' /\ OutInv'
    BY <1>1, <1>5, <2>1, <2>2, <2>3 DEF BackwardInv, OutInv, KeyWait, Now, fnVars, outVars
  <2> QED
    BY <1>1, <2>2, <2>3, <2>4, <2>5, <2>6, Frame DEF accVars, fnVars
<1>6. CASE p12_state = "ST_WAIT_DONE_3"
  <2>1. p12_state' = "ST_LOAD_RLK" /\ p12_ctr_L' = NextRound(p12_ctr_L) /\ UNCHANGED p12_ctr
    BY <1>0, <1>6 DEF P12Done, BothLoaded, RequestsInv, Waits2
  <2>2. rd_state[1] = "stream"
    BY <1>0, <1>6 DEF P12Done, RequestsInv, Waits2
  <2>3. P12Inv'
    BY <1>0, <1>1, <1>6, <2>1 DEF P12Inv, P12Rest, P12Forward, P12Backward, Lags, Leads, KeyWait, Now
  <2>4. Backward => UNCHANGED <<Left, Fin, CtAsked>>
    BY <1>1, <1>6, <2>1, <2>2 DEF Left, Entered, Fin, CtAsked
  <2>5. Forward => UNCHANGED <<Asked, Out, Mult(0), Mult(1), In>>
    <3>1. Forward => p12_ctr_L' = ctr /\ p12_ctr = 0
      BY <1>6, <2>1 DEF P12Inv, P12Forward, Lags, Leads, KeyWait
    <3> QED
      BY <1>0, <1>1, <1>2, <1>6, <2>1, <3>1 DEF Asked, Out, Mult, In, KeyWait, p0Vars
  <2>6. NttInv'
    BY <1>1, <1>2, <2>5 DEF NttInv, p0Vars, nttVars
  <2>7. FifoInv' /\ AccInv'
    BY <1>0, <1>1, <2>4, <2>5 DEF FifoInv, AccInv, Holds, fifoVars, accVars
  <2>8. BackwardInv' /\ OutInv'
    BY <1>1, <1>6, <2>1, <2>4 DEF BackwardInv, OutInv, KeyWait, Now, fnVars, outVars
  <2> QED
    BY <1>1, <2>3, <2>4, <2>5, <2>6, <2>7, <2>8, Frame DEF accVars, fnVars
<1> QED
  BY <1>0, <1>3, <1>4, <1>5, <1>6 DEF P12Done, BothLoaded, RequestsInv, Waits1, Waits2

\* relin_accum_wrapper.
LEMMA AccSteps ==
  ASSUME TypeOK, TypeOK', Control, (\E x \in Comp : AccWDone(x)) \/ AccAllDone
  PROVE  Control'
<1> USE DEF Control, Rest, Forward, Backward
<1>0. /\ Comp = {0, 1} /\ L \in Nat /\ L > 0
      /\ acc_ctr \in [Comp -> 0 .. L] /\ adding \in [Comp -> BOOLEAN] /\ Asked \in 0 .. L
      /\ \A x \in Comp : Mult(x) \in Nat /\ Mult(x) =< L
  <2>1. Asked \in 0 .. L /\ \A x \in Comp : Mult(x) \in Nat /\ Asked - Mult(x) \in {0, 1}
    BY Counts
  <2> QED
    BY <2>1, LAssumption DEF Comp, TypeOK, AccType, Round
<1>1. ASSUME NEW x \in Comp, AccWDone(x) PROVE Control'
  <2>1. Forward /\ state_i = "ST_NTT" /\ Mult(x) = acc_ctr[x] + 1
    BY <1>1 DEF AccWDone, AccInv
  <2>2. UNCHANGED <<mainVars, p12Vars, rdVars, state_i, ren_1, start_read_q>>
    BY <1>1 DEF AccWDone
  <2>3. acc_ctr' = [acc_ctr EXCEPT ![x] = @ + 1] /\ adding' = [adding EXCEPT ![x] = FALSE]
    <3>1. acc_ctr[x] \in Nat /\ acc_ctr[x] < L
      BY <1>0, <2>1
    <3> QED
      BY <1>1, <2>1, <3>1 DEF AccWDone
  <2>4. UNCHANGED <<Mult(0), Mult(1)>>
    BY <2>2 DEF Mult, Asked, mainVars, p12Vars, rdVars
  <2>5. AccInv'
    BY <1>0, <2>1, <2>2, <2>3, <2>4 DEF AccInv, mainVars
  <2> QED
    BY <1>1, <2>2, <2>5, Frame DEF AccWDone, mainVars, rdVars, nttVars, fnVars, p0Vars
<1>2. CASE AccAllDone
  <2>1. state_i = "ST_NTT" /\ \A x \in Comp : acc_ctr[x] = L
    BY <1>2 DEF AccAllDone, AccFull
  <2>2. Forward /\ \A x \in Comp : Mult(x) = L /\ ~adding[x]
    <3>1. Forward
      BY <1>0, <2>1 DEF AccInv
    <3> QED
      BY <1>0, <2>1, <3>1 DEF AccInv
  <2>3. UNCHANGED <<mainVars, p12Vars, rdVars, ren_1, start_read_q>>
    BY <1>2 DEF AccAllDone
  <2>4. UNCHANGED <<Mult(0), Mult(1), Asked, Out>>
    BY <2>3 DEF Mult, Asked, Out, mainVars, p12Vars, rdVars
  <2>5. AccInv'
    BY <1>0, <1>2, <2>2, <2>3, <2>4 DEF AccAllDone, AccInv, mainVars
  <2>6. FifoInv' /\ BackwardInv' /\ OutInv'
    BY <1>0, <1>2, <2>2, <2>3, <2>4 DEF AccAllDone, FifoInv, Holds, BackwardInv, OutInv, Now, mainVars, fifoVars, fnVars, outVars
  <2> QED
    BY <1>2, <2>3, <2>5, <2>6, Frame DEF AccAllDone, mainVars, rdVars, nttVars, fnVars, p0Vars
<1> QED
  BY <1>1, <1>2

\* Accumulator 0 is read once every polynomial of ct2 has been added to both sums.
LEMMA AccRead0Step ==
  ASSUME TypeOK, TypeOK', Control, AccRead0
  PROVE  /\ Control'
         /\ Forward /\ p0_state = "ST_IDLE" /\ pipe = <<>> /\ Mult(0) = L /\ Mult(1) = L
         /\ p12_state # "ST_WAIT_DONE_3" /\ state' = "ST_LOAD_Q_G2" /\ Left' = 0 /\ Fin' = 0
<1> USE DEF Control, Rest, Forward, Backward, Adds
<1>0. /\ Comp = {0, 1} /\ L \in Nat /\ L > 0 /\ p12_ctr \in 0 .. L - 1 /\ ctr \in 0 .. L
      /\ Asked \in 0 .. L /\ \A x \in Comp : Mult(x) \in Nat /\ Asked - Mult(x) \in {0, 1}
      /\ Out \in {Asked, Asked + 1} /\ p12_state \in P12State
  BY LAssumption, Counts DEF Comp, TypeOK, P12Type, MainType, Poly, Round
<1>1. Forward /\ p0_state = "ST_IDLE" /\ state_i = "ST_INTT_1" /\ ~ren_1
  BY DEF AccRead0, AccReading, P0Inv, AccInv
<1>2. pipe = <<>> /\ Len(pipe) = 0 /\ Len(pipe') = 1
  <2>1. pipe = <<>>
    BY <1>1 DEF NttInv
  <2>2. pipe' = <<InverseTransform(sum[0], 0, psi, q_g1)>>
    BY <2>1 DEF AccRead0, IntoIntt
  <2> QED
    BY <2>1, <2>2
<1>3. Mult(0) = L /\ Mult(1) = L /\ Asked = L /\ Out = L /\ ~en_rlk_q
  <2>1. In = L
    BY <1>1 DEF In
  <2>2. Out = L
    BY <1>0, <1>1, <1>2, <2>1 DEF NttInv
  <2>3. Mult(0) = L /\ Mult(1) = L
    BY <1>0, <1>1 DEF AccInv
  <2>4. Asked = L
    BY <1>0, <2>3
  <2>5. ~en_rlk_q
    BY <1>0, <2>2, <2>4 DEF Out
  <2> QED
    BY <2>2, <2>3, <2>4, <2>5
<1>4. /\ UNCHANGED <<ctr, starts, last_q, en_add, rd_state, p12Vars, p0Vars, fifoVars, fnVars, outVars>>
      /\ UNCHANGED <<p12_state, p12_ctr, p12_ctr_L, en_rlk_q, en_poly_q, acc_ctr, adding, ren_1>>
      /\ state' = "ST_LOAD_Q_G2" /\ state_i' = "ST_INTT_2" /\ ~start_read_q' /\ intt_q'
  BY <1>1 DEF AccRead0, IntoIntt, p12Vars, fnVars, rdVars
<1>5. P12Backward /\ (en_add => ~en_poly_q) /\ p12_state \in KeyWait \union (IF Adds THEN {"ST_LOAD_POLY_0"} ELSE {"ST_LOAD_RLK"})
  <2>1. p12_state # "ST_WAIT_DONE_3" /\ ~(p12_state = "ST_LOAD_RLK" /\ p12_ctr_L = ctr)
    BY <1>0, <1>3 DEF Asked, KeyWait
  <2>2. p12_state \in KeyWait => p12_ctr = L - 1 /\ rd_state[1] # "busy" /\ rd_state[2] # "busy"
    BY <1>0, <1>3 DEF Mult, Asked
  <2>3. P12Forward /\ (en_add => ~en_poly_q)
    BY <1>1 DEF P12Inv
  <2> QED
    BY <2>1, <2>2, <2>3 DEF P12Forward, P12Backward, Lags, Leads, CtLoaded
<1>6. P12Inv'
  BY <1>1, <1>3, <1>4, <1>5 DEF P12Inv, P12Backward, Leads
<1>7. Left' = 0 /\ Fin' = 0 /\ (Adds => CtAsked' = 0)
  <2>1. Left' = 0
    BY <1>2, <1>4 DEF Left, Entered
  <2>2. Adds => p12_state \in KeyWait \union {"ST_LOAD_POLY_0"}
    BY <1>5
  <2> QED
    BY <1>4, <2>1, <2>2 DEF CtAsked, Fin, KeyWait
<1>8. MainInv' /\ P0Inv' /\ NttInv'
  BY <1>1, <1>4 DEF MainInv, P0Inv, NttInv, Now, p0Vars
<1>9. FifoInv' /\ AccInv'
  <2>1. \A x \in Comp : Holds(x, 0)
    BY <1>0, <1>1, <1>3 DEF FifoInv
  <2> QED
    BY <1>0, <1>1, <1>4, <1>7, <2>1 DEF FifoInv, AccInv, Holds, fifoVars
<1>10. BackwardInv' /\ OutInv'
  BY <1>1, <1>4, <1>5, <1>7 DEF P12Inv, BackwardInv, OutInv, WriteState, Now, fnVars, outVars
<1> QED
  BY <1>1, <1>2, <1>3, <1>4, <1>5, <1>6, <1>7, <1>8, <1>9, <1>10 DEF KeyWait

\* The end of each read, and the read of accumulator 1.
LEMMA AccReadSteps ==
  ASSUME TypeOK, TypeOK', Control, AccRead0Done \/ AccRead1 \/ AccRead1Done
  PROVE  Control'
<1> USE DEF Control, Rest, Forward, Backward, Adds
<1>0. Backward /\ Len(pipe) \in Nat
  <2>1. state \in MainState /\ state_i \in AccState
    BY DEF TypeOK, MainType, AccType
  <2>2. state_i \in {"ST_INTT_2", "ST_INTT_3"} \/ ren_1
    BY DEF AccRead0Done, AccRead1, AccRead1Done
  <2> QED
    BY <2>1, <2>2, Counts DEF AccInv, MainState
<1>1. /\ UNCHANGED <<state, ctr, starts, last_q, en_add, acc_ctr, adding, start_read_q>>
      /\ UNCHANGED <<rd_state, p12Vars, p0Vars, fifoVars, fnVars, outVars>>
  BY <1>0 DEF AccRead0Done, AccRead1, AccRead1Done, mainVars, fnVars, rdVars
<1>2. UNCHANGED Left
  <2>1. CASE AccRead0Done
    BY <2>1 DEF AccRead0Done, Left, Entered, nttVars
  <2>2. CASE AccRead1
    <3>1. Len(pipe') = Len(pipe) + 1
      BY <2>2, AppendProperties, InverseTransformType DEF AccRead1, IntoIntt, TypeOK, NttType, AccType, QType, Comp
    <3>2. state_i = "ST_INTT_3" /\ ren_1 /\ ~ren_1' /\ UNCHANGED state_i
      BY <2>2 DEF AccRead1, AccInv
    <3> QED
      BY <1>0, <3>1, <3>2 DEF Left, Entered
  <2>3. CASE AccRead1Done
    BY <2>3 DEF AccRead1Done, Left, Entered, nttVars
  <2> QED
    BY <2>1, <2>2, <2>3
<1>3. UNCHANGED <<Fin, CtAsked>>
  BY <1>1, <1>2 DEF Fin, CtAsked, p12Vars
<1>4. intt_q /\ intt_q'
  BY <1>0 DEF AccRead0Done, AccRead1, AccRead1Done, IntoIntt, NttInv, nttVars
<1>5. state_i' \in {"ST_INTT_3", "ST_NTT"} /\ (ren_1' => state_i' = "ST_INTT_3") /\ state # "ST_LOAD_Q_G2"
      /\ (Left =< 1 \/ state_i' = "ST_NTT")
  BY <1>0 DEF AccRead0Done, AccRead1, AccRead1Done, AccInv, BackwardInv, Settled
<1>6. NttInv' /\ FifoInv' /\ AccInv'
  BY <1>0, <1>1, <1>2, <1>3, <1>4, <1>5 DEF NttInv, P0Inv, FifoInv, Holds, AccInv, p0Vars, fifoVars
<1>7. BackwardInv' /\ OutInv'
  BY <1>0, <1>1, <1>2, <1>3, <1>5 DEF BackwardInv, OutInv, Now, p12Vars, fnVars, outVars
<1> QED
  BY <1>1, <1>6, <1>7, Frame DEF mainVars, p12Vars

\* relin_cu_out.
LEMMA P3DoneStep ==
  ASSUME TypeOK, Control, P3Done
  PROVE  Control'
<1> USE DEF Control, Rest, Forward, Backward, Adds
<1>1. /\ UNCHANGED <<state, ctr, starts, last_q, en_add, fn_ctr, offset_q, out_ctr>>
      /\ UNCHANGED <<rdVars, p12Vars, p0Vars, nttVars, accVars, fifoVars>>
  BY DEF P3Done, mainVars, fnVars
<1>2. /\ out_state' = IF out_state = "ST_POLY_0_WRITE_WAIT_DONE" THEN "ST_POLY_1_WRITE_START" ELSE "ST_END"
      /\ out_state \in {"ST_POLY_0_WRITE_WAIT_DONE", "ST_POLY_1_WRITE_WAIT_DONE"} /\ ~wr'.busy
  BY DEF P3Done, AfterWrite, OutInv, Idle
<1>3. UNCHANGED <<Left, Fin, CtAsked>>
  BY <1>1 DEF Left, Entered, Fin, CtAsked, rdVars, p12Vars, nttVars, accVars
<1>4. OutInv'
  BY <1>1, <1>2, <1>3 DEF OutInv, WriteState, Now
<1> QED
  BY <1>1, <1>4, Frame DEF mainVars, rdVars, accVars, nttVars

\* The output of a round ends, with the core's last round or one behind it.
LEMMA OutEndStep ==
  ASSUME TypeOK, TypeOK', RequestsInv, Control, OutEnd
  PROVE  Control'
<1> USE DEF Control, Rest, Forward, Backward, Adds
<1>0. L \in Nat /\ L > 0 /\ ctr \in 0 .. L /\ Len(pipe) \in Nat /\ pipe \in Seq(Value)
      /\ rd_state \in [Port -> {"idle", "busy", "stream"}] /\ Port = {0, 1, 2}
  BY LAssumption, Counts DEF TypeOK, MainType, Round, NttType, RdType, Port
<1>1. Backward /\ ctr # 0 /\ Fin \notin {0, 1}
  BY DEF OutEnd, OutInv, WriteState
<1>2. Left = 2 /\ Fin = 2 /\ (Adds => CtAsked = 2)
  BY <1>1 DEF BackwardInv, Fin, CtAsked
<1>3. state = "ST_WAIT_W_DONE" /\ state_i = "ST_NTT" /\ pipe = <<>> /\ ~ren_1
  <2>1. state = "ST_WAIT_W_DONE" /\ state_i = "ST_NTT" /\ ~ren_1
    BY <1>1, <1>2 DEF BackwardInv, AccInv, MainInv
  <2>2. Len(pipe) = 0
    BY <1>0, <1>2, <2>1 DEF Left, Entered
  <2> QED
    BY <1>0, <2>1, <2>2, EmptySeq
<1>4. IF ctr = L THEN state' = "ST_DONE" /\ ctr' = ctr ELSE state' = "ST_LOAD_Q_G1" /\ ctr' = ctr + 1
  BY <1>3 DEF OutEnd
<1>5. Now' = NextRound(ctr)
  BY <1>0, <1>4 DEF Now, NextRound
<1>6. /\ UNCHANGED <<starts, last_q, en_add, fn_ctr, offset_q, wr, p12_state, p12_ctr, p12_ctr_L, en_rlk_q, en_poly_q>>
      /\ UNCHANGED <<rd_state, p0Vars, nttVars, accVars, fifoVars>>
      /\ out_state' = "ST_POLY_0_WRITE_START" /\ out_ctr' = NextOut /\ out_state = "ST_END"
  BY DEF OutEnd, fnVars, rdVars, p12Vars
<1>7. MainInv' /\ P0Inv'
  BY <1>0, <1>1, <1>3, <1>4, <1>5, <1>6 DEF MainInv, P0Inv, p0Vars, accVars
<1>8. P12Inv'
  <2>1. (p12_state = "ST_WAIT_DONE_3" /\ rd_state[1] = "stream" /\ p12_ctr_L = ctr /\ p12_ctr = 0) \/ Leads(ctr)
    <3>1. p12_state \notin KeyWait
      BY <1>1, <1>2 DEF BackwardInv
    <3>2. CASE Leads(ctr)
      BY <3>2
    <3>3. CASE ~Leads(ctr)
      <4>1. Adds /\ p12_ctr_L = ctr /\ p12_ctr = 0 /\ p12_state # "ST_LOAD_RLK"
        BY <1>1, <3>1, <3>3 DEF P12Inv, P12Backward
      <4>2. p12_state = "ST_WAIT_DONE_3" /\ rd_state[1] # "busy"
        BY <1>2, <4>1 DEF Fin, CtAsked
      <4> QED
        BY <1>0, <4>1, <4>2 DEF RequestsInv, Waits1
    <3> QED
      BY <3>2, <3>3
  <2>2. en_add => ~en_poly_q
    BY <1>1, <1>2 DEF BackwardInv
  <2>3. ~en_rlk_q
    BY <1>1 DEF P12Inv
  <2> QED
    BY <1>4, <1>5, <1>6, <2>1, <2>2, <2>3 DEF P12Inv, P12Rest, Leads, Lags, CtLoaded
<1>9. NttInv' /\ FifoInv' /\ AccInv'
  <2>1. NttInv'
    BY <1>1, <1>3, <1>4, <1>6 DEF NttInv, P0Inv, nttVars, p0Vars
  <2>2. \A x \in Comp : Holds(x, 0)
    BY <1>1, <1>2 DEF FifoInv, Comp
  <2>3. FifoInv' /\ AccInv'
    BY <1>1, <1>3, <1>4, <1>6, <2>2 DEF FifoInv, Holds, AccInv, accVars, fifoVars
  <2> QED
    BY <2>1, <2>3
<1>10. BackwardInv' /\ OutInv'
  BY <1>0, <1>1, <1>2, <1>4, <1>5, <1>6 DEF BackwardInv, OutInv, NextOut, NextRound, Now
<1> QED
  BY <1>7, <1>8, <1>9, <1>10

-----------------------------------------------------------------------------
\* What is a first run has been one all along.
LEMMA FirstRunPast == TypeOK /\ [Next]_vars /\ FirstRun' => FirstRun
<1> SUFFICES ASSUME TypeOK, [Next]_vars PROVE starts' = starts \/ starts' = starts + 1
  BY MaxStartsAssumption DEF FirstRun, TypeOK, MainType
<1> QED
  BY DEF Next, Step, vars, mainVars, Start, LoadQG1, Op, LoadQG2, Done, P0WaitOver, P0Load, P0Valid, P0Done,
         P0InttReady, NttOValid, InttOValidToFn, InttOValidToFifo, P12LoadRlk, P12LoadPoly, P1Valid, P2Valid,
         P12Done, AccWDone, AccAllDone, AccRead0, AccRead0Done, AccRead1, AccRead1Done, P3Done, OutEnd,
         FnIValid, FnIDone

\* Every step of the first run keeps the control.
LEMMA ControlStep ==
  TypeOK /\ TypeOK' /\ RequestsInv /\ RequestsInv' /\ ControlInv /\ [Next]_vars => ControlInv'
<1> SUFFICES ASSUME TypeOK, TypeOK', RequestsInv, RequestsInv', Control, FirstRun', [Next]_vars
             PROVE  Control'
  BY FirstRunPast DEF ControlInv
<1>1. CASE Start \/ LoadQG1 \/ Op \/ LoadQG2 \/ Done
  BY <1>1, MainSteps
<1>2. CASE P0WaitOver \/ P0Load \/ P0Valid \/ P0Done \/ P0InttReady
  BY <1>2, P0Steps
<1>3. CASE NttOValid
  BY <1>3, NttOValidStep
<1>4. CASE InttOValidToFn
  BY <1>4, InttOValidToFnStep
<1>5. CASE InttOValidToFifo
  BY <1>5, InttOValidToFifoStep
<1>6. CASE P12LoadRlk \/ P12LoadPoly
  BY <1>6, P12LoadSteps
<1>7. CASE P1Valid
  BY <1>7, P1ValidStep
<1>8. CASE P2Valid
  BY <1>8, P2ValidStep
<1>9. CASE \E ends \in {{1}, {2}, {1, 2}} : P12Done(ends)
  BY <1>9, P12DoneStep
<1>10. CASE (\E x \in Comp : AccWDone(x)) \/ AccAllDone
  BY <1>10, AccSteps
<1>11. CASE AccRead0
  BY <1>11, AccRead0Step
<1>12. CASE AccRead0Done \/ AccRead1 \/ AccRead1Done
  BY <1>12, AccReadSteps
<1>13. CASE P3Done
  BY <1>13, P3DoneStep
<1>14. CASE OutEnd
  BY <1>14, OutEndStep
<1>15. CASE UNCHANGED vars
  BY <1>15, Frame DEF vars, Control, mainVars, rdVars, accVars, fnVars, nttVars
<1> QED
  BY <1>1, <1>2, <1>3, <1>4, <1>5, <1>6, <1>7, <1>8, <1>9, <1>10, <1>11, <1>12, <1>13, <1>14, <1>15 DEF Next, Step

\* Where every unit stands, in the run after a reset.
THEOREM ControlCorrect == Spec => []ControlInv
<1>1. Init => ControlInv
  BY ControlInit DEF ControlInv
<1> QED
  BY <1>1, ControlStep, RequestsInit, RequestsStep, InitType, StepType, PTL DEF Spec

\* The control units of the ports, which count the rounds by themselves, work on the round of the main
\* state machine, and a round begins with all of them there.
THEOREM PortsCorrect == Spec => [](FirstRun => PortsAligned)
<1>1. TypeOK /\ RequestsInv /\ ControlInv => (FirstRun => PortsAligned)
  <2> SUFFICES ASSUME TypeOK, RequestsInv, Control PROVE PortsAligned
    BY DEF ControlInv
  <2> USE DEF Control, Rest, Forward, Backward
  <2>0. L \in Nat /\ ctr \in 0 .. L /\ state \in MainState /\ out_ctr \in Nat /\ p12_state \in P12State
    BY LAssumption DEF TypeOK, MainType, OutType, P12Type, Round, Poly
  <2>1. p0_state # "ST_IDLE" => state = "ST_WAIT_ACC_O_VALID" /\ p0_ctr_L = ctr
    BY DEF P0Inv
  <2>2. p12_state # "ST_LOAD_RLK" /\ ~CtLoaded =>
          p12_ctr_L = ctr /\ state \in {"ST_WAIT_ACC_O_VALID", "ST_LOAD_Q_G2", "ST_WAIT_FN_DONE", "ST_WAIT_W_DONE"}
    BY <2>0 DEF P12Inv, P12Rest, P12Forward, P12Backward, Lags, Leads, MainState
  <2>3. out_state # "ST_POLY_0_WRITE_START" => ctr = out_ctr + 1 /\ state = "ST_WAIT_W_DONE"
    BY <2>0 DEF OutInv, WriteState, BackwardInv, MainInv, Fin, CtAsked, Now
  <2>4. state \in {"ST_LOAD_Q_G1", "ST_OP"} =>
          /\ p0_ctr_L = ctr
          /\ p12_ctr_L = ctr \/ CtLoaded
          /\ out_ctr = IF ctr = 0 THEN 0 ELSE ctr - 1
    BY DEF P0Inv, P12Inv, P12Rest, Lags, OutInv, Now
  <2> QED
    BY <2>1, <2>2, <2>3, <2>4 DEF PortsAligned
<1> QED
  BY <1>1, ControlCorrect, RequestsInit, RequestsStep, InitType, StepType, PTL DEF Spec

\* The control implies that a round begins with nothing left of the one before.
LEMMA CleanBetween ==
  ASSUME TypeOK, RequestsInv, Control
  PROVE  RoundStartsClean
<1> SUFFICES ASSUME state \in {"ST_LOAD_Q_G1", "ST_OP"}
             PROVE  /\ p0_state = "ST_IDLE" /\ (p12_state = "ST_LOAD_RLK" \/ CtLoaded) /\ p12_ctr = 0 /\ ~en_rlk_q
                    /\ pipe = <<>> /\ ctr_i = ctr_o
                    /\ \A n \in Port : rd_state[n] = "idle" \/ (n = 1 /\ CtLoaded)
                    /\ state_i = "ST_NTT" /\ ~start_read_q /\ ~ren_1
                    /\ \A x \in Comp : acc_ctr[x] = 0 /\ ~adding[x]
                    /\ fn_ctr = 0 /\ out_state = "ST_POLY_0_WRITE_START" /\ ~wr.busy
  BY DEF RoundStartsClean
<1> USE DEF Control, Rest, Forward, Backward
<1>1. p0_state = "ST_IDLE" /\ (p12_state = "ST_LOAD_RLK" \/ CtLoaded) /\ p12_ctr = 0 /\ ~en_rlk_q
  BY DEF P0Inv, P12Inv, P12Rest, Lags
<1>2. pipe = <<>> /\ state_i = "ST_NTT" /\ ~start_read_q /\ ~ren_1 /\ \A x \in Comp : acc_ctr[x] = 0 /\ ~adding[x]
  BY DEF NttInv, AccInv, P0Inv
<1>3. ctr_i = ctr_o
  BY DEF FifoInv, Holds, TypeOK, FifoType
<1>4. \A n \in Port : rd_state[n] = "idle" \/ (n = 1 /\ CtLoaded)
  BY <1>1 DEF RequestsInv, Waits0, Waits1, Waits2, CtLoaded, Port
<1>5. fn_ctr = 0 /\ out_state = "ST_POLY_0_WRITE_START" /\ ~wr.busy
  BY DEF OutInv
<1> QED
  BY <1>1, <1>2, <1>3, <1>4, <1>5

\* Nothing of a round is left in any unit when the next one is announced: the core may leave it to the
\* units to be ready, as it does.
THEOREM RoundsSeparate == Spec => [](FirstRun => RoundStartsClean)
<1>1. TypeOK /\ RequestsInv /\ ControlInv => (FirstRun => RoundStartsClean)
  BY CleanBetween DEF ControlInv
<1> QED
  BY <1>1, ControlCorrect, RequestsInit, RequestsStep, InitType, StepType, PTL DEF Spec

\* No pulse is lost: cu_p0_start, intt_ready, acc_o_valid and the done of relin_cu_out find their
\* receiver in the state that hears them.
THEOREM PulsesCorrect == Spec => [](FirstRun => PulsesHeard)
<1>1. TypeOK /\ ControlInv => (FirstRun => PulsesHeard)
  <2> SUFFICES ASSUME TypeOK, Control PROVE PulsesHeard
    BY DEF ControlInv
  <2> USE DEF Control, Rest, Forward, Backward
  <2>1. state = "ST_OP" => p0_state = "ST_IDLE"
    BY DEF P0Inv
  <2>2. p0_state = "ST_INTT_READY" => ~start_read_q /\ state_i \in {"ST_NTT", "ST_INTT_1"}
    BY DEF P0Inv, AccInv
  <2>3. AccReading => state = "ST_WAIT_ACC_O_VALID"
    BY DEF AccReading, P0Inv
  <2>4. ren_1 => state # "ST_WAIT_ACC_O_VALID"
    BY DEF AccInv
  <2>5. out_state = "ST_END" => state = "ST_WAIT_W_DONE"
    BY DEF OutInv, WriteState, BackwardInv, MainInv, Fin, CtAsked, TypeOK, MainType, MainState
  <2> QED
    BY <2>1, <2>2, <2>3, <2>4, <2>5 DEF PulsesHeard
<1> QED
  BY <1>1, ControlCorrect, InitType, StepType, PTL DEF Spec

\* The words of an accumulator being read are not overwritten: no product is left to come when the
\* reading starts, and the keys of the next round are not asked for before it ends.
THEOREM ReadsUndisturbed ==
  ASSUME MaxStarts = 1
  PROVE  Spec => ReadUndisturbed
<1>1. TypeOK /\ RequestsInv /\ ControlInv /\ [Next]_vars =>
        [state_i = "ST_INTT_2" \/ (state_i = "ST_INTT_3" /\ ~ren_1) => sum' = sum]_vars
  <2> SUFFICES ASSUME TypeOK, RequestsInv, ControlInv, Next, state_i # "ST_NTT" PROVE sum' = sum
    OBVIOUS
  <2>1. Control
    BY DEF TypeOK, MainType, ControlInv, FirstRun
  <2>2. CASE P1Valid
    <3>1. p1_sel
      <4>1. ~p1_sel => p12_state \in KeyWait /\ rd_state[0 + 1] = "busy" /\ 0 \in Comp
        BY <2>1, <2>2, KeyOnP1 DEF P1Valid, Comp
      <4> QED
        BY <2>1, <4>1, KeyPhase
    <3> QED
      BY <2>2, <3>1 DEF P1Valid, accVars
  <2>3. ~P2Valid
    <3>1. P2Valid => p12_state \in KeyWait /\ rd_state[1 + 1] = "busy" /\ 1 \in Comp
      BY DEF P2Valid, RequestsInv, Waits2, KeyWait, Comp
    <3> QED
      BY <2>1, <3>1, KeyPhase
  <2> QED
    BY <2>2, <2>3
       DEF Next, Step, accVars, Start, LoadQG1, Op, LoadQG2, Done, P0WaitOver, P0Load, P0Valid, P0Done,
           P0InttReady, NttOValid, InttOValidToFn, InttOValidToFifo, P12LoadRlk, P12LoadPoly, P12Done,
           AccWDone, AccAllDone, AccRead0, AccRead0Done, AccRead1, AccRead1Done, P3Done, OutEnd
<1> QED
  BY <1>1, ControlCorrect, RequestsInit, RequestsStep, InitType, StepType, PTL DEF Spec, ReadUndisturbed

\* q_g1 is loaded between two rounds, when no unit has a word of the last one left to compute with.
THEOREM ModuliHeld ==
  ASSUME MaxStarts = 1
  PROVE  Spec => ModulusHeld
<1>1. TypeOK /\ RequestsInv /\ ControlInv /\ [Next]_vars =>
        [q_g1' # q_g1 => /\ pipe = <<>>
                         /\ \A n \in Port : rd_state[n] = "idle" \/ (n = 1 /\ CtLoaded)
                         /\ \A x \in Comp : ~adding[x]]_vars
  <2> SUFFICES ASSUME TypeOK, RequestsInv, ControlInv, Next, q_g1' # q_g1
               PROVE  /\ pipe = <<>>
                      /\ \A n \in Port : rd_state[n] = "idle" \/ (n = 1 /\ CtLoaded)
                      /\ \A x \in Comp : ~adding[x]
    OBVIOUS
  <2>1. state = "ST_LOAD_Q_G1"
    BY DEF Next, Step, qVars, Start, LoadQG1, Op, LoadQG2, Done, P0WaitOver, P0Load, P0Valid, P0Done,
           P0InttReady, NttOValid, InttOValidToFn, InttOValidToFifo, P12LoadRlk, P12LoadPoly, P1Valid, P2Valid,
           P12Done, AccWDone, AccAllDone, AccRead0, AccRead0Done, AccRead1, AccRead1Done, P3Done, OutEnd
  <2>2. RoundStartsClean
    BY CleanBetween DEF TypeOK, MainType, ControlInv, FirstRun
  <2> QED
    BY <2>1, <2>2 DEF RoundStartsClean
<1> QED
  BY <1>1, ControlCorrect, RequestsInit, RequestsStep, InitType, StepType, PTL DEF Spec, ModulusHeld

-----------------------------------------------------------------------------
(***************************************************************************)
(* What a step that leaves a group of registers alone cannot disturb.      *)
(***************************************************************************)
LEMMA CountsFrame ==
  /\ UNCHANGED <<ctr, p12_state, p12_ctr, p12_ctr_L, en_rlk_q, rd_state[1], rd_state[2]>> =>
       UNCHANGED <<Asked, Out, Mult(0), Mult(1)>>
  /\ UNCHANGED <<state_i, ren_1, pipe>> => UNCHANGED <<Entered, Left>>
  /\ UNCHANGED <<ctr, en_add, p12_state, rd_state[1], state_i, ren_1, pipe>> => UNCHANGED Fin
BY DEF Asked, Out, Mult, Entered, Left, Fin, CtAsked, Adds

\* A step within a phase.
LEMMA DataFrame ==
  ASSUME Data, UNCHANGED <<state, ctr>>
  PROVE  /\ UNCHANGED q_g1 => ModuliInv1'
         /\ UNCHANGED q_g2 => ModuliInv2'
         /\ UNCHANGED <<p0_state, p0_ctr_poly, p12_state, p12_ctr, rd_data>> => PortData'
         /\ UNCHANGED <<p0_state, rd_state[0], psi>> => TableData'
         /\ UNCHANGED pipe /\ (Forward => UNCHANGED Out) /\ (~Forward => UNCHANGED Left) => PipeData'
         /\ UNCHANGED <<en_add, fifo, ctr_o>> /\ (Forward => UNCHANGED <<Out, Mult(0), Mult(1)>>)
              /\ (Backward => UNCHANGED <<Left, Fin>>) => FifoData'
         /\ UNCHANGED sum /\ (Forward => UNCHANGED <<Mult(0), Mult(1)>>) /\ (Backward => UNCHANGED Entered) => SumData'
         /\ UNCHANGED kept /\ (Backward => UNCHANGED Fin) => KeptData'
         /\ UNCHANGED wr => WriteData'
         /\ UNCHANGED <<sum, kept, fifo, mem>> => Clean'
<1> USE DEF Data, Forward, Backward, Q
<1>1. UNCHANGED q_g1 => ModuliInv1'
  BY DEF ModuliInv1
<1>2. UNCHANGED q_g2 => ModuliInv2'
  BY DEF ModuliInv2
<1>3. UNCHANGED <<p0_state, p0_ctr_poly, p12_state, p12_ctr, rd_data>> => PortData'
  BY DEF PortData
<1>4. UNCHANGED <<p0_state, rd_state[0], psi>> => TableData'
  BY DEF TableData
<1>5. UNCHANGED pipe /\ (Forward => UNCHANGED Out) /\ (~Forward => UNCHANGED Left) => PipeData'
  BY DEF PipeData
<1>6. UNCHANGED <<en_add, fifo, ctr_o>> /\ (Forward => UNCHANGED <<Out, Mult(0), Mult(1)>>)
        /\ (Backward => UNCHANGED <<Left, Fin>>) => FifoData'
  BY DEF FifoData, Queue, Adds, Comp
<1>7. UNCHANGED sum /\ (Forward => UNCHANGED <<Mult(0), Mult(1)>>) /\ (Backward => UNCHANGED Entered) => SumData'
  BY DEF SumData, Comp
<1>8. UNCHANGED kept /\ (Backward => UNCHANGED Fin) => KeptData'
  BY DEF KeptData
<1>9. UNCHANGED wr => WriteData'
  BY DEF WriteData
<1>10. UNCHANGED <<sum, kept, fifo, mem>> => Clean'
  BY DEF Clean
<1> QED
  BY <1>1, <1>2, <1>3, <1>4, <1>5, <1>6, <1>7, <1>8, <1>9, <1>10

\* Between two rounds only what is kept of the special prime's round matters.
LEMMA RestData ==
  ASSUME Control', Rest', ModuliAligned', KeptData', Clean'
  PROVE  Data'
<1> USE DEF Control, Rest, Forward, Backward
<1>1. ModuliInv1' /\ ModuliInv2' /\ FifoData' /\ SumData' /\ WriteData'
  BY DEF ModuliInv1, ModuliInv2, ModuliAligned, Q, FifoData, SumData, WriteData, OutInv
<1>2. PortData' /\ TableData' /\ PipeData'
  BY DEF PortData, TableData, PipeData, P0Inv, P12Inv, P12Rest, Lags, CtLoaded, NttInv, KeyWait
<1> QED
  BY <1>1, <1>2 DEF Data

-----------------------------------------------------------------------------
(***************************************************************************)
(* Steps, unit by unit.                                                    *)
(***************************************************************************)
LEMMA DataInit == Init => Data
<1> SUFFICES ASSUME Init PROVE Data
  OBVIOUS
<1>1. /\ state = "ST_IDLE" /\ pipe = <<>> /\ ~wr.busy /\ p0_state = "ST_IDLE" /\ p12_state = "ST_LOAD_RLK"
  BY DEF Init, Idle
<1>2. Clean
  BY DEF Init, Clean, Junk, None, Comp
<1> QED
  BY <1>1, <1>2
     DEF Data, Forward, Backward, ModuliInv1, ModuliInv2, PortData, TableData, PipeData, FifoData, SumData,
         KeptData, WriteData, KeyWait

\* The main state machine and relin_q_loader.
LEMMA MainData ==
  ASSUME ModuliAligned', Control, Control', Data, Start \/ LoadQG1 \/ Op \/ LoadQG2 \/ Done
  PROVE  Data'
<1> USE DEF Rest, Forward, Backward
<1>1. UNCHANGED <<sum, kept, fifo, mem, pipe, en_add, ctr_o, wr>>
  BY DEF Start, LoadQG1, Op, LoadQG2, Done, nttVars, accVars, fnVars, fifoVars, outVars
<1>2. Clean'
  BY <1>1 DEF Data, Clean
<1>3. CASE Start \/ LoadQG1 \/ Done
  <2>1. KeptData'
    BY <1>1, <1>3 DEF Start, LoadQG1, Done, Control, MainInv, Data, KeptData
  <2> QED
    BY <1>2, <1>3, <2>1, RestData DEF Start, LoadQG1, Done
<1>4. CASE Op
  <2>1. UNCHANGED <<ctr, rd_state, q_g1, p12_state, p12_ctr, p12_ctr_L, en_rlk_q, rd_data>>
    BY <1>4 DEF Op, qVars, rdVars, p12Vars
  <2>2. Out' = 0 /\ (\A x \in Comp : Mult(x)' = 0) /\ pipe' = <<>>
    BY <1>1, <1>4, <2>1 DEF Op, Control, P12Inv, P12Rest, Lags, CtLoaded, Now, NttInv, Out, Asked, Mult, KeyWait
  <2>3. ModuliInv1' /\ ModuliInv2' /\ PortData' /\ TableData'
    BY <1>4, <2>1 DEF Op, Data, Control, P0Inv, P12Inv, P12Rest, Lags, CtLoaded, ModuliInv1, ModuliInv2, Q, PortData, TableData, KeyWait
  <2>4. PipeData' /\ FifoData' /\ SumData' /\ KeptData' /\ WriteData'
    BY <1>1, <1>4, <2>1, <2>2 DEF Op, Data, PipeData, FifoData, Queue, SumData, KeptData, WriteData
  <2> QED
    BY <1>2, <2>3, <2>4 DEF Data
<1>5. CASE LoadQG2
  <2>1. UNCHANGED <<ctr, q_g1, rdVars, p12Vars, p0Vars, psi, state_i, ren_1>> /\ Backward /\ Backward'
    BY <1>5 DEF LoadQG2, AfterG2, nttVars, accVars
  <2>2. UNCHANGED <<Left, Fin, Entered>>
    BY <1>1, <2>1, CountsFrame DEF rdVars, p12Vars
  <2>3. ModuliInv1' /\ ModuliInv2' /\ PortData' /\ TableData'
    BY <2>1 DEF Data, ModuliInv1, ModuliInv2, ModuliAligned, Q, PortData, TableData, rdVars, p12Vars, p0Vars
  <2>4. PipeData' /\ FifoData' /\ SumData' /\ KeptData' /\ WriteData'
    BY <1>1, <2>1, <2>2 DEF Data, PipeData, FifoData, Queue, Adds, Q, SumData, KeptData, WriteData
  <2> QED
    BY <1>2, <2>3, <2>4 DEF Data
<1> QED
  BY <1>3, <1>4, <1>5

\* relin_cu_p0_ntt: tables and polynomials are those of the round, and a table finds the NTT unit empty.
LEMMA P0Data ==
  ASSUME TypeOK, TypeOK', RequestsInv, Control, Control', Data,
         P0WaitOver \/ P0Load \/ P0Valid \/ P0Done \/ P0InttReady
  PROVE  Data'
<1> USE DEF Forward, Backward
<1>0. /\ Port = {0, 1, 2} /\ L \in Nat /\ L > 0 /\ p0_ctr_poly \in 0 .. L - 1
      /\ rd_state \in [Port -> {"idle", "busy", "stream"}] /\ rd_data \in [Port -> Value]
  BY LAssumption DEF Port, TypeOK, P0Type, RdType, Poly
<1>1. /\ UNCHANGED <<state, ctr, q_g1, q_g2, en_add, fifo, ctr_o, sum, kept, wr, mem, state_i, ren_1>>
      /\ UNCHANGED <<p12_state, p12_ctr, p12_ctr_L, en_rlk_q, rd_state[1], rd_state[2], rd_data[1], rd_data[2]>>
  <2>1. UNCHANGED <<state, ctr, q_g1, q_g2, en_add, fifo, ctr_o, sum, kept, wr, mem, state_i, ren_1>>
    BY DEF P0WaitOver, P0Load, P0Valid, P0Done, P0InttReady, mainVars, qVars, fifoVars, accVars, fnVars, outVars
  <2>2. UNCHANGED <<p12_state, p12_ctr, p12_ctr_L, en_rlk_q>>
    BY DEF P0WaitOver, P0Load, P0Valid, P0Done, P0InttReady, p12Vars
  <2>3. UNCHANGED <<rd_state[1], rd_state[2], rd_data[1], rd_data[2]>>
    BY <1>0 DEF P0WaitOver, P0Load, P0Valid, P0Done, P0InttReady, Request, rdVars
  <2> QED
    BY <2>1, <2>2, <2>3
<1>2. UNCHANGED <<Out, Mult(0), Mult(1), Entered>>
  BY <1>1, CountsFrame DEF Entered
<1>3. p0_state # "ST_IDLE" => Forward /\ p0_ctr_L = ctr
  BY DEF Control, P0Inv, Rest
<1>4. Forward
  BY <1>0, <1>3 DEF P0WaitOver, P0Load, P0Valid, P0Done, P0InttReady, RequestsInv, Waits0
<1>5. /\ ModuliInv1' /\ ModuliInv2' /\ FifoData' /\ SumData' /\ KeptData' /\ WriteData' /\ Clean'
  BY <1>1, <1>2, <1>4, DataFrame
<1>6. PortData'
  <2>1. p0_state' # p0_state => p0_state' \notin Waits0 \/ P0Load
    BY DEF P0WaitOver, P0Load, P0Valid, P0Done, P0InttReady, Waits0, p0Vars
  <2>2. CASE P0Load
    <3>1. rd_state[0] = "idle" /\ p0_ctr_L = ctr /\ UNCHANGED p0_ctr_poly
      BY <1>3, <2>2 DEF P0Load, RequestsInv, Waits0
    <3>2. /\ p0_state' = "ST_LOAD_PSI_WAIT_DONE"  => rd_data'[0] = <<"psi", Q', 0>>
          /\ p0_state' = "ST_LOAD_POLY_WAIT_DONE" => rd_data'[0] = <<"ct2", p0_ctr_poly', 0>>
          /\ p0_state' = "ST_LOAD_IPSI_WAIT_DONE" => rd_data'[0] = <<"psi", Q', 1>>
      BY <1>0, <1>1, <2>2, <3>1 DEF P0Load, Request, Q
    <3> QED
      BY <1>1, <1>4, <3>2 DEF Data, PortData, Q, Comp
  <2>3. CASE ~P0Load
    <3>1. UNCHANGED rd_data
      BY <2>3 DEF P0WaitOver, P0Valid, P0Done, P0InttReady, rdVars
    <3>2. p0_state' \in Waits0 => UNCHANGED <<p0_state, p0_ctr_poly>>
      BY <2>1, <2>3 DEF P0WaitOver, P0Valid, P0Done, P0InttReady, Waits0, p0Vars
    <3> QED
      BY <1>1, <1>4, <3>1, <3>2 DEF Data, PortData, Q, Comp, Waits0
  <2> QED
    BY <2>2, <2>3
<1>7. CASE P0Valid
  <2>1. /\ p0_state \in Waits0 /\ rd_state[0] = "busy" /\ rd_state'[0] = "stream" /\ UNCHANGED <<p0_state, p0_ctr_poly>>
    BY <1>0, <1>7 DEF P0Valid, RequestsInv, p0Vars
  <2>2. CASE p0_state # "ST_LOAD_POLY_WAIT_DONE"
    <3>1. psi' = rd_data[0]
      BY <2>1, <2>2, <1>7 DEF P0Valid, Waits0
    <3>2. TableData'
      BY <1>1, <1>4, <2>1, <2>2, <3>1 DEF Data, PortData, TableData, Waits0, Q
    <3>3. Len(pipe) = 0
      <4>1. p0_state = "ST_LOAD_PSI_WAIT_DONE" => In = 0
        BY DEF In
      <4> QED
        BY <1>4, <2>1, <2>2, <4>1, Counts DEF Control, NttInv, Waits0
    <3>4. Len(pipe') = 0
      BY <1>7, <2>1, <2>2, <3>3 DEF P0Valid, Waits0
    <3>5. PipeData'
      BY <3>4 DEF PipeData
    <3> QED
      BY <1>5, <1>6, <3>2, <3>5 DEF Data
  <2>3. CASE p0_state = "ST_LOAD_POLY_WAIT_DONE"
    <3>1. psi = <<"psi", Q, 0>> /\ rd_data[0] = <<"ct2", p0_ctr_poly, 0>> /\ q_g1 = Q
      BY <1>4, <2>3 DEF Data, TableData, PortData, ModuliInv1
    <3>2. pipe' = Append(pipe, <<"ntt", Q, p0_ctr_poly>>) /\ UNCHANGED psi
      BY <1>7, <2>3, <3>1, TransformRight DEF P0Valid
    <3>3. TableData'
      BY <1>1, <1>4, <2>1, <2>3, <3>1, <3>2 DEF TableData, Q
    <3>4. Out + Len(pipe) = p0_ctr_poly
      <4>1. In = p0_ctr_poly
        BY <2>1, <2>3 DEF In
      <4> QED
        BY <1>0, <1>4, <4>1, Counts DEF Control, NttInv
    <3>5. PipeData'
      <4>1. pipe \in Seq(Value) /\ pipe' \in Seq(Value) /\ <<"ntt", Q, p0_ctr_poly>> \in Value
        <5>1. pipe \in Seq(Value) /\ pipe' \in Seq(Value) /\ psi \in Value /\ q_g1 \in Prime /\ rd_data[0] \in Value
          BY <1>0 DEF TypeOK, NttType, QType
        <5>2. Transform(rd_data[0], psi, q_g1) \in Value
          BY <5>1, TransformType
        <5> QED
          BY <3>1, <5>1, <5>2, TransformRight
      <4>2. /\ Len(pipe') = Len(pipe) + 1 /\ Len(pipe) \in Nat
            /\ \A k \in 1 .. Len(pipe) : pipe'[k] = pipe[k]
            /\ pipe'[Len(pipe) + 1] = <<"ntt", Q, p0_ctr_poly>>
        BY <3>2, <4>1, AppendProperties, LenProperties
      <4>3. \A k \in 1 .. Len(pipe) + 1 : pipe'[k] = <<"ntt", Q, Out + k - 1>>
        <5> TAKE k \in 1 .. Len(pipe) + 1
        <5>1. CASE k = Len(pipe) + 1
          BY <3>4, <4>2, <5>1, Counts, <1>0
        <5>2. CASE k # Len(pipe) + 1
          BY <1>4, <4>2, <5>2 DEF Data, PipeData
        <5> QED
          BY <5>1, <5>2
      <4> QED
        BY <1>1, <1>2, <1>4, <4>2, <4>3 DEF PipeData, Q
    <3> QED
      BY <1>5, <1>6, <3>3, <3>5 DEF Data
  <2> QED
    BY <2>2, <2>3
<1>8. CASE ~P0Valid
  <2>1. UNCHANGED <<psi, pipe>>
    BY <1>8 DEF P0WaitOver, P0Load, P0Done, P0InttReady, nttVars
  <2>2. PipeData'
    BY <1>1, <1>2, <1>4, <2>1 DEF Data, PipeData, Q
  <2>3. TableData'
    <3>1. CASE P0WaitOver \/ P0InttReady
      BY <1>1, <1>4, <2>1, <3>1 DEF P0WaitOver, P0InttReady, Data, TableData, Q, rdVars
    <3>2. CASE P0Load
      BY <1>0, <1>1, <1>4, <2>1, <3>2 DEF P0Load, Request, RequestsInv, Waits0, Data, TableData, Q
    <3>3. CASE P0Done
      BY <1>0, <1>1, <1>4, <2>1, <3>3 DEF P0Done, RequestsInv, Waits0, Data, TableData, Q
    <3> QED
      BY <1>8, <3>1, <3>2, <3>3
  <2> QED
    BY <1>5, <1>6, <2>2, <2>3 DEF Data
<1> QED
  BY <1>7, <1>8

\* A push into a FIFO of two slots or more goes behind what the FIFO holds.
LEMMA PushBehind ==
  ASSUME FIFO_M >= 2, FifoType, NEW xs, NEW x \in xs, x \in Comp, NEW v, Push(xs, v),
         NEW n \in {0, 1}, Holds(x, n)
  PROVE  /\ n = 0 => fifo'[x][ctr_o[x]] = v
         /\ n = 1 => fifo'[x][ctr_o[x]] = fifo[x][ctr_o[x]] /\ fifo'[x][NextSlot(ctr_o[x])] = v
<1>1. ctr_i[x] \in Slot /\ ctr_o[x] \in Slot /\ fifo[x] \in [Slot -> Value] /\ fifo'[x] = [fifo[x] EXCEPT ![ctr_i[x]] = v]
  BY DEF FifoType, Push
<1>2. NextSlot(ctr_o[x]) \in Slot /\ NextSlot(ctr_o[x]) # ctr_o[x]
  BY <1>1, FifoAssumption DEF NextSlot, Slot
<1>3. ctr_i[x] = IF n = 0 THEN ctr_o[x] ELSE NextSlot(ctr_o[x])
  BY DEF Holds
<1> QED
  BY <1>1, <1>2, <1>3

\* A push changes one slot, and to what is pushed.
LEMMA PushOnly ==
  ASSUME FifoType, NEW xs, NEW v, Push(xs, v)
  PROVE  \A x \in Comp, s \in Slot : fifo'[x][s] = v \/ fifo'[x][s] = fifo[x][s]
BY DEF Push, FifoType

\* What the NTT unit puts out first.
LEMMA PipeHead ==
  ASSUME TypeOK, Data, pipe # <<>>
  PROVE  /\ Head(pipe) = IF Forward THEN <<"ntt", Q, Out>> ELSE <<"ksw", Q, Left>>
         /\ \A k \in 1 .. Len(Tail(pipe)) :
              Tail(pipe)[k] = IF Forward THEN <<"ntt", Q, Out + k>> ELSE <<"ksw", Q, Left + k>>
<1>1. /\ Len(pipe) \in Nat /\ Len(pipe) > 0 /\ Len(Tail(pipe)) = Len(pipe) - 1
      /\ \A k \in 1 .. Len(Tail(pipe)) : Tail(pipe)[k] = pipe[k + 1]
  BY HeadTailProperties, EmptySeq, LenProperties DEF TypeOK, NttType
<1>2. Head(pipe) = pipe[1]
  BY DEF TypeOK, NttType
<1>3. Out \in Int /\ Left \in Int
  BY <1>1, Counts, LAssumption DEF Left, Entered
<1> QED
  BY <1>1, <1>2, <1>3 DEF Data, PipeData

\* relin_ntt_mux.
LEMMA NttOValidData ==
  ASSUME FIFO_M >= 2, TypeOK, TypeOK', RequestsInv, Control, Control', Data, NttOValid
  PROVE  Data'
<1>0. /\ Comp = {0, 1} /\ state \in MainState
  BY DEF Comp, TypeOK, MainType
<1>1. Forward
  BY <1>0 DEF NttOValid, Control, NttInv, Rest, Forward, Backward, MainState
<1>2. /\ UNCHANGED <<state, ctr, q_g1, q_g2, en_add, ctr_o, sum, kept, wr, mem, state_i, ren_1, psi>>
      /\ UNCHANGED <<p0_state, p0_ctr_poly, p12_state, p12_ctr, p12_ctr_L, rd_state, rd_data>>
  BY DEF NttOValid, mainVars, qVars, p0Vars, rdVars, accVars, fnVars, outVars
<1>3. /\ UNCHANGED <<Mult(0), Mult(1), Entered>> /\ Out' = Out + 1 /\ Out \in Int
      /\ \A x \in Comp : Mult(x) \in Int /\ Out - Mult(x) \in {0, 1}
  <2>1. UNCHANGED <<Mult(0), Mult(1), Asked, Entered>> /\ Out' = Out + 1 /\ Out = Asked
    BY <1>2 DEF NttOValid, KeysKeepUp, Mult, Asked, Out, Entered
  <2> QED
    BY <2>1, Counts
<1>4. Head(pipe) = <<"ntt", Q, Out>> /\ Push(Comp, Head(pipe)) /\ pipe' = Tail(pipe) /\ UNCHANGED Q
  BY <1>1, <1>2, PipeHead DEF NttOValid, Q
<1>5. ModuliInv1' /\ ModuliInv2' /\ PortData' /\ TableData' /\ SumData' /\ KeptData' /\ WriteData'
  BY <1>1, <1>2, <1>3, DataFrame DEF Forward, Backward
<1>6. PipeData'
  <2>1. \A k \in 1 .. Len(Tail(pipe)) : Tail(pipe)[k] = <<"ntt", Q, Out + k>>
    BY <1>1, PipeHead DEF NttOValid
  <2>2. \A k \in 1 .. Len(Tail(pipe)) : Out + k = Out' + k - 1
    BY <1>3
  <2> QED
    BY <1>1, <1>2, <1>4, <2>1, <2>2 DEF PipeData, Forward
<1>7. FifoData'
  <2>1. ASSUME NEW x \in Comp
        PROVE  Queue(x, Out - Mult(x), <<"ntt", Q, Mult(x)>>, <<"ntt", Q, Mult(x) + 1>>)'
    <3>1. Holds(x, Out - Mult(x)) /\ Queue(x, Out - Mult(x), <<"ntt", Q, Mult(x)>>, <<"ntt", Q, Mult(x) + 1>>)
      BY <1>1 DEF Control, FifoInv, Data, FifoData
    <3>2. Out' - Mult(x)' = (Out - Mult(x)) + 1 /\ Out - Mult(x) \in {0, 1} /\ Mult(x)' = Mult(x)
      BY <1>0, <1>3
    <3>3. /\ Out - Mult(x) = 0 => fifo'[x][ctr_o[x]] = <<"ntt", Q, Out>>
          /\ Out - Mult(x) = 1 => fifo'[x][ctr_o[x]] = fifo[x][ctr_o[x]] /\ fifo'[x][NextSlot(ctr_o[x])] = <<"ntt", Q, Out>>
      BY <1>4, <3>1, <3>2, PushBehind DEF TypeOK
    <3>4. CASE Out - Mult(x) = 0
      <4>1. Out = Mult(x) /\ Out' - Mult(x)' = 1
        BY <1>3, <3>2, <3>4
      <4> QED
        BY <1>2, <1>4, <3>2, <3>3, <3>4, <4>1 DEF Queue
    <3>5. CASE Out - Mult(x) = 1
      <4>1. Out = Mult(x) + 1 /\ Out' - Mult(x)' = 2
        BY <1>3, <3>2, <3>5
      <4> QED
        BY <1>2, <1>4, <3>1, <3>2, <3>3, <3>5, <4>1 DEF Queue
    <3> QED
      BY <3>2, <3>4, <3>5
  <2> QED
    BY <1>1, <1>2, <2>1 DEF FifoData, Forward, Backward
<1>8. Clean'
  <2>1. \A x \in Comp, s \in Slot : fifo'[x][s] # Junk
    <3>1. Head(pipe) # Junk
      BY <1>4, NamedRight
    <3>2. \A x \in Comp, s \in Slot : fifo'[x][s] = Head(pipe) \/ fifo'[x][s] = fifo[x][s]
      BY <1>4, PushOnly DEF TypeOK
    <3> QED
      BY <3>1, <3>2 DEF Data, Clean
  <2> QED
    BY <1>2, <2>1 DEF Data, Clean
<1> QED
  BY <1>5, <1>6, <1>7, <1>8 DEF Data

\* The final operation with operands that belong together: sum x is kept, or component x of the result
\* goes to the write port.
LEMMA FnIValidData ==
  ASSUME TypeOK, Control, Data, state \in {"ST_WAIT_FN_DONE", "ST_WAIT_W_DONE"},
         NEW x \in {0, 1}, fn_ctr = x, Fin = x,
         NEW b, Adds => b = <<"ct", Q, x>>, FnIValid(<<"ksw", Q, x>>, b)
  PROVE  /\ ctr = 0 => kept' = [kept EXCEPT ![x] = <<"ksw", L, x>>] /\ UNCHANGED <<wr, mem>>
         /\ ctr # 0 => /\ UNCHANGED <<kept, mem>>
                       /\ wr'.data = Result(wr'.x, wr'.i)
<1> USE DEF Control, Rest, Forward, Backward
<1>0. Comp = {0, 1} /\ L \in Nat /\ ctr \in Nat /\ en_add \in BOOLEAN
  BY LAssumption, BuildsAssumption DEF Comp, TypeOK, MainType, FnType, Round
<1>1. offset_q' = x /\ q_g2 = Q /\ (last_q <=> ctr = 0)
  BY DEF FnIValid, OutInv, Data, ModuliInv2, MainInv
<1>2. CASE ctr = 0
  <2>1. Q = L
    BY <1>2 DEF Q, PrimeOf
  <2>2. kept' = [kept EXCEPT ![offset_q'] = AddHalf(<<"ksw", Q, x>>, q_g2)] /\ UNCHANGED outVars
    BY <1>1, <1>2 DEF FnIValid
  <2> QED
    BY <1>1, <1>2, <2>1, <2>2, AddHalfRight DEF outVars
<1>3. CASE ctr # 0
  <2>1. kept[x] = <<"ksw", L, x>>
    BY <1>0, <1>3 DEF Data, KeptData
  <2>2. OValid(Combine(<<"ksw", Q, x>>, b, kept[offset_q'], q_g2, en_add)) /\ UNCHANGED kept
    BY <1>1, <1>3 DEF FnIValid
  <2>3. Combine(<<"ksw", Q, x>>, b, kept[offset_q'], q_g2, en_add) = Result(x, Q)
    BY <1>0, <1>1, <1>3, <2>1, CombineRight DEF Adds
  <2>4. wr'.data = Result(x, Q) /\ wr'.i = out_ctr /\ UNCHANGED mem
        /\ wr'.x = IF out_state = "ST_POLY_0_WRITE_START" THEN 0 ELSE 1
    BY <2>2, <2>3 DEF OValid
  <2>5. out_ctr = Q
    BY <1>0, <1>3 DEF OutInv, Now, Q, PrimeOf
  <2>6. out_state = "ST_POLY_0_WRITE_START" <=> x = 0
    BY <1>3 DEF OutInv, WriteState
  <2> QED
    BY <1>3, <2>2, <2>4, <2>5, <2>6
<1> QED
  BY <1>2, <1>3

\* The polynomial that goes to the final operation is the one its counts name.
LEMMA InttOValidToFnData ==
  ASSUME TypeOK, TypeOK', RequestsInv, FirstRun', ModuliAligned', Control, Control', Data, InttOValidToFn
  PROVE  Data'
<1>0. Comp = {0, 1} /\ L \in Nat /\ L > 0 /\ ctr \in Nat
  BY LAssumption DEF Comp, TypeOK, MainType, Round
<1>1. /\ state \in {"ST_WAIT_FN_DONE", "ST_WAIT_W_DONE"} /\ ~Adds
      /\ Left \in {0, 1} /\ Fin = Left /\ fn_ctr = Left /\ Left' = Left + 1
  BY InttOValidToFnStep
<1>2. Backward /\ ~Forward
  BY <1>1 DEF Backward, Forward
<1>3. Head(pipe) = <<"ksw", Q, Left>> /\ \A k \in 1 .. Len(Tail(pipe)) : Tail(pipe)[k] = <<"ksw", Q, Left + k>>
  BY <1>2, PipeHead DEF InttOValidToFn
<1>4. \E b : FnIValid(<<"ksw", Q, Left>>, b)
  <2>1. CASE en_add
    <3>1. Push({0}, Head(pipe)) /\ FnIValid(fifo'[0][ctr_o[0]], rd_data[1])
      BY <2>1 DEF InttOValidToFn
    <3>2. Holds(0, 0)
      BY <1>1, <1>2 DEF Control, FifoInv
    <3>3. fifo'[0][ctr_o[0]] = Head(pipe)
      BY <1>0, <3>1, <3>2 DEF Push, Holds, TypeOK, FifoType
    <3> QED
      BY <1>3, <3>1, <3>3
  <2>2. CASE ~en_add
    BY <1>3, <2>2 DEF InttOValidToFn
  <2> QED
    BY <2>1, <2>2
<1>5. PICK b : FnIValid(<<"ksw", Q, Left>>, b)
  BY <1>4
<1>6. /\ ctr = 0 => kept' = [kept EXCEPT ![Left] = <<"ksw", L, Left>>] /\ UNCHANGED <<wr, mem>>
      /\ ctr # 0 => UNCHANGED <<kept, mem>> /\ wr'.data = Result(wr'.x, wr'.i)
  BY <1>1, <1>5, FnIValidData
<1>7. /\ UNCHANGED <<q_g1, q_g2, sum, psi, state_i, ren_1, en_add>>
      /\ UNCHANGED <<p0_state, p0_ctr_poly, p12_state, p12_ctr, p12_ctr_L, rd_state, rd_data>>
  BY <1>5 DEF InttOValidToFn, FnIValid, qVars, p0Vars, rdVars, accVars
<1>8. Clean'
  <2>1. \A x \in Comp, s \in Slot : fifo'[x][s] # Junk
    <3>1. CASE en_add
      <4>1. \A x \in Comp, s \in Slot : fifo'[x][s] = Head(pipe) \/ fifo'[x][s] = fifo[x][s]
        BY <3>1, PushOnly DEF InttOValidToFn, TypeOK
      <4>2. Head(pipe) # Junk
        BY <1>3, NamedRight
      <4> QED
        BY <4>1, <4>2 DEF Data, Clean
    <3>2. CASE ~en_add
      BY <3>2 DEF InttOValidToFn, fifoVars, Data, Clean
    <3> QED
      BY <3>1, <3>2
  <2>2. \A x \in Comp : kept'[x] # Junk
    <3>1. <<"ksw", L, Left>> # Junk
      BY NamedRight
    <3> QED
      BY <1>0, <1>6, <3>1 DEF Data, Clean, TypeOK, FnType
  <2>3. UNCHANGED <<sum, mem>>
    BY <1>6, <1>7
  <2> QED
    BY <2>1, <2>2, <2>3 DEF Data, Clean
<1>9. KeptData'
  <2>0. kept \in [Comp -> Value]
    BY DEF TypeOK, FnType, Comp
  <2>1. CASE ctr # 0
    <3>1. UNCHANGED <<ctr, kept>> /\ state # "ST_IDLE"
      BY <1>1, <1>5, <1>6, <2>1, FnIValidEffect DEF Control, mainVars
    <3> QED
      BY <2>1, <3>1, <1>0 DEF Data, KeptData
  <2>2. CASE ctr = 0 /\ Left = 0
    <3>1. kept'[0] = <<"ksw", L, 0>> /\ ctr' = 0
      BY <1>0, <1>1, <1>5, <1>6, <2>0, <2>2, FnIValidEffect DEF Control, mainVars
    <3> QED
      BY <3>1 DEF KeptData
  <2>3. CASE ctr = 0 /\ Left = 1
    <3>1. kept'[0] = <<"ksw", L, 0>> /\ kept'[1] = <<"ksw", L, 1>>
      BY <1>0, <1>1, <1>2, <1>6, <2>0, <2>3 DEF Data, KeptData
    <3> QED
      BY <1>0, <3>1 DEF KeptData
  <2> QED
    BY <1>1, <2>1, <2>2, <2>3
<1>10. CASE ctr = 0 /\ Left = 1
  <2>1. state' = "ST_LOAD_Q_G1"
    BY <1>1, <1>5, <1>10, FnIValidEffect DEF Control
  <2> QED
    BY <2>1, <1>8, <1>9, RestData DEF Rest
<1>11. CASE ctr # 0 \/ Left = 0
  <2>1. UNCHANGED <<state, ctr>> /\ UNCHANGED Q
    BY <1>1, <1>5, <1>11, FnIValidEffect DEF Control, mainVars, Q
  <2>2. ModuliInv1' /\ ModuliInv2' /\ PortData' /\ TableData' /\ SumData'
    BY <1>2, <1>7, <2>1, DataFrame DEF Entered
  <2>3. PipeData'
    <3>1. pipe' = Tail(pipe)
      BY DEF InttOValidToFn
    <3>2. \A k \in 1 .. Len(Tail(pipe)) : Left + k = Left' + k - 1
      BY <1>1
    <3> QED
      BY <1>2, <1>3, <2>1, <3>1, <3>2 DEF PipeData, Forward
  <2>4. FifoData'
    BY <1>1, <1>2, <1>7, <2>1 DEF FifoData, Adds, Forward
  <2>5. WriteData'
    BY <1>6, <2>1 DEF Data, WriteData
  <2> QED
    BY <1>8, <1>9, <2>2, <2>3, <2>4, <2>5 DEF Data
<1> QED
  BY <1>1, <1>10, <1>11

\* A polynomial pushed overwrites none that is still to be popped.
LEMMA InttOValidToFifoData ==
  ASSUME FIFO_M >= 2, TypeOK, TypeOK', RequestsInv, Control, Control', Data, InttOValidToFifo
  PROVE  Data'
<1>0. Comp = {0, 1}
  BY DEF Comp
<1>1. /\ state \in {"ST_WAIT_FN_DONE", "ST_WAIT_W_DONE"}
      /\ Fin \in Int /\ Left - Fin \in {0, 1} /\ Left' = Left + 1 /\ UNCHANGED Fin
  BY InttOValidToFifoStep
<1>2. Backward /\ ~Forward /\ Adds
  BY <1>1 DEF Backward, Forward, Adds, InttOValidToFifo
<1>3. /\ UNCHANGED <<state, ctr, q_g1, q_g2, en_add, ctr_o, sum, kept, wr, mem, state_i, ren_1, psi>>
      /\ UNCHANGED <<p0_state, p0_ctr_poly, p12_state, p12_ctr, p12_ctr_L, rd_state, rd_data>>
  BY DEF InttOValidToFifo, mainVars, qVars, p0Vars, rdVars, accVars, fnVars, outVars
<1>4. /\ Head(pipe) = <<"ksw", Q, Left>> /\ Push({0}, Head(pipe)) /\ pipe' = Tail(pipe) /\ UNCHANGED Q
      /\ \A k \in 1 .. Len(Tail(pipe)) : Tail(pipe)[k] = <<"ksw", Q, Left + k>>
  BY <1>2, <1>3, PipeHead DEF InttOValidToFifo, Q
<1>5. Left \in Int
  <2>1. Len(pipe) \in Nat
    BY LenProperties DEF TypeOK, NttType
  <2> QED
    BY <2>1 DEF Left, Entered
<1>6. ModuliInv1' /\ ModuliInv2' /\ PortData' /\ TableData' /\ SumData' /\ KeptData' /\ WriteData'
  BY <1>1, <1>2, <1>3, DataFrame DEF Entered
<1>7. PipeData'
  <2>1. \A k \in 1 .. Len(Tail(pipe)) : Left + k = Left' + k - 1
    BY <1>1, <1>5
  <2> QED
    BY <1>2, <1>3, <1>4, <2>1 DEF PipeData, Forward
<1>8. FifoData'
  <2>1. Holds(0, Left - Fin) /\ Queue(0, Left - Fin, <<"ksw", Q, Fin>>, <<"ksw", Q, Fin + 1>>)
    BY <1>2 DEF Control, FifoInv, Data, FifoData
  <2>2. /\ Left - Fin = 0 => fifo'[0][ctr_o[0]] = <<"ksw", Q, Left>>
        /\ Left - Fin = 1 => fifo'[0][ctr_o[0]] = fifo[0][ctr_o[0]] /\ fifo'[0][NextSlot(ctr_o[0])] = <<"ksw", Q, Left>>
    BY <1>0, <1>1, <1>4, <2>1, PushBehind DEF TypeOK
  <2>3. CASE Left - Fin = 0
    <3>1. Left = Fin /\ Left' - Fin' = 1
      BY <1>1, <1>5, <2>3
    <3> QED
      BY <1>1, <1>2, <1>3, <1>4, <2>2, <2>3, <3>1 DEF FifoData, Queue, Forward
  <2>4. CASE Left - Fin = 1
    <3>1. Left = Fin + 1 /\ Left' - Fin' = 2
      BY <1>1, <1>5, <2>4
    <3> QED
      BY <1>1, <1>2, <1>3, <1>4, <2>1, <2>2, <2>4, <3>1 DEF FifoData, Queue, Forward
  <2> QED
    BY <1>1, <2>3, <2>4
<1>9. Clean'
  <2>1. Head(pipe) # Junk
    BY <1>4, NamedRight
  <2>2. \A x \in Comp, s \in Slot : fifo'[x][s] = Head(pipe) \/ fifo'[x][s] = fifo[x][s]
    BY <1>4, PushOnly DEF TypeOK
  <2> QED
    BY <1>3, <2>1, <2>2 DEF Data, Clean
<1> QED
  BY <1>6, <1>7, <1>8, <1>9 DEF Data

\* relin_cu_p1_p2: keys and ct polynomials are asked for by the prime of the round.
LEMMA P12LoadData ==
  ASSUME TypeOK, TypeOK', RequestsInv, Control, Control', Data, P12LoadRlk \/ P12LoadPoly
  PROVE  Data'
<1>0. /\ Port = {0, 1, 2} /\ Comp = {0, 1} /\ rd_state \in [Port -> {"idle", "busy", "stream"}]
      /\ rd_data \in [Port -> Value] /\ state \in MainState /\ state' \in MainState
  BY DEF Port, Comp, TypeOK, RdType, MainType
<1>1. /\ UNCHANGED <<state, ctr, q_g1, q_g2, en_add, fifo, ctr_o, sum, kept, wr, mem, state_i, ren_1, pipe>>
      /\ UNCHANGED <<p0_state, p0_ctr_poly, psi, rd_state[0], rd_data[0], p12_ctr, p12_ctr_L>>
  <2>1. UNCHANGED <<state, ctr, q_g1, q_g2, en_add, fifo, ctr_o, sum, kept, wr, mem, state_i, ren_1, pipe>>
    BY DEF P12LoadRlk, P12LoadPoly, mainVars, qVars, nttVars, fifoVars, accVars, fnVars, outVars
  <2>2. UNCHANGED <<p0_state, p0_ctr_poly, psi, rd_state[0], rd_data[0], p12_ctr, p12_ctr_L>>
    BY <1>0 DEF P12LoadRlk, P12LoadPoly, Request, p0Vars, nttVars
  <2> QED
    BY <2>1, <2>2
<1>2. /\ Forward => UNCHANGED <<Out, Mult(0), Mult(1)>>
      /\ Backward => UNCHANGED <<Left, Fin>>
      /\ UNCHANGED <<Left, Entered>>
  BY <1>1, P12LoadSteps, CountsFrame
<1>3. /\ ModuliInv1' /\ ModuliInv2' /\ TableData' /\ PipeData' /\ FifoData'
      /\ SumData' /\ KeptData' /\ WriteData' /\ Clean'
  BY <1>1, <1>2, DataFrame
<1>4. PortData'
  <2>1. CASE P12LoadRlk
    <3>1. p12_state' = "ST_WAIT_DONE" /\ p12_ctr_L = ctr
      BY <1>0, <1>1, <2>1 DEF P12LoadRlk, Control, P12Inv, P12Rest, P12Forward, P12Backward, Lags, Leads, CtLoaded,
                              Rest, Forward, Backward, MainState
    <3>2. rd_data'[1] = <<"rlk", Q, p12_ctr>> /\ rd_data'[2] = <<"rlk", Q, p12_ctr>>
      BY <1>0, <2>1, <3>1 DEF P12LoadRlk, RlkRequested, Request, RequestsInv, Waits1, Waits2, Q
    <3> QED
      BY <1>0, <1>1, <3>1, <3>2 DEF Data, PortData, Q
  <2>2. CASE P12LoadPoly
    <3>1. PICK x \in Comp : /\ p12_state = <<"ST_LOAD_POLY_0", "ST_LOAD_POLY_1">>[x + 1]
                            /\ p12_state' = <<"ST_WAIT_DONE_2", "ST_WAIT_DONE_3">>[x + 1]
                            /\ Request({1}, <<"ct", PrimeOf(p12_ctr_L), x>>)
      BY <2>2 DEF P12LoadPoly
    <3>2. /\ p12_state \in {"ST_LOAD_POLY_0", "ST_LOAD_POLY_1"}
          /\ p12_state' = IF x = 0 THEN "ST_WAIT_DONE_2" ELSE "ST_WAIT_DONE_3"
      BY <1>0, <3>1
    <3>3. rd_data'[1] = <<"ct", PrimeOf(p12_ctr_L), x>> /\ rd_state'[1] = "busy"
      BY <1>0, <3>1, <3>2 DEF Request, RequestsInv, Waits1
    <3>4. p12_ctr_L = ctr
      BY <1>0, <1>1, <3>2, <3>3 DEF Control, P12Inv, P12Rest, P12Forward, P12Backward, Lags, Leads, CtLoaded,
                                    Rest, Forward, Backward, KeyWait, MainState
    <3> QED
      BY <1>0, <1>1, <3>2, <3>3, <3>4 DEF Data, PortData, Q, KeyWait
  <2> QED
    BY <2>1, <2>2
<1> QED
  BY <1>3, <1>4 DEF Data

\* The first n products make the sum of n products.
LEMMA AddRight ==
  ASSUME NEW q, NEW n \in Nat, NEW s, n > 0 => s = SumOf(q, n)
  PROVE  Add(s, <<"prod", q, n>>, n = 0) = SumOf(q, n + 1)
<1>1. SumOf(q, n + 1) = SumOf(q, n) \union {<<"prod", q, n>>}
  <2>1. 0 .. (n + 1) - 1 = (0 .. n - 1) \union {n}
    OBVIOUS
  <2> QED
    BY <2>1 DEF SumOf
<1>2. <<"prod", q, n>> \notin SumOf(q, n)
  BY DEF SumOf
<1>3. n = 0 => SumOf(q, n) = {}
  BY DEF SumOf
<1> QED
  BY <1>1, <1>2, <1>3 DEF Add

\* A key meets its polynomial of ct2 at the multiplier of accumulator x.
LEMMA KeyData ==
  ASSUME TypeOK, TypeOK', RequestsInv, Control, Control', Data, NEW x \in Comp,
         Settled, rd_state[x + 1] = "busy", p12_state \in KeyWait,
         rd_state' = [rd_state EXCEPT ![x + 1] = "stream"],
         Pop(x), SumWritten(x), Accumulate(x, Multiply(Front(x), rd_data[x + 1], q_g1)),
         UNCHANGED <<rd_data, fifo, ctr_i, mainVars, qVars, p0Vars, nttVars, p12Vars, fnVars, outVars>>
  PROVE  Data'
<1>0. /\ Comp = {0, 1} /\ Port = {0, 1, 2} /\ x \in {0, 1} /\ p12_ctr \in Nat
      /\ rd_state \in [Port -> {"idle", "busy", "stream"}]
      /\ sum \in [Comp -> SUBSET Value] /\ ctr_o \in [Comp -> Slot]
  BY DEF Comp, Port, TypeOK, P12Type, Poly, RdType, AccType, FifoType
<1>1. /\ Forward /\ ~Backward /\ Mult(x) = p12_ctr /\ state_i = "ST_NTT" /\ Out - Mult(x) \in {1, 2}
  BY KeyPhase DEF Forward, Backward
<1>2. UNCHANGED Out /\ Mult(x)' = Mult(x) + 1 /\ \A y \in Comp \ {x} : Mult(y)' = Mult(y)
  BY KeyArrives
<1>3. /\ UNCHANGED <<state, ctr, q_g1, q_g2, en_add, kept, wr, mem, pipe, psi, rd_state[0], Q>>
      /\ UNCHANGED <<p0_state, p0_ctr_poly, p12_state, p12_ctr, rd_data, fifo>>
  BY <1>0 DEF mainVars, qVars, p0Vars, nttVars, p12Vars, fnVars, outVars, Q
<1>4. Multiply(Front(x), rd_data[x + 1], q_g1) = <<"prod", Q, p12_ctr>>
  <2>1. Front(x) = <<"ntt", Q, p12_ctr>>
    BY <1>1 DEF Data, FifoData, Queue, Front
  <2>2. rd_data[x + 1] = <<"rlk", Q, p12_ctr>> /\ q_g1 = Q
    BY <1>1 DEF Data, PortData, ModuliInv1
  <2> QED
    BY <2>1, <2>2, MultiplyRight
<1>5. sum'[x] = SumOf(Q, Mult(x) + 1) /\ \A y \in Comp \ {x} : sum'[y] = sum[y]
  <2>1. acc_ctr[x] = Mult(x)
    BY <1>1 DEF Control, AccInv, SumWritten
  <2>2. sum' = [sum EXCEPT ![x] = Add(@, <<"prod", Q, p12_ctr>>, acc_ctr[x] = 0)]
    BY <1>4 DEF Accumulate
  <2>3. Mult(x) > 0 => sum[x] = SumOf(Q, Mult(x))
    BY <1>1 DEF Data, SumData
  <2>4. Add(sum[x], <<"prod", Q, p12_ctr>>, acc_ctr[x] = 0) = SumOf(Q, Mult(x) + 1)
    BY <1>0, <1>1, <2>1, <2>3, AddRight
  <2> QED
    BY <1>0, <2>2, <2>4
<1>6. ModuliInv1' /\ ModuliInv2' /\ PortData' /\ TableData' /\ PipeData' /\ KeptData' /\ WriteData'
  BY <1>1, <1>2, <1>3, DataFrame
<1>7. SumData'
  BY <1>1, <1>2, <1>3, <1>5 DEF Data, SumData, Forward, Backward
<1>8. FifoData'
  <2>1. ctr_o'[x] = NextSlot(ctr_o[x]) /\ \A y \in Comp \ {x} : ctr_o'[y] = ctr_o[y]
    BY <1>0 DEF Pop
  <2>2. Queue(x, Out - Mult(x), <<"ntt", Q, Mult(x)>>, <<"ntt", Q, Mult(x) + 1>>)'
    <3>1. Queue(x, Out - Mult(x), <<"ntt", Q, Mult(x)>>, <<"ntt", Q, Mult(x) + 1>>)
      BY <1>1 DEF Data, FifoData
    <3>2. Out' - Mult(x)' \in {0, 1} /\ (Out' - Mult(x)' = 1 => Out - Mult(x) = 2)
      BY <1>0, <1>1, <1>2, Counts
    <3> QED
      BY <1>2, <1>3, <2>1, <3>1, <3>2 DEF Queue
  <2>3. \A y \in Comp \ {x} : Queue(y, Out - Mult(y), <<"ntt", Q, Mult(y)>>, <<"ntt", Q, Mult(y) + 1>>)'
    BY <1>1, <1>2, <1>3, <2>1 DEF Data, FifoData, Queue
  <2> QED
    BY <1>1, <1>3, <2>2, <2>3 DEF FifoData, Forward, Backward
<1>9. Clean'
  <2>1. Junk \notin sum'[x]
    BY <1>5, NamedRight DEF SumOf
  <2> QED
    BY <1>3, <1>5, <2>1 DEF Data, Clean
<1> QED
  BY <1>6, <1>7, <1>8, <1>9 DEF Data

\* A ct polynomial meets the sum of its component at the final operation.
LEMMA CtData ==
  ASSUME TypeOK, TypeOK', RequestsInv, FirstRun', Control, Control', Data, P1Valid, p1_sel
  PROVE  Data'
<1>0. /\ Comp = {0, 1} /\ Port = {0, 1, 2} /\ ctr_o \in [Comp -> Slot] /\ rd_state \in [Port -> {"idle", "busy", "stream"}]
  BY DEF Comp, Port, TypeOK, RdType, FifoType
<1>1. /\ state \in {"ST_WAIT_FN_DONE", "ST_WAIT_W_DONE"} /\ Adds
      /\ UNCHANGED Left /\ Fin \in {0, 1} /\ Fin' = Fin + 1 /\ Left - Fin \in {1, 2}
      /\ p12_state = IF Fin = 0 THEN "ST_WAIT_DONE_2" ELSE "ST_WAIT_DONE_3"
  BY CtArrives
<1>2. Backward /\ ~Forward /\ ctr # 0
  BY <1>1 DEF Backward, Forward, Adds
<1>3. FnIValid(<<"ksw", Q, Fin>>, <<"ct", Q, Fin>>)
  <2>1. Front(0) = <<"ksw", Q, Fin>>
    BY <1>1, <1>2 DEF Data, FifoData, Queue, Front
  <2>2. rd_data[1] = <<"ct", Q, Fin>>
    BY <1>1, <1>2 DEF Data, PortData
  <2> QED
    BY <2>1, <2>2 DEF P1Valid
<1>4. UNCHANGED <<kept, mem>> /\ wr'.data = Result(wr'.x, wr'.i)
  <2>1. fn_ctr = Fin
    BY <1>1, <1>2 DEF Control, OutInv
  <2> QED
    BY <1>1, <1>2, <1>3, <2>1, FnIValidData
<1>5. UNCHANGED mainVars /\ UNCHANGED en_add
  BY <1>1, <1>2, <1>3, FnIValidEffect DEF Control
<1>6. /\ UNCHANGED <<state, ctr, q_g1, q_g2, fifo, sum, pipe, psi, state_i, ren_1, rd_state[0], Q>>
      /\ UNCHANGED <<p0_state, p0_ctr_poly, p12_state, p12_ctr, rd_data>>
  BY <1>0, <1>5 DEF P1Valid, mainVars, qVars, p0Vars, nttVars, p12Vars, accVars, Q
<1>7. ModuliInv1' /\ ModuliInv2' /\ PortData' /\ TableData' /\ PipeData' /\ SumData' /\ Clean'
  BY <1>1, <1>2, <1>4, <1>6, DataFrame DEF Entered
<1>8. KeptData'
  BY <1>1, <1>2, <1>4, <1>6, <1>0 DEF Data, KeptData
<1>9. WriteData'
  BY <1>4 DEF WriteData
<1>10. FifoData'
  <2>1. ctr_o'[0] = NextSlot(ctr_o[0])
    BY <1>0 DEF P1Valid, Pop
  <2>2. Queue(0, Left - Fin, <<"ksw", Q, Fin>>, <<"ksw", Q, Fin + 1>>)
    BY <1>1, <1>2 DEF Data, FifoData
  <2>3. Left' - Fin' \in {0, 1} /\ (Left' - Fin' = 1 => Left - Fin = 2)
    <3>1. Left \in Int
      BY LenProperties DEF TypeOK, NttType, Left, Entered
    <3> QED
      BY <1>1, <3>1
  <2> QED
    BY <1>1, <1>2, <1>6, <2>1, <2>2, <2>3 DEF FifoData, Queue, Forward
<1> QED
  BY <1>7, <1>8, <1>9, <1>10 DEF Data

\* The polynomials of p1 and p2 are those the counts name.
LEMMA ValidData ==
  ASSUME TypeOK, TypeOK', RequestsInv, FirstRun', Control, Control', Data, P1Valid \/ P2Valid
  PROVE  Data'
<1>1. 0 \in Comp /\ 0 + 1 = 1 /\ 1 \in Comp /\ 1 + 1 = 2
  BY DEF Comp
<1>2. CASE P1Valid /\ p1_sel
  BY <1>2, CtData
<1>3. CASE P1Valid /\ ~p1_sel
  BY <1>1, <1>3, KeyOnP1, KeyData DEF P1Valid
<1>4. CASE P2Valid
  <2>1. p12_state \in KeyWait
    BY <1>4 DEF P2Valid, RequestsInv, Waits2, KeyWait
  <2> QED
    BY <1>1, <1>4, <2>1, KeyData DEF P2Valid
<1> QED
  BY <1>2, <1>3, <1>4

\* At the end of a polynomial the places hold what the new counts name.
LEMMA P12DoneData ==
  ASSUME TypeOK, TypeOK', RequestsInv, RequestsInv', Control, Data, NEW ends \in {{1}, {2}, {1, 2}}, P12Done(ends)
  PROVE  Data'
<1>0. Port = {0, 1, 2} /\ rd_state \in [Port -> {"idle", "busy", "stream"}] /\ p12_state \in P12State
  BY DEF Port, TypeOK, RdType, P12Type
<1>1. /\ UNCHANGED <<state, ctr, q_g1, q_g2, en_add, fifo, ctr_o, sum, kept, wr, mem, state_i, ren_1, pipe>>
      /\ UNCHANGED <<p0_state, p0_ctr_poly, psi, rd_state[0], rd_data>>
  BY <1>0 DEF P12Done, mainVars, qVars, p0Vars, nttVars, fifoVars, accVars, fnVars, outVars
<1>2. /\ Forward => UNCHANGED <<Out, Mult(0), Mult(1)>>
      /\ Backward => UNCHANGED <<Left, Fin>>
      /\ UNCHANGED <<Left, Entered>>
  BY <1>1, P12DoneStep, CountsFrame
<1>3. /\ ModuliInv1' /\ ModuliInv2' /\ TableData' /\ PipeData' /\ FifoData'
      /\ SumData' /\ KeptData' /\ WriteData' /\ Clean'
  BY <1>1, <1>2, DataFrame
<1>4. p12_state' \in KeyWait => p12_state \in KeyWait /\ UNCHANGED p12_ctr
  BY <1>0 DEF P12Done, BothLoaded, KeysLoaded, RequestsInv, Waits1, Waits2, KeyWait
<1>5. p12_state' \in {"ST_WAIT_DONE_2", "ST_WAIT_DONE_3"} => UNCHANGED p12_state
  BY <1>0 DEF P12Done, BothLoaded, KeysLoaded
<1>6. PortData'
  BY <1>1, <1>4, <1>5 DEF Data, PortData, Q, Backward
<1> QED
  BY <1>3, <1>6 DEF Data

\* relin_accum_wrapper: each sum is whole when it enters the NTT unit, and enters it with the inverse table.
LEMMA AccData ==
  ASSUME TypeOK, TypeOK', Control, Control', Data,
         \/ \E x \in Comp : AccWDone(x)
         \/ AccAllDone \/ AccRead0Done \/ AccRead1Done
  PROVE  Data'
<1>1. /\ UNCHANGED <<state, ctr, q_g1, q_g2, en_add, fifo, ctr_o, sum, kept, wr, mem, pipe>>
      /\ UNCHANGED <<p0_state, p0_ctr_poly, psi, rd_state, rd_data, p12_state, p12_ctr, p12_ctr_L, en_rlk_q>>
  BY DEF AccWDone, AccAllDone, AccRead0Done, AccRead1Done, mainVars, qVars, p0Vars, nttVars, p12Vars, rdVars,
         fifoVars, fnVars, outVars
<1>2. UNCHANGED <<Out, Mult(0), Mult(1)>>
  BY <1>1, CountsFrame
<1>3. UNCHANGED <<Entered, Left, Fin>>
  <2>1. UNCHANGED Entered
    BY DEF AccWDone, AccAllDone, AccRead0Done, AccRead1Done, AccFull, Entered
  <2> QED
    BY <1>1, <2>1 DEF Left, Fin, CtAsked, Adds
<1>4. UNCHANGED <<state, ctr>> => Data'
  BY <1>1, <1>2, <1>3, DataFrame DEF Data
<1> QED
  BY <1>1, <1>4

\* The first sum read is that of component 0.
LEMMA AccRead0Data ==
  ASSUME TypeOK, TypeOK', Control, Control', Data, AccRead0
  PROVE  Data'
<1>0. Comp = {0, 1} /\ L \in Nat /\ L > 0 /\ pipe' \in Seq(Value)
  BY LAssumption DEF Comp, TypeOK, NttType
<1>1. /\ Forward /\ p0_state = "ST_IDLE" /\ pipe = <<>> /\ Mult(0) = L /\ Mult(1) = L
      /\ p12_state # "ST_WAIT_DONE_3" /\ state' = "ST_LOAD_Q_G2" /\ Left' = 0 /\ Fin' = 0
  BY AccRead0Step
<1>2. Backward' /\ ~Forward'
  BY <1>1 DEF Forward, Backward
<1>3. /\ UNCHANGED <<ctr, q_g1, q_g2, en_add, fifo, ctr_o, sum, kept, wr, mem, psi, Q>>
      /\ UNCHANGED <<p0_state, p0_ctr_poly, rd_state, rd_data, p12_state, p12_ctr, p12_ctr_L>>
  BY DEF AccRead0, IntoIntt, mainVars, qVars, p0Vars, p12Vars, rdVars, fifoVars, fnVars, outVars, Q
<1>4. sum[0] = FullSum(Q) /\ sum[1] = FullSum(Q) /\ psi = <<"psi", Q, 1>> /\ q_g1 = Q
  <2>1. SumOf(Q, L) = FullSum(Q)
    BY DEF SumOf, FullSum, Poly
  <2> QED
    BY <1>0, <1>1, <2>1 DEF Data, SumData, TableData, ModuliInv1
<1>5. pipe' = <<<<"ksw", Q, 0>>>>
  BY <1>1, <1>4, InverseTransformRight DEF AccRead0, IntoIntt
<1>6. ModuliInv1' /\ ModuliInv2' /\ PortData' /\ TableData'
  BY <1>1, <1>2, <1>3, <1>4 DEF Data, ModuliInv1, ModuliInv2, PortData, TableData
<1>7. PipeData'
  BY <1>1, <1>2, <1>3, <1>5 DEF PipeData
<1>8. FifoData' /\ SumData' /\ KeptData' /\ WriteData' /\ Clean'
  BY <1>1, <1>2, <1>3, <1>4 DEF Data, FifoData, Queue, SumData, KeptData, WriteData, Clean, Forward
<1> QED
  BY <1>6, <1>7, <1>8 DEF Data

\* The second is that of component 1.
LEMMA AccRead1Data ==
  ASSUME TypeOK, TypeOK', Control, Control', Data, AccRead1
  PROVE  Data'
<1>1. Backward /\ ~Forward /\ Entered = 1 /\ Entered' = 2 /\ state_i = "ST_INTT_3" /\ ren_1
  BY DEF AccRead1, Control, AccInv, Entered, Forward, Backward
<1>2. /\ UNCHANGED <<state, ctr, q_g1, q_g2, en_add, fifo, ctr_o, sum, kept, wr, mem, psi, Q>>
      /\ UNCHANGED <<p0_state, p0_ctr_poly, rd_state, rd_data, p12_state, p12_ctr, p12_ctr_L>>
  BY <1>1 DEF AccRead1, IntoIntt, qVars, p0Vars, p12Vars, rdVars, fifoVars, fnVars, outVars, Q, Forward
<1>3. pipe' = Append(pipe, <<"ksw", Q, 1>>)
  <2>1. sum[1] = FullSum(Q) /\ psi = <<"psi", Q, 1>> /\ q_g1 = Q
    BY <1>1 DEF Data, SumData, TableData, ModuliInv1
  <2> QED
    BY <2>1, InverseTransformRight DEF AccRead1, IntoIntt
<1>4. <<"ksw", Q, 1>> \in Value
  <2>1. sum[1] \in SUBSET Value /\ psi \in Value /\ q_g1 \in Prime /\ 1 \in Comp
    BY DEF TypeOK, AccType, NttType, QType, Comp
  <2>2. sum[1] = FullSum(Q) /\ psi = <<"psi", Q, 1>> /\ q_g1 = Q
    BY <1>1 DEF Data, SumData, TableData, ModuliInv1
  <2>3. InverseTransform(sum[1], 1, psi, q_g1) \in Value
    BY <2>1, InverseTransformType
  <2> QED
    BY <2>2, <2>3, InverseTransformRight
<1>5. /\ Len(pipe) \in Nat /\ Len(pipe') = Len(pipe) + 1
      /\ \A k \in 1 .. Len(pipe) : pipe'[k] = pipe[k]
      /\ pipe'[Len(pipe) + 1] = <<"ksw", Q, 1>>
  BY <1>3, <1>4, AppendProperties, LenProperties DEF TypeOK, NttType
<1>6. Left' = Left /\ Left = 1 - Len(pipe)
  BY <1>1, <1>5 DEF Left
<1>7. UNCHANGED Fin
  BY <1>2, <1>6 DEF Fin, CtAsked, Adds
<1>8. PipeData'
  <2>1. \A k \in 1 .. Len(pipe) + 1 : pipe'[k] = <<"ksw", Q, Left + k - 1>>
    <3> TAKE k \in 1 .. Len(pipe) + 1
    <3>1. CASE k = Len(pipe) + 1
      <4>1. Left + k - 1 = 1
        BY <1>5, <1>6, <3>1
      <4> QED
        BY <1>5, <3>1, <4>1
    <3>2. CASE k # Len(pipe) + 1
      BY <1>1, <1>5, <3>2 DEF Data, PipeData
    <3> QED
      BY <3>1, <3>2
  <2> QED
    BY <1>1, <1>2, <1>5, <1>6, <2>1 DEF PipeData, Forward
<1>9. SumData'
  BY <1>1, <1>2 DEF SumData, Forward, Backward
<1>10. /\ ModuliInv1' /\ ModuliInv2' /\ PortData' /\ TableData' /\ FifoData' /\ KeptData' /\ WriteData' /\ Clean'
  BY <1>1, <1>2, <1>6, <1>7, DataFrame
<1> QED
  BY <1>8, <1>9, <1>10 DEF Data

\* relin_cu_out and the write port.
LEMMA OutData ==
  ASSUME TypeOK, ModuliAligned', Control, Control', Data, P3Done \/ OutEnd
  PROVE  Data'
<1>1. CASE P3Done
  <2>1. /\ UNCHANGED <<state, ctr, q_g1, q_g2, en_add, fifo, ctr_o, sum, kept, psi, pipe, state_i, ren_1>>
        /\ UNCHANGED <<p0_state, p0_ctr_poly, rd_state, rd_data, p12_state, p12_ctr, p12_ctr_L, en_rlk_q>>
    BY <1>1 DEF P3Done, mainVars, qVars, p0Vars, nttVars, p12Vars, rdVars, fifoVars, accVars, fnVars
  <2>2. UNCHANGED <<Out, Mult(0), Mult(1), Entered, Left, Fin>>
    BY <2>1, CountsFrame
  <2>3. WriteData'
    BY <1>1 DEF P3Done, Idle, WriteData
  <2>4. \A x \in Comp : \A i \in Poly : mem'[x][i] \in {None, Result(x, i)}
    <3>1. wr.data = Result(wr.x, wr.i) /\ mem' = [mem EXCEPT ![wr.x][wr.i] = wr.data]
      BY <1>1 DEF P3Done, Data, WriteData
    <3> QED
      BY <3>1 DEF Data, Clean, TypeOK, OutType
  <2>5. Clean'
    BY <2>1, <2>4 DEF Data, Clean
  <2>6. /\ ModuliInv1' /\ ModuliInv2' /\ PortData' /\ TableData' /\ PipeData' /\ FifoData'
        /\ SumData' /\ KeptData'
    BY <2>1, <2>2, DataFrame
  <2> QED
    BY <2>3, <2>5, <2>6 DEF Data
<1>2. CASE OutEnd
  <2>1. Backward /\ ctr # 0
    BY <1>2 DEF OutEnd, Control, OutInv
  <2>2. state = "ST_WAIT_W_DONE" /\ UNCHANGED <<kept, sum, fifo, mem>>
    BY <1>2, <2>1 DEF OutEnd, Control, OutInv, WriteState, fifoVars, accVars, fnVars, BackwardInv, MainInv,
                      Backward, Fin, CtAsked
  <2>3. Rest'
    BY <1>2, <2>2 DEF OutEnd, Rest
  <2>4. Clean'
    BY <2>2 DEF Data, Clean
  <2>5. KeptData'
    BY <2>1, <2>2, <2>3 DEF Data, KeptData, Rest, Backward
  <2> QED
    BY <2>3, <2>4, <2>5, RestData
<1> QED
  BY <1>1, <1>2

-----------------------------------------------------------------------------
\* Every step of the first run keeps the data.
LEMMA DataStep ==
  ASSUME FIFO_M >= 2
  PROVE  TypeOK /\ TypeOK' /\ ModuliAligned' /\ RequestsInv /\ RequestsInv' /\ ControlInv /\ ControlInv'
           /\ DataInv /\ [Next]_vars => DataInv'
<1> SUFFICES ASSUME TypeOK, TypeOK', ModuliAligned', RequestsInv, RequestsInv', ControlInv, ControlInv',
                    DataInv, [Next]_vars, FirstRun'
             PROVE  Data'
  BY DEF DataInv
<1>0. Control /\ Control' /\ Data
  BY FirstRunPast DEF ControlInv, DataInv
<1>1. CASE Start \/ LoadQG1 \/ Op \/ LoadQG2 \/ Done
  BY <1>0, <1>1, MainData
<1>2. CASE P0WaitOver \/ P0Load \/ P0Valid \/ P0Done \/ P0InttReady
  BY <1>0, <1>2, P0Data
<1>3. CASE NttOValid
  BY <1>0, <1>3, NttOValidData
<1>4. CASE InttOValidToFn
  BY <1>0, <1>4, InttOValidToFnData
<1>5. CASE InttOValidToFifo
  BY <1>0, <1>5, InttOValidToFifoData
<1>6. CASE P12LoadRlk \/ P12LoadPoly
  BY <1>0, <1>6, P12LoadData
<1>7. CASE P1Valid \/ P2Valid
  BY <1>0, <1>7, ValidData
<1>8. CASE \E ends \in {{1}, {2}, {1, 2}} : P12Done(ends)
  BY <1>0, <1>8, P12DoneData
<1>9. CASE (\E x \in Comp : AccWDone(x)) \/ AccAllDone \/ AccRead0Done \/ AccRead1Done
  BY <1>0, <1>9, AccData
<1>10. CASE AccRead0
  BY <1>0, <1>10, AccRead0Data
<1>11. CASE AccRead1
  BY <1>0, <1>11, AccRead1Data
<1>12. CASE P3Done \/ OutEnd
  BY <1>0, <1>12, OutData
<1>13. CASE UNCHANGED vars
  <2>1. /\ UNCHANGED <<state, ctr, q_g1, q_g2, en_add, fifo, ctr_o, sum, kept, wr, mem, psi, pipe, state_i, ren_1>>
        /\ UNCHANGED <<p0_state, p0_ctr_poly, rd_state, rd_data, p12_state, p12_ctr, p12_ctr_L, en_rlk_q>>
    BY <1>13 DEF vars, mainVars, qVars, p0Vars, nttVars, p12Vars, rdVars, fifoVars, accVars, fnVars, outVars
  <2>2. UNCHANGED <<Out, Mult(0), Mult(1), Entered, Left, Fin>>
    BY <2>1, CountsFrame
  <2> QED
    BY <1>0, <2>1, <2>2, DataFrame DEF Data
<1> QED
  BY <1>1, <1>2, <1>3, <1>4, <1>5, <1>6, <1>7, <1>8, <1>9, <1>10, <1>11, <1>12, <1>13 DEF Next, Step

\* What every place of the data path holds, in the run after a reset.
THEOREM DataCorrect ==
  ASSUME FIFO_M >= 2
  PROVE  Spec => []DataInv
<1>1. Init => DataInv
  BY DataInit DEF DataInv
<1> QED
  BY <1>1, DataStep, ControlCorrect, ModuliCorrect, RequestsInit, RequestsStep, InitType, StepType, PTL DEF Spec

\* No unit ever combines operands that do not belong together: every modulus, twiddle table, key, sum and
\* kept polynomial is that of the polynomial it is used on, and what is written to HBM is the result.
THEOREM OperandsCorrect ==
  ASSUME FIFO_M >= 2
  PROVE  Spec => [](FirstRun => OperandsMatch)
<1>1. TypeOK /\ DataInv => (FirstRun => OperandsMatch)
  <2> SUFFICES ASSUME TypeOK, Data PROVE OperandsMatch
    BY DEF DataInv
  <2>1. \A k \in 1 .. Len(pipe) : pipe[k] # Junk
    BY NamedRight DEF Data, PipeData
  <2> QED
    BY <2>1 DEF Data, Clean, WriteData, OperandsMatch
<1> QED
  BY <1>1, DataCorrect, InitType, StepType, PTL DEF Spec

-----------------------------------------------------------------------------
(***************************************************************************)
(* The core implements RelinService: P3Done is Deliver, Start is Begin,    *)
(* Done is Finish, and no other step shows outside.                        *)
(***************************************************************************)
Running == state # "ST_IDLE"
Written == CASE out_state \in {"ST_POLY_1_WRITE_START", "ST_POLY_1_WRITE_WAIT_DONE"} -> 1
             [] out_state = "ST_END" -> 2
             [] OTHER -> 0
Delivered == IF state = "ST_DONE" THEN 2 * L ELSE 2 * out_ctr + Written

\* The variables of RelinService, as Relin computes them.
LEMMA ServiceVars == Service!vars = <<Running, Delivered, mem>>
BY DEF Service!vars, Running, Delivered, Written

\* Nothing shows of a step that leaves relin_cu_out and the results alone, and neither starts nor ends a run.
LEMMA Inside ==
  ASSUME UNCHANGED <<Written, out_ctr, mem>>,
         UNCHANGED state \/ {state, state'} \intersect {"ST_IDLE", "ST_DONE"} = {}
  PROVE  UNCHANGED Service!vars
BY ServiceVars DEF Service!vars, Running, Delivered, Written

\* The data of RelinService are those of Relin.
LEMMA ServiceData ==
  /\ Service!Comp = Comp /\ Service!Poly = Poly /\ Service!None = None
  /\ \A x, i : Service!Result(x, i) = Result(x, i)
BY DEF Service!Comp, Comp, Service!Poly, Poly, Service!None, None, Service!Result, Result

\* The core begins as the service does.
LEMMA ServiceInit == Init => Service!Init
<1> SUFFICES ASSUME Init PROVE Service!Init
  OBVIOUS
<1>1. state = "ST_IDLE" /\ out_ctr = 0 /\ out_state = "ST_POLY_0_WRITE_START"
      /\ mem = [x \in Comp |-> [i \in Poly |-> None]]
  BY DEF Init
<1>2. Running = FALSE /\ Written = 0 /\ 2 * out_ctr + 0 = 0
  BY <1>1 DEF Running, Written
<1>3. Delivered = 0
  BY <1>1, <1>2 DEF Delivered
<1> QED
  BY <1>1, <1>2, <1>3, ServiceData DEF Service!Init, Running, Delivered, Written

\* The parity and the half of a number of results.
LEMMA Halves ==
  ASSUME NEW a \in Nat, NEW b \in {0, 1}
  PROVE  (2 * a + b) % 2 = b /\ (2 * a + b) \div 2 = a
OBVIOUS

\* A result is delivered: it is the one that is next, at the place where it belongs.
LEMMA Delivers ==
  ASSUME TypeOK, Control, Data, P3Done
  PROVE  Service!Deliver
<1> USE DEF Control, Rest, Forward, Backward
<1>0. L \in Nat /\ L > 0 /\ out_ctr \in 0 .. L - 1 /\ 2 * out_ctr \in Nat
  BY LAssumption DEF TypeOK, OutType, Poly
<1>1. /\ out_state \in {"ST_POLY_0_WRITE_WAIT_DONE", "ST_POLY_1_WRITE_WAIT_DONE"}
      /\ wr.i = out_ctr /\ wr.x = Written /\ wr.data = Result(wr.x, wr.i)
  BY DEF P3Done, OutInv, Written, Data, WriteData
<1>2. state \notin {"ST_IDLE", "ST_DONE"}
  BY <1>1 DEF OutInv, WriteState
<1>3. UNCHANGED <<state, out_ctr>> /\ Written \in {0, 1} /\ Written' = Written + 1
      /\ mem' = [mem EXCEPT ![Written][out_ctr] = Result(Written, out_ctr)]
  BY <1>1 DEF P3Done, AfterWrite, Written, mainVars
<1>4. Running /\ Running' /\ Delivered = 2 * out_ctr + Written /\ Delivered' = Delivered + 1 /\ Delivered < 2 * L
  BY <1>0, <1>2, <1>3 DEF Running, Delivered
<1>5. Delivered % 2 = Written /\ Delivered \div 2 = out_ctr
  <2>1. out_ctr \in Nat
    BY <1>0
  <2>2. (2 * out_ctr + Written) % 2 = Written /\ (2 * out_ctr + Written) \div 2 = out_ctr
    BY <1>3, <2>1, Halves
  <2> QED
    BY <1>4, <2>2
<1>6. mem' = [mem EXCEPT ![Delivered % 2][Delivered \div 2] = Result(Delivered % 2, Delivered \div 2)]
  BY <1>3, <1>5
<1>7. Running /\ Delivered < 2 * L
      /\ mem' = [mem EXCEPT ![Delivered % 2][Delivered \div 2] = Result(Delivered % 2, Delivered \div 2)]
      /\ Delivered' = Delivered + 1 /\ UNCHANGED Running
  BY <1>4, <1>6
<1> QED
  BY <1>7, ServiceData DEF Service!Deliver, Running, Delivered, Written

\* What the final operation puts out shows only when it has been written.
LEMMA FnIValidInside ==
  ASSUME Control, Fin \in {0, 1}, state \in {"ST_WAIT_FN_DONE", "ST_WAIT_W_DONE"}, NEW a, NEW b, FnIValid(a, b)
  PROVE  UNCHANGED Service!vars
<1>1. UNCHANGED mem /\ UNCHANGED out_ctr /\ state' # "ST_IDLE" /\ state' # "ST_DONE"
  BY DEF FnIValid, FnIDone, OValid, mainVars, outVars
<1>2. UNCHANGED Written
  BY FnIValidEffect DEF FnIValid, OValid, WriteKeepsUp, Control, OutInv, WriteState, Backward, Written, outVars
<1> QED
  BY <1>1, <1>2, Inside

\* Every step of the core is a step of the service or changes nothing of it.
LEMMA ServiceStep ==
  ASSUME FIFO_M >= 2
  PROVE  TypeOK /\ TypeOK' /\ RequestsInv /\ FirstRun' /\ Control /\ Control' /\ Data /\ [Next]_vars
           => [Service!Next]_(Service!vars)
<1> SUFFICES ASSUME TypeOK, TypeOK', RequestsInv, FirstRun', Control, Control', Data, [Next]_vars
             PROVE  Service!Next \/ UNCHANGED Service!vars
  BY DEF Service!vars
<1>0. L \in Nat /\ L > 0 /\ ctr \in 0 .. L /\ out_ctr \in 0 .. L - 1
  BY LAssumption DEF TypeOK, MainType, OutType, Round, Poly
<1>1. CASE Start
  <2>1. UNCHANGED <<Written, out_ctr, mem>> /\ state = "ST_IDLE" /\ state' = "ST_LOAD_Q_G1"
    BY <1>1 DEF Start, Written, outVars
  <2> QED
    BY <2>1 DEF Service!Next, Service!Begin, Written
<1>2. CASE Done
  <2>1. UNCHANGED <<out_ctr, out_state, mem>> /\ state = "ST_DONE" /\ state' = "ST_IDLE"
    BY <1>2 DEF Done, outVars
  <2>2. out_ctr = 0 /\ out_state = "ST_POLY_0_WRITE_START"
    BY <2>1 DEF Control, OutInv, Now, Backward
  <2> QED
    BY <1>0, <2>1, <2>2 DEF Service!Next, Service!Finish
<1>3. CASE P3Done
  BY <1>3, Delivers DEF Service!Next
<1>4. CASE OutEnd
  <2>1. Backward /\ ctr # 0 /\ out_ctr = ctr - 1
    BY <1>4 DEF OutEnd, Control, OutInv, Now, Backward
  <2>2. state = "ST_WAIT_W_DONE"
    BY <1>4, <2>1 DEF OutEnd, Control, OutInv, WriteState, BackwardInv, MainInv, Backward, Fin, CtAsked
  <2>3. /\ out_state = "ST_END" /\ out_state' = "ST_POLY_0_WRITE_START" /\ out_ctr' = NextOut /\ UNCHANGED mem
        /\ state' = IF ctr = L THEN "ST_DONE" ELSE "ST_LOAD_Q_G1"
    BY <1>4, <2>2 DEF OutEnd
  <2>4. Delivered = 2 * out_ctr + 2 /\ Delivered' = 2 * out_ctr + 2
    BY <1>0, <2>1, <2>2, <2>3 DEF Delivered, Written, NextOut
  <2> QED
    BY <2>2, <2>3, <2>4, ServiceVars DEF Service!vars, Running, Delivered, Written
<1>5. CASE InttOValidToFn
  <2>1. state \in {"ST_WAIT_FN_DONE", "ST_WAIT_W_DONE"} /\ Fin \in {0, 1}
    BY <1>5, InttOValidToFnStep
  <2>2. \E a, b : FnIValid(a, b)
    BY <1>5 DEF InttOValidToFn
  <2> QED
    BY <2>1, <2>2, FnIValidInside
<1>6. CASE P1Valid /\ p1_sel
  <2>1. state \in {"ST_WAIT_FN_DONE", "ST_WAIT_W_DONE"} /\ Fin \in {0, 1}
    BY <1>6, CtArrives
  <2>2. FnIValid(Front(0), rd_data[1])
    BY <1>6 DEF P1Valid
  <2> QED
    BY <2>1, <2>2, FnIValidInside
<1>7. CASE LoadQG1 \/ Op \/ LoadQG2 \/ AccRead0 \/ AccRead1
  <2>1. UNCHANGED <<Written, out_ctr, mem>>
    BY <1>7 DEF LoadQG1, Op, LoadQG2, AccRead0, AccRead1, outVars, Written
  <2>2. UNCHANGED state \/ {state, state'} \intersect {"ST_IDLE", "ST_DONE"} = {}
    BY <1>7 DEF LoadQG1, Op, LoadQG2, AfterG2, AccRead0, AccRead1
  <2> QED
    BY <2>1, <2>2, Inside
<1>8. CASE \/ P0WaitOver \/ P0Load \/ P0Valid \/ P0Done \/ P0InttReady \/ NttOValid \/ InttOValidToFifo
           \/ P12LoadRlk \/ P12LoadPoly \/ (P1Valid /\ ~p1_sel) \/ P2Valid
           \/ (\E ends \in {{1}, {2}, {1, 2}} : P12Done(ends)) \/ (\E x \in Comp : AccWDone(x))
           \/ AccAllDone \/ AccRead0Done \/ AccRead1Done \/ UNCHANGED vars
  <2>1. UNCHANGED <<mainVars, outVars>>
    BY <1>8 DEF vars, P0WaitOver, P0Load, P0Valid, P0Done, P0InttReady, NttOValid, InttOValidToFifo, P12LoadRlk,
                P12LoadPoly, P1Valid, P2Valid, P12Done, AccWDone, AccAllDone, AccRead0Done, AccRead1Done
  <2> QED
    BY <2>1, Inside DEF mainVars, outVars, Written
<1> QED
  BY <1>1, <1>2, <1>3, <1>4, <1>5, <1>6, <1>7, <1>8 DEF Next, Step

\* The first run delivers what RelinService promises: the two components of the result modulo every prime,
\* in order, each one right, and done only after the last of them.
THEOREM ServiceSafe ==
  ASSUME FIFO_M >= 2, MaxStarts = 1
  PROVE  Spec => Service!InOrder
<1>1. TypeOK /\ ControlInv /\ DataInv => FirstRun /\ Control /\ Data
  BY DEF TypeOK, MainType, FirstRun, ControlInv, DataInv
<1>2. TypeOK /\ TypeOK' /\ RequestsInv /\ ControlInv /\ ControlInv' /\ DataInv /\ DataInv' /\ [Next]_vars
        => [Service!Next]_(Service!vars)
  <2>1. TypeOK' /\ ControlInv' /\ DataInv' => FirstRun' /\ Control'
    BY DEF TypeOK, MainType, FirstRun, ControlInv
  <2> QED
    BY <1>1, <2>1, ServiceStep
<1> QED
  BY <1>2, ServiceInit, DataCorrect, ControlCorrect, RequestsInit, RequestsStep, InitType, StepType, PTL
     DEF Spec, Service!InOrder
=============================================================================
