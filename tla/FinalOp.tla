------------------------------- MODULE FinalOp -------------------------------
(***************************************************************************)
(* The final operation (src/relin/relin_final_op_wrapper.sv and            *)
(* relin_final_op.sv), cycle by cycle. The first two polynomials of a run  *)
(* go through the adder into the BRAM, one half each; every later one      *)
(* meets the half with its own number there: word n of the BRAM, of A and  *)
(* of B come together though each takes a path of another length. Nothing  *)
(* but the `valid` pulse tells where a polynomial of K words begins.       *)
(***************************************************************************)
EXTENDS Naturals, Sequences

CONSTANTS
  K,          \* words of a polynomial
  LAT_ADD, LAT_SUB0, LAT_SUB1, LAT_MUL,  \* latencies of the arithmetic units
  Gap,        \* cycles between the last kept polynomial and the next one, at least
  MaxPolys    \* bound on the polynomials

ASSUME LatencyAssumption ==
  /\ {LAT_ADD, LAT_SUB0, LAT_SUB1, LAT_MUL} \subseteq Nat \ {0}
  /\ K \in Nat /\ K > LAT_ADD + 1
\* Any nearer, ST_READ would cut off the last writes: see bram_wen.
ASSUME GapAssumption == Gap \in Nat /\ Gap + 1 >= LAT_ADD
ASSUME BoundAssumption == MaxPolys \in Nat /\ MaxPolys >= 2

LAT_BRAM_READ == 2
LAT_LAST == LAT_ADD + 2
LAT      == LAT_SUB0 + LAT_SUB1 + LAT_MUL + LAT_ADD + LAT_BRAM_READ + 1
A_SHIFT  == LAT_SUB0 + LAT_BRAM_READ - 1
\* Mutant: B is delayed by one cycle less.
B_SHIFTShort == LAT - LAT_ADD - 2
B_SHIFT  == LAT - LAT_ADD - 1

VARIABLES
  \* relin_final_op_wrapper
  ctr, last,
  \* relin_final_op: registers, state machine, BRAM
  last_q, last_ctr, wen, ren, offset_q, fsm, read_addr, write_addr, bram, dout,
  \* delay lines and arithmetic pipelines, the newest value first
  A_line, B_line, sub0, sub1, mul, add, o_valid_line, offset_line, C,
  \* the units around it: polynomials given, word to give next (K and more: none,
  \* for so many cycles), polynomials taken, word to take next
  given, pos, taken, out

wrapVars == <<ctr, last>>
ctrlVars == <<last_q, last_ctr, wen, ren, offset_q, fsm, read_addr, write_addr>>
dataVars == <<bram, dout, A_line, B_line, sub0, sub1, mul, add, o_valid_line, offset_line, C>>
vars == <<wrapVars, ctrlVars, dataVars, given, pos, taken, out>>

None  == <<>>
Half  == 0 .. 1
Addr  == 0 .. K - 1

\* What the arithmetic makes of words: the tuple of the words it was made from.
AddHalf(a)     == <<"half", a>>
Sub(a, k)      == <<"diff", a, k>>
Sum(m, b)      == <<"out", m, b>>

\* A delay line or pipeline of n stages, and what comes out of it.
Line(n, x)     == [i \in 1 .. n |-> x]
Shift(line, x) == <<x>> \o SubSeq(line, 1, Len(line) - 1)
Out(line)      == line[Len(line)]

\* The counters of the BRAM run on by themselves until they have wrapped.
Counter(c, inc) == IF inc \/ c # 0 THEN (c + 1) % K ELSE 0

-----------------------------------------------------------------------------
\* Combinational outputs of the state machine.
start_read == fsm \in {"ST_IDLE", "ST_WRITE_END"} /\ (ren \/ wen)

start_write == fsm = "ST_WRITE_INIT" /\ read_addr = LAT_LAST - 2

\* Mutant: the writes of a polynomial end when the next one begins.
bram_wenCut == start_write \/ fsm \in {"ST_WRITE_LOOP", "ST_WRITE_END"}

bram_wen == \/ start_write
            \/ fsm = "ST_WRITE_INIT" /\ write_addr # 0
            \/ fsm \in {"ST_WRITE_LOOP", "ST_WRITE_END"}

NextFsm ==
  CASE fsm = "ST_IDLE" /\ ren                          -> "ST_READ"
    [] fsm = "ST_IDLE" /\ wen /\ ~ren                  -> "ST_WRITE_INIT"
    [] fsm = "ST_READ" /\ read_addr = K - 1            -> "ST_IDLE"
    [] start_write                                     -> "ST_WRITE_LOOP"
    [] fsm = "ST_WRITE_LOOP" /\ read_addr = K - 1      -> "ST_WRITE_END"
    [] fsm = "ST_WRITE_END" /\ wen                     -> "ST_WRITE_INIT"
    [] fsm = "ST_WRITE_END" /\ ren /\ ~wen             -> "ST_READ"
    [] fsm = "ST_WRITE_END" /\ ~ren /\ ~wen /\ write_addr = K - 1 -> "ST_IDLE"
    [] OTHER                                           -> fsm

\* Mutant: every polynomial is kept.
WrapperKeeps(i_valid) == ctr' = (IF i_valid THEN 1 - ctr ELSE ctr) /\ UNCHANGED last

\* The wrapper counts the polynomials in pairs; last_set needs ctr_L = L, and ctr_L
\* is never incremented.
Wrapper(i_valid) ==
  /\ ctr' = IF i_valid THEN (IF ctr = 1 THEN 0 ELSE ctr + 1) ELSE ctr
  /\ last' = (last /\ ~(i_valid /\ ctr = 1))

\* last_q covers the K cycles in which the words of a kept polynomial enter the adder.
LastRegister(i_valid) ==
  LET starts == i_valid /\ last
  IN /\ last_q' = (starts \/ (last_q /\ last_ctr # K - 1))
     /\ last_ctr' = CASE starts -> 0
                      [] last_q /\ ~starts -> (last_ctr + 1) % K
                      [] OTHER -> last_ctr

NextOffset(i_valid) == IF i_valid THEN 1 - offset_q ELSE offset_q

Control(i_valid) ==
  /\ Wrapper(i_valid) /\ LastRegister(i_valid)
  /\ wen' = (i_valid /\ last) /\ ren' = (i_valid /\ ~last)
  /\ offset_q' = NextOffset(i_valid)
  /\ fsm' = NextFsm
  /\ read_addr' = Counter(read_addr, start_read)
  /\ write_addr' = Counter(write_addr, start_write)

\* A enters the adder after one cycle while a polynomial is kept, else it goes
\* around through A_SHIFT more to meet the word from the BRAM. A_line[1] is A_last.
A_d == IF last_q THEN A_line[1] ELSE Out(A_line)

Data(i_valid, a, b) ==
  /\ A_line' = Shift(A_line, a)
  /\ B_line' = Shift(B_line, b)
  /\ dout' = bram[offset_q][read_addr]
  /\ bram' = IF bram_wen THEN [bram EXCEPT ![Out(offset_line)][write_addr] = Out(add)] ELSE bram
  /\ offset_line' = Shift(offset_line, offset_q)
  /\ sub0' = Shift(sub0, dout)
  /\ sub1' = Shift(sub1, Sub(A_d, Out(sub0)))
  /\ mul' = Shift(mul, Out(sub1))
  /\ add' = Shift(add, IF last_q THEN AddHalf(A_d) ELSE Sum(Out(mul), Out(B_line)))
  /\ C' = Out(add)
  /\ o_valid_line' = Shift(o_valid_line, i_valid /\ ~last)

-----------------------------------------------------------------------------
o_valid == Out(o_valid_line)

\* Words of polynomial n.
A(n, i) == <<"A", n, i>>
B(n, i) == <<"B", n, i>>

\* The unit before gives word after word, then waits; it begins a polynomial at
\* any time after the one before, but not at once when the kept ones are over.
MayBegin == given < MaxPolys /\ pos >= IF given = 2 THEN K + Gap ELSE K

Feed(i_valid) ==
  /\ i_valid => MayBegin
  /\ given' = IF i_valid THEN given + 1 ELSE given
  /\ pos' = CASE i_valid -> 1
              [] ~i_valid /\ pos < K + Gap -> pos + 1
              [] OTHER -> pos

\* The unit behind counts K words from o_valid on.
Takes == o_valid \/ out > 0
Take ==
  /\ out' = IF Takes THEN (out + 1) % K ELSE 0
  /\ taken' = IF Takes /\ out = K - 1 THEN taken + 1 ELSE taken

Clock(i_valid) ==
  LET n == IF i_valid THEN given ELSE given - 1
      i == IF i_valid THEN 0 ELSE pos
      a == IF i < K THEN A(n, i) ELSE None
      b == IF i < K /\ n >= 2 THEN B(n, i) ELSE None
  IN /\ Feed(i_valid) /\ Take
     /\ Control(i_valid) /\ Data(i_valid, a, b)

Init ==
  /\ ctr = 0 /\ last = TRUE
  /\ last_q = FALSE /\ last_ctr = 0 /\ wen = FALSE /\ ren = FALSE /\ offset_q = 1
  /\ fsm = "ST_IDLE" /\ read_addr = 0 /\ write_addr = 0
  /\ bram = [h \in Half |-> [i \in Addr |-> None]] /\ dout = None
  /\ A_line = Line(A_SHIFT + 1, None) /\ B_line = Line(B_SHIFT, None)
  /\ sub0 = Line(LAT_SUB0, None) /\ sub1 = Line(LAT_SUB1, None)
  /\ mul = Line(LAT_MUL, None) /\ add = Line(LAT_ADD, None) /\ C = None
  /\ o_valid_line = Line(LAT, FALSE) /\ offset_line = Line(LAT_ADD, 0)
  /\ given = 0 /\ pos = K + Gap /\ taken = 0 /\ out = 0

Next == \E i_valid \in BOOLEAN : Clock(i_valid)

\* The clock runs; nothing makes anyone give a polynomial.
Spec == Init /\ [][Next]_vars /\ WF_vars(Next)

-----------------------------------------------------------------------------
\* Word i of the n-th result: word i of A and B of that polynomial with word i of the
\* kept polynomial of its half.
Result(n, i) ==
  Sum(Sub(A(n, i), AddHalf(A(n % 2, i))), B(n, i))

\* In the K cycles from o_valid on, C is the result, word by word: the three paths of
\* different length meet at every word, at whatever distance polynomials follow each other.
OutputRight ==
  Takes => given > taken + 2 /\ C = Result(taken + 2, out)

\* Once the state machine is out of its write states every polynomial given to be
\* kept stands in its half of the BRAM, whole and in order, and stays there.
KeptWhole ==
  fsm \in {"ST_IDLE", "ST_READ"} /\ ~wen =>
    \A n \in Half : n < given => \A i \in Addr : bram[n][i] = AddHalf(A(n, i))

\* A polynomial given comes out; none is swallowed by the state machine being busy.
EachDelivered == \A n \in 3 .. MaxPolys : given = n ~> taken >= n - 2
=============================================================================
