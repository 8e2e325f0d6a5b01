-------------------------------- MODULE Accum --------------------------------
(***************************************************************************)
(* The accumulators (src/relin/relin_accum_wrapper.sv and two of           *)
(* relin_accum.sv), cycle by cycle. A product of K words is added to the   *)
(* BRAM in a pipeline: word n is read, added and written back ADD_LAT + 1  *)
(* cycles later at the same address, by two counters that run on by        *)
(* themselves. After L products on each side, and a request, accumulator 0 *)
(* is read out, then accumulator 1, over one output.                       *)
(***************************************************************************)
EXTENDS Naturals, Sequences

CONSTANTS
  L,            \* products of a round
  K,            \* words of a product
  ADD_LAT,      \* latency of the adder
  START_DELAY, READ_DELAY,
  Gap,          \* cycles between two products of an accumulator, at least
  MaxRounds     \* bound on the rounds

\* With fewer words the first write would not have begun when the last word is
\* read: rdone would be taken for wdone.
ASSUME WordsAssumption == ADD_LAT \in Nat \ {0} /\ K \in Nat /\ K > ADD_LAT + 2
ASSUME DelayAssumption == START_DELAY \in Nat \ {0} /\ READ_DELAY \in Nat \ {0}
\* Any nearer, the next product would find the count of the one before not yet made.
ASSUME GapAssumption == Gap \in Nat /\ Gap > ADD_LAT
ASSUME BoundAssumption == L \in Nat \ {0} /\ MaxRounds \in Nat \ {0}

VARIABLES
  \* relin_accum_wrapper: state machine, product counters, request, outputs
  state_i, ctr, start_read_line, start_read_q, ren_line, state_o, o_poly_d, o_valid_d,
  \* relin_accum, one of each per accumulator
  read_addr, write_addr, first_q, o_valid_x, wen_line, A_q, dout, add, bram,
  \* the units around: products given and word to give next (K and more: none, for
  \* so many cycles) per accumulator, request given, round; polynomials taken, word
  \* to take next
  given, pos, asked, round, taken, out

wrapVars == <<state_i, ctr, start_read_line, start_read_q, ren_line, state_o, o_poly_d, o_valid_d>>
accVars  == <<read_addr, write_addr, first_q, o_valid_x, wen_line, A_q, dout, add, bram>>
unitVars == <<given, pos, asked, round, taken, out>>
vars == <<wrapVars, accVars, unitVars>>

Comp  == 0 .. 1
Addr  == 0 .. K - 1
None  == <<>>

\* Word i of product n of accumulator x in round r; a sum is the sequence of its summands.
Word(r, x, n, i) == <<r, x, n, i>>

\* A delay line of n stages, newest value first, and what comes out of it.
Line(n, x)     == [i \in 1 .. n |-> x]
Shift(line, x) == <<x>> \o SubSeq(line, 1, Len(line) - 1)
Out(line)      == line[Len(line)]

\* The address counters run on by themselves until they have wrapped.
Counter(c, inc) == IF inc \/ c # 0 THEN (c + 1) % K ELSE 0

-----------------------------------------------------------------------------
\* Wires of accumulator x; `wen` are the accumulators a product enters in this cycle.
first(x, wen)      == x \in wen /\ ctr[x] = 0
ren(x)             == IF x = 0 THEN state_i = "ST_INTT_1" /\ start_read_q ELSE Out(ren_line)
start_read(x, wen) == ren(x) \/ (x \in wen /\ ~first(x, wen))
start_write(x)     == Out(wen_line[x])
bram_wen(x)        == start_write(x) \/ write_addr[x] # 0
wdone(x)           == write_addr[x] = K - 1
\* Mutant: the end of a read is seen while a write runs.
rdoneAny(x)        == read_addr[x] = K - 1
rdone(x)           == read_addr[x] = K - 1 /\ write_addr[x] = 0
done(x)            == wdone(x) \/ rdone(x)

\* Mutant: the first product is marked for its first word only.
NextFirstOnce(x, wen) == first(x, wen)
\* The first product of a round replaces the sum, for all its words.
NextFirst(x, wen) == first(x, wen) \/ (first_q[x] /\ ~wdone(x))

\* The registers of relin_accum; a[x] is the word on its input.
Accumulator(wen, a) ==
  /\ read_addr'  = [x \in Comp |-> Counter(read_addr[x], start_read(x, wen))]
  /\ write_addr' = [x \in Comp |-> Counter(write_addr[x], start_write(x))]
  /\ first_q'    = [x \in Comp |-> NextFirst(x, wen)]
  /\ o_valid_x'  = [x \in Comp |-> ren(x)]
  /\ wen_line'   = [x \in Comp |-> Shift(wen_line[x], x \in wen)]
  /\ A_q'        = a
  /\ dout'       = [x \in Comp |-> bram[x][read_addr[x]]]
  /\ add'        = [x \in Comp |-> Shift(add[x], (IF first_q[x] THEN None ELSE dout[x]) \o A_q[x])]
  /\ bram'       = [x \in Comp |-> IF bram_wen(x) THEN [bram[x] EXCEPT ![write_addr[x]] = Out(add[x])]
                                                  ELSE bram[x]]

-----------------------------------------------------------------------------
\* relin_accum_wrapper.

AllIn == state_i = "ST_NTT" /\ \A x \in Comp : ctr[x] = L

NextState ==
  CASE AllIn                            -> "ST_INTT_1"
    [] ren(0)                           -> "ST_INTT_2"
    [] state_i = "ST_INTT_2" /\ done(0) -> "ST_INTT_3"
    [] state_i = "ST_INTT_3" /\ done(1) -> "ST_NTT"
    [] OTHER                            -> state_i

NextCtr(x) ==
  CASE AllIn -> 0
    [] state_i = "ST_NTT" /\ ~AllIn /\ done(x) /\ ctr[x] < L -> ctr[x] + 1
    [] OTHER -> ctr[x]

\* Mutant: the request is cleared whenever the products are all in.
NextRequestCleared == Out(start_read_line) \/ (start_read_q /\ ~AllIn)
\* The request is kept until it is served, however early it came.
NextRequest == Out(start_read_line) \/ (start_read_q /\ ~ren(0))

\* The output follows accumulator 1 from its o_valid to the next o_valid of accumulator 0.
NextOutput ==
  CASE state_o = "ST_0" /\ o_valid_x[1] -> "ST_1"
    [] state_o = "ST_1" /\ o_valid_x[0] -> "ST_0"
    [] OTHER -> state_o

Wrapper(ask) ==
  /\ state_i' = NextState
  /\ ctr' = [x \in Comp |-> NextCtr(x)]
  /\ start_read_line' = Shift(start_read_line, ask)
  /\ start_read_q' = NextRequest
  /\ ren_line' = Shift(ren_line, state_i = "ST_INTT_2" /\ done(0))
  /\ state_o' = NextOutput
  /\ o_poly_d' = dout
  /\ o_valid_d' = o_valid_x

Selected == IF state_o = "ST_1" THEN 1 ELSE 0
o_valid  == o_valid_d[Selected]
o_poly   == o_poly_d[Selected]

-----------------------------------------------------------------------------
\* The units around. A product comes at any time after the one before, the request at
\* any time of the round; the next round begins when both accumulators are read.

Begins(x) == round < MaxRounds /\ given[x] < L /\ pos[x] = K + Gap
RoundOver == state_i = "ST_INTT_3" /\ done(1)

Units(wen, ask) ==
  /\ \A x \in wen : Begins(x)
  /\ ask => ~asked /\ round < MaxRounds
  /\ given' = [x \in Comp |-> CASE RoundOver -> 0
                                [] ~RoundOver /\ x \in wen -> given[x] + 1
                                [] OTHER -> given[x]]
  /\ pos' = [x \in Comp |-> CASE x \in wen -> 1
                              [] x \notin wen /\ pos[x] < K + Gap -> pos[x] + 1
                              [] OTHER -> pos[x]]
  /\ asked' = (~RoundOver /\ (asked \/ ask))
  /\ round' = IF RoundOver THEN round + 1 ELSE round

\* The NTT unit counts K words from o_valid on.
Takes == o_valid \/ out > 0
Take ==
  /\ out' = IF Takes THEN (out + 1) % K ELSE 0
  /\ taken' = IF Takes /\ out = K - 1 THEN taken + 1 ELSE taken

Clock(wen, ask) ==
  LET a == [x \in Comp |-> CASE x \in wen -> <<Word(round, x, given[x] + 1, 0)>>
                             [] x \notin wen /\ pos[x] < K -> <<Word(round, x, given[x], pos[x])>>
                             [] OTHER -> None]
  IN Units(wen, ask) /\ Take /\ Accumulator(wen, a) /\ Wrapper(ask)

Init ==
  /\ state_i = "ST_NTT" /\ ctr = [x \in Comp |-> 0]
  /\ start_read_line = Line(START_DELAY, FALSE) /\ start_read_q = FALSE
  /\ ren_line = Line(READ_DELAY, FALSE) /\ state_o = "ST_0"
  /\ o_poly_d = [x \in Comp |-> None] /\ o_valid_d = [x \in Comp |-> FALSE]
  /\ read_addr = [x \in Comp |-> 0] /\ write_addr = [x \in Comp |-> 0]
  /\ first_q = [x \in Comp |-> FALSE] /\ o_valid_x = [x \in Comp |-> FALSE]
  /\ wen_line = [x \in Comp |-> Line(ADD_LAT + 1, FALSE)]
  /\ A_q = [x \in Comp |-> None] /\ dout = [x \in Comp |-> None]
  /\ add = [x \in Comp |-> Line(ADD_LAT, None)]
  /\ bram = [x \in Comp |-> [i \in Addr |-> None]]
  /\ given = [x \in Comp |-> 0] /\ pos = [x \in Comp |-> K + Gap]
  /\ asked = FALSE /\ round = 0 /\ taken = 0 /\ out = 0

Next == \E wen \in SUBSET Comp, ask \in BOOLEAN : Clock(wen, ask)

\* The clock runs; nothing makes anyone give a product or ask for the sums.
Spec == Init /\ [][Next]_vars /\ WF_vars(Next)

-----------------------------------------------------------------------------
\* The sum of products 1 to n.
SumOf(r, x, n, i) == [k \in 1 .. n |-> Word(r, x, k, i)]

\* The counter of an accumulator that no product is entering or leaving is the number of
\* products in every word of its BRAM, none twice and none of the round before; the next
\* product is added to them, or replaces what is there when the counter is 0.
CountsProducts ==
  \A x \in Comp :
    LET quiet == pos[x] >= K /\ write_addr[x] = 0 /\ \A i \in 1 .. ADD_LAT + 1 : ~wen_line[x][i]
    IN quiet /\ state_i = "ST_NTT" =>
         /\ ctr[x] = given[x]
         /\ ctr[x] > 0 => \A i \in Addr : bram[x][i] = SumOf(round, x, ctr[x], i)

\* In the K cycles from o_valid on the output is the whole sum of the round, word by word,
\* of accumulator 0 first, and nothing else ever looks like it.
SumsRight ==
  Takes => o_poly = SumOf(taken \div 2, taken % 2, L, out) /\ (o_valid <=> out = 0)

\* When all products of a round are given and the sums are asked for, in whatever order and
\* as early as the request may come, both sums come out.
SumsDelivered ==
  \A r \in 0 .. MaxRounds - 1 :
    round = r /\ asked /\ (\A x \in Comp : given[x] = L) ~> taken >= 2 * r + 2
=============================================================================
