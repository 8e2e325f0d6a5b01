----------------------------- MODULE AccumProofs -----------------------------
(***************************************************************************)
(* Theorems about Accum for every number of products and words and every   *)
(* latency of the adder: the counters that are moved by nothing but        *)
(* themselves stay in step with the words, and both sums come out whole.   *)
(***************************************************************************)
EXTENDS Accum, Integers, SequenceTheorems, TLAPS

-----------------------------------------------------------------------------
(***************************************************************************)
(* Delay lines.                                                            *)
(***************************************************************************)
\* A delay line with the places d, when b comes in and what is in the last place goes out.
Moved(b, d, N) == [n \in 1 .. N |-> IF n = 1 THEN b ELSE d[n - 1]]

\* Whatever is in the places of a line, it moves by one.
LEMMA LineShift ==
  ASSUME NEW N \in Nat \ {0}, NEW l, l = [n \in 1 .. N |-> l[n]], NEW x
  PROVE  /\ Len(l) = N
         /\ <<x>> \o SubSeq(l, 1, Len(l) - 1) = Moved(x, l, N)
<1> DEFINE S == {x} \cup {l[n] : n \in 1 .. N}
           s == SubSeq(l, 1, N - 1)
           t == Moved(x, l, N)
<1>1. l \in [1 .. N -> S] /\ x \in S
  OBVIOUS
<1> HIDE DEF S
<1>2. l \in Seq(S) /\ Len(l) = N
  BY <1>1
<1>3. s \in Seq(S) /\ Len(s) = N - 1 /\ \A n \in 1 .. N - 1 : s[n] = l[n]
  BY <1>2, SubSeqProperties
<1>4. <<x>> \in Seq(S) /\ Len(<<x>>) = 1 /\ <<x>>[1] = x
  BY <1>1
<1>5. /\ <<x>> \o s \in Seq(S) /\ Len(<<x>> \o s) = N
      /\ \A n \in 1 .. N : (<<x>> \o s)[n] = IF n =< 1 THEN <<x>>[n] ELSE s[n - 1]
  <2> HIDE DEF s
  <2> QED
    BY <1>3, <1>4, ConcatProperties
<1>6. t \in Seq(S) /\ Len(t) = N
  <2>1. t \in [1 .. N -> S]
    BY <1>1 DEF Moved
  <2> QED
    BY <2>1
<1>7. \A n \in 1 .. N : (<<x>> \o s)[n] = t[n]
  BY <1>3, <1>4, <1>5 DEF Moved
<1> QED
  <2> HIDE DEF s, t
  <2>1. <<x>> \o s = t
    BY <1>5, <1>6, <1>7, SeqEqual
  <2> QED
    BY <1>2, <2>1 DEF s, t

-----------------------------------------------------------------------------
(***************************************************************************)
(* The inductive invariant. First, an accumulator while products are given:*)
(* all its counters follow from how many words of the product have come.   *)
(***************************************************************************)
\* The last word of the product given last has been written.
Left(x) == K + ADD_LAT < pos[x]

Shape ==
  /\ state_i \in {"ST_NTT", "ST_INTT_1", "ST_INTT_2", "ST_INTT_3"} /\ state_o \in {"ST_0", "ST_1"}
  /\ given \in [Comp -> 0 .. L] /\ pos \in [Comp -> 1 .. K + Gap] /\ ctr \in [Comp -> Nat]
  /\ read_addr \in [Comp -> Addr] /\ write_addr \in [Comp -> Addr]
  /\ wen_line \in [Comp -> [1 .. ADD_LAT + 1 -> BOOLEAN]] /\ ren_line \in [1 .. READ_DELAY -> BOOLEAN]
  /\ add = [x \in Comp |-> [n \in 1 .. ADD_LAT |-> add[x][n]]]
  /\ bram = [x \in Comp |-> [i \in Addr |-> bram[x][i]]]
  /\ round \in Nat /\ taken \in Nat /\ out \in Addr

Product(x) ==
  /\ ~Left(x) => given[x] > 0 /\ state_i = "ST_NTT"
  /\ \A i \in 1 .. ADD_LAT + 1 : wen_line[x][i] <=> pos[x] = i
  /\ write_addr[x] = IF ADD_LAT + 1 < pos[x] /\ ~Left(x) THEN pos[x] - (ADD_LAT + 1) ELSE 0
  /\ first_q[x] <=> ~Left(x) /\ given[x] = 1
  /\ state_i = "ST_NTT" => /\ ctr[x] = IF Left(x) THEN given[x] ELSE given[x] - 1
                           /\ read_addr[x] = IF pos[x] < K /\ given[x] > 1 THEN pos[x] ELSE 0
  /\ state_i # "ST_NTT" => ctr[x] = 0 /\ given[x] = L

\* What is on the way from the input to the BRAM, and in the BRAM.
Data(x) ==
  /\ pos[x] =< K => A_q[x] = <<Word(round, x, given[x], pos[x] - 1)>>
  /\ pos[x] =< K /\ given[x] > 1 => dout[x] = SumOf(round, x, given[x] - 1, pos[x] - 1)
  /\ \A i \in 1 .. ADD_LAT :
       i < pos[x] /\ pos[x] =< K + i => add[x][i] = SumOf(round, x, given[x], pos[x] - (i + 1))
  /\ \A j \in Addr : given[x] > 0 /\ j + (ADD_LAT + 1) < pos[x] =>
       bram[x][j] = SumOf(round, x, given[x], j)
  /\ \A j \in Addr : given[x] > 1 /\ pos[x] =< j + (ADD_LAT + 1) =>
       bram[x][j] = SumOf(round, x, given[x] - 1, j)

(***************************************************************************)
(* Then the two accumulators while they are read, and the output.          *)
(***************************************************************************)
\* The accumulator that is read, or is read next, how far, and the sums read to the end.
Reader == IF state_i = "ST_INTT_3" THEN 1 ELSE 0
Read   == IF state_i \in {"ST_INTT_2", "ST_INTT_3"} THEN read_addr[Reader] ELSE 0
Ended  == 2 * round + Reader

Reading ==
  /\ state_i = "ST_INTT_1" => read_addr[0] = 0 /\ read_addr[1] = 0
  /\ state_i = "ST_INTT_2" => read_addr[0] # 0 /\ read_addr[1] = 0
  /\ state_i = "ST_INTT_3" => read_addr[0] = 0
  /\ \A i, j \in 1 .. READ_DELAY : ren_line[i] /\ ren_line[j] => i = j
  /\ \A i \in 1 .. READ_DELAY : ren_line[i] => state_i = "ST_INTT_3" /\ read_addr[1] = 0

Valid ==
  /\ o_valid_x[0] <=> state_i = "ST_INTT_2" /\ Read = 1
  /\ o_valid_x[1] <=> state_i = "ST_INTT_3" /\ Read = 1
  /\ o_valid_d[0] <=> state_i = "ST_INTT_2" /\ Read = 2
  /\ o_valid_d[1] <=> state_i = "ST_INTT_3" /\ Read = 2
  /\ state_o = "ST_1" <=> IF state_i = "ST_INTT_3" THEN Read > 1 ELSE round > 0 /\ Read =< 1

\* The words in the last stages.
Stages ==
  /\ Read > 0 => dout[Reader] = SumOf(round, Reader, L, Read - 1)
  /\ Read > 1 => o_poly_d[Reader] = SumOf(round, Reader, L, Read - 2) /\ taken = Ended /\ out = Read - 2

\* The last two words of a sum come out when the accumulator is no longer read.
LastWords(r, x) ==
  /\ taken + 1 = Ended /\ out \in {K - 2, K - 1}
  /\ o_poly_d[x] = SumOf(r, x, L, out)
  /\ out = K - 2 => dout[x] = SumOf(r, x, L, K - 1)

Output ==
  Read =< 1 =>
    \/ taken = Ended /\ out = 0
    \/ state_i = "ST_INTT_3" /\ LastWords(round, 0) /\ (out = K - 2 => Read = 0)
    \/ state_i = "ST_NTT" /\ LastWords(round - 1, 1) /\ ctr[0] = 0 /\ (out = K - 2 => given[0] = 0)

IInv == Shape /\ (\A x \in Comp : Product(x) /\ Data(x)) /\ Reading /\ Valid /\ Stages /\ Output

-----------------------------------------------------------------------------
(***************************************************************************)
(* Where the counters stand.                                               *)
(***************************************************************************)
Numbers == K \in Nat /\ ADD_LAT \in Nat \ {0} /\ K > ADD_LAT + 2 /\ Gap \in Nat /\ Gap > ADD_LAT /\ L \in Nat \ {0}

\* What the assumptions on the constants say as numbers.
LEMMA ConstantsFit == Numbers
BY WordsAssumption, GapAssumption, BoundAssumption DEF Numbers

\* The end of a write is seen when the last word is written, and the end of a read is not taken
\* for it: by the time the last word is read the first has long been written.
LEMMA DoneMeans ==
  ASSUME Shape, NEW x \in Comp, Product(x)
  PROVE  /\ start_write(x) <=> pos[x] = ADD_LAT + 1
         /\ bram_wen(x) <=> ADD_LAT < pos[x] /\ ~Left(x)
         /\ wdone(x) <=> pos[x] = K + ADD_LAT
         /\ state_i = "ST_NTT" => (done(x) <=> pos[x] = K + ADD_LAT)
         /\ state_i # "ST_NTT" => (done(x) <=> read_addr[x] = K - 1)
<1>1. Numbers
  BY ConstantsFit
<1>2. PICK p \in 1 .. K + Gap : p = pos[x]
  BY DEF Shape
<1>3. PICK w \in Addr : w = write_addr[x]
  BY DEF Shape
<1>4. PICK a \in Addr : a = read_addr[x]
  BY DEF Shape
<1>5. PICK g \in 0 .. L : g = given[x]
  BY DEF Shape
<1>6. Left(x) <=> K + ADD_LAT < p
  BY <1>2 DEF Left
<1>7. w = IF ADD_LAT + 1 < p /\ ~(K + ADD_LAT < p) THEN p - (ADD_LAT + 1) ELSE 0
  BY <1>2, <1>3, <1>6 DEF Product
<1>8. start_write(x) <=> p = ADD_LAT + 1
  <2>1. wen_line[x] \in [1 .. ADD_LAT + 1 -> BOOLEAN] /\ ADD_LAT + 1 \in Nat \ {0} /\ ADD_LAT + 1 \in 1 .. ADD_LAT + 1
    BY <1>1 DEF Shape, Numbers
  <2>2. Len(wen_line[x]) = ADD_LAT + 1
    BY <2>1
  <2> QED
    BY <1>2, <2>1, <2>2 DEF start_write, Out, Product
<1>9. bram_wen(x) <=> ADD_LAT < p /\ ~(K + ADD_LAT < p)
  BY <1>1, <1>3, <1>7, <1>8 DEF bram_wen, Numbers
<1>10. wdone(x) <=> p = K + ADD_LAT
  BY <1>1, <1>3, <1>7 DEF wdone, Numbers
<1>11. rdone(x) <=> a = K - 1 /\ w = 0
  BY <1>3, <1>4 DEF rdone
<1>12. CASE state_i = "ST_NTT"
  <2>1. a = IF p < K /\ g > 1 THEN p ELSE 0
    BY <1>2, <1>4, <1>5, <1>12 DEF Product
  <2>2. ~rdone(x)
    BY <1>1, <1>7, <1>11, <2>1 DEF Numbers
  <2> QED
    BY <1>2, <1>6, <1>8, <1>9, <1>10, <1>12, <2>2 DEF done
<1>13. CASE state_i # "ST_NTT"
  <2>1. K + ADD_LAT < p
    BY <1>6, <1>13 DEF Product
  <2>2. w = 0 /\ p # K + ADD_LAT
    BY <1>1, <1>7, <2>1 DEF Numbers
  <2> QED
    BY <1>2, <1>4, <1>6, <1>8, <1>9, <1>10, <1>11, <1>13, <2>2 DEF done
<1> QED
  BY <1>12, <1>13

\* A product begins only in ST_NTT, when the one before has left; the state machine leaves ST_NTT
\* when all have left.
LEMMA BeginsThen ==
  ASSUME Shape, NEW x \in Comp, Product(x), Begins(x)
  PROVE  /\ Left(x) /\ state_i = "ST_NTT" /\ ctr[x] = given[x] /\ given[x] < L /\ pos[x] = K + Gap
         /\ ~AllIn /\ ~RoundOver
<1>1. pos[x] = K + Gap /\ given[x] < L /\ given[x] \in Nat
  BY BoundAssumption DEF Begins, Shape
<1>2. Left(x)
  BY <1>1, ConstantsFit DEF Left, Numbers
<1>3. state_i = "ST_NTT"
  BY <1>1, BoundAssumption DEF Product
<1>4. ctr[x] = given[x]
  BY <1>2, <1>3 DEF Product
<1> QED
  BY <1>1, <1>2, <1>3, <1>4, BoundAssumption DEF AllIn, RoundOver

\* When all products are in, none is on its way through the accumulator and none begins.
LEMMA AllInThen ==
  ASSUME Shape, NEW x \in Comp, Product(x), AllIn
  PROVE  Left(x) /\ given[x] = L /\ ~Begins(x)
<1>1. PICK g \in 0 .. L : g = given[x]
  BY DEF Shape
<1>2. state_i = "ST_NTT" /\ ctr[x] = L
  BY DEF AllIn
<1>3. L = IF Left(x) THEN g ELSE g - 1
  BY <1>1, <1>2 DEF Product
<1> QED
  BY <1>1, <1>3, BoundAssumption DEF Begins

\* Where the state machine goes.
LEMMA StateMoves ==
  ASSUME IInv, NEW wen \in SUBSET Comp, NEW ask \in BOOLEAN, Clock(wen, ask)
  PROVE  /\ state_i = "ST_NTT" => state_i' = IF AllIn THEN "ST_INTT_1" ELSE "ST_NTT"
         /\ state_i = "ST_INTT_1" => state_i' = IF ren(0) THEN "ST_INTT_2" ELSE "ST_INTT_1"
         /\ state_i = "ST_INTT_2" => state_i' = IF read_addr[0] = K - 1 THEN "ST_INTT_3" ELSE "ST_INTT_2"
         /\ state_i = "ST_INTT_3" => state_i' = IF read_addr[1] = K - 1 THEN "ST_NTT" ELSE "ST_INTT_3"
         /\ RoundOver <=> state_i = "ST_INTT_3" /\ read_addr[1] = K - 1
         /\ AllIn => state_i = "ST_NTT" /\ wen = {}
         /\ state_i # "ST_NTT" => wen = {}
         /\ ren(0) => state_i = "ST_INTT_1"
<1>1. Shape /\ Product(0) /\ Product(1) /\ 0 \in Comp /\ 1 \in Comp
  BY DEF IInv, Comp
<1>2. state_i' = NextState
  BY DEF Clock, Wrapper
<1>3. ren(0) <=> state_i = "ST_INTT_1" /\ start_read_q
  BY DEF ren
<1>4. AllIn => state_i = "ST_NTT"
  BY DEF AllIn
<1>5. state_i # "ST_NTT" => (done(0) <=> read_addr[0] = K - 1) /\ (done(1) <=> read_addr[1] = K - 1)
  BY <1>1, DoneMeans
<1>6. RoundOver <=> state_i = "ST_INTT_3" /\ read_addr[1] = K - 1
  BY <1>5 DEF RoundOver
<1>7. \A x \in wen : Begins(x) /\ x \in Comp /\ Product(x)
  BY DEF Clock, Units, IInv
<1>8. AllIn => wen = {}
  BY <1>1, <1>7, BeginsThen
<1>9. state_i # "ST_NTT" => wen = {}
  BY <1>1, <1>7, BeginsThen
<1> QED
  BY <1>2, <1>3, <1>4, <1>5, <1>6, <1>8, <1>9 DEF NextState

\* A product that begins is followed along the pipeline.
LEMMA WenMoves ==
  ASSUME IInv, NEW wen \in SUBSET Comp, NEW ask \in BOOLEAN, Clock(wen, ask), NEW x \in Comp
  PROVE  \A i \in 1 .. ADD_LAT + 1 : wen_line'[x][i] <=> IF i = 1 THEN x \in wen ELSE wen_line[x][i - 1]
<1>1. wen_line[x] = [n \in 1 .. ADD_LAT + 1 |-> wen_line[x][n]] /\ ADD_LAT + 1 \in Nat \ {0}
  BY ConstantsFit DEF IInv, Shape, Numbers
<1>2. wen_line'[x] = <<x \in wen>> \o SubSeq(wen_line[x], 1, Len(wen_line[x]) - 1)
  BY DEF Clock, Accumulator, Shift
<1>3. wen_line'[x] = Moved(x \in wen, wen_line[x], ADD_LAT + 1)
  BY <1>1, <1>2, LineShift
<1> QED
  BY <1>3 DEF Moved

\* What an edge does to the counters of an accumulator.
LEMMA CountersMove ==
  ASSUME IInv, NEW wen \in SUBSET Comp, NEW ask \in BOOLEAN, Clock(wen, ask), NEW x \in Comp
  PROVE  /\ x \in wen => Begins(x)
         /\ pos'[x] = IF x \in wen THEN 1 ELSE IF pos[x] < K + Gap THEN pos[x] + 1 ELSE pos[x]
         /\ given'[x] = IF RoundOver THEN 0 ELSE IF x \in wen THEN given[x] + 1 ELSE given[x]
         /\ ctr'[x] = IF state_i = "ST_NTT" /\ ~AllIn
                      THEN IF pos[x] = K + ADD_LAT THEN ctr[x] + 1 ELSE ctr[x]
                      ELSE 0
         /\ write_addr'[x] = IF ADD_LAT < pos[x] /\ ~Left(x) THEN (write_addr[x] + 1) % K ELSE 0
         /\ first_q'[x] <=> (x \in wen /\ given[x] = 0) \/ (first_q[x] /\ pos[x] # K + ADD_LAT)
<1>1. Shape /\ Product(x)
  BY DEF IInv
<1>2. x \in wen => Begins(x)
  BY DEF Clock, Units
<1>3. pos'[x] = IF x \in wen THEN 1 ELSE IF pos[x] < K + Gap THEN pos[x] + 1 ELSE pos[x]
  BY DEF Clock, Units
<1>4. given'[x] = IF RoundOver THEN 0 ELSE IF x \in wen THEN given[x] + 1 ELSE given[x]
  BY DEF Clock, Units
<1>5. ctr'[x] = IF state_i = "ST_NTT" /\ ~AllIn
                THEN IF pos[x] = K + ADD_LAT THEN ctr[x] + 1 ELSE ctr[x]
                ELSE 0
  <2>1. ctr'[x] = NextCtr(x)
    BY DEF Clock, Wrapper
  <2>2. CASE AllIn
    BY <2>1, <2>2 DEF NextCtr
  <2>3. CASE state_i # "ST_NTT"
    BY <1>1, <2>1, <2>3 DEF NextCtr, Product, AllIn
  <2>4. CASE state_i = "ST_NTT" /\ ~AllIn
    <3>1. done(x) <=> pos[x] = K + ADD_LAT
      BY <1>1, <2>4, DoneMeans
    <3>2. pos[x] = K + ADD_LAT => ctr[x] < L
      <4>1. PICK g \in 0 .. L : g = given[x]
        BY <1>1 DEF Shape
      <4>2. PICK p \in 1 .. K + Gap : p = pos[x]
        BY <1>1 DEF Shape
      <4>3. p = K + ADD_LAT => ctr[x] = g - 1
        BY <1>1, <2>4, <4>1, <4>2, ConstantsFit DEF Product, Left, Numbers
      <4> QED
        BY <4>1, <4>2, <4>3, ConstantsFit DEF Numbers
    <3> QED
      BY <2>1, <2>4, <3>1, <3>2 DEF NextCtr
  <2> QED
    BY <2>2, <2>3, <2>4
<1>6. write_addr'[x] = IF ADD_LAT < pos[x] /\ ~Left(x) THEN (write_addr[x] + 1) % K ELSE 0
  <2>1. write_addr'[x] = Counter(write_addr[x], start_write(x))
    BY DEF Clock, Accumulator
  <2>2. bram_wen(x) <=> ADD_LAT < pos[x] /\ ~Left(x)
    BY <1>1, DoneMeans
  <2> QED
    BY <2>1, <2>2 DEF Counter, bram_wen
<1>7. first_q'[x] <=> (x \in wen /\ given[x] = 0) \/ (first_q[x] /\ pos[x] # K + ADD_LAT)
  <2>1. first_q'[x] <=> NextFirst(x, wen)
    BY DEF Clock, Accumulator
  <2>2. x \in wen => ctr[x] = given[x]
    BY <1>1, <1>2, BeginsThen
  <2>3. wdone(x) <=> pos[x] = K + ADD_LAT
    BY <1>1, DoneMeans
  <2> QED
    BY <2>1, <2>2, <2>3 DEF NextFirst, first
<1> QED
  BY <1>2, <1>3, <1>4, <1>5, <1>6, <1>7

\* What an edge does to a read address.
LEMMA ReadMoves ==
  ASSUME IInv, NEW wen \in SUBSET Comp, NEW ask \in BOOLEAN, Clock(wen, ask), NEW x \in Comp
  PROVE  /\ read_addr'[x] = IF ren(x) \/ (x \in wen /\ given[x] # 0) \/ read_addr[x] # 0
                            THEN (read_addr[x] + 1) % K ELSE 0
         /\ \A i \in 1 .. READ_DELAY : ren_line'[i] <=> IF i = 1 THEN state_i = "ST_INTT_2" /\ read_addr[0] = K - 1
                                                                 ELSE ren_line[i - 1]
         /\ ren(1) <=> ren_line[READ_DELAY]
         /\ o_valid_x'[x] <=> ren(x)
         /\ ren(x) => state_i = (IF x = 0 THEN "ST_INTT_1" ELSE "ST_INTT_3") /\ read_addr[x] = 0
<1>1. Shape /\ Product(0) /\ Product(x) /\ 0 \in Comp
  BY DEF IInv, Comp
<1>2. READ_DELAY \in Nat \ {0} /\ READ_DELAY \in 1 .. READ_DELAY
  BY DelayAssumption
<1>3. ren_line = [n \in 1 .. READ_DELAY |-> ren_line[n]] /\ Len(ren_line) = READ_DELAY
  BY <1>1, <1>2 DEF Shape
<1>4. ren(1) <=> ren_line[READ_DELAY]
  <2>1. ren(1) = Out(ren_line)
    BY DEF ren
  <2>2. Out(ren_line) = ren_line[READ_DELAY]
    BY <1>3 DEF Out
  <2> QED
    BY <2>1, <2>2, Zenon
<1>5. read_addr'[x] = IF ren(x) \/ (x \in wen /\ given[x] # 0) \/ read_addr[x] # 0
                      THEN (read_addr[x] + 1) % K ELSE 0
  <2>1. read_addr'[x] = Counter(read_addr[x], start_read(x, wen))
    BY DEF Clock, Accumulator
  <2>2. x \in wen => ctr[x] = given[x]
    BY <1>1, BeginsThen DEF Clock, Units
  <2> QED
    BY <2>1, <2>2 DEF Counter, start_read, first
<1>6. \A i \in 1 .. READ_DELAY : ren_line'[i] <=> IF i = 1 THEN state_i = "ST_INTT_2" /\ read_addr[0] = K - 1
                                                           ELSE ren_line[i - 1]
  <2> DEFINE b == state_i = "ST_INTT_2" /\ done(0)
  <2>1. ren_line' = <<b>> \o SubSeq(ren_line, 1, Len(ren_line) - 1)
    BY DEF Clock, Wrapper, Shift
  <2>2. ren_line' = Moved(b, ren_line, READ_DELAY)
    <3> HIDE DEF b
    <3> QED
      BY <1>2, <1>3, <2>1, LineShift
  <2>3. b <=> state_i = "ST_INTT_2" /\ read_addr[0] = K - 1
    BY <1>1, DoneMeans
  <2> HIDE DEF b
  <2> QED
    BY <2>2, <2>3 DEF Moved
<1>7. o_valid_x'[x] <=> ren(x)
  BY DEF Clock, Accumulator
<1>8. ren(x) => state_i = (IF x = 0 THEN "ST_INTT_1" ELSE "ST_INTT_3") /\ read_addr[x] = 0
  <2>1. ren(0) => state_i = "ST_INTT_1"
    BY DEF ren
  <2>2. ren(1) => state_i = "ST_INTT_3" /\ read_addr[1] = 0
    BY <1>2, <1>4 DEF IInv, Reading
  <2> QED
    BY <2>1, <2>2 DEF Comp, IInv, Reading
<1> QED
  BY <1>4, <1>5, <1>6, <1>7, <1>8

\* A counter modulo k wraps after k - 1.
LEMMA Wraps ==
  ASSUME NEW k \in Nat \ {0}, NEW i \in 0 .. k - 1
  PROVE  (i + 1) % k = IF i = k - 1 THEN 0 ELSE i + 1
<1>1. CASE i = k - 1
  BY <1>1
<1>2. CASE i # k - 1
  BY <1>2
<1> QED
  BY <1>1, <1>2

\* The counters of an accumulator follow the words of the product.
LEMMA ProductStep ==
  ASSUME IInv, NEW wen \in SUBSET Comp, NEW ask \in BOOLEAN, Clock(wen, ask), NEW x \in Comp
  PROVE  Product(x)'
<1>1. Shape /\ Product(x) /\ Numbers
  BY ConstantsFit DEF IInv
<1>2. PICK p \in 1 .. K + Gap : p = pos[x]
  BY <1>1 DEF Shape
<1>3. PICK g \in 0 .. L : g = given[x]
  BY <1>1 DEF Shape
<1>4. PICK w \in Addr : w = write_addr[x]
  BY <1>1 DEF Shape
<1>5. PICK a \in Addr : a = read_addr[x]
  BY <1>1 DEF Shape
<1>6. Left(x) <=> K + ADD_LAT < p
  BY <1>2 DEF Left
<1>7. Left(x)' <=> K + ADD_LAT < pos'[x]
  BY DEF Left
<1>8. w = IF ADD_LAT + 1 < p /\ ~(K + ADD_LAT < p) THEN p - (ADD_LAT + 1) ELSE 0
  BY <1>1, <1>2, <1>4, <1>6 DEF Product
<1>9. write_addr'[x] = IF ADD_LAT < p /\ ~(K + ADD_LAT < p) /\ w # K - 1 THEN w + 1 ELSE 0
  <2>1. (w + 1) % K = IF w = K - 1 THEN 0 ELSE w + 1
    BY <1>1, Wraps DEF Addr, Numbers
  <2> QED
    BY <1>2, <1>4, <1>6, <2>1, CountersMove
<1>10. read_addr'[x] = IF (ren(x) \/ (x \in wen /\ g # 0) \/ a # 0) /\ a # K - 1 THEN a + 1 ELSE 0
  <2>1. (a + 1) % K = IF a = K - 1 THEN 0 ELSE a + 1
    BY <1>1, Wraps DEF Addr, Numbers
  <2>2. read_addr'[x] = IF ren(x) \/ (x \in wen /\ g # 0) \/ a # 0 THEN (a + 1) % K ELSE 0
    BY <1>3, <1>5, ReadMoves
  <2> QED
    BY <2>1, <2>2
<1>11. /\ first_q'[x] <=> (x \in wen /\ g = 0) \/ (first_q[x] /\ p # K + ADD_LAT)
       /\ \A i \in 1 .. ADD_LAT + 1 : wen_line'[x][i] <=> IF i = 1 THEN x \in wen ELSE wen_line[x][i - 1]
  <2>1. first_q'[x] <=> (x \in wen /\ given[x] = 0) \/ (first_q[x] /\ pos[x] # K + ADD_LAT)
    BY CountersMove
  <2>2. \A i \in 1 .. ADD_LAT + 1 : wen_line'[x][i] <=> IF i = 1 THEN x \in wen ELSE wen_line[x][i - 1]
    BY WenMoves
  <2> QED
    BY <1>2, <1>3, <2>1, <2>2
<1>12. first_q[x] <=> ~(K + ADD_LAT < p) /\ g = 1
  BY <1>1, <1>3, <1>6 DEF Product
<1>a. pos'[x] = IF x \in wen THEN 1 ELSE IF p < K + Gap THEN p + 1 ELSE p
  <2>1. pos'[x] = IF x \in wen THEN 1 ELSE IF pos[x] < K + Gap THEN pos[x] + 1 ELSE pos[x]
    BY DEF Clock, Units
  <2> QED
    BY <1>2, <2>1
<1>b. given'[x] = IF RoundOver THEN 0 ELSE IF x \in wen THEN g + 1 ELSE g
  <2>1. given'[x] = IF RoundOver THEN 0 ELSE IF x \in wen THEN given[x] + 1 ELSE given[x]
    BY CountersMove
  <2> QED
    BY <1>3, <2>1
<1>c. ctr'[x] = IF state_i = "ST_NTT" /\ ~AllIn
                THEN IF p = K + ADD_LAT THEN ctr[x] + 1 ELSE ctr[x]
                ELSE 0
  <2>1. ctr'[x] = IF state_i = "ST_NTT" /\ ~AllIn
                  THEN IF pos[x] = K + ADD_LAT THEN ctr[x] + 1 ELSE ctr[x]
                  ELSE 0
    BY CountersMove
  <2> QED
    BY <1>2, <2>1
<1>d. state_i = "ST_NTT" => ~ren(x)
  BY ReadMoves
<1>13. CASE x \in wen
  <2>1. Left(x) /\ state_i = "ST_NTT" /\ ctr[x] = g /\ g < L /\ p = K + Gap /\ ~AllIn /\ ~RoundOver
    BY <1>1, <1>2, <1>3, <1>13, BeginsThen DEF Clock, Units
  <2>2. pos'[x] = 1 /\ given'[x] = g + 1 /\ ctr'[x] = g /\ state_i' = "ST_NTT"
    <3>1. p # K + ADD_LAT
      BY <1>1, <2>1 DEF Numbers
    <3> QED
      BY <1>13, <1>a, <1>b, <1>c, <2>1, <3>1, StateMoves
  <2>3. ~Left(x)'
    BY <1>1, <1>7, <2>2 DEF Numbers
  <2>4. \A i \in 1 .. ADD_LAT + 1 : wen_line'[x][i] <=> pos'[x] = i
    <3>1. \A i \in 1 .. ADD_LAT + 1 : i # 1 => i - 1 \in 1 .. ADD_LAT + 1 /\ i - 1 # p
      BY <1>1, <2>1 DEF Numbers
    <3>2. \A i \in 1 .. ADD_LAT + 1 : i # 1 => ~wen_line[x][i - 1]
      BY <1>1, <1>2, <3>1 DEF Product
    <3> QED
      BY <1>11, <1>13, <2>2, <3>2
  <2>5. write_addr'[x] = 0
    BY <1>9, <1>6, <2>1
  <2>6. first_q'[x] <=> given'[x] = 1
    BY <1>3, <1>6, <1>11, <1>12, <1>13, <2>1, <2>2
  <2>7. a = 0 /\ ~ren(x)
    BY <1>1, <1>2, <1>3, <1>5, <1>d, <2>1 DEF Product, Numbers
  <2>8. read_addr'[x] = IF given'[x] > 1 THEN 1 ELSE 0
    BY <1>1, <1>3, <1>10, <1>13, <2>2, <2>7 DEF Numbers
  <2> QED
    BY <1>1, <1>3, <2>2, <2>3, <2>4, <2>5, <2>6, <2>8 DEF Product, Numbers
<1>14. CASE x \notin wen
  <2>1. PICK n \in 1 .. K + Gap : n = (IF p < K + Gap THEN p + 1 ELSE p)
    BY <1>1 DEF Numbers
  <2>2. pos'[x] = n /\ given'[x] = IF RoundOver THEN 0 ELSE g
    BY <1>14, <1>a, <1>b, <2>1
  <2>3. Left(x)' <=> K + ADD_LAT < n
    BY <1>7, <2>2
  <2>4. ~(K + ADD_LAT < p) => n = p + 1 /\ g > 0 /\ state_i = "ST_NTT"
    BY <1>1, <1>3, <1>6, <2>1 DEF Product, Numbers
  <2>5. K + ADD_LAT < p => K + ADD_LAT < n
    BY <1>1, <2>1 DEF Numbers
  <2>6. \A i \in 1 .. ADD_LAT + 1 : wen_line'[x][i] <=> pos'[x] = i
    <3>1. \A i \in 1 .. ADD_LAT + 1 : i # 1 => i - 1 \in 1 .. ADD_LAT + 1 /\ (i - 1 = p <=> n = i)
      BY <1>1, <2>1 DEF Numbers
    <3>2. \A i \in 1 .. ADD_LAT + 1 : i # 1 => (wen_line[x][i - 1] <=> p = i - 1)
      BY <1>1, <1>2, <3>1 DEF Product
    <3>3. n # 1
      BY <1>1, <2>1 DEF Numbers
    <3> QED
      BY <1>11, <1>14, <2>2, <3>1, <3>2, <3>3
  <2>7. write_addr'[x] = IF ADD_LAT + 1 < n /\ ~(K + ADD_LAT < n) THEN n - (ADD_LAT + 1) ELSE 0
    BY <1>1, <1>8, <1>9, <2>1 DEF Numbers, Addr
  <2>8. CASE ~(K + ADD_LAT < p)
    <3>1. ~AllIn /\ ~RoundOver
      BY <1>1, <1>6, <2>4, <2>8, AllInThen DEF RoundOver
    <3>2. state_i = "ST_NTT" /\ state_i' = "ST_NTT" /\ given'[x] = g /\ pos'[x] = p + 1 /\ n = p + 1
      BY <2>2, <2>4, <2>8, <3>1, StateMoves
    <3>3. ctr'[x] = IF p = K + ADD_LAT THEN g ELSE g - 1
      <4>1. ctr[x] = g - 1
        BY <1>1, <1>3, <1>6, <2>4, <2>8 DEF Product
      <4> QED
        BY <1>3, <1>c, <2>4, <2>8, <3>1, <4>1
    <3>4. first_q'[x] <=> ~(K + ADD_LAT < p + 1) /\ g = 1
      BY <1>1, <1>11, <1>12, <1>14, <2>8 DEF Numbers
    <3>5. a = (IF p < K /\ g > 1 THEN p ELSE 0) /\ ~ren(x)
      BY <1>1, <1>2, <1>3, <1>5, <1>d, <3>2 DEF Product
    <3>6. read_addr'[x] = IF p + 1 < K /\ g > 1 THEN p + 1 ELSE 0
      BY <1>1, <1>10, <1>14, <3>5 DEF Numbers
    <3>7. ctr'[x] = IF Left(x)' THEN g ELSE g - 1
      BY <1>1, <2>3, <2>8, <3>2, <3>3 DEF Numbers
    <3> QED
      BY <1>1, <2>2, <2>3, <2>4, <2>6, <2>7, <2>8, <3>2, <3>4, <3>6, <3>7 DEF Product
  <2>9. CASE K + ADD_LAT < p
    <3>1. Left(x)'
      BY <2>3, <2>5, <2>9
    <3>2. ~first_q'[x]
      BY <1>11, <1>12, <1>14, <2>9
    <3>3. CASE state_i = "ST_NTT"
      <4>1. ctr[x] = g /\ ~RoundOver /\ given'[x] = g
        BY <1>1, <1>3, <1>6, <2>2, <2>9, <3>3 DEF Product, RoundOver
      <4>2. p # K + ADD_LAT
        BY <1>1, <2>9 DEF Numbers
      <4>3. ctr'[x] = IF AllIn THEN 0 ELSE g
        BY <1>c, <3>3, <4>1, <4>2
      <4>4. AllIn => g = L
        BY <4>1 DEF AllIn
      <4>5. state_i' = IF AllIn THEN "ST_INTT_1" ELSE "ST_NTT"
        BY <3>3, StateMoves
      <4>6. a = 0 /\ ~ren(x)
        BY <1>1, <1>2, <1>3, <1>5, <1>d, <2>9, <3>3 DEF Product, Numbers
      <4>7. read_addr'[x] = 0 /\ ~(n < K)
        BY <1>1, <1>10, <1>14, <2>5, <2>9, <4>6 DEF Numbers
      <4> QED
        BY <2>2, <2>3, <2>6, <2>7, <3>1, <3>2, <4>1, <4>3, <4>4, <4>5, <4>7 DEF Product
    <3>4. CASE state_i # "ST_NTT"
      <4>1. g = L /\ ctr'[x] = 0
        BY <1>1, <1>3, <1>c, <3>4 DEF Product
      <4>2. RoundOver <=> state_i' = "ST_NTT"
        BY <1>1, <3>4, StateMoves DEF Shape
      <4>3. given'[x] = IF state_i' = "ST_NTT" THEN 0 ELSE L
        BY <2>2, <4>1, <4>2
      <4>4. state_i' = "ST_NTT" => read_addr'[x] = 0
        <5> SUFFICES ASSUME state_i' = "ST_NTT" PROVE read_addr'[x] = 0
          OBVIOUS
        <5>1. state_i = "ST_INTT_3" /\ read_addr[1] = K - 1
          BY <4>2, StateMoves
        <5>2. K - 1 # 0
          BY <1>1 DEF Numbers
        <5>3. read_addr[0] = 0 /\ ~ren(0)
          BY <5>1, StateMoves DEF IInv, Reading
        <5>4. ~ren(x) /\ a \in {0, K - 1}
          <6>1. ren(1) => read_addr[1] = 0
            BY ReadMoves DEF Comp
          <6> QED
            BY <1>5, <5>1, <5>2, <5>3, <6>1 DEF Comp
        <5> QED
          BY <1>10, <1>14, <5>4
      <4> QED
        BY <1>1, <2>2, <2>3, <2>6, <2>7, <3>1, <3>2, <4>1, <4>3, <4>4 DEF Product, Numbers
    <3> QED
      BY <3>3, <3>4
  <2> QED
    BY <2>8, <2>9
<1> QED
  BY <1>13, <1>14

-----------------------------------------------------------------------------
(***************************************************************************)
(* What is added and where it is written.                                  *)
(***************************************************************************)
\* A sum grows by the word that comes.
LEMMA SumGrows ==
  ASSUME NEW r, NEW x, NEW n \in Nat \ {0}, NEW i
  PROVE  /\ SumOf(r, x, n - 1, i) \o <<Word(r, x, n, i)>> = SumOf(r, x, n, i)
         /\ n = 1 => None \o <<Word(r, x, n, i)>> = SumOf(r, x, n, i)
<1> DEFINE S == {Word(r, x, k, i) : k \in Nat}
           s == SumOf(r, x, n - 1, i)
           t == <<Word(r, x, n, i)>>
           u == SumOf(r, x, n, i)
<1>1. n - 1 \in Nat /\ n \in Nat
  OBVIOUS
<1>2. s \in Seq(S) /\ Len(s) = n - 1
  <2>1. s \in [1 .. n - 1 -> S]
    BY DEF SumOf
  <2> QED
    BY <1>1, <2>1
<1>3. u \in Seq(S) /\ Len(u) = n
  <2>1. u \in [1 .. n -> S]
    BY DEF SumOf
  <2> QED
    BY <1>1, <2>1
<1>4. t \in Seq(S) /\ Len(t) = 1 /\ t[1] = Word(r, x, n, i)
  <2>1. Word(r, x, n, i) \in S
    BY <1>1
  <2> HIDE DEF S
  <2> QED
    BY <2>1
<1>5. /\ s \o t \in Seq(S) /\ Len(s \o t) = n
      /\ \A k \in 1 .. n : (s \o t)[k] = IF k =< n - 1 THEN s[k] ELSE t[k - (n - 1)]
  <2> HIDE DEF s, t, S
  <2>1. /\ s \o t \in Seq(S) /\ Len(s \o t) = Len(s) + Len(t)
        /\ \A k \in 1 .. Len(s) + Len(t) : (s \o t)[k] = IF k =< Len(s) THEN s[k] ELSE t[k - Len(s)]
    BY <1>2, <1>4, ConcatProperties
  <2>2. (n - 1) + 1 = n
    OBVIOUS
  <2> QED
    BY <1>2, <1>4, <2>1, <2>2
<1>6. \A k \in 1 .. n : (s \o t)[k] = u[k]
  <2> SUFFICES ASSUME NEW k \in 1 .. n PROVE (s \o t)[k] = u[k]
    OBVIOUS
  <2>1. u[k] = Word(r, x, k, i)
    BY DEF SumOf
  <2>2. k =< n - 1 => s[k] = Word(r, x, k, i)
    BY DEF SumOf
  <2>3. ~(k =< n - 1) => k = n /\ k - (n - 1) = 1
    OBVIOUS
  <2> QED
    BY <1>4, <1>5, <2>1, <2>2, <2>3
<1>7. s \o t = u
  <2> HIDE DEF s, t, u, S
  <2> QED
    BY <1>3, <1>5, <1>6, SeqEqual
<1>8. n = 1 => s = <<>>
  <2> HIDE DEF s, S
  <2> QED
    BY <1>2, EmptySeq
<1> QED
  BY <1>7, <1>8 DEF None

\* A word of a BRAM changes only when what comes out of the adder is meant for it.
LEMMA BramMoves ==
  ASSUME IInv, NEW wen \in SUBSET Comp, NEW ask \in BOOLEAN, Clock(wen, ask), NEW x \in Comp, NEW j \in Addr
  PROVE  bram'[x][j] = IF pos[x] = j + (ADD_LAT + 1) THEN add[x][ADD_LAT] ELSE bram[x][j]
<1>1. Shape /\ Product(x) /\ Numbers
  BY ConstantsFit DEF IInv
<1>2. PICK p \in 1 .. K + Gap : p = pos[x]
  BY <1>1 DEF Shape
<1>3. bram_wen(x) <=> ADD_LAT < p /\ ~(K + ADD_LAT < p)
  BY <1>1, <1>2, DoneMeans DEF Left
<1>4. bram_wen(x) => write_addr[x] = p - (ADD_LAT + 1)
  BY <1>1, <1>2, <1>3 DEF Product, Left, Numbers
<1>5. bram'[x] = IF bram_wen(x) THEN [bram[x] EXCEPT ![write_addr[x]] = Out(add[x])] ELSE bram[x]
  BY DEF Clock, Accumulator
<1>6. bram[x] = [i \in Addr |-> bram[x][i]]
  BY <1>1 DEF Shape
<1>7. Out(add[x]) = add[x][ADD_LAT]
  <2>1. add[x] = [n \in 1 .. ADD_LAT |-> add[x][n]] /\ ADD_LAT \in Nat \ {0}
    BY <1>1 DEF Shape, Numbers
  <2>2. Len(add[x]) = ADD_LAT
    BY <2>1, LineShift
  <2> QED
    BY <2>2 DEF Out
<1>8. p = j + (ADD_LAT + 1) <=> bram_wen(x) /\ write_addr[x] = j
  BY <1>1, <1>3, <1>4 DEF Numbers, Addr
<1> QED
  BY <1>2, <1>5, <1>6, <1>7, <1>8

\* What goes into the adder and through it.
LEMMA AddMoves ==
  ASSUME IInv, NEW wen \in SUBSET Comp, NEW ask \in BOOLEAN, Clock(wen, ask), NEW x \in Comp, NEW i \in 1 .. ADD_LAT
  PROVE  add'[x][i] = IF i = 1 THEN (IF first_q[x] THEN None ELSE dout[x]) \o A_q[x] ELSE add[x][i - 1]
<1> DEFINE v == (IF first_q[x] THEN None ELSE dout[x]) \o A_q[x]
<1>1. add[x] = [n \in 1 .. ADD_LAT |-> add[x][n]] /\ ADD_LAT \in Nat \ {0}
  BY ConstantsFit DEF IInv, Shape, Numbers
<1>2. add'[x] = <<v>> \o SubSeq(add[x], 1, Len(add[x]) - 1)
  BY DEF Clock, Accumulator, Shift
<1> HIDE DEF v
<1>3. add'[x] = Moved(v, add[x], ADD_LAT)
  BY <1>1, <1>2, LineShift
<1>4. add'[x][i] = IF i = 1 THEN v ELSE add[x][i - 1]
  BY <1>3 DEF Moved
<1> QED
  BY <1>4 DEF v

\* In the pipeline and in the BRAM are the sums the counters stand for.
LEMMA DataStep ==
  ASSUME IInv, NEW wen \in SUBSET Comp, NEW ask \in BOOLEAN, Clock(wen, ask), NEW x \in Comp
  PROVE  Data(x)'
<1>1. Shape /\ Product(x) /\ Data(x) /\ Numbers
  BY ConstantsFit DEF IInv
<1>2. PICK p \in 1 .. K + Gap : p = pos[x]
  BY <1>1 DEF Shape
<1>3. PICK g \in 0 .. L : g = given[x]
  BY <1>1 DEF Shape
<1>4. PICK r \in Nat : r = round
  BY <1>1 DEF Shape
<1>5. Left(x) <=> K + ADD_LAT < p
  BY <1>2 DEF Left
<1>6. /\ p =< K => A_q[x] = <<Word(r, x, g, p - 1)>>
      /\ p =< K /\ g > 1 => dout[x] = SumOf(r, x, g - 1, p - 1)
      /\ \A i \in 1 .. ADD_LAT : i < p /\ p =< K + i => add[x][i] = SumOf(r, x, g, p - (i + 1))
      /\ \A j \in Addr : g > 0 /\ j + (ADD_LAT + 1) < p => bram[x][j] = SumOf(r, x, g, j)
      /\ \A j \in Addr : g > 1 /\ p =< j + (ADD_LAT + 1) => bram[x][j] = SumOf(r, x, g - 1, j)
  BY <1>1, <1>2, <1>3, <1>4 DEF Data
<1>7. dout'[x] = bram[x][read_addr[x]]
  BY DEF Clock, Accumulator
<1>8. A_q'[x] = IF x \in wen THEN <<Word(r, x, g + 1, 0)>> ELSE IF p < K THEN <<Word(r, x, g, p)>> ELSE None
  BY <1>2, <1>3, <1>4 DEF Clock, Accumulator
<1>9. \A j \in Addr : bram'[x][j] = IF p = j + (ADD_LAT + 1) THEN add[x][ADD_LAT] ELSE bram[x][j]
  BY <1>2, BramMoves
<1>a. \A i \in 1 .. ADD_LAT :
        add'[x][i] = IF i = 1 THEN (IF first_q[x] THEN None ELSE dout[x]) \o A_q[x] ELSE add[x][i - 1]
  BY AddMoves
<1>b. pos'[x] = IF x \in wen THEN 1 ELSE IF p < K + Gap THEN p + 1 ELSE p
  BY <1>2 DEF Clock, Units
<1>c. given'[x] = IF RoundOver THEN 0 ELSE IF x \in wen THEN g + 1 ELSE g
  BY <1>3 DEF Clock, Units
<1>d. round' = IF RoundOver THEN r + 1 ELSE r
  BY <1>4 DEF Clock, Units
<1>10. CASE x \in wen
  <2>1. state_i = "ST_NTT" /\ p = K + Gap /\ ~RoundOver
    BY <1>1, <1>2, <1>10, BeginsThen DEF Clock, Units
  <2>2. pos'[x] = 1 /\ given'[x] = g + 1 /\ round' = r
    BY <1>10, <1>b, <1>c, <1>d, <2>1
  <2>3. A_q'[x] = <<Word(r, x, g + 1, 0)>>
    BY <1>8, <1>10
  <2>4. g > 0 => \A j \in Addr : bram[x][j] = SumOf(r, x, g, j)
    <3>1. \A j \in Addr : j + (ADD_LAT + 1) < p
      BY <1>1, <2>1 DEF Numbers, Addr
    <3> QED
      BY <1>6, <3>1
  <2>5. g > 0 => dout'[x] = SumOf(r, x, g, 0)
    <3>1. read_addr[x] = 0 /\ 0 \in Addr
      BY <1>1, <1>2, <1>3, <2>1 DEF Product, Numbers, Addr
    <3> QED
      BY <1>7, <2>4, <3>1
  <2>6. \A j \in Addr : bram'[x][j] = bram[x][j]
    <3>1. \A j \in Addr : p # j + (ADD_LAT + 1)
      BY <1>1, <2>1 DEF Numbers, Addr
    <3> QED
      BY <1>9, <3>1
  <2>7. (g + 1) - 1 = g /\ 1 - 1 = 0 /\ (g + 1 > 1 => g > 0)
    BY <1>1 DEF Numbers
  <2>8. pos'[x] =< K => A_q'[x] = <<Word(round', x, given'[x], pos'[x] - 1)>>
    BY <2>2, <2>3, <2>7
  <2>9. pos'[x] =< K /\ given'[x] > 1 => dout'[x] = SumOf(round', x, given'[x] - 1, pos'[x] - 1)
    BY <2>2, <2>5, <2>7
  <2>10. \A i \in 1 .. ADD_LAT : ~(i < pos'[x])
    BY <1>1, <2>2 DEF Numbers
  <2>11. \A j \in Addr : ~(j + (ADD_LAT + 1) < pos'[x])
    BY <1>1, <2>2 DEF Numbers, Addr
  <2>12. \A j \in Addr : given'[x] > 1 => bram'[x][j] = SumOf(round', x, given'[x] - 1, j)
    BY <2>2, <2>4, <2>6, <2>7
  <2> QED
    BY <2>8, <2>9, <2>10, <2>11, <2>12 DEF Data
<1>11. CASE x \notin wen /\ K + ADD_LAT < p
  <2>1. PICK n \in 1 .. K + Gap : n = pos'[x] /\ K + ADD_LAT < n
    BY <1>1, <1>11, <1>b DEF Numbers
  <2>2. ~(n =< K) /\ \A i \in 1 .. ADD_LAT : ~(n =< K + i)
    BY <1>1, <2>1 DEF Numbers
  <2>3. \A j \in Addr : bram'[x][j] = bram[x][j]
    <3>1. \A j \in Addr : p # j + (ADD_LAT + 1)
      BY <1>1, <1>11 DEF Numbers, Addr
    <3> QED
      BY <1>9, <3>1
  <2>4. \A j \in Addr : j + (ADD_LAT + 1) < p /\ ~(n =< j + (ADD_LAT + 1))
    BY <1>1, <1>11, <2>1 DEF Numbers, Addr
  <2>5. given'[x] > 0 => given'[x] = g /\ g > 0 /\ round' = r
    BY <1>11, <1>c, <1>d
  <2>6. \A j \in Addr : given'[x] > 0 => bram'[x][j] = SumOf(round', x, given'[x], j)
    BY <1>6, <2>3, <2>4, <2>5
  <2> QED
    BY <2>1, <2>2, <2>4, <2>6 DEF Data
<1>12. CASE x \notin wen /\ ~(K + ADD_LAT < p)
  <2>1. g > 0 /\ state_i = "ST_NTT" /\ ~RoundOver
    BY <1>1, <1>3, <1>5, <1>12 DEF Product, RoundOver
  <2>2. pos'[x] = p + 1 /\ given'[x] = g /\ round' = r
    BY <1>1, <1>12, <1>b, <1>c, <1>d, <2>1 DEF Numbers
  <2>3. p + 1 =< K => A_q'[x] = <<Word(r, x, g, p)>>
    BY <1>1, <1>8, <1>12 DEF Numbers
  <2>4. p + 1 =< K /\ g > 1 => dout'[x] = SumOf(r, x, g - 1, p)
    <3> SUFFICES ASSUME p + 1 =< K, g > 1 PROVE dout'[x] = SumOf(r, x, g - 1, p)
      OBVIOUS
    <3>1. p \in Addr /\ p =< p + (ADD_LAT + 1) /\ p < K
      BY <1>1 DEF Numbers, Addr
    <3>2. read_addr[x] = p
      BY <1>1, <1>2, <1>3, <2>1, <3>1 DEF Product
    <3> QED
      BY <1>6, <1>7, <3>1, <3>2
  <2>5. \A i \in 1 .. ADD_LAT : i < p + 1 /\ p + 1 =< K + i => add'[x][i] = SumOf(r, x, g, (p + 1) - (i + 1))
    <3> SUFFICES ASSUME NEW i \in 1 .. ADD_LAT, i < p + 1, p + 1 =< K + i
                 PROVE  add'[x][i] = SumOf(r, x, g, (p + 1) - (i + 1))
      OBVIOUS
    <3>1. CASE i = 1
      <4>1. p =< K /\ (p + 1) - (i + 1) = p - 1
        BY <1>1, <3>1 DEF Numbers
      <4>2. A_q[x] = <<Word(r, x, g, p - 1)>>
        BY <1>6, <4>1
      <4>3. first_q[x] <=> g = 1
        BY <1>1, <1>3, <1>5, <1>12 DEF Product
      <4>9. g \in Nat \ {0}
        BY <1>1, <2>1 DEF Numbers
      <4>4. g = 1 => None \o <<Word(r, x, g, p - 1)>> = SumOf(r, x, g, p - 1)
        BY <4>9, SumGrows
      <4>5. g > 1 => SumOf(r, x, g - 1, p - 1) \o <<Word(r, x, g, p - 1)>> = SumOf(r, x, g, p - 1)
        BY <4>9, SumGrows
      <4>6. g > 1 => dout[x] = SumOf(r, x, g - 1, p - 1)
        BY <1>6, <4>1
      <4>7. add'[x][i] = (IF g = 1 THEN None ELSE dout[x]) \o <<Word(r, x, g, p - 1)>>
        BY <1>a, <3>1, <4>2, <4>3
      <4>8. g = 1 \/ (g > 1 /\ g # 1)
        BY <2>1
      <4> QED
        BY <4>1, <4>4, <4>5, <4>6, <4>7, <4>8
    <3>2. CASE i # 1
      <4>1. i - 1 \in 1 .. ADD_LAT /\ i - 1 < p /\ p =< K + (i - 1) /\ p - ((i - 1) + 1) = (p + 1) - (i + 1)
        BY <1>1, <3>2 DEF Numbers
      <4> QED
        BY <1>6, <1>a, <3>2, <4>1
    <3> QED
      BY <3>1, <3>2
  <2>6. \A j \in Addr : j + (ADD_LAT + 1) < p + 1 => bram'[x][j] = SumOf(r, x, g, j)
    <3> SUFFICES ASSUME NEW j \in Addr, j + (ADD_LAT + 1) < p + 1 PROVE bram'[x][j] = SumOf(r, x, g, j)
      OBVIOUS
    <3>1. CASE p = j + (ADD_LAT + 1)
      <4>1. ADD_LAT \in 1 .. ADD_LAT /\ ADD_LAT < p /\ p =< K + ADD_LAT /\ p - (ADD_LAT + 1) = j
        BY <1>1, <1>12, <3>1 DEF Numbers, Addr
      <4> QED
        BY <1>6, <1>9, <3>1, <4>1
    <3>2. CASE p # j + (ADD_LAT + 1)
      <4>1. j + (ADD_LAT + 1) < p
        BY <1>1, <3>2 DEF Numbers, Addr
      <4> QED
        BY <1>6, <1>9, <2>1, <3>2, <4>1
    <3> QED
      BY <3>1, <3>2
  <2>7. \A j \in Addr : g > 1 /\ p + 1 =< j + (ADD_LAT + 1) => bram'[x][j] = SumOf(r, x, g - 1, j)
    <3>1. \A j \in Addr : p + 1 =< j + (ADD_LAT + 1) => p =< j + (ADD_LAT + 1) /\ p # j + (ADD_LAT + 1)
      BY <1>1 DEF Numbers, Addr
    <3> QED
      BY <1>6, <1>9, <3>1
  <2>8. (p + 1) - 1 = p
    BY <1>1 DEF Numbers
  <2> QED
    BY <2>2, <2>3, <2>4, <2>5, <2>6, <2>7, <2>8 DEF Data
<1> QED
  BY <1>10, <1>11, <1>12

-----------------------------------------------------------------------------
(***************************************************************************)
(* The accumulators are read, one after the other.                         *)
(***************************************************************************)
\* The steps of a read: nothing is read, accumulator 0 is read from its first word to its last,
\* accumulator 1 is awaited and read, and the round is over.
Waiting(s) == s \in {"ST_NTT", "ST_INTT_1"}

Idle      == Waiting(state_i) /\ Waiting(state_i') /\ Read = 0 /\ Read' = 0 /\ ~ren(0) /\ ~ren(1) /\ ~RoundOver
First0    == state_i = "ST_INTT_1" /\ state_i' = "ST_INTT_2" /\ Read = 0 /\ Read' = 1 /\ ren(0) /\ ~ren(1) /\ ~RoundOver
Next0     == /\ state_i = "ST_INTT_2" /\ state_i' = "ST_INTT_2" /\ Read \in 1 .. K - 2 /\ Read' = Read + 1
             /\ ~ren(0) /\ ~ren(1) /\ ~RoundOver
Last0     == /\ state_i = "ST_INTT_2" /\ state_i' = "ST_INTT_3" /\ Read = K - 1 /\ Read' = 0
             /\ ~ren(0) /\ ~ren(1) /\ ~RoundOver
Awaits1   == state_i = "ST_INTT_3" /\ state_i' = "ST_INTT_3" /\ Read = 0 /\ Read' = 0 /\ ~ren(0) /\ ~ren(1) /\ ~RoundOver
First1    == state_i = "ST_INTT_3" /\ state_i' = "ST_INTT_3" /\ Read = 0 /\ Read' = 1 /\ ~ren(0) /\ ren(1) /\ ~RoundOver
Next1     == /\ state_i = "ST_INTT_3" /\ state_i' = "ST_INTT_3" /\ Read \in 1 .. K - 2 /\ Read' = Read + 1
             /\ ~ren(0) /\ ~ren(1) /\ ~RoundOver
Last1     == /\ state_i = "ST_INTT_3" /\ state_i' = "ST_NTT" /\ Read = K - 1 /\ Read' = 0
             /\ ~ren(0) /\ ~ren(1) /\ RoundOver

\* The addresses of both accumulators in each of the states.
LEMMA AddressesMove ==
  ASSUME IInv, NEW wen \in SUBSET Comp, NEW ask \in BOOLEAN, Clock(wen, ask)
  PROVE  /\ state_i = "ST_NTT" /\ state_i' # "ST_NTT" => read_addr'[0] = 0 /\ read_addr'[1] = 0
         /\ state_i = "ST_INTT_1" => read_addr'[0] = (IF ren(0) THEN 1 ELSE 0) /\ read_addr'[1] = 0
         /\ state_i = "ST_INTT_2" => read_addr'[0] = (IF read_addr[0] = K - 1 THEN 0 ELSE read_addr[0] + 1) /\ read_addr'[1] = 0
         /\ state_i = "ST_INTT_3" =>
              /\ read_addr'[0] = 0
              /\ read_addr'[1] = IF read_addr[1] = K - 1 THEN 0
                                 ELSE IF read_addr[1] = 0 /\ ~ren(1) THEN 0 ELSE read_addr[1] + 1
         /\ ren(1) => state_i = "ST_INTT_3" /\ read_addr[1] = 0
<1>1. Shape /\ Product(0) /\ Product(1) /\ 0 \in Comp /\ 1 \in Comp /\ Numbers
  BY ConstantsFit DEF IInv, Comp
<1>2. PICK a \in Addr : a = read_addr[0]
  BY <1>1 DEF Shape
<1>3. PICK b \in Addr : b = read_addr[1]
  BY <1>1 DEF Shape
<1>4. (a + 1) % K = IF a = K - 1 THEN 0 ELSE a + 1
  BY <1>1, Wraps DEF Addr, Numbers
<1>5. (b + 1) % K = IF b = K - 1 THEN 0 ELSE b + 1
  BY <1>1, Wraps DEF Addr, Numbers
<1>6. read_addr'[0] = IF ren(0) \/ (0 \in wen /\ given[0] # 0) \/ a # 0 THEN (a + 1) % K ELSE 0
  BY <1>1, <1>2, ReadMoves
<1>7. read_addr'[1] = IF ren(1) \/ (1 \in wen /\ given[1] # 0) \/ b # 0 THEN (b + 1) % K ELSE 0
  BY <1>1, <1>3, ReadMoves
<1>8. ren(1) => state_i = "ST_INTT_3" /\ b = 0
  BY <1>1, <1>3, ReadMoves
<1>9. ren(0) => state_i = "ST_INTT_1"
  BY StateMoves
<1>10. K - 1 # 0 /\ K - 1 # 1
  BY <1>1 DEF Numbers
<1>11. state_i # "ST_NTT" => wen = {}
  BY StateMoves
<1>12. CASE state_i = "ST_NTT" /\ AllIn
  <2>1. Left(0) /\ Left(1) /\ wen = {}
    BY <1>1, <1>12, AllInThen, StateMoves
  <2>2. ~(pos[0] < K) /\ ~(pos[1] < K)
    <3>1. pos[0] \in Nat /\ pos[1] \in Nat
      BY <1>1 DEF Shape
    <3> QED
      BY <1>1, <2>1, <3>1 DEF Left, Numbers
  <2>3. a = 0 /\ b = 0
    BY <1>1, <1>2, <1>3, <1>12, <2>2 DEF Product
  <2> QED
    BY <1>6, <1>7, <1>8, <1>9, <1>12, <2>1, <2>3
<1>13. CASE state_i = "ST_NTT" /\ ~AllIn
  BY <1>8, <1>13, <1>3, StateMoves
<1>14. CASE state_i = "ST_INTT_1"
  <2>1. a = 0 /\ b = 0
    BY <1>2, <1>3, <1>14 DEF IInv, Reading
  <2> QED
    BY <1>3, <1>4, <1>6, <1>7, <1>8, <1>10, <1>11, <1>14, <2>1
<1>15. CASE state_i = "ST_INTT_2"
  <2>1. a # 0 /\ b = 0
    BY <1>2, <1>3, <1>15 DEF IInv, Reading
  <2> QED
    BY <1>2, <1>3, <1>4, <1>6, <1>7, <1>8, <1>10, <1>11, <1>15, <2>1
<1>16. CASE state_i = "ST_INTT_3"
  <2>1. a = 0
    BY <1>2, <1>16 DEF IInv, Reading
  <2>2. read_addr'[0] = 0
    BY <1>6, <1>9, <1>11, <1>16, <2>1
  <2>3. read_addr'[1] = IF b = K - 1 THEN 0 ELSE IF b = 0 /\ ~ren(1) THEN 0 ELSE b + 1
    BY <1>5, <1>7, <1>10, <1>11, <1>16
  <2> QED
    BY <1>3, <1>8, <1>16, <2>2, <2>3
<1> QED
  BY <1>1, <1>12, <1>13, <1>14, <1>15, <1>16 DEF Shape

\* Every edge is one of these steps.
LEMMA ReadSteps ==
  ASSUME IInv, NEW wen \in SUBSET Comp, NEW ask \in BOOLEAN, Clock(wen, ask)
  PROVE  Idle \/ First0 \/ Next0 \/ Last0 \/ Awaits1 \/ First1 \/ Next1 \/ Last1
<1>1. Shape /\ Numbers /\ 0 \in Comp /\ 1 \in Comp
  BY ConstantsFit DEF IInv, Comp
<1>2. PICK a \in Addr : a = read_addr[0]
  BY <1>1 DEF Shape
<1>3. PICK b \in Addr : b = read_addr[1]
  BY <1>1 DEF Shape
<1>4. /\ state_i = "ST_NTT" => state_i' \in {"ST_NTT", "ST_INTT_1"} /\ ~ren(0) /\ ~RoundOver
      /\ state_i = "ST_INTT_1" => state_i' = (IF ren(0) THEN "ST_INTT_2" ELSE "ST_INTT_1") /\ ~RoundOver
      /\ state_i = "ST_INTT_2" => state_i' = (IF a = K - 1 THEN "ST_INTT_3" ELSE "ST_INTT_2") /\ ~ren(0) /\ ~RoundOver
      /\ state_i = "ST_INTT_3" => state_i' = (IF b = K - 1 THEN "ST_NTT" ELSE "ST_INTT_3") /\ ~ren(0) /\ (RoundOver <=> b = K - 1)
  BY <1>2, <1>3, StateMoves
<1>5. ren(1) => state_i = "ST_INTT_3" /\ b = 0
  BY <1>3, AddressesMove
<1>6. Read = IF state_i = "ST_INTT_2" THEN a ELSE IF state_i = "ST_INTT_3" THEN b ELSE 0
  BY <1>2, <1>3 DEF Read, Reader
<1>7. Read' = IF state_i' = "ST_INTT_2" THEN read_addr'[0] ELSE IF state_i' = "ST_INTT_3" THEN read_addr'[1] ELSE 0
  BY DEF Read, Reader
<1>8. K - 1 # 0 /\ \A c \in Addr : c = 0 \/ c = K - 1 \/ c \in 1 .. K - 2
  BY <1>1 DEF Numbers, Addr
<1>9. CASE state_i = "ST_NTT"
  BY <1>4, <1>5, <1>6, <1>7, <1>9 DEF Idle, Waiting
<1>10. CASE state_i = "ST_INTT_1"
  <2>1. read_addr'[0] = IF ren(0) THEN 1 ELSE 0
    BY <1>10, AddressesMove
  <2> QED
    BY <1>4, <1>5, <1>6, <1>7, <1>10, <2>1 DEF Idle, First0, Waiting
<1>11. CASE state_i = "ST_INTT_2"
  <2>1. a # 0 /\ read_addr'[1] = 0 /\ read_addr'[0] = IF a = K - 1 THEN 0 ELSE a + 1
    BY <1>2, <1>11, AddressesMove DEF IInv, Reading
  <2> QED
    BY <1>4, <1>5, <1>6, <1>7, <1>8, <1>11, <2>1 DEF Next0, Last0
<1>12. CASE state_i = "ST_INTT_3"
  <2>1. read_addr'[1] = IF b = K - 1 THEN 0 ELSE IF b = 0 /\ ~ren(1) THEN 0 ELSE b + 1
    BY <1>3, <1>12, AddressesMove
  <2>2. CASE b = 0
    BY <1>4, <1>5, <1>6, <1>7, <1>8, <1>12, <2>1, <2>2 DEF Awaits1, First1
  <2>3. CASE b = K - 1
    BY <1>4, <1>5, <1>6, <1>7, <1>8, <1>12, <2>1, <2>3 DEF Last1
  <2>4. CASE b \in 1 .. K - 2
    <3>1. b # 0 /\ b # K - 1
      BY <1>1, <2>4 DEF Numbers
    <3> QED
      BY <1>4, <1>5, <1>6, <1>7, <1>12, <2>1, <2>4, <3>1 DEF Next1
  <2> QED
    BY <1>8, <2>2, <2>3, <2>4
<1> QED
  BY <1>1, <1>9, <1>10, <1>11, <1>12 DEF Shape

\* Accumulator 1 is sent one pulse, and only when accumulator 0 has been read.
LEMMA ReadingStep ==
  ASSUME IInv, NEW wen \in SUBSET Comp, NEW ask \in BOOLEAN, Clock(wen, ask)
  PROVE  Reading'
<1>1. Shape /\ Reading /\ Numbers /\ 0 \in Comp /\ 1 \in Comp
  BY ConstantsFit DEF IInv, Comp
<1>2. K - 1 # 0
  BY <1>1 DEF Numbers
<1>3. READ_DELAY \in Nat \ {0}
  BY DelayAssumption
<1>4. \A i \in 1 .. READ_DELAY : ren_line'[i] <=> IF i = 1 THEN state_i = "ST_INTT_2" /\ read_addr[0] = K - 1
                                                           ELSE ren_line[i - 1]
  BY <1>1, ReadMoves
<1>5. \A i \in 1 .. READ_DELAY : i # 1 => i - 1 \in 1 .. READ_DELAY /\ i - 1 # READ_DELAY
  BY <1>3
<1>6. \A i, j \in 1 .. READ_DELAY : i - 1 = j - 1 => i = j
  OBVIOUS
<1>7. /\ state_i' = "ST_INTT_1" => read_addr'[0] = 0 /\ read_addr'[1] = 0
      /\ state_i' = "ST_INTT_2" => read_addr'[0] # 0 /\ read_addr'[1] = 0
      /\ state_i' = "ST_INTT_3" => read_addr'[0] = 0
  <2>1. read_addr[0] \in Nat
    BY <1>1 DEF Shape, Addr
  <2>2. CASE state_i = "ST_NTT"
    BY <2>2, AddressesMove, StateMoves
  <2>3. CASE state_i = "ST_INTT_1"
    BY <2>3, AddressesMove, StateMoves
  <2>4. CASE state_i = "ST_INTT_2"
    BY <2>1, <2>4, AddressesMove, StateMoves
  <2>5. CASE state_i = "ST_INTT_3"
    BY <2>5, AddressesMove, StateMoves
  <2> QED
    BY <1>1, <2>2, <2>3, <2>4, <2>5 DEF Shape
<1>8. \A i, j \in 1 .. READ_DELAY : ren_line'[i] /\ ren_line'[j] => i = j
  <2> SUFFICES ASSUME NEW i \in 1 .. READ_DELAY, NEW j \in 1 .. READ_DELAY, ren_line'[i], ren_line'[j]
               PROVE  i = j
    OBVIOUS
  <2>1. i # 1 => ren_line[i - 1] /\ i - 1 \in 1 .. READ_DELAY
    BY <1>4, <1>5
  <2>2. j # 1 => ren_line[j - 1] /\ j - 1 \in 1 .. READ_DELAY
    BY <1>4, <1>5
  <2>3. i = 1 \/ j = 1 => state_i = "ST_INTT_2"
    BY <1>4
  <2>4. i # 1 \/ j # 1 => state_i = "ST_INTT_3"
    BY <1>1, <2>1, <2>2 DEF Reading
  <2>5. i # 1 /\ j # 1 => i - 1 = j - 1
    BY <1>1, <2>1, <2>2 DEF Reading
  <2> QED
    BY <1>6, <2>3, <2>4, <2>5
<1>9. \A i \in 1 .. READ_DELAY : ren_line'[i] => state_i' = "ST_INTT_3" /\ read_addr'[1] = 0
  <2> SUFFICES ASSUME NEW i \in 1 .. READ_DELAY, ren_line'[i] PROVE state_i' = "ST_INTT_3" /\ read_addr'[1] = 0
    OBVIOUS
  <2>1. CASE i = 1
    <3>1. state_i = "ST_INTT_2" /\ read_addr[0] = K - 1
      BY <1>4, <2>1
    <3> QED
      BY <3>1, AddressesMove, StateMoves
  <2>2. CASE i # 1
    <3>1. ren_line[i - 1] /\ i - 1 \in 1 .. READ_DELAY /\ i - 1 # READ_DELAY
      BY <1>4, <1>5, <2>2
    <3>2. state_i = "ST_INTT_3" /\ read_addr[1] = 0
      BY <1>1, <3>1 DEF Reading
    <3>3. ~ren_line[READ_DELAY]
      BY <1>1, <1>3, <3>1 DEF Reading
    <3>4. ~ren(1)
      BY <1>1, <3>3, ReadMoves
    <3> QED
      BY <1>2, <3>2, <3>4, AddressesMove, StateMoves
  <2> QED
    BY <2>1, <2>2
<1> QED
  BY <1>7, <1>8, <1>9 DEF Reading

-----------------------------------------------------------------------------
(***************************************************************************)
(* The output follows the reads.                                           *)
(***************************************************************************)
\* What the registers of the output take over.
LEMMA OutputMoves ==
  ASSUME IInv, NEW wen \in SUBSET Comp, NEW ask \in BOOLEAN, Clock(wen, ask)
  PROVE  /\ o_valid_x'[0] <=> ren(0)
         /\ o_valid_x'[1] <=> ren(1)
         /\ o_valid_d' = o_valid_x /\ o_poly_d' = dout /\ state_o' = NextOutput
         /\ \A x \in Comp : dout'[x] = bram[x][read_addr[x]]
         /\ round' = IF RoundOver THEN round + 1 ELSE round
<1>1. 0 \in Comp /\ 1 \in Comp
  BY DEF Comp
<1>2. (o_valid_x'[0] <=> ren(0)) /\ (o_valid_x'[1] <=> ren(1))
  BY <1>1, ReadMoves
<1>3. o_valid_d' = o_valid_x /\ o_poly_d' = dout /\ state_o' = NextOutput
  BY DEF Clock, Wrapper
<1>4. \A x \in Comp : dout'[x] = bram[x][read_addr[x]]
  BY DEF Clock, Accumulator
<1>5. round' = IF RoundOver THEN round + 1 ELSE round
  BY DEF Clock, Units
<1> QED
  BY <1>2, <1>3, <1>4, <1>5

\* What is valid, and whose it is.
LEMMA ValidStep ==
  ASSUME IInv, NEW wen \in SUBSET Comp, NEW ask \in BOOLEAN, Clock(wen, ask)
  PROVE  Valid'
<1>1. Shape /\ Valid /\ Numbers
  BY ConstantsFit DEF IInv
<1>2. /\ o_valid_x'[0] <=> ren(0)
      /\ o_valid_x'[1] <=> ren(1)
      /\ o_valid_d' = o_valid_x /\ state_o' = NextOutput
      /\ round' = IF RoundOver THEN round + 1 ELSE round
  BY OutputMoves
<1>3. K - 1 # 0 /\ K - 1 # 1 /\ K - 1 > 1
  BY <1>1 DEF Numbers
<1>4. PICK r \in Nat : r = round
  BY <1>1 DEF Shape
<1>5. round' = IF RoundOver THEN r + 1 ELSE r
  BY <1>2, <1>4
<1>6. /\ o_valid_x[0] <=> state_i = "ST_INTT_2" /\ Read = 1
      /\ o_valid_x[1] <=> state_i = "ST_INTT_3" /\ Read = 1
      /\ state_o = "ST_1" <=> IF state_i = "ST_INTT_3" THEN Read > 1 ELSE r > 0 /\ Read =< 1
  BY <1>1, <1>4 DEF Valid
<1>7. state_o \in {"ST_0", "ST_1"}
  BY <1>1 DEF Shape
<1>8. /\ o_valid_d'[0] <=> state_i = "ST_INTT_2" /\ Read = 1
      /\ o_valid_d'[1] <=> state_i = "ST_INTT_3" /\ Read = 1
      /\ state_o' = "ST_1" <=> IF state_o = "ST_0" THEN state_i = "ST_INTT_3" /\ Read = 1
                               ELSE ~(state_i = "ST_INTT_2" /\ Read = 1)
  BY <1>2, <1>6, <1>7 DEF NextOutput
<1>a. CASE Idle
  BY <1>2, <1>5, <1>6, <1>7, <1>8, <1>a DEF Idle, Waiting, Valid
<1>b. CASE First0
  BY <1>2, <1>5, <1>6, <1>7, <1>8, <1>b DEF First0, Valid
<1>c. CASE Next0
  <2>1. PICK a \in 1 .. K - 2 : a = Read
    BY <1>c DEF Next0
  <2>2. Read' = a + 1 /\ a + 1 # 1 /\ (a + 1 = 2 <=> a = 1) /\ ~(a + 1 =< 1) /\ (a =< 1 <=> a = 1)
    BY <1>c, <2>1 DEF Next0
  <2> QED
    BY <1>2, <1>5, <1>6, <1>7, <1>8, <1>c, <2>1, <2>2 DEF Next0, Valid
<1>d. CASE Last0
  <2>1. ~(K - 1 =< 1)
    BY <1>1 DEF Numbers
  <2> QED
    BY <1>2, <1>3, <1>5, <1>6, <1>7, <1>8, <1>d, <2>1 DEF Last0, Valid
<1>e. CASE Awaits1
  BY <1>2, <1>5, <1>6, <1>7, <1>8, <1>e DEF Awaits1, Valid
<1>f. CASE First1
  BY <1>2, <1>5, <1>6, <1>7, <1>8, <1>f DEF First1, Valid
<1>g. CASE Next1
  <2>1. PICK a \in 1 .. K - 2 : a = Read
    BY <1>g DEF Next1
  <2>2. Read' = a + 1 /\ a + 1 # 1 /\ (a + 1 = 2 <=> a = 1) /\ a + 1 > 1 /\ (a > 1 <=> a # 1)
    BY <1>g, <2>1 DEF Next1
  <2> QED
    BY <1>2, <1>5, <1>6, <1>7, <1>8, <1>g, <2>1, <2>2 DEF Next1, Valid
<1>h. CASE Last1
  <2>1. r + 1 > 0
    OBVIOUS
  <2> QED
    BY <1>2, <1>3, <1>5, <1>6, <1>7, <1>8, <1>h, <2>1 DEF Last1, Valid
<1> QED
  BY <1>a, <1>b, <1>c, <1>d, <1>e, <1>f, <1>g, <1>h, ReadSteps

\* While the accumulators are read, their BRAMs hold the sums of all products.
LEMMA Whole ==
  ASSUME IInv, state_i # "ST_NTT", NEW x \in Comp, NEW j \in Addr
  PROVE  bram[x][j] = SumOf(round, x, L, j)
<1>1. Shape /\ Product(x) /\ Data(x) /\ Numbers
  BY ConstantsFit DEF IInv
<1>2. PICK p \in 1 .. K + Gap : p = pos[x]
  BY <1>1 DEF Shape
<1>3. given[x] = L /\ L > 0 /\ K + ADD_LAT < p
  BY <1>1, <1>2 DEF Product, Left, Numbers
<1>4. j + (ADD_LAT + 1) < p
  BY <1>1, <1>3 DEF Numbers, Addr
<1> QED
  BY <1>1, <1>2, <1>3, <1>4 DEF Data

\* The output is valid in the cycle of the first word.
LEMMA ValidNow == IInv => (o_valid <=> Read = 2)
<1> SUFFICES ASSUME IInv PROVE o_valid <=> Read = 2
  OBVIOUS
<1>1. Shape /\ Valid
  BY DEF IInv
<1>2. Read = 2 => state_i \in {"ST_INTT_2", "ST_INTT_3"}
  BY DEF Read
<1>3. o_valid <=> IF state_o = "ST_1" THEN o_valid_d[1] ELSE o_valid_d[0]
  BY DEF o_valid, Selected
<1>4. 2 > 1 /\ ~(2 =< 1)
  OBVIOUS
<1>5. Read = 2 => (state_o = "ST_1" <=> state_i = "ST_INTT_3")
  BY <1>1, <1>2, <1>4 DEF Valid
<1>6. (o_valid_d[0] <=> state_i = "ST_INTT_2" /\ Read = 2) /\ (o_valid_d[1] <=> state_i = "ST_INTT_3" /\ Read = 2)
  BY <1>1 DEF Valid
<1> QED
  BY <1>2, <1>3, <1>5, <1>6

\* What the NTT unit counts.
LEMMA TakesThen ==
  ASSUME IInv, NEW wen \in SUBSET Comp, NEW ask \in BOOLEAN, Clock(wen, ask)
  PROVE  /\ o_valid <=> Read = 2
         /\ out' = (IF Read = 2 \/ out > 0 THEN (IF out = K - 1 THEN 0 ELSE out + 1) ELSE 0)
         /\ taken' = (IF (Read = 2 \/ out > 0) /\ out = K - 1 THEN taken + 1 ELSE taken)
<1>1. Shape /\ Valid /\ Numbers
  BY ConstantsFit DEF IInv
<1>2. o_valid <=> Read = 2
  BY ValidNow
<1>3. out' = (IF Takes THEN (out + 1) % K ELSE 0) /\ taken' = IF Takes /\ out = K - 1 THEN taken + 1 ELSE taken
  BY DEF Clock, Take
<1>4. (out + 1) % K = IF out = K - 1 THEN 0 ELSE out + 1
  BY <1>1, Wraps DEF Shape, Addr, Numbers
<1> QED
  BY <1>2, <1>3, <1>4 DEF Takes

\* How many sums have been read after an edge.
LEMMA EndedMoves ==
  ASSUME IInv, NEW wen \in SUBSET Comp, NEW ask \in BOOLEAN, Clock(wen, ask)
  PROVE  /\ Ended \in Nat
         /\ Ended' = IF Last0 \/ Last1 THEN Ended + 1 ELSE Ended
<1>1. PICK r \in Nat : r = round
  BY DEF IInv, Shape
<1>2. round' = IF RoundOver THEN r + 1 ELSE r
  BY <1>1, OutputMoves
<1>3. Ended = 2 * r + (IF state_i = "ST_INTT_3" THEN 1 ELSE 0)
  BY <1>1 DEF Ended, Reader
<1>4. Ended' = 2 * round' + (IF state_i' = "ST_INTT_3" THEN 1 ELSE 0)
  BY DEF Ended, Reader
<1>5. 2 * (r + 1) = 2 * r + 2 /\ 2 * r \in Nat
  OBVIOUS
<1>a. CASE Idle
  <2>1. ~Last0 /\ ~Last1
    BY <1>a DEF Idle, Waiting, Last0, Last1
  <2> QED
    BY <1>2, <1>3, <1>4, <1>5, <1>a, <2>1 DEF Idle, Waiting
<1>b. CASE First0
  <2>1. ~Last0 /\ ~Last1
    BY <1>b DEF First0, Last0, Last1
  <2> QED
    BY <1>2, <1>3, <1>4, <1>5, <1>b, <2>1 DEF First0
<1>c. CASE Next0
  <2>1. ~Last0 /\ ~Last1
    BY <1>c DEF Next0, Last0, Last1
  <2> QED
    BY <1>2, <1>3, <1>4, <1>5, <1>c, <2>1 DEF Next0
<1>d. CASE Last0
  BY <1>2, <1>3, <1>4, <1>5, <1>d DEF Last0
<1>e. CASE Awaits1 \/ First1 \/ Next1
  <2>1. /\ ~Last0 /\ ~Last1
        /\ state_i = "ST_INTT_3" /\ state_i' = "ST_INTT_3" /\ ~RoundOver
    BY <1>e DEF Awaits1, First1, Next1, Last0, Last1
  <2> QED
    BY <1>2, <1>3, <1>4, <1>5, <2>1
<1>h. CASE Last1
  BY <1>2, <1>3, <1>4, <1>5, <1>h DEF Last1
<1> QED
  BY <1>a, <1>b, <1>c, <1>d, <1>e, <1>h, ReadSteps

\* A word that is read is followed to the output, and counted there.
LEMMA StagesStep ==
  ASSUME IInv, NEW wen \in SUBSET Comp, NEW ask \in BOOLEAN, Clock(wen, ask)
  PROVE  Stages'
<1>1. Shape /\ Reading /\ Stages /\ Output /\ Numbers /\ 0 \in Comp /\ 1 \in Comp
  BY ConstantsFit DEF IInv, Comp
<1>2. PICK r \in Nat : r = round
  BY <1>1 DEF Shape
<1>3. PICK n \in Nat : n = taken
  BY <1>1 DEF Shape
<1>4. PICK o \in Addr : o = out
  BY <1>1 DEF Shape
<1>5. PICK e \in Nat : e = Ended
  BY EndedMoves
<1>6. /\ o_poly_d' = dout
      /\ \A x \in Comp : dout'[x] = bram[x][read_addr[x]]
      /\ round' = IF RoundOver THEN r + 1 ELSE r
  BY <1>2, OutputMoves
<1>7. /\ out' = (IF Read = 2 \/ o > 0 THEN (IF o = K - 1 THEN 0 ELSE o + 1) ELSE 0)
      /\ taken' = (IF (Read = 2 \/ o > 0) /\ o = K - 1 THEN n + 1 ELSE n)
  BY <1>3, <1>4, TakesThen
<1>8. \A x \in Comp, j \in Addr : state_i # "ST_NTT" => bram[x][j] = SumOf(r, x, L, j)
  BY <1>2, Whole
<1>9. 0 \in Addr /\ K - 1 \in Addr /\ \A a \in 1 .. K - 2 : a \in Addr
  BY <1>1 DEF Numbers, Addr
<1>10. CASE First0 \/ First1
  <2>1. /\ Reader' = Reader /\ Reader \in Comp /\ state_i # "ST_NTT" /\ Read' = 1 /\ round' = r
        /\ read_addr[Reader] = 0
    BY <1>1, <1>6, <1>10 DEF First0, First1, Reader, Read, Reading
  <2>2. dout'[Reader'] = SumOf(r, Reader, L, 0)
    BY <1>6, <1>8, <1>9, <2>1
  <2>3. 1 - 1 = 0 /\ ~(1 > 1)
    OBVIOUS
  <2> QED
    BY <2>1, <2>2, <2>3 DEF Stages
<1>11. CASE Next0 \/ Next1
  <2>1. PICK a \in 1 .. K - 2 : a = Read
    BY <1>11 DEF Next0, Next1
  <2>2. /\ Reader' = Reader /\ Reader \in Comp /\ state_i # "ST_NTT" /\ Read' = a + 1 /\ round' = r
        /\ read_addr[Reader] = a /\ state_i' = state_i /\ ~Last0 /\ ~Last1
    BY <1>6, <1>11, <2>1 DEF Next0, Next1, Reader, Read, Comp, Last0, Last1
  <2>3. dout'[Reader'] = SumOf(r, Reader, L, a)
    BY <1>6, <1>8, <1>9, <2>2
  <2>4. o_poly_d'[Reader'] = SumOf(r, Reader, L, a - 1)
    <3>1. a > 0
      OBVIOUS
    <3>2. dout[Reader] = SumOf(r, Reader, L, a - 1)
      BY <1>1, <1>2, <2>1, <3>1 DEF Stages
    <3> QED
      BY <1>6, <2>2, <3>2
  <2>5. Ended' = e
    BY <1>5, <2>2, EndedMoves
  <2>6. taken' = e /\ out' = a - 1
    <3>1. CASE a = 1
      <4>1. Read = 1 /\ Read =< 1 /\ Read # 2
        BY <2>1, <3>1
      <4>2. (n = e /\ o = 0) \/ (n + 1 = e /\ o = K - 1)
        <5>1. \/ n = e /\ o = 0
              \/ LastWords(round, 0) /\ o # K - 2
          BY <1>1, <1>3, <1>4, <1>5, <2>2, <4>1 DEF Output
        <5> QED
          BY <1>3, <1>4, <1>5, <5>1 DEF LastWords
      <4>3. K - 1 # 0 /\ K - 1 > 0
        BY <1>1 DEF Numbers
      <4> QED
        BY <1>7, <3>1, <4>1, <4>2, <4>3
    <3>2. CASE a # 1
      <4>1. Read > 1
        BY <2>1, <3>2
      <4>2. n = e /\ o = a - 2
        BY <1>1, <1>3, <1>4, <1>5, <2>1, <4>1 DEF Stages
      <4>3. a - 2 # K - 1 /\ (a - 2) + 1 = a - 1 /\ (a = 2 \/ a - 2 > 0)
        BY <1>1, <3>2 DEF Numbers
      <4> QED
        BY <1>7, <2>1, <4>2, <4>3
    <3> QED
      BY <3>1, <3>2
  <2>7. (a + 1) - 1 = a /\ (a + 1) - 2 = a - 1
    OBVIOUS
  <2> QED
    BY <2>2, <2>3, <2>4, <2>5, <2>6, <2>7 DEF Stages
<1>12. CASE Idle \/ Last0 \/ Awaits1 \/ Last1
  <2>1. Read' = 0
    BY <1>12 DEF Idle, Last0, Awaits1, Last1
  <2> QED
    BY <2>1 DEF Stages
<1> QED
  BY <1>10, <1>11, <1>12, ReadSteps

\* The last two words of a sum are still counted when it is no longer read, and the next sum does
\* not come before.
LEMMA OutputStep ==
  ASSUME IInv, NEW wen \in SUBSET Comp, NEW ask \in BOOLEAN, Clock(wen, ask)
  PROVE  Output'
<1>1. Shape /\ Reading /\ Stages /\ Output /\ Numbers /\ 0 \in Comp /\ 1 \in Comp /\ Product(0)
  BY ConstantsFit DEF IInv, Comp
<1>2. PICK r \in Nat : r = round
  BY <1>1 DEF Shape
<1>3. PICK n \in Nat : n = taken
  BY <1>1 DEF Shape
<1>4. PICK o \in Addr : o = out
  BY <1>1 DEF Shape
<1>5. PICK e \in Nat : e = Ended
  BY EndedMoves
<1>6. /\ o_poly_d' = dout
      /\ \A x \in Comp : dout'[x] = bram[x][read_addr[x]]
      /\ round' = IF RoundOver THEN r + 1 ELSE r
  BY <1>2, OutputMoves
<1>7. /\ out' = (IF Read = 2 \/ o > 0 THEN (IF o = K - 1 THEN 0 ELSE o + 1) ELSE 0)
      /\ taken' = (IF (Read = 2 \/ o > 0) /\ o = K - 1 THEN n + 1 ELSE n)
  BY <1>3, <1>4, TakesThen
<1>8. \A x \in Comp, j \in Addr : state_i # "ST_NTT" => bram[x][j] = SumOf(r, x, L, j)
  BY <1>2, Whole
<1>9. K - 1 > 0 /\ K - 2 > 0 /\ K - 1 # K - 2 /\ (K - 2) + 1 = K - 1 /\ (K - 3) + 1 = K - 2 /\ K - 3 > 0
      /\ K - 3 # K - 1 /\ (K - 1) - 2 = K - 3 /\ (K - 1) - 1 = K - 2 /\ K - 1 > 1 /\ K - 1 \in Addr
  BY <1>1 DEF Numbers, Addr
<1>10. 0 =< 1 /\ 0 # 2 /\ ~(0 > 0)
  OBVIOUS
\* The words on the way when an accumulator has been read.
<1>11. ASSUME NEW x \in Comp, Reader = x, Read = K - 1, read_addr[x] = K - 1, state_i # "ST_NTT", Ended' = e + 1
       PROVE  LastWords(r, x)' /\ out' = K - 2 /\ taken' = n
  <2>1. n = e /\ o = K - 3 /\ dout[x] = SumOf(r, x, L, K - 2)
    BY <1>1, <1>2, <1>3, <1>4, <1>5, <1>9, <1>11 DEF Stages
  <2>2. out' = K - 2 /\ taken' = n
    BY <1>7, <1>9, <2>1
  <2>3. dout'[x] = SumOf(r, x, L, K - 1)
    BY <1>6, <1>8, <1>9, <1>11
  <2> QED
    BY <1>6, <1>11, <2>1, <2>2, <2>3 DEF LastWords
\* And how they come out.
<1>12. ASSUME NEW x \in Comp, NEW s, LastWords(s, x), Ended' = e, Read = 0
       PROVE  \/ o = K - 1 /\ taken' = Ended' /\ out' = 0
              \/ o = K - 2 /\ LastWords(s, x)' /\ out' = K - 1
  <2>1. n + 1 = e /\ (o = K - 1 \/ o = K - 2)
    BY <1>3, <1>4, <1>5, <1>12 DEF LastWords
  <2>2. CASE o = K - 1
    BY <1>7, <1>9, <1>12, <2>1, <2>2
  <2>3. CASE o = K - 2
    <3>1. out' = K - 1 /\ taken' = n
      BY <1>7, <1>9, <2>3
    <3>2. o_poly_d'[x] = SumOf(s, x, L, K - 1)
      BY <1>4, <1>6, <1>12, <2>3 DEF LastWords
    <3> QED
      BY <1>9, <1>12, <2>1, <2>3, <3>1, <3>2 DEF LastWords
  <2> QED
    BY <2>1, <2>2, <2>3
<1>13. Read = 0 /\ n = e /\ o = 0 /\ Ended' = e => taken' = Ended' /\ out' = 0
  BY <1>7, <1>9, <1>10
<1>a. CASE Idle
  <2>1. Read = 0 /\ ~Last0 /\ ~Last1 /\ state_i # "ST_INTT_3" /\ round' = r /\ ~RoundOver
    BY <1>6, <1>a DEF Idle, Waiting, Last0, Last1
  <2>2. Ended' = e
    BY <1>5, <2>1, EndedMoves
  <2>3. CASE n = e /\ o = 0
    BY <1>13, <2>1, <2>2, <2>3 DEF Output
  <2>4. CASE ~(n = e /\ o = 0)
    <3>1. state_i = "ST_NTT" /\ LastWords(r - 1, 1) /\ ctr[0] = 0 /\ (o = K - 2 => given[0] = 0)
      BY <1>1, <1>2, <1>3, <1>4, <1>5, <1>10, <2>1, <2>4 DEF Output
    <3>2. ~AllIn
      BY <1>1, <3>1 DEF AllIn, Numbers
    <3>3. state_i' = "ST_NTT"
      BY <3>1, <3>2, StateMoves
    <3>4. \/ o = K - 1 /\ taken' = Ended' /\ out' = 0
          \/ o = K - 2 /\ LastWords(r - 1, 1)' /\ out' = K - 1
      BY <1>1, <1>12, <2>1, <2>2, <3>1
    <3>5. o = K - 2 => ctr'[0] = 0
      <4> SUFFICES ASSUME o = K - 2 PROVE ctr'[0] = 0
        OBVIOUS
      <4>1. pos[0] # K + ADD_LAT
        <5>1. pos[0] \in Nat /\ given[0] = 0
          BY <1>1, <3>1 DEF Shape
        <5>2. Left(0)
          BY <5>1, <1>1 DEF Product
        <5> QED
          BY <1>1, <5>1, <5>2 DEF Left, Numbers
      <4>2. ctr'[0] = IF state_i = "ST_NTT" /\ ~AllIn
                      THEN IF pos[0] = K + ADD_LAT THEN ctr[0] + 1 ELSE ctr[0]
                      ELSE 0
        BY <1>1, CountersMove
      <4> QED
        BY <3>1, <4>1, <4>2
    <3> QED
      BY <1>9, <2>1, <3>3, <3>4, <3>5 DEF Output, LastWords
  <2> QED
    BY <2>3, <2>4
<1>b. CASE First0
  <2>1. Read = 0 /\ ~Last0 /\ ~Last1 /\ state_i = "ST_INTT_1"
    BY <1>b DEF First0, Last0, Last1
  <2>2. Ended' = e
    BY <1>5, <2>1, EndedMoves
  <2>3. n = e /\ o = 0
    BY <1>1, <1>3, <1>4, <1>5, <1>10, <2>1 DEF Output
  <2> QED
    BY <1>13, <2>1, <2>2, <2>3 DEF Output
<1>c. CASE Next0 \/ Next1
  <2>1. PICK a \in 1 .. K - 2 : Read' = a + 1
    BY <1>c DEF Next0, Next1
  <2>2. ~(Read' =< 1)
    BY <2>1
  <2> QED
    BY <2>2 DEF Output
<1>d. CASE Last0
  <2>1. Reader = 0 /\ Read = K - 1 /\ read_addr[0] = K - 1 /\ round' = r /\ state_i # "ST_NTT" /\ state_i' = "ST_INTT_3" /\ Read' = 0
    BY <1>6, <1>d DEF Last0, Reader, Read
  <2>2. Ended' = e + 1
    BY <1>5, <1>d, EndedMoves
  <2>3. LastWords(r, 0)' /\ out' = K - 2
    BY <1>1, <1>11, <2>1, <2>2
  <2> QED
    BY <2>1, <2>3 DEF Output, LastWords
<1>e. CASE Awaits1 \/ First1
  <2>1. Read = 0 /\ ~Last0 /\ ~Last1 /\ state_i = "ST_INTT_3" /\ state_i' = "ST_INTT_3" /\ round' = r
    BY <1>6, <1>e DEF Awaits1, First1, Last0, Last1
  <2>2. Ended' = e
    BY <1>5, <2>1, EndedMoves
  <2>3. CASE n = e /\ o = 0
    BY <1>13, <2>1, <2>2, <2>3 DEF Output
  <2>4. CASE ~(n = e /\ o = 0)
    <3>1. LastWords(r, 0)
      BY <1>1, <1>2, <1>3, <1>4, <1>5, <1>10, <2>1, <2>4 DEF Output
    <3>2. \/ taken' = Ended' /\ out' = 0
          \/ LastWords(r, 0)' /\ out' = K - 1
      BY <1>1, <1>12, <2>1, <2>2, <3>1
    <3> QED
      BY <1>9, <2>1, <3>2 DEF Output, LastWords
  <2> QED
    BY <2>3, <2>4
<1>h. CASE Last1
  <2>1. Reader = 1 /\ Read = K - 1 /\ read_addr[1] = K - 1 /\ round' = r + 1 /\ state_i # "ST_NTT" /\ state_i' = "ST_NTT" /\ Read' = 0
    BY <1>6, <1>h DEF Last1, Reader, Read
  <2>2. Ended' = e + 1
    BY <1>5, <1>h, EndedMoves
  <2>3. LastWords(r, 1)' /\ out' = K - 2
    BY <1>1, <1>11, <2>1, <2>2
  <2>4. ctr'[0] = 0 /\ given'[0] = 0
    <3>1. RoundOver
      BY <1>h DEF Last1
    <3> QED
      BY <1>1, <2>1, <3>1, CountersMove
  <2>5. round' - 1 = r
    BY <2>1
  <2> QED
    BY <2>1, <2>3, <2>4, <2>5 DEF Output, LastWords
<1> QED
  BY <1>a, <1>b, <1>c, <1>d, <1>e, <1>h, ReadSteps

-----------------------------------------------------------------------------
(***************************************************************************)
(* The invariant, and what follows from it.                                *)
(***************************************************************************)
LEMMA ShapeStep ==
  ASSUME IInv, NEW wen \in SUBSET Comp, NEW ask \in BOOLEAN, Clock(wen, ask)
  PROVE  Shape'
<1>1. Shape /\ Numbers /\ \A x \in Comp : Product(x)
  BY ConstantsFit DEF IInv
<1>2. state_i' \in {"ST_NTT", "ST_INTT_1", "ST_INTT_2", "ST_INTT_3"}
  BY <1>1, StateMoves DEF Shape
<1>3. state_o' \in {"ST_0", "ST_1"}
  BY <1>1, OutputMoves DEF Shape, NextOutput
<1>4. given' \in [Comp -> 0 .. L]
  <2>1. given' = [x \in Comp |-> given'[x]]
    BY DEF Clock, Units
  <2>2. ASSUME NEW x \in Comp PROVE given'[x] \in 0 .. L
    <3>1. PICK g \in 0 .. L : g = given[x]
      BY <1>1 DEF Shape
    <3>2. given'[x] = IF RoundOver THEN 0 ELSE IF x \in wen THEN g + 1 ELSE g
      BY <3>1 DEF Clock, Units
    <3>3. x \in wen => g < L
      BY <3>1 DEF Clock, Units, Begins
    <3> QED
      BY <1>1, <3>2, <3>3 DEF Numbers
  <2> QED
    BY <2>1, <2>2
<1>5. pos' \in [Comp -> 1 .. K + Gap]
  <2>1. pos' = [x \in Comp |-> pos'[x]]
    BY DEF Clock, Units
  <2>2. ASSUME NEW x \in Comp PROVE pos'[x] \in 1 .. K + Gap
    <3>1. PICK p \in 1 .. K + Gap : p = pos[x]
      BY <1>1 DEF Shape
    <3>2. pos'[x] = IF x \in wen THEN 1 ELSE IF p < K + Gap THEN p + 1 ELSE p
      BY <3>1 DEF Clock, Units
    <3> QED
      BY <1>1, <3>2 DEF Numbers
  <2> QED
    BY <2>1, <2>2
<1>6. ctr' \in [Comp -> Nat]
  <2>1. ctr' = [x \in Comp |-> NextCtr(x)]
    BY DEF Clock, Wrapper
  <2>2. ASSUME NEW x \in Comp PROVE NextCtr(x) \in Nat
    <3>1. ctr[x] \in Nat
      BY <1>1 DEF Shape
    <3> QED
      BY <3>1 DEF NextCtr
  <2> QED
    BY <2>1, <2>2
<1>7. \A c \in Addr, b \in BOOLEAN : Counter(c, b) \in Addr
  <2> SUFFICES ASSUME NEW c \in Addr, NEW b \in BOOLEAN PROVE Counter(c, b) \in Addr
    OBVIOUS
  <2>1. (c + 1) % K = IF c = K - 1 THEN 0 ELSE c + 1
    BY <1>1, Wraps DEF Addr, Numbers
  <2>2. 0 \in Addr /\ (c # K - 1 => c + 1 \in Addr)
    BY <1>1 DEF Addr, Numbers
  <2> QED
    BY <2>1, <2>2 DEF Counter
<1>8. read_addr' \in [Comp -> Addr]
  <2>1. read_addr' = [x \in Comp |-> Counter(read_addr[x], start_read(x, wen))]
    BY DEF Clock, Accumulator
  <2>2. ASSUME NEW x \in Comp PROVE Counter(read_addr[x], start_read(x, wen)) \in Addr
    <3>1. read_addr[x] \in Addr /\ start_read(x, wen) \in BOOLEAN
      BY <1>1 DEF Shape, start_read
    <3> HIDE DEF start_read
    <3> QED
      BY <1>7, <3>1
  <2> QED
    BY <2>1, <2>2
<1>9. write_addr' \in [Comp -> Addr]
  <2>1. write_addr' = [x \in Comp |-> Counter(write_addr[x], start_write(x))]
    BY DEF Clock, Accumulator
  <2>2. ASSUME NEW x \in Comp PROVE Counter(write_addr[x], start_write(x)) \in Addr
    <3>1. write_addr[x] \in Addr
      BY <1>1 DEF Shape
    <3>2. start_write(x) \in BOOLEAN
      <4>1. wen_line[x] \in [1 .. ADD_LAT + 1 -> BOOLEAN] /\ ADD_LAT + 1 \in Nat \ {0} /\ ADD_LAT + 1 \in 1 .. ADD_LAT + 1
        BY <1>1 DEF Shape, Numbers
      <4>2. Len(wen_line[x]) = ADD_LAT + 1
        BY <4>1
      <4> QED
        BY <4>1, <4>2 DEF start_write, Out
    <3> QED
      BY <1>7, <3>1, <3>2
  <2> QED
    BY <2>1, <2>2
<1>10. wen_line' \in [Comp -> [1 .. ADD_LAT + 1 -> BOOLEAN]]
  <2>1. wen_line' = [x \in Comp |-> Shift(wen_line[x], x \in wen)]
    BY DEF Clock, Accumulator
  <2>2. ASSUME NEW x \in Comp PROVE Shift(wen_line[x], x \in wen) \in [1 .. ADD_LAT + 1 -> BOOLEAN]
    <3>1. wen_line[x] \in [1 .. ADD_LAT + 1 -> BOOLEAN] /\ ADD_LAT + 1 \in Nat \ {0}
      BY <1>1 DEF Shape, Numbers
    <3>2. wen_line[x] = [n \in 1 .. ADD_LAT + 1 |-> wen_line[x][n]]
      BY <3>1
    <3>3. Shift(wen_line[x], x \in wen) = Moved(x \in wen, wen_line[x], ADD_LAT + 1)
      BY <3>1, <3>2, LineShift DEF Shift
    <3>4. \A n \in 1 .. ADD_LAT + 1 : n # 1 => n - 1 \in 1 .. ADD_LAT + 1
      BY <3>1
    <3>5. (x \in wen) \in BOOLEAN
      OBVIOUS
    <3>6. \A n \in 1 .. ADD_LAT + 1 : (IF n = 1 THEN x \in wen ELSE wen_line[x][n - 1]) \in BOOLEAN
      BY <3>1, <3>4, <3>5
    <3> QED
      BY <3>3, <3>6 DEF Moved
  <2> QED
    BY <2>1, <2>2
<1>11. ren_line' \in [1 .. READ_DELAY -> BOOLEAN]
  <2> DEFINE b == state_i = "ST_INTT_2" /\ done(0)
  <2>1. ren_line' = Shift(ren_line, b)
    BY DEF Clock, Wrapper
  <2>2. b \in BOOLEAN
    OBVIOUS
  <2> HIDE DEF b
  <2>3. READ_DELAY \in Nat \ {0} /\ ren_line \in [1 .. READ_DELAY -> BOOLEAN]
    BY <1>1, DelayAssumption DEF Shape
  <2>4. ren_line = [n \in 1 .. READ_DELAY |-> ren_line[n]]
    BY <2>3
  <2>5. ren_line' = Moved(b, ren_line, READ_DELAY)
    BY <2>1, <2>3, <2>4, LineShift DEF Shift
  <2>6. \A n \in 1 .. READ_DELAY : n # 1 => n - 1 \in 1 .. READ_DELAY
    BY <2>3
  <2> QED
    BY <2>2, <2>3, <2>5, <2>6 DEF Moved
<1>12. add' = [x \in Comp |-> [n \in 1 .. ADD_LAT |-> add'[x][n]]]
  <2> DEFINE v(x) == (IF first_q[x] THEN None ELSE dout[x]) \o A_q[x]
  <2>1. add' = [x \in Comp |-> Shift(add[x], v(x))]
    BY DEF Clock, Accumulator
  <2> HIDE DEF v
  <2>2. ASSUME NEW x \in Comp PROVE Shift(add[x], v(x)) = Moved(v(x), add[x], ADD_LAT)
    <3>1. add[x] = [n \in 1 .. ADD_LAT |-> add[x][n]] /\ ADD_LAT \in Nat \ {0}
      BY <1>1 DEF Shape, Numbers
    <3> QED
      BY <3>1, LineShift DEF Shift
  <2>3. add' = [x \in Comp |-> Moved(v(x), add[x], ADD_LAT)]
    BY <2>1, <2>2
  <2>4. ASSUME NEW x \in Comp PROVE add'[x] = [n \in 1 .. ADD_LAT |-> add'[x][n]]
    BY <2>3 DEF Moved
  <2> QED
    BY <2>3, <2>4
<1>13. bram' = [x \in Comp |-> [i \in Addr |-> bram'[x][i]]]
  <2>1. bram' = [x \in Comp |-> IF bram_wen(x) THEN [bram[x] EXCEPT ![write_addr[x]] = Out(add[x])] ELSE bram[x]]
    BY DEF Clock, Accumulator
  <2>2. ASSUME NEW x \in Comp PROVE bram'[x] = [i \in Addr |-> bram'[x][i]]
    <3>1. bram[x] = [i \in Addr |-> bram[x][i]]
      BY <1>1 DEF Shape
    <3>2. bram'[x] = IF bram_wen(x) THEN [bram[x] EXCEPT ![write_addr[x]] = Out(add[x])] ELSE bram[x]
      BY <2>1
    <3>3. CASE bram_wen(x)
      <4> DEFINE f == [bram[x] EXCEPT ![write_addr[x]] = Out(add[x])]
      <4>1. f = [i \in Addr |-> f[i]]
        BY <3>1
      <4> HIDE DEF f
      <4>2. bram'[x] = f
        BY <3>2, <3>3 DEF f
      <4> QED
        BY <4>1, <4>2
    <3>4. CASE ~bram_wen(x)
      BY <3>1, <3>2, <3>4
    <3> QED
      BY <3>3, <3>4
  <2> QED
    BY <2>1, <2>2
<1>14. round' \in Nat
  <2>1. round' = IF RoundOver THEN round + 1 ELSE round
    BY DEF Clock, Units
  <2> QED
    BY <1>1, <2>1 DEF Shape
<1>15. taken' \in Nat /\ out' \in Addr
  <2>1. PICK o \in Addr : o = out
    BY <1>1 DEF Shape
  <2>2. 0 \in Addr /\ (o # K - 1 => o + 1 \in Addr)
    BY <1>1 DEF Addr, Numbers
  <2>3. taken \in Nat
    BY <1>1 DEF Shape
  <2> QED
    BY <2>1, <2>2, <2>3, TakesThen
<1> QED
  BY <1>2, <1>3, <1>4, <1>5, <1>6, <1>8, <1>9, <1>10, <1>11, <1>12, <1>13, <1>14, <1>15 DEF Shape

\* The invariant holds after a reset.
LEMMA InitIInv == Init => IInv
<1> SUFFICES ASSUME Init PROVE IInv
  OBVIOUS
<1>1. Numbers
  BY ConstantsFit
<1>2. K + ADD_LAT < K + Gap /\ K + Gap \in 1 .. K + Gap /\ 0 \in Addr /\ ~(K + Gap < K) /\ ~(K + Gap =< K)
  BY <1>1 DEF Numbers, Addr
<1>3. READ_DELAY \in Nat \ {0}
  BY DelayAssumption
<1>4. Shape
  <2>1. state_i \in {"ST_NTT", "ST_INTT_1", "ST_INTT_2", "ST_INTT_3"} /\ state_o \in {"ST_0", "ST_1"}
    BY DEF Init
  <2>2. given \in [Comp -> 0 .. L] /\ pos \in [Comp -> 1 .. K + Gap] /\ ctr \in [Comp -> Nat]
    BY <1>1, <1>2 DEF Init, Numbers
  <2>3. read_addr \in [Comp -> Addr] /\ write_addr \in [Comp -> Addr]
    BY <1>2 DEF Init
  <2>4. wen_line \in [Comp -> [1 .. ADD_LAT + 1 -> BOOLEAN]] /\ ren_line \in [1 .. READ_DELAY -> BOOLEAN]
    BY DEF Init, Line
  <2>5. add = [x \in Comp |-> [n \in 1 .. ADD_LAT |-> add[x][n]]] /\ bram = [x \in Comp |-> [i \in Addr |-> bram[x][i]]]
    BY DEF Init, Line
  <2>6. round \in Nat /\ taken \in Nat /\ out \in Addr
    BY <1>2 DEF Init
  <2> QED
    BY <2>1, <2>2, <2>3, <2>4, <2>5, <2>6 DEF Shape
<1>5. ASSUME NEW x \in Comp PROVE Product(x) /\ Data(x)
  <2>1. pos[x] = K + Gap /\ given[x] = 0 /\ ctr[x] = 0 /\ read_addr[x] = 0 /\ write_addr[x] = 0 /\ ~first_q[x]
    BY <1>5 DEF Init
  <2>2. Left(x)
    BY <1>2, <2>1 DEF Left
  <2>3. \A i \in 1 .. ADD_LAT + 1 : ~wen_line[x][i] /\ pos[x] # i
    BY <1>1, <2>1 DEF Init, Line, Numbers
  <2>4. Product(x)
    <3>1. state_i = "ST_NTT"
      BY DEF Init
    <3> QED
      BY <1>2, <2>1, <2>2, <2>3, <3>1 DEF Product
  <2>5. \A i \in 1 .. ADD_LAT : ~(pos[x] =< K + i)
    BY <1>1, <2>1 DEF Numbers
  <2> QED
    BY <1>2, <2>1, <2>4, <2>5 DEF Data
<1>6. Read = 0 /\ Reader = 0 /\ Ended = 0
  BY DEF Init, Read, Reader, Ended
<1>7. Reading /\ Valid
  <2>1. \A i \in 1 .. READ_DELAY : ~ren_line[i]
    BY DEF Init, Line
  <2>2. ~o_valid_x[0] /\ ~o_valid_x[1] /\ ~o_valid_d[0] /\ ~o_valid_d[1]
    BY DEF Init, Comp
  <2>3. state_i = "ST_NTT" /\ state_o = "ST_0" /\ round = 0
    BY DEF Init
  <2>4. Reading
    BY <2>1, <2>3 DEF Reading
  <2>5. Valid
    BY <1>6, <2>2, <2>3 DEF Valid
  <2> QED
    BY <2>4, <2>5
<1>8. Stages /\ Output
  BY <1>6 DEF Init, Stages, Output
<1> QED
  BY <1>4, <1>5, <1>7, <1>8 DEF IInv

\* Every edge keeps it.
LEMMA StepIInv == IInv /\ [Next]_vars => IInv'
<1> SUFFICES ASSUME IInv, [Next]_vars PROVE IInv'
  OBVIOUS
<1>1. ASSUME NEW wen \in SUBSET Comp, NEW ask \in BOOLEAN, Clock(wen, ask) PROVE IInv'
  <2>1. \A x \in Comp : Product(x)' /\ Data(x)'
    BY <1>1, ProductStep, DataStep
  <2>2. Shape' /\ Reading' /\ Valid' /\ Stages' /\ Output'
    BY <1>1, ShapeStep, ReadingStep, ValidStep, StagesStep, OutputStep
  <2> QED
    BY <2>1, <2>2 DEF IInv
<1>2. CASE UNCHANGED vars
  <2>1. /\ UNCHANGED <<state_i, ctr, ren_line, state_o, o_poly_d, o_valid_d>>
        /\ UNCHANGED <<read_addr, write_addr, first_q, o_valid_x, wen_line, A_q, dout, add, bram>>
        /\ UNCHANGED <<given, pos, round, taken, out>>
    BY <1>2 DEF vars, wrapVars, accVars, unitVars
  <2>2. Shape'
    BY <2>1 DEF IInv, Shape
  <2>3. \A x \in Comp : Product(x)' /\ Data(x)'
    BY <2>1 DEF IInv, Product, Data, Left
  <2>4. Reading' /\ Read' = Read /\ Reader' = Reader /\ Ended' = Ended
    BY <2>1 DEF IInv, Reading, Read, Reader, Ended
  <2>5. Valid' /\ Stages'
    BY <2>1, <2>4 DEF IInv, Valid, Stages
  <2>6. Output'
    BY <2>1, <2>4 DEF IInv, Output, LastWords
  <2> QED
    BY <2>2, <2>3, <2>4, <2>5, <2>6 DEF IInv
<1> QED
  BY <1>1, <1>2 DEF Next

\* However many products and words, and whatever the latency of the adder: the places named by the
\* counters hold what the counters say.
THEOREM Invariant == Spec => []IInv
<1> QED
  BY InitIInv, StepIInv, PTL DEF Spec

\* However many products and words: when no product is on its way, the counter of an accumulator is
\* the number of products in every word of its BRAM (relin_accum_wrapper.sv:83-110).
THEOREM CountsCorrect == Spec => []CountsProducts
<1>1. IInv => CountsProducts
  <2> SUFFICES ASSUME IInv, NEW x \in Comp,
                      pos[x] >= K, write_addr[x] = 0, \A i \in 1 .. ADD_LAT + 1 : ~wen_line[x][i], state_i = "ST_NTT"
               PROVE  ctr[x] = given[x] /\ (ctr[x] > 0 => \A i \in Addr : bram[x][i] = SumOf(round, x, ctr[x], i))
    BY DEF CountsProducts
  <2>1. Shape /\ Product(x) /\ Data(x) /\ Numbers
    BY ConstantsFit DEF IInv
  <2>2. PICK p \in 1 .. K + Gap : p = pos[x]
    BY <2>1 DEF Shape
  <2>3. K + ADD_LAT < p
    BY <2>1, <2>2 DEF Product, Left, Numbers
  <2>4. ctr[x] = given[x]
    BY <2>1, <2>2, <2>3 DEF Product, Left
  <2>5. \A j \in Addr : j + (ADD_LAT + 1) < p
    BY <2>1, <2>3 DEF Numbers, Addr
  <2> QED
    BY <2>1, <2>2, <2>4, <2>5 DEF Data
<1> QED
  BY <1>1, Invariant, PTL

\* However many products and words: what comes out is the whole sum of the round, word by word, of
\* accumulator 0 and then of accumulator 1 (relin_accum_wrapper.sv:160-199).
THEOREM SumsCorrect == Spec => []SumsRight
<1>1. IInv => SumsRight
  <2> SUFFICES ASSUME IInv, Takes
               PROVE  o_poly = SumOf(taken \div 2, taken % 2, L, out) /\ (o_valid <=> out = 0)
    BY DEF SumsRight
  <2>1. Shape /\ Valid /\ Stages /\ Output /\ Numbers
    BY ConstantsFit DEF IInv
  <2>2. PICK r \in Nat : r = round
    BY <2>1 DEF Shape
  <2>3. PICK n \in Nat : n = taken
    BY <2>1 DEF Shape
  <2>4. PICK o \in Addr : o = out
    BY <2>1 DEF Shape
  <2>5. o_valid <=> Read = 2
    BY ValidNow
  <2>6. Read \in Nat
    BY <2>1 DEF Read, Reader, Shape, Addr, Comp
  <2>7. o_poly = o_poly_d[Selected]
    BY DEF o_poly
  <2>8. CASE Read > 1
    <3>1. Reader \in Comp /\ state_i \in {"ST_INTT_2", "ST_INTT_3"}
      BY <2>8 DEF Read, Reader, Comp
    <3>2. Selected = Reader
      BY <2>1, <2>6, <2>8, <3>1 DEF Valid, Selected, Reader
    <3>3. n = 2 * r + Reader /\ o = Read - 2 /\ o_poly_d[Reader] = SumOf(r, Reader, L, o)
      BY <2>1, <2>2, <2>3, <2>4, <2>8 DEF Stages, Ended
    <3>4. n \div 2 = r /\ n % 2 = Reader
      BY <3>1, <3>3 DEF Comp
    <3>5. Read = 2 <=> o = 0
      BY <2>6, <2>8, <3>3
    <3> QED
      BY <2>3, <2>4, <2>5, <2>7, <3>2, <3>3, <3>4, <3>5
  <2>9. CASE Read =< 1
    <3>1. Read # 2 /\ o > 0 /\ ~o_valid
      BY <2>4, <2>5, <2>9 DEF Takes
    <3>2. CASE state_i = "ST_INTT_3" /\ LastWords(round, 0)
      <4>1. Selected = 0
        BY <2>1, <2>6, <2>9, <3>2 DEF Valid, Selected
      <4>2. n + 1 = 2 * r + 1 /\ o_poly_d[0] = SumOf(r, 0, L, o)
        BY <2>2, <2>3, <2>4, <3>2 DEF LastWords, Ended, Reader
      <4>3. n \div 2 = r /\ n % 2 = 0
        BY <4>2
      <4> QED
        BY <2>3, <2>4, <2>7, <3>1, <4>1, <4>2, <4>3
    <3>3. CASE state_i = "ST_NTT" /\ LastWords(round - 1, 1)
      <4>1. n + 1 = 2 * r /\ o_poly_d[1] = SumOf(r - 1, 1, L, o)
        BY <2>2, <2>3, <2>4, <3>3 DEF LastWords, Ended, Reader
      <4>2. r > 0 /\ n \div 2 = r - 1 /\ n % 2 = 1
        <5>1. r - 1 \in Nat /\ n = 2 * (r - 1) + 1
          BY <4>1
        <5> QED
          BY <5>1
      <4>3. Selected = 1
        BY <2>1, <2>2, <2>9, <3>3, <4>2 DEF Valid, Selected
      <4> QED
        BY <2>3, <2>4, <2>7, <3>1, <4>1, <4>2, <4>3
    <3> QED
      BY <2>1, <2>4, <2>9, <3>1, <3>2, <3>3 DEF Output
  <2> QED
    BY <2>6, <2>8, <2>9
<1> QED
  BY <1>1, Invariant, PTL
=============================================================================
