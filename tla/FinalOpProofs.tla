---------------------------- MODULE FinalOpProofs ----------------------------
(***************************************************************************)
(* Theorems about FinalOp for every number of words and every latency: the *)
(* kept polynomials are written whole, and the three paths of a word meet. *)
(***************************************************************************)
EXTENDS FinalOp, Integers, SequenceTheorems, TLAPS

-----------------------------------------------------------------------------
(***************************************************************************)
(* Delay lines.                                                            *)
(***************************************************************************)
\* A delay line with the places d, when b comes in and what is in the last place goes out.
Moved(b, d, N) == [n \in 1 .. N |-> IF n = 1 THEN b ELSE d[n - 1]]

\* Whatever is in the places of a line, it moves by one.
LEMMA LineShift ==
  ASSUME NEW N \in Nat \ {0}, NEW l, l = [n \in 1 .. N |-> l[n]], NEW x
  PROVE  /\ Len(l) = N
         /\ <<x>> \o SubSeq(l, 1, Len(l) - 1) = Moved(x, l, N)
<1> DEFINE S == {x} \cup {l[n] : n \in 1 .. N}
           s == SubSeq(l, 1, N - 1)
           t == Moved(x, l, N)
<1>1. l \in [1 .. N -> S] /\ x \in S
  OBVIOUS
<1> HIDE DEF S
<1>2. l \in Seq(S) /\ Len(l) = N
  BY <1>1
<1>3. s \in Seq(S) /\ Len(s) = N - 1 /\ \A n \in 1 .. N - 1 : s[n] = l[n]
  BY <1>2, SubSeqProperties
<1>4. <<x>> \in Seq(S) /\ Len(<<x>>) = 1 /\ <<x>>[1] = x
  BY <1>1
<1>5. /\ <<x>> \o s \in Seq(S) /\ Len(<<x>> \o s) = N
      /\ \A n \in 1 .. N : (<<x>> \o s)[n] = IF n =< 1 THEN <<x>>[n] ELSE s[n - 1]
  <2> HIDE DEF s
  <2> QED
    BY <1>3, <1>4, ConcatProperties
<1>6. t \in Seq(S) /\ Len(t) = N
  <2>1. t \in [1 .. N -> S]
    BY <1>1 DEF Moved
  <2> QED
    BY <2>1
<1>7. \A n \in 1 .. N : (<<x>> \o s)[n] = t[n]
  BY <1>3, <1>4, <1>5 DEF Moved
<1> QED
  <2> HIDE DEF s, t
  <2>1. <<x>> \o s = t
    BY <1>5, <1>6, <1>7, SeqEqual
  <2> QED
    BY <1>2, <2>1 DEF s, t

-----------------------------------------------------------------------------
(***************************************************************************)
(* The inductive invariant. First, the two polynomials that are kept.      *)
(***************************************************************************)
Poly       == 0 .. MaxPolys - 1
Kept(n, i) == AddHalf(A(n, i))
Full(n)    == \A i \in Addr : bram[n][i] = Kept(n, i)

\* Polynomial n is in the BRAM up to write_addr, and its other words, as far as they are in the adder, are
\* where their write will find them.
Tail0(n) ==
  /\ \A i \in Addr : i < write_addr => bram[n][i] = Kept(n, i)
  /\ \A i \in 1 .. LAT_ADD : write_addr + LAT_ADD - i < K =>
       add[i] = Kept(n, write_addr + LAT_ADD - i) /\ offset_line[i] = n

\* Polynomials before n are in the BRAM, or the one before is being written.
Before(n) == IF write_addr = 0 THEN \A m \in Half : m < n => Full(m) ELSE n = 1 /\ Tail0(0)

\* No polynomial to be kept enters.
Rest ==
  /\ fsm = "ST_IDLE" /\ ~wen /\ ~last_q /\ read_addr = 0 /\ write_addr = 0 /\ pos >= K
  /\ \A m \in Half : m < given => Full(m)

\* A polynomial enters the adder, word last_ctr of it next.
Enters ==
  /\ last_q /\ given > 0 /\ last_ctr = read_addr /\ pos = read_addr + 1
  /\ A_line[1] = A(given - 1, read_addr)

Starts ==
  /\ Enters /\ wen /\ read_addr = 0 /\ Before(given - 1)
  /\ \/ fsm = "ST_IDLE" /\ write_addr = 0
     \/ fsm = "ST_WRITE_END" /\ write_addr \in K - LAT_ADD .. K - 1

Waits ==
  /\ Enters /\ ~wen /\ fsm = "ST_WRITE_INIT" /\ read_addr \in 1 .. LAT_ADD /\ Before(given - 1)
  /\ write_addr # 0 => write_addr >= K + read_addr - LAT_ADD
  /\ \A i \in 1 .. read_addr : add[i] = Kept(given - 1, read_addr - i) /\ offset_line[i] = given - 1

Writes ==
  /\ Enters /\ ~wen /\ fsm = "ST_WRITE_LOOP" /\ read_addr \in LAT_ADD + 1 .. K - 1
  /\ write_addr = read_addr - LAT_ADD /\ Tail0(given - 1) /\ \A m \in Half : m < given - 1 => Full(m)

Ends ==
  /\ ~wen /\ ~last_q /\ fsm = "ST_WRITE_END" /\ read_addr = 0 /\ given > 0
  /\ pos >= K /\ pos =< write_addr + LAT_ADD + 1
  /\ write_addr \in K - LAT_ADD .. K - 1 /\ Tail0(given - 1) /\ \A m \in Half : m < given - 1 => Full(m)

Keeping ==
  /\ given =< 2 /\ ~ren /\ ctr = given % 2 /\ (last <=> given < 2)
  /\ Rest \/ Starts \/ Waits \/ Writes \/ Ends

-----------------------------------------------------------------------------
(***************************************************************************)
(* Then the polynomials that meet them.                                    *)
(***************************************************************************)
Reading ==
  /\ given > 2 /\ ~last /\ ~last_q /\ ~wen /\ Full(0)
  /\ \/ fsm \in {"ST_IDLE", "ST_READ"} /\ write_addr = 0 /\ Full(1)
     \/ fsm = "ST_WRITE_END" /\ ren /\ write_addr = K - 1 /\ Tail0(1)
  /\ IF ren THEN fsm # "ST_READ" /\ read_addr = 0 /\ pos = 1
     ELSE IF fsm = "ST_READ" THEN read_addr > 0 /\ pos = read_addr + 1
     ELSE read_addr = 0 /\ pos >= K

\* Word j of polynomial n came i cycles ago: it is on the path of B, then in the adder, then at the output.
Word(i, n, j) ==
  IF i =< B_SHIFT THEN B_line[i] = B(n, j)
  ELSE IF i < LAT THEN add[i - B_SHIFT] = Result(n, j)
  ELSE C = Result(n, j)

Diff(n, j) == Sub(A(n, j), Kept(n % 2, j))

\* Each cycle after it has come a word has the same age on all paths.
Met ==
  /\ \A i \in 1 .. B_SHIFT : B_line[i] = None \/ \E n \in 2 .. given - 1, j \in Addr : B_line[i] = B(n, j)
  /\ \A n \in Poly, j \in Addr :
       /\ \A i \in 1 .. LAT_SUB0 + 2 : B_line[i] = B(n, j) => A_line[i] = A(n, j)
       /\ B_line[2] = B(n, j) => dout = Kept(n % 2, j)
       /\ \A i \in 1 .. LAT_SUB0 : B_line[2 + i] = B(n, j) => sub0[i] = Kept(n % 2, j)
       /\ \A i \in 1 .. LAT_SUB1 : B_line[LAT_SUB0 + 2 + i] = B(n, j) => sub1[i] = Diff(n, j)
       /\ \A i \in 1 .. LAT_MUL : B_line[LAT_SUB0 + 2 + LAT_SUB1 + i] = B(n, j) => mul[i] = Diff(n, j)

\* The word that has just come, and words one after the other.
Comes ==
  B_line[1] = IF given > 2 /\ (ren \/ fsm = "ST_READ") THEN B(given - 1, read_addr) ELSE None

Follow == \A i \in 2 .. LAT, n \in Poly, j \in 0 .. K - 2 : Word(i, n, j) => Word(i - 1, n, j + 1)

\* Results of which a word has been taken.
Begun == IF out > 0 THEN taken + 1 ELSE taken

First(i, n) == o_valid_line[i] /\ Word(i, n, 0)

\* The polynomials under way are those whose valid is, in order.
Valids ==
  /\ \A i \in 1 .. LAT : o_valid_line[i] => \E n \in Begun + 2 .. given - 1 : Word(i, n, 0)
  /\ \A n \in Begun + 2 .. given - 1 : \E i \in 1 .. LAT : First(i, n)
  /\ \A i, k \in 1 .. LAT, m, n \in Poly : i < k /\ First(i, m) /\ First(k, n) => m > n
  /\ out > 0 => Word(LAT, taken + 2, out) /\ taken + 2 < given
  /\ taken > 0 => taken + 2 =< given

LineOf(l, N) == l = [i \in 1 .. N |-> l[i]]

Types ==
  /\ last \in BOOLEAN /\ last_q \in BOOLEAN /\ wen \in BOOLEAN /\ ren \in BOOLEAN
  /\ ctr \in 0 .. 1 /\ read_addr \in Addr /\ write_addr \in Addr
  /\ given \in 0 .. MaxPolys /\ pos \in 0 .. K + Gap /\ taken \in Nat /\ out \in Addr
  /\ offset_q = (given + 1) % 2
  /\ o_valid_line \in [1 .. LAT -> BOOLEAN]
  /\ LineOf(A_line, A_SHIFT + 1) /\ LineOf(B_line, B_SHIFT) /\ LineOf(offset_line, LAT_ADD)
  /\ LineOf(sub0, LAT_SUB0) /\ LineOf(sub1, LAT_SUB1) /\ LineOf(mul, LAT_MUL) /\ LineOf(add, LAT_ADD)
  /\ DOMAIN bram = Half /\ \A h \in Half : DOMAIN bram[h] = Addr

IInv == Types /\ (Keeping \/ Reading) /\ Met /\ Comes /\ Follow /\ Valids

-----------------------------------------------------------------------------
(***************************************************************************)
(* What the constants say, and what a clock edge does to each register.    *)
(***************************************************************************)
LEMMA Sizes ==
  /\ K \in Nat /\ LAT_ADD \in Nat \ {0} /\ LAT_SUB0 \in Nat \ {0} /\ LAT_SUB1 \in Nat \ {0} /\ LAT_MUL \in Nat \ {0}
  /\ K > LAT_ADD + 1 /\ Gap \in Nat /\ Gap + 1 >= LAT_ADD /\ MaxPolys \in Nat /\ MaxPolys >= 2
BY LatencyAssumption, GapAssumption, BoundAssumption

\* The delays of the three paths: B waits as long as A takes through its delay and the units before the adder.
LEMMA Delays ==
  /\ A_SHIFT + 1 = LAT_SUB0 + 2 /\ B_SHIFT = LAT_SUB0 + 2 + LAT_SUB1 + LAT_MUL
  /\ LAT = B_SHIFT + LAT_ADD + 1 /\ B_SHIFT \in Nat /\ LAT \in Nat
BY Sizes DEF A_SHIFT, B_SHIFT, LAT, LAT_BRAM_READ

\* The word that enters at an edge.
Comer(v)   == IF v THEN given ELSE given - 1
Place(v)   == IF v THEN 0 ELSE pos
EntersA(v) == IF Place(v) < K THEN A(Comer(v), Place(v)) ELSE None
EntersB(v) == IF Place(v) < K /\ Comer(v) >= 2 THEN B(Comer(v), Place(v)) ELSE None

\* What moves at an edge in the delay lines and pipelines.
LEMMA LinesMove ==
  ASSUME Types, NEW v \in BOOLEAN, Clock(v)
  PROVE  /\ \A i \in 1 .. LAT_SUB0 + 2 : A_line'[i] = IF i = 1 THEN EntersA(v) ELSE A_line[i - 1]
         /\ \A i \in 1 .. B_SHIFT : B_line'[i] = IF i = 1 THEN EntersB(v) ELSE B_line[i - 1]
         /\ \A i \in 1 .. LAT_SUB0 : sub0'[i] = IF i = 1 THEN dout ELSE sub0[i - 1]
         /\ \A i \in 1 .. LAT_SUB1 : sub1'[i] = IF i = 1 THEN Sub(A_d, sub0[LAT_SUB0]) ELSE sub1[i - 1]
         /\ \A i \in 1 .. LAT_MUL : mul'[i] = IF i = 1 THEN sub1[LAT_SUB1] ELSE mul[i - 1]
         /\ \A i \in 1 .. LAT_ADD :
              add'[i] = IF i > 1 THEN add[i - 1]
                        ELSE IF last_q THEN AddHalf(A_d) ELSE Sum(mul[LAT_MUL], B_line[B_SHIFT])
         /\ \A i \in 1 .. LAT_ADD : offset_line'[i] = IF i = 1 THEN offset_q ELSE offset_line[i - 1]
         /\ \A i \in 1 .. LAT : o_valid_line'[i] <=> IF i = 1 THEN v /\ ~last ELSE o_valid_line[i - 1]
         /\ C' = add[LAT_ADD]
         /\ LineOf(A_line, A_SHIFT + 1)' /\ LineOf(B_line, B_SHIFT)' /\ LineOf(offset_line, LAT_ADD)'
         /\ LineOf(sub0, LAT_SUB0)' /\ LineOf(sub1, LAT_SUB1)' /\ LineOf(mul, LAT_MUL)' /\ LineOf(add, LAT_ADD)'
         /\ o_valid_line' \in [1 .. LAT -> BOOLEAN]
<1>0. /\ A_SHIFT + 1 = LAT_SUB0 + 2 /\ A_SHIFT + 1 \in Nat \ {0} /\ B_SHIFT \in Nat \ {0} /\ LAT \in Nat \ {0}
      /\ LAT_ADD \in Nat \ {0} /\ LAT_SUB0 \in Nat \ {0} /\ LAT_SUB1 \in Nat \ {0} /\ LAT_MUL \in Nat \ {0}
  BY Sizes, Delays
<1>1. Data(v, EntersA(v), EntersB(v))
  BY DEF Clock, EntersA, EntersB, Comer, Place
<1>2. ASSUME NEW l, NEW N \in Nat \ {0}, LineOf(l, N), NEW m, NEW x, m = Shift(l, x)
      PROVE  Out(l) = l[N] /\ m = [i \in 1 .. N |-> IF i = 1 THEN x ELSE l[i - 1]]
  <2>1. Len(l) = N /\ <<x>> \o SubSeq(l, 1, Len(l) - 1) = Moved(x, l, N)
    BY <1>2, LineShift DEF LineOf
  <2> QED
    BY <1>2, <2>1 DEF Shift, Out, Moved
<1>3. ASSUME NEW l, NEW N \in Nat \ {0}, LineOf(l, N), NEW m, NEW x, m = Shift(l, x)
      PROVE  LineOf(m, N) /\ \A i \in 1 .. N : m[i] = IF i = 1 THEN x ELSE l[i - 1]
  <2>1. m = [i \in 1 .. N |-> IF i = 1 THEN x ELSE l[i - 1]]
    BY <1>2, <1>3
  <2>2. \A i \in 1 .. N : m[i] = IF i = 1 THEN x ELSE l[i - 1]
    BY <2>1
  <2> QED
    BY <2>1, <2>2 DEF LineOf
<1>4. /\ LineOf(A_line, LAT_SUB0 + 2) /\ LineOf(B_line, B_SHIFT) /\ LineOf(offset_line, LAT_ADD)
      /\ LineOf(sub0, LAT_SUB0) /\ LineOf(sub1, LAT_SUB1) /\ LineOf(mul, LAT_MUL) /\ LineOf(add, LAT_ADD)
  BY <1>0 DEF Types
<1>5. LineOf(o_valid_line, LAT) /\ o_valid_line \in [1 .. LAT -> BOOLEAN]
  BY DEF Types, LineOf
<1>6. LineOf(A_line', LAT_SUB0 + 2) /\ \A i \in 1 .. LAT_SUB0 + 2 : A_line'[i] = IF i = 1 THEN EntersA(v) ELSE A_line[i - 1]
  <2>1. A_line' = Shift(A_line, EntersA(v)) /\ LAT_SUB0 + 2 \in Nat \ {0}
    BY <1>0, <1>1 DEF Data
  <2> QED
    BY <2>1, <1>3, <1>4
<1>7. LineOf(B_line', B_SHIFT) /\ \A i \in 1 .. B_SHIFT : B_line'[i] = IF i = 1 THEN EntersB(v) ELSE B_line[i - 1]
  <2>1. B_line' = Shift(B_line, EntersB(v))
    BY <1>1 DEF Data
  <2> QED
    BY <2>1, <1>0, <1>3, <1>4
<1>8. LineOf(sub0', LAT_SUB0) /\ \A i \in 1 .. LAT_SUB0 : sub0'[i] = IF i = 1 THEN dout ELSE sub0[i - 1]
  <2>1. sub0' = Shift(sub0, dout)
    BY <1>1 DEF Data
  <2> QED
    BY <2>1, <1>0, <1>3, <1>4
<1>9. LineOf(sub1', LAT_SUB1) /\ \A i \in 1 .. LAT_SUB1 : sub1'[i] = IF i = 1 THEN Sub(A_d, sub0[LAT_SUB0]) ELSE sub1[i - 1]
  <2>1. Out(sub0) = sub0[LAT_SUB0]
    BY <1>0, <1>2, <1>4
  <2>2. sub1' = Shift(sub1, Sub(A_d, sub0[LAT_SUB0]))
    BY <1>1, <2>1 DEF Data
  <2> QED
    BY <2>2, <1>0, <1>3, <1>4
<1>10. LineOf(mul', LAT_MUL) /\ \A i \in 1 .. LAT_MUL : mul'[i] = IF i = 1 THEN sub1[LAT_SUB1] ELSE mul[i - 1]
  <2>1. Out(sub1) = sub1[LAT_SUB1]
    BY <1>0, <1>2, <1>4
  <2>2. mul' = Shift(mul, sub1[LAT_SUB1])
    BY <1>1, <2>1 DEF Data
  <2> QED
    BY <2>2, <1>0, <1>3, <1>4
<1>11. /\ LineOf(add', LAT_ADD)
       /\ \A i \in 1 .. LAT_ADD :
            add'[i] = IF i > 1 THEN add[i - 1]
                      ELSE IF last_q THEN AddHalf(A_d) ELSE Sum(mul[LAT_MUL], B_line[B_SHIFT])
  <2> DEFINE x == IF last_q THEN AddHalf(A_d) ELSE Sum(mul[LAT_MUL], B_line[B_SHIFT])
  <2>1. Out(mul) = mul[LAT_MUL] /\ Out(B_line) = B_line[B_SHIFT]
    BY <1>0, <1>2, <1>4
  <2>2. add' = Shift(add, x)
    BY <1>1, <2>1 DEF Data
  <2> HIDE DEF x
  <2>3. LineOf(add', LAT_ADD) /\ \A i \in 1 .. LAT_ADD : add'[i] = IF i = 1 THEN x ELSE add[i - 1]
    BY <2>2, <1>0, <1>3, <1>4
  <2>4. \A i \in 1 .. LAT_ADD : add'[i] = IF i > 1 THEN add[i - 1] ELSE x
    BY <2>3, <1>0
  <2> QED
    BY <2>3, <2>4 DEF x
<1>12. LineOf(offset_line', LAT_ADD) /\ \A i \in 1 .. LAT_ADD : offset_line'[i] = IF i = 1 THEN offset_q ELSE offset_line[i - 1]
  <2>1. offset_line' = Shift(offset_line, offset_q)
    BY <1>1 DEF Data
  <2> QED
    BY <2>1, <1>0, <1>3, <1>4
<1>13. C' = add[LAT_ADD]
  <2>1. Out(add) = add[LAT_ADD]
    BY <1>0, <1>2, <1>4
  <2> QED
    BY <2>1, <1>1 DEF Data
<1>14. /\ o_valid_line' \in [1 .. LAT -> BOOLEAN]
       /\ \A i \in 1 .. LAT : o_valid_line'[i] <=> IF i = 1 THEN v /\ ~last ELSE o_valid_line[i - 1]
  <2> DEFINE x == v /\ ~last
  <2>1. o_valid_line' = Shift(o_valid_line, x) /\ x \in BOOLEAN
    BY <1>1 DEF Data, Types
  <2>2. x <=> v /\ ~last
    OBVIOUS
  <2> HIDE DEF x
  <2>3. o_valid_line' = [i \in 1 .. LAT |-> IF i = 1 THEN x ELSE o_valid_line[i - 1]]
    BY <2>1, <1>0, <1>2, <1>5
  <2>4. \A i \in 1 .. LAT : i # 1 => i - 1 \in 1 .. LAT
    BY <1>0
  <2>5. \A i \in 1 .. LAT : (IF i = 1 THEN x ELSE o_valid_line[i - 1]) \in BOOLEAN
    BY <2>1, <2>4, <1>5
  <2>6. o_valid_line' \in [1 .. LAT -> BOOLEAN]
    BY <2>3, <2>5
  <2>7. \A i \in 1 .. LAT : o_valid_line'[i] = IF i = 1 THEN x ELSE o_valid_line[i - 1]
    BY <2>3
  <2> QED
    BY <2>2, <2>6, <2>7
<1> QED
  BY <1>0, <1>6, <1>7, <1>8, <1>9, <1>10, <1>11, <1>12, <1>13, <1>14 DEF LineOf

\* A word leaves the adder into the BRAM while bram_wen is up.
LEMMA BramMoves ==
  ASSUME Types, NEW v \in BOOLEAN, Clock(v)
  PROVE  /\ DOMAIN bram' = Half /\ \A h \in Half : DOMAIN bram'[h] = Addr
         /\ \A h \in Half, i \in Addr :
              bram'[h][i] = IF bram_wen /\ h = offset_line[LAT_ADD] /\ i = write_addr THEN add[LAT_ADD] ELSE bram[h][i]
         /\ dout' = bram[offset_q][read_addr]
<1>1. Data(v, EntersA(v), EntersB(v))
  BY DEF Clock, EntersA, EntersB, Comer, Place
<1>2. Out(offset_line) = offset_line[LAT_ADD] /\ Out(add) = add[LAT_ADD]
  <2>1. LineOf(offset_line, LAT_ADD) /\ LineOf(add, LAT_ADD) /\ LAT_ADD \in Nat \ {0}
    BY Sizes DEF Types
  <2>2. Len(offset_line) = LAT_ADD /\ Len(add) = LAT_ADD
    BY <2>1, LineShift DEF LineOf
  <2> QED
    BY <2>2 DEF Out
<1>3. DOMAIN bram = Half /\ \A h \in Half : DOMAIN bram[h] = Addr
  BY DEF Types
<1>4. CASE bram_wen
  <2> DEFINE o == offset_line[LAT_ADD]
             w == write_addr
             c == add[LAT_ADD]
  <2>1. bram' = [bram EXCEPT ![o][w] = c]
    BY <1>1, <1>2, <1>4 DEF Data
  <2> HIDE DEF o, w, c
  <2>2. DOMAIN bram' = Half /\ \A h \in Half : bram'[h] = IF h = o THEN [bram[h] EXCEPT ![w] = c] ELSE bram[h]
    BY <2>1, <1>3
  <2>3. ASSUME NEW h \in Half PROVE DOMAIN bram'[h] = Addr
    BY <2>2, <1>3
  <2>4. ASSUME NEW h \in Half, NEW i \in Addr PROVE bram'[h][i] = IF h = o /\ i = w THEN c ELSE bram[h][i]
    BY <2>2, <1>3
  <2> QED
    BY <2>2, <2>3, <2>4, <1>1, <1>4 DEF Data, o, w, c
<1>5. CASE ~bram_wen
  BY <1>1, <1>3, <1>5 DEF Data
<1> QED
  BY <1>4, <1>5

\* The registers of the wrapper and of the state machine.
LEMMA ControlMoves ==
  ASSUME Types, NEW v \in BOOLEAN, Clock(v)
  PROVE  /\ v => given < MaxPolys /\ pos >= K /\ (given = 2 => pos >= K + Gap)
         /\ given' = IF v THEN given + 1 ELSE given
         /\ pos' = IF v THEN 1 ELSE IF pos < K + Gap THEN pos + 1 ELSE pos
         /\ ctr' = IF v THEN (IF ctr = 1 THEN 0 ELSE ctr + 1) ELSE ctr
         /\ last' = (last /\ ~(v /\ ctr = 1))
         /\ last_q' = ((v /\ last) \/ (last_q /\ last_ctr # K - 1))
         /\ last_ctr' = IF v /\ last THEN 0 ELSE IF last_q THEN (last_ctr + 1) % K ELSE last_ctr
         /\ wen' = (v /\ last) /\ ren' = (v /\ ~last)
         /\ offset_q' = IF v THEN 1 - offset_q ELSE offset_q
         /\ fsm' = NextFsm
         /\ read_addr' = (IF start_read \/ read_addr # 0 THEN (read_addr + 1) % K ELSE 0)
         /\ write_addr' = (IF start_write \/ write_addr # 0 THEN (write_addr + 1) % K ELSE 0)
         /\ out' = (IF Takes THEN (out + 1) % K ELSE 0)
         /\ taken' = (IF Takes /\ out = K - 1 THEN taken + 1 ELSE taken)
<1>1. Feed(v) /\ Take /\ Control(v)
  BY DEF Clock
<1>2. /\ v => given < MaxPolys /\ pos >= K /\ (given = 2 => pos >= K + Gap)
      /\ given' = IF v THEN given + 1 ELSE given
      /\ pos' = IF v THEN 1 ELSE IF pos < K + Gap THEN pos + 1 ELSE pos
  <2>1. v => pos >= IF given = 2 THEN K + Gap ELSE K
    BY <1>1 DEF Feed, MayBegin
  <2>2. v /\ given = 2 => pos >= K
    <3>1. v /\ given = 2 => pos >= K + Gap
      BY <2>1
    <3> QED
      BY <3>1, Sizes DEF Types
  <2> QED
    BY <1>1, <2>1, <2>2 DEF Feed, MayBegin
<1>3. last_ctr' = IF v /\ last THEN 0 ELSE IF last_q THEN (last_ctr + 1) % K ELSE last_ctr
  BY <1>1 DEF Control, LastRegister
<1>4. last_q' = ((v /\ last) \/ (last_q /\ last_ctr # K - 1))
  BY <1>1 DEF Control, LastRegister
<1> QED
  BY <1>1, <1>2, <1>3, <1>4 DEF Control, Wrapper, NextOffset, Counter, Take

\* Types and lengths are kept.
LEMMA TypeStep ==
  ASSUME Types, NEW v \in BOOLEAN, Clock(v)
  PROVE  Types'
<1>1. /\ LineOf(A_line, A_SHIFT + 1)' /\ LineOf(B_line, B_SHIFT)' /\ LineOf(offset_line, LAT_ADD)'
      /\ LineOf(sub0, LAT_SUB0)' /\ LineOf(sub1, LAT_SUB1)' /\ LineOf(mul, LAT_MUL)' /\ LineOf(add, LAT_ADD)'
      /\ o_valid_line' \in [1 .. LAT -> BOOLEAN]
  BY LinesMove
<1>2. DOMAIN bram' = Half /\ \A h \in Half : DOMAIN bram'[h] = Addr
  BY BramMoves
<1>3. last' \in BOOLEAN /\ last_q' \in BOOLEAN /\ wen' \in BOOLEAN /\ ren' \in BOOLEAN
  BY ControlMoves
<1>4. ctr' \in 0 .. 1
  <2>1. ctr \in 0 .. 1 /\ ctr' = IF v THEN (IF ctr = 1 THEN 0 ELSE ctr + 1) ELSE ctr
    BY ControlMoves DEF Types
  <2> QED
    BY <2>1
<1>5. \A n \in Nat : (n + 1) % K \in Addr
  BY Sizes DEF Addr
<1>6. read_addr' \in Addr /\ write_addr' \in Addr /\ out' \in Addr
  <2>1. read_addr \in Nat /\ write_addr \in Nat /\ out \in Nat /\ 0 \in Addr
    BY Sizes DEF Types, Addr
  <2> QED
    BY <1>5, <2>1, ControlMoves
<1>7. given' \in 0 .. MaxPolys /\ offset_q' = (given' + 1) % 2
  <2>1. /\ given \in 0 .. MaxPolys /\ offset_q = (given + 1) % 2
        /\ v => given < MaxPolys
        /\ given' = IF v THEN given + 1 ELSE given
        /\ offset_q' = IF v THEN 1 - offset_q ELSE offset_q
    BY ControlMoves DEF Types
  <2>2. \A g \in Nat : 1 - ((g + 1) % 2) = (g + 1 + 1) % 2
    OBVIOUS
  <2> QED
    BY <2>1, <2>2, Sizes
<1>8. pos' \in 0 .. K + Gap
  <2>1. pos \in 0 .. K + Gap /\ pos' = IF v THEN 1 ELSE IF pos < K + Gap THEN pos + 1 ELSE pos
    BY ControlMoves DEF Types
  <2> QED
    BY <2>1, Sizes
<1>9. taken' \in Nat
  <2>1. taken \in Nat /\ taken' = IF Takes /\ out = K - 1 THEN taken + 1 ELSE taken
    BY ControlMoves DEF Types
  <2> QED
    BY <2>1
<1> QED
  BY <1>1, <1>2, <1>3, <1>4, <1>6, <1>7, <1>8, <1>9 DEF Types, LineOf, Half, Addr

\* They hold at the start.
LEMMA TypeInit ==
  ASSUME Init
  PROVE  Types
<1>1. /\ A_line = [i \in 1 .. A_SHIFT + 1 |-> None] /\ B_line = [i \in 1 .. B_SHIFT |-> None]
      /\ sub0 = [i \in 1 .. LAT_SUB0 |-> None] /\ sub1 = [i \in 1 .. LAT_SUB1 |-> None]
      /\ mul = [i \in 1 .. LAT_MUL |-> None] /\ add = [i \in 1 .. LAT_ADD |-> None]
      /\ offset_line = [i \in 1 .. LAT_ADD |-> 0] /\ o_valid_line = [i \in 1 .. LAT |-> FALSE]
      /\ bram = [h \in Half |-> [i \in Addr |-> None]]
  BY DEF Init, Line
<1>2. /\ LineOf(A_line, A_SHIFT + 1) /\ LineOf(B_line, B_SHIFT) /\ LineOf(offset_line, LAT_ADD)
      /\ LineOf(sub0, LAT_SUB0) /\ LineOf(sub1, LAT_SUB1) /\ LineOf(mul, LAT_MUL) /\ LineOf(add, LAT_ADD)
      /\ o_valid_line \in [1 .. LAT -> BOOLEAN]
      /\ DOMAIN bram = Half /\ \A h \in Half : DOMAIN bram[h] = Addr
  BY <1>1 DEF LineOf
<1>3. /\ ctr \in 0 .. 1 /\ read_addr \in Addr /\ write_addr \in Addr
      /\ given \in 0 .. MaxPolys /\ pos \in 0 .. K + Gap /\ taken \in Nat /\ out \in Addr
      /\ offset_q = (given + 1) % 2
  BY Sizes DEF Init, Addr
<1> QED
  BY <1>2, <1>3 DEF Init, Types

-----------------------------------------------------------------------------
(***************************************************************************)
(* Steps of the polynomials that are kept.                                 *)
(***************************************************************************)
\* What the state machine says of the read and write counters.
LEMMA States ==
  ASSUME Types
  PROVE  /\ fsm = "ST_IDLE" => /\ ~start_write /\ ~bram_wen /\ (start_read <=> ren \/ wen)
                               /\ NextFsm = IF ren THEN "ST_READ" ELSE IF wen THEN "ST_WRITE_INIT" ELSE "ST_IDLE"
         /\ fsm = "ST_READ" => /\ ~start_write /\ ~bram_wen /\ ~start_read
                               /\ NextFsm = IF read_addr = K - 1 THEN "ST_IDLE" ELSE "ST_READ"
         /\ fsm = "ST_WRITE_INIT" => /\ ~start_read /\ (start_write <=> read_addr = LAT_ADD)
                                     /\ (bram_wen <=> start_write \/ write_addr # 0)
                                     /\ NextFsm = IF read_addr = LAT_ADD THEN "ST_WRITE_LOOP" ELSE "ST_WRITE_INIT"
         /\ fsm = "ST_WRITE_LOOP" => /\ ~start_read /\ ~start_write /\ bram_wen
                                     /\ NextFsm = IF read_addr = K - 1 THEN "ST_WRITE_END" ELSE "ST_WRITE_LOOP"
         /\ fsm = "ST_WRITE_END" => /\ ~start_write /\ bram_wen /\ (start_read <=> ren \/ wen)
                                    /\ NextFsm = IF wen THEN "ST_WRITE_INIT" ELSE IF ren THEN "ST_READ"
                                                 ELSE IF write_addr = K - 1 THEN "ST_IDLE" ELSE "ST_WRITE_END"
<1>1. LAT_LAST - 2 = LAT_ADD
  BY Sizes DEF LAT_LAST
<1>2. start_write <=> fsm = "ST_WRITE_INIT" /\ read_addr = LAT_ADD
  BY <1>1 DEF start_write
<1>3. wen \in BOOLEAN /\ ren \in BOOLEAN
  BY DEF Types
<1>4. CASE fsm = "ST_IDLE"
  BY <1>2, <1>3, <1>4 DEF bram_wen, start_read, NextFsm
<1>5. CASE fsm = "ST_READ"
  BY <1>2, <1>3, <1>5 DEF bram_wen, start_read, NextFsm
<1>6. CASE fsm = "ST_WRITE_INIT"
  BY <1>2, <1>3, <1>6 DEF bram_wen, start_read, NextFsm
<1>7. CASE fsm = "ST_WRITE_LOOP"
  BY <1>2, <1>3, <1>7 DEF bram_wen, start_read, NextFsm
<1>8. CASE fsm = "ST_WRITE_END"
  BY <1>2, <1>3, <1>8 DEF bram_wen, start_read, NextFsm
<1> QED
  BY <1>4, <1>5, <1>6, <1>7, <1>8

\* A counter of the BRAM, below K.
LEMMA Counts ==
  ASSUME NEW c \in Addr
  PROVE  (c + 1) % K = IF c = K - 1 THEN 0 ELSE c + 1
BY Sizes DEF Addr

\* A polynomial that stands in its half of the BRAM stays while no other word is written there.
LEMMA FullStays ==
  ASSUME Types, NEW v \in BOOLEAN, Clock(v), NEW n \in Half, Full(n), bram_wen => offset_line[LAT_ADD] # n
  PROVE  Full(n)'
BY BramMoves DEF Full, Kept

\* A polynomial that is being written.
LEMMA TailStays ==
  ASSUME Types, NEW v \in BOOLEAN, Clock(v), NEW n \in Half, Tail0(n), bram_wen,
         write_addr' = (write_addr + 1) % K,
         write_addr + LAT_ADD < K => last_q /\ A_line[1] = A(n, write_addr + LAT_ADD) /\ offset_q = n
  PROVE  /\ write_addr = K - 1 => Full(n)'
         /\ write_addr # K - 1 => Tail0(n)'
         /\ offset_line[LAT_ADD] = n
<1>1. write_addr \in Addr /\ LAT_ADD \in Nat \ {0} /\ K \in Nat
  BY Sizes DEF Types
<1>2. add[LAT_ADD] = Kept(n, write_addr) /\ offset_line[LAT_ADD] = n
  <2>1. LAT_ADD \in 1 .. LAT_ADD /\ write_addr + LAT_ADD - LAT_ADD = write_addr /\ write_addr < K
    BY <1>1 DEF Addr
  <2> QED
    BY <2>1 DEF Tail0
<1>3. ASSUME NEW i \in Addr, i =< write_addr PROVE bram'[n][i] = Kept(n, i)
  <2>1. bram'[n][i] = IF i = write_addr THEN add[LAT_ADD] ELSE bram[n][i]
    BY <1>2, BramMoves
  <2>2. i # write_addr => bram[n][i] = Kept(n, i)
    BY <1>1, <1>3 DEF Tail0, Addr
  <2> QED
    BY <1>2, <2>1, <2>2
<1>4. CASE write_addr = K - 1
  <2>1. \A i \in Addr : i =< write_addr
    BY <1>1, <1>4 DEF Addr
  <2>2. \A i \in Addr : bram'[n][i] = Kept(n, i)
    BY <1>3, <2>1
  <2> QED
    BY <1>2, <1>4, <2>2 DEF Full, Kept, AddHalf, A
<1>5. CASE write_addr # K - 1
  <2>1. write_addr' = write_addr + 1
    BY <1>1, <1>5, Counts
  <2>2. \A i \in Addr : i < write_addr' => bram'[n][i] = Kept(n, i)
    <3>1. \A i \in Addr : i < write_addr + 1 => i =< write_addr
      BY <1>1 DEF Addr
    <3> QED
      BY <1>3, <2>1, <3>1
  <2>3. ASSUME NEW i \in 1 .. LAT_ADD, write_addr' + LAT_ADD - i < K
        PROVE  add'[i] = Kept(n, write_addr' + LAT_ADD - i) /\ offset_line'[i] = n
    <3>1. CASE i = 1
      <4>1. write_addr' + LAT_ADD - i = write_addr + LAT_ADD
        BY <1>1, <2>1, <3>1 DEF Addr
      <4>2. write_addr + LAT_ADD < K
        BY <2>3, <4>1
      <4>3. last_q /\ A_line[1] = A(n, write_addr + LAT_ADD) /\ offset_q = n
        BY <4>2
      <4>4. add'[1] = AddHalf(A_d) /\ offset_line'[1] = offset_q
        <5>1. 1 \in 1 .. LAT_ADD
          BY <1>1
        <5> QED
          BY <5>1, <4>3, LinesMove
      <4> QED
        BY <3>1, <4>1, <4>3, <4>4 DEF A_d, Kept
    <3>2. CASE i > 1
      <4>1. i - 1 \in 1 .. LAT_ADD /\ write_addr' + LAT_ADD - i = write_addr + LAT_ADD - (i - 1)
        BY <1>1, <2>1, <3>2 DEF Addr
      <4>2. add[i - 1] = Kept(n, write_addr + LAT_ADD - (i - 1)) /\ offset_line[i - 1] = n
        BY <2>3, <4>1 DEF Tail0
      <4>3. add'[i] = add[i - 1] /\ offset_line'[i] = offset_line[i - 1]
        BY <3>2, LinesMove
      <4> QED
        BY <4>1, <4>2, <4>3
    <3> QED
      BY <3>1, <3>2
  <2> QED
    BY <1>2, <1>5, <2>2, <2>3 DEF Tail0, Kept, AddHalf, A
<1> QED
  BY <1>4, <1>5

\* What a cycle does to a polynomial that is being written when the next one enters.
LEMMA BeforeStays ==
  ASSUME Types, NEW v \in BOOLEAN, Clock(v), NEW n \in Half, Before(n),
         write_addr' = IF write_addr # 0 THEN (write_addr + 1) % K ELSE 0,
         write_addr # 0 => bram_wen /\ write_addr >= K - LAT_ADD,
         write_addr = 0 => (bram_wen => offset_line[LAT_ADD] = n)
  PROVE  Before(n)'
<1>1. write_addr \in Addr /\ LAT_ADD \in Nat \ {0} /\ K \in Nat
  BY Sizes DEF Types
<1>2. CASE write_addr = 0
  <2>1. ASSUME NEW m \in Half, m < n PROVE Full(m)'
    <3>1. Full(m) /\ (bram_wen => offset_line[LAT_ADD] # m)
      BY <1>2, <2>1 DEF Before, Half
    <3> QED
      BY <3>1, FullStays
  <2> QED
    BY <1>2, <2>1 DEF Before
<1>3. CASE write_addr # 0
  <2>1. n = 1 /\ Tail0(0) /\ bram_wen /\ write_addr' = (write_addr + 1) % K /\ ~(write_addr + LAT_ADD < K)
    BY <1>1, <1>3 DEF Before, Addr
  <2>2. /\ write_addr = K - 1 => Full(0)'
        /\ write_addr # K - 1 => Tail0(0)'
    <3>1. 0 \in Half
      BY DEF Half
    <3> QED
      BY <2>1, <3>1, TailStays
  <2>3. write_addr = K - 1 => write_addr' = 0
    BY <1>1, <2>1, Counts
  <2>4. write_addr # K - 1 => write_addr' # 0
    BY <1>1, <2>1, Counts DEF Addr
  <2>5. \A m \in Half : m < n => m = 0
    BY <2>1 DEF Half
  <2> QED
    BY <2>1, <2>2, <2>3, <2>4, <2>5 DEF Before
<1> QED
  BY <1>2, <1>3

\* The parts of a step that are the same in every state of the state machine.
LEMMA KeepsMove ==
  ASSUME Types, NEW v \in BOOLEAN, Clock(v), Keeping
  PROVE  /\ given \in 0 .. 2 /\ (last <=> given < 2) /\ ~ren
         /\ v => pos >= K /\ pos' = 1 /\ given' = given + 1
         /\ v /\ given = 2 => /\ ~last' /\ ~wen' /\ ren' /\ pos >= K + Gap
                              /\ (last_q' <=> last_q /\ last_ctr # K - 1)
         /\ v /\ given < 2 => /\ last_q' /\ last_ctr' = 0 /\ wen' /\ A_line'[1] = A(given, 0)
                              /\ given' =< 2 /\ ~ren' /\ ctr' = given' % 2 /\ (last' <=> given' < 2)
         /\ ~v => /\ given' = given /\ ~ren' /\ ~wen' /\ ctr' = given' % 2 /\ (last' <=> given' < 2)
                  /\ (last_q' <=> last_q /\ last_ctr # K - 1)
                  /\ pos' = (IF pos < K + Gap THEN pos + 1 ELSE pos)
                  /\ last_ctr' = (IF last_q THEN (last_ctr + 1) % K ELSE last_ctr)
                  /\ pos < K => A_line'[1] = A(given - 1, pos)
<1>1. given \in 0 .. 2 /\ (last <=> given < 2) /\ ~ren /\ ctr = given % 2
  BY DEF Keeping, Types
<1>2. /\ last \in BOOLEAN /\ last_q \in BOOLEAN /\ wen \in BOOLEAN /\ ren \in BOOLEAN
      /\ last' \in BOOLEAN /\ last_q' \in BOOLEAN /\ wen' \in BOOLEAN /\ ren' \in BOOLEAN
  BY TypeStep DEF Types
<1>3. A_line'[1] = EntersA(v)
  <2>1. 1 \in 1 .. LAT_SUB0 + 2
    BY Sizes
  <2> QED
    BY <2>1, LinesMove
<1>4. v => A_line'[1] = A(given, 0)
  BY <1>3, Sizes DEF EntersA, Comer, Place
<1>5. ~v /\ pos < K => A_line'[1] = A(given - 1, pos)
  BY <1>3 DEF EntersA, Comer, Place
<1>6. v /\ given < 2 => ctr' = given' % 2 /\ (last' <=> given' < 2) /\ given' =< 2
  <2>1. v /\ given < 2 => given' = given + 1 /\ ctr' = IF ctr = 1 THEN 0 ELSE ctr + 1
    BY ControlMoves
  <2>2. v => (last' <=> last /\ ctr # 1)
    BY <1>2, ControlMoves
  <2>3. given = 0 => ctr = 0
    BY <1>1
  <2>4. given = 1 => ctr = 1
    BY <1>1
  <2>5. given < 2 => given = 0 \/ given = 1
    BY <1>1
  <2> QED
    BY <1>1, <2>1, <2>2, <2>3, <2>4, <2>5
<1>7. ~v => ctr' = given' % 2 /\ (last' <=> given' < 2) /\ given' = given
  BY <1>1, <1>2, ControlMoves
<1>8. v => pos >= K /\ pos' = 1 /\ given' = given + 1
  BY ControlMoves
<1>9. v /\ given = 2 => pos >= K + Gap
  BY ControlMoves
<1>10. v /\ given = 2 => /\ ~last' /\ ~wen' /\ ren'
                         /\ (last_q' <=> last_q /\ last_ctr # K - 1)
  <2>1. /\ last' <=> last /\ ~(v /\ ctr = 1)
        /\ last_q' <=> (v /\ last) \/ (last_q /\ last_ctr # K - 1)
        /\ wen' <=> v /\ last
        /\ ren' <=> v /\ ~last
    BY <1>2, ControlMoves
  <2>2. given = 2 => ~last
    BY <1>1
  <2> QED
    BY <2>1, <2>2
<1>11. v /\ given < 2 => last_q' /\ last_ctr' = 0 /\ wen' /\ ~ren'
  BY <1>1, <1>2, ControlMoves
<1>12. ~v => /\ ~ren' /\ ~wen' /\ (last_q' <=> last_q /\ last_ctr # K - 1)
             /\ pos' = (IF pos < K + Gap THEN pos + 1 ELSE pos)
             /\ last_ctr' = (IF last_q THEN (last_ctr + 1) % K ELSE last_ctr)
  BY <1>2, ControlMoves
<1> QED
  BY <1>1, <1>4, <1>5, <1>6, <1>7, <1>8, <1>9, <1>10, <1>11, <1>12

\* From rest a polynomial to be kept begins, or the first one that is not.
LEMMA RestStep ==
  ASSUME Types, NEW v \in BOOLEAN, Clock(v), Keeping, Rest
  PROVE  (Keeping \/ Reading)'
<1>1. /\ given \in 0 .. 2 /\ fsm = "ST_IDLE" /\ ~wen /\ ~ren /\ ~last_q /\ read_addr = 0 /\ write_addr = 0 /\ pos >= K
      /\ ~start_read /\ ~start_write /\ ~bram_wen
      /\ \A m \in Half : m < given => Full(m)
  BY States, KeepsMove DEF Rest
<1>2. fsm' = "ST_IDLE" /\ read_addr' = 0 /\ write_addr' = 0
  <2>1. NextFsm = "ST_IDLE"
    BY <1>1, States
  <2> QED
    BY <1>1, <2>1, ControlMoves
<1>3. \A m \in Half : m < given => Full(m)'
  BY <1>1, FullStays
<1>4. CASE ~v
  <2>1. pos' >= K
    <3>1. pos \in Nat /\ K \in Nat /\ pos' = IF pos < K + Gap THEN pos + 1 ELSE pos
      BY <1>4, KeepsMove, Sizes DEF Types
    <3> QED
      BY <1>1, <3>1
  <2>2. given' = given /\ ~ren' /\ ~wen' /\ ctr' = given' % 2 /\ (last' <=> given' < 2) /\ ~last_q'
    BY <1>1, <1>4, KeepsMove
  <2>3. Rest'
    BY <1>2, <1>3, <2>1, <2>2 DEF Rest
  <2> QED
    BY <1>1, <2>2, <2>3 DEF Keeping
<1>5. CASE v /\ given < 2
  <2>1. /\ given' = given + 1 /\ pos' = 1
        /\ last_q' /\ last_ctr' = 0 /\ wen' /\ A_line'[1] = A(given, 0)
        /\ given' =< 2 /\ ~ren' /\ ctr' = given' % 2 /\ (last' <=> given' < 2)
    BY <1>5, KeepsMove
  <2>2. given' - 1 = given /\ given' > 0
    BY <1>1, <2>1
  <2>3. Enters'
    BY <1>2, <2>1, <2>2 DEF Enters, A
  <2>4. Before(given - 1)'
    BY <1>2, <1>3, <2>2 DEF Before
  <2>5. Starts'
    BY <1>2, <2>1, <2>3, <2>4 DEF Starts
  <2> QED
    BY <2>1, <2>5 DEF Keeping
<1>6. CASE v /\ given = 2
  <2>1. given' = 3 /\ pos' = 1 /\ ~last' /\ ~wen' /\ ren' /\ ~last_q'
    <3>1. given' = given + 1 /\ pos' = 1
      BY <1>6, KeepsMove
    <3>2. ~last' /\ ~wen' /\ ren' /\ (last_q' <=> last_q /\ last_ctr # K - 1)
      BY <1>6, KeepsMove
    <3> QED
      BY <1>1, <1>6, <3>1, <3>2
  <2>2. 0 \in Half /\ 1 \in Half
    BY DEF Half
  <2>3. Full(0)' /\ Full(1)'
    BY <1>3, <1>6, <2>2
  <2> QED
    BY <1>2, <2>1, <2>3 DEF Reading
<1> QED
  BY <1>1, <1>4, <1>5, <1>6

\* While a polynomial enters the adder its words and its half go in behind each other.
LEMMA EntersMove ==
  ASSUME Types, NEW v \in BOOLEAN, Clock(v), Keeping, Enters
  PROVE  /\ given \in 1 .. 2 /\ given - 1 \in Half /\ offset_q = given - 1
         /\ add'[1] = Kept(given - 1, read_addr) /\ offset_line'[1] = given - 1
         /\ read_addr # K - 1 => /\ ~v /\ last_q' /\ last_ctr' = read_addr + 1 /\ pos' = read_addr + 2
                                 /\ A_line'[1] = A(given - 1, read_addr + 1)
<1>1. given \in 1 .. 2 /\ last_q /\ last_ctr = read_addr /\ pos = read_addr + 1 /\ A_line[1] = A(given - 1, read_addr)
  BY KeepsMove DEF Enters
<1>2. given - 1 \in Half /\ offset_q = given - 1
  <2>1. offset_q = (given + 1) % 2
    BY DEF Types
  <2> QED
    BY <1>1, <2>1 DEF Half
<1>3. add'[1] = Kept(given - 1, read_addr) /\ offset_line'[1] = given - 1
  <2>1. 1 \in 1 .. LAT_ADD
    BY Sizes
  <2>2. add'[1] = AddHalf(A_d) /\ offset_line'[1] = offset_q
    BY <1>1, <2>1, LinesMove
  <2> QED
    BY <1>1, <1>2, <2>2 DEF A_d, Kept
<1>4. ASSUME read_addr # K - 1
      PROVE  /\ ~v /\ last_q' /\ last_ctr' = read_addr + 1 /\ pos' = read_addr + 2
             /\ A_line'[1] = A(given - 1, read_addr + 1)
  <2>1. read_addr \in Nat /\ read_addr + 1 < K /\ (read_addr + 1) % K = read_addr + 1 /\ K \in Nat /\ Gap \in Nat
    BY <1>4, Counts, Sizes DEF Types, Addr
  <2>2. ~v
    BY <1>1, <2>1, KeepsMove
  <2>3. pos' = read_addr + 2
    <3>1. pos' = IF pos < K + Gap THEN pos + 1 ELSE pos
      BY <2>2, KeepsMove
    <3> QED
      BY <1>1, <2>1, <3>1
  <2>4. last_q' /\ last_ctr' = read_addr + 1
    BY <1>1, <1>4, <2>1, <2>2, KeepsMove
  <2>5. A_line'[1] = A(given - 1, read_addr + 1)
    BY <1>1, <2>1, <2>2, KeepsMove
  <2> QED
    BY <2>2, <2>3, <2>4, <2>5
<1> QED
  BY <1>1, <1>2, <1>3, <1>4

\* The wen pulse takes the state machine out of ST_IDLE or ST_WRITE_END.
LEMMA StartsStep ==
  ASSUME Types, NEW v \in BOOLEAN, Clock(v), Keeping, Starts
  PROVE  (Keeping \/ Reading)'
<1>1. /\ Enters /\ wen /\ read_addr = 0 /\ Before(given - 1) /\ ~ren
      /\ K \in Nat /\ LAT_ADD \in Nat \ {0} /\ K > LAT_ADD + 1 /\ write_addr \in Addr
  BY KeepsMove, Sizes DEF Starts, Types
<1>2. /\ given \in 1 .. 2 /\ given - 1 \in Half
      /\ add'[1] = Kept(given - 1, 0) /\ offset_line'[1] = given - 1
      /\ ~v /\ last_q' /\ last_ctr' = 1 /\ pos' = 2 /\ A_line'[1] = A(given - 1, 1)
  BY <1>1, EntersMove
<1>3. given' = given /\ ~ren' /\ ~wen' /\ ctr' = given' % 2 /\ (last' <=> given' < 2)
  BY <1>2, KeepsMove
<1>4. start_read /\ ~start_write /\ NextFsm = "ST_WRITE_INIT"
  BY <1>1, States DEF Starts
<1>5. fsm' = "ST_WRITE_INIT" /\ read_addr' = 1
      /\ write_addr' = IF write_addr # 0 THEN (write_addr + 1) % K ELSE 0
  <2>1. (read_addr + 1) % K = 1
    BY <1>1
  <2> QED
    BY <1>4, <2>1, ControlMoves
<1>6. Before(given - 1)'
  <2>1. write_addr # 0 => bram_wen /\ write_addr >= K - LAT_ADD
    BY <1>1, States DEF Starts
  <2>2. write_addr = 0 => ~bram_wen
    BY <1>1, States DEF Starts
  <2> DEFINE n == given - 1
  <2>3. n \in Half /\ Before(n)
    BY <1>1, <1>2
  <2>4. (IF write_addr' = 0 THEN \A m \in Half : m < n => Full(m)' ELSE n = 1 /\ Tail0(0)')
    <3> HIDE DEF n
    <3>1. PICK k \in Half : k = n
      BY <2>3
    <3>2. Before(k)
      BY <2>3, <3>1
    <3>3. Before(k)'
      BY <1>5, <2>1, <2>2, <3>2, BeforeStays
    <3> QED
      BY <3>1, <3>3 DEF Before
  <2> QED
    BY <1>3, <2>4 DEF Before
<1>7. write_addr' # 0 => write_addr' >= K + read_addr' - LAT_ADD
  <2>1. write_addr # 0 => write_addr >= K - LAT_ADD
    BY <1>1 DEF Starts
  <2>2. write_addr # 0 => write_addr' = IF write_addr = K - 1 THEN 0 ELSE write_addr + 1
    BY <1>1, <1>5, Counts
  <2>3. write_addr \in Nat
    BY <1>1 DEF Addr
  <2> QED
    BY <1>1, <1>5, <2>1, <2>2, <2>3
<1>8. Enters'
  BY <1>2, <1>3, <1>5 DEF Enters, A
<1>9. \A i \in 1 .. read_addr' : add'[i] = Kept(given' - 1, read_addr' - i) /\ offset_line'[i] = given' - 1
  <2>1. \A i \in 1 .. 1 : i = 1 /\ 1 - i = 0
    OBVIOUS
  <2> QED
    BY <1>2, <1>3, <1>5, <2>1
<1>10. Waits'
  BY <1>1, <1>3, <1>5, <1>6, <1>7, <1>8, <1>9 DEF Waits, Kept, AddHalf, A
<1> QED
  BY <1>2, <1>3, <1>10 DEF Keeping

\* ST_WRITE_INIT waits for the first word to leave the adder.
LEMMA WaitsStep ==
  ASSUME Types, NEW v \in BOOLEAN, Clock(v), Keeping, Waits
  PROVE  (Keeping \/ Reading)'
<1>1. /\ Enters /\ ~wen /\ ~ren /\ fsm = "ST_WRITE_INIT" /\ read_addr \in 1 .. LAT_ADD /\ Before(given - 1)
      /\ write_addr # 0 => write_addr >= K + read_addr - LAT_ADD
      /\ K \in Nat /\ LAT_ADD \in Nat \ {0} /\ K > LAT_ADD + 1 /\ write_addr \in Addr
  BY KeepsMove, Sizes DEF Waits, Types
<1>2. \A i \in 1 .. read_addr : add[i] = Kept(given - 1, read_addr - i) /\ offset_line[i] = given - 1
  BY DEF Waits
<1>3. read_addr # K - 1 /\ read_addr \in Nat
  BY <1>1
<1>4. /\ given \in 1 .. 2 /\ given - 1 \in Half
      /\ add'[1] = Kept(given - 1, read_addr) /\ offset_line'[1] = given - 1
      /\ ~v /\ last_q' /\ last_ctr' = read_addr + 1 /\ pos' = read_addr + 2 /\ A_line'[1] = A(given - 1, read_addr + 1)
  BY <1>1, <1>3, EntersMove
<1>5. given' = given /\ ~ren' /\ ~wen' /\ ctr' = given' % 2 /\ (last' <=> given' < 2)
  BY <1>4, KeepsMove
<1>6. read_addr' = read_addr + 1
  <2>1. (read_addr + 1) % K = read_addr + 1
    BY <1>1, <1>3
  <2> QED
    BY <1>3, <2>1, <1>1, ControlMoves
<1>7. Enters'
  <2>1. pos' = read_addr' + 1 /\ given' > 0
    BY <1>3, <1>4, <1>5, <1>6
  <2> QED
    BY <1>4, <1>5, <1>6, <2>1 DEF Enters, A
<1>8. ASSUME NEW i \in 1 .. read_addr + 1, i =< LAT_ADD
      PROVE  add'[i] = Kept(given - 1, read_addr + 1 - i) /\ offset_line'[i] = given - 1
  <2>1. CASE i = 1
    <3>1. read_addr + 1 - i = read_addr
      BY <1>3, <2>1
    <3> QED
      BY <1>4, <2>1, <3>1
  <2>2. CASE i > 1
    <3>1. i \in 1 .. LAT_ADD /\ i - 1 \in 1 .. read_addr /\ read_addr + 1 - i = read_addr - (i - 1)
      BY <1>1, <1>3, <1>8, <2>2
    <3>2. add'[i] = add[i - 1] /\ offset_line'[i] = offset_line[i - 1]
      BY <2>2, <3>1, LinesMove
    <3>3. add[i - 1] = Kept(given - 1, read_addr - (i - 1)) /\ offset_line[i - 1] = given - 1
      BY <1>2, <3>1
    <3> QED
      BY <3>1, <3>2, <3>3
  <2> QED
    BY <2>1, <2>2
<1>9. PICK n \in Half : n = given - 1
  BY <1>4
<1>10. CASE read_addr = LAT_ADD
  <2>1. start_write /\ bram_wen /\ fsm' = "ST_WRITE_LOOP"
    BY <1>1, <1>10, States, ControlMoves
  <2>2. write_addr = 0
    BY <1>1, <1>10 DEF Addr
  <2>3. write_addr' = 1
    <3>1. (write_addr + 1) % K = 1
      BY <1>1, <2>2
    <3> QED
      BY <2>1, <3>1, ControlMoves
  <2>4. add[LAT_ADD] = Kept(n, 0) /\ offset_line[LAT_ADD] = n
    <3>1. LAT_ADD \in 1 .. read_addr /\ read_addr - LAT_ADD = 0
      BY <1>1, <1>10
    <3> QED
      BY <1>2, <1>9, <3>1
  <2>5. \A m \in Half : m < n => Full(m)
    BY <1>1, <1>9, <2>2 DEF Before
  <2>6. ASSUME NEW m \in Half, m < n PROVE Full(m)'
    <3>1. offset_line[LAT_ADD] # m /\ Full(m)
      BY <2>4, <2>5, <2>6 DEF Half
    <3> QED
      BY <3>1, FullStays
  <2>7. Tail0(n)'
    <3>1. bram'[n][0] = Kept(n, 0)
      <4>1. 0 \in Addr
        BY <1>1 DEF Addr
      <4> QED
        BY <2>1, <2>2, <2>4, <4>1, BramMoves
    <3>2. \A i \in Addr : i < write_addr' => i = 0
      BY <2>3 DEF Addr
    <3>3. \A i \in 1 .. LAT_ADD : i \in 1 .. read_addr + 1 /\ i =< LAT_ADD /\ write_addr' + LAT_ADD - i = read_addr + 1 - i
      BY <1>1, <1>3, <1>10, <2>3
    <3>4. \A i \in 1 .. LAT_ADD : add'[i] = Kept(n, write_addr' + LAT_ADD - i) /\ offset_line'[i] = n
      BY <1>8, <1>9, <3>3
    <3> QED
      BY <3>1, <3>2, <3>4 DEF Tail0, Kept, AddHalf, A
  <2>8. read_addr' \in LAT_ADD + 1 .. K - 1 /\ write_addr' = read_addr' - LAT_ADD
    BY <1>1, <1>6, <1>10, <2>3
  <2>9. n = given' - 1
    BY <1>5, <1>9
  <2>10. Writes'
    BY <1>5, <1>7, <2>1, <2>6, <2>7, <2>8, <2>9 DEF Writes
  <2> QED
    BY <1>4, <1>5, <2>10 DEF Keeping
<1>11. CASE read_addr # LAT_ADD
  <2>1. ~start_write /\ (bram_wen <=> write_addr # 0) /\ fsm' = "ST_WRITE_INIT"
    BY <1>1, <1>11, States, ControlMoves
  <2>2. write_addr' = IF write_addr # 0 THEN (write_addr + 1) % K ELSE 0
    BY <2>1, ControlMoves
  <2>3. Before(n)'
    <3>1. write_addr # 0 => bram_wen /\ write_addr >= K - LAT_ADD
      <4>1. write_addr # 0 => write_addr >= K + read_addr - LAT_ADD
        BY <1>1
      <4> QED
        BY <1>1, <1>3, <2>1, <4>1 DEF Addr
    <3>2. write_addr = 0 => ~bram_wen
      BY <2>1
    <3>3. Before(n)
      BY <1>1, <1>9
    <3> QED
      BY <2>2, <3>1, <3>2, <3>3, BeforeStays
  <2>4. write_addr' # 0 => write_addr' >= K + read_addr' - LAT_ADD
    <3>1. write_addr # 0 => write_addr' = IF write_addr = K - 1 THEN 0 ELSE write_addr + 1
      BY <1>1, <2>2, Counts
    <3>2. write_addr \in Nat
      BY <1>1 DEF Addr
    <3> QED
      BY <1>1, <1>3, <1>6, <2>2, <3>1, <3>2
  <2>5. read_addr' \in 1 .. LAT_ADD
    BY <1>1, <1>3, <1>6, <1>11
  <2>6. \A i \in 1 .. read_addr' : add'[i] = Kept(given' - 1, read_addr' - i) /\ offset_line'[i] = given' - 1
    <3> SUFFICES ASSUME NEW i \in 1 .. read_addr'
                 PROVE  add'[i] = Kept(given' - 1, read_addr' - i) /\ offset_line'[i] = given' - 1
      OBVIOUS
    <3>1. i \in 1 .. read_addr + 1 /\ i =< LAT_ADD
      BY <1>1, <1>3, <1>6, <2>5
    <3>2. add'[i] = Kept(given - 1, read_addr + 1 - i) /\ offset_line'[i] = given - 1
      BY <1>8, <3>1
    <3>3. read_addr + 1 - i = read_addr' - i /\ given - 1 = given' - 1
      BY <1>3, <1>5, <1>6
    <3> QED
      BY <3>2, <3>3
  <2>7. Before(given - 1)'
    BY <1>5, <1>9, <2>3 DEF Before
  <2>8. Waits'
    BY <1>5, <1>7, <2>1, <2>4, <2>5, <2>6, <2>7 DEF Waits, Kept, AddHalf, A
  <2> QED
    BY <1>4, <1>5, <2>8 DEF Keeping
<1> QED
  BY <1>10, <1>11

\* ST_WRITE_LOOP writes while words enter; with the last word in, the next polynomial may begin at once.
LEMMA WritesStep ==
  ASSUME Types, NEW v \in BOOLEAN, Clock(v), Keeping, Writes
  PROVE  (Keeping \/ Reading)'
<1>1. /\ Enters /\ ~wen /\ ~ren /\ fsm = "ST_WRITE_LOOP" /\ read_addr \in LAT_ADD + 1 .. K - 1
      /\ write_addr = read_addr - LAT_ADD /\ Tail0(given - 1) /\ \A m \in Half : m < given - 1 => Full(m)
      /\ K \in Nat /\ Gap \in Nat /\ LAT_ADD \in Nat \ {0} /\ K > LAT_ADD + 1 /\ Gap + 1 >= LAT_ADD /\ pos \in Nat
      /\ ~start_read /\ ~start_write /\ bram_wen
  BY KeepsMove, States, Sizes DEF Writes, Types
<1>2. /\ given \in 1 .. 2 /\ given - 1 \in Half /\ offset_q = given - 1
      /\ last_q /\ last_ctr = read_addr /\ pos = read_addr + 1 /\ A_line[1] = A(given - 1, read_addr)
  BY <1>1, EntersMove DEF Enters
<1>3. PICK n \in Half : n = given - 1
  BY <1>2
<1>4. write_addr' = write_addr + 1 /\ write_addr' = (write_addr + 1) % K /\ write_addr # K - 1 /\ write_addr' # 0
  <2>1. write_addr # 0 /\ write_addr \in Nat /\ write_addr # K - 1 /\ write_addr \in Addr
    BY <1>1 DEF Addr
  <2>2. (write_addr + 1) % K = write_addr + 1
    BY <2>1, Counts
  <2> QED
    BY <1>1, <2>1, <2>2, ControlMoves
<1>5. Tail0(n)' /\ offset_line[LAT_ADD] = n
  <2>1. write_addr + LAT_ADD = read_addr
    BY <1>1
  <2>2. Tail0(n)
    BY <1>1, <1>3
  <2>3. last_q /\ A_line[1] = A(n, write_addr + LAT_ADD) /\ offset_q = n
    BY <1>2, <1>3, <2>1
  <2> QED
    BY <1>1, <1>4, <2>2, <2>3, TailStays
<1>6. ASSUME NEW m \in Half, m < n PROVE Full(m)'
  <2>1. offset_line[LAT_ADD] # m /\ Full(m)
    BY <1>1, <1>3, <1>5, <1>6 DEF Half
  <2> QED
    BY <2>1, FullStays
<1>7. CASE read_addr # K - 1
  <2>1. ~v /\ last_q' /\ last_ctr' = read_addr + 1 /\ pos' = read_addr + 2 /\ A_line'[1] = A(given - 1, read_addr + 1)
    BY <1>1, <1>7, EntersMove
  <2>2. given' = given /\ ~ren' /\ ~wen' /\ ctr' = given' % 2 /\ (last' <=> given' < 2)
    BY <2>1, KeepsMove
  <2>3. fsm' = "ST_WRITE_LOOP" /\ read_addr' = read_addr + 1
    <3>1. (read_addr + 1) % K = read_addr + 1
      BY <1>1, <1>7
    <3>2. read_addr # 0
      BY <1>1
    <3>3. NextFsm = "ST_WRITE_LOOP"
      BY <1>1, <1>7, States
    <3> QED
      BY <3>1, <3>2, <3>3, ControlMoves
  <2>4. Enters'
    <3>1. pos' = read_addr' + 1 /\ given' > 0
      BY <1>1, <1>2, <2>1, <2>2, <2>3
    <3> QED
      BY <2>1, <2>2, <2>3, <3>1 DEF Enters, A
  <2>5. read_addr' \in LAT_ADD + 1 .. K - 1 /\ write_addr' = read_addr' - LAT_ADD
    BY <1>1, <1>4, <1>7, <2>3
  <2>6. n = given' - 1
    BY <1>3, <2>2
  <2>7. Writes'
    BY <1>5, <1>6, <2>2, <2>3, <2>4, <2>5, <2>6 DEF Writes
  <2> QED
    BY <1>2, <2>2, <2>7 DEF Keeping
<1>8. CASE read_addr = K - 1
  <2>1. fsm' = "ST_WRITE_END" /\ read_addr' = 0
    <3>1. (read_addr + 1) % K = 0
      BY <1>1, <1>8
    <3>2. NextFsm = "ST_WRITE_END"
      BY <1>1, <1>8, States
    <3> QED
      BY <1>1, <3>1, <3>2, ControlMoves
  <2>2. pos = K /\ write_addr' = K - LAT_ADD /\ write_addr' \in K - LAT_ADD .. K - 1
    BY <1>1, <1>2, <1>4, <1>8
  <2>3. CASE ~v
    <3>1. given' = given /\ ~ren' /\ ~wen' /\ ctr' = given' % 2 /\ (last' <=> given' < 2)
      BY <2>3, KeepsMove
    <3>2. ~last_q'
      BY <1>2, <1>8, <2>3, KeepsMove
    <3>3. pos' >= K /\ pos' =< write_addr' + LAT_ADD + 1
      <4>1. pos' = IF pos < K + Gap THEN pos + 1 ELSE pos
        BY <2>3, KeepsMove
      <4> QED
        BY <1>1, <2>2, <4>1
    <3>4. n = given' - 1 /\ given' > 0
      BY <1>2, <1>3, <3>1
    <3>5. Ends'
      BY <1>5, <1>6, <2>1, <2>2, <3>1, <3>2, <3>3, <3>4 DEF Ends
    <3> QED
      BY <1>2, <3>1, <3>5 DEF Keeping
  <2>4. CASE v /\ given < 2
    <3>1. /\ given = 1 /\ n = 0
          /\ last_q' /\ last_ctr' = 0 /\ wen' /\ A_line'[1] = A(given, 0)
          /\ given' =< 2 /\ ~ren' /\ ctr' = given' % 2 /\ (last' <=> given' < 2)
      <4>1. given = 1 /\ n = 0
        BY <1>2, <1>3, <2>4
      <4>2. /\ last_q' /\ last_ctr' = 0 /\ wen' /\ A_line'[1] = A(given, 0)
            /\ given' =< 2 /\ ~ren' /\ ctr' = given' % 2 /\ (last' <=> given' < 2)
        BY <2>4, KeepsMove
      <4> QED
        BY <4>1, <4>2
    <3>2. pos' = 1 /\ given' = 2
      <4>1. pos' = 1 /\ given' = given + 1
        BY <2>4, KeepsMove
      <4> QED
        BY <3>1, <4>1
    <3>3. Enters'
      BY <2>1, <3>1, <3>2 DEF Enters, A
    <3>4. Before(given - 1)'
      BY <1>4, <1>5, <3>1, <3>2 DEF Before
    <3>5. Starts'
      BY <2>1, <2>2, <3>1, <3>3, <3>4 DEF Starts
    <3> QED
      BY <3>1, <3>5 DEF Keeping
  <2>5. CASE v /\ given = 2
    <3>1. ~last' /\ ~wen' /\ ren' /\ pos >= K + Gap
      BY <2>5, KeepsMove
    <3>2. ~last_q'
      BY <1>2, <1>8, <2>5, KeepsMove
    <3>3. pos' = 1 /\ given' = 3
      <4>1. pos' = 1 /\ given' = given + 1
        BY <2>5, KeepsMove
      <4> QED
        BY <2>5, <4>1
    <3>4. write_addr' = K - 1
      BY <1>1, <2>2, <3>1
    <3>5. n = 1
      BY <1>3, <2>5
    <3>6. Full(0)'
      <4>1. 0 \in Half
        BY DEF Half
      <4> QED
        BY <1>6, <3>5, <4>1
    <3> QED
      BY <1>5, <2>1, <3>1, <3>2, <3>3, <3>4, <3>5, <3>6 DEF Reading
  <2> QED
    BY <1>2, <2>3, <2>4, <2>5
<1> QED
  BY <1>7, <1>8

\* ST_WRITE_END writes what is still in the adder.
LEMMA EndsStep ==
  ASSUME Types, NEW v \in BOOLEAN, Clock(v), Keeping, Ends
  PROVE  (Keeping \/ Reading)'
<1>1. /\ ~wen /\ ~ren /\ ~last_q /\ fsm = "ST_WRITE_END" /\ read_addr = 0 /\ given \in 1 .. 2
      /\ pos >= K /\ pos =< write_addr + LAT_ADD + 1
      /\ write_addr \in K - LAT_ADD .. K - 1 /\ Tail0(given - 1) /\ \A m \in Half : m < given - 1 => Full(m)
      /\ K \in Nat /\ Gap \in Nat /\ LAT_ADD \in Nat \ {0} /\ K > LAT_ADD + 1 /\ Gap + 1 >= LAT_ADD /\ pos \in Nat
      /\ ~start_read /\ ~start_write /\ bram_wen /\ write_addr \in Nat /\ write_addr # 0
  <2>1. given \in 0 .. 2 /\ ~ren
    BY KeepsMove
  <2>2. /\ ~wen /\ ~last_q /\ fsm = "ST_WRITE_END" /\ read_addr = 0 /\ given > 0
        /\ pos >= K /\ pos =< write_addr + LAT_ADD + 1
        /\ write_addr \in K - LAT_ADD .. K - 1 /\ Tail0(given - 1) /\ \A m \in Half : m < given - 1 => Full(m)
    BY DEF Ends
  <2>3. K \in Nat /\ Gap \in Nat /\ LAT_ADD \in Nat \ {0} /\ K > LAT_ADD + 1 /\ Gap + 1 >= LAT_ADD /\ pos \in Nat
    BY Sizes DEF Types
  <2>4. ~start_read /\ ~start_write /\ bram_wen
    BY <2>1, <2>2, States
  <2> QED
    BY <2>1, <2>2, <2>3, <2>4
<1>2. PICK n \in Half : n = given - 1
  BY <1>1 DEF Half
<1>3. write_addr' = (write_addr + 1) % K /\ write_addr' = IF write_addr = K - 1 THEN 0 ELSE write_addr + 1
  <2>1. write_addr \in Addr
    BY DEF Types
  <2>2. (write_addr + 1) % K = IF write_addr = K - 1 THEN 0 ELSE write_addr + 1
    BY <2>1, Counts
  <2>3. write_addr' = (write_addr + 1) % K
    BY <1>1, ControlMoves
  <2> QED
    BY <2>2, <2>3
<1>4. /\ write_addr = K - 1 => Full(n)'
      /\ write_addr # K - 1 => Tail0(n)'
      /\ offset_line[LAT_ADD] = n
  <2>1. ~(write_addr + LAT_ADD < K)
    BY <1>1
  <2>2. Tail0(n)
    BY <1>1, <1>2
  <2> QED
    BY <1>1, <1>3, <2>1, <2>2, TailStays
<1>5. ASSUME NEW m \in Half, m < n PROVE Full(m)'
  <2>1. offset_line[LAT_ADD] # m /\ Full(m)
    BY <1>1, <1>2, <1>4, <1>5 DEF Half
  <2> QED
    BY <2>1, FullStays
<1>6. read_addr' = 0 /\ fsm' = IF write_addr = K - 1 THEN "ST_IDLE" ELSE "ST_WRITE_END"
  <2>1. NextFsm = IF write_addr = K - 1 THEN "ST_IDLE" ELSE "ST_WRITE_END"
    BY <1>1, States
  <2> QED
    BY <1>1, <2>1, ControlMoves
<1>7. CASE ~v
  <2>1. given' = given /\ ~ren' /\ ~wen' /\ ctr' = given' % 2 /\ (last' <=> given' < 2) /\ ~last_q'
    BY <1>1, <1>7, KeepsMove
  <2>2. pos' >= K /\ pos' =< pos + 1
    <3>1. pos' = IF pos < K + Gap THEN pos + 1 ELSE pos
      BY <1>7, KeepsMove
    <3> QED
      BY <1>1, <3>1
  <2>3. CASE write_addr = K - 1
    <3>1. \A m \in Half : m < given' => m = n \/ m < n
      BY <1>1, <1>2, <2>1 DEF Half
    <3>2. Rest'
      BY <1>3, <1>4, <1>5, <1>6, <2>1, <2>2, <2>3, <3>1 DEF Rest
    <3> QED
      BY <1>1, <2>1, <3>2 DEF Keeping
  <2>4. CASE write_addr # K - 1
    <3>1. write_addr' \in K - LAT_ADD .. K - 1 /\ pos' =< write_addr' + LAT_ADD + 1
      <4>1. write_addr' = write_addr + 1
        BY <1>3, <2>4
      <4>2. pos' \in Nat
        BY TypeStep DEF Types
      <4> QED
        BY <1>1, <2>2, <2>4, <4>1, <4>2
    <3>2. n = given' - 1 /\ given' > 0
      BY <1>1, <1>2, <2>1
    <3>3. Ends'
      BY <1>4, <1>5, <1>6, <2>1, <2>2, <2>4, <3>1, <3>2 DEF Ends
    <3> QED
      BY <1>1, <2>1, <3>3 DEF Keeping
  <2> QED
    BY <2>3, <2>4
<1>8. CASE v /\ given < 2
  <2>1. /\ given = 1 /\ n = 0
        /\ last_q' /\ last_ctr' = 0 /\ wen' /\ A_line'[1] = A(given, 0)
        /\ given' =< 2 /\ ~ren' /\ ctr' = given' % 2 /\ (last' <=> given' < 2)
    <3>1. given = 1 /\ n = 0
      BY <1>1, <1>2, <1>8
    <3>2. /\ last_q' /\ last_ctr' = 0 /\ wen' /\ A_line'[1] = A(given, 0)
          /\ given' =< 2 /\ ~ren' /\ ctr' = given' % 2 /\ (last' <=> given' < 2)
      BY <1>8, KeepsMove
    <3> QED
      BY <3>1, <3>2
  <2>2. pos' = 1 /\ given' = 2
    <3>1. pos' = 1 /\ given' = given + 1
      BY <1>8, KeepsMove
    <3> QED
      BY <2>1, <3>1
  <2>3. Enters'
    BY <1>6, <2>1, <2>2 DEF Enters, A
  <2>4. Before(given - 1)'
    <3>1. write_addr = K - 1 => write_addr' = 0 /\ \A m \in Half : m < 1 => Full(m)'
      BY <1>3, <1>4, <2>1 DEF Half
    <3>2. write_addr # K - 1 => write_addr' # 0 /\ Tail0(0)'
      BY <1>1, <1>3, <1>4, <2>1
    <3> QED
      BY <2>2, <3>1, <3>2 DEF Before
  <2>5. \/ fsm' = "ST_IDLE" /\ write_addr' = 0
        \/ fsm' = "ST_WRITE_END" /\ write_addr' \in K - LAT_ADD .. K - 1
    BY <1>1, <1>3, <1>6
  <2>6. Starts'
    BY <1>6, <2>1, <2>3, <2>4, <2>5 DEF Starts
  <2> QED
    BY <2>1, <2>6 DEF Keeping
<1>9. CASE v /\ given = 2
  <2>1. ~last' /\ ~wen' /\ ren' /\ pos >= K + Gap
    BY <1>9, KeepsMove
  <2>2. ~last_q'
    BY <1>1, <1>9, KeepsMove
  <2>3. pos' = 1 /\ given' = 3
    <3>1. pos' = 1 /\ given' = given + 1
      BY <1>9, KeepsMove
    <3> QED
      BY <1>9, <3>1
  <2>4. write_addr # K - 1 => write_addr' = K - 1
    BY <1>1, <1>3, <2>1
  <2>5. n = 1
    BY <1>2, <1>9
  <2>6. Full(0)'
    <3>1. 0 \in Half
      BY DEF Half
    <3> QED
      BY <1>5, <2>5, <3>1
  <2>7. CASE write_addr = K - 1
    BY <1>3, <1>4, <1>6, <2>1, <2>2, <2>3, <2>5, <2>6, <2>7 DEF Reading
  <2>8. CASE write_addr # K - 1
    BY <1>4, <1>6, <2>1, <2>2, <2>3, <2>4, <2>5, <2>6, <2>8 DEF Reading
  <2> QED
    BY <2>7, <2>8
<1> QED
  BY <1>1, <1>7, <1>8, <1>9

-----------------------------------------------------------------------------
(***************************************************************************)
(* A step of the polynomials that meet the kept ones.                      *)
(***************************************************************************)
LEMMA ReadingStep ==
  ASSUME Types, NEW v \in BOOLEAN, Clock(v), Reading
  PROVE  Reading'
<1>1. /\ given > 2 /\ ~last /\ ~last_q /\ ~wen /\ Full(0) /\ 0 \in Half /\ 1 \in Half
      /\ given \in Nat /\ pos \in Nat /\ K \in Nat /\ Gap \in Nat /\ LAT_ADD \in Nat \ {0} /\ K > LAT_ADD + 1
      /\ read_addr \in Nat /\ read_addr \in Addr /\ read_addr < K /\ write_addr \in Addr
      /\ ren \in BOOLEAN
  BY Sizes DEF Reading, Types, Half, Addr
<1>2. /\ ~last' /\ ~wen' /\ (ren' <=> v) /\ ~last_q'
      /\ v => pos >= K /\ pos' = 1
      /\ ~v => pos' = IF pos < K + Gap THEN pos + 1 ELSE pos
  <2>1. /\ last' \in BOOLEAN /\ wen' \in BOOLEAN /\ ren' \in BOOLEAN /\ last_q' \in BOOLEAN
        /\ last' = (last /\ ~(v /\ ctr = 1)) /\ wen' = (v /\ last) /\ ren' = (v /\ ~last)
        /\ last_q' = ((v /\ last) \/ (last_q /\ last_ctr # K - 1))
    BY TypeStep, ControlMoves DEF Types
  <2>2. /\ v => pos >= K
        /\ pos' = IF v THEN 1 ELSE IF pos < K + Gap THEN pos + 1 ELSE pos
    BY ControlMoves
  <2> QED
    BY <1>1, <2>1, <2>2
<1>3. given' > 2
  <2>1. given' = IF v THEN given + 1 ELSE given
    BY ControlMoves
  <2> QED
    BY <1>1, <2>1
<1>4. /\ fsm' = NextFsm
      /\ read_addr' = IF start_read \/ read_addr # 0 THEN (read_addr + 1) % K ELSE 0
      /\ write_addr' = IF start_write \/ write_addr # 0 THEN (write_addr + 1) % K ELSE 0
      /\ (read_addr + 1) % K = IF read_addr = K - 1 THEN 0 ELSE read_addr + 1
  BY <1>1, ControlMoves, Counts
<1>5. CASE fsm \in {"ST_IDLE", "ST_READ"} /\ write_addr = 0 /\ Full(1)
  <2>1. ~start_write /\ ~bram_wen
    BY <1>5, States
  <2>2. Full(0)' /\ Full(1)'
    BY <1>1, <1>5, <2>1, FullStays
  <2>3. write_addr' = 0
    BY <1>4, <1>5, <2>1
  <2>4. CASE ren
    <3>1. fsm = "ST_IDLE" /\ read_addr = 0 /\ pos = 1
      BY <1>5, <2>4 DEF Reading
    <3>2. fsm' = "ST_READ" /\ start_read
      BY <1>4, <2>4, <3>1, States
    <3>3. read_addr' = 1 /\ ~v /\ pos' = 2
      BY <1>1, <1>2, <1>4, <3>1, <3>2
    <3> QED
      BY <1>2, <1>3, <2>2, <2>3, <3>2, <3>3 DEF Reading
  <2>5. CASE ~ren /\ fsm = "ST_IDLE"
    <3>1. read_addr = 0 /\ pos >= K
      BY <2>5 DEF Reading
    <3>2. fsm' = "ST_IDLE" /\ ~start_read
      BY <1>1, <1>4, <2>5, States
    <3>3. read_addr' = 0 /\ (v => pos' = 1) /\ (~v => pos' >= K)
      BY <1>1, <1>2, <1>4, <3>1, <3>2
    <3> QED
      BY <1>2, <1>3, <2>2, <2>3, <3>2, <3>3 DEF Reading
  <2>6. CASE ~ren /\ fsm = "ST_READ"
    <3>1. read_addr > 0 /\ pos = read_addr + 1
      BY <2>6 DEF Reading
    <3>2. ~start_read /\ fsm' = IF read_addr = K - 1 THEN "ST_IDLE" ELSE "ST_READ"
      BY <1>4, <2>6, States
    <3>3. CASE read_addr = K - 1
      <4>1. read_addr' = 0 /\ fsm' = "ST_IDLE" /\ (v => pos' = 1) /\ (~v => pos' >= K)
        BY <1>1, <1>2, <1>4, <3>1, <3>2, <3>3
      <4> QED
        BY <1>2, <1>3, <2>2, <2>3, <4>1 DEF Reading
    <3>4. CASE read_addr # K - 1
      <4>1. ~v /\ read_addr' = read_addr + 1 /\ fsm' = "ST_READ" /\ pos' = read_addr + 2
        BY <1>1, <1>2, <1>4, <3>1, <3>2, <3>4
      <4>2. read_addr' > 0 /\ pos' = read_addr' + 1
        BY <1>1, <4>1
      <4> QED
        BY <1>2, <1>3, <2>2, <2>3, <4>1, <4>2 DEF Reading
    <3> QED
      BY <3>3, <3>4
  <2> QED
    BY <1>1, <1>5, <2>4, <2>5, <2>6
<1>6. CASE fsm = "ST_WRITE_END" /\ ren /\ write_addr = K - 1 /\ Tail0(1)
  <2>1. read_addr = 0 /\ pos = 1
    BY <1>6 DEF Reading
  <2>2. bram_wen /\ start_read /\ fsm' = "ST_READ"
    BY <1>1, <1>4, <1>6, States
  <2>3. write_addr' = (write_addr + 1) % K /\ write_addr' = 0
    <3>1. (write_addr + 1) % K = 0 /\ write_addr # 0
      BY <1>1, <1>6, Counts
    <3> QED
      BY <1>4, <3>1
  <2>4. Full(1)' /\ offset_line[LAT_ADD] = 1
    <3>1. ~(write_addr + LAT_ADD < K)
      BY <1>1, <1>6
    <3> QED
      BY <1>1, <1>6, <2>2, <2>3, <3>1, TailStays
  <2>5. Full(0)'
    <3>1. offset_line[LAT_ADD] # 0
      BY <2>4
    <3> QED
      BY <1>1, <3>1, FullStays
  <2>6. read_addr' = 1 /\ ~v /\ pos' = 2
    BY <1>1, <1>2, <1>4, <2>1, <2>2
  <2> QED
    BY <1>2, <1>3, <2>2, <2>3, <2>4, <2>5, <2>6 DEF Reading
<1> QED
  BY <1>5, <1>6 DEF Reading

\* Kept polynomials first, then those that meet them.
LEMMA PhaseStep ==
  ASSUME Types, NEW v \in BOOLEAN, Clock(v), Keeping \/ Reading
  PROVE  (Keeping \/ Reading)'
<1>1. CASE Keeping
  BY <1>1, RestStep, StartsStep, WaitsStep, WritesStep, EndsStep DEF Keeping
<1>2. CASE Reading
  BY <1>2, ReadingStep
<1> QED
  BY <1>1, <1>2

-----------------------------------------------------------------------------
(***************************************************************************)
(* Words are what they were made from.                                     *)
(***************************************************************************)
LEMMA Made ==
  ASSUME NEW n, NEW j, NEW m, NEW k, NEW x, NEW y
  PROVE  /\ B(n, j) = B(m, k) => n = m /\ j = k
         /\ B(n, j) # None
         /\ Result(n, j) = Sum(Diff(n, j), B(n, j))
         /\ Sum(x, y) = Result(n, j) <=> x = Diff(n, j) /\ y = B(n, j)
         /\ AddHalf(x) # Result(n, j)
         /\ Result(n, j) = Result(m, k) => n = m /\ j = k
<1>1. B(n, j) = B(m, k) => n = m /\ j = k
  BY DEF B
<1>2. B(n, j) # None
  BY DEF B, None
<1>3. Result(n, j) = Sum(Diff(n, j), B(n, j)) /\ Result(m, k) = Sum(Diff(m, k), B(m, k))
  BY DEF Result, Diff, Kept
<1>4. ASSUME NEW a, NEW b, NEW c, NEW d
      PROVE  Sum(a, b) = Sum(c, d) <=> a = c /\ b = d
  BY DEF Sum
<1>5. AddHalf(x) # Result(n, j)
  <2>1. \A a, b : AddHalf(x) # Sum(a, b)
    BY DEF AddHalf, Sum
  <2> QED
    BY <1>3, <2>1
<1>6. Sum(x, y) = Result(n, j) <=> x = Diff(n, j) /\ y = B(n, j)
  BY <1>3, <1>4
<1>7. Result(n, j) = Result(m, k) => B(n, j) = B(m, k)
  <2>1. Sum(Diff(n, j), B(n, j)) = Sum(Diff(m, k), B(m, k)) <=> Diff(n, j) = Diff(m, k) /\ B(n, j) = B(m, k)
    BY <1>4
  <2> QED
    BY <1>3, <2>1
<1> QED
  BY <1>1, <1>2, <1>3, <1>5, <1>6, <1>7

-----------------------------------------------------------------------------
(***************************************************************************)
(* The words of a result meet.                                             *)
(***************************************************************************)
\* What enters, in a state of the invariant: B comes with A, of the polynomial that is being read.
LEMMA ComesStep ==
  ASSUME Types, NEW v \in BOOLEAN, Clock(v), Keeping \/ Reading
  PROVE  Comes'
<1>1. /\ given \in Nat /\ pos \in Nat /\ K \in Nat /\ Gap \in Nat /\ K > LAT_ADD + 1 /\ LAT_ADD \in Nat
      /\ read_addr \in Addr /\ read_addr \in Nat /\ ren' \in BOOLEAN /\ given' \in Nat
  BY TypeStep, Sizes DEF Types, Addr
<1>2. B_line'[1] = EntersB(v)
  <2>1. 1 \in 1 .. B_SHIFT
    BY Sizes, Delays
  <2> QED
    BY <2>1, LinesMove
<1>3. (Keeping \/ Reading)'
  BY PhaseStep
<1>4. CASE given =< 2 /\ ~(v /\ given = 2)
  <2>1. given' =< 2
    <3>1. given' = IF v THEN given + 1 ELSE given
      BY ControlMoves
    <3> QED
      BY <1>1, <1>4, <3>1
  <2>2. ~(Comer(v) >= 2)
    BY <1>1, <1>4 DEF Comer
  <2>3. EntersB(v) = None
    BY <2>2 DEF EntersB
  <2>4. ~(given' > 2)
    BY <1>1, <2>1
  <2> QED
    BY <1>2, <2>3, <2>4 DEF Comes
<1>5. CASE v /\ given >= 2
  <2>1. given' = given + 1 /\ pos' = 1
    BY <1>5, ControlMoves
  <2>2. given' > 2
    BY <1>1, <1>5, <2>1
  <2>3. Reading'
    BY <1>1, <1>3, <2>2 DEF Keeping
  <2>4. ren'
    <3>1. ~last
      BY <1>1, <1>5 DEF Keeping, Reading
    <3>2. ren' = (v /\ ~last)
      BY ControlMoves
    <3> QED
      BY <1>5, <3>1, <3>2
  <2>5. read_addr' = 0
    BY <2>3, <2>4 DEF Reading
  <2>6. EntersB(v) = B(given, 0)
    BY <1>1, <1>5 DEF EntersB, Comer, Place
  <2>7. given' - 1 = given
    BY <1>1, <2>1
  <2> QED
    BY <1>2, <2>2, <2>4, <2>5, <2>6, <2>7 DEF Comes, B
<1>6. CASE ~v /\ given > 2
  <2>1. given' = given /\ ~ren'
    <3>1. ren' = (v /\ ~last) /\ given' = IF v THEN given + 1 ELSE given
      BY ControlMoves
    <3> QED
      BY <1>6, <3>1
  <2>2. Reading
    BY <1>1, <1>6 DEF Keeping
  <2>3. EntersB(v) = IF pos < K THEN B(given - 1, pos) ELSE None
    <3>1. given - 1 >= 2
      BY <1>1, <1>6
    <3> QED
      BY <1>6, <3>1 DEF EntersB, Comer, Place
  <2>4. /\ fsm' = NextFsm
        /\ read_addr' = IF start_read \/ read_addr # 0 THEN (read_addr + 1) % K ELSE 0
        /\ (read_addr + 1) % K = IF read_addr = K - 1 THEN 0 ELSE read_addr + 1
    BY <1>1, ControlMoves, Counts
  <2>5. CASE ren
    <3>1. read_addr = 0 /\ pos = 1 /\ fsm \in {"ST_IDLE", "ST_WRITE_END"} /\ ~wen
      BY <2>2, <2>5 DEF Reading
    <3>2. fsm' = "ST_READ" /\ start_read
      BY <2>4, <2>5, <3>1, States
    <3>3. read_addr' = 1 /\ pos < K
      BY <1>1, <2>4, <3>1, <3>2
    <3> QED
      BY <1>2, <1>6, <2>1, <2>3, <3>1, <3>2, <3>3 DEF Comes, B
  <2>6. CASE ~ren /\ fsm = "ST_READ"
    <3>1. read_addr > 0 /\ pos = read_addr + 1
      BY <2>2, <2>6 DEF Reading
    <3>2. fsm' = IF read_addr = K - 1 THEN "ST_IDLE" ELSE "ST_READ"
      BY <2>4, <2>6, States
    <3>3. read_addr = K - 1 => ~(pos < K) /\ fsm' = "ST_IDLE"
      BY <1>1, <3>1, <3>2
    <3>4. read_addr # K - 1 => pos < K /\ fsm' = "ST_READ" /\ read_addr' = pos
      <4>1. read_addr < K
        BY <1>1 DEF Addr
      <4> QED
        BY <1>1, <2>4, <3>1, <3>2, <4>1
    <3>5. read_addr = K - 1 => B_line'[1] = None
      BY <1>2, <2>3, <3>3
    <3>6. read_addr # K - 1 => B_line'[1] = B(given - 1, read_addr')
      BY <1>2, <2>3, <3>4
    <3> QED
      BY <1>6, <2>1, <3>3, <3>4, <3>5, <3>6 DEF Comes, B
  <2>7. CASE ~ren /\ fsm # "ST_READ"
    <3>1. fsm = "ST_IDLE" /\ pos >= K /\ ~wen
      BY <2>2, <2>7 DEF Reading
    <3>2. fsm' = "ST_IDLE" /\ ~(pos < K)
      BY <1>1, <2>4, <2>7, <3>1, States
    <3> QED
      BY <1>2, <2>1, <2>3, <3>2 DEF Comes
  <2> QED
    BY <2>5, <2>6, <2>7
<1> QED
  BY <1>1, <1>4, <1>5, <1>6

\* The word read in the cycle a word of B is in the first place of its line.
LEMMA ReadsRight ==
  ASSUME Types, NEW v \in BOOLEAN, Clock(v), Keeping \/ Reading, Comes,
         NEW n \in Poly, NEW j \in Addr, B_line[1] = B(n, j)
  PROVE  /\ given > 2 /\ n = given - 1 /\ j = read_addr /\ (ren \/ fsm = "ST_READ")
         /\ dout' = Kept(n % 2, j)
<1>1. given > 2 /\ (ren \/ fsm = "ST_READ") /\ n = given - 1 /\ j = read_addr
  <2>1. B_line[1] = IF given > 2 /\ (ren \/ fsm = "ST_READ") THEN B(given - 1, read_addr) ELSE None
    BY DEF Comes
  <2>2. B(n, j) # None
    BY Made
  <2>3. given > 2 /\ (ren \/ fsm = "ST_READ")
    BY <2>1, <2>2
  <2>4. B(given - 1, read_addr) = B(n, j)
    BY <2>1, <2>3
  <2>5. B(given - 1, read_addr) = B(n, j) => given - 1 = n /\ read_addr = j
    BY Made
  <2> QED
    BY <2>3, <2>4, <2>5
<1>2. Reading /\ given \in Nat
  BY <1>1 DEF Keeping, Types
<1>3. offset_q = n % 2 /\ n % 2 \in Half
  <2>1. offset_q = (given + 1) % 2 /\ given \in Nat
    BY DEF Types
  <2>2. \A g \in Nat : g > 2 => (g + 1) % 2 = (g - 1) % 2 /\ (g - 1) % 2 \in 0 .. 1
    OBVIOUS
  <2> QED
    BY <1>1, <2>1, <2>2 DEF Half
<1>4. dout' = bram[n % 2][j]
  BY <1>1, <1>3, BramMoves
<1>5. bram[n % 2][j] = Kept(n % 2, j)
  <2>1. CASE n % 2 = 0
    BY <1>2, <2>1 DEF Reading, Full
  <2>2. CASE n % 2 = 1 /\ Full(1)
    BY <2>2 DEF Full
  <2>3. CASE n % 2 = 1 /\ ~Full(1)
    <3>1. ren /\ write_addr = K - 1 /\ Tail0(1) /\ read_addr = 0
      BY <1>2, <2>3 DEF Reading
    <3>2. j < write_addr
      BY <1>1, <3>1, Sizes
    <3> QED
      BY <2>3, <3>1, <3>2 DEF Tail0
  <2> QED
    BY <1>3, <2>1, <2>2, <2>3 DEF Half
<1> QED
  BY <1>1, <1>4, <1>5

\* A word of B on its way is of a polynomial given, and no polynomial is kept any more.
LEMMA Read ==
  ASSUME Types, Keeping \/ Reading, Met, NEW i \in 1 .. B_SHIFT, NEW n \in Poly, NEW j \in Addr, B_line[i] = B(n, j)
  PROVE  n \in 2 .. given - 1 /\ ~last_q
<1>1. B(n, j) # None
  BY Made
<1>2. PICK m \in 2 .. given - 1, k \in Addr : B_line[i] = B(m, k)
  BY <1>1 DEF Met
<1>3. B(n, j) = B(m, k) => n = m /\ j = k
  BY Made
<1>4. n \in 2 .. given - 1
  BY <1>2, <1>3
<1>5. given > 2 /\ given \in Nat
  BY <1>4 DEF Types
<1>6. Reading
  BY <1>5 DEF Keeping
<1> QED
  BY <1>4, <1>6 DEF Reading

\* The words of A, of B and from the BRAM keep the same age.
LEMMA MetStep ==
  ASSUME Types, NEW v \in BOOLEAN, Clock(v), Keeping \/ Reading, Met, Comes
  PROVE  Met'
<1>0. /\ LAT_SUB0 \in Nat \ {0} /\ LAT_SUB1 \in Nat \ {0} /\ LAT_MUL \in Nat \ {0}
      /\ B_SHIFT = LAT_SUB0 + 2 + LAT_SUB1 + LAT_MUL /\ B_SHIFT \in Nat
  BY Sizes, Delays
<1>1. \A i \in 1 .. B_SHIFT : B_line'[i] = IF i = 1 THEN EntersB(v) ELSE B_line[i - 1]
  BY LinesMove
<1>2. ASSUME NEW i \in 1 .. B_SHIFT
      PROVE  B_line'[i] = None \/ \E n \in 2 .. given' - 1, j \in Addr : B_line'[i] = B(n, j)
  <2>0. /\ given' \in Nat /\ given =< given' /\ given \in Nat /\ pos \in Nat
        /\ v => given' = given + 1
        /\ ~v => given' = given
    <3>1. given' = (IF v THEN given + 1 ELSE given) /\ given \in Nat
      BY ControlMoves DEF Types
    <3> QED
      BY <3>1 DEF Types
  <2>1. CASE i = 1
    <3>1. B_line'[i] = EntersB(v)
      BY <1>1, <2>1
    <3>2. CASE Place(v) < K /\ Comer(v) >= 2
      <4>1. B_line'[i] = B(Comer(v), Place(v))
        BY <3>1, <3>2 DEF EntersB
      <4>2. Comer(v) \in 2 .. given' - 1
        <5>1. \A c, g \in Nat : c >= 2 /\ c =< g - 1 => c \in 2 .. g - 1
          OBVIOUS
        <5>2. Comer(v) =< given' - 1
          <6>1. \A g \in Nat : g =< g + 1 - 1 /\ g - 1 =< g - 1
            OBVIOUS
          <6>2. CASE v
            <7>1. Comer(v) = given /\ given' = given + 1
              BY <2>0, <6>2 DEF Comer
            <7> QED
              BY <2>0, <6>1, <7>1
          <6>3. CASE ~v
            <7>1. Comer(v) = given - 1 /\ given' = given
              BY <2>0, <6>3 DEF Comer
            <7> QED
              BY <2>0, <6>1, <7>1
          <6> QED
            BY <6>2, <6>3
        <5>3. Comer(v) \in Int
          BY <2>0 DEF Comer
        <5>4. Comer(v) \in Nat
          BY <3>2, <5>3
        <5> QED
          BY <2>0, <3>2, <5>1, <5>2, <5>4
      <4>3. Place(v) \in Addr
        BY <2>0, <3>2, Sizes DEF Place, Addr
      <4> QED
        BY <4>1, <4>2, <4>3
    <3>3. CASE ~(Place(v) < K /\ Comer(v) >= 2)
      BY <3>1, <3>3 DEF EntersB
    <3> QED
      BY <3>2, <3>3
  <2>2. CASE i # 1
    <3>1. B_line'[i] = B_line[i - 1] /\ i - 1 \in 1 .. B_SHIFT
      BY <1>0, <1>1, <2>2
    <3>2. B_line[i - 1] = None \/ \E n \in 2 .. given - 1, j \in Addr : B_line[i - 1] = B(n, j)
      BY <3>1 DEF Met
    <3>3. \A n \in 2 .. given - 1 : n \in 2 .. given' - 1
      <4>1. \A p, q \in Nat : p =< q => \A n \in 2 .. p - 1 : n \in 2 .. q - 1
        OBVIOUS
      <4> QED
        BY <2>0, <4>1
    <3> QED
      BY <3>1, <3>2, <3>3
  <2> QED
    BY <2>1, <2>2
<1>3. ASSUME NEW n \in Poly, NEW j \in Addr, NEW i \in 1 .. LAT_SUB0 + 2, B_line'[i] = B(n, j)
      PROVE  A_line'[i] = A(n, j)
  <2>0. i \in 1 .. B_SHIFT
    BY <1>0
  <2>1. CASE i = 1
    <3>1. B_line'[i] = EntersB(v) /\ A_line'[i] = EntersA(v)
      BY <1>1, <2>0, <2>1, LinesMove
    <3>2. EntersB(v) # None
      <4>1. B(n, j) # None
        BY Made
      <4> QED
        BY <1>3, <3>1, <4>1
    <3>3. Place(v) < K /\ EntersB(v) = B(Comer(v), Place(v))
      BY <3>2 DEF EntersB
    <3>4. B(Comer(v), Place(v)) = B(n, j) => Comer(v) = n /\ Place(v) = j
      BY Made
    <3>5. EntersA(v) = A(Comer(v), Place(v))
      BY <3>3 DEF EntersA
    <3> QED
      BY <1>3, <3>1, <3>3, <3>4, <3>5
  <2>2. CASE i # 1
    <3>1. i - 1 \in 1 .. LAT_SUB0 + 2 /\ B_line'[i] = B_line[i - 1] /\ A_line'[i] = A_line[i - 1]
      BY <1>0, <1>1, <2>0, <2>2, LinesMove
    <3> QED
      BY <1>3, <3>1 DEF Met
  <2> QED
    BY <2>1, <2>2
<1>4. ASSUME NEW n \in Poly, NEW j \in Addr, B_line'[2] = B(n, j)
      PROVE  dout' = Kept(n % 2, j)
  <2>1. B_line[1] = B(n, j)
    <3>1. 2 \in 1 .. B_SHIFT
      BY <1>0
    <3>2. B_line'[2] = B_line[2 - 1]
      BY <1>1, <3>1
    <3> QED
      BY <1>4, <3>2
  <2> QED
    BY <2>1, ReadsRight
<1>5. ASSUME NEW n \in Poly, NEW j \in Addr, NEW i \in 1 .. LAT_SUB0, B_line'[2 + i] = B(n, j)
      PROVE  sub0'[i] = Kept(n % 2, j)
  <2>0. B_line'[2 + i] = B_line[1 + i]
    <3>1. 2 + i \in 1 .. B_SHIFT /\ 2 + i # 1 /\ (2 + i) - 1 = 1 + i
      BY <1>0
    <3> QED
      BY <1>1, <3>1
  <2>1. CASE i = 1
    <3>1. sub0'[i] = dout /\ 1 + i = 2
      BY <2>1, LinesMove
    <3> QED
      BY <1>5, <2>0, <3>1 DEF Met
  <2>2. CASE i # 1
    <3>1. sub0'[i] = sub0[i - 1] /\ i - 1 \in 1 .. LAT_SUB0 /\ 1 + i = 2 + (i - 1)
      BY <1>0, <2>2, LinesMove
    <3> QED
      BY <1>5, <2>0, <3>1 DEF Met
  <2> QED
    BY <2>1, <2>2
<1>6. ASSUME NEW n \in Poly, NEW j \in Addr, NEW i \in 1 .. LAT_SUB1, B_line'[LAT_SUB0 + 2 + i] = B(n, j)
      PROVE  sub1'[i] = Diff(n, j)
  <2>0. B_line'[LAT_SUB0 + 2 + i] = B_line[LAT_SUB0 + 1 + i] /\ LAT_SUB0 + 1 + i \in 1 .. B_SHIFT
    <3>1. /\ LAT_SUB0 + 2 + i \in 1 .. B_SHIFT /\ LAT_SUB0 + 2 + i # 1 /\ (LAT_SUB0 + 2 + i) - 1 = LAT_SUB0 + 1 + i
          /\ LAT_SUB0 + 1 + i \in 1 .. B_SHIFT
      BY <1>0
    <3> QED
      BY <1>1, <3>1
  <2>1. CASE i = 1
    <3>1. sub1'[i] = Sub(A_d, sub0[LAT_SUB0])
      BY <2>1, LinesMove
    <3>2. ~last_q
      BY <1>6, <2>0, Read
    <3>3. B_line[LAT_SUB0 + 2] = B(n, j)
      <4>1. LAT_SUB0 + 1 + i = LAT_SUB0 + 2
        BY <1>0, <2>1
      <4> QED
        BY <1>6, <2>0, <4>1
    <3>4. A_line[LAT_SUB0 + 2] = A(n, j)
      <4>1. LAT_SUB0 + 2 \in 1 .. LAT_SUB0 + 2
        BY <1>0
      <4> QED
        BY <3>3, <4>1 DEF Met
    <3>5. sub0[LAT_SUB0] = Kept(n % 2, j)
      <4>1. LAT_SUB0 \in 1 .. LAT_SUB0 /\ 2 + LAT_SUB0 = LAT_SUB0 + 2
        BY <1>0
      <4>2. B_line[2 + LAT_SUB0] = B(n, j)
        BY <3>3, <4>1
      <4> QED
        BY <4>1, <4>2 DEF Met
    <3>6. A_d = A(n, j)
      <4>1. A_line = [k \in 1 .. LAT_SUB0 + 2 |-> A_line[k]]
        BY Delays DEF Types, LineOf
      <4>2. LAT_SUB0 + 2 \in Nat \ {0}
        BY <1>0
      <4>3. Len(A_line) = LAT_SUB0 + 2
        BY <4>1, <4>2, LineShift
      <4> QED
        BY <3>2, <3>4, <4>3 DEF A_d, Out
    <3> QED
      BY <3>1, <3>5, <3>6 DEF Diff
  <2>2. CASE i # 1
    <3>1. sub1'[i] = sub1[i - 1]
      BY <2>2, LinesMove
    <3>2. i - 1 \in 1 .. LAT_SUB1 /\ LAT_SUB0 + 1 + i = LAT_SUB0 + 2 + (i - 1)
      BY <1>0, <2>2
    <3>3. B_line[LAT_SUB0 + 2 + (i - 1)] = B(n, j)
      BY <1>6, <2>0, <3>2
    <3> QED
      BY <3>1, <3>2, <3>3 DEF Met
  <2> QED
    BY <2>1, <2>2
<1>7. ASSUME NEW n \in Poly, NEW j \in Addr, NEW i \in 1 .. LAT_MUL, B_line'[LAT_SUB0 + 2 + LAT_SUB1 + i] = B(n, j)
      PROVE  mul'[i] = Diff(n, j)
  <2>0. B_line[LAT_SUB0 + 1 + LAT_SUB1 + i] = B(n, j)
    <3>1. /\ LAT_SUB0 + 2 + LAT_SUB1 + i \in 1 .. B_SHIFT /\ LAT_SUB0 + 2 + LAT_SUB1 + i # 1
          /\ (LAT_SUB0 + 2 + LAT_SUB1 + i) - 1 = LAT_SUB0 + 1 + LAT_SUB1 + i
      BY <1>0
    <3> QED
      BY <1>1, <1>7, <3>1
  <2>1. CASE i = 1
    <3>1. mul'[i] = sub1[LAT_SUB1]
      BY <2>1, LinesMove
    <3>2. LAT_SUB1 \in 1 .. LAT_SUB1 /\ LAT_SUB0 + 1 + LAT_SUB1 + i = LAT_SUB0 + 2 + LAT_SUB1
      BY <1>0, <2>1
    <3>3. B_line[LAT_SUB0 + 2 + LAT_SUB1] = B(n, j)
      BY <2>0, <3>2
    <3> QED
      BY <3>1, <3>2, <3>3 DEF Met
  <2>2. CASE i # 1
    <3>1. mul'[i] = mul[i - 1]
      BY <2>2, LinesMove
    <3>2. i - 1 \in 1 .. LAT_MUL /\ LAT_SUB0 + 1 + LAT_SUB1 + i = LAT_SUB0 + 2 + LAT_SUB1 + (i - 1)
      BY <1>0, <2>2
    <3>3. B_line[LAT_SUB0 + 2 + LAT_SUB1 + (i - 1)] = B(n, j)
      BY <2>0, <3>2
    <3> QED
      BY <3>1, <3>2, <3>3 DEF Met
  <2> QED
    BY <2>1, <2>2
<1> QED
  BY <1>2, <1>3, <1>4, <1>5, <1>6, <1>7 DEF Met, Kept, AddHalf, A, B, Diff, Sub

\* A word ages by a cycle, and no word comes from anywhere else.
LEMMA WordMoves ==
  ASSUME Types, NEW v \in BOOLEAN, Clock(v), Keeping \/ Reading, Met,
         NEW i \in 1 .. LAT - 1, NEW n \in Poly, NEW j \in Addr
  PROVE  Word(i + 1, n, j)' <=> Word(i, n, j)
<1>0. /\ LAT_ADD \in Nat \ {0} /\ B_SHIFT \in Nat \ {0} /\ LAT = B_SHIFT + LAT_ADD + 1 /\ LAT_MUL \in Nat \ {0}
      /\ B_SHIFT = LAT_SUB0 + 2 + LAT_SUB1 + LAT_MUL /\ i \in Nat
  BY Sizes, Delays
<1>1. /\ i + 1 =< B_SHIFT => (Word(i + 1, n, j)' <=> B_line'[i + 1] = B(n, j))
      /\ ~(i + 1 =< B_SHIFT) /\ i + 1 < LAT => (Word(i + 1, n, j)' <=> add'[(i + 1) - B_SHIFT] = Result(n, j))
      /\ ~(i + 1 =< B_SHIFT) /\ ~(i + 1 < LAT) => (Word(i + 1, n, j)' <=> C' = Result(n, j))
  <2>1. i + 1 =< B_SHIFT => (Word(i + 1, n, j)' <=> B_line'[i + 1] = B(n, j))
    BY DEF Word
  <2>2. ~(i + 1 =< B_SHIFT) /\ i + 1 < LAT => (Word(i + 1, n, j)' <=> add'[(i + 1) - B_SHIFT] = Result(n, j))
    BY DEF Word
  <2>3. ~(i + 1 =< B_SHIFT) /\ ~(i + 1 < LAT) => (Word(i + 1, n, j)' <=> C' = Result(n, j))
    BY DEF Word
  <2> QED
    BY <2>1, <2>2, <2>3
<1>2. CASE i < B_SHIFT
  <2>1. i + 1 =< B_SHIFT /\ i =< B_SHIFT /\ i + 1 \in 1 .. B_SHIFT /\ i + 1 # 1 /\ (i + 1) - 1 = i
    BY <1>0, <1>2
  <2>2. B_line'[i + 1] = B_line[(i + 1) - 1]
    BY <2>1, LinesMove
  <2>3. Word(i, n, j) <=> B_line[i] = B(n, j)
    BY <2>1 DEF Word
  <2> QED
    BY <1>1, <2>1, <2>2, <2>3
<1>3. CASE i = B_SHIFT
  <2>1. ~(i + 1 =< B_SHIFT) /\ i + 1 < LAT /\ (i + 1) - B_SHIFT = 1 /\ i =< B_SHIFT /\ 1 \in 1 .. LAT_ADD /\ ~(1 > 1)
    BY <1>0, <1>3
  <2>2. add'[1] = IF last_q THEN AddHalf(A_d) ELSE Sum(mul[LAT_MUL], B_line[B_SHIFT])
    BY <2>1, LinesMove
  <2>3. Word(i, n, j) <=> B_line[B_SHIFT] = B(n, j)
    BY <1>3, <2>1 DEF Word
  <2>4. Word(i + 1, n, j)' <=> add'[1] = Result(n, j)
    BY <1>1, <2>1
  <2>5. B_line[B_SHIFT] = B(n, j) => ~last_q /\ mul[LAT_MUL] = Diff(n, j)
    <3> SUFFICES ASSUME B_line[B_SHIFT] = B(n, j) PROVE ~last_q /\ mul[LAT_MUL] = Diff(n, j)
      OBVIOUS
    <3>1. B_SHIFT \in 1 .. B_SHIFT /\ LAT_MUL \in 1 .. LAT_MUL
      BY <1>0
    <3>2. ~last_q
      BY <3>1, Read
    <3>3. B_line[LAT_SUB0 + 2 + LAT_SUB1 + LAT_MUL] = B(n, j)
      BY <1>0
    <3> QED
      BY <3>1, <3>2, <3>3 DEF Met
  <2>6. AddHalf(A_d) # Result(n, j)
    BY Made
  <2>7. Sum(mul[LAT_MUL], B_line[B_SHIFT]) = Result(n, j) <=> mul[LAT_MUL] = Diff(n, j) /\ B_line[B_SHIFT] = B(n, j)
    BY Made
  <2> QED
    BY <2>2, <2>3, <2>4, <2>5, <2>6, <2>7
<1>4. CASE i > B_SHIFT /\ i + 1 < LAT
  <2>1. /\ ~(i + 1 =< B_SHIFT) /\ ~(i =< B_SHIFT) /\ i < LAT /\ (i + 1) - B_SHIFT \in 1 .. LAT_ADD
        /\ (i + 1) - B_SHIFT > 1 /\ ((i + 1) - B_SHIFT) - 1 = i - B_SHIFT
    BY <1>0, <1>4
  <2>2. add'[(i + 1) - B_SHIFT] = add[((i + 1) - B_SHIFT) - 1]
    BY <2>1, LinesMove
  <2>3. Word(i, n, j) <=> add[i - B_SHIFT] = Result(n, j)
    BY <2>1 DEF Word
  <2> QED
    BY <1>1, <1>4, <2>1, <2>2, <2>3
<1>5. CASE i > B_SHIFT /\ ~(i + 1 < LAT)
  <2>1. ~(i + 1 =< B_SHIFT) /\ ~(i =< B_SHIFT) /\ i < LAT /\ i - B_SHIFT = LAT_ADD
    BY <1>0, <1>5
  <2>2. C' = add[LAT_ADD]
    BY LinesMove
  <2>3. Word(i, n, j) <=> add[LAT_ADD] = Result(n, j)
    BY <2>1 DEF Word
  <2> QED
    BY <1>1, <1>5, <2>1, <2>2, <2>3
<1> QED
  BY <1>0, <1>2, <1>3, <1>4, <1>5

\* In one place there is one word.
LEMMA WordOne ==
  ASSUME NEW i \in 1 .. LAT, NEW n, NEW j, NEW m, NEW k, Word(i, n, j), Word(i, m, k)
  PROVE  n = m /\ j = k
<1>1. B(n, j) = B(m, k) => n = m /\ j = k
  BY Made
<1>2. Result(n, j) = Result(m, k) => n = m /\ j = k
  BY Made
<1> QED
  BY <1>1, <1>2 DEF Word

\* Words stay one after the other.
LEMMA FollowStep ==
  ASSUME Types, NEW v \in BOOLEAN, Clock(v), Keeping \/ Reading, Met, Comes, Follow
  PROVE  Follow'
<1>0. LAT \in Nat /\ LAT > 3 /\ B_SHIFT \in Nat /\ B_SHIFT > 2 /\ K \in Nat /\ K > 2
  BY Sizes, Delays
<1> SUFFICES ASSUME NEW i \in 2 .. LAT, NEW n \in Poly, NEW j \in 0 .. K - 2, Word(i, n, j)'
             PROVE  Word(i - 1, n, j + 1)'
  BY DEF Follow
<1>1. j \in Addr /\ j + 1 \in Addr
  BY <1>0 DEF Addr
<1>2. i - 1 \in 1 .. LAT - 1 /\ (i - 1) + 1 = i
  BY <1>0
<1>3. Word(i - 1, n, j)
  <2>1. Word((i - 1) + 1, n, j)' <=> Word(i - 1, n, j)
    BY <1>1, <1>2, WordMoves
  <2> QED
    BY <1>2, <2>1
<1>4. CASE i > 2
  <2>1. i - 1 \in 2 .. LAT /\ i - 2 \in 1 .. LAT - 1 /\ (i - 2) + 1 = i - 1 /\ (i - 1) - 1 = i - 2
    BY <1>0, <1>4
  <2>2. Word((i - 1) - 1, n, j + 1)
    BY <1>3, <2>1 DEF Follow
  <2>3. Word((i - 2) + 1, n, j + 1)' <=> Word(i - 2, n, j + 1)
    BY <1>1, <2>1, WordMoves
  <2> QED
    BY <2>1, <2>2, <2>3
<1>5. CASE i = 2
  <2>1. B_line[1] = B(n, j)
    <3>1. i - 1 = 1 /\ 1 =< B_SHIFT
      BY <1>0, <1>5
    <3> QED
      BY <1>3, <3>1 DEF Word
  <2>2. given > 2 /\ n = given - 1 /\ j = read_addr /\ (ren \/ fsm = "ST_READ")
    BY <1>1, <2>1, ReadsRight
  <2>3. Reading /\ given \in Nat /\ pos \in Nat
    BY <2>2 DEF Keeping, Types
  <2>4. pos = j + 1
    BY <2>2, <2>3, <1>0 DEF Reading
  <2>5. ~v
    <3>1. v => pos >= K
      BY ControlMoves
    <3> QED
      BY <1>0, <2>4, <3>1
  <2>6. EntersB(v) = B(n, j + 1)
    <3>1. Place(v) = j + 1 /\ Comer(v) = n /\ j + 1 < K /\ n >= 2
      BY <1>0, <2>2, <2>3, <2>4, <2>5 DEF Place, Comer
    <3> QED
      BY <3>1 DEF EntersB
  <2>7. B_line'[1] = EntersB(v)
    <3>1. 1 \in 1 .. B_SHIFT
      BY <1>0
    <3> QED
      BY <3>1, LinesMove
  <2>8. i - 1 = 1 /\ 1 =< B_SHIFT
    BY <1>0, <1>5
  <2> QED
    BY <2>6, <2>7, <2>8 DEF Word
<1> QED
  BY <1>0, <1>4, <1>5

-----------------------------------------------------------------------------
(***************************************************************************)
(* Valid comes out with the first word.                                    *)
(***************************************************************************)
Meets == Types /\ (Keeping \/ Reading) /\ Met /\ Comes /\ Follow

\* What is at the output when the unit behind takes it: the next word of the result it has begun, or the first
\* word of the one after.
LEMMA TakesRight ==
  ASSUME Meets, Valids
  PROVE  /\ Takes => taken + 2 < given /\ taken + 2 \in Poly /\ Word(LAT, taken + 2, out)
         /\ out > 0 => ~o_valid_line[LAT]
         /\ o_valid_line[LAT] => First(LAT, taken + 2)
<1>0. /\ LAT \in Nat \ {0} /\ LAT \in 1 .. LAT /\ given \in Nat /\ taken \in Nat /\ out \in Nat /\ given =< MaxPolys
      /\ MaxPolys \in Nat
  BY Sizes, Delays DEF Meets, Types, Addr
<1>1. o_valid <=> o_valid_line[LAT]
  <2>1. o_valid_line \in [1 .. LAT -> BOOLEAN]
    BY DEF Meets, Types
  <2>2. o_valid_line \in Seq(BOOLEAN) /\ Len(o_valid_line) = LAT
    BY <1>0, <2>1
  <2> QED
    BY <2>2 DEF o_valid, Out
<1>2. out > 0 => Word(LAT, taken + 2, out) /\ taken + 2 < given
  BY DEF Valids
<1>3. ASSUME o_valid_line[LAT], NEW n \in Begun + 2 .. given - 1, Word(LAT, n, 0)
      PROVE  out = 0 /\ n = taken + 2
  <2>1. out = 0
    <3> SUFFICES ASSUME out > 0 PROVE FALSE
      BY <1>0
    <3>1. Word(LAT, taken + 2, out)
      BY <1>2
    <3>2. out = 0
      BY <1>0, <1>3, <3>1, WordOne
    <3> QED
      BY <3>2
  <2>2. Begun = taken
    BY <2>1 DEF Begun
  <2>3. n \in Nat /\ n >= taken + 2 /\ n < given
    BY <1>0, <2>2
  <2>4. taken + 2 \in Begun + 2 .. given - 1 /\ taken + 2 \in Poly /\ n \in Poly
    BY <1>0, <2>2, <2>3 DEF Poly
  <2>5. PICK i \in 1 .. LAT : First(i, taken + 2)
    BY <2>4 DEF Valids
  <2>6. i < LAT => taken + 2 > n
    <3>1. First(LAT, n)
      BY <1>3 DEF First
    <3> QED
      BY <1>0, <2>4, <2>5, <3>1 DEF Valids
  <2>7. i = LAT
    BY <1>0, <2>3, <2>6
  <2>8. Word(LAT, taken + 2, 0)
    BY <2>5, <2>7 DEF First
  <2>9. n = taken + 2
    BY <1>0, <1>3, <2>8, WordOne
  <2> QED
    BY <2>1, <2>9
<1>4. o_valid_line[LAT] => out = 0 /\ taken + 2 < given /\ First(LAT, taken + 2)
  <2> SUFFICES ASSUME o_valid_line[LAT] PROVE out = 0 /\ taken + 2 < given /\ First(LAT, taken + 2)
    OBVIOUS
  <2>1. PICK n \in Begun + 2 .. given - 1 : Word(LAT, n, 0)
    BY <1>0 DEF Valids
  <2>2. out = 0 /\ n = taken + 2
    BY <1>3, <2>1
  <2>3. n < given
    <3>1. Begun \in Nat
      BY <1>0 DEF Begun
    <3> QED
      BY <1>0, <3>1
  <2> QED
    BY <2>1, <2>2, <2>3 DEF First
<1>5. Takes => taken + 2 < given /\ Word(LAT, taken + 2, out)
  BY <1>1, <1>2, <1>4 DEF Takes, First
<1>6. taken + 2 < given => taken + 2 \in Poly
  BY <1>0 DEF Poly
<1> QED
  BY <1>0, <1>4, <1>5, <1>6

\* How many results are begun after a cycle.
LEMMA BegunMoves ==
  ASSUME Meets, Valids, NEW v \in BOOLEAN, Clock(v)
  PROVE  /\ Begun' = IF o_valid_line[LAT] THEN taken + 1 ELSE Begun
         /\ Begun \in Nat /\ Begun' \in Nat
         /\ o_valid_line[LAT] => Begun = taken
         /\ given >= 2 => Begun + 2 =< given
         /\ out' > 0 => Word(LAT, taken + 2, out)' /\ taken' + 2 < given'
         /\ taken' > 0 => taken' + 2 =< given'
<1>0. /\ LAT \in Nat /\ LAT > 3 /\ LAT \in 1 .. LAT /\ given \in Nat /\ taken \in Nat /\ out \in Addr /\ out \in Nat
      /\ K \in Nat /\ K > 2 /\ Types
  BY Sizes, Delays DEF Meets, Types, Addr
<1>1. Takes <=> o_valid_line[LAT] \/ out > 0
  <2>1. o_valid_line \in [1 .. LAT -> BOOLEAN]
    BY DEF Meets, Types
  <2>2. o_valid_line \in Seq(BOOLEAN) /\ Len(o_valid_line) = LAT
    BY <1>0, <2>1
  <2> QED
    BY <2>2 DEF o_valid, Out, Takes
<1>2. /\ out' = IF Takes THEN (IF out = K - 1 THEN 0 ELSE out + 1) ELSE 0
      /\ taken' = IF Takes /\ out = K - 1 THEN taken + 1 ELSE taken
  <2>1. /\ out' = IF Takes THEN (out + 1) % K ELSE 0
        /\ taken' = IF Takes /\ out = K - 1 THEN taken + 1 ELSE taken
    BY <1>0, ControlMoves
  <2>2. (out + 1) % K = IF out = K - 1 THEN 0 ELSE out + 1
    BY <1>0, Counts
  <2> QED
    BY <2>1, <2>2
<1>3. /\ Takes => taken + 2 < given /\ taken + 2 \in Poly /\ Word(LAT, taken + 2, out)
      /\ out > 0 => ~o_valid_line[LAT]
  BY TakesRight
<1>4. given' >= given /\ given' \in Nat
  <2>1. given' = IF v THEN given + 1 ELSE given
    BY <1>0, ControlMoves
  <2> QED
    BY <1>0, <2>1
<1>5. CASE ~Takes
  <2>1. out = 0 /\ out' = 0 /\ taken' = taken /\ ~o_valid_line[LAT]
    BY <1>0, <1>1, <1>2, <1>5
  <2>2. Begun = taken /\ Begun' = taken
    BY <2>1 DEF Begun
  <2>3. taken > 0 => taken + 2 =< given
    BY DEF Valids
  <2> QED
    BY <1>0, <1>4, <2>1, <2>2, <2>3
<1>6. CASE Takes /\ out = K - 1
  <2>1. out > 0 /\ ~o_valid_line[LAT] /\ out' = 0 /\ taken' = taken + 1 /\ taken + 2 < given
    BY <1>0, <1>2, <1>3, <1>6
  <2>2. Begun = taken + 1 /\ Begun' = taken + 1
    BY <2>1 DEF Begun
  <2> QED
    BY <1>0, <1>4, <2>1, <2>2
<1>7. CASE Takes /\ out # K - 1
  <2>1. out' = out + 1 /\ out' > 0 /\ taken' = taken /\ taken + 2 < given /\ Word(LAT, taken + 2, out)
    BY <1>0, <1>2, <1>3, <1>7
  <2>2. Begun' = taken + 1
    BY <2>1 DEF Begun
  <2>3. Word(LAT, taken + 2, out)'
    <3>1. out \in 0 .. K - 2 /\ out + 1 \in Addr /\ LAT \in 2 .. LAT /\ taken + 2 \in Poly
      BY <1>0, <1>3, <1>7 DEF Addr
    <3>2. Word(LAT - 1, taken + 2, out + 1)
      BY <2>1, <3>1 DEF Meets, Follow
    <3>3. PICK n \in Poly, j \in Addr : n = taken + 2 /\ j = out + 1
      BY <3>1
    <3>4. LAT - 1 \in 1 .. LAT - 1 /\ (LAT - 1) + 1 = LAT
      BY <1>0
    <3>5. Word((LAT - 1) + 1, n, j)' <=> Word(LAT - 1, n, j)
      BY <3>4, WordMoves DEF Meets
    <3>6. Word(LAT, n, j)'
      BY <3>2, <3>3, <3>4, <3>5
    <3>7. n = taken' + 2 /\ j = out'
      BY <2>1, <3>3
    <3> QED
      BY <3>6, <3>7 DEF Word
  <2>4. o_valid_line[LAT] => Begun = taken
    BY <1>0, <1>3 DEF Begun
  <2>5. ~o_valid_line[LAT] => Begun = taken + 1
    BY <1>0, <1>1, <1>7 DEF Begun
  <2>6. Begun \in Nat /\ Begun + 2 =< given
    BY <1>0, <2>1, <2>4, <2>5
  <2>7. taken' + 2 < given'
    BY <1>0, <1>4, <2>1
  <2>8. taken' + 2 =< given'
    BY <1>0, <1>4, <2>1, <2>7
  <2> QED
    BY <1>0, <2>1, <2>2, <2>3, <2>4, <2>5, <2>6, <2>7, <2>8
<1> QED
  BY <1>5, <1>6, <1>7

\* First words and their valid move together; a valid comes in with the first word of a polynomial.
LEMMA FirstMoves ==
  ASSUME Meets, NEW v \in BOOLEAN, Clock(v)
  PROVE  /\ \A i \in 1 .. LAT - 1 : o_valid_line'[i + 1] <=> o_valid_line[i]
         /\ \A i \in 1 .. LAT - 1, n \in Poly : First(i + 1, n)' <=> First(i, n)
         /\ o_valid_line'[1] <=> v /\ given >= 2
         /\ v => given \in Poly /\ given' = given + 1
         /\ ~v => given' = given
         /\ \A n \in Poly : n = given /\ v /\ given >= 2 => First(1, n)'
<1>0. /\ LAT \in Nat /\ LAT > 3 /\ B_SHIFT \in Nat /\ 1 =< B_SHIFT /\ 0 \in Addr /\ Types /\ given \in Nat
      /\ K \in Nat /\ K > 0
  BY Sizes, Delays DEF Meets, Types, Addr
<1>1. \A i \in 1 .. LAT : o_valid_line'[i] <=> IF i = 1 THEN v /\ ~last ELSE o_valid_line[i - 1]
  BY <1>0, LinesMove
<1>2. ASSUME NEW i \in 1 .. LAT - 1 PROVE o_valid_line'[i + 1] <=> o_valid_line[i]
  <2>1. i + 1 \in 1 .. LAT /\ i + 1 # 1 /\ (i + 1) - 1 = i
    BY <1>0
  <2> QED
    BY <1>1, <2>1
<1>3. ASSUME NEW i \in 1 .. LAT - 1, NEW n \in Poly PROVE First(i + 1, n)' <=> First(i, n)
  <2>1. Word(i + 1, n, 0)' <=> Word(i, n, 0)
    BY <1>0, WordMoves DEF Meets
  <2> QED
    BY <1>2, <2>1 DEF First
<1>4. given' = IF v THEN given + 1 ELSE given
  BY <1>0, ControlMoves
<1>5. o_valid_line'[1] <=> v /\ ~last
  <2>1. 1 \in 1 .. LAT
    BY <1>0
  <2> QED
    BY <1>1, <2>1
<1>6. ~last <=> given >= 2
  <2>1. CASE Keeping
    BY <1>0, <2>1 DEF Keeping
  <2>2. CASE Reading
    BY <1>0, <2>2 DEF Reading
  <2> QED
    BY <2>1, <2>2 DEF Meets
<1>7. ASSUME NEW n \in Poly, n = given, v, given >= 2 PROVE First(1, n)'
  <2>1. Comer(v) = n /\ Place(v) = 0
    BY <1>7 DEF Comer, Place
  <2>2. EntersB(v) = B(n, 0)
    BY <1>0, <1>7, <2>1 DEF EntersB
  <2>3. B_line'[1] = EntersB(v)
    <3>1. 1 \in 1 .. B_SHIFT
      BY <1>0
    <3> QED
      BY <1>0, <3>1, LinesMove
  <2>4. Word(1, n, 0)'
    BY <1>0, <2>2, <2>3 DEF Word
  <2>5. o_valid_line'[1]
    BY <1>5, <1>6, <1>7
  <2> QED
    BY <2>4, <2>5 DEF First
<1>8. v => given \in Poly
  <2>1. v => given < MaxPolys
    BY <1>0, ControlMoves
  <2> QED
    BY <1>0, <2>1, Sizes DEF Poly
<1> QED
  BY <1>2, <1>3, <1>4, <1>5, <1>6, <1>7, <1>8

\* The pulses that come out belong, in order, to the polynomials not begun yet.
LEMMA ValidsStep ==
  ASSUME Meets, Valids, NEW v \in BOOLEAN, Clock(v)
  PROVE  Valids'
<1>0. /\ LAT \in Nat /\ LAT > 3 /\ LAT \in 1 .. LAT /\ given \in Nat /\ taken \in Nat /\ given =< MaxPolys
      /\ MaxPolys \in Nat /\ Begun \in Nat
  <2>1. given \in Nat /\ taken \in Nat /\ given =< MaxPolys /\ MaxPolys \in Nat
    BY Sizes DEF Meets, Types
  <2> QED
    BY <2>1, Sizes, Delays, BegunMoves
<1>1. PICK b \in Nat : b = Begun'
  BY BegunMoves
<1>2. PICK g \in Nat : g = given'
  <2>1. given' = IF v THEN given + 1 ELSE given
    BY ControlMoves DEF Meets
  <2> QED
    BY <1>0, <2>1
<1>3. /\ \A i \in 1 .. LAT - 1 : o_valid_line'[i + 1] <=> o_valid_line[i]
      /\ \A i \in 1 .. LAT - 1, n \in Poly : First(i + 1, n)' <=> First(i, n)
      /\ o_valid_line'[1] <=> v /\ given >= 2
      /\ v => given \in Poly /\ g = given + 1
      /\ ~v => g = given
      /\ \A n \in Poly : n = given /\ v /\ given >= 2 => First(1, n)'
  BY <1>2, FirstMoves
<1>4. given =< g
  BY <1>0, <1>3
<1>5. /\ b = IF o_valid_line[LAT] THEN taken + 1 ELSE Begun
      /\ o_valid_line[LAT] => Begun = taken
      /\ given >= 2 => Begun + 2 =< given
  BY <1>1, BegunMoves
<1>6. o_valid_line[LAT] => First(LAT, taken + 2)
  BY TakesRight
<1>7. ASSUME NEW i \in 1 .. LAT - 1, NEW n \in Begun + 2 .. given - 1, First(i, n)
      PROVE  n \in b + 2 .. g - 1 /\ First(i + 1, n)'
  <2>1. n \in Poly /\ n \in Nat
    BY <1>0 DEF Poly
  <2>2. First(i + 1, n)'
    BY <1>3, <1>7, <2>1
  <2>3. CASE o_valid_line[LAT]
    <3>1. First(LAT, taken + 2) /\ taken + 2 \in Poly
      <4>1. Begun = taken
        BY <1>5, <2>3
      <4>2. taken + 2 =< n
        BY <1>0, <4>1
      <4> QED
        BY <1>0, <1>6, <2>1, <2>3, <4>2 DEF Poly
    <3>2. i < LAT /\ i \in 1 .. LAT
      BY <1>0
    <3>3. n > taken + 2
      BY <1>0, <1>7, <2>1, <3>1, <3>2 DEF Valids
    <3>4. b = taken + 1
      BY <1>5, <2>3
    <3> QED
      BY <1>0, <1>4, <2>1, <2>2, <3>3, <3>4
  <2>4. CASE ~o_valid_line[LAT]
    <3>1. b = Begun
      BY <1>5, <2>4
    <3> QED
      BY <1>0, <1>4, <2>2, <3>1
  <2> QED
    BY <2>3, <2>4
<1>8. v /\ given >= 2 => given \in b + 2 .. g - 1
  <2> SUFFICES ASSUME v, given >= 2 PROVE given \in b + 2 .. g - 1
    OBVIOUS
  <2>1. g = given + 1 /\ Begun + 2 =< given
    BY <1>3, <1>5
  <2>2. b + 2 =< given
    <3>1. CASE o_valid_line[LAT]
      <4>1. taken + 2 < given
        <5>1. PICK n \in Begun + 2 .. given - 1 : Word(LAT, n, 0)
          BY <1>0, <3>1 DEF Valids
        <5> QED
          BY <1>0, <1>5, <3>1
      <4> QED
        BY <1>0, <1>5, <3>1, <4>1
    <3>2. CASE ~o_valid_line[LAT]
      BY <1>5, <2>1, <3>2
    <3> QED
      BY <3>1, <3>2
  <2> QED
    BY <1>0, <2>1, <2>2
<1>9. ASSUME NEW i \in 1 .. LAT, o_valid_line'[i]
      PROVE  \E n \in b + 2 .. g - 1 : Word(i, n, 0)'
  <2>1. CASE i = 1
    <3>1. v /\ given >= 2
      BY <1>3, <1>9, <2>1
    <3>2. PICK n \in Poly : n = given
      BY <1>3, <3>1
    <3>3. First(1, n)'
      BY <1>3, <3>1, <3>2
    <3>4. n \in b + 2 .. g - 1
      BY <1>8, <3>1, <3>2
    <3> QED
      BY <2>1, <3>3, <3>4 DEF First
  <2>2. CASE i # 1
    <3>1. i - 1 \in 1 .. LAT - 1 /\ (i - 1) + 1 = i /\ i - 1 \in 1 .. LAT
      BY <1>0, <2>2
    <3>2. o_valid_line[i - 1]
      <4>1. o_valid_line'[(i - 1) + 1] <=> o_valid_line[i - 1]
        BY <1>3, <3>1
      <4> QED
        BY <1>9, <3>1, <4>1
    <3>3. PICK n \in Begun + 2 .. given - 1 : Word(i - 1, n, 0)
      BY <3>1, <3>2 DEF Valids
    <3>4. n \in b + 2 .. g - 1 /\ First((i - 1) + 1, n)'
      <4>1. First(i - 1, n)
        BY <3>2, <3>3 DEF First
      <4> QED
        BY <1>7, <3>1, <4>1
    <3>5. Word((i - 1) + 1, n, 0)'
      BY <3>4 DEF First
    <3> QED
      BY <3>1, <3>4, <3>5
  <2> QED
    BY <2>1, <2>2
<1>10. ASSUME NEW n \in b + 2 .. g - 1
      PROVE  \E i \in 1 .. LAT : First(i, n)'
  <2>0. n \in Nat /\ n >= 2
    BY <1>0
  <2>1. CASE n = given
    <3>1. v
      BY <1>0, <1>3, <2>1
    <3>2. n \in Poly
      BY <1>3, <2>1, <3>1
    <3>3. First(1, n)'
      BY <1>3, <2>0, <2>1, <3>1, <3>2
    <3>4. 1 \in 1 .. LAT
      BY <1>0
    <3> QED
      BY <3>3, <3>4
  <2>2. CASE n # given
    <3>1. n =< given - 1
      <4>1. g - 1 = given \/ g - 1 = given - 1
        BY <1>0, <1>3
      <4>2. n =< g - 1
        BY <1>0
      <4> QED
        BY <1>0, <2>0, <2>2, <4>1, <4>2
    <3>2. n \in Begun + 2 .. given - 1 /\ n \in Poly
      <4>1. Begun =< b
        BY <1>0, <1>5
      <4>2. n >= b + 2
        BY <1>0
      <4>3. n >= Begun + 2
        BY <1>0, <2>0, <4>1, <4>2
      <4>4. n < MaxPolys
        BY <1>0, <2>0, <3>1
      <4> QED
        BY <1>0, <2>0, <3>1, <4>3, <4>4 DEF Poly
    <3>3. PICK i \in 1 .. LAT : First(i, n)
      BY <3>2 DEF Valids
    <3>4. i # LAT
      <4> SUFFICES ASSUME i = LAT PROVE FALSE
        OBVIOUS
      <4>1. o_valid_line[LAT] /\ Word(LAT, n, 0)
        BY <3>3 DEF First
      <4>2. Word(LAT, taken + 2, 0)
        BY <1>6, <4>1 DEF First
      <4>3. n = taken + 2
        BY <1>0, <4>1, <4>2, WordOne
      <4>4. b = taken + 1
        BY <1>5, <4>1
      <4>5. n >= b + 2
        BY <1>0
      <4> QED
        BY <1>0, <4>3, <4>4, <4>5
    <3>5. i \in 1 .. LAT - 1 /\ i + 1 \in 1 .. LAT
      BY <1>0, <3>4
    <3>6. First(i + 1, n)'
      BY <1>3, <3>2, <3>3, <3>5
    <3> QED
      BY <3>5, <3>6
  <2> QED
    BY <2>1, <2>2
<1>11. ASSUME NEW i \in 1 .. LAT, NEW k \in 1 .. LAT, NEW m \in Poly, NEW n \in Poly,
             i < k, First(i, m)', First(k, n)'
      PROVE  m > n
  <2>1. k - 1 \in 1 .. LAT - 1 /\ (k - 1) + 1 = k /\ k - 1 \in 1 .. LAT
    BY <1>0, <1>11
  <2>2. First(k - 1, n)
    <3>1. First((k - 1) + 1, n)' <=> First(k - 1, n)
      BY <1>3, <2>1
    <3> QED
      BY <1>11, <2>1, <3>1
  <2>3. CASE i = 1
    <3>1. v /\ given >= 2
      BY <1>3, <1>11, <2>3 DEF First
    <3>2. PICK f \in Poly : f = given
      BY <1>3, <3>1
    <3>3. First(1, f)'
      BY <1>3, <3>1, <3>2
    <3>4. Word(1, f, 0)' /\ Word(1, m, 0)'
      BY <1>11, <2>3, <3>3 DEF First
    <3>5. m = f
      <4>1. B(f, 0) = B(m, 0) => f = m
        BY Made
      <4>2. 1 =< B_SHIFT
        BY Sizes, Delays
      <4>3. B_line'[1] = B(f, 0) /\ B_line'[1] = B(m, 0)
        BY <3>4, <4>2 DEF Word
      <4> QED
        BY <4>1, <4>3
    <3>6. PICK p \in Begun + 2 .. given - 1 : Word(k - 1, p, 0)
      BY <2>1, <2>2 DEF Valids, First
    <3>7. p = n
      BY <2>1, <2>2, <3>6, WordOne DEF First
    <3> QED
      BY <1>0, <3>2, <3>5, <3>7
  <2>4. CASE i # 1
    <3>1. i - 1 \in 1 .. LAT - 1 /\ (i - 1) + 1 = i /\ i - 1 \in 1 .. LAT /\ i - 1 < k - 1
      BY <1>0, <1>11, <2>4
    <3>2. First(i - 1, m)
      <4>1. First((i - 1) + 1, m)' <=> First(i - 1, m)
        BY <1>3, <3>1
      <4> QED
        BY <1>11, <3>1, <4>1
    <3> QED
      BY <2>1, <2>2, <3>1, <3>2 DEF Valids
  <2> QED
    BY <2>3, <2>4
<1>12. (out > 0 => Word(LAT, taken + 2, out) /\ taken + 2 < given)'
  BY BegunMoves
<1>13. (taken > 0 => taken + 2 =< given)'
  BY BegunMoves
<1>14. \A i \in 1 .. LAT : o_valid_line'[i] => \E n \in Begun' + 2 .. given' - 1 : Word(i, n, 0)'
  BY <1>1, <1>2, <1>9
<1>15. \A n \in Begun' + 2 .. given' - 1 : \E i \in 1 .. LAT : First(i, n)'
  BY <1>1, <1>2, <1>10
<1>16. \A i, k \in 1 .. LAT, m, n \in Poly : i < k /\ First(i, m)' /\ First(k, n)' => m > n
  BY <1>11
<1> QED
  <2>1. (\A i \in 1 .. LAT : o_valid_line[i] => \E n \in Begun + 2 .. given - 1 : Word(i, n, 0))'
    BY <1>14
  <2>2. (\A n \in Begun + 2 .. given - 1 : \E i \in 1 .. LAT : First(i, n))'
    BY <1>15
  <2>3. (\A i, k \in 1 .. LAT, m, n \in Poly : i < k /\ First(i, m) /\ First(k, n) => m > n)'
    BY <1>16
  <2> QED
    BY <1>12, <1>13, <2>1, <2>2, <2>3 DEF Valids

-----------------------------------------------------------------------------
(***************************************************************************)
(* Theorems.                                                               *)
(***************************************************************************)
LEMMA InvInit ==
  ASSUME Init
  PROVE  IInv
<1>1. Types
  BY TypeInit
<1>2. Keeping \/ Reading
  <2>1. Rest
    BY Sizes DEF Init, Rest, Half
  <2> QED
    BY <2>1, Sizes DEF Init, Keeping
<1>3. /\ \A i \in 1 .. B_SHIFT : B_line[i] = None
      /\ \A i \in 1 .. LAT_ADD : add[i] = None
      /\ \A i \in 1 .. LAT : o_valid_line[i] = FALSE
      /\ C = None /\ given = 0 /\ taken = 0 /\ out = 0
  BY DEF Init, Line
<1>4. /\ B_SHIFT \in Nat /\ LAT \in Nat /\ LAT > 0 /\ LAT = B_SHIFT + LAT_ADD + 1 /\ LAT_ADD \in Nat
      /\ B_SHIFT = LAT_SUB0 + 2 + LAT_SUB1 + LAT_MUL /\ B_SHIFT > 4
      /\ LAT_SUB0 \in Nat /\ LAT_SUB1 \in Nat /\ LAT_MUL \in Nat
  BY Sizes, Delays
<1>5. Met
  <2>1. ASSUME NEW n \in Poly, NEW j \in Addr, NEW i \in 1 .. B_SHIFT PROVE B_line[i] # B(n, j)
    BY <1>3, Made
  <2>2. /\ \A i \in 1 .. LAT_SUB0 + 2 : i \in 1 .. B_SHIFT
        /\ 2 \in 1 .. B_SHIFT
        /\ \A i \in 1 .. LAT_SUB0 : 2 + i \in 1 .. B_SHIFT
        /\ \A i \in 1 .. LAT_SUB1 : LAT_SUB0 + 2 + i \in 1 .. B_SHIFT
        /\ \A i \in 1 .. LAT_MUL : LAT_SUB0 + 2 + LAT_SUB1 + i \in 1 .. B_SHIFT
    BY <1>4
  <2> QED
    BY <1>3, <2>1, <2>2 DEF Met
<1>6. Comes
  <2>1. 1 \in 1 .. B_SHIFT /\ ~(given > 2)
    BY <1>3, <1>4
  <2> QED
    BY <1>3, <2>1 DEF Comes
<1>7. ASSUME NEW i \in 1 .. LAT, NEW n, NEW j PROVE ~Word(i, n, j)
  <2>1. Result(n, j) # None /\ B(n, j) # None
    BY Made DEF Result, Sum, None
  <2>2. CASE i =< B_SHIFT
    <3>1. i \in 1 .. B_SHIFT
      BY <1>4, <2>2
    <3> QED
      BY <1>3, <2>1, <2>2, <3>1 DEF Word
  <2>3. CASE ~(i =< B_SHIFT) /\ i < LAT
    <3>1. i - B_SHIFT \in 1 .. LAT_ADD
      BY <1>4, <2>3
    <3> QED
      BY <1>3, <2>1, <2>3, <3>1 DEF Word
  <2>4. CASE ~(i =< B_SHIFT) /\ ~(i < LAT)
    BY <1>3, <2>1, <2>4 DEF Word
  <2> QED
    BY <2>2, <2>3, <2>4
<1>8. Follow
  <2>1. \A i \in 2 .. LAT : i \in 1 .. LAT
    BY <1>4
  <2> QED
    BY <1>7, <2>1 DEF Follow
<1>9. Valids
  <2>1. \A n \in Begun + 2 .. given - 1 : FALSE
    BY <1>3 DEF Begun
  <2>2. \A i \in 1 .. LAT, n \in Poly : ~First(i, n)
    BY <1>3 DEF First
  <2> QED
    BY <1>3, <2>1, <2>2 DEF Valids
<1> QED
  BY <1>1, <1>2, <1>5, <1>6, <1>8, <1>9 DEF IInv

\* Every cycle keeps it.
LEMMA InvStep ==
  ASSUME IInv, [Next]_vars
  PROVE  IInv'
<1>1. ASSUME NEW v \in BOOLEAN, Clock(v) PROVE IInv'
  <2>1. Types /\ (Keeping \/ Reading) /\ Met /\ Comes /\ Follow /\ Valids /\ Meets
    BY DEF IInv, Meets
  <2>2. Types' /\ (Keeping \/ Reading)'
    BY <1>1, <2>1, TypeStep, PhaseStep
  <2>3. Met' /\ Comes'
    BY <1>1, <2>1, MetStep, ComesStep
  <2>4. Follow' /\ Valids'
    BY <1>1, <2>1, FollowStep, ValidsStep
  <2> QED
    BY <2>2, <2>3, <2>4 DEF IInv
<1>2. ASSUME UNCHANGED vars PROVE IInv'
  <2> USE DEF vars, wrapVars, ctrlVars, dataVars
  <2>1. Types' /\ Comes'
    BY <1>2 DEF IInv, Types, LineOf, Comes
  <2>2. (Keeping \/ Reading)'
    BY <1>2 DEF IInv, Keeping, Reading, Rest, Starts, Waits, Writes, Ends, Enters, Before, Tail0, Full
  <2>3. Met'
    BY <1>2 DEF IInv, Met
  <2>4. Follow'
    BY <1>2 DEF IInv, Follow, Word
  <2>5. Valids'
    BY <1>2 DEF IInv, Valids, First, Word, Begun
  <2> QED
    BY <2>1, <2>2, <2>3, <2>4, <2>5 DEF IInv
<1> QED
  BY <1>1, <1>2 DEF Next

\* The inductive invariant holds.
THEOREM Invariant == Spec => []IInv
BY InvInit, InvStep, PTL DEF Spec

\* In the cycles from o_valid on C is the result of that polynomial, word by word: for all latencies the delays
\* of relin_final_op.sv make up for each other, at whatever distance the polynomials follow each other.
THEOREM OutputCorrect == Spec => []OutputRight
<1>1. IInv => OutputRight
  <2> SUFFICES ASSUME IInv, Takes PROVE given > taken + 2 /\ C = Result(taken + 2, out)
    BY DEF OutputRight
  <2>1. taken + 2 < given /\ Word(LAT, taken + 2, out)
    BY TakesRight DEF IInv, Meets
  <2>2. ~(LAT =< B_SHIFT) /\ ~(LAT < LAT)
    BY Sizes, Delays
  <2>3. taken \in Nat /\ given \in Nat
    BY DEF IInv, Types
  <2> QED
    BY <2>1, <2>2, <2>3 DEF Word
<1> QED
  BY <1>1, Invariant, PTL

\* Once the state machine is out of its write states the kept polynomials stand in the BRAM, whole and in order:
\* for every latency of the adder that the distance of the third polynomial allows.
THEOREM KeptCorrect == Spec => []KeptWhole
<1>1. IInv => KeptWhole
  <2> SUFFICES ASSUME IInv, fsm \in {"ST_IDLE", "ST_READ"}, ~wen, NEW n \in Half, n < given
               PROVE  Full(n)
    BY DEF KeptWhole, Full, Kept
  <2>1. CASE Keeping
    BY <2>1 DEF Keeping, Rest, Starts, Waits, Writes, Ends
  <2>2. CASE Reading
    BY <2>2 DEF Reading, Half
  <2> QED
    BY <2>1, <2>2 DEF IInv
<1> QED
  BY <1>1, Invariant, PTL
=============================================================================
