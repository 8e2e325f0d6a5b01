---------------------------- MODULE HbmWriteProofs ----------------------------
(***************************************************************************)
(* Theorems about HbmWritePort for every number of channels, every length  *)
(* of polynomials and bursts and every DoneLat: bursts are framed, every   *)
(* word is at its place at done and stays there, addresses stay, and the   *)
(* port implements WritePort.                                              *)
(***************************************************************************)
EXTENDS HbmWritePort, SequenceTheorems, TLAPS

-----------------------------------------------------------------------------
(***************************************************************************)
(* Words of a request that follow each other, delay lines, and bursts.     *)
(***************************************************************************)
\* Words m .. n - 1 of request i.
Words(i, m, n) == [k \in 1 .. n - m |-> <<i, m + k - 1>>]

\* A delay line with the places d, when b comes in and what is in the last place goes out.
Moved(b, d, N) == [n \in 1 .. N |-> IF n = 1 THEN b ELSE d[n - 1]]

\* Words that follow each other are as many as the distance between their ends.
LEMMA WordsSeq ==
  ASSUME NEW i \in Nat, NEW m \in Nat, NEW n \in Nat, m =< n
  PROVE  /\ Words(i, m, n) \in Seq(Nat \X Nat)
         /\ Len(Words(i, m, n)) = n - m
<1>1. n - m \in Nat /\ \A k \in 1 .. n - m : <<i, m + k - 1>> \in Nat \X Nat
  OBVIOUS
<1>2. Words(i, m, n) \in [1 .. n - m -> Nat \X Nat]
  BY <1>1 DEF Words
<1> QED
  BY <1>1, <1>2 DEF Words

\* There are none just if the two ends are the same.
LEMMA WordsEmpty ==
  ASSUME NEW i \in Nat, NEW m \in Nat, NEW n \in Nat, m =< n
  PROVE  Words(i, m, n) = <<>> <=> m = n
<1>1. m = n => Words(i, m, n) = <<>>
  BY WordsSeq, EmptySeq, SeqEqual
<1>2. m < n => Len(Words(i, m, n)) # 0
  BY WordsSeq
<1> QED
  BY <1>1, <1>2, EmptySeq

\* The first of them is taken.
LEMMA WordsTake ==
  ASSUME NEW i \in Nat, NEW m \in Nat, NEW n \in Nat, m < n
  PROVE  Head(Words(i, m, n)) = <<i, m>> /\ Tail(Words(i, m, n)) = Words(i, m + 1, n)
<1> DEFINE s == Words(i, m, n)
           t == Words(i, m + 1, n)
<1>1. s \in Seq(Nat \X Nat) /\ Len(s) = n - m /\ s # <<>> /\ s[1] = <<i, m>>
  <2>1. s[1] = <<i, m>>
    BY DEF Words
  <2> QED
    BY <2>1, WordsSeq, WordsEmpty
<1>2. t \in Seq(Nat \X Nat) /\ Len(t) = n - m - 1
  BY WordsSeq
<1>3. Tail(s) \in Seq(Nat \X Nat) /\ Len(Tail(s)) = n - m - 1
  BY <1>1, HeadTailProperties
<1>4. \A k \in 1 .. n - m - 1 : Tail(s)[k] = t[k]
  <2> SUFFICES ASSUME NEW k \in 1 .. n - m - 1 PROVE Tail(s)[k] = t[k]
    OBVIOUS
  <2>1. Tail(s)[k] = s[k + 1]
    BY <1>1, <1>3, HeadTailProperties
  <2>2. s[k + 1] = <<i, m + k>>
    BY DEF Words
  <2>3. t[k] = <<i, m + k>>
    BY DEF Words
  <2> QED
    BY <2>1, <2>2, <2>3
<1>5. Tail(s) = t
  <2> HIDE DEF s, t
  <2> QED
    BY <1>2, <1>3, <1>4, SeqEqual
<1> QED
  BY <1>1, <1>5

\* Words are put behind those that come before them.
LEMMA WordsJoin ==
  ASSUME NEW i \in Nat, NEW m \in Nat, NEW n \in Nat, NEW p \in Nat, m =< n, n =< p
  PROVE  Words(i, m, n) \o Words(i, n, p) = Words(i, m, p)
<1> DEFINE s == Words(i, m, n)
           t == Words(i, n, p)
           u == Words(i, m, p)
<1>1. /\ s \in Seq(Nat \X Nat) /\ Len(s) = n - m
      /\ t \in Seq(Nat \X Nat) /\ Len(t) = p - n
      /\ u \in Seq(Nat \X Nat) /\ Len(u) = p - m
  <2>1. s \in Seq(Nat \X Nat) /\ Len(s) = n - m
    BY WordsSeq
  <2>2. t \in Seq(Nat \X Nat) /\ Len(t) = p - n
    BY WordsSeq
  <2>3. u \in Seq(Nat \X Nat) /\ Len(u) = p - m
    BY WordsSeq
  <2> QED
    BY <2>1, <2>2, <2>3
<1>2. s \o t \in Seq(Nat \X Nat) /\ Len(s \o t) = p - m
  <2> HIDE DEF s, t
  <2> QED
    BY <1>1, ConcatProperties
<1>3. \A k \in 1 .. p - m : (s \o t)[k] = u[k]
  <2> SUFFICES ASSUME NEW k \in 1 .. p - m PROVE (s \o t)[k] = u[k]
    OBVIOUS
  <2>1. (s \o t)[k] = IF k =< n - m THEN s[k] ELSE t[k - (n - m)]
    <3> HIDE DEF s, t
    <3>1. \A j \in 1 .. Len(s) + Len(t) : (s \o t)[j] = IF j =< Len(s) THEN s[j] ELSE t[j - Len(s)]
      BY <1>1, ConcatProperties
    <3>2. k \in 1 .. Len(s) + Len(t) /\ Len(s) = n - m
      BY <1>1
    <3> QED
      BY <3>1, <3>2
  <2>2. u[k] = <<i, m + k - 1>>
    BY DEF Words
  <2>3. k =< n - m => s[k] = <<i, m + k - 1>>
    BY DEF Words
  <2>4. ~(k =< n - m) => t[k - (n - m)] = <<i, n + (k - (n - m)) - 1>>
    BY DEF Words
  <2> QED
    BY <2>1, <2>2, <2>3, <2>4
<1> QED
  <2> HIDE DEF s, t, u
  <2>1. s \o t = u
    BY <1>1, <1>2, <1>3, SeqEqual
  <2> QED
    BY <2>1 DEF s, t, u

\* A single word.
LEMMA WordsOne ==
  ASSUME NEW i \in Nat, NEW m \in Nat
  PROVE  Words(i, m, m + 1) = << <<i, m>> >>
<1>1. Words(i, m, m + 1) = [k \in 1 .. 1 |-> <<i, m>>]
  BY DEF Words
<1> QED
  BY <1>1

\* A word is appended.
LEMMA WordsAppend ==
  ASSUME NEW i \in Nat, NEW m \in Nat, NEW n \in Nat, m =< n
  PROVE  Append(Words(i, m, n), <<i, n>>) = Words(i, m, n + 1)
<1>1. Words(i, m, n) \o Words(i, n, n + 1) = Words(i, m, n + 1)
  <2>1. n + 1 \in Nat /\ n =< n + 1
    OBVIOUS
  <2> QED
    BY <2>1, WordsJoin
<1>2. Words(i, n, n + 1) = << <<i, n>> >>
  BY WordsOne
<1>3. Words(i, m, n) \in Seq(Nat \X Nat) /\ <<i, n>> \in Nat \X Nat
  BY WordsSeq
<1>4. Append(Words(i, m, n), <<i, n>>) = Words(i, m, n) \o << <<i, n>> >>
  BY <1>3
<1> QED
  BY <1>1, <1>2, <1>4

\* The places of a delay line move by one.
LEMMA ShiftRight ==
  ASSUME NEW N \in Nat \ {0}, NEW d \in [1 .. N -> BOOLEAN], NEW b \in BOOLEAN
  PROVE  <<b>> \o SubSeq(d, 1, N - 1) = Moved(b, d, N)
<1> DEFINE s == SubSeq(d, 1, N - 1)
           t == Moved(b, d, N)
<1>1. s \in Seq(BOOLEAN) /\ Len(s) = N - 1 /\ \A n \in 1 .. N - 1 : s[n] = d[n]
  BY SubSeqProperties
<1>2. <<b>> \in Seq(BOOLEAN) /\ Len(<<b>>) = 1 /\ <<b>>[1] = b
  OBVIOUS
<1>3. /\ <<b>> \o s \in Seq(BOOLEAN) /\ Len(<<b>> \o s) = N
      /\ \A n \in 1 .. N : (<<b>> \o s)[n] = IF n =< 1 THEN <<b>>[n] ELSE s[n - 1]
  <2> HIDE DEF s
  <2> QED
    BY <1>1, <1>2, ConcatProperties
<1>4. t \in Seq(BOOLEAN) /\ Len(t) = N
  <2>1. t \in [1 .. N -> BOOLEAN]
    BY DEF Moved
  <2> QED
    BY <2>1
<1>5. \A n \in 1 .. N : (<<b>> \o s)[n] = t[n]
  BY <1>1, <1>2, <1>3 DEF Moved
<1> QED
  <2> HIDE DEF s, t
  <2>1. <<b>> \o s = t
    BY <1>3, <1>4, <1>5, SeqEqual
  <2> QED
    BY <2>1 DEF s, t

\* If the burst length divides the length of a polynomial, bursts make a polynomial.
LEMMA BurstsMakeAll ==
  ASSUME NEW k \in Nat \ {0}, NEW b \in 1 .. k, k % b = 0
  PROVE  k \div b \in Nat \ {0} /\ (k \div b) * b = k
<1>1. k = b * (k \div b) + (k % b) /\ k \div b \in Nat
  OBVIOUS
<1>2. (k \div b) * b = k
  BY <1>1
<1>3. k \div b # 0
  BY <1>1
<1> QED
  BY <1>1, <1>2, <1>3

\* Where burst a of n begins and ends.
LEMMA BurstEnds ==
  ASSUME NEW n \in Nat, NEW b \in Nat \ {0}, NEW a \in 0 .. n - 1
  PROVE  /\ a * b \in Nat /\ (a + 1) * b = a * b + b /\ (a + 1) * b =< n * b
         /\ (a + 1) * b = n * b <=> a = n - 1
<1>1. a * b \in Nat /\ (a + 1) * b = a * b + b /\ n * b \in Nat
  OBVIOUS
<1>2. (n - (a + 1)) * b = n * b - (a + 1) * b
  OBVIOUS
<1>3. n - (a + 1) \in Nat
  OBVIOUS
<1>4. (n - (a + 1)) * b \in Nat /\ ((n - (a + 1)) * b = 0 <=> n - (a + 1) = 0)
  BY <1>3
<1> QED
  BY <1>1, <1>2, <1>4

\* The words of burst a are those whose number divided by the length is a.
LEMMA BurstOf ==
  ASSUME NEW b \in Nat \ {0}, NEW a \in Nat, NEW n \in Nat
  PROVE  /\ n % b \in 0 .. b - 1 /\ n = (n \div b) * b + (n % b) /\ n \div b \in Nat
         /\ n \div b = a <=> a * b =< n /\ n < a * b + b
<1>1. n % b \in 0 .. b - 1 /\ n = b * (n \div b) + (n % b) /\ n \div b \in Nat
  OBVIOUS
<1>2. n = (n \div b) * b + (n % b)
  BY <1>1
<1>3. n \div b = a => a * b =< n /\ n < a * b + b
  BY <1>1, <1>2
<1>4. n \div b < a => n < a * b
  <2> SUFFICES ASSUME n \div b < a PROVE n < a * b
    OBVIOUS
  <2> DEFINE d == a - (n \div b) - 1
  <2>1. d \in Nat /\ a = (n \div b) + 1 + d
    BY <1>1
  <2> HIDE DEF d
  <2>2. a * b = (n \div b) * b + b + d * b /\ d * b \in Nat
    BY <1>1, <2>1
  <2> QED
    BY <1>1, <1>2, <2>2
<1>5. n \div b > a => n >= a * b + b
  <2> SUFFICES ASSUME n \div b > a PROVE n >= a * b + b
    OBVIOUS
  <2> DEFINE d == (n \div b) - a - 1
  <2>1. d \in Nat /\ n \div b = a + 1 + d
    BY <1>1
  <2> HIDE DEF d
  <2>2. (n \div b) * b = a * b + b + d * b /\ d * b \in Nat
    BY <1>1, <2>1
  <2> QED
    BY <1>1, <1>2, <2>2
<1>6. a * b \in Nat
  OBVIOUS
<1> QED
  BY <1>1, <1>2, <1>3, <1>4, <1>5, <1>6

-----------------------------------------------------------------------------
(***************************************************************************)
(* The inductive invariant. The core hands over words while the channels   *)
(* write them burst by burst; the two meet in the FIFOs only.              *)
(***************************************************************************)
NoDone == \A n \in 1 .. DoneLat : ~done_pipe[n]
Quiet  == \A c \in Chan : tx_state[c] = "S_IDLE" /\ awaddr[c] = Empty /\ wdata[c] = <<>> /\ fifo[c] = <<>>

\* Words of the request the core has handed over, and those of them a memory has taken.
Given  == IF ctr_data > 0 THEN ctr_data ELSE IF waiting THEN K ELSE 0
Out(c) == Given - Len(fifo[c])

\* Channel c has the requests before in its memory, and n words of this one.
Kept(c, n) ==
  \A a \in Cell : a[1] < writes \/ (a[1] = writes /\ a[2] < n) => mem[c][a] = Word(a[1], a[2])

\* A burst that is announced: the counter of words and the words taken agree.
InBurst(c) ==
  /\ ~dma_done_q[c] /\ p_state # "ST_RW_MANY_1"
  /\ awaddr[c] = <<writes, ctr_addr>> /\ wdata[c] = Words(writes, ctr_addr * B, Out(c))
  /\ Out(c) = ctr_addr * B + tx_counter[c]
  /\ Kept(c, ctr_addr * B)

Between(c) == awaddr[c] = Empty /\ wdata[c] = <<>>

Write(c) ==
  /\ fifo[c] = Words(writes, Out(c), Given)
  /\ \/ /\ tx_state[c] = "S_WR" /\ ~dma_done_q[c] /\ p_state # "ST_RW_MANY_1"
        /\ tx_address = <<writes, ctr_addr>> /\ tx_counter[c] = 0
        /\ Between(c) /\ Out(c) = ctr_addr * B /\ Kept(c, ctr_addr * B)
     \/ tx_state[c] = "S_WRDATA" /\ tx_counter[c] < B /\ InBurst(c)
     \/ tx_state[c] = "S_WRRESP" /\ tx_counter[c] \in {B - 1, B} /\ InBurst(c)
     \/ /\ tx_state[c] = "S_IDLE" /\ dma_done_q[c] /\ Between(c)
        /\ LET n == IF p_state = "ST_RW_MANY_1" THEN ctr_addr * B ELSE (ctr_addr + 1) * B
           IN Out(c) = n /\ Kept(c, n)

Idling ==
  /\ ~waiting /\ p_state = "ST_IDLE" /\ ctr_data = 0 /\ ctr_addr = 0
  /\ NoDone /\ Quiet /\ \A c \in Chan : Kept(c, 0)

Writing ==
  /\ waiting /\ p_state # "ST_IDLE" /\ NoDone
  /\ p_state = "ST_RW_SINGLE" => BURST_NUM = 1 /\ ctr_data > 0
  /\ p_state = "ST_RW_END" => last_burst /\ ctr_data = 0
  /\ \A c \in Chan : Write(c)

Ending ==
  /\ waiting /\ p_state = "ST_IDLE" /\ ctr_data = 0
  /\ \E n \in 1 .. DoneLat : \A m \in 1 .. DoneLat : done_pipe[m] <=> m = n
  /\ Quiet /\ \A c \in Chan : Kept(c, K)

Phase == Idling \/ Writing \/ Ending

PortType ==
  /\ B \in Lens
  /\ p_state \in {"ST_IDLE", "ST_RW_SINGLE", "ST_RW_MANY_0", "ST_RW_MANY_1", "ST_RW_END"}
  /\ ctr_data \in 0 .. K - 1 /\ ctr_addr \in 0 .. BURST_NUM - 1
  /\ done_pipe \in [1 .. DoneLat -> BOOLEAN]
  /\ tx_state \in [Chan -> {"S_IDLE", "S_WR", "S_WRDATA", "S_WRRESP"}]
  /\ tx_counter \in [Chan -> 0 .. 2 * B - 1] /\ dma_done_q \in [Chan -> BOOLEAN]
  /\ fifo \in [Chan -> Seq(Nat \X Nat)] /\ wdata \in [Chan -> Seq(Nat \X Nat)]
  /\ \A c \in Chan : DOMAIN mem[c] = Cell
  /\ left = IF ctr_data > 0 THEN K - ctr_data ELSE 0
  /\ waiting \in BOOLEAN /\ writes \in 0 .. MaxWrites /\ (waiting => writes < MaxWrites)

IInv == PortType /\ Phase

-----------------------------------------------------------------------------
(***************************************************************************)
(* Sizes and types.                                                        *)
(***************************************************************************)
\* Bursts: BURST_NUM of them, B words each, make a polynomial.
LEMMA Sizes == PortType => /\ K \in Nat /\ K > 1 /\ B \in Nat /\ B > 0
                           /\ BURST_NUM \in Nat /\ BURST_NUM > 0 /\ BURST_NUM * B = K
<1>1. PortType => K \in Nat \ {0} /\ K > 1 /\ B \in 1 .. K /\ K % B = 0
  BY BurstAssumption DEF PortType
<1> QED
  BY <1>1, BurstsMakeAll DEF BURST_NUM

\* Where the burst at hand begins and ends, and that the last one ends with the polynomial.
LEMMA BurstAt ==
  ASSUME PortType
  PROVE  /\ ctr_addr * B \in Nat /\ (ctr_addr + 1) * B = ctr_addr * B + B /\ (ctr_addr + 1) * B =< K
         /\ (ctr_addr + 1) * B = K <=> ctr_addr = BURST_NUM - 1
<1>1. BURST_NUM \in Nat /\ B \in Nat \ {0} /\ ctr_addr \in 0 .. BURST_NUM - 1 /\ BURST_NUM * B = K
  BY Sizes DEF PortType
<1>2. /\ ctr_addr * B \in Nat /\ (ctr_addr + 1) * B = ctr_addr * B + B /\ (ctr_addr + 1) * B =< BURST_NUM * B
      /\ (ctr_addr + 1) * B = BURST_NUM * B <=> ctr_addr = BURST_NUM - 1
  BY <1>1, BurstEnds
<1> QED
  BY <1>1, <1>2

\* The port begins idle.
LEMMA InitPort == Init => IInv
<1> SUFFICES ASSUME Init PROVE IInv
  OBVIOUS
<1>1. B \in Lens
  BY DEF Init
<1>2. BURST_NUM \in Nat \ {0} /\ K \in Nat /\ K > 1 /\ B \in Nat \ {0}
  <2>1. K \in Nat \ {0} /\ K > 1 /\ B \in 1 .. K /\ K % B = 0
    BY <1>1, BurstAssumption
  <2> QED
    BY <2>1, BurstsMakeAll DEF BURST_NUM
<1>3. PortType
  <2>1. /\ 0 \in 0 .. K - 1 /\ 0 \in 0 .. BURST_NUM - 1 /\ 0 \in 0 .. MaxWrites /\ 0 < MaxWrites
        /\ 0 \in 0 .. 2 * B - 1
    BY <1>2, BoundAssumption
  <2>2. /\ done_pipe \in [1 .. DoneLat -> BOOLEAN]
        /\ tx_state \in [Chan -> {"S_IDLE", "S_WR", "S_WRDATA", "S_WRRESP"}]
        /\ tx_counter \in [Chan -> 0 .. 2 * B - 1] /\ dma_done_q \in [Chan -> BOOLEAN]
    BY <2>1 DEF Init
  <2>3. /\ fifo \in [Chan -> Seq(Nat \X Nat)] /\ wdata \in [Chan -> Seq(Nat \X Nat)]
        /\ \A c \in Chan : DOMAIN mem[c] = Cell
    BY EmptySeq DEF Init
  <2>4. left = IF ctr_data > 0 THEN K - ctr_data ELSE 0
    BY DEF Init
  <2> QED
    BY <1>1, <2>1, <2>2, <2>3, <2>4 DEF Init, PortType
<1>4. Idling
  <2>1. ASSUME NEW c \in Chan, NEW a \in Cell
        PROVE  ~(a[1] < writes \/ (a[1] = writes /\ a[2] < 0))
    <3>1. a[1] \in Nat /\ a[2] \in Nat /\ writes = 0
      BY BoundAssumption, <1>2 DEF Cell, Init
    <3> QED
      BY <3>1
  <2>2. \A c \in Chan : Kept(c, 0)
    BY <2>1 DEF Kept
  <2> QED
    BY <2>2 DEF Init, Idling, NoDone, Quiet
<1> QED
  BY <1>3, <1>4 DEF IInv, Phase

\* The core and the port count the words of a request apart and agree.
LEMMA CountsStep ==
  ASSUME PortType, NEW en \in BOOLEAN, NEW aw, NEW w, NEW b, Clock(en, aw, w, b), en => ctr_data = 0
  PROVE  /\ ctr_data' \in 0 .. K - 1
         /\ left' = IF ctr_data' > 0 THEN K - ctr_data' ELSE 0
<1>1. K \in Nat /\ K > 1 /\ ctr_data \in 0 .. K - 1 /\ left = IF ctr_data > 0 THEN K - ctr_data ELSE 0
  BY Sizes DEF PortType
<1>2. /\ ctr_data' = IF ctr_data = K - 1 THEN 0 ELSE IF en \/ ctr_data # 0 THEN ctr_data + 1 ELSE ctr_data
      /\ left' = IF en THEN K - 1 ELSE IF left > 0 THEN left - 1 ELSE 0
  BY DEF Clock, Port, Core, NextCtrData, tx_valid
<1>3. CASE en
  BY <1>1, <1>2, <1>3
<1>4. CASE ~en /\ ctr_data = 0
  BY <1>1, <1>2, <1>4
<1>5. CASE ~en /\ ctr_data > 0
  BY <1>1, <1>2, <1>5
<1> QED
  BY <1>1, <1>3, <1>4, <1>5

\* Every edge keeps the types.
LEMMA TypeStep ==
  ASSUME PortType, NEW en \in BOOLEAN, NEW aw \in SUBSET Chan, NEW w \in SUBSET Chan, NEW b \in SUBSET Chan,
         Clock(en, aw, w, b), en => ctr_data = 0
  PROVE  PortType'
<1>0. /\ K \in Nat /\ K > 1 /\ B \in Nat /\ B > 0 /\ BURST_NUM \in Nat /\ BURST_NUM > 0 /\ B' = B
      /\ BURST_NUM' = BURST_NUM /\ MaxWrites \in Nat /\ DoneLat \in Nat \ {0}
  BY Sizes, BoundAssumption DEF Clock, BURST_NUM
<1>1. /\ B' \in Lens
      /\ p_state' \in {"ST_IDLE", "ST_RW_SINGLE", "ST_RW_MANY_0", "ST_RW_MANY_1", "ST_RW_END"}
  BY DEF Clock, Port, NextState, PortType
<1>2. ctr_data' \in 0 .. K - 1 /\ left' = IF ctr_data' > 0 THEN K - ctr_data' ELSE 0
  BY CountsStep
<1>3. ctr_addr' \in 0 .. BURST_NUM - 1
  <2>1. (ctr_addr + 1) % BURST_NUM \in 0 .. BURST_NUM - 1
    BY <1>0 DEF PortType
  <2> QED
    BY <1>0, <2>1 DEF Clock, Port, NextCtrAddr, PortType
<1>4. done_pipe' \in [1 .. DoneLat -> BOOLEAN]
  <2>1. EndOfWrite \in BOOLEAN
    BY DEF EndOfWrite
  <2>2. done_pipe' = Moved(EndOfWrite, done_pipe, DoneLat)
    BY <1>0, <2>1, ShiftRight DEF Clock, Port, PortType
  <2> QED
    BY <1>0, <2>1, <2>2 DEF Moved, PortType
<1>5. tx_state' \in [Chan -> {"S_IDLE", "S_WR", "S_WRDATA", "S_WRRESP"}] /\ dma_done_q' \in [Chan -> BOOLEAN]
  BY DEF Clock, Channels, NextDone, PortType
<1>6. tx_counter' \in [Chan -> 0 .. 2 * B - 1]
  <2>1. ASSUME NEW c \in Chan PROVE NextTxCounter(c, en, w) \in 0 .. 2 * B - 1
    <3>1. tx_counter[c] \in 0 .. 2 * B - 1
      BY DEF PortType
    <3>2. (tx_counter[c] + 1) % (2 * B) \in 0 .. 2 * B - 1 /\ 0 \in 0 .. 2 * B - 1
      BY <1>0, <3>1
    <3> QED
      BY <3>1, <3>2 DEF NextTxCounter
  <2> QED
    BY <2>1 DEF Clock, Channels
<1>7. fifo' \in [Chan -> Seq(Nat \X Nat)]
  <2> SUFFICES ASSUME NEW c \in Chan PROVE fifo'[c] \in Seq(Nat \X Nat)
    BY DEF Clock, Fifos
  <2> DEFINE s == IF w_hs(c, w) THEN Tail(fifo[c]) ELSE fifo[c]
             t == IF Len(fifo[c]) < DEPTH THEN Handed(en) ELSE <<>>
  <2>1. Handed(en) \in Seq(Nat \X Nat)
    <3>1. writes \in Nat /\ K - left \in Nat /\ 0 \in Nat
      BY <1>0 DEF PortType
    <3>2. OnWires(en) \in Nat \X Nat
      BY <3>1 DEF OnWires, Word
    <3> QED
      BY <3>2, EmptySeq DEF Handed
  <2>2. s \in Seq(Nat \X Nat) /\ t \in Seq(Nat \X Nat)
    BY <2>1, EmptySeq, HeadTailProperties DEF PortType, w_hs
  <2>3. fifo'[c] = s \o t
    BY DEF Clock, Fifos
  <2> HIDE DEF s, t
  <2> QED
    BY <2>2, <2>3, ConcatProperties
<1>8. wdata' \in [Chan -> Seq(Nat \X Nat)]
  <2> SUFFICES ASSUME NEW c \in Chan PROVE wdata'[c] \in Seq(Nat \X Nat)
    BY DEF Clock, Memory
  <2>1. w_hs(c, w) => Head(fifo[c]) \in Nat \X Nat
    BY HeadTailProperties DEF PortType, w_hs
  <2>2. w_hs(c, w) => Append(wdata[c], Head(fifo[c])) \in Seq(Nat \X Nat)
    BY <2>1 DEF PortType
  <2> QED
    BY <2>2, EmptySeq DEF Clock, Memory, PortType
<1>9. \A c \in Chan : DOMAIN mem'[c] = Cell
  BY DEF Clock, Memory, PortType
<1>10. waiting' \in BOOLEAN /\ writes' \in 0 .. MaxWrites /\ (waiting' => writes' < MaxWrites)
  BY <1>0 DEF Clock, Core, PortType
<1> QED
  BY <1>0, <1>1, <1>2, <1>3, <1>4, <1>5, <1>6, <1>7, <1>8, <1>9, <1>10 DEF PortType

-----------------------------------------------------------------------------
(***************************************************************************)
(* The parts of the port that go on by themselves.                         *)
(***************************************************************************)
LEMMA DoneMoves ==
  ASSUME PortType, NEW en, NEW aw, NEW w, NEW b, Clock(en, aw, w, b)
  PROVE  /\ DoneLat \in Nat \ {0}
         /\ \A m \in 1 .. DoneLat : done_pipe'[m] <=> IF m = 1 THEN EndOfWrite ELSE done_pipe[m - 1]
<1>1. DoneLat \in Nat \ {0} /\ done_pipe \in [1 .. DoneLat -> BOOLEAN] /\ EndOfWrite \in BOOLEAN
  BY BoundAssumption DEF PortType, EndOfWrite
<1>2. done_pipe' = Moved(EndOfWrite, done_pipe, DoneLat)
  BY <1>1, ShiftRight DEF Clock, Port
<1> QED
  BY <1>1, <1>2 DEF Moved

\* If no write ends, nothing enters the delay line of done.
LEMMA NoDoneMoves ==
  ASSUME PortType, NoDone, ~EndOfWrite, NEW en, NEW aw, NEW w, NEW b, Clock(en, aw, w, b)
  PROVE  NoDone' /\ ~o_done
<1>1. /\ DoneLat \in Nat \ {0}
      /\ \A m \in 1 .. DoneLat : done_pipe'[m] <=> IF m = 1 THEN EndOfWrite ELSE done_pipe[m - 1]
  BY DoneMoves
<1>2. ASSUME NEW m \in 1 .. DoneLat, m # 1 PROVE m - 1 \in 1 .. DoneLat
  BY <1>1, <1>2
<1> QED
  BY <1>1, <1>2 DEF NoDone, o_done

\* A channel that is quiet stays so while no burst starts and no word comes, and its memory keeps what it has.
LEMMA QuietMoves ==
  ASSUME Quiet, NEW en \in BOOLEAN, NEW aw, NEW w, NEW b, ~tx_start(en), ~tx_valid(en), Clock(en, aw, w, b)
  PROVE  Quiet' /\ \A c \in Chan : mem'[c] = mem[c]
<1>1. ASSUME NEW c \in Chan PROVE ~aw_hs(c, aw) /\ ~w_hs(c, w) /\ ~b_hs(c, b)
  BY DEF Quiet, aw_hs, w_hs, b_hs
<1>2. ASSUME NEW c \in Chan PROVE fifo'[c] = <<>>
  BY <1>1 DEF Quiet, Clock, Fifos, Handed
<1> QED
  BY <1>1, <1>2 DEF Quiet, Clock, Channels, Memory

-----------------------------------------------------------------------------
(***************************************************************************)
(* A request under way: words come from the core and go to the memories.   *)
(***************************************************************************)
LEMMA WriteType ==
  ASSUME PortType, Writing, NEW c \in Chan
  PROVE  /\ writes \in Nat /\ Given \in Nat /\ Out(c) \in Nat /\ Out(c) =< Given /\ Given =< K
         /\ Len(fifo[c]) \in Nat /\ Len(fifo[c]) = Given - Out(c) /\ ctr_addr * B \in Nat
<1>1. Write(c)
  BY DEF Writing
<1>2. /\ K \in Nat /\ writes \in Nat /\ B \in Nat /\ ctr_addr * B \in Nat /\ (ctr_addr + 1) * B = ctr_addr * B + B
      /\ tx_counter[c] \in Nat
  BY Sizes, BurstAt, BoundAssumption DEF PortType
<1>3. Len(fifo[c]) \in Nat
  BY LenProperties DEF PortType
<1>4. Given \in Nat /\ Given =< K
  BY <1>2 DEF Given, PortType
<1>5. Out(c) \in Nat
  BY <1>1, <1>2 DEF Write, InBurst
<1> QED
  BY <1>2, <1>3, <1>4, <1>5 DEF Out

\* The core hands its K words over in K cycles.
LEMMA GivenMoves ==
  ASSUME PortType, Writing, NEW en \in BOOLEAN, NEW aw, NEW w, NEW b, Clock(en, aw, w, b), ~EndOfWrite
  PROVE  /\ ~en /\ ~o_done /\ NoDone' /\ writes' = writes /\ waiting' /\ B' = B /\ BURST_NUM' = BURST_NUM
         /\ Given' = IF tx_valid(en) THEN Given + 1 ELSE Given
         /\ Handed(en) = IF tx_valid(en) THEN << <<writes, Given>> >> ELSE <<>>
         /\ tx_valid(en) => Given < K
         /\ tx_valid(en) <=> ctr_data > 0
<1>1. NoDone' /\ ~o_done
  BY NoDoneMoves DEF Writing
<1>2. ~en /\ writes' = writes /\ waiting' /\ B' = B /\ BURST_NUM' = BURST_NUM
  BY <1>1 DEF Writing, Clock, Core, BURST_NUM
<1>3. K \in Nat /\ K > 1 /\ ctr_data \in 0 .. K - 1 /\ left = IF ctr_data > 0 THEN K - ctr_data ELSE 0
  BY Sizes DEF PortType
<1>4. tx_valid(en) <=> ctr_data > 0
  BY <1>2, <1>3 DEF tx_valid
<1>5. ctr_data' = IF ctr_data = K - 1 THEN 0 ELSE IF ctr_data > 0 THEN ctr_data + 1 ELSE ctr_data
  BY <1>4 DEF Clock, Port, NextCtrData
<1>6. Given' = IF tx_valid(en) THEN Given + 1 ELSE Given
  BY <1>2, <1>3, <1>4, <1>5 DEF Given, Writing
<1>7. tx_valid(en) => Given = ctr_data /\ Given < K /\ K - left = Given
  BY <1>3, <1>4 DEF Given
<1> QED
  BY <1>1, <1>2, <1>4, <1>6, <1>7 DEF Handed, OnWires, Word

\* No word is lost on the way through a FIFO that holds a polynomial.
LEMMA FifoMoves ==
  ASSUME DEPTH >= K, PortType, Writing, NEW c \in Chan,
         NEW en \in BOOLEAN, NEW aw, NEW w, NEW b, Clock(en, aw, w, b), ~EndOfWrite
  PROVE  /\ fifo'[c] = Words(writes', Out(c)', Given')
         /\ Out(c)' = IF w_hs(c, w) THEN Out(c) + 1 ELSE Out(c)
         /\ w_hs(c, w) => Head(fifo[c]) = <<writes, Out(c)>>
<1> DEFINE n == IF w_hs(c, w) THEN Out(c) + 1 ELSE Out(c)
<1>0. /\ writes \in Nat /\ Given \in Nat /\ Out(c) \in Nat /\ Out(c) =< Given /\ Given =< K
      /\ Len(fifo[c]) \in Nat /\ Len(fifo[c]) = Given - Out(c) /\ DEPTH \in Nat /\ K \in Nat
  BY WriteType, Sizes, DepthAssumption
<1>1. fifo[c] = Words(writes, Out(c), Given)
  BY DEF Writing, Write
<1>2. w_hs(c, w) => Out(c) < Given
  <2>1. Out(c) = Given => fifo[c] = <<>>
    BY <1>0, <1>1, WordsEmpty
  <2> QED
    BY <1>0, <2>1 DEF w_hs
<1>3. w_hs(c, w) => Head(fifo[c]) = <<writes, Out(c)>> /\ Tail(fifo[c]) = Words(writes, Out(c) + 1, Given)
  <2>1. Out(c) < Given => /\ Head(Words(writes, Out(c), Given)) = <<writes, Out(c)>>
                          /\ Tail(Words(writes, Out(c), Given)) = Words(writes, Out(c) + 1, Given)
    BY <1>0, WordsTake
  <2> QED
    BY <1>1, <1>2, <2>1
<1>4. n \in Nat /\ n =< Given
  BY <1>0, <1>2
<1>5. (IF w_hs(c, w) THEN Tail(fifo[c]) ELSE fifo[c]) = Words(writes, n, Given)
  BY <1>1, <1>3
<1>6. /\ Given' = IF tx_valid(en) THEN Given + 1 ELSE Given
      /\ Handed(en) = IF tx_valid(en) THEN << <<writes, Given>> >> ELSE <<>>
      /\ tx_valid(en) => Given < K
      /\ writes' = writes
  BY GivenMoves
<1> HIDE DEF n
<1>7. (IF Len(fifo[c]) < DEPTH THEN Handed(en) ELSE <<>>) = Handed(en)
  <2>1. tx_valid(en) => Len(fifo[c]) < DEPTH
    BY <1>0, <1>6
  <2> QED
    BY <1>6, <2>1
<1>8. fifo'[c] = Words(writes, n, Given) \o Handed(en)
  BY <1>5, <1>7 DEF Clock, Fifos
<1>9. fifo'[c] = Words(writes, n, Given') /\ Given' \in Nat /\ n =< Given'
  <2>1. CASE tx_valid(en)
    <3>1. Handed(en) = Words(writes, Given, Given + 1)
      BY <1>0, <1>6, <2>1, WordsOne
    <3>2. Given + 1 \in Nat /\ Given =< Given + 1 /\ n =< Given + 1
      BY <1>0, <1>4
    <3>3. Words(writes, n, Given) \o Words(writes, Given, Given + 1) = Words(writes, n, Given + 1)
      BY <1>0, <1>4, <3>2, WordsJoin
    <3> QED
      BY <1>6, <1>8, <2>1, <3>1, <3>2, <3>3
  <2>2. CASE ~tx_valid(en)
    <3>1. Words(writes, n, Given) \in Seq(Nat \X Nat)
      BY <1>0, <1>4, WordsSeq
    <3>2. Words(writes, n, Given) \o <<>> = Words(writes, n, Given)
      BY <3>1, ConcatEmptySeq
    <3> QED
      BY <1>0, <1>4, <1>6, <1>8, <2>2, <3>2
  <2> QED
    BY <2>1, <2>2
<1>10. Len(fifo'[c]) = Given' - n
  <2>1. writes \in Nat /\ n \in Nat /\ Given' \in Nat /\ n =< Given'
    BY <1>0, <1>4, <1>9
  <2>2. Len(Words(writes, n, Given')) = Given' - n
    BY <2>1, WordsSeq
  <2> QED
    BY <1>9, <2>2
<1>11. Out(c)' = n
  <2>1. n \in Nat /\ Given' \in Nat
    BY <1>4, <1>9
  <2>2. Out(c)' = Given' - Len(fifo'[c])
    BY DEF Out
  <2>3. Out(c)' = Given' - (Given' - n)
    BY <1>10, <2>2
  <2>4. \A p, q \in Nat : p - (p - q) = q
    OBVIOUS
  <2>5. Given' - (Given' - n) = n
    BY <2>1, <2>4
  <2> QED
    BY <2>3, <2>5
<1> QED
  BY <1>3, <1>6, <1>9, <1>11 DEF n

\* A channel whose burst is not announced, or is not done, has no early word and no late one.
LEMMA BurstType ==
  ASSUME PortType, Writing, NEW c \in Chan, InBurst(c)
  PROVE  /\ Len(wdata[c]) = tx_counter[c] /\ tx_counter[c] \in Nat /\ awaddr[c] # Empty
         /\ ctr_addr * B =< Out(c) /\ ~tx_done /\ ~NextBurst /\ ~EndOfWrite
<1>1. writes \in Nat /\ Out(c) \in Nat /\ ctr_addr * B \in Nat
  BY WriteType
<1>2. tx_counter[c] \in Nat
  BY Sizes DEF PortType
<1>3. ctr_addr * B =< Out(c) /\ Out(c) - ctr_addr * B = tx_counter[c]
  BY <1>1, <1>2 DEF InBurst
<1>4. Len(Words(writes, ctr_addr * B, Out(c))) = Out(c) - ctr_addr * B
  BY <1>1, <1>3, WordsSeq
<1>5. awaddr[c] # Empty
  <2>1. \A i, j : <<i, j>> # <<>>
    OBVIOUS
  <2> QED
    BY <2>1 DEF InBurst, Empty
<1>6. ~tx_done /\ ~NextBurst /\ ~EndOfWrite
  BY DEF InBurst, tx_done, NextBurst, EndOfWrite
<1> QED
  BY <1>2, <1>3, <1>4, <1>5, <1>6 DEF InBurst

\* A request at the end of its last burst has all its words from the core.
LEMMA AllDone ==
  ASSUME PortType, Writing, tx_done, p_state # "ST_RW_MANY_1", last_burst
  PROVE  /\ Given = K /\ ctr_data = 0
         /\ \A c \in Chan : Out(c) = K /\ fifo[c] = <<>> /\ tx_state[c] = "S_IDLE" /\ Between(c) /\ Kept(c, K)
<1>1. K \in Nat /\ (ctr_addr + 1) * B = K
  BY Sizes, BurstAt DEF last_burst
<1>2. ASSUME NEW c \in Chan
      PROVE  /\ Out(c) = K /\ tx_state[c] = "S_IDLE" /\ Between(c) /\ Kept(c, K)
             /\ Given = K /\ fifo[c] = <<>>
  <2>1. Write(c) /\ dma_done_q[c]
    BY DEF Writing, tx_done
  <2>2. tx_state[c] = "S_IDLE" /\ Between(c) /\ Out(c) = K /\ Kept(c, K)
    BY <1>1, <2>1 DEF Write, InBurst
  <2>3. Given = K /\ writes \in Nat
    BY <1>1, <2>2, WriteType
  <2>4. fifo[c] = Words(writes, K, K)
    BY <2>1, <2>2, <2>3 DEF Write
  <2>5. Words(writes, K, K) = <<>>
    BY <1>1, <2>3, WordsEmpty
  <2> QED
    BY <2>2, <2>3, <2>4, <2>5
<1>3. PICK c \in Chan : TRUE
  BY BoundAssumption
<1>4. Given = K
  BY <1>2, <1>3
<1>5. ctr_data = 0
  <2>1. ctr_data \in 0 .. K - 1
    BY DEF PortType
  <2> QED
    BY <1>1, <1>4, <2>1 DEF Given
<1> QED
  BY <1>2, <1>4, <1>5

\* How the port goes on with the bursts.
LEMMA PortMoves ==
  ASSUME PortType, Writing, NEW en \in BOOLEAN, NEW aw, NEW w, NEW b, Clock(en, aw, w, b), ~EndOfWrite
  PROVE  /\ p_state' # "ST_IDLE" /\ (p_state' = "ST_RW_MANY_1" <=> NextBurst)
         /\ p_state' = "ST_RW_SINGLE" => BURST_NUM' = 1 /\ ctr_data' > 0
         /\ p_state' = "ST_RW_END" => last_burst' /\ ctr_data' = 0
         /\ ctr_addr' = IF NextBurst THEN ctr_addr + 1 ELSE ctr_addr
         /\ tx_start(en) <=> p_state = "ST_RW_MANY_1"
         /\ tx_address' = <<writes', ctr_addr>>
<1>0. /\ ~en /\ ~o_done /\ writes' = writes /\ B' = B /\ BURST_NUM' = BURST_NUM /\ p_state # "ST_IDLE"
      /\ tx_valid(en) <=> ctr_data > 0
  BY GivenMoves DEF Writing
<1>1. K \in Nat /\ K > 1 /\ BURST_NUM \in Nat /\ ctr_addr \in 0 .. BURST_NUM - 1 /\ ctr_data \in 0 .. K - 1
  BY Sizes DEF PortType
<1>2. NextBurst => (ctr_addr + 1) % BURST_NUM = ctr_addr + 1
  BY <1>1 DEF NextBurst, last_burst
<1>3. ctr_addr' = IF NextBurst THEN ctr_addr + 1 ELSE ctr_addr
  BY <1>0, <1>2 DEF Clock, Port, NextCtrAddr
<1>4. ctr_data' = IF ctr_data = K - 1 THEN 0 ELSE IF ctr_data > 0 THEN ctr_data + 1 ELSE ctr_data
  BY <1>0 DEF Clock, Port, NextCtrData
<1>5. p_state' = NextState(FALSE)
  BY <1>0 DEF Clock, Port
<1>6. p_state' # "ST_IDLE" /\ (p_state' = "ST_RW_MANY_1" <=> NextBurst)
  BY <1>0, <1>5 DEF NextState, NextBurst, PortType
<1>7. p_state' = "ST_RW_SINGLE" => BURST_NUM' = 1 /\ ctr_data' > 0
  <2> SUFFICES ASSUME p_state' = "ST_RW_SINGLE" PROVE BURST_NUM' = 1 /\ ctr_data' > 0
    OBVIOUS
  <2>1. p_state = "ST_RW_SINGLE" /\ ctr_data # K - 1
    BY <1>0, <1>5 DEF NextState, NextBurst
  <2>2. BURST_NUM = 1 /\ ctr_data > 0
    BY <2>1 DEF Writing
  <2> QED
    BY <1>0, <1>1, <1>4, <2>1, <2>2
<1>8. p_state' = "ST_RW_END" => last_burst' /\ ctr_data' = 0
  <2> SUFFICES ASSUME p_state' = "ST_RW_END" PROVE last_burst' /\ ctr_data' = 0
    OBVIOUS
  <2>1. ~NextBurst /\ ctr_addr' = ctr_addr
    BY <1>3, <1>6
  <2>2. last_burst /\ ctr_data' = 0
    <3>1. CASE p_state = "ST_RW_SINGLE"
      <4>1. ctr_data = K - 1
        BY <1>0, <1>5, <3>1 DEF NextState, NextBurst, EndOfWrite
      <4>2. BURST_NUM = 1
        BY <3>1 DEF Writing
      <4> QED
        BY <1>1, <1>4, <4>1, <4>2 DEF last_burst
    <3>2. CASE p_state = "ST_RW_MANY_0"
      <4>1. tx_done /\ last_burst
        BY <1>0, <1>5, <2>1, <3>2 DEF NextState, NextBurst, EndOfWrite
      <4>2. ctr_data = 0
        BY <3>2, <4>1, AllDone
      <4> QED
        BY <1>1, <1>4, <4>1, <4>2
    <3>3. CASE p_state = "ST_RW_END"
      <4>1. last_burst /\ ctr_data = 0
        BY <3>3 DEF Writing
      <4> QED
        BY <1>1, <1>4, <4>1
    <3>4. CASE p_state = "ST_RW_MANY_1"
      BY <1>0, <1>5, <3>4 DEF NextState, NextBurst, EndOfWrite
    <3> QED
      BY <1>0, <3>1, <3>2, <3>3, <3>4 DEF PortType
  <2> QED
    BY <1>0, <2>1, <2>2 DEF last_burst
<1>9. tx_start(en) <=> p_state = "ST_RW_MANY_1"
  BY <1>0 DEF tx_start
<1>10. tx_address' = <<writes', ctr_addr>>
  BY <1>0 DEF Clock, Port
<1> QED
  BY <1>3, <1>6, <1>7, <1>8, <1>9, <1>10

\* A burst that is announced takes the next word, and not one too many.
LEMMA BurstOn ==
  ASSUME DEPTH >= K, EarlyData = FALSE, PortType, Writing, NEW c \in Chan, InBurst(c),
         tx_state[c] \in {"S_WRDATA", "S_WRRESP"}, tx_counter[c] =< B,
         NEW en \in BOOLEAN, NEW aw, NEW w, NEW b, Clock(en, aw, w, b), ~b_hs(c, b)
  PROVE  /\ InBurst(c)'
         /\ tx_counter'[c] = IF w_hs(c, w) THEN tx_counter[c] + 1 ELSE tx_counter[c]
         /\ w_hs(c, w) => tx_counter[c] < B
         /\ tx_state'[c] = IF tx_state[c] = "S_WRDATA" /\ wlast(c) /\ wready(c, w) THEN "S_WRRESP" ELSE tx_state[c]
<1>0. /\ Len(wdata[c]) = tx_counter[c] /\ tx_counter[c] \in Nat /\ awaddr[c] # Empty
      /\ ctr_addr * B =< Out(c) /\ ~NextBurst /\ ~EndOfWrite /\ ~dma_done_q[c]
      /\ awaddr[c] = <<writes, ctr_addr>> /\ wdata[c] = Words(writes, ctr_addr * B, Out(c))
      /\ Out(c) = ctr_addr * B + tx_counter[c] /\ Kept(c, ctr_addr * B)
  BY BurstType DEF InBurst
<1>1. /\ B \in Nat /\ B > 0 /\ writes \in Nat /\ Out(c) \in Nat /\ ctr_addr * B \in Nat
  BY Sizes, WriteType
<1>2. /\ p_state' # "ST_RW_MANY_1" /\ ctr_addr' = ctr_addr /\ ~tx_start(en) /\ writes' = writes /\ B' = B
  BY <1>0, PortMoves, GivenMoves DEF InBurst
<1>3. /\ Out(c)' = IF w_hs(c, w) THEN Out(c) + 1 ELSE Out(c)
      /\ w_hs(c, w) => Head(fifo[c]) = <<writes, Out(c)>>
  BY <1>0, FifoMoves
<1>4. w_hs(c, w) => tx_counter[c] < B
  BY <1>0 DEF w_hs, wready, Takes
<1>5. tx_counter'[c] = IF w_hs(c, w) THEN tx_counter[c] + 1 ELSE tx_counter[c]
  <2>1. tx_counter'[c] = IF w_hs(c, w) THEN (tx_counter[c] + 1) % (2 * B) ELSE tx_counter[c]
    BY <1>2 DEF Clock, Channels, NextTxCounter
  <2>2. tx_counter[c] < B => (tx_counter[c] + 1) % (2 * B) = tx_counter[c] + 1
    <3>1. \A p, q \in Nat : p < q => p % q = p
      OBVIOUS
    <3>2. tx_counter[c] + 1 \in Nat /\ 2 * B \in Nat /\ (tx_counter[c] < B => tx_counter[c] + 1 < 2 * B)
      BY <1>0, <1>1
    <3> QED
      BY <3>1, <3>2
  <2> QED
    BY <1>4, <2>1, <2>2
<1>6. wdata'[c] = Words(writes, ctr_addr * B, Out(c)')
  <2>1. Append(Words(writes, ctr_addr * B, Out(c)), <<writes, Out(c)>>) = Words(writes, ctr_addr * B, Out(c) + 1)
    BY <1>0, <1>1, WordsAppend
  <2>2. wdata'[c] = IF w_hs(c, w) THEN Append(wdata[c], Head(fifo[c])) ELSE wdata[c]
    BY DEF Clock, Memory
  <2> QED
    BY <1>0, <1>3, <2>1, <2>2
<1>7. awaddr'[c] = awaddr[c] /\ mem'[c] = mem[c] /\ ~dma_done_q'[c]
  BY <1>0 DEF Clock, Memory, Channels, NextDone, aw_hs
<1>8. Out(c)' = ctr_addr * B + tx_counter'[c]
  BY <1>0, <1>1, <1>3, <1>5
<1>9. Kept(c, ctr_addr * B)'
  BY <1>0, <1>2, <1>7 DEF Kept, Cell
<1>10. tx_state'[c] = IF tx_state[c] = "S_WRDATA" /\ wlast(c) /\ wready(c, w) THEN "S_WRRESP" ELSE tx_state[c]
  BY <1>0 DEF Clock, Channels, aw_hs
<1> QED
  BY <1>0, <1>2, <1>4, <1>5, <1>6, <1>7, <1>8, <1>9, <1>10 DEF InBurst

\* A burst that is done is in the memory, every word at its place, and nothing else is touched.
LEMMA BurstStored ==
  ASSUME DEPTH >= K, EarlyData = FALSE, PortType, Writing, NEW c \in Chan, InBurst(c),
         NEW en \in BOOLEAN, NEW aw, NEW w, NEW b, Clock(en, aw, w, b), b_hs(c, b)
  PROVE  /\ Out(c)' = (ctr_addr + 1) * B /\ Between(c)' /\ tx_state'[c] = "S_IDLE" /\ dma_done_q'[c]
         /\ p_state' # "ST_RW_MANY_1" /\ Kept(c, (ctr_addr + 1) * B)'
<1>0. /\ Len(wdata[c]) = tx_counter[c] /\ tx_counter[c] = B
      /\ ~NextBurst /\ ~EndOfWrite /\ tx_state[c] = "S_WRRESP"
      /\ awaddr[c] = <<writes, ctr_addr>> /\ wdata[c] = Words(writes, ctr_addr * B, Out(c))
      /\ Out(c) = ctr_addr * B + B /\ Kept(c, ctr_addr * B)
  BY BurstType DEF InBurst, b_hs
<1>1. /\ B \in Nat \ {0} /\ writes \in Nat /\ ctr_addr * B \in Nat /\ (ctr_addr + 1) * B = ctr_addr * B + B
      /\ ctr_addr \in Nat /\ K \in Nat
  BY Sizes, WriteType, BurstAt DEF PortType
<1>2. /\ p_state' # "ST_RW_MANY_1" /\ ctr_addr' = ctr_addr /\ ~tx_start(en) /\ writes' = writes /\ B' = B
  BY <1>0, PortMoves, GivenMoves DEF InBurst
<1>3. ~w_hs(c, w)
  BY <1>0, <1>1 DEF w_hs, wready, Takes
<1>4. Out(c)' = (ctr_addr + 1) * B
  BY <1>0, <1>1, <1>3, FifoMoves
<1>5. Between(c)' /\ tx_state'[c] = "S_IDLE" /\ dma_done_q'[c]
  <2>1. ~aw_hs(c, aw)
    BY <1>0 DEF aw_hs
  <2>2. awaddr'[c] = Empty /\ wdata'[c] = <<>>
    <3>1. awaddr'[c] = Empty
      BY <2>1 DEF Clock, Memory
    <3>2. wdata'[c] = <<>>
      BY <1>3 DEF Clock, Memory
    <3> QED
      BY <3>1, <3>2
  <2>3. tx_state'[c] = "S_IDLE"
    BY <1>0, <2>1 DEF Clock, Channels
  <2>4. dma_done_q'[c] <=> NextDone(c, en, w, b)
    BY DEF Clock, Channels
  <2> QED
    BY <1>2, <2>2, <2>3, <2>4 DEF NextDone, Between, Empty
<1>6. mem'[c] = [a \in DOMAIN mem[c] |->
                   IF a[1] = awaddr[c][1] /\ a[2] \div B = awaddr[c][2]
                   THEN wdata[c][(a[2] % B) + 1] ELSE mem[c][a]]
  BY DEF Clock, Memory
<1>7. ASSUME NEW a \in Cell, a[1] < writes \/ (a[1] = writes /\ a[2] < (ctr_addr + 1) * B)
      PROVE  mem'[c][a] = Word(a[1], a[2])
  <2>0. a[1] \in Nat /\ a[2] \in Nat /\ a \in DOMAIN mem[c]
    BY <1>1, BoundAssumption DEF Cell, PortType
  <2>1. /\ a[2] % B \in 0 .. B - 1 /\ a[2] = (a[2] \div B) * B + (a[2] % B) /\ a[2] \div B \in Nat
        /\ a[2] \div B = ctr_addr <=> ctr_addr * B =< a[2] /\ a[2] < ctr_addr * B + B
    BY <1>1, <2>0, BurstOf
  <2>2. mem'[c][a] = IF a[1] = writes /\ a[2] \div B = ctr_addr THEN wdata[c][(a[2] % B) + 1] ELSE mem[c][a]
    BY <1>0, <1>6, <2>0
  <2>3. CASE a[1] = writes /\ a[2] \div B = ctr_addr
    <3>1. (a[2] % B) + 1 \in 1 .. Out(c) - ctr_addr * B
      <4>1. Out(c) - ctr_addr * B = B
        BY <1>0, <1>1
      <4>2. (a[2] % B) + 1 \in 1 .. B
        BY <1>1, <2>1
      <4> QED
        BY <4>1, <4>2
    <3>2. wdata[c][(a[2] % B) + 1] = <<writes, ctr_addr * B + ((a[2] % B) + 1) - 1>>
      BY <1>0, <3>1 DEF Words
    <3>3. ctr_addr * B + ((a[2] % B) + 1) - 1 = a[2]
      BY <1>1, <2>1, <2>3
    <3> QED
      BY <2>2, <2>3, <3>2, <3>3 DEF Word
  <2>4. CASE ~(a[1] = writes /\ a[2] \div B = ctr_addr)
    <3>1. a[1] < writes \/ (a[1] = writes /\ a[2] < ctr_addr * B)
      BY <1>1, <1>7, <2>0, <2>1, <2>4
    <3>2. mem[c][a] = Word(a[1], a[2])
      BY <1>0, <3>1 DEF Kept
    <3> QED
      BY <2>2, <2>4, <3>2
  <2> QED
    BY <2>3, <2>4
<1>8. Kept(c, (ctr_addr + 1) * B)'
  BY <1>2, <1>7 DEF Kept, Cell
<1> QED
  BY <1>2, <1>4, <1>5, <1>8

\* A channel goes on until the request ends: it offers the address of a burst, sends the words, waits for the response.
LEMMA ChannelOn ==
  ASSUME DEPTH >= K, EarlyData = FALSE, PortType, Writing, NEW c \in Chan,
         NEW en \in BOOLEAN, NEW aw, NEW w, NEW b, Clock(en, aw, w, b), ~EndOfWrite
  PROVE  Write(c)'
<1>0. Write(c)
  BY DEF Writing
<1>1. /\ fifo'[c] = Words(writes', Out(c)', Given')
      /\ Out(c)' = IF w_hs(c, w) THEN Out(c) + 1 ELSE Out(c)
  BY FifoMoves
<1>2. /\ p_state' = "ST_RW_MANY_1" <=> NextBurst
      /\ ctr_addr' = IF NextBurst THEN ctr_addr + 1 ELSE ctr_addr
      /\ tx_start(en) <=> p_state = "ST_RW_MANY_1"
      /\ tx_address' = <<writes', ctr_addr>>
      /\ writes' = writes /\ B' = B
  BY PortMoves, GivenMoves
<1>3. /\ B \in Nat /\ B > 0 /\ writes \in Nat /\ Out(c) \in Nat /\ ctr_addr * B \in Nat
      /\ (ctr_addr + 1) * B = ctr_addr * B + B
  BY Sizes, WriteType, BurstAt
<1>4. ASSUME NEW n, ~b_hs(c, b), Kept(c, n) PROVE \A a \in Cell' : a[1] < writes' \/ (a[1] = writes' /\ a[2] < n) => mem'[c][a] = Word(a[1], a[2])
  BY <1>2, <1>4 DEF Kept, Cell, Clock, Memory
<1>5. CASE tx_state[c] = "S_WR"
  <2>1. /\ ~dma_done_q[c] /\ p_state # "ST_RW_MANY_1"
        /\ tx_address = <<writes, ctr_addr>> /\ tx_counter[c] = 0
        /\ awaddr[c] = Empty /\ wdata[c] = <<>> /\ Out(c) = ctr_addr * B /\ Kept(c, ctr_addr * B)
    BY <1>0, <1>5 DEF Write, Between
  <2>2. ~tx_start(en) /\ ~NextBurst /\ ~w_hs(c, w) /\ ~b_hs(c, b) /\ ctr_addr' = ctr_addr /\ p_state' # "ST_RW_MANY_1"
    <3>1. ~NextBurst
      BY <2>1 DEF NextBurst, tx_done
    <3>2. ~w_hs(c, w) /\ ~b_hs(c, b)
      BY <1>5, <2>1 DEF w_hs, wready, Takes, b_hs
    <3> QED
      BY <1>2, <2>1, <3>1, <3>2
  <2>3. tx_counter'[c] = 0 /\ ~dma_done_q'[c] /\ wdata'[c] = <<>> /\ Out(c)' = ctr_addr * B
    BY <1>1, <2>1, <2>2 DEF Clock, Channels, Memory, NextTxCounter, NextDone
  <2>4. Kept(c, ctr_addr * B)'
    BY <1>2, <1>4, <2>1, <2>2 DEF Kept
  <2>5. CASE aw_hs(c, aw)
    <3>1. tx_state'[c] = "S_WRDATA" /\ awaddr'[c] = <<writes, ctr_addr>>
      <4>1. tx_state'[c] = "S_WRDATA"
        BY <1>5, <2>2, <2>5 DEF Clock, Channels
      <4>2. awaddr'[c] = tx_address
        BY <2>2, <2>5 DEF Clock, Memory
      <4> QED
        BY <2>1, <4>1, <4>2
    <3>2. Words(writes, ctr_addr * B, ctr_addr * B) = <<>>
      BY <1>3, WordsEmpty
    <3>3. tx_counter'[c] < B'
      BY <1>2, <1>3, <2>3
    <3>4. Out(c)' = ctr_addr' * B' + tx_counter'[c]
      BY <1>2, <1>3, <2>2, <2>3
    <3>5. InBurst(c)'
      BY <1>2, <2>2, <2>3, <2>4, <3>1, <3>2, <3>4 DEF InBurst
    <3> QED
      BY <1>1, <3>1, <3>3, <3>5 DEF Write
  <2>6. CASE ~aw_hs(c, aw)
    <3>1. tx_state'[c] = "S_WR" /\ awaddr'[c] = Empty
      BY <1>5, <2>1, <2>2, <2>6 DEF Clock, Channels, Memory
    <3>2. Between(c)' /\ tx_address' = <<writes', ctr_addr'>> /\ Out(c)' = ctr_addr' * B'
      BY <1>2, <2>2, <2>3, <3>1 DEF Between, Empty
    <3> QED
      BY <1>1, <2>2, <2>3, <2>4, <3>1, <3>2 DEF Write
  <2> QED
    BY <2>5, <2>6
<1>6. CASE tx_state[c] \in {"S_WRDATA", "S_WRRESP"} /\ ~b_hs(c, b)
  <2>1. /\ InBurst(c) /\ tx_counter[c] =< B /\ tx_counter[c] \in Nat
        /\ tx_state[c] = "S_WRDATA" => tx_counter[c] < B
        /\ tx_state[c] = "S_WRRESP" => tx_counter[c] \in {B - 1, B}
    <3>1. /\ InBurst(c)
          /\ tx_state[c] = "S_WRDATA" => tx_counter[c] < B
          /\ tx_state[c] = "S_WRRESP" => tx_counter[c] \in {B - 1, B}
      BY <1>0, <1>6 DEF Write
    <3>2. tx_counter[c] \in Nat
      BY <3>1, BurstType
    <3> QED
      BY <1>3, <1>6, <3>1, <3>2
  <2>2. /\ InBurst(c)'
        /\ tx_counter'[c] = IF w_hs(c, w) THEN tx_counter[c] + 1 ELSE tx_counter[c]
        /\ w_hs(c, w) => tx_counter[c] < B
        /\ tx_state'[c] = IF tx_state[c] = "S_WRDATA" /\ wlast(c) /\ wready(c, w) THEN "S_WRRESP" ELSE tx_state[c]
    BY <1>6, <2>1, BurstOn
  <2>3. CASE tx_state[c] = "S_WRDATA" /\ wlast(c) /\ wready(c, w)
    <3>1. tx_state'[c] = "S_WRRESP" /\ tx_counter[c] = B - 1
      BY <2>2, <2>3 DEF wlast
    <3>2. tx_counter'[c] \in {B' - 1, B'}
      BY <1>2, <1>3, <2>2, <3>1
    <3> QED
      BY <1>1, <2>2, <3>1, <3>2 DEF Write
  <2>4. CASE tx_state[c] = "S_WRDATA" /\ ~(wlast(c) /\ wready(c, w))
    <3>1. tx_state'[c] = "S_WRDATA" /\ tx_counter[c] < B /\ (w_hs(c, w) => tx_counter[c] # B - 1)
      BY <2>1, <2>2, <2>4 DEF wlast, w_hs
    <3>2. tx_counter'[c] < B'
      BY <1>2, <1>3, <2>1, <2>2, <3>1
    <3> QED
      BY <1>1, <2>2, <3>1, <3>2 DEF Write
  <2>5. CASE tx_state[c] = "S_WRRESP"
    <3>1. tx_state'[c] = "S_WRRESP"
      BY <2>2, <2>5
    <3>2. tx_counter'[c] \in {B' - 1, B'}
      BY <1>2, <1>3, <2>1, <2>2, <2>5
    <3> QED
      BY <1>1, <2>2, <3>1, <3>2 DEF Write
  <2> QED
    BY <1>6, <2>3, <2>4, <2>5
<1>7. CASE b_hs(c, b)
  <2>1. InBurst(c)
    BY <1>0, <1>7 DEF Write, b_hs
  <2>2. /\ Out(c)' = (ctr_addr + 1) * B /\ Between(c)' /\ tx_state'[c] = "S_IDLE" /\ dma_done_q'[c]
        /\ p_state' # "ST_RW_MANY_1" /\ Kept(c, (ctr_addr + 1) * B)'
    BY <1>7, <2>1, BurstStored
  <2>3. ctr_addr' = ctr_addr
    BY <1>2, <2>2
  <2> QED
    BY <1>1, <1>2, <2>2, <2>3 DEF Write
<1>8. CASE tx_state[c] = "S_IDLE"
  <2>1. /\ dma_done_q[c] /\ awaddr[c] = Empty /\ wdata[c] = <<>>
        /\ Out(c) = IF p_state = "ST_RW_MANY_1" THEN ctr_addr * B ELSE (ctr_addr + 1) * B
        /\ Kept(c, IF p_state = "ST_RW_MANY_1" THEN ctr_addr * B ELSE (ctr_addr + 1) * B)
    BY <1>0, <1>8 DEF Write, Between
  <2>2. ~aw_hs(c, aw) /\ ~w_hs(c, w) /\ ~b_hs(c, b)
    BY <1>8, <2>1 DEF aw_hs, w_hs, wready, Takes, b_hs
  <2>3. /\ Out(c)' = Out(c) /\ awaddr'[c] = Empty /\ wdata'[c] = <<>>
        /\ tx_state'[c] = IF tx_start(en) THEN "S_WR" ELSE "S_IDLE"
        /\ tx_counter'[c] = IF tx_start(en) THEN 0 ELSE tx_counter[c]
        /\ dma_done_q'[c] <=> ~tx_start(en)
    <3>1. Out(c)' = Out(c)
      BY <1>1, <2>2
    <3>2. awaddr'[c] = Empty /\ wdata'[c] = <<>>
      BY <2>1, <2>2 DEF Clock, Memory
    <3>3. tx_state'[c] = IF tx_start(en) THEN "S_WR" ELSE "S_IDLE"
      BY <1>8, <2>2 DEF Clock, Channels
    <3>4. tx_counter'[c] = IF tx_start(en) THEN 0 ELSE tx_counter[c]
      BY <2>2 DEF Clock, Channels, NextTxCounter
    <3>5. dma_done_q'[c] <=> ~tx_start(en)
      BY <2>1, <2>2 DEF Clock, Channels, NextDone
    <3> QED
      BY <3>1, <3>2, <3>3, <3>4, <3>5
  <2>4. Between(c)'
    BY <2>3 DEF Between, Empty
  <2>5. CASE p_state = "ST_RW_MANY_1"
    <3>1. ~NextBurst
      BY <2>5 DEF NextBurst
    <3>2. p_state' # "ST_RW_MANY_1" /\ ctr_addr' = ctr_addr /\ tx_address' = <<writes', ctr_addr'>>
      BY <1>2, <3>1
    <3>3. tx_state'[c] = "S_WR" /\ tx_counter'[c] = 0 /\ ~dma_done_q'[c]
      BY <1>2, <2>3, <2>5
    <3>4. Out(c)' = ctr_addr' * B'
      BY <1>2, <2>1, <2>3, <2>5, <3>2
    <3>5. Kept(c, ctr_addr * B)'
      BY <1>2, <1>4, <2>1, <2>2, <2>5, <3>2 DEF Kept
    <3> QED
      BY <1>1, <1>2, <2>4, <3>2, <3>3, <3>4, <3>5 DEF Write
  <2>6. CASE p_state # "ST_RW_MANY_1"
    <3> DEFINE n == (ctr_addr + 1) * B
               m == IF p_state = "ST_RW_MANY_1" THEN ctr_addr * B ELSE (ctr_addr + 1) * B
    <3>1. tx_state'[c] = "S_IDLE" /\ dma_done_q'[c] /\ Out(c)' = n
      BY <1>2, <2>1, <2>3, <2>6
    <3>2. m' = n
      BY <1>2
    <3>3. Kept(c, n)
      BY <2>1, <2>6
    <3>4. Kept(c, m)'
      BY <1>2, <1>4, <2>2, <3>2, <3>3 DEF Kept
    <3> QED
      BY <1>1, <2>4, <3>1, <3>2, <3>4 DEF Write
  <2> QED
    BY <2>5, <2>6
<1> QED
  BY <1>5, <1>6, <1>7, <1>8 DEF PortType

\* Until the last burst has its response the request goes on.
LEMMA WriteOn ==
  ASSUME DEPTH >= K, EarlyData = FALSE, PortType, Writing, ~EndOfWrite,
         NEW en \in BOOLEAN, NEW aw, NEW w, NEW b, Clock(en, aw, w, b)
  PROVE  Writing'
<1>1. NoDone' /\ waiting'
  BY GivenMoves
<1>2. /\ p_state' # "ST_IDLE"
      /\ p_state' = "ST_RW_SINGLE" => BURST_NUM' = 1 /\ ctr_data' > 0
      /\ p_state' = "ST_RW_END" => last_burst' /\ ctr_data' = 0
  BY PortMoves
<1>3. \A c \in Chan : Write(c)'
  BY ChannelOn
<1> QED
  BY <1>1, <1>2, <1>3 DEF Writing

-----------------------------------------------------------------------------
(***************************************************************************)
(* The end of a request, and the time between requests.                    *)
(***************************************************************************)
LEMMA WriteOver ==
  ASSUME PortType, Writing, EndOfWrite, NEW en \in BOOLEAN, NEW aw, NEW w, NEW b, Clock(en, aw, w, b)
  PROVE  Ending'
<1>0. /\ waiting /\ NoDone /\ p_state = "ST_RW_END" /\ tx_done /\ last_burst /\ ctr_data = 0 /\ ~o_done /\ ~NextBurst
      /\ \A c \in Chan : fifo[c] = <<>> /\ tx_state[c] = "S_IDLE" /\ Between(c) /\ Kept(c, K)
  <2>1. waiting /\ NoDone /\ p_state = "ST_RW_END" /\ tx_done /\ last_burst /\ ctr_data = 0
    BY DEF Writing, EndOfWrite
  <2>2. ~o_done /\ ~NextBurst
    BY <2>1, BoundAssumption DEF NoDone, o_done, NextBurst
  <2> QED
    BY <2>1, <2>2, AllDone
<1>1. ~en /\ waiting' /\ writes' = writes /\ ~tx_start(en) /\ ~tx_valid(en)
  BY <1>0 DEF Clock, Core, tx_start, tx_valid
<1>2. Quiet' /\ \A c \in Chan : mem'[c] = mem[c]
  <2>1. Quiet
    BY <1>0 DEF Quiet, Between
  <2> QED
    BY <1>1, <2>1, QuietMoves
<1>3. p_state' = "ST_IDLE"
  BY <1>0, <1>1 DEF Clock, Port, NextState
<1>4. ctr_data' = 0
  BY <1>0, <1>1 DEF Clock, Port, NextCtrData
<1>5. DoneLat \in Nat \ {0} /\ \A m \in 1 .. DoneLat : done_pipe'[m] <=> m = 1
  <2>1. /\ DoneLat \in Nat \ {0}
        /\ \A m \in 1 .. DoneLat : done_pipe'[m] <=> IF m = 1 THEN EndOfWrite ELSE done_pipe[m - 1]
    BY DoneMoves
  <2>2. ASSUME NEW m \in 1 .. DoneLat, m # 1 PROVE m - 1 \in 1 .. DoneLat
    BY <2>1, <2>2
  <2> QED
    BY <1>0, <2>1, <2>2 DEF NoDone
<1>6. \A c \in Chan : Kept(c, K)'
  BY <1>0, <1>1, <1>2 DEF Kept, Cell
<1>7. 1 \in 1 .. DoneLat
  BY <1>5
<1> QED
  BY <1>1, <1>2, <1>3, <1>4, <1>5, <1>6, <1>7 DEF Ending

\* Done moves through its delay line, and with it the request is over.
LEMMA EndOn ==
  ASSUME PortType, Ending, NEW en \in BOOLEAN, NEW aw, NEW w, NEW b, Clock(en, aw, w, b)
  PROVE  IF o_done THEN Idling' ELSE Ending'
<1>0. /\ waiting /\ p_state = "ST_IDLE" /\ ctr_data = 0 /\ Quiet /\ ~EndOfWrite /\ ~NextBurst
      /\ ~en /\ ~tx_start(en) /\ ~tx_valid(en) /\ K \in Nat /\ K > 1
  BY Sizes DEF Ending, EndOfWrite, NextBurst, Clock, Core, tx_start, tx_valid
<1>1. Quiet' /\ \A c \in Chan : mem'[c] = mem[c]
  BY <1>0, QuietMoves
<1>2. p_state' = "ST_IDLE"
  BY <1>0 DEF Clock, Port, NextState
<1>3. ctr_data' = 0
  BY <1>0 DEF Clock, Port, NextCtrData
<1>4. PICK n \in 1 .. DoneLat : \A m \in 1 .. DoneLat : done_pipe[m] <=> m = n
  BY DEF Ending
<1>5. DoneLat \in Nat \ {0} /\ \A m \in 1 .. DoneLat : done_pipe'[m] <=> m = n + 1
  <2>1. /\ DoneLat \in Nat \ {0}
        /\ \A m \in 1 .. DoneLat : done_pipe'[m] <=> IF m = 1 THEN EndOfWrite ELSE done_pipe[m - 1]
    BY DoneMoves
  <2>2. ASSUME NEW m \in 1 .. DoneLat, m # 1 PROVE m - 1 \in 1 .. DoneLat
    BY <2>1, <2>2
  <2> QED
    BY <1>0, <1>4, <2>1, <2>2
<1>6. o_done <=> n = DoneLat
  BY <1>4, <1>5 DEF o_done
<1>7. CASE o_done
  <2>1. NoDone'
    BY <1>5, <1>6, <1>7 DEF NoDone
  <2>2. ~waiting' /\ writes' = writes + 1 /\ ctr_addr' = 0
    BY <1>0, <1>7 DEF Clock, Core, Port, NextCtrAddr
  <2>3. ASSUME NEW c \in Chan PROVE Kept(c, 0)'
    <3>1. ASSUME NEW a \in Cell, a[1] < writes + 1 PROVE mem[c][a] = Word(a[1], a[2])
      <4>1. a[1] \in Nat /\ a[2] \in 0 .. K - 1 /\ writes \in Nat
        BY BoundAssumption DEF Cell, PortType
      <4>2. a[1] < writes \/ (a[1] = writes /\ a[2] < K)
        BY <1>0, <3>1, <4>1
      <4> QED
        BY <4>2 DEF Ending, Kept
    <3>2. ASSUME NEW a \in Cell PROVE ~(a[2] < 0)
      <4>1. a[2] \in 0 .. K - 1
        BY DEF Cell
      <4> QED
        BY <1>0, <4>1
    <3>3. \A a \in Cell : a[1] < writes' \/ (a[1] = writes' /\ a[2] < 0) => mem'[c][a] = Word(a[1], a[2])
      BY <1>1, <2>2, <3>1, <3>2
    <3> QED
      BY <3>3 DEF Kept, Cell
  <2> QED
    BY <1>1, <1>2, <1>3, <1>7, <2>1, <2>2, <2>3 DEF Idling
<1>8. CASE ~o_done
  <2>1. waiting' /\ writes' = writes
    BY <1>0, <1>8 DEF Clock, Core
  <2>2. n + 1 \in 1 .. DoneLat
    BY <1>5, <1>6, <1>8
  <2>3. \A c \in Chan : Kept(c, K)'
    BY <1>1, <2>1 DEF Ending, Kept, Cell
  <2> QED
    BY <1>1, <1>2, <1>3, <1>5, <1>8, <2>1, <2>2, <2>3 DEF Ending
<1> QED
  BY <1>7, <1>8

\* A request begins with its first word in every FIFO.
LEMMA IdleOn ==
  ASSUME PortType, Idling, NEW en \in BOOLEAN, NEW aw, NEW w, NEW b, Clock(en, aw, w, b)
  PROVE  IF en THEN Writing' ELSE Idling'
<1>0. /\ ~waiting /\ p_state = "ST_IDLE" /\ ctr_data = 0 /\ ctr_addr = 0 /\ NoDone /\ Quiet
      /\ \A c \in Chan : Kept(c, 0)
      /\ ~EndOfWrite /\ ~NextBurst /\ (tx_start(en) <=> en) /\ (tx_valid(en) <=> en)
  BY DEF Idling, EndOfWrite, NextBurst, tx_start, tx_valid
<1>1. NoDone' /\ ~o_done
  BY <1>0, NoDoneMoves
<1>2. /\ K \in Nat /\ K > 1 /\ B \in Nat /\ DEPTH \in Nat /\ DEPTH > 0 /\ writes \in Nat
      /\ BURST_NUM' = BURST_NUM /\ B' = B
  BY Sizes, DepthAssumption, BoundAssumption DEF PortType, Clock, BURST_NUM
<1>3. ctr_addr' = 0 /\ writes' = writes /\ (waiting' <=> en)
  BY <1>0, <1>1 DEF Clock, Port, NextCtrAddr, Core
<1>4. ctr_data' = IF en THEN 1 ELSE 0
  BY <1>0, <1>2 DEF Clock, Port, NextCtrData
<1>5. CASE ~en
  <2>1. p_state' = "ST_IDLE"
    BY <1>0, <1>5 DEF Clock, Port, NextState
  <2>2. Quiet' /\ \A c \in Chan : mem'[c] = mem[c]
    BY <1>0, <1>5, QuietMoves
  <2>3. \A c \in Chan : Kept(c, 0)'
    BY <1>0, <1>3, <2>2 DEF Kept, Cell
  <2> QED
    BY <1>1, <1>3, <1>4, <1>5, <2>1, <2>2, <2>3 DEF Idling
<1>6. CASE en
  <2>1. p_state' = IF BURST_NUM = 1 THEN "ST_RW_SINGLE" ELSE "ST_RW_MANY_0"
    BY <1>0, <1>6 DEF Clock, Port, NextState
  <2>2. tx_address' = <<writes', ctr_addr'>>
    BY <1>0, <1>3 DEF Clock, Port
  <2>3. Given' = 1
    BY <1>4, <1>6 DEF Given
  <2>4. ASSUME NEW c \in Chan
        PROVE  Write(c)'
    <3>1. /\ tx_state[c] = "S_IDLE" /\ awaddr[c] = Empty /\ wdata[c] = <<>> /\ fifo[c] = <<>>
          /\ ~aw_hs(c, aw) /\ ~w_hs(c, w) /\ ~b_hs(c, b)
      BY <1>0 DEF Quiet, aw_hs, w_hs, b_hs
    <3>2. tx_state'[c] = "S_WR" /\ ~dma_done_q'[c] /\ tx_counter'[c] = 0
      BY <1>0, <1>6, <3>1 DEF Clock, Channels, NextDone, NextTxCounter
    <3>3. Between(c)' /\ mem'[c] = mem[c]
      BY <3>1 DEF Clock, Memory, Between, Empty
    <3>4. fifo'[c] = Words(writes, 0, 1)
      <4>1. Handed(en) = << <<writes, 0>> >>
        BY <1>0, <1>6 DEF Handed, OnWires, Word
      <4>2. Len(fifo[c]) < DEPTH
        BY <1>2, <3>1
      <4>3. fifo'[c] = <<>> \o << <<writes, 0>> >>
        BY <3>1, <4>1, <4>2 DEF Clock, Fifos
      <4>4. << <<writes, 0>> >> \in Seq(Nat \X Nat)
        BY <1>2
      <4>5. fifo'[c] = << <<writes, 0>> >>
        BY <4>3, <4>4, ConcatEmptySeq
      <4>6. Words(writes, 0, 0 + 1) = << <<writes, 0>> >>
        BY <1>2, WordsOne
      <4> QED
        BY <4>5, <4>6
    <3>5. Out(c)' = 0
      <4>1. writes \in Nat /\ 0 \in Nat /\ 1 \in Nat /\ 0 =< 1
        BY <1>2
      <4>2. Len(Words(writes, 0, 1)) = 1 - 0
        BY <4>1, WordsSeq
      <4> QED
        BY <2>3, <3>4, <4>2 DEF Out
    <3>6. Out(c)' = ctr_addr' * B'
      <4>1. \A x \in Nat : 0 * x = 0
        OBVIOUS
      <4> QED
        BY <1>2, <1>3, <3>5, <4>1
    <3>7. Kept(c, 0)'
      BY <1>0, <1>3, <3>3 DEF Kept, Cell
    <3>8. Kept(c, ctr_addr * B)'
      BY <3>5, <3>6, <3>7 DEF Kept
    <3>9. p_state' # "ST_RW_MANY_1"
      BY <2>1
    <3> QED
      BY <1>3, <2>2, <2>3, <3>2, <3>3, <3>4, <3>5, <3>6, <3>8, <3>9 DEF Write
  <2>5. /\ p_state' # "ST_IDLE" /\ p_state' # "ST_RW_END"
        /\ p_state' = "ST_RW_SINGLE" => BURST_NUM' = 1 /\ ctr_data' > 0
    BY <1>2, <1>4, <1>6, <2>1
  <2> QED
    BY <1>1, <1>3, <1>6, <2>4, <2>5 DEF Writing
<1> QED
  BY <1>5, <1>6

-----------------------------------------------------------------------------
(***************************************************************************)
(* The theorems. The FIFOs hold a polynomial, as the code's of 2048 words  *)
(* do: a memory may be as slow as it likes while the core hands over a     *)
(* word in every cycle. Memories take data after the address.              *)
(***************************************************************************)
LEMMA PhaseStep ==
  ASSUME DEPTH >= K, EarlyData = FALSE
  PROVE  IInv /\ [Next]_vars => IInv'
<1> SUFFICES ASSUME IInv, [Next]_vars
             PROVE  IInv'
  OBVIOUS
<1>1. CASE UNCHANGED vars
  BY <1>1 DEF IInv, PortType, Phase, Idling, Writing, Ending, NoDone, Quiet, Write, InBurst, Between, Kept, Given,
     Out, last_burst, BURST_NUM, Cell, vars, portVars, txVars, memVars
<1>2. ASSUME NEW en \in BOOLEAN, NEW aw \in SUBSET Chan, NEW w \in SUBSET Chan, NEW b \in SUBSET Chan,
             Clock(en, aw, w, b)
      PROVE  IInv'
  <2>1. en => ctr_data = 0
    BY <1>2 DEF IInv, Phase, Idling, Writing, Ending, Clock, Core
  <2>2. PortType /\ PortType'
    BY <1>2, <2>1, TypeStep DEF IInv
  <2>3. CASE Idling
    BY <1>2, <2>2, <2>3, IdleOn DEF IInv, Phase
  <2>4. CASE Writing /\ EndOfWrite
    BY <1>2, <2>2, <2>4, WriteOver DEF IInv, Phase
  <2>5. CASE Writing /\ ~EndOfWrite
    BY <1>2, <2>2, <2>5, WriteOn DEF IInv, Phase
  <2>6. CASE Ending
    BY <1>2, <2>2, <2>6, EndOn DEF IInv, Phase
  <2> QED
    BY <2>3, <2>4, <2>5, <2>6 DEF IInv, Phase
<1> QED
  BY <1>1, <1>2 DEF Next

\* The inductive invariant holds.
LEMMA PhaseCorrect ==
  ASSUME DEPTH >= K, EarlyData = FALSE
  PROVE  Spec => []IInv
BY InitPort, PhaseStep, PTL DEF Spec

\* The invariant implies that bursts are framed.
LEMMA Framed ==
  ASSUME EarlyData = FALSE, IInv
  PROVE  BurstsFramed
<1> SUFFICES ASSUME NEW c \in Chan, Takes(c), fifo[c] # <<>>
             PROVE  wlast(c) <=> Len(wdata[c]) = B - 1
  BY DEF BurstsFramed
<1>1. Writing /\ PortType
  BY DEF IInv, Phase, Idling, Ending, Quiet
<1>2. InBurst(c)
  BY <1>1 DEF Writing, Write, Between, Takes
<1>3. Len(wdata[c]) = tx_counter[c]
  BY <1>1, <1>2, BurstType
<1> QED
  BY <1>3 DEF wlast

\* A channel marks the last word of every burst and no other, whatever the pace of its memory and of the core.
THEOREM BurstsFramedCorrect ==
  ASSUME DEPTH >= K, EarlyData = FALSE
  PROVE  Spec => []BurstsFramed
BY PhaseCorrect, Framed, PTL

\* The invariant implies that the words are at their places at done.
LEMMA Written ==
  ASSUME IInv
  PROVE  WrittenAtDone
<1> SUFFICES ASSUME NEW c \in Chan, NEW a \in Cell, a[1] < writes \/ (o_done /\ a[1] = writes)
             PROVE  mem[c][a] = Word(a[1], a[2])
  BY DEF WrittenAtDone
<1>1. K \in Nat /\ a[2] \in Nat /\ a[2] < K
  <2>1. K \in Nat /\ a[2] \in 0 .. K - 1
    BY Sizes DEF IInv, Cell
  <2> QED
    BY <2>1
<1>2. NoDone => ~o_done
  BY BoundAssumption DEF NoDone, o_done
<1>3. CASE Idling
  BY <1>2, <1>3 DEF Idling, Kept
<1>4. CASE Writing
  <2>1. a[1] < writes
    BY <1>2, <1>4 DEF Writing
  <2>2. Write(c)
    BY <1>4 DEF Writing
  <2>3. PICK n : Kept(c, n)
    BY <2>2 DEF Write, InBurst
  <2> QED
    BY <2>1, <2>3 DEF Kept
<1>5. CASE Ending
  BY <1>1, <1>5 DEF Ending, Kept
<1> QED
  BY <1>3, <1>4, <1>5 DEF IInv, Phase

\* When the port says done, every word of the polynomial is at its place in the memory of every channel, and no later
\* request touches it.
THEOREM WrittenCorrect ==
  ASSUME DEPTH >= K, EarlyData = FALSE
  PROVE  Spec => []WrittenAtDone
BY PhaseCorrect, Written, PTL

\* An offered address is that of the burst at hand, which does not move.
LEMMA AddressStep ==
  ASSUME IInv, [Next]_vars, NEW c \in Chan, tx_state[c] = "S_WR", tx_state'[c] = "S_WR"
  PROVE  tx_address' = tx_address
<1>1. CASE UNCHANGED vars
  BY <1>1 DEF vars, portVars
<1>2. ASSUME NEW en \in BOOLEAN, NEW aw \in SUBSET Chan, NEW w \in SUBSET Chan, NEW b \in SUBSET Chan,
             Clock(en, aw, w, b)
      PROVE  tx_address' = tx_address
  <2>1. Writing
    BY DEF IInv, Phase, Idling, Ending, Quiet
  <2>2. tx_address = <<writes, ctr_addr>>
    BY <2>1 DEF Writing, Write
  <2> QED
    BY <1>2, <2>2 DEF Clock, Port
<1> QED
  BY <1>1, <1>2 DEF Next

\* A channel's address does not move while it is offered, though the port computes it anew in every cycle.
THEOREM AddressesHeld ==
  ASSUME DEPTH >= K, EarlyData = FALSE
  PROVE  Spec => AddressHeld
<1>1. IInv /\ [Next]_vars => [\A c \in Chan : tx_state[c] = "S_WR" /\ tx_state'[c] = "S_WR" => tx_address' = tx_address]_vars
  BY AddressStep
<1> QED
  BY <1>1, PhaseCorrect, PTL DEF Spec, AddressHeld

\* The registers of the port say of themselves what the core takes the port for.
LEMMA BusyIs == IInv => (PortBusy <=> waiting)
<1> SUFFICES ASSUME IInv PROVE PortBusy <=> waiting
  OBVIOUS
<1>1. CASE Idling
  BY <1>1 DEF Idling, NoDone, PortBusy
<1>2. CASE Writing
  BY <1>2 DEF Writing, PortBusy
<1>3. CASE Ending
  BY <1>3 DEF Ending, PortBusy
<1> QED
  BY <1>1, <1>2, <1>3 DEF IInv, Phase

\* Every edge is a step of the abstract port or changes nothing of it.
LEMMA WritePortStep ==
  ASSUME DEPTH >= K, EarlyData = FALSE
  PROVE  IInv /\ [Next]_vars => [Port3!Next]_<<PortBusy, writes>>
<1> SUFFICES ASSUME IInv, [Next]_vars
             PROVE  Port3!Next \/ UNCHANGED <<PortBusy, writes>>
  OBVIOUS
<1>1. CASE UNCHANGED vars
  BY <1>1 DEF vars, portVars, PortBusy
<1>2. ASSUME NEW en \in BOOLEAN, NEW aw \in SUBSET Chan, NEW w \in SUBSET Chan, NEW b \in SUBSET Chan,
             Clock(en, aw, w, b)
      PROVE  Port3!Next \/ UNCHANGED <<PortBusy, writes>>
  <2>0. waiting \in BOOLEAN /\ PortBusy \in BOOLEAN /\ PortBusy' \in BOOLEAN
    BY DEF IInv, PortType, PortBusy
  <2>1. PortBusy <=> waiting
    BY BusyIs
  <2>2. PortBusy' <=> waiting'
    <3>1. (IInv => (PortBusy <=> waiting))'
      BY BusyIs, PTL
    <3>2. IInv'
      BY PhaseStep
    <3> QED
      BY <3>1, <3>2
  <2>3. CASE en
    <3>1. ~waiting /\ writes < MaxWrites /\ waiting' /\ writes' = writes
      BY <1>2, <2>3 DEF Clock, Core
    <3> QED
      BY <2>0, <2>1, <2>2, <3>1 DEF Port3!Next, Port3!Request
  <2>4. CASE ~en /\ waiting /\ o_done
    <3>1. ~waiting' /\ writes' = writes + 1
      BY <1>2, <2>4 DEF Clock, Core
    <3> QED
      BY <2>0, <2>1, <2>2, <2>4, <3>1 DEF Port3!Next, Port3!Done
  <2>5. CASE ~en /\ ~(waiting /\ o_done)
    <3>1. (waiting' <=> waiting) /\ writes' = writes
      BY <1>2, <2>5 DEF Clock, Core
    <3> QED
      BY <2>0, <2>1, <2>2, <3>1
  <2> QED
    BY <2>3, <2>4, <2>5
<1> QED
  BY <1>1, <1>2 DEF Next

\* The port is what module Relin takes it for: by its own registers it is busy from a request until it says done, and
\* it says done once for every request.
THEOREM WritePortSafe ==
  ASSUME DEPTH >= K, EarlyData = FALSE
  PROVE  Spec => Port3!Init /\ [][Port3!Next]_<<PortBusy, writes>>
<1>1. Init => Port3!Init
  <2>1. Init => PortBusy = FALSE
    BY DEF Init, PortBusy
  <2> QED
    BY <2>1 DEF Init, Port3!Init
<1> QED
  BY <1>1, WritePortStep, PhaseCorrect, PTL DEF Spec
=============================================================================
