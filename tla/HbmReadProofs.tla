---------------------------- MODULE HbmReadProofs ----------------------------
(***************************************************************************)
(* Theorems about HbmReadPort for every number of channels, every length   *)
(* of polynomials and bursts and every DoneLat: streams are gapless and    *)
(* exact, addresses stay, and the port implements ReadPort.                *)
(***************************************************************************)
EXTENDS HbmReadPort, SequenceTheorems, TLAPS

-----------------------------------------------------------------------------
(***************************************************************************)
(* Words of a request that follow each other, delay lines, and bursts.     *)
(***************************************************************************)
\* Words m .. n - 1 of request i.
Words(i, m, n) == [k \in 1 .. n - m |-> <<i, m + k - 1>>]

\* A delay line with the places d, when b comes in and what is in the last place goes out.
Moved(b, d, N) == [n \in 1 .. N |-> IF n = 1 THEN b ELSE d[n - 1]]

\* Words that follow each other are as many as the distance between their ends.
LEMMA WordsSeq ==
  ASSUME NEW i \in Nat, NEW m \in Nat, NEW n \in Nat, m =< n
  PROVE  /\ Words(i, m, n) \in Seq(Nat \X Nat)
         /\ Len(Words(i, m, n)) = n - m
<1>1. n - m \in Nat /\ \A k \in 1 .. n - m : <<i, m + k - 1>> \in Nat \X Nat
  OBVIOUS
<1>2. Words(i, m, n) \in [1 .. n - m -> Nat \X Nat]
  BY <1>1 DEF Words
<1> QED
  BY <1>1, <1>2 DEF Words

\* There are none just if the two ends are the same.
LEMMA WordsEmpty ==
  ASSUME NEW i \in Nat, NEW m \in Nat, NEW n \in Nat, m =< n
  PROVE  Words(i, m, n) = <<>> <=> m = n
<1>1. m = n => Words(i, m, n) = <<>>
  BY WordsSeq, EmptySeq, SeqEqual
<1>2. m < n => Len(Words(i, m, n)) # 0
  BY WordsSeq
<1> QED
  BY <1>1, <1>2, EmptySeq

\* The first of them is taken.
LEMMA WordsTake ==
  ASSUME NEW i \in Nat, NEW m \in Nat, NEW n \in Nat, m < n
  PROVE  Head(Words(i, m, n)) = <<i, m>> /\ Tail(Words(i, m, n)) = Words(i, m + 1, n)
<1> DEFINE s == Words(i, m, n)
           t == Words(i, m + 1, n)
<1>1. s \in Seq(Nat \X Nat) /\ Len(s) = n - m /\ s # <<>> /\ s[1] = <<i, m>>
  <2>1. s[1] = <<i, m>>
    BY DEF Words
  <2> QED
    BY <2>1, WordsSeq, WordsEmpty
<1>2. t \in Seq(Nat \X Nat) /\ Len(t) = n - m - 1
  BY WordsSeq
<1>3. Tail(s) \in Seq(Nat \X Nat) /\ Len(Tail(s)) = n - m - 1
  BY <1>1, HeadTailProperties
<1>4. \A k \in 1 .. n - m - 1 : Tail(s)[k] = t[k]
  <2> SUFFICES ASSUME NEW k \in 1 .. n - m - 1 PROVE Tail(s)[k] = t[k]
    OBVIOUS
  <2>1. Tail(s)[k] = s[k + 1]
    BY <1>1, <1>3, HeadTailProperties
  <2>2. s[k + 1] = <<i, m + k>>
    BY DEF Words
  <2>3. t[k] = <<i, m + k>>
    BY DEF Words
  <2> QED
    BY <2>1, <2>2, <2>3
<1>5. Tail(s) = t
  <2> HIDE DEF s, t
  <2> QED
    BY <1>2, <1>3, <1>4, SeqEqual
<1> QED
  BY <1>1, <1>5

\* Words are put behind those that come before them.
LEMMA WordsJoin ==
  ASSUME NEW i \in Nat, NEW m \in Nat, NEW n \in Nat, NEW p \in Nat, m =< n, n =< p
  PROVE  Words(i, m, n) \o Words(i, n, p) = Words(i, m, p)
<1> DEFINE s == Words(i, m, n)
           t == Words(i, n, p)
           u == Words(i, m, p)
<1>1. /\ s \in Seq(Nat \X Nat) /\ Len(s) = n - m
      /\ t \in Seq(Nat \X Nat) /\ Len(t) = p - n
      /\ u \in Seq(Nat \X Nat) /\ Len(u) = p - m
  <2>1. s \in Seq(Nat \X Nat) /\ Len(s) = n - m
    BY WordsSeq
  <2>2. t \in Seq(Nat \X Nat) /\ Len(t) = p - n
    BY WordsSeq
  <2>3. u \in Seq(Nat \X Nat) /\ Len(u) = p - m
    BY WordsSeq
  <2> QED
    BY <2>1, <2>2, <2>3
<1>2. s \o t \in Seq(Nat \X Nat) /\ Len(s \o t) = p - m
  <2> HIDE DEF s, t
  <2> QED
    BY <1>1, ConcatProperties
<1>3. \A k \in 1 .. p - m : (s \o t)[k] = u[k]
  <2> SUFFICES ASSUME NEW k \in 1 .. p - m PROVE (s \o t)[k] = u[k]
    OBVIOUS
  <2>1. (s \o t)[k] = IF k =< n - m THEN s[k] ELSE t[k - (n - m)]
    <3> HIDE DEF s, t
    <3>1. \A j \in 1 .. Len(s) + Len(t) : (s \o t)[j] = IF j =< Len(s) THEN s[j] ELSE t[j - Len(s)]
      BY <1>1, ConcatProperties
    <3>2. k \in 1 .. Len(s) + Len(t) /\ Len(s) = n - m
      BY <1>1
    <3> QED
      BY <3>1, <3>2
  <2>2. u[k] = <<i, m + k - 1>>
    BY DEF Words
  <2>3. k =< n - m => s[k] = <<i, m + k - 1>>
    BY DEF Words
  <2>4. ~(k =< n - m) => t[k - (n - m)] = <<i, n + (k - (n - m)) - 1>>
    BY DEF Words
  <2> QED
    BY <2>1, <2>2, <2>3, <2>4
<1> QED
  <2> HIDE DEF s, t, u
  <2>1. s \o t = u
    BY <1>1, <1>2, <1>3, SeqEqual
  <2> QED
    BY <2>1 DEF s, t, u

\* A single word.
LEMMA WordsOne ==
  ASSUME NEW i \in Nat, NEW m \in Nat
  PROVE  Words(i, m, m + 1) = << <<i, m>> >>
<1>1. Words(i, m, m + 1) = [k \in 1 .. 1 |-> <<i, m>>]
  BY DEF Words
<1> QED
  BY <1>1

\* The places of a delay line move by one.
LEMMA ShiftRight ==
  ASSUME NEW N \in Nat \ {0}, NEW d \in [1 .. N -> BOOLEAN], NEW b \in BOOLEAN
  PROVE  <<b>> \o SubSeq(d, 1, N - 1) = Moved(b, d, N)
<1> DEFINE s == SubSeq(d, 1, N - 1)
           t == Moved(b, d, N)
<1>1. s \in Seq(BOOLEAN) /\ Len(s) = N - 1 /\ \A n \in 1 .. N - 1 : s[n] = d[n]
  BY SubSeqProperties
<1>2. <<b>> \in Seq(BOOLEAN) /\ Len(<<b>>) = 1 /\ <<b>>[1] = b
  OBVIOUS
<1>3. /\ <<b>> \o s \in Seq(BOOLEAN) /\ Len(<<b>> \o s) = N
      /\ \A n \in 1 .. N : (<<b>> \o s)[n] = IF n =< 1 THEN <<b>>[n] ELSE s[n - 1]
  <2> HIDE DEF s
  <2> QED
    BY <1>1, <1>2, ConcatProperties
<1>4. t \in Seq(BOOLEAN) /\ Len(t) = N
  <2>1. t \in [1 .. N -> BOOLEAN]
    BY DEF Moved
  <2> QED
    BY <2>1
<1>5. \A n \in 1 .. N : (<<b>> \o s)[n] = t[n]
  BY <1>1, <1>2, <1>3 DEF Moved
<1> QED
  <2> HIDE DEF s, t
  <2>1. <<b>> \o s = t
    BY <1>3, <1>4, <1>5, SeqEqual
  <2> QED
    BY <2>1 DEF s, t

\* If the burst length divides the length of a polynomial, bursts make a polynomial.
LEMMA BurstsMakeAll ==
  ASSUME NEW k \in Nat \ {0}, NEW b \in 1 .. k, k % b = 0
  PROVE  k \div b \in Nat \ {0} /\ (k \div b) * b = k
<1>1. k = b * (k \div b) + (k % b) /\ k \div b \in Nat
  OBVIOUS
<1>2. (k \div b) * b = k
  BY <1>1
<1>3. k \div b # 0
  BY <1>1
<1> QED
  BY <1>1, <1>2, <1>3

\* Where burst a of n begins and ends.
LEMMA BurstEnds ==
  ASSUME NEW n \in Nat, NEW b \in Nat \ {0}, NEW a \in 0 .. n - 1
  PROVE  /\ a * b \in Nat /\ (a + 1) * b = a * b + b /\ (a + 1) * b =< n * b
         /\ (a + 1) * b = n * b <=> a = n - 1
<1>1. a * b \in Nat /\ (a + 1) * b = a * b + b /\ n * b \in Nat
  OBVIOUS
<1>2. (n - (a + 1)) * b = n * b - (a + 1) * b
  OBVIOUS
<1>3. n - (a + 1) \in Nat
  OBVIOUS
<1>4. (n - (a + 1)) * b \in Nat /\ ((n - (a + 1)) * b = 0 <=> n - (a + 1) = 0)
  BY <1>3
<1> QED
  BY <1>1, <1>2, <1>4

-----------------------------------------------------------------------------
(***************************************************************************)
(* The inductive invariant: a request goes through four phases.            *)
(***************************************************************************)
NoDone == \A n \in 1 .. DoneLat : ~done_pipe[n]
Quiet  == \A c \in Chan : rx_state[c] = "S_IDLE" /\ dma_data_r[c] = NoWord /\ beats[c] = <<>>
Empty  == \A c \in Chan : fifo[c] = <<>>

Idling ==
  /\ ~waiting /\ p_state = "ST_IDLE" /\ ctr_data = 0 /\ ctr_addr = 0 /\ ~read_started /\ left = 0
  /\ NoDone /\ Quiet /\ Empty

\* Words of the request that have come over channel c, those on the way included or not.
Stored(c) == Len(fifo[c])
Got(c)    == Stored(c) + Len(dma_data_r[c])
Sent(c)   == Got(c) + Len(beats[c])

\* A channel has the words of the bursts before the burst ctr_addr, and of that one as many as its state says.
Fetch(c) ==
  /\ fifo[c] = Words(reads, 0, Stored(c))
  /\ dma_data_r[c] = Words(reads, Stored(c), Got(c)) /\ Len(dma_data_r[c]) =< 1
  /\ beats[c] = Words(reads, Got(c), Sent(c))
  /\ \/ /\ rx_state[c] = "S_RD" /\ ~dma_done_q[c] /\ p_state # "ST_RW_MANY_1"
        /\ rx_address = <<reads, ctr_addr>>
        /\ Sent(c) = ctr_addr * B /\ beats[c] = <<>>
     \/ /\ rx_state[c] = "S_RDDATA" /\ ~dma_done_q[c] /\ p_state # "ST_RW_MANY_1"
        /\ Sent(c) = (ctr_addr + 1) * B /\ beats[c] # <<>> /\ Got(c) >= ctr_addr * B
     \/ /\ rx_state[c] = "S_IDLE" /\ dma_done_q[c] /\ beats[c] = <<>>
        /\ Sent(c) = IF p_state = "ST_RW_MANY_1" THEN ctr_addr * B ELSE (ctr_addr + 1) * B

Fetching ==
  /\ waiting /\ p_state \in InFlight /\ ~read_started /\ left = 0 /\ NoDone
  /\ p_state = "ST_RW_SINGLE" <=> BURST_NUM = 1
  /\ p_state = "ST_RW_SINGLE" => ctr_data = 0
  /\ prefill_ready => Filled
  /\ \A c \in Chan : Fetch(c)

Streaming ==
  /\ waiting /\ p_state = "ST_RW_END" /\ read_started /\ ctr_data > 0 /\ left = K - ctr_data
  /\ NoDone /\ Quiet
  /\ \A c \in Chan : fifo[c] = Words(reads, ctr_data, K)

Ending ==
  /\ waiting /\ p_state = "ST_IDLE" /\ read_started /\ left = 0
  /\ \E n \in 1 .. DoneLat : \A m \in 1 .. DoneLat : done_pipe[m] <=> m = n
  /\ Quiet /\ Empty

Phase == Idling \/ Fetching \/ Streaming \/ Ending

PortType ==
  /\ B \in Lens
  /\ p_state \in PortState /\ ctr_data \in 0 .. K - 1 /\ ctr_addr \in 0 .. BURST_NUM - 1
  /\ read_started \in BOOLEAN /\ prefill_ready \in BOOLEAN /\ waiting \in BOOLEAN
  /\ rx_address \in (0 .. MaxReads) \X (0 .. BURST_NUM - 1)
  /\ done_pipe \in [1 .. DoneLat -> BOOLEAN]
  /\ rx_state \in [Chan -> {"S_IDLE", "S_RD", "S_RDDATA"}] /\ dma_done_q \in [Chan -> BOOLEAN]
  /\ fifo \in [Chan -> Seq(Nat \X Nat)] /\ beats \in [Chan -> Seq(Nat \X Nat)]
  /\ dma_data_r \in [Chan -> Seq(Nat \X Nat)]
  /\ left \in 0 .. K - 1 /\ reads \in 0 .. MaxReads /\ (waiting => reads < MaxReads)

IInv == PortType /\ Phase
-----------------------------------------------------------------------------
(***************************************************************************)
(* Bursts: BURST_NUM of them, B words each, make a polynomial.             *)
(***************************************************************************)
LEMMA Sizes == PortType => /\ K \in Nat /\ K > 1 /\ B \in Nat /\ B > 0
                           /\ BURST_NUM \in Nat /\ BURST_NUM > 0 /\ BURST_NUM * B = K
<1>1. PortType => K \in Nat \ {0} /\ K > 1 /\ B \in 1 .. K /\ K % B = 0
  BY BurstAssumption DEF PortType
<1> QED
  BY <1>1, BurstsMakeAll DEF BURST_NUM

\* Where the burst of the address counter begins and ends.
LEMMA BurstAt ==
  ASSUME PortType
  PROVE  /\ ctr_addr * B \in Nat /\ (ctr_addr + 1) * B = ctr_addr * B + B /\ (ctr_addr + 1) * B =< K
         /\ (ctr_addr + 1) * B = K <=> ctr_addr = BURST_NUM - 1
<1>1. BURST_NUM \in Nat /\ B \in Nat \ {0} /\ ctr_addr \in 0 .. BURST_NUM - 1 /\ BURST_NUM * B = K
  BY Sizes DEF PortType
<1>2. /\ ctr_addr * B \in Nat /\ (ctr_addr + 1) * B = ctr_addr * B + B /\ (ctr_addr + 1) * B =< BURST_NUM * B
      /\ (ctr_addr + 1) * B = BURST_NUM * B <=> ctr_addr = BURST_NUM - 1
  BY <1>1, BurstEnds
<1> QED
  BY <1>1, <1>2

-----------------------------------------------------------------------------
(***************************************************************************)
(* Types.                                                                  *)
(***************************************************************************)
LEMMA InitPort == Init => IInv
<1> SUFFICES ASSUME Init PROVE IInv
  OBVIOUS
<1>1. B \in Lens
  BY DEF Init
<1>2. BURST_NUM \in Nat /\ BURST_NUM > 0
  <2>1. K \in Nat \ {0} /\ B \in 1 .. K /\ K % B = 0
    BY <1>1, BurstAssumption
  <2> QED
    BY <2>1, BurstsMakeAll DEF BURST_NUM
<1>3. K \in Nat /\ K > 1 /\ MaxReads \in Nat /\ DoneLat \in Nat
  BY BurstAssumption, BoundAssumption
<1>4. PortType
  <2>1. 0 \in 0 .. K - 1 /\ 0 \in 0 .. BURST_NUM - 1 /\ 0 \in 0 .. MaxReads /\ 0 < MaxReads
    BY <1>2, <1>3, BoundAssumption
  <2>2. p_state \in PortState
    BY DEF Init, PortState
  <2>3. rx_address \in (0 .. MaxReads) \X (0 .. BURST_NUM - 1)
    BY <2>1 DEF Init
  <2>4. /\ done_pipe \in [1 .. DoneLat -> BOOLEAN]
        /\ rx_state \in [Chan -> {"S_IDLE", "S_RD", "S_RDDATA"}] /\ dma_done_q \in [Chan -> BOOLEAN]
        /\ fifo \in [Chan -> Seq(Nat \X Nat)] /\ beats \in [Chan -> Seq(Nat \X Nat)]
        /\ dma_data_r \in [Chan -> Seq(Nat \X Nat)]
    BY EmptySeq DEF Init, NoWord
  <2> QED
    BY <1>1, <2>1, <2>2, <2>3, <2>4 DEF Init, PortType
<1>5. Idling
  BY <1>3 DEF Init, Idling, NoDone, Quiet, Empty
<1> QED
  BY <1>4, <1>5 DEF IInv, Phase

\* Every edge keeps the types.
LEMMA TypeStep ==
  ASSUME PortType, NEW en \in BOOLEAN, NEW ar \in SUBSET Chan, NEW rv \in SUBSET Chan, Clock(en, ar, rv)
  PROVE  PortType'
<1>0. /\ K \in Nat /\ K > 1 /\ BURST_NUM \in Nat /\ BURST_NUM > 0 /\ BURST_NUM' = BURST_NUM
      /\ MaxReads \in Nat /\ DoneLat \in Nat \ {0}
  BY Sizes, BoundAssumption DEF Clock, BURST_NUM
<1>1. B' \in Lens /\ p_state' \in PortState
  BY DEF Clock, Port, NextState, PortType, PortState
<1>2. ctr_data' \in 0 .. K - 1
  <2>1. (ctr_data + 1) % K \in 0 .. K - 1
    BY <1>0 DEF PortType
  <2> QED
    BY <1>0, <2>1 DEF Clock, Port, NextCtrData, PortType
<1>3. ctr_addr' \in 0 .. BURST_NUM - 1
  <2>1. (ctr_addr + 1) % BURST_NUM \in 0 .. BURST_NUM - 1
    BY <1>0 DEF PortType
  <2> QED
    BY <1>0, <2>1 DEF Clock, Port, NextCtrAddr, PortType
<1>4. read_started' \in BOOLEAN /\ prefill_ready' \in BOOLEAN /\ waiting' \in BOOLEAN
  BY DEF Clock, Port, Unit, NextReadStarted, PortType
<1>5. rx_address' \in (0 .. MaxReads) \X (0 .. BURST_NUM - 1)
  BY <1>0 DEF Clock, Port, PortType
<1>6. done_pipe' \in [1 .. DoneLat -> BOOLEAN]
  <2>1. done_pipe' = Moved(EndOfWords, done_pipe, DoneLat)
    BY <1>0, ShiftRight DEF Clock, Port, PortType, EndOfWords
  <2>2. EndOfWords \in BOOLEAN
    BY DEF EndOfWords
  <2> QED
    BY <1>0, <2>1, <2>2 DEF Moved, PortType
<1>7. rx_state' \in [Chan -> {"S_IDLE", "S_RD", "S_RDDATA"}] /\ dma_done_q' \in [Chan -> BOOLEAN]
  BY DEF Clock, Channels, NextDone, PortType
<1>8. /\ beats' \in [Chan -> Seq(Nat \X Nat)] /\ dma_data_r' \in [Chan -> Seq(Nat \X Nat)]
      /\ fifo' \in [Chan -> Seq(Nat \X Nat)]
  <2>1. Burst(rx_address) \in Seq(Nat \X Nat)
    <3>1. B \in Nat /\ rx_address[1] \in Nat /\ rx_address[2] \in Nat
      BY <1>0, Sizes DEF PortType
    <3>2. \A n \in 1 .. B : Word(rx_address[1], rx_address[2] * B + n - 1) \in Nat \X Nat
      <4> SUFFICES ASSUME NEW n \in 1 .. B PROVE Word(rx_address[1], rx_address[2] * B + n - 1) \in Nat \X Nat
        OBVIOUS
      <4>1. rx_address[2] * B \in Nat
        BY <3>1
      <4> QED
        BY <3>1, <4>1 DEF Word
    <3> QED
      BY <3>1, <3>2 DEF Burst
  <2>2. \A c \in Chan : beats'[c] \in Seq(Nat \X Nat)
    BY <2>1, HeadTailProperties DEF Clock, Memory, PortType, r_hs
  <2>3. \A c \in Chan : dma_data_r'[c] \in Seq(Nat \X Nat)
    <3> SUFFICES ASSUME NEW c \in Chan PROVE dma_data_r'[c] \in Seq(Nat \X Nat)
      OBVIOUS
    <3>1. beats[c] # <<>> => Head(beats[c]) \in Nat \X Nat
      BY HeadTailProperties DEF PortType
    <3>2. beats[c] # <<>> => <<Head(beats[c])>> \in Seq(Nat \X Nat)
      BY <3>1
    <3>3. dma_data_r'[c] = IF r_hs(c, rv) THEN <<Head(beats[c])>> ELSE <<>>
      BY DEF Clock, Channels, NoWord
    <3> QED
      BY <3>2, <3>3, EmptySeq DEF r_hs
  <2>4. \A c \in Chan : fifo'[c] \in Seq(Nat \X Nat)
    <3> SUFFICES ASSUME NEW c \in Chan PROVE fifo'[c] \in Seq(Nat \X Nat)
      OBVIOUS
    <3> DEFINE s == IF fifo_rd_en /\ fifo[c] # <<>> THEN Tail(fifo[c]) ELSE fifo[c]
               t == IF Len(fifo[c]) < DEPTH THEN dma_data_r[c] ELSE <<>>
    <3>1. s \in Seq(Nat \X Nat) /\ t \in Seq(Nat \X Nat)
      BY EmptySeq, HeadTailProperties DEF PortType
    <3>2. fifo'[c] = s \o t
      BY DEF Clock, Fifos
    <3> HIDE DEF s, t
    <3> QED
      BY <3>1, <3>2, ConcatProperties
  <2> QED
    BY <2>2, <2>3, <2>4 DEF Clock, Memory, Channels, Fifos
<1>9. left' \in 0 .. K - 1 /\ reads' \in 0 .. MaxReads /\ (waiting' => reads' < MaxReads)
  BY <1>0 DEF Clock, Unit, PortType
<1> QED
  BY <1>0, <1>1, <1>2, <1>3, <1>4, <1>5, <1>6, <1>7, <1>8, <1>9 DEF PortType

-----------------------------------------------------------------------------
(***************************************************************************)
(* What all phases have in common.                                         *)
(***************************************************************************)
\* done comes DoneLat cycles after the last word, whatever the delay.
LEMMA DoneMoves ==
  ASSUME PortType, NEW en \in BOOLEAN, NEW ar, NEW rv, Clock(en, ar, rv)
  PROVE  /\ DoneLat \in Nat \ {0}
         /\ \A m \in 1 .. DoneLat : done_pipe'[m] <=> IF m = 1 THEN EndOfWords ELSE done_pipe[m - 1]
<1>1. DoneLat \in Nat \ {0} /\ EndOfWords \in BOOLEAN
  BY BoundAssumption DEF EndOfWords
<1>2. done_pipe' = Moved(EndOfWords, done_pipe, DoneLat)
  BY <1>1, ShiftRight DEF Clock, Port, PortType
<1> QED
  BY <1>1, <1>2 DEF Moved

\* If no stream ends, nothing enters the delay line of done.
LEMMA NoDoneMoves ==
  ASSUME PortType, NoDone, NEW en \in BOOLEAN, NEW ar, NEW rv, Clock(en, ar, rv), ~EndOfWords
  PROVE  NoDone' /\ ~i_done
BY DoneMoves DEF NoDone, i_done

\* Channels that are not asked for a burst rest, and their FIFOs get nothing.
LEMMA QuietMoves ==
  ASSUME PortType, Quiet, NEW en \in BOOLEAN, NEW ar \in SUBSET Chan, NEW rv \in SUBSET Chan, Clock(en, ar, rv),
         ~rx_start(en)
  PROVE  Quiet'
BY DEF Clock, Channels, Memory, Quiet, ar_hs, r_hs, NoWord

\* FIFOs that get nothing give one word if they are read.
LEMMA QuietFifos ==
  ASSUME PortType, Quiet, NEW en \in BOOLEAN, NEW ar \in SUBSET Chan, NEW rv \in SUBSET Chan, Clock(en, ar, rv),
         NEW c \in Chan
  PROVE  fifo'[c] = IF fifo_rd_en /\ fifo[c] # <<>> THEN Tail(fifo[c]) ELSE fifo[c]
<1> DEFINE s == IF fifo_rd_en /\ fifo[c] # <<>> THEN Tail(fifo[c]) ELSE fifo[c]
<1>1. s \in Seq(Nat \X Nat)
  BY HeadTailProperties DEF PortType
<1>2. fifo'[c] = s \o <<>>
  BY DEF Clock, Fifos, Quiet, NoWord
<1> QED
  BY <1>1, <1>2, ConcatEmptySeq

-----------------------------------------------------------------------------
(***************************************************************************)
(* From the request to the stream.                                         *)
(***************************************************************************)
\* A channel of the port while a request is fetched.
LEMMA FetchType ==
  ASSUME PortType, NEW c \in Chan
  PROVE  /\ Stored(c) \in Nat /\ Got(c) \in Nat /\ Sent(c) \in Nat /\ reads \in Nat
         /\ Stored(c) =< Got(c) /\ Got(c) =< Sent(c)
         /\ Len(dma_data_r[c]) = Got(c) - Stored(c) /\ Len(beats[c]) = Sent(c) - Got(c)
<1>1. Len(fifo[c]) \in Nat /\ Len(dma_data_r[c]) \in Nat /\ Len(beats[c]) \in Nat /\ MaxReads \in Nat
  BY LenProperties, BoundAssumption DEF PortType
<1> QED
  BY <1>1 DEF Stored, Got, Sent, PortType

\* The words a channel has got are as many as the bursts say.
LEMMA FetchBounds ==
  ASSUME PortType, Fetching, NEW c \in Chan
  PROVE  /\ Sent(c) =< K
         /\ Sent(c) = K => ctr_addr = BURST_NUM - 1
<1>1. Fetch(c) /\ p_state \in InFlight
  BY DEF Fetching
<1>2. /\ ctr_addr * B \in Nat /\ (ctr_addr + 1) * B = ctr_addr * B + B /\ (ctr_addr + 1) * B =< K
      /\ (ctr_addr + 1) * B = K <=> ctr_addr = BURST_NUM - 1
  BY BurstAt DEF PortType
<1>3. B \in Nat /\ B > 0 /\ K \in Nat
  BY Sizes
<1>4. Sent(c) = ctr_addr * B \/ Sent(c) = (ctr_addr + 1) * B
  BY <1>1 DEF Fetch
<1> QED
  BY <1>2, <1>3, <1>4

\* When the FIFOs are filled, all bursts have come over every channel, and nothing else.
LEMMA FilledIsAll ==
  ASSUME PREFILL = K, PortType, Fetching, prefill_ready
  PROVE  /\ Quiet /\ \A c \in Chan : dma_done_q[c] /\ fifo[c] = Words(reads, 0, K)
         /\ p_state # "ST_RW_MANY_1" /\ last_burst
<1>1. ASSUME NEW c \in Chan
      PROVE  /\ rx_state[c] = "S_IDLE" /\ dma_data_r[c] = NoWord /\ beats[c] = <<>>
             /\ dma_done_q[c] /\ fifo[c] = Words(reads, 0, K)
             /\ p_state # "ST_RW_MANY_1" /\ last_burst
  <2>1. Fetch(c) /\ p_state \in InFlight /\ Stored(c) >= K
    BY PrefillAssumption DEF Fetching, Filled, Stored
  <2>2. /\ ctr_addr * B \in Nat /\ (ctr_addr + 1) * B = ctr_addr * B + B /\ (ctr_addr + 1) * B =< K
        /\ (ctr_addr + 1) * B = K <=> ctr_addr = BURST_NUM - 1
    BY BurstAt DEF PortType
  <2>3. /\ B \in Nat /\ B > 0 /\ K \in Nat
        /\ Stored(c) \in Nat /\ Got(c) \in Nat /\ Sent(c) \in Nat
        /\ Stored(c) =< Got(c) /\ Got(c) =< Sent(c)
        /\ Len(dma_data_r[c]) = Got(c) - Stored(c) /\ Len(beats[c]) = Sent(c) - Got(c)
    BY Sizes, FetchType
  <2>4. Sent(c) =< K
    BY FetchBounds
  <2>5. Stored(c) = K /\ Got(c) = K /\ Sent(c) = K
    BY <2>1, <2>3, <2>4
  <2>6. dma_data_r[c] = <<>> /\ beats[c] = <<>>
    <3>1. dma_data_r[c] \in Seq(Nat \X Nat) /\ beats[c] \in Seq(Nat \X Nat)
      BY DEF PortType
    <3> QED
      BY <2>3, <2>5, <3>1, EmptySeq
  <2>7. ctr_addr * B # K
    BY <2>2, <2>3
  <2>8. rx_state[c] = "S_IDLE" /\ dma_done_q[c] /\ p_state # "ST_RW_MANY_1"
    BY <2>1, <2>5, <2>6, <2>7 DEF Fetch
  <2>9. last_burst
    BY <2>5, FetchBounds DEF last_burst
  <2> QED
    BY <2>1, <2>5, <2>6, <2>8, <2>9 DEF Fetch, NoWord
<1>2. PICK c \in Chan : TRUE
  BY BoundAssumption
<1> QED
  BY <1>1, <1>2 DEF Quiet

\* The stream starts when the FIFOs are filled, in a request of one burst as in one of many.
LEMMA FetchWires ==
  ASSUME PREFILL = K, PortType, Fetching
  PROVE  /\ i_valid <=> prefill_ready
         /\ fifo_rd_en <=> prefill_ready
         /\ ~EndOfWords /\ ~i_done /\ left = 0
<1>1. ~i_done
  BY BoundAssumption DEF Fetching, NoDone, i_done
<1>2. prefill_ready => fifo_nempty /\ p_state \in {"ST_RW_SINGLE", "ST_RW_MANY_0"}
  <2> SUFFICES ASSUME prefill_ready
               PROVE  fifo_nempty /\ p_state \in {"ST_RW_SINGLE", "ST_RW_MANY_0"}
    OBVIOUS
  <2>1. \A c \in Chan : Words(reads, 0, K) # <<>>
    BY Sizes, WordsEmpty, BoundAssumption DEF PortType
  <2> QED
    BY <2>1, FilledIsAll DEF fifo_nempty, Fetching, InFlight
<1> QED
  BY <1>1, <1>2 DEF Fetching, i_valid, ManyStarts, SingleStarts, fifo_rd_en, EndOfWords, InFlight, PortType

\* A channel goes on while no stream starts: words move from the memory through the data register to the FIFO.
LEMMA FetchWords ==
  ASSUME PREFILL = K, PortType, Fetching, ~prefill_ready, NEW c \in Chan,
         NEW en \in BOOLEAN, NEW ar \in SUBSET Chan, NEW rv \in SUBSET Chan, Clock(en, ar, rv)
  PROVE  /\ fifo'[c] = Words(reads', 0, Stored(c)') /\ Stored(c)' = Got(c) /\ reads' = reads /\ B' = B
         /\ dma_data_r'[c] = Words(reads', Stored(c)', Got(c)') /\ Len(dma_data_r'[c]) =< 1
         /\ beats'[c] = Words(reads', Got(c)', Sent(c)')
         /\ ar_hs(c, ar) => Sent(c)' = (ctr_addr + 1) * B
         /\ ~ar_hs(c, ar) => Sent(c)' = Sent(c)
         /\ Got(c)' >= Got(c) /\ Got(c)' \in Nat
<1>0. Fetch(c) /\ waiting /\ ~i_done /\ ~fifo_rd_en /\ reads' = reads /\ B' = B /\ reads \in Nat
  BY FetchWires, FetchType DEF Fetching, Clock, Unit
<1>1. /\ Stored(c) \in Nat /\ Got(c) \in Nat /\ Sent(c) \in Nat
      /\ Stored(c) =< Got(c) /\ Got(c) =< Sent(c)
      /\ Len(dma_data_r[c]) = Got(c) - Stored(c) /\ Len(beats[c]) = Sent(c) - Got(c)
      /\ Sent(c) =< K /\ K =< DEPTH /\ DEPTH \in Nat /\ K \in Nat
  BY FetchType, FetchBounds, PrefillAssumption, Sizes
<1>a. reads \in Nat /\ Stored(c) \in Nat /\ Got(c) \in Nat /\ Stored(c) =< Got(c) /\ 0 =< Stored(c) /\ 0 =< Got(c)
  BY <1>0, <1>1
<1>b. Got(c) + 1 \in Nat /\ Got(c) =< Got(c) /\ Got(c) =< Got(c) + 1 /\ (Got(c) + 1) - Got(c) = 1 /\ Got(c) - Got(c) = 0
  BY <1>1
<1>2. fifo'[c] = Words(reads, 0, Got(c))
  <2>1. dma_data_r[c] # <<>> => Stored(c) < Got(c)
    BY <1>0, <1>1, WordsEmpty DEF Fetch
  <2>2. Stored(c) < Got(c) => Stored(c) < DEPTH
    BY <1>1
  <2>3. fifo'[c] = fifo[c] \o dma_data_r[c]
    BY <1>0, <2>1, <2>2 DEF Clock, Fifos, Stored
  <2>4. Words(reads, 0, Stored(c)) \o Words(reads, Stored(c), Got(c)) = Words(reads, 0, Got(c))
    BY <1>a, WordsJoin
  <2> QED
    BY <1>0, <2>3, <2>4 DEF Fetch
<1>3. Stored(c)' = Got(c)
  <2>1. Len(Words(reads, 0, Got(c))) = Got(c) - 0
    BY <1>a, WordsSeq
  <2> QED
    BY <1>1, <1>2, <2>1 DEF Stored
<1>4. r_hs(c, rv) => Got(c) < Sent(c) /\ Head(beats[c]) = <<reads, Got(c)>> /\ Tail(beats[c]) = Words(reads, Got(c) + 1, Sent(c))
  <2> SUFFICES ASSUME r_hs(c, rv)
               PROVE  Got(c) < Sent(c) /\ Head(beats[c]) = <<reads, Got(c)>> /\ Tail(beats[c]) = Words(reads, Got(c) + 1, Sent(c))
    OBVIOUS
  <2>1. Got(c) # Sent(c)
    BY <1>0, <1>1, WordsEmpty DEF r_hs, Fetch
  <2> QED
    <3>1. Got(c) < Sent(c) /\ Sent(c) \in Nat
      BY <1>1, <2>1
    <3>2. Head(Words(reads, Got(c), Sent(c))) = <<reads, Got(c)>>
          /\ Tail(Words(reads, Got(c), Sent(c))) = Words(reads, Got(c) + 1, Sent(c))
      BY <1>a, <3>1, WordsTake
    <3> QED
      BY <1>0, <3>1, <3>2 DEF Fetch
<1>5. dma_data_r'[c] = IF r_hs(c, rv) THEN Words(reads, Got(c), Got(c) + 1) ELSE Words(reads, Got(c), Got(c))
  <2>1. Words(reads, Got(c), Got(c) + 1) = << <<reads, Got(c)>> >> /\ Words(reads, Got(c), Got(c)) = <<>>
    <3>1. Words(reads, Got(c), Got(c) + 1) = << <<reads, Got(c)>> >>
      BY <1>a, WordsOne
    <3>2. Words(reads, Got(c), Got(c)) = <<>>
      BY <1>a, <1>b, WordsEmpty
    <3> QED
      BY <3>1, <3>2
  <2> QED
    BY <1>4, <2>1 DEF Clock, Channels, NoWord
<1>6. Len(dma_data_r'[c]) = IF r_hs(c, rv) THEN 1 ELSE 0
  <2>1. Len(Words(reads, Got(c), Got(c) + 1)) = 1 /\ Len(Words(reads, Got(c), Got(c))) = 0
    BY <1>a, <1>b, WordsSeq
  <2> QED
    BY <1>5, <2>1
<1>7. Got(c)' = IF r_hs(c, rv) THEN Got(c) + 1 ELSE Got(c)
  BY <1>1, <1>3, <1>6 DEF Got
<1>c. Got(c)' >= Got(c) /\ Got(c)' \in Nat
  BY <1>1, <1>7
<1>8. CASE ar_hs(c, ar)
  <2>1. /\ rx_state[c] = "S_RD" /\ rx_address = <<reads, ctr_addr>> /\ Sent(c) = ctr_addr * B /\ beats[c] = <<>>
        /\ ~r_hs(c, rv)
    BY <1>0, <1>8 DEF Fetch, ar_hs, r_hs
  <2>2. Got(c) = ctr_addr * B
    BY <1>0, <1>1, <2>1, WordsEmpty DEF Fetch
  <2>3. /\ ctr_addr * B \in Nat /\ (ctr_addr + 1) * B = ctr_addr * B + B /\ B \in Nat
        /\ (ctr_addr + 1) * B \in Nat /\ ctr_addr * B =< (ctr_addr + 1) * B
    <3>1. ctr_addr * B \in Nat /\ (ctr_addr + 1) * B = ctr_addr * B + B
      BY BurstAt DEF PortType
    <3>2. B \in Nat
      BY Sizes
    <3> QED
      BY <3>1, <3>2
  <2>4. Burst(rx_address) = Words(reads, Got(c), (ctr_addr + 1) * B)
    <3>1. B = (ctr_addr + 1) * B - ctr_addr * B
      BY <2>3
    <3>2. [n \in 1 .. B |-> <<reads, ctr_addr * B + n - 1>>] = Words(reads, ctr_addr * B, (ctr_addr + 1) * B)
      BY <3>1 DEF Words
    <3> QED
      BY <2>1, <2>2, <3>2 DEF Burst, Word
  <2>5. beats'[c] = Words(reads, Got(c), (ctr_addr + 1) * B)
    <3>1. beats'[c] = Burst(rx_address)
      BY <1>8, <2>1 DEF Clock, Memory
    <3> QED
      BY <2>4, <3>1
  <2>6. Len(beats'[c]) = (ctr_addr + 1) * B - Got(c)
    <3>1. (ctr_addr + 1) * B \in Nat /\ Got(c) =< (ctr_addr + 1) * B
      BY <2>2, <2>3
    <3>2. Len(Words(reads, Got(c), (ctr_addr + 1) * B)) = (ctr_addr + 1) * B - Got(c)
      BY <1>a, <3>1, WordsSeq
    <3> QED
      BY <2>5, <3>2
  <2>7. Got(c)' = Got(c) /\ Sent(c)' = (ctr_addr + 1) * B
    BY <1>1, <1>7, <2>1, <2>3, <2>6 DEF Sent
  <2> QED
    BY <1>0, <1>2, <1>3, <1>5, <1>6, <1>8, <1>c, <2>1, <2>5, <2>7
<1>9. CASE ~ar_hs(c, ar)
  <2>1. beats'[c] = Words(reads, Got(c)', Sent(c))
    BY <1>0, <1>4, <1>7, <1>9 DEF Clock, Memory, Fetch
  <2>2. Len(beats'[c]) = Sent(c) - Got(c)'
    <3>1. Got(c)' \in Nat /\ Sent(c) \in Nat /\ Got(c)' =< Sent(c)
      BY <1>1, <1>4, <1>7
    <3>2. Len(Words(reads, Got(c)', Sent(c))) = Sent(c) - Got(c)'
      BY <1>a, <3>1, WordsSeq
    <3> QED
      BY <2>1, <3>2
  <2>3. Sent(c)' = Sent(c)
    BY <1>1, <1>7, <2>2 DEF Sent
  <2> QED
    BY <1>0, <1>2, <1>3, <1>5, <1>6, <1>7, <1>9, <1>c, <2>1, <2>3
<1> QED
  BY <1>8, <1>9

\* A request that is fetched is fetched on, until the FIFOs are filled.
LEMMA FetchOn ==
  ASSUME PREFILL = K, PortType, PortType', Fetching, ~prefill_ready,
         NEW en \in BOOLEAN, NEW ar \in SUBSET Chan, NEW rv \in SUBSET Chan, Clock(en, ar, rv)
  PROVE  Fetching'
<1>0. /\ waiting /\ p_state \in InFlight /\ ~read_started /\ left = 0
      /\ ~i_valid /\ ~fifo_rd_en /\ ~EndOfWords /\ ~i_done /\ ~en /\ NoDone'
      /\ reads' = reads /\ B' = B /\ BURST_NUM' = BURST_NUM
  <2>1. waiting /\ p_state \in InFlight /\ ~read_started /\ left = 0 /\ NoDone
    BY DEF Fetching
  <2>2. ~i_valid /\ ~fifo_rd_en /\ ~EndOfWords /\ ~i_done
    BY FetchWires
  <2>3. ~en /\ reads' = reads /\ B' = B /\ BURST_NUM' = BURST_NUM
    BY <2>1, <2>2 DEF Clock, Unit, BURST_NUM
  <2> QED
    BY <2>1, <2>2, <2>3, NoDoneMoves
<1>1. waiting' /\ ~read_started' /\ left' = 0
  <2>1. waiting' /\ ~read_started'
    BY <1>0 DEF Clock, Unit, Port, NextReadStarted
  <2>2. ~(left > 0)
    BY <1>0
  <2>3. left' = left
    BY <1>0, <2>2 DEF Clock, Unit
  <2> QED
    BY <1>0, <2>1, <2>3
<1>2. /\ ctr_addr * B \in Nat /\ (ctr_addr + 1) * B = ctr_addr * B + B
      /\ B \in Nat /\ B > 0 /\ BURST_NUM \in Nat /\ ctr_addr \in 0 .. BURST_NUM - 1
  BY BurstAt, Sizes DEF PortType
<1>3. NextBurst => (ctr_addr + 1) % BURST_NUM = ctr_addr + 1
  BY <1>2 DEF NextBurst, last_burst
<1>4. /\ p_state' = CASE NextBurst -> "ST_RW_MANY_1"
                      [] p_state = "ST_RW_MANY_1" -> "ST_RW_MANY_0"
                      [] OTHER -> p_state
      /\ ctr_addr' = IF NextBurst THEN ctr_addr + 1 ELSE ctr_addr
  BY <1>0, <1>3 DEF Clock, Port, NextState, NextCtrAddr, InFlight, SingleStarts, NextBurst, AllIn, EndOfWords, i_valid
<1>5. /\ p_state' \in InFlight /\ (p_state' = "ST_RW_SINGLE" <=> BURST_NUM' = 1)
      /\ p_state' = "ST_RW_SINGLE" => ctr_data' = 0
  <2>1. (p_state' = "ST_RW_SINGLE" <=> p_state = "ST_RW_SINGLE") /\ p_state' \in InFlight
    BY <1>0, <1>4 DEF InFlight, NextBurst
  <2>2. p_state = "ST_RW_SINGLE" => ctr_data' = 0
    BY <1>0 DEF Fetching, Clock, Port, NextCtrData, i_valid, ManyStarts, SingleStarts
  <2> QED
    BY <1>0, <2>1, <2>2 DEF Fetching
<1>6. ASSUME NEW c \in Chan
      PROVE  Fetch(c)' /\ Stored(c)' >= Stored(c)
  <2>1. /\ fifo'[c] = Words(reads', 0, Stored(c)') /\ Stored(c)' = Got(c)
        /\ dma_data_r'[c] = Words(reads', Stored(c)', Got(c)') /\ Len(dma_data_r'[c]) =< 1
        /\ beats'[c] = Words(reads', Got(c)', Sent(c)')
        /\ ar_hs(c, ar) => Sent(c)' = (ctr_addr + 1) * B
        /\ ~ar_hs(c, ar) => Sent(c)' = Sent(c)
        /\ Got(c)' >= Got(c) /\ Got(c)' \in Nat
    BY FetchWords
  <2>2. Stored(c)' >= Stored(c)
    BY <2>1, FetchType
  <2>3. Fetch(c)
    BY DEF Fetching
  <2>4. rx_address' = <<reads', ctr_addr>>
    BY <1>0 DEF Clock, Port
  <2>5. /\ rx_state'[c] = CASE rx_state[c] = "S_IDLE" /\ rx_start(en) -> "S_RD"
                            [] ar_hs(c, ar)                           -> "S_RDDATA"
                            [] r_hs(c, rv) /\ rlast(c)                -> "S_IDLE"
                            [] OTHER                                  -> rx_state[c]
        /\ dma_done_q'[c] = NextDone(c, en, rv)
        /\ beats'[c] = CASE ar_hs(c, ar) -> Burst(rx_address)
                         [] r_hs(c, rv)  -> Tail(beats[c])
                         [] OTHER        -> beats[c]
    BY DEF Clock, Channels, Memory
  <2>6. rx_start(en) <=> p_state = "ST_RW_MANY_1"
    BY <1>0 DEF rx_start
  <2>7. CASE rx_state[c] = "S_RD"
    <3>1. ~dma_done_q[c] /\ p_state # "ST_RW_MANY_1" /\ Sent(c) = ctr_addr * B /\ beats[c] = <<>> /\ ~r_hs(c, rv)
      BY <2>3, <2>7 DEF Fetch, r_hs
    <3>2. ~NextBurst
      BY <3>1 DEF NextBurst, rx_done
    <3>3. p_state' = p_state /\ ctr_addr' = ctr_addr /\ ~dma_done_q'[c]
      BY <1>4, <2>5, <3>1, <3>2 DEF NextDone
    <3>4. CASE ar_hs(c, ar)
      <4>1. Len(Burst(rx_address)) = B
        BY <1>2 DEF Burst
      <4>2. rx_state'[c] = "S_RDDATA" /\ Len(beats'[c]) = B
        BY <2>5, <2>7, <3>1, <3>4, <4>1
      <4>3. beats'[c] # <<>>
        BY <1>2, <4>2
      <4>4. Got(c)' >= ctr_addr' * B'
        <5>1. Got(c) = ctr_addr * B
          BY <2>3, <3>1, FetchType, EmptySeq
        <5> QED
          BY <1>0, <2>1, <3>3, <5>1
      <4> QED
        BY <1>0, <2>1, <2>2, <3>1, <3>3, <3>4, <4>2, <4>3, <4>4 DEF Fetch
    <3>5. CASE ~ar_hs(c, ar)
      <4>1. rx_state'[c] = "S_RD" /\ beats'[c] = <<>>
        BY <2>5, <2>6, <2>7, <3>1, <3>5
      <4> QED
        BY <1>0, <2>1, <2>2, <2>4, <3>1, <3>3, <3>5, <4>1 DEF Fetch
    <3> QED
      BY <3>4, <3>5
  <2>8. CASE rx_state[c] = "S_RDDATA"
    <3>1. ~dma_done_q[c] /\ p_state # "ST_RW_MANY_1" /\ Sent(c) = (ctr_addr + 1) * B /\ beats[c] # <<>> /\ ~ar_hs(c, ar)
      BY <2>3, <2>8 DEF Fetch, ar_hs
    <3>2. ~NextBurst
      BY <3>1 DEF NextBurst, rx_done
    <3>3. p_state' = p_state /\ ctr_addr' = ctr_addr
      BY <1>4, <3>1, <3>2
    <3>4. CASE r_hs(c, rv) /\ rlast(c)
      <4>1. rx_state'[c] = "S_IDLE" /\ dma_done_q'[c]
        BY <2>5, <2>6, <2>8, <3>1, <3>4 DEF NextDone
      <4>2. beats'[c] = <<>>
        <5>1. beats[c] \in Seq(Nat \X Nat) /\ Len(beats[c]) = 1 /\ beats'[c] = Tail(beats[c])
          BY <2>5, <3>1, <3>4 DEF rlast, PortType
        <5>2. Tail(beats[c]) \in Seq(Nat \X Nat) /\ Len(Tail(beats[c])) = 0
          BY <3>1, <5>1, HeadTailProperties
        <5> QED
          BY <5>1, <5>2, EmptySeq
      <4> QED
        BY <1>0, <2>1, <2>2, <3>1, <3>3, <4>1, <4>2 DEF Fetch
    <3>5. CASE ~(r_hs(c, rv) /\ rlast(c))
      <4>1. rx_state'[c] = "S_RDDATA" /\ ~dma_done_q'[c]
        BY <2>5, <2>8, <3>1, <3>5 DEF NextDone
      <4>2. beats'[c] # <<>>
        <5>1. CASE r_hs(c, rv)
          <6>1. beats[c] \in Seq(Nat \X Nat) /\ Len(beats[c]) # 1 /\ beats'[c] = Tail(beats[c])
            BY <2>5, <3>1, <3>5, <5>1 DEF rlast, PortType
          <6>2. Len(beats'[c]) = Len(beats[c]) - 1 /\ Len(beats[c]) \in Nat
            BY <3>1, <6>1, HeadTailProperties, EmptySeq
          <6>3. Len(beats'[c]) # 0
            BY <6>1, <6>2
          <6> QED
            BY <6>3, EmptySeq
        <5>2. CASE ~r_hs(c, rv)
          BY <2>5, <3>1, <5>2
        <5> QED
          BY <5>1, <5>2
      <4>3. Got(c)' >= ctr_addr' * B'
        <5>1. Got(c) >= ctr_addr * B /\ Got(c) \in Nat
          BY <2>3, <2>8, FetchType DEF Fetch
        <5> QED
          BY <1>0, <1>2, <2>1, <3>3, <5>1
      <4> QED
        BY <1>0, <2>1, <2>2, <3>1, <3>3, <4>1, <4>2, <4>3 DEF Fetch
    <3> QED
      BY <3>4, <3>5
  <2>9. CASE rx_state[c] = "S_IDLE"
    <3>1. dma_done_q[c] /\ beats[c] = <<>> /\ ~ar_hs(c, ar) /\ ~r_hs(c, rv)
          /\ Sent(c) = IF p_state = "ST_RW_MANY_1" THEN ctr_addr * B ELSE (ctr_addr + 1) * B
      BY <2>3, <2>9 DEF Fetch, ar_hs, r_hs
    <3>2. beats'[c] = <<>>
      BY <2>5, <3>1
    <3>3. CASE p_state = "ST_RW_MANY_1"
      <4>1. rx_state'[c] = "S_RD" /\ ~dma_done_q'[c]
        BY <2>5, <2>6, <2>9, <3>1, <3>3 DEF NextDone
      <4>2. ctr_addr' = ctr_addr /\ p_state' = "ST_RW_MANY_0"
        BY <1>4, <3>3 DEF NextBurst
      <4> QED
        BY <1>0, <2>1, <2>2, <2>4, <3>1, <3>2, <3>3, <4>1, <4>2 DEF Fetch
    <3>4. CASE p_state # "ST_RW_MANY_1"
      <4>1. rx_state'[c] = "S_IDLE" /\ dma_done_q'[c]
        BY <2>5, <2>6, <2>9, <3>1, <3>4 DEF NextDone
      <4>2. Sent(c)' = IF p_state' = "ST_RW_MANY_1" THEN ctr_addr' * B' ELSE (ctr_addr' + 1) * B'
        BY <1>0, <1>4, <2>1, <3>1, <3>4
      <4> QED
        BY <2>1, <2>2, <3>2, <4>1, <4>2 DEF Fetch
    <3> QED
      BY <3>3, <3>4
  <2> QED
    BY <2>7, <2>8, <2>9 DEF PortType
<1>7. prefill_ready' => Filled'
  <2> SUFFICES ASSUME prefill_ready', NEW c \in Chan PROVE Len(fifo'[c]) >= PREFILL
    BY DEF Filled
  <2>1. Filled
    BY DEF Clock, Port
  <2>2. Stored(c) >= K /\ Stored(c)' >= Stored(c) /\ Stored(c) \in Nat /\ K \in Nat
    BY <1>6, <2>1, FetchType, Sizes DEF Filled, Stored
  <2>3. Stored(c)' \in Nat
    BY <1>6, FetchWords, FetchType
  <2> QED
    BY <2>2, <2>3 DEF Stored
<1> QED
  BY <1>0, <1>1, <1>5, <1>6, <1>7 DEF Fetching

\* The stream starts with the first word of the request that waits.
LEMMA FetchOver ==
  ASSUME PREFILL = K, PortType, PortType', Fetching, prefill_ready,
         NEW en \in BOOLEAN, NEW ar \in SUBSET Chan, NEW rv \in SUBSET Chan, Clock(en, ar, rv)
  PROVE  Streaming'
<1>0. /\ waiting /\ p_state \in {"ST_RW_SINGLE", "ST_RW_MANY_0"} /\ ~read_started /\ left = 0
      /\ i_valid /\ fifo_rd_en /\ ~EndOfWords /\ ~i_done /\ ~en /\ reads' = reads
      /\ Quiet /\ last_burst /\ \A c \in Chan : dma_done_q[c] /\ fifo[c] = Words(reads, 0, K)
  BY FetchWires, FilledIsAll DEF Fetching, InFlight, Clock, Unit
<1>1. K \in Nat /\ K > 1 /\ 0 \in Nat /\ 0 < K /\ 0 + 1 = 1 /\ 1 % K = 1 /\ reads \in Nat
  <2>1. K \in Nat /\ K > 1
    BY Sizes
  <2>2. reads \in Nat
    BY BoundAssumption DEF PortType
  <2> QED
    BY <2>1, <2>2
<1>2. waiting' /\ read_started' /\ left' = K - 1
  <2>1. waiting' /\ read_started'
    BY <1>0 DEF Clock, Unit, Port, NextReadStarted
  <2>2. left' = K - 1
    BY <1>0 DEF Clock, Unit
  <2> QED
    BY <2>1, <2>2
<1>3. p_state' = "ST_RW_END"
  <2>1. CASE p_state = "ST_RW_SINGLE"
    BY <1>0, <2>1 DEF i_valid, ManyStarts, Clock, Port, NextState, NextBurst, AllIn, EndOfWords
  <2>2. CASE p_state = "ST_RW_MANY_0"
    <3>1. AllIn /\ ~NextBurst /\ ~SingleStarts
      BY <1>0, <2>2 DEF AllIn, NextBurst, SingleStarts, rx_done, i_valid, ManyStarts
    <3> QED
      BY <1>0, <2>2, <3>1 DEF Clock, Port, NextState
  <2> QED
    BY <1>0, <2>1, <2>2
<1>4. ctr_data' = 1
  <2>1. CASE p_state = "ST_RW_SINGLE"
    <3>1. ctr_data = 0 /\ SingleStarts /\ ~ManyStarts
      BY <1>0, <2>1 DEF Fetching, i_valid, ManyStarts
    <3> QED
      BY <1>1, <2>1, <3>1 DEF Clock, Port, NextCtrData
  <2>2. CASE p_state = "ST_RW_MANY_0"
    <3>1. ~SingleStarts /\ ManyStarts
      BY <1>0, <2>2 DEF i_valid, SingleStarts
    <3> QED
      BY <1>0, <2>2, <3>1 DEF Clock, Port, NextCtrData
  <2> QED
    BY <1>0, <2>1, <2>2
<1>5. NoDone' /\ Quiet'
  <2>1. NoDone /\ ~rx_start(en)
    BY <1>0 DEF Fetching, rx_start
  <2> QED
    BY <1>0, <2>1, NoDoneMoves, QuietMoves
<1>6. ASSUME NEW c \in Chan
      PROVE  fifo'[c] = Words(reads', 1, K)
  <2>1. fifo[c] = Words(reads, 0, K) /\ fifo[c] # <<>>
    BY <1>0, <1>1, WordsEmpty
  <2>2. Tail(fifo[c]) = Words(reads, 1, K)
    BY <1>1, <2>1, WordsTake
  <2>3. fifo'[c] = Tail(fifo[c])
    BY <1>0, <2>1, QuietFifos
  <2> QED
    BY <1>0, <2>2, <2>3
<1> QED
  BY <1>1, <1>2, <1>3, <1>4, <1>5, <1>6 DEF Streaming

-----------------------------------------------------------------------------
(***************************************************************************)
(* The stream and its end.                                                 *)
(***************************************************************************)
LEMMA StreamWires ==
  ASSUME PortType, Streaming
  PROVE  ~i_valid /\ fifo_rd_en /\ ~i_done /\ (EndOfWords <=> ctr_data = K - 1) /\ left > 0
<1>1. ~i_valid /\ fifo_rd_en /\ (EndOfWords <=> ctr_data = K - 1)
  BY DEF Streaming, i_valid, ManyStarts, SingleStarts, fifo_rd_en, EndOfWords
<1>2. ~i_done
  BY BoundAssumption DEF Streaming, NoDone, i_done
<1>3. left > 0
  BY Sizes DEF Streaming, PortType
<1> QED
  BY <1>1, <1>2, <1>3

\* A stream goes on by a word, or ends.
LEMMA StreamOn ==
  ASSUME PortType, PortType', Streaming,
         NEW en \in BOOLEAN, NEW ar \in SUBSET Chan, NEW rv \in SUBSET Chan, Clock(en, ar, rv)
  PROVE  Streaming' \/ Ending'
<1>0. /\ waiting /\ p_state = "ST_RW_END" /\ read_started /\ ctr_data > 0 /\ left = K - ctr_data /\ left > 0
      /\ ~i_valid /\ fifo_rd_en /\ ~i_done /\ ~en /\ reads' = reads /\ ~rx_start(en) /\ Quiet' /\ NoDone
      /\ EndOfWords <=> ctr_data = K - 1
  <2>1. /\ waiting /\ p_state = "ST_RW_END" /\ read_started /\ ctr_data > 0 /\ left = K - ctr_data /\ NoDone /\ Quiet
    BY DEF Streaming
  <2>2. /\ ~i_valid /\ fifo_rd_en /\ ~i_done /\ left > 0
        /\ EndOfWords <=> ctr_data = K - 1
    BY StreamWires
  <2>3. ~en /\ reads' = reads
    BY <2>1, <2>2 DEF Clock, Unit
  <2>4. ~rx_start(en)
    BY <2>1 DEF rx_start
  <2> QED
    BY <2>1, <2>2, <2>3, <2>4, QuietMoves
<1>1. K \in Nat /\ K > 1 /\ ctr_data \in Nat /\ ctr_data < K /\ reads \in Nat
  <2>1. K \in Nat /\ K > 1
    BY Sizes
  <2>2. reads \in Nat /\ ctr_data \in 0 .. K - 1
    BY BoundAssumption DEF PortType
  <2> QED
    BY <2>1, <2>2
<1>2. waiting' /\ read_started' /\ left' = left - 1
  <2>1. waiting' /\ read_started'
    BY <1>0 DEF Clock, Unit, Port, NextReadStarted
  <2>2. left' = left - 1
    BY <1>0 DEF Clock, Unit
  <2> QED
    BY <2>1, <2>2
<1>3. ASSUME NEW c \in Chan
      PROVE  fifo'[c] = Words(reads', ctr_data + 1, K)
  <2>1. fifo[c] = Words(reads, ctr_data, K) /\ fifo[c] # <<>>
    BY <1>1, WordsEmpty DEF Streaming
  <2>2. Tail(fifo[c]) = Words(reads, ctr_data + 1, K)
    BY <1>1, <2>1, WordsTake
  <2>3. Quiet
    BY DEF Streaming
  <2>4. fifo'[c] = Tail(fifo[c])
    BY <1>0, <2>1, <2>3, QuietFifos
  <2> QED
    BY <1>0, <2>2, <2>4
<1>4. CASE ctr_data = K - 1
  <2>1. EndOfWords
    BY <1>0, <1>4
  <2>2. p_state' = "ST_IDLE"
    BY <1>0, <2>1 DEF Clock, Port, NextState, SingleStarts, NextBurst, AllIn
  <2>3. left' = 0
    BY <1>0, <1>1, <1>2, <1>4
  <2>4. Empty'
    <3> SUFFICES ASSUME NEW c \in Chan PROVE fifo'[c] = <<>>
      BY DEF Empty
    <3>1. K \in Nat /\ K =< K /\ reads \in Nat /\ ctr_data + 1 = K
      BY <1>1, <1>4
    <3>2. Words(reads, K, K) = <<>>
      BY <3>1, WordsEmpty
    <3> QED
      BY <1>0, <1>3, <3>1, <3>2
  <2>5. \E n \in 1 .. DoneLat : \A m \in 1 .. DoneLat : done_pipe'[m] <=> m = n
    <3>1. DoneLat \in Nat \ {0} /\ \A m \in 1 .. DoneLat : done_pipe'[m] <=> m = 1
      BY <1>0, <2>1, DoneMoves DEF NoDone
    <3> QED
      BY <3>1
  <2> QED
    BY <1>0, <1>2, <2>2, <2>3, <2>4, <2>5 DEF Ending
<1>5. CASE ctr_data # K - 1
  <2>1. ~EndOfWords
    BY <1>0, <1>5
  <2>2. p_state' = "ST_RW_END"
    BY <1>0, <2>1 DEF Clock, Port, NextState, SingleStarts, NextBurst, AllIn
  <2>3. ctr_data' = ctr_data + 1
    <3>1. (ctr_data + 1) % K = ctr_data + 1
      BY <1>1, <1>5
    <3> QED
      BY <1>0, <2>1, <3>1 DEF Clock, Port, NextCtrData, ManyStarts
  <2>4. left' = K - ctr_data' /\ ctr_data' > 0
    BY <1>0, <1>1, <1>2, <2>3
  <2>5. NoDone'
    BY <1>0, <2>1, NoDoneMoves
  <2> QED
    BY <1>0, <1>2, <1>3, <2>2, <2>3, <2>4, <2>5 DEF Streaming
<1> QED
  BY <1>4, <1>5

\* done is under way, and comes.
LEMMA EndOn ==
  ASSUME PortType, PortType', Ending,
         NEW en \in BOOLEAN, NEW ar \in SUBSET Chan, NEW rv \in SUBSET Chan, Clock(en, ar, rv)
  PROVE  IF i_done THEN Idling' ELSE Ending'
<1>0. waiting /\ p_state = "ST_IDLE" /\ read_started /\ left = 0 /\ Quiet /\ Empty
      /\ ~i_valid /\ ~fifo_rd_en /\ ~EndOfWords /\ ~en /\ ~rx_start(en) /\ Quiet'
  <2>1. waiting /\ p_state = "ST_IDLE" /\ read_started /\ left = 0 /\ Quiet /\ Empty
    BY DEF Ending
  <2>2. ~i_valid /\ ~fifo_rd_en /\ ~EndOfWords
    BY <2>1 DEF i_valid, ManyStarts, SingleStarts, fifo_rd_en, EndOfWords
  <2>3. ~en
    BY <2>1 DEF Clock, Unit
  <2>4. ~rx_start(en)
    BY <2>1, <2>3 DEF rx_start
  <2> QED
    BY <2>1, <2>2, <2>3, <2>4, QuietMoves
<1>1. Empty'
  <2> SUFFICES ASSUME NEW c \in Chan PROVE fifo'[c] = <<>>
    BY DEF Empty
  <2> QED
    BY <1>0, QuietFifos DEF Empty
<1>2. p_state' = "ST_IDLE"
  BY <1>0 DEF Clock, Port, NextState, SingleStarts, NextBurst, AllIn
<1>3. left' = 0
  <2>1. ~(left > 0)
    BY <1>0
  <2> QED
    BY <1>0, <2>1 DEF Clock, Unit
<1>4. PICK n \in 1 .. DoneLat : \A m \in 1 .. DoneLat : done_pipe[m] <=> m = n
  BY DEF Ending
<1>5. DoneLat \in Nat \ {0} /\ \A m \in 1 .. DoneLat : done_pipe'[m] <=> m = n + 1
  <2>1. /\ DoneLat \in Nat \ {0}
        /\ \A m \in 1 .. DoneLat : done_pipe'[m] <=> IF m = 1 THEN EndOfWords ELSE done_pipe[m - 1]
    BY DoneMoves
  <2>2. ASSUME NEW m \in 1 .. DoneLat, m # 1 PROVE m - 1 \in 1 .. DoneLat
    BY <2>1, <2>2
  <2> QED
    BY <1>0, <1>4, <2>1, <2>2
<1>6. i_done <=> n = DoneLat
  BY <1>4, <1>5 DEF i_done
<1>7. CASE i_done
  <2>1. NoDone'
    BY <1>5, <1>6, <1>7 DEF NoDone
  <2>2. ~waiting' /\ ~read_started'
    BY <1>0, <1>7 DEF Clock, Unit, Port, NextReadStarted
  <2>3. ctr_data' = 0 /\ ctr_addr' = 0
    BY <1>0, <1>7 DEF Clock, Port, NextCtrData, NextCtrAddr, ManyStarts, SingleStarts, NextBurst, i_valid
  <2> QED
    BY <1>0, <1>1, <1>2, <1>3, <1>7, <2>1, <2>2, <2>3 DEF Idling
<1>8. CASE ~i_done
  <2>1. waiting' /\ read_started'
    BY <1>0, <1>8 DEF Clock, Unit, Port, NextReadStarted
  <2>2. n + 1 \in 1 .. DoneLat
    BY <1>5, <1>6, <1>8
  <2> QED
    BY <1>0, <1>1, <1>2, <1>3, <1>5, <1>8, <2>1, <2>2 DEF Ending
<1> QED
  BY <1>7, <1>8

-----------------------------------------------------------------------------
(***************************************************************************)
(* Between requests.                                                       *)
(***************************************************************************)
LEMMA IdleOn ==
  ASSUME PortType, PortType', Idling,
         NEW en \in BOOLEAN, NEW ar \in SUBSET Chan, NEW rv \in SUBSET Chan, Clock(en, ar, rv)
  PROVE  IF en THEN Fetching' ELSE Idling'
<1>0. /\ ~waiting /\ p_state = "ST_IDLE" /\ ctr_data = 0 /\ ctr_addr = 0 /\ ~read_started /\ left = 0
      /\ NoDone /\ Quiet /\ Empty
      /\ ~i_valid /\ ~fifo_rd_en /\ ~EndOfWords /\ ~i_done /\ ~NextBurst /\ NoDone'
      /\ rx_start(en) <=> en
  <2>1. /\ ~waiting /\ p_state = "ST_IDLE" /\ ctr_data = 0 /\ ctr_addr = 0 /\ ~read_started /\ left = 0
        /\ NoDone /\ Quiet /\ Empty
    BY DEF Idling
  <2>2. /\ ~i_valid /\ ~fifo_rd_en /\ ~EndOfWords /\ ~NextBurst
        /\ rx_start(en) <=> en
    BY <2>1 DEF i_valid, ManyStarts, SingleStarts, fifo_rd_en, EndOfWords, NextBurst, rx_start
  <2> QED
    BY <2>1, <2>2, NoDoneMoves
<1>1. ctr_data' = 0 /\ ctr_addr' = 0 /\ ~read_started' /\ ~prefill_ready'
  BY <1>0 DEF Clock, Port, NextCtrData, NextCtrAddr, NextReadStarted, i_valid, InFlight
<1>2. left' = 0 /\ reads' = reads /\ (waiting' <=> en) /\ B' = B /\ BURST_NUM' = BURST_NUM
  <2>1. ~(left > 0)
    BY <1>0
  <2> QED
    BY <1>0, <2>1 DEF Clock, Unit, BURST_NUM
<1>3. Empty'
  <2> SUFFICES ASSUME NEW c \in Chan PROVE fifo'[c] = <<>>
    BY DEF Empty
  <2> QED
    BY <1>0, QuietFifos DEF Empty
<1>4. CASE ~en
  <2>1. p_state' = "ST_IDLE"
    BY <1>0, <1>4 DEF Clock, Port, NextState, SingleStarts, AllIn
  <2>2. Quiet'
    BY <1>0, <1>4, QuietMoves
  <2> QED
    BY <1>0, <1>1, <1>2, <1>3, <1>4, <2>1, <2>2 DEF Idling
<1>5. CASE en
  <2>1. p_state' = IF BURST_NUM = 1 THEN "ST_RW_SINGLE" ELSE "ST_RW_MANY_0"
    BY <1>0, <1>5 DEF Clock, Port, NextState, SingleStarts, AllIn
  <2>2. rx_address' = <<reads', ctr_addr'>>
    BY <1>0, <1>1, <1>2, <1>5 DEF Clock, Port
  <2>3. ASSUME NEW c \in Chan
        PROVE  Fetch(c)'
    <3>1. rx_state'[c] = "S_RD" /\ ~dma_done_q'[c] /\ dma_data_r'[c] = <<>> /\ beats'[c] = <<>> /\ fifo'[c] = <<>>
      BY <1>0, <1>3, <1>5 DEF Clock, Channels, Memory, Quiet, Empty, ar_hs, r_hs, NextDone, NoWord
    <3>2. Stored(c)' = 0 /\ Got(c)' = 0 /\ Sent(c)' = 0
      BY <3>1, EmptySeq DEF Stored, Got, Sent
    <3>3. Words(reads', 0, 0) = <<>>
      <4>1. reads' \in Nat /\ 0 \in Nat /\ 0 =< 0
        BY BoundAssumption DEF PortType
      <4> QED
        BY <4>1, WordsEmpty
    <3>4. Sent(c)' = ctr_addr' * B'
      <4>1. B' \in Nat
        BY <1>2, Sizes
      <4>2. \A b \in Nat : 0 * b = 0
        OBVIOUS
      <4>3. ctr_addr' * B' = 0 * B'
        BY <1>1
      <4> QED
        BY <3>2, <4>1, <4>2, <4>3
    <3>5. p_state' # "ST_RW_MANY_1"
      BY <2>1
    <3> QED
      BY <2>2, <3>1, <3>2, <3>3, <3>4, <3>5, EmptySeq DEF Fetch
  <2> QED
    BY <1>0, <1>1, <1>2, <1>5, <2>1, <2>3 DEF Fetching, InFlight
<1> QED
  BY <1>4, <1>5

-----------------------------------------------------------------------------
(***************************************************************************)
(* The theorems.                                                           *)
(***************************************************************************)
\* A polynomial is prefetched whole, and a FIFO holds it: relin_hbm_adapter.sv has both at 2^(LOGN-LOGTP)
\* words or more. With less, nothing makes a memory keep up with a stream.
LEMMA PhaseStep ==
  ASSUME PREFILL = K
  PROVE  IInv /\ [Next]_vars => IInv'
<1> SUFFICES ASSUME IInv, [Next]_vars
             PROVE  IInv'
  OBVIOUS
<1>1. CASE UNCHANGED vars
  BY <1>1 DEF IInv, PortType, Phase, Idling, Fetching, Streaming, Ending, NoDone, Quiet, Empty, Fetch, Stored, Got,
     Sent, Filled, BURST_NUM, vars, portVars, rxVars, unitVars
<1>2. ASSUME NEW en \in BOOLEAN, NEW ar \in SUBSET Chan, NEW rv \in SUBSET Chan, Clock(en, ar, rv)
      PROVE  IInv'
  <2>1. PortType /\ PortType'
    BY <1>2, TypeStep DEF IInv
  <2>2. CASE Idling
    BY <1>2, <2>1, <2>2, IdleOn DEF IInv, Phase
  <2>3. CASE Fetching /\ prefill_ready
    BY <1>2, <2>1, <2>3, FetchOver DEF IInv, Phase
  <2>4. CASE Fetching /\ ~prefill_ready
    BY <1>2, <2>1, <2>4, FetchOn DEF IInv, Phase
  <2>5. CASE Streaming
    BY <1>2, <2>1, <2>5, StreamOn DEF IInv, Phase
  <2>6. CASE Ending
    BY <1>2, <2>1, <2>6, EndOn DEF IInv, Phase
  <2> QED
    BY <2>2, <2>3, <2>4, <2>5, <2>6 DEF IInv, Phase
<1> QED
  BY <1>1, <1>2 DEF Next

\* The inductive invariant holds.
LEMMA PhaseCorrect ==
  ASSUME PREFILL = K
  PROVE  Spec => []IInv
BY InitPort, PhaseStep, PTL DEF Spec

\* The invariant implies that every word the core takes is the next one.
LEMMA TakesRight ==
  ASSUME PREFILL = K, IInv
  PROVE  StreamRight /\ StreamExact
<1>1. CASE Idling \/ Ending
  <2>1. left = 0 /\ ~i_valid /\ ~fifo_rd_en /\ Empty
    BY <1>1 DEF Idling, Ending, i_valid, ManyStarts, SingleStarts, fifo_rd_en
  <2>2. ~Takes
    BY <2>1 DEF Takes
  <2> QED
    BY <2>1, <2>2 DEF StreamRight, StreamExact, Empty
<1>2. CASE Fetching
  <2>1. left = 0 /\ (i_valid <=> prefill_ready) /\ (fifo_rd_en <=> prefill_ready) /\ waiting
    BY <1>2, FetchWires DEF IInv, Fetching
  <2>2. Takes <=> prefill_ready
    BY <2>1 DEF Takes
  <2>3. ASSUME prefill_ready, NEW c \in Chan
        PROVE  fifo[c] # <<>> /\ Head(fifo[c]) = Word(reads, 0)
    <3>1. fifo[c] = Words(reads, 0, K)
      BY <1>2, <2>3, FilledIsAll DEF IInv
    <3>2. reads \in Nat /\ K \in Nat /\ 0 \in Nat /\ 0 < K
      <4>1. K \in Nat /\ K > 1
        BY Sizes DEF IInv
      <4>2. reads \in 0 .. MaxReads /\ MaxReads \in Nat
        BY BoundAssumption DEF IInv, PortType
      <4> QED
        BY <4>1, <4>2
    <3>3. Words(reads, 0, K) # <<>> /\ Head(Words(reads, 0, K)) = <<reads, 0>>
      <4>1. Words(reads, 0, K) # <<>>
        BY <3>2, WordsEmpty
      <4>2. Head(Words(reads, 0, K)) = <<reads, 0>>
        BY <3>2, WordsTake
      <4> QED
        BY <4>1, <4>2
    <3> QED
      BY <3>1, <3>3 DEF Word
  <2> QED
    BY <2>1, <2>2, <2>3 DEF StreamRight, StreamExact
<1>3. CASE Streaming
  <2>1. ~i_valid /\ fifo_rd_en /\ left > 0 /\ waiting /\ left = K - ctr_data
    BY <1>3, StreamWires DEF IInv, Streaming
  <2>2. Takes
    BY <2>1 DEF Takes
  <2>3. ASSUME NEW c \in Chan
        PROVE  fifo[c] # <<>> /\ Head(fifo[c]) = Word(reads, K - left)
    <3>1. fifo[c] = Words(reads, ctr_data, K)
      BY <1>3 DEF Streaming
    <3>2. reads \in Nat /\ K \in Nat /\ ctr_data \in Nat /\ ctr_data < K
      <4>1. K \in Nat
        BY Sizes DEF IInv
      <4>2. reads \in Nat /\ ctr_data \in 0 .. K - 1
        BY BoundAssumption DEF IInv, PortType
      <4> QED
        BY <4>1, <4>2
    <3>3. Words(reads, ctr_data, K) # <<>> /\ Head(Words(reads, ctr_data, K)) = <<reads, ctr_data>>
      <4>1. Words(reads, ctr_data, K) # <<>>
        BY <3>2, WordsEmpty
      <4>2. Head(Words(reads, ctr_data, K)) = <<reads, ctr_data>>
        BY <3>2, WordsTake
      <4> QED
        BY <4>1, <4>2
    <3>4. K - left = ctr_data
      BY <2>1, <3>2
    <3> QED
      BY <3>1, <3>3, <3>4 DEF Word
  <2> QED
    BY <2>1, <2>2, <2>3 DEF StreamRight, StreamExact
<1> QED
  BY <1>1, <1>2, <1>3 DEF IInv, Phase

\* A stream has no gap and no wrong word, on every channel, for every number of channels, every burst length that
\* divides the polynomial and whatever the pace of the memories.
THEOREM StreamsRight ==
  ASSUME PREFILL = K
  PROVE  Spec => []StreamRight
BY PhaseCorrect, TakesRight, PTL

\* The port reads the FIFOs exactly in the cycles in which the unit takes words, and leaves them empty.
THEOREM StreamsExact ==
  ASSUME PREFILL = K
  PROVE  Spec => []StreamExact
BY PhaseCorrect, TakesRight, PTL

\* An offered address is that of the burst at hand, which does not move.
LEMMA AddressStep ==
  ASSUME PREFILL = K, IInv, [Next]_vars, NEW c \in Chan, rx_state[c] = "S_RD", rx_state'[c] = "S_RD"
  PROVE  rx_address' = rx_address
<1>1. CASE UNCHANGED vars
  BY <1>1 DEF vars, portVars
<1>2. ASSUME NEW en \in BOOLEAN, NEW ar \in SUBSET Chan, NEW rv \in SUBSET Chan, Clock(en, ar, rv)
      PROVE  rx_address' = rx_address
  <2>1. Fetching
    BY DEF IInv, Phase, Idling, Streaming, Ending, Quiet
  <2>2. waiting /\ rx_address = <<reads, ctr_addr>>
    BY <2>1 DEF Fetching, Fetch
  <2> QED
    BY <1>2, <2>2 DEF Clock, Port
<1> QED
  BY <1>1, <1>2 DEF Next

\* A channel's address does not move while it is offered, though the port computes it anew in every cycle.
THEOREM AddressesHeld ==
  ASSUME PREFILL = K
  PROVE  Spec => AddressHeld
<1>1. IInv /\ [Next]_vars => [\A c \in Chan : rx_state[c] = "S_RD" /\ rx_state'[c] = "S_RD" => rx_address' = rx_address]_vars
  BY AddressStep
<1> QED
  BY <1>1, PhaseCorrect, PTL DEF Spec, AddressHeld

\* Every edge is a step of the abstract port or changes nothing of it.
LEMMA ReadPortStep ==
  ASSUME PREFILL = K
  PROVE  IInv /\ IInv' /\ [Next]_vars
           => [Port1!Next]_<<IF ~waiting THEN "idle" ELSE IF read_started THEN "stream" ELSE "busy", reads>>
<1> SUFFICES ASSUME IInv, IInv', [Next]_vars
             PROVE  Port1!Next \/ UNCHANGED <<waiting, read_started, reads>>
  OBVIOUS
<1>1. CASE UNCHANGED vars
  BY <1>1 DEF vars, portVars, unitVars
<1>2. ASSUME NEW en \in BOOLEAN, NEW ar \in SUBSET Chan, NEW rv \in SUBSET Chan, Clock(en, ar, rv)
      PROVE  Port1!Next \/ UNCHANGED <<waiting, read_started, reads>>
  <2>0. PortType /\ PortType'
    BY DEF IInv
  <2>1. CASE Idling
    <3>1. ~waiting /\ ~read_started /\ reads' = reads /\ (waiting' <=> en) /\ (en => reads < MaxReads)
      BY <1>2, <2>1 DEF Idling, Clock, Unit
    <3>2. ~read_started'
      BY <1>2, <2>0, <2>1, IdleOn DEF Fetching, Idling
    <3> QED
      BY <2>0, <3>1, <3>2 DEF Port1!Next, Port1!Request, PortType
  <2>2. CASE Fetching /\ prefill_ready
    <3>1. waiting /\ ~read_started /\ waiting' /\ read_started'
      BY <1>2, <2>0, <2>2, FetchOver DEF Fetching, Streaming
    <3>2. reads' = reads
      BY <1>2, <2>0, <2>2, FetchWires DEF Clock, Unit
    <3> QED
      BY <3>1, <3>2 DEF Port1!Next, Port1!Start
  <2>3. CASE Fetching /\ ~prefill_ready
    <3>1. waiting /\ ~read_started /\ waiting' /\ ~read_started'
      BY <1>2, <2>0, <2>3, FetchOn DEF Fetching
    <3>2. reads' = reads
      BY <1>2, <2>0, <2>3, FetchWires DEF Clock, Unit
    <3> QED
      BY <2>0, <3>1, <3>2 DEF PortType
  <2>4. CASE Streaming
    <3>1. waiting /\ read_started /\ waiting' /\ read_started'
      BY <1>2, <2>0, <2>4, StreamOn DEF Streaming, Ending
    <3>2. reads' = reads
      BY <1>2, <2>0, <2>4, StreamWires DEF Clock, Unit
    <3> QED
      BY <2>0, <3>1, <3>2 DEF PortType
  <2>5. CASE Ending
    <3>1. waiting /\ read_started
      BY <2>5 DEF Ending
    <3>2. CASE i_done
      <4>1. ~waiting' /\ reads' = reads + 1
        BY <1>2, <2>0, <2>5, <3>1, <3>2, EndOn DEF Idling, Clock, Unit
      <4> QED
        BY <3>1, <4>1 DEF Port1!Next, Port1!Done
    <3>3. CASE ~i_done
      <4>1. waiting' /\ read_started' /\ reads' = reads
        BY <1>2, <2>0, <2>5, <3>1, <3>3, EndOn DEF Ending, Clock, Unit
      <4> QED
        BY <2>0, <3>1, <4>1 DEF PortType
    <3> QED
      BY <3>2, <3>3
  <2> QED
    BY <2>1, <2>2, <2>3, <2>4, <2>5 DEF IInv, Phase
<1> QED
  BY <1>1, <1>2 DEF Next

\* The port is what module Relin takes it for: a request makes it busy, then it streams, then it is done.
THEOREM ReadPortSafe ==
  ASSUME PREFILL = K
  PROVE  Spec => Port1!Init /\ [][Port1!Next]_<<IF ~waiting THEN "idle" ELSE IF read_started THEN "stream" ELSE "busy", reads>>
<1>1. Init => Port1!Init
  BY DEF Init, Port1!Init
<1> QED
  BY <1>1, ReadPortStep, PhaseCorrect, PTL DEF Spec

\* A channel never has more words under way than a burst, nor a FIFO more than it holds.
LEMMA ReadTypes ==
  ASSUME PREFILL = K, IInv
  PROVE  TypeOK
<1>1. /\ K \in Nat /\ K > 1 /\ B \in Nat /\ B > 0 /\ DEPTH \in Nat /\ DEPTH >= K
  BY Sizes, PrefillAssumption DEF IInv
<1>2. ASSUME NEW c \in Chan
      PROVE  Len(fifo[c]) <= DEPTH /\ Len(beats[c]) <= B /\ Len(dma_data_r[c]) <= 1
  <2>1. CASE Idling \/ Ending
    BY <1>1, <2>1, EmptySeq DEF Idling, Ending, Quiet, Empty, NoWord
  <2>2. CASE Streaming
    <3>1. beats[c] = <<>> /\ dma_data_r[c] = <<>> /\ fifo[c] = Words(reads, ctr_data, K)
      BY <2>2 DEF Streaming, Quiet, NoWord
    <3>2. reads \in Nat /\ ctr_data \in Nat /\ ctr_data =< K
      BY <1>1, BoundAssumption DEF IInv, PortType
    <3>3. Len(Words(reads, ctr_data, K)) = K - ctr_data
      BY <1>1, <3>2, WordsSeq
    <3> QED
      BY <1>1, <3>1, <3>2, <3>3, EmptySeq
  <2>3. CASE Fetching
    <3>1. Fetch(c)
      BY <2>3 DEF Fetching
    <3>2. /\ Stored(c) \in Nat /\ Got(c) \in Nat /\ Sent(c) \in Nat
          /\ Stored(c) =< Got(c) /\ Got(c) =< Sent(c) /\ Len(beats[c]) = Sent(c) - Got(c) /\ Sent(c) =< K
      BY <2>3, FetchType, FetchBounds DEF IInv
    <3>3. ctr_addr * B \in Nat /\ (ctr_addr + 1) * B = ctr_addr * B + B
      BY BurstAt DEF IInv, PortType
    <3>4. Len(fifo[c]) <= DEPTH
      BY <1>1, <3>2 DEF Stored
    <3>5. Len(beats[c]) <= B
      <4>1. CASE rx_state[c] = "S_RDDATA"
        BY <1>1, <3>1, <3>2, <3>3, <4>1 DEF Fetch
      <4>2. CASE rx_state[c] # "S_RDDATA"
        BY <1>1, <3>1, <4>2, EmptySeq DEF Fetch
      <4> QED
        BY <4>1, <4>2
    <3> QED
      BY <3>1, <3>4, <3>5 DEF Fetch
  <2> QED
    BY <2>1, <2>2, <2>3 DEF IInv, Phase
<1> QED
  BY <1>2 DEF IInv, PortType, TypeOK

\* No FIFO gets more words than it holds and no memory is asked for more than a burst at a time.
THEOREM ReadTypeCorrect ==
  ASSUME PREFILL = K
  PROVE  Spec => []TypeOK
BY PhaseCorrect, ReadTypes, PTL

=============================================================================
