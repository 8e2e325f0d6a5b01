---------------------------- MODULE HbmReadPort ----------------------------
(***************************************************************************)
(* A read port of the HBM adapter (src/hbm/relin_hbm_adapter.sv; p0, p1    *)
(* and p2 are the same logic) with its DMA channels (src/hbm/dma_rx.sv)    *)
(* and their FIFOs. A polynomial is K words on every channel, fetched in   *)
(* bursts of B; the unit behind the port takes one word of every channel   *)
(* in each of the K cycles from `valid` on, and nothing can hold it back,  *)
(* while the channels of the memory answer each at its own pace. One step  *)
(* is one clock edge.                                                      *)
(***************************************************************************)
EXTENDS Naturals, Sequences

CONSTANTS
  Chan,      \* the HBM channels of the port
  K,         \* POLY_CC, words of a polynomial on a channel
  Lens,      \* burst lengths the port may be built for
  PREFILL,   \* words every FIFO holds before the stream starts
  DEPTH,     \* words a FIFO holds
  DoneLat,   \* cycles by which done is delayed
  MaxReads   \* bound on the requests

ASSUME BurstAssumption == K \in Nat /\ K > 1 /\ Lens \subseteq {b \in 1 .. K : K % b = 0}
ASSUME PrefillAssumption == PREFILL \in 1 .. K /\ DEPTH \in Nat /\ DEPTH >= PREFILL
ASSUME BoundAssumption == DoneLat \in Nat \ {0} /\ MaxReads \in Nat \ {0} /\ Chan # {}

VARIABLES
  \* HBM_BURST_LEN, fixed when the port is built
  B,
  \* the port
  p_state, ctr_data, ctr_addr, read_started, prefill_ready, rx_address, done_pipe,
  \* dma_rx of every channel: state, dma_done_q, data register
  rx_state, dma_done_q, dma_data_r,
  \* the FIFO of every channel, and the beats its memory has still to send
  fifo, beats,
  \* the unit behind the port: waiting for a request to be done, words still
  \* take, words taken of this request, requests so far
  waiting, left, reads

portVars == <<p_state, ctr_data, ctr_addr, read_started, prefill_ready, rx_address, done_pipe>>
rxVars   == <<rx_state, dma_done_q, dma_data_r>>
unitVars == <<waiting, left, reads>>
vars == <<B, portVars, rxVars, fifo, beats, unitVars>>

BURST_NUM == K \div B
PortState == {"ST_IDLE", "ST_RW_SINGLE", "ST_RW_MANY_0", "ST_RW_MANY_1", "ST_RW_END"}
NoWord    == <<>>

\* Word n of the polynomial of request i.
Word(i, n)  == <<i, n>>
\* Mutant: arlen is the number of beats of the burst, not one less.
BurstLong(a) == [n \in 1 .. B + 1 |-> Word(a[1], a[2] * B + n - 1)]
\* The words of a burst of arlen + 1 beats.
Burst(a)    == [n \in 1 .. B |-> Word(a[1], a[2] * B + n - 1)]
InFlight    == {"ST_RW_SINGLE", "ST_RW_MANY_0", "ST_RW_MANY_1"}

----------------------------------------------------------------------------
\* Wires of the port.

fifo_nempty  == \A c \in Chan : fifo[c] # <<>>
\* Mutant: the burst counts as done when one channel has it.
rx_doneAny   == \E c \in Chan : dma_done_q[c]
rx_done      == \A c \in Chan : dma_done_q[c]
last_burst   == ctr_addr = BURST_NUM - 1
i_done       == done_pipe[DoneLat]

\* The stream starts when the FIFOs are filled, once in a request.
ManyStarts   == p_state \in {"ST_RW_MANY_0", "ST_RW_MANY_1"} /\ ~read_started /\ prefill_ready
SingleStarts == p_state = "ST_RW_SINGLE" /\ fifo_nempty /\ prefill_ready
i_valid      == ManyStarts \/ SingleStarts

fifo_rd_en == \/ i_valid
              \/ p_state \in {"ST_RW_MANY_0", "ST_RW_MANY_1"} /\ read_started
              \/ p_state = "ST_RW_END"

rx_start(en) == (p_state = "ST_IDLE" /\ en) \/ p_state = "ST_RW_MANY_1"

\* Mutant: the stream ends one word early.
EndOfWordsEarly == p_state = "ST_RW_END" /\ ctr_data = K - 2
EndOfWords == p_state = "ST_RW_END" /\ ctr_data = K - 1

----------------------------------------------------------------------------
\* The port, at an edge; `en` is the request of the unit.

\* The burst before is in and it was not the last.
NextBurst == p_state = "ST_RW_MANY_0" /\ rx_done /\ ~last_burst

AllIn == p_state = "ST_RW_MANY_0" /\ rx_done /\ last_burst /\ prefill_ready

NextState(en) ==
  CASE p_state = "ST_IDLE" /\ en      -> IF BURST_NUM = 1 THEN "ST_RW_SINGLE" ELSE "ST_RW_MANY_0"
    [] SingleStarts                   -> "ST_RW_END"
    [] NextBurst                      -> "ST_RW_MANY_1"
    [] AllIn                          -> "ST_RW_END"
    [] p_state = "ST_RW_MANY_1"       -> "ST_RW_MANY_0"
    [] EndOfWords                     -> "ST_IDLE"
    [] OTHER                          -> p_state

\* While no stream has started in the ST_RW_MANY states the counter runs idle as
\* soon as the FIFOs have words; it has $clog2(K) bits and K is a power of two.
NextCtrData ==
  LET many == p_state \in {"ST_RW_MANY_0", "ST_RW_MANY_1"}
      inc  == \/ many /\ ~ManyStarts /\ (read_started \/ fifo_nempty)
              \/ SingleStarts
              \/ p_state = "ST_RW_END" /\ ~EndOfWords
  IN CASE inc        -> (ctr_data + 1) % K
       [] ManyStarts -> 1
       [] i_done /\ ~inc /\ ~ManyStarts -> 0
       [] OTHER      -> ctr_data

\* Mutant: the burst counter is not reset by done.
NextCtrAddrKept == IF NextBurst THEN (ctr_addr + 1) % BURST_NUM ELSE ctr_addr

NextCtrAddr ==
  CASE NextBurst -> (ctr_addr + 1) % BURST_NUM
    [] i_done /\ ~NextBurst -> 0
    [] OTHER     -> ctr_addr

NextReadStarted == ~i_done /\ (read_started \/ fifo_rd_en)

\* Mutant: the FIFOs count as filled when any of them is.
FilledAny == \E c \in Chan : Len(fifo[c]) >= PREFILL
Filled == \A c \in Chan : Len(fifo[c]) >= PREFILL

Port(en) ==
  /\ p_state' = NextState(en)
  /\ ctr_data' = NextCtrData
  /\ ctr_addr' = NextCtrAddr
  /\ read_started' = NextReadStarted
  /\ prefill_ready' = (p_state \in InFlight /\ Filled)
  /\ rx_address' = <<IF en \/ waiting THEN reads ELSE 0, ctr_addr>>
  /\ done_pipe' = <<EndOfWords>> \o SubSeq(done_pipe, 1, DoneLat - 1)

----------------------------------------------------------------------------
\* The channels, at an edge. `ar` are the channels whose memory takes the
\* address in this cycle, `rv` those whose memory offers a word.

ar_hs(c, ar) == c \in ar /\ rx_state[c] = "S_RD"
r_hs(c, rv)  == c \in rv /\ rx_state[c] = "S_RDDATA" /\ beats[c] # <<>>
rlast(c)     == Len(beats[c]) = 1

NextDone(c, en, rv) == ~rx_start(en) /\ (dma_done_q[c] \/ (r_hs(c, rv) /\ rlast(c)))

Channels(en, ar, rv) ==
  /\ rx_state' = [c \in Chan |->
       CASE rx_state[c] = "S_IDLE" /\ rx_start(en) -> "S_RD"
         [] ar_hs(c, ar)                           -> "S_RDDATA"
         [] r_hs(c, rv) /\ rlast(c)                -> "S_IDLE"
         [] OTHER                                  -> rx_state[c]]
  /\ dma_done_q' = [c \in Chan |-> NextDone(c, en, rv)]
  /\ dma_data_r' = [c \in Chan |-> IF r_hs(c, rv) THEN <<Head(beats[c])>> ELSE NoWord]

\* The memory of a channel answers an address with the words of its burst.
Memory(ar, rv) ==
  beats' = [c \in Chan |-> CASE ar_hs(c, ar) -> Burst(rx_address)
                             [] r_hs(c, rv)  -> Tail(beats[c])
                             [] OTHER        -> beats[c]]

\* fifo_sync: a word for a full FIFO is lost, a read of an empty one gives none.
Fifos ==
  fifo' = [c \in Chan |->
    (IF fifo_rd_en /\ fifo[c] # <<>> THEN Tail(fifo[c]) ELSE fifo[c])
      \o (IF Len(fifo[c]) < DEPTH THEN dma_data_r[c] ELSE <<>>)]

----------------------------------------------------------------------------
\* The unit behind the port: it asks again only after done, and counts the words
\* of a stream by itself.

Takes == i_valid \/ left > 0

Unit(en) ==
  /\ en => ~waiting /\ reads < MaxReads
  /\ waiting' = (en \/ (waiting /\ ~i_done))
  /\ reads' = IF waiting /\ i_done THEN reads + 1 ELSE reads
  /\ left' = CASE i_valid            -> K - 1
               [] left > 0 /\ ~i_valid -> left - 1
               [] OTHER              -> left

----------------------------------------------------------------------------
Init ==
  /\ B \in Lens
  /\ p_state = "ST_IDLE" /\ ctr_data = 0 /\ ctr_addr = 0 /\ read_started = FALSE
  /\ prefill_ready = FALSE /\ rx_address = <<0, 0>>
  /\ done_pipe = [n \in 1 .. DoneLat |-> FALSE]
  /\ rx_state = [c \in Chan |-> "S_IDLE"]
  /\ dma_done_q = [c \in Chan |-> FALSE]
  /\ dma_data_r = [c \in Chan |-> NoWord]
  /\ fifo = [c \in Chan |-> <<>>] /\ beats = [c \in Chan |-> <<>>]
  /\ waiting = FALSE /\ left = 0 /\ reads = 0

Clock(en, ar, rv) ==
  /\ UNCHANGED B
  /\ Unit(en) /\ Port(en) /\ Channels(en, ar, rv) /\ Memory(ar, rv) /\ Fifos

Next == \E en \in BOOLEAN, ar, rv \in SUBSET Chan : Clock(en, ar, rv)

\* The memory of channel c takes an address, or gives a word.
Answers(c) == \E en \in BOOLEAN, ar, rv \in SUBSET Chan :
                 (ar_hs(c, ar) \/ r_hs(c, rv)) /\ Clock(en, ar, rv)

\* The clock runs, and every memory answers in the end.
Spec == Init /\ [][Next]_vars /\ WF_vars(Next) /\ \A c \in Chan : WF_vars(Answers(c))

----------------------------------------------------------------------------
\* Every register holds a value of its type.
TypeOK ==
  /\ B \in Lens
  /\ p_state \in PortState /\ ctr_data \in 0 .. K - 1 /\ ctr_addr \in 0 .. BURST_NUM - 1
  /\ {read_started, prefill_ready, waiting} \subseteq BOOLEAN
  /\ rx_address \in (0 .. MaxReads) \X (0 .. BURST_NUM - 1)
  /\ done_pipe \in [1 .. DoneLat -> BOOLEAN]
  /\ rx_state \in [Chan -> {"S_IDLE", "S_RD", "S_RDDATA"}] /\ dma_done_q \in [Chan -> BOOLEAN]
  /\ \A c \in Chan : Len(fifo[c]) <= DEPTH /\ Len(beats[c]) <= B /\ Len(dma_data_r[c]) <= 1
  /\ left \in 0 .. K - 1 /\ reads \in 0 .. MaxReads

\* Whenever the unit takes a word, every channel has one for it, and it is the
\* next word of the polynomial the unit asked for: the stream has no gap, however
\* the channels drift apart and however many bursts a polynomial takes; so no word has
\* been lost either, though the memories are never held back (rready stays high in a burst).
StreamRight ==
  Takes => \A c \in Chan :
    fifo[c] # <<>> /\ Head(fifo[c]) = Word(reads, IF i_valid THEN 0 ELSE K - left)

\* The port reads the FIFOs in the K cycles of the stream and in no other, though
\* it does not know of the unit's counter: nothing is dropped and nothing stays.
StreamExact == (fifo_rd_en <=> Takes) /\ (~waiting => \A c \in Chan : fifo[c] = <<>>)

\* AXI: a channel holds the address it offers until it is taken, though the
\* address is computed anew in every cycle and delayed by one.
AddressHeld ==
  [][\A c \in Chan : rx_state[c] = "S_RD" /\ rx_state'[c] = "S_RD" => rx_address' = rx_address]_vars

Port1 == INSTANCE ReadPort WITH
  rd_state <- IF ~waiting THEN "idle" ELSE IF read_started THEN "stream" ELSE "busy",
  served   <- reads

\* The port does what module Relin has a read port do, and answers every request.
ImplementsReadPort == Port1!Spec
=============================================================================
