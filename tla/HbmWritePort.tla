---------------------------- MODULE HbmWritePort ----------------------------
(***************************************************************************)
(* The write port p3 of the HBM adapter (src/hbm/relin_hbm_adapter.sv)     *)
(* with its DMA channels (src/hbm/dma_tx.sv), their FIFOs and memories.    *)
(* The core hands over one word for every channel in each of the K cycles  *)
(* from its request on and cannot be held back; every channel sends its    *)
(* words in bursts of B, at the pace of its memory. One step is one clock  *)
(* edge.                                                                   *)
(***************************************************************************)
EXTENDS Naturals, Sequences

CONSTANTS
  Chan,      \* the HBM channels of the port
  K,         \* POLY_CC, words of a polynomial on a channel
  Lens,      \* burst lengths the port may be built for
  DEPTH,     \* words a FIFO holds
  DoneLat,   \* cycles by which done is delayed
  EarlyData, \* whether a memory may take write data before its address
  MaxWrites  \* bound on the requests

ASSUME BurstAssumption == K \in Nat /\ K > 1 /\ Lens \subseteq {b \in 1 .. K : K % b = 0}
ASSUME DepthAssumption == DEPTH \in Nat \ {0} /\ EarlyData \in BOOLEAN
ASSUME BoundAssumption == DoneLat \in Nat \ {0} /\ MaxWrites \in Nat \ {0} /\ Chan # {}

VARIABLES
  \* HBM_BURST_LEN, fixed when the port is built
  B,
  \* the port
  p_state, ctr_data, ctr_addr, tx_address, done_pipe,
  \* dma_tx of every channel: state, counter, dma_done_q, FIFO
  tx_state, tx_counter, dma_done_q, fifo,
  \* the memory of every channel: address taken, words taken, words stored
  awaddr, wdata, mem,
  \* the core: waiting for done, words still to hand over, requests done
  waiting, left, writes

portVars == <<p_state, ctr_data, ctr_addr, tx_address, done_pipe>>
txVars   == <<tx_state, tx_counter, dma_done_q, fifo>>
memVars  == <<awaddr, wdata, mem>>
vars == <<B, portVars, txVars, memVars, waiting, left, writes>>

BURST_NUM  == K \div B
Word(i, n) == <<i, n>>
Empty      == <<>>

-----------------------------------------------------------------------------
\* Wires of the port; `en` is the request of the core.

\* Mutant: the burst counts as done when one channel has it.
tx_doneAny     == \E c \in Chan : dma_done_q[c]
tx_done        == \A c \in Chan : dma_done_q[c]
last_burst     == ctr_addr = BURST_NUM - 1
o_done         == done_pipe[DoneLat]
tx_valid(en)   == en \/ ctr_data # 0
tx_start(en)   == (p_state = "ST_IDLE" /\ en) \/ p_state = "ST_RW_MANY_1"
NextBurst      == p_state = "ST_RW_MANY_0" /\ tx_done /\ ~last_burst

EndOfWrite     == p_state = "ST_RW_END" /\ tx_done

\* The word on the wires in a cycle: the core counts its K words by itself, and
\* after the last the wires carry something else, Word(writes, K).
OnWires(en) == Word(writes, IF en THEN 0 ELSE K - left)
Handed(en)  == IF tx_valid(en) THEN <<OnWires(en)>> ELSE <<>>

-----------------------------------------------------------------------------
\* The port, at an edge.

NextState(en) ==
  CASE p_state = "ST_IDLE" /\ en -> IF BURST_NUM = 1 THEN "ST_RW_SINGLE" ELSE "ST_RW_MANY_0"
    [] p_state = "ST_RW_SINGLE" /\ ctr_data = K - 1            -> "ST_RW_END"
    [] p_state = "ST_RW_MANY_0" /\ tx_done /\ last_burst       -> "ST_RW_END"
    [] NextBurst                                               -> "ST_RW_MANY_1"
    [] p_state = "ST_RW_MANY_1"                                -> "ST_RW_MANY_0"
    [] EndOfWrite                                              -> "ST_IDLE"
    [] OTHER                                                   -> p_state

\* Mutant: one word less is taken from the core.
NextCtrDataShort(en) ==
  IF ctr_data = K - 2 THEN 0 ELSE IF tx_valid(en) THEN ctr_data + 1 ELSE ctr_data

NextCtrData(en) ==
  IF ctr_data = K - 1 THEN 0 ELSE IF tx_valid(en) THEN ctr_data + 1 ELSE ctr_data

NextCtrAddr ==
  IF NextBurst THEN (ctr_addr + 1) % BURST_NUM ELSE IF o_done THEN 0 ELSE ctr_addr

Port(en) ==
  /\ p_state' = NextState(en)
  /\ ctr_data' = NextCtrData(en)
  /\ ctr_addr' = NextCtrAddr
  /\ tx_address' = <<writes, ctr_addr>>
  /\ done_pipe' = <<EndOfWrite>> \o SubSeq(done_pipe, 1, DoneLat - 1)

-----------------------------------------------------------------------------
\* The channels and their memories, at an edge. `aw`, `w` and `b` are the channels
\* whose memory takes an address, takes a word, gives a response in this cycle.

\* A memory takes the data of a burst after its address, or before it if it may.
Takes(c) == Len(wdata[c]) < B /\ (EarlyData \/ awaddr[c] # Empty)

wlast(c)     == tx_counter[c] = B - 1
wready(c, w) == c \in w /\ Takes(c)
aw_hs(c, aw) == c \in aw /\ tx_state[c] = "S_WR" /\ awaddr[c] = Empty
w_hs(c, w)   == wready(c, w) /\ fifo[c] # <<>>
b_hs(c, b)   == c \in b /\ tx_state[c] = "S_WRRESP" /\ awaddr[c] # Empty /\ Len(wdata[c]) = B

\* Mutant: the counter of words is not cleared when a burst starts.
NextTxCounterKept(c, en, w) == IF w_hs(c, w) THEN (tx_counter[c] + 1) % (2 * B) ELSE tx_counter[c]

\* The counter has $clog2(256) bits, one more than a burst needs.
NextTxCounter(c, en, w) ==
  IF tx_start(en) THEN 0 ELSE IF w_hs(c, w) THEN (tx_counter[c] + 1) % (2 * B) ELSE tx_counter[c]

\* Mutant: the channel is done when the last word is out, not when it is written.
NextDoneLast(c, en, w, b) == ~tx_start(en) /\ (dma_done_q[c] \/ (w_hs(c, w) /\ wlast(c)))

NextDone(c, en, w, b) == ~tx_start(en) /\ (dma_done_q[c] \/ b_hs(c, b))

Channels(en, aw, w, b) ==
  /\ tx_state' = [c \in Chan |->
       CASE tx_state[c] = "S_IDLE" /\ tx_start(en)                  -> "S_WR"
         [] aw_hs(c, aw)                                            -> "S_WRDATA"
         [] tx_state[c] = "S_WRDATA" /\ wlast(c) /\ wready(c, w)    -> "S_WRRESP"
         [] b_hs(c, b)                                              -> "S_IDLE"
         [] OTHER                                                   -> tx_state[c]]
  /\ tx_counter' = [c \in Chan |-> NextTxCounter(c, en, w)]
  /\ dma_done_q' = [c \in Chan |-> NextDone(c, en, w, b)]

\* wvalid is high in every state of the channel in which its FIFO has a word; a
\* word for a full FIFO is lost, and the flag that says so goes nowhere.
Fifos(en, w) ==
  fifo' = [c \in Chan |-> (IF w_hs(c, w) THEN Tail(fifo[c]) ELSE fifo[c])
                            \o (IF Len(fifo[c]) < DEPTH THEN Handed(en) ELSE <<>>)]

\* The words of a burst go to the addresses from the burst's on.
Memory(aw, w, b) ==
  /\ awaddr' = [c \in Chan |-> CASE aw_hs(c, aw) -> tx_address
                                 [] b_hs(c, b)   -> Empty
                                 [] OTHER        -> awaddr[c]]
  /\ wdata' = [c \in Chan |-> CASE b_hs(c, b) -> <<>>
                                [] w_hs(c, w) -> Append(wdata[c], Head(fifo[c]))
                                [] OTHER      -> wdata[c]]
  /\ mem' = [c \in Chan |->
       IF ~b_hs(c, b) THEN mem[c]
       ELSE [a \in DOMAIN mem[c] |->
               IF a[1] = awaddr[c][1] /\ a[2] \div B = awaddr[c][2]
               THEN wdata[c][(a[2] % B) + 1] ELSE mem[c][a]]]

\* The core asks again only after done.
Core(en) ==
  /\ en => ~waiting /\ writes < MaxWrites
  /\ waiting' = (en \/ (waiting /\ ~o_done))
  /\ writes' = IF waiting /\ o_done THEN writes + 1 ELSE writes
  /\ left' = IF en THEN K - 1 ELSE IF left > 0 THEN left - 1 ELSE 0

-----------------------------------------------------------------------------
Cell == (0 .. MaxWrites - 1) \X (0 .. K - 1)

Init ==
  /\ B \in Lens
  /\ p_state = "ST_IDLE" /\ ctr_data = 0 /\ ctr_addr = 0 /\ tx_address = <<0, 0>>
  /\ done_pipe = [n \in 1 .. DoneLat |-> FALSE]
  /\ tx_state = [c \in Chan |-> "S_IDLE"] /\ tx_counter = [c \in Chan |-> 0]
  /\ dma_done_q = [c \in Chan |-> FALSE] /\ fifo = [c \in Chan |-> <<>>]
  /\ awaddr = [c \in Chan |-> Empty] /\ wdata = [c \in Chan |-> <<>>]
  /\ mem = [c \in Chan |-> [a \in Cell |-> Empty]]
  /\ waiting = FALSE /\ left = 0 /\ writes = 0

Clock(en, aw, w, b) ==
  UNCHANGED B /\ Core(en) /\ Port(en) /\ Channels(en, aw, w, b) /\ Fifos(en, w) /\ Memory(aw, w, b)

Next == \E en \in BOOLEAN, aw, w, b \in SUBSET Chan : Clock(en, aw, w, b)

\* The memory of channel c takes an address or a word, or gives a response.
Answers(c) == \E en \in BOOLEAN, aw, w, b \in SUBSET Chan :
                 (aw_hs(c, aw) \/ w_hs(c, w) \/ b_hs(c, b)) /\ Clock(en, aw, w, b)

\* The clock runs, and every memory answers in the end.
Spec == Init /\ [][Next]_vars /\ WF_vars(Next) /\ \A c \in Chan : WF_vars(Answers(c))

-----------------------------------------------------------------------------
\* AXI: the channel marks the last word of every burst and no other as the last,
\* though it counts the words apart from the burst it has announced, with a
\* counter that the start of a burst clears.
BurstsFramed ==
  \A c \in Chan : Takes(c) /\ fifo[c] # <<>> => (wlast(c) <=> Len(wdata[c]) = B - 1)

\* When the port says done, the polynomial is in the memory, every word at its
\* place, and later requests leave it there: no word came for a full FIFO, which
\* would lose it silently (dma_err_fifo_full is connected to nothing).
WrittenAtDone ==
  \A c \in Chan, a \in Cell :
    (a[1] < writes \/ (o_done /\ a[1] = writes)) => mem[c][a] = Word(a[1], a[2])

\* AXI: a channel holds the address it offers until it is taken.
AddressHeld ==
  [][\A c \in Chan : tx_state[c] = "S_WR" /\ tx_state'[c] = "S_WR" => tx_address' = tx_address]_vars

\* A request is in the port from the edge on that takes it until done has come out of the delay line.
PortBusy == p_state # "ST_IDLE" \/ \E n \in 1 .. DoneLat : done_pipe[n]

Port3 == INSTANCE WritePort WITH busy <- PortBusy, written <- writes

\* The port does what module Relin has it do, and carries every request out.
ImplementsWritePort == Port3!Spec

\* dma_tx.sv:61-66: the channel sends its write data in S_WRDATA ("Write Data -
\* Sending write data ( wvalid)"), after the address request of S_WR.
SentInWrData ==
  [][\A c \in Chan : Len(wdata'[c]) > Len(wdata[c]) => tx_state[c] = "S_WRDATA"]_vars
=============================================================================
