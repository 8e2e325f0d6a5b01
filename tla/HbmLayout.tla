------------------------------ MODULE HbmLayout ------------------------------
(***************************************************************************)
(* Where polynomials lie in HBM. The host (kernel.cpp) writes the inputs   *)
(* into the channels of ports p0, p1 and p2 at offsets it computes, the    *)
(* adapter (relin_hbm_adapter.sv) reads them and writes the results at     *)
(* offsets of its own, and the host reads the results back. Nothing ties   *)
(* the two computations together, and live data takes another way through  *)
(* the host (coalesced) than constant data.                                *)
(*                                                                         *)
(* Addresses count words of 32 bytes (HBM_DATA_WIDTH, PC_DATA_WIDTH). The  *)
(* timing of a port is HbmReadPort's and HbmWritePort's subject; here a    *)
(* burst is one step.                                                      *)
(***************************************************************************)
EXTENDS Integers, Sequences

CONSTANTS
  L,       \* number of primes of the ciphertext modulus
  PC,      \* channels of a port (P0_COUNT, PCO_COUNT)
  B,       \* words of a burst (HBM_BURST_LEN)
  POLY_CC  \* words of a polynomial in one channel

\* The readback test takes two polynomials of ct2. N and HBM_BURST_LEN are powers of two, so that
\* shifts by LOG_POLY_SINGLE_PC_SIZE and LOG_HBM_BURST_SIZE are products, and bursts make polynomials.
ASSUME LAssumption     == L \in Nat /\ L >= 2
ASSUME PcAssumption    == PC \in Nat \ {0}
ASSUME BurstAssumption == POLY_CC \in Nat \ {0} /\ B \in 1 .. POLY_CC /\ POLY_CC % B = 0

\* PSI_N = POLY_N in kernel.cpp, and the default of PSI_CC in the adapter.
PSI_CC == POLY_CC

VARIABLES
  step,    \* what the host does next
  vec,     \* the host's input vectors: how many words of each row have been read from its file
  offset,  \* the host's variable of that name
  bo,      \* the host's side of the buffers: port, channel, word
  hbm,     \* the device's side
  rd,      \* the burst a read port is at, of a request; the words delivered so far
  wr,      \* the same for the write port
  fault,   \* has an access gone outside its buffer?
  poly,    \* what the readback test has read
  ct_rl    \* the results as the host has them in the end

layoutVars == <<step, vec, offset, bo, hbm, rd, wr, fault, poly, ct_rl>>

Comp    == 0 .. 1
Channel == 0 .. PC - 1
Port    == {"p0", "p1", "p2", "p3"}
Flat    == 0 .. PC * POLY_CC - 1   \* the words of a polynomial, in the order of its file
None    == <<"none", 0, 0>>        \* never written
Zero    == <<"zero", 0, 0>>        \* what the host's vectors hold before they are read

\* A polynomial as its file has it: each word says which object, row and word it is.
File(object, row) == [k \in Flat |-> <<object, row, k>>]

\* The inputs and how many polynomials each has; a row of one as the host has it.
Rows == [ct_2 |-> L, psi |-> L + 1, psi_inv |-> L + 1, rlk_0 |-> L * (L + 1), ct_0 |-> L, ct_1 |-> L, rlk_1 |-> L * (L + 1)]
Row(object, r) == [k \in Flat |-> IF k < vec[object][r] THEN File(object, r)[k] ELSE Zero]

\* Mutant: room for one kind of twiddle tables.
SizeOnePsi(p) == CASE p = "p0" -> POLY_CC * L + PSI_CC * (L + 1)
                   [] p = "p1" -> POLY_CC * L * (L + 1) + POLY_CC * L * 2
                   [] p = "p2" -> POLY_CC * L * (L + 1)
                   [] p = "p3" -> POLY_CC * L * 2

\* pc_size of hbm_i, and of hbm_o.
Size(p) == CASE p = "p0" -> POLY_CC * L + PSI_CC * (L + 1) * 2
             [] p = "p1" -> POLY_CC * L * (L + 1) + POLY_CC * L * 2
             [] p = "p2" -> POLY_CC * L * (L + 1)
             [] p = "p3" -> POLY_CC * L * 2

Steps   == {"psi", "psi_inv", "rlk_0", "rlk_1", "ct_2", "ct_0", "ct_1", "readback", "kernel", "results"}
NoBurst == [busy |-> FALSE, p |-> "p0", id |-> "POLY_2", idx |-> 0, idy |-> 0, ctr |-> 0, data |-> <<>>]
NoWrite == [x |-> 0, i |-> 0, ctr |-> 0]

Blank == [p \in Port |-> [c \in Channel |-> [a \in 0 .. Size(p) - 1 |-> None]]]

LayoutTypeOK ==
  /\ fault \in BOOLEAN /\ offset \in 0 .. Size("p1")
  /\ \A o \in DOMAIN vec : vec[o] \in [0 .. Rows[o] - 1 -> 0 .. PC * POLY_CC]
  /\ \A p \in DOMAIN bo : \A c \in Channel :
       DOMAIN hbm[p][c] = 0 .. Size(p) - 1 /\ DOMAIN bo[p][c] = 0 .. Size(p) - 1
  /\ rd.busy \in BOOLEAN /\ rd.ctr \in 0 .. POLY_CC \div B - 1
  /\ wr.x \in Comp /\ wr.i \in 0 .. L /\ wr.ctr \in 0 .. POLY_CC \div B - 1

\* Nothing is allocated; `step` is the whole program's.
LayoutInit ==
  /\ vec = <<>> /\ bo = <<>> /\ hbm = <<>>
  /\ offset = POLY_CC * L
  /\ rd = NoBurst /\ wr = NoWrite /\ fault = FALSE
  /\ poly = <<>> /\ ct_rl = <<>>

-----------------------------------------------------------------------------
(***************************************************************************)
(* The host.                                                               *)
(***************************************************************************)
\* The vectors, filled with zeros.
AllocateVectors == vec' = [o \in DOMAIN Rows |-> [r \in 0 .. Rows[o] - 1 |-> 0]]

\* The buffers.
AllocateBuffers == bo' = Blank /\ hbm' = Blank

\* The word of `in` that channel c gets at place i: chunks of consecutive words
\* go round the channels, unless the polynomial is already split by channel.
Source(coalesced, c, i) == IF coalesced THEN c * POLY_CC + i ELSE PC * i + c

\* writeManyToPC: rows one after the other from `at` on, in every channel.
WriteMany(m, rows, n, at, coalesced) ==
  [c \in Channel |-> [a \in DOMAIN m[c] |->
     IF (a - at) \in 0 .. n * POLY_CC - 1
     THEN rows[(a - at) \div POLY_CC][Source(coalesced, c, (a - at) % POLY_CC)]
     ELSE m[c][a]]]

\* readManyFromPC: the inverse, row r of what lies from `at` on.
ReadRow(m, r, at, coalesced) ==
  [k \in Flat |->
     IF coalesced THEN m[k \div POLY_CC][at + r * POLY_CC + (k % POLY_CC)]
                  ELSE m[k % PC][at + r * POLY_CC + (k \div PC)]]

\* Mutant: the inverse permutation.
PreprocessBack(in) == [k \in Flat |-> in[(k % PC) * POLY_CC + (k \div PC)]]

\* preprocessForCoalesced and postprocessFromCoalesced: split by channel and back.
Preprocess(in)  == [k \in Flat |-> in[PC * (k % POLY_CC) + (k \div POLY_CC)]]
Postprocess(in) == [k \in Flat |-> in[(k % PC) * POLY_CC + (k \div PC)]]

Constant(object) == [r \in 0 .. Rows[object] - 1 |-> Row(object, r)]
Live(object)     == [r \in 0 .. Rows[object] - 1 |-> Preprocess(Row(object, r))]

\* Mutant: the first row only.
SyncRow(to, from, at, n) ==
  [c \in Channel |-> [a \in DOMAIN to[c] |-> IF a - at \in 0 .. POLY_CC - 1 THEN from[c][a] ELSE to[c][a]]]

\* bo.sync in every channel: n words from `at` on, either way.
Sync(to, from, at, n) ==
  [c \in Channel |-> [a \in DOMAIN to[c] |-> IF a - at \in 0 .. n - 1 THEN from[c][a] ELSE to[c][a]]]

\* One call of writeManyToPC, at `from`; the size it returns is not added up for the keys.
HostWrite(object, p, rows, from, coalesced, next) ==
  LET n == Rows[object] IN
  /\ step = object
  /\ bo' = [bo EXCEPT ![p] = WriteMany(@, rows, n, from, coalesced)]
  /\ hbm' = [hbm EXCEPT ![p] = Sync(@, bo'[p], from, n * POLY_CC)]
  /\ fault' = (fault \/ from + n * POLY_CC > Size(p))
  /\ offset' = IF object \in {"rlk_0", "rlk_1"} THEN from ELSE from + n * POLY_CC
  /\ step' = next
  /\ UNCHANGED <<vec, rd, wr, poly, ct_rl>>

\* Mutant: the special prime's row of the key forgotten.
Ct0OffsetShort == L * (POLY_CC * L)

\* Where ct_0 goes: behind the key.
Ct0Offset == (L + 1) * (POLY_CC * L)

LayInputs ==
  \/ HostWrite("psi", "p0", Constant("psi"), offset, FALSE, "psi_inv")
  \/ HostWrite("psi_inv", "p0", Constant("psi_inv"), offset, FALSE, "rlk_0")
  \/ HostWrite("rlk_0", "p1", Constant("rlk_0"), 0, FALSE, "rlk_1")
  \/ HostWrite("rlk_1", "p2", Constant("rlk_1"), 0, FALSE, "ct_2")
  \/ HostWrite("ct_2", "p0", Live("ct_2"), 0, TRUE, "ct_0")
  \/ HostWrite("ct_0", "p1", Live("ct_0"), Ct0Offset, TRUE, "ct_1")
  \/ HostWrite("ct_1", "p1", Live("ct_1"), offset, TRUE, "readback")

\* READBACKTEST: the first two polynomials of port p0, read chunk by chunk.
ReadBack ==
  /\ step = "readback"
  /\ bo' = [bo EXCEPT !["p0"] = Sync(@, hbm["p0"], 0, 2 * POLY_CC)]
  /\ poly' = [r \in 0 .. 1 |-> ReadRow(bo'["p0"], r, 0, FALSE)]
  /\ step' = "write_poly"
  /\ UNCHANGED <<vec, offset, hbm, rd, wr, fault, ct_rl>>

\* The results, read coalesced after the kernel is done, and postprocessed.
ReadResults ==
  LET at(x) == IF x = 0 THEN 0 ELSE L * POLY_CC
      rows  == L * POLY_CC
  IN /\ step = "results"
     /\ bo' = [bo EXCEPT !["p3"] = Sync(Sync(@, hbm["p3"], at(0), rows), hbm["p3"], at(1), rows)]
     /\ ct_rl' = [x \in Comp |-> [r \in 0 .. L - 1 |-> Postprocess(ReadRow(bo'["p3"], r, at(x), TRUE))]]
     /\ offset' = at(1)
     /\ step' = "write_ct_rl"
     /\ UNCHANGED <<vec, hbm, rd, wr, fault, poly>>

-----------------------------------------------------------------------------
(***************************************************************************)
(* The adapter: address of the first word of a burst.                      *)
(***************************************************************************)
PSI_ADDR_OFFSET     == POLY_CC * L
PSI_INV_ADDR_OFFSET == PSI_ADDR_OFFSET + PSI_CC * (L + 1)
POLY_0_ADDR_OFFSET  == POLY_CC * L * (L + 1)
POLY_1_ADDR_OFFSET  == POLY_0_ADDR_OFFSET + POLY_CC * L

base_id(p, id) ==
  CASE p = "p0" /\ id = "PSI"     -> PSI_ADDR_OFFSET
    [] p = "p0" /\ id = "PSI_INV" -> PSI_INV_ADDR_OFFSET
    [] p = "p1" /\ id = "POLY_0"  -> POLY_0_ADDR_OFFSET
    [] p = "p1" /\ id = "POLY_1"  -> POLY_1_ADDR_OFFSET
    [] OTHER                      -> 0

IsRlk(p, id) == p = "p2" \/ (p = "p1" /\ id = "RLK_0")

base_idx(p, id, idx) == IF IsRlk(p, id) THEN idx * POLY_CC * L ELSE idx * POLY_CC
base_idy(p, id, idy) == IF IsRlk(p, id) THEN idy * POLY_CC ELSE 0

rx_address(r) == base_id(r.p, r.id) + base_idx(r.p, r.id, r.idx) + base_idy(r.p, r.id, r.idy) + r.ctr * B

\* POLY_1_ADDR_OFFSET_W is the difference of two offsets of p1.
tx_address(w) == w.x * (POLY_1_ADDR_OFFSET - POLY_0_ADDR_OFFSET) + w.i * POLY_CC + w.ctr * B

\* The requests of relin_cu_p0_ntt and relin_cu_p1_p2.
Requests ==
       {[p |-> "p0", id |-> "POLY_2", idx |-> i, idy |-> 0] : i \in 0 .. L - 1}
  \cup {[p |-> "p0", id |-> d, idx |-> q, idy |-> 0] : d \in {"PSI", "PSI_INV"}, q \in 0 .. L}
  \cup {[p |-> d[1], id |-> d[2], idx |-> q, idy |-> j] :
          d \in {<<"p1", "RLK_0">>, <<"p2", "RLK_1">>}, q \in 0 .. L, j \in 0 .. L - 1}
  \cup {[p |-> "p1", id |-> d, idx |-> i, idy |-> 0] : d \in {"POLY_0", "POLY_1"}, i \in 0 .. L - 1}

Bursts(r) == (IF r.id \in {"PSI", "PSI_INV"} THEN PSI_CC ELSE POLY_CC) \div B

\* What a burst from word a on delivers: B beats, one word of each channel in a beat.
Beats(p, a) == [k \in 1 .. B |-> [c \in Channel |->
                  IF a + k - 1 \in DOMAIN hbm[p][c] THEN hbm[p][c][a + k - 1] ELSE None]]

Burst(r) ==
  LET a == rx_address(r) IN
  /\ rd' = [busy |-> r.ctr + 1 # Bursts(r), p |-> r.p, id |-> r.id, idx |-> r.idx, idy |-> r.idy,
            ctr  |-> IF r.ctr + 1 = Bursts(r) THEN 0 ELSE r.ctr + 1,
            data |-> r.data \o Beats(r.p, a)]
  /\ fault' = (fault \/ a + B > Size(r.p))
  /\ UNCHANGED <<step, vec, offset, bo, hbm, wr, poly, ct_rl>>

\* A request of the core starts with burst 0; the port takes the next one when it is done.
ReadFirst ==
  /\ step = "kernel" /\ ~rd.busy
  /\ \E q \in Requests :
       Burst([busy |-> TRUE, p |-> q.p, id |-> q.id, idx |-> q.idx, idy |-> q.idy, ctr |-> 0, data |-> <<>>])

ReadNext == step = "kernel" /\ rd.busy /\ Burst(rd)

\* Mutant: the burst counter is not reset.
NextWriteKept ==
  IF wr.ctr + 1 # POLY_CC \div B THEN [wr EXCEPT !.ctr = @ + 1]
  ELSE [x |-> 1 - wr.x, i |-> wr.i + wr.x, ctr |-> wr.ctr + 1]

\* relin_cu_out: components 0 and 1 of a prime's result, prime by prime. The beat holds one
\* word for each channel; the run is over after the last burst.
NextWrite ==
  IF wr.ctr + 1 # POLY_CC \div B THEN [wr EXCEPT !.ctr = @ + 1]
  ELSE [x |-> 1 - wr.x, i |-> wr.i + wr.x, ctr |-> 0]

WriteBurst ==
  LET a == tx_address(wr)
      beat(k, c) == <<"out", <<wr.x, wr.i>>, PC * k + c>>
  IN /\ step = "kernel" /\ wr.i < L
     /\ hbm' = [hbm EXCEPT !["p3"] = [c \in Channel |-> [b \in DOMAIN @[c] |->
                  IF b - a \in 0 .. B - 1 THEN beat(wr.ctr * B + b - a, c) ELSE @[c][b]]]]
     /\ fault' = (fault \/ a + B > Size("p3"))
     /\ wr' = NextWrite
     /\ UNCHANGED <<step, vec, offset, bo, rd, poly, ct_rl>>

\* run.wait returns. A run the device gives up is over for the host like any other: the
\* state that wait returns is looked at by nobody.
RunOver(done) ==
  /\ step = "kernel"
  /\ IF done THEN wr.i = L /\ ~rd.busy /\ UNCHANGED rd ELSE rd' = NoBurst
  /\ step' = "results"
  /\ UNCHANGED <<vec, offset, bo, hbm, wr, fault, poly, ct_rl>>

AdapterStep == ReadFirst \/ ReadNext \/ WriteBurst

-----------------------------------------------------------------------------
\* The object and the row of its file a request names: key polynomials are filed
\* prime by prime, one for each residue of ct2.
Asked(r) ==
  CASE r.id = "POLY_2"  -> <<"ct_2", r.idx>>
    [] r.id = "PSI"     -> <<"psi", r.idx>>
    [] r.id = "PSI_INV" -> <<"psi_inv", r.idx>>
    [] r.id = "RLK_0"   -> <<"rlk_0", r.idx * L + r.idy>>
    [] r.id = "RLK_1"   -> <<"rlk_1", r.idx * L + r.idy>>
    [] r.id = "POLY_0"  -> <<"ct_0", r.idx>>
    [] r.id = "POLY_1"  -> <<"ct_1", r.idx>>

\* A beat of a read port carries consecutive words of the polynomial the core has asked for, in the
\* order of the host's vector: the host's offsets, its split over the channels, what it syncs to the
\* device and the adapter's addresses fit.
ReadsRight ==
  \A k \in DOMAIN rd.data : \A c \in Channel :
    rd.data[k][c] = Row(Asked(rd)[1], Asked(rd)[2])[PC * (k - 1) + c]

\* No access of the host or of the adapter goes outside the buffer the host has allocated.
InBuffers == ~fault

\* No write of the host or of the write port lands on a word written before: two objects never overlap.
NothingOverwritten ==
  [][\A p \in DOMAIN hbm : \A c \in Channel : \A a \in DOMAIN hbm[p][c] :
       hbm[p][c][a] # None => hbm'[p][c][a] = hbm[p][c][a]]_layoutVars
=============================================================================
