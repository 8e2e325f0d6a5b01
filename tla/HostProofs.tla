----------------------------- MODULE HostProofs -----------------------------
(***************************************************************************)
(* Theorems about HostProgram for every number of primes and channels and  *)
(* every size of a polynomial and of a burst: the offsets the host and the *)
(* adapter compute apart from each other fit, objects never overlap, and   *)
(* the ways through the host and back are inverses of each other. Then     *)
(* about CmdLineParser in it, for every command line and every program's   *)
(* switches, and the types of both.                                        *)
(***************************************************************************)
EXTENDS HostProgram, FiniteSetTheorems, WellFoundedInduction, SequenceTheorems, TLAPS

-----------------------------------------------------------------------------
(***************************************************************************)
(* Bursts.                                                                 *)
(***************************************************************************)
\* If the burst length divides the length of a polynomial, bursts make a polynomial.
LEMMA BurstsMakeAll ==
  ASSUME NEW k \in Nat \ {0}, NEW b \in 1 .. k, k % b = 0
  PROVE  k \div b \in Nat \ {0} /\ (k \div b) * b = k
<1>1. k = b * (k \div b) + (k % b) /\ k \div b \in Nat
  OBVIOUS
<1>2. (k \div b) * b = k
  BY <1>1
<1>3. k \div b # 0
  BY <1>1
<1> QED
  BY <1>1, <1>2, <1>3

\* Where burst a of n begins and ends.
LEMMA BurstEnds ==
  ASSUME NEW n \in Nat, NEW b \in Nat \ {0}, NEW a \in 0 .. n - 1
  PROVE  /\ a * b \in Nat /\ (a + 1) * b = a * b + b /\ (a + 1) * b =< n * b
         /\ (a + 1) * b = n * b <=> a = n - 1
<1>1. a * b \in Nat /\ (a + 1) * b = a * b + b /\ n * b \in Nat
  OBVIOUS
<1>2. (n - (a + 1)) * b = n * b - (a + 1) * b
  OBVIOUS
<1>3. n - (a + 1) \in Nat
  OBVIOUS
<1>4. (n - (a + 1)) * b \in Nat /\ ((n - (a + 1)) * b = 0 <=> n - (a + 1) = 0)
  BY <1>3
<1> QED
  BY <1>1, <1>2, <1>4

\* The words of burst a are those whose number divided by the length is a.
LEMMA BurstOf ==
  ASSUME NEW b \in Nat \ {0}, NEW a \in Nat, NEW n \in Nat
  PROVE  /\ n % b \in 0 .. b - 1 /\ n = (n \div b) * b + (n % b) /\ n \div b \in Nat
         /\ n \div b = a <=> a * b =< n /\ n < a * b + b
<1>1. n % b \in 0 .. b - 1 /\ n = b * (n \div b) + (n % b) /\ n \div b \in Nat
  OBVIOUS
<1>2. n = (n \div b) * b + (n % b)
  BY <1>1
<1>3. n \div b = a => a * b =< n /\ n < a * b + b
  BY <1>1, <1>2
<1>4. n \div b < a => n < a * b
  <2> SUFFICES ASSUME n \div b < a PROVE n < a * b
    OBVIOUS
  <2> DEFINE d == a - (n \div b) - 1
  <2>1. d \in Nat /\ a = (n \div b) + 1 + d
    BY <1>1
  <2> HIDE DEF d
  <2>2. a * b = (n \div b) * b + b + d * b /\ d * b \in Nat
    BY <1>1, <2>1
  <2> QED
    BY <1>1, <1>2, <2>2
<1>5. n \div b > a => n >= a * b + b
  <2> SUFFICES ASSUME n \div b > a PROVE n >= a * b + b
    OBVIOUS
  <2> DEFINE d == (n \div b) - a - 1
  <2>1. d \in Nat /\ n \div b = a + 1 + d
    BY <1>1
  <2> HIDE DEF d
  <2>2. (n \div b) * b = a * b + b + d * b /\ d * b \in Nat
    BY <1>1, <2>1
  <2> QED
    BY <1>1, <1>2, <2>2
<1>6. a * b \in Nat
  OBVIOUS
<1> QED
  BY <1>1, <1>2, <1>3, <1>4, <1>5, <1>6

-----------------------------------------------------------------------------
(***************************************************************************)
(* The inductive invariant. First the map of the memories: which port an   *)
(* object belongs to, from where on it lies, and what lies there.          *)
(***************************************************************************)
Object == DOMAIN Rows
Inputs == {"p0", "p1", "p2"}

\* Words of a ciphertext component and of a key in a channel.
CtWords  == POLY_CC * L
KeyWords == POLY_CC * L * (L + 1)

PortOf == [ct_2 |-> "p0", psi |-> "p0", psi_inv |-> "p0", rlk_0 |-> "p1", ct_0 |-> "p1", ct_1 |-> "p1", rlk_1 |-> "p2"]
From   == [ct_2 |-> 0, psi |-> CtWords, psi_inv |-> CtWords + (CtWords + POLY_CC), rlk_0 |-> 0,
           ct_0 |-> KeyWords, ct_1 |-> KeyWords + CtWords, rlk_1 |-> 0]
Extent == [ct_2 |-> CtWords, psi |-> CtWords + POLY_CC, psi_inv |-> CtWords + POLY_CC, rlk_0 |-> KeyWords,
           ct_0 |-> CtWords, ct_1 |-> CtWords, rlk_1 |-> KeyWords]

Lies(o, a) == a - From[o] \in 0 .. Extent[o] - 1

\* Word n of the object, counted from its first, in channel c.
Laid(o, c, n) == Row(o, n \div POLY_CC)[PC * (n % POLY_CC) + c]

\* Before the buffers are allocated; the objects that are laid when the host is at a step.
Early   == {"settings", "device", "xclbin", "cu", "read", "bo"}
LaidAt  == [psi |-> {}, psi_inv |-> {"psi"}, rlk_0 |-> {"psi", "psi_inv"}, rlk_1 |-> {"psi", "psi_inv", "rlk_0"},
            ct_2 |-> {"psi", "psi_inv", "rlk_0", "rlk_1"}, ct_0 |-> {"psi", "psi_inv", "rlk_0", "rlk_1", "ct_2"},
            ct_1 |-> {"psi", "psi_inv", "rlk_0", "rlk_1", "ct_2", "ct_0"}]
Done    == IF step \in DOMAIN LaidAt THEN LaidAt[step] ELSE Object

Word0 == 0 .. POLY_CC - 1
Range0(p) == 0 .. Size(p) - 1

Shape(m) == m = [p \in Port |-> [c \in Channel |-> [a \in Range0(p) |-> m[p][c][a]]]]

Buffers ==
  /\ step \in Early => hbm = <<>>
  /\ step \notin Early =>
       /\ Shape(bo) /\ Shape(hbm)
       /\ \A o \in Done : \A c \in Channel : \A n \in 0 .. Extent[o] - 1 :
            hbm[PortOf[o]][c][From[o] + n] = Laid(o, c, n)
       /\ \A p \in Inputs : \A c \in Channel : \A a \in Range0(p) :
            (\A o \in Done : PortOf[o] = p => ~Lies(o, a)) => hbm[p][c][a] = None

\* The host's variable `offset` where it is used.
Offsets ==
  /\ step \in Early \cup {"psi"} => offset = From["psi"]
  /\ step = "psi_inv" => offset = From["psi_inv"]
  /\ step = "ct_1" => offset = From["ct_1"]

-----------------------------------------------------------------------------
(***************************************************************************)
(* The adapter: bursts of a polynomial, words that have come and gone.     *)
(***************************************************************************)
NB == POLY_CC \div B

\* One word of each channel.
Beat == [Channel -> {Zero} \cup (Object \X Nat \X Nat)]

\* The burst a port is at, and the polynomial it delivers, as far as it has.
Reading ==
  /\ step \in Early \cup Object \cup {"readback", "write_poly"} => rd = NoBurst
  /\ rd # NoBurst =>
       /\ [p |-> rd.p, id |-> rd.id, idx |-> rd.idx, idy |-> rd.idy] \in Requests
       /\ rd.busy \in BOOLEAN /\ rd.ctr \in 0 .. NB - 1
       /\ rd.data \in Seq(Beat)
       /\ Len(rd.data) = IF rd.busy THEN rd.ctr * B ELSE POLY_CC
       /\ \A k \in 1 .. Len(rd.data) : \A c \in Channel :
            rd.data[k][c] = Row(Asked(rd)[1], Asked(rd)[2])[PC * (k - 1) + c]
       /\ rd.busy => rd = [busy |-> TRUE, p |-> rd.p, id |-> rd.id, idx |-> rd.idx, idy |-> rd.idy,
                           ctr |-> rd.ctr, data |-> rd.data]

\* Has word j of component x of prime i's result been written?
Written(x, q, j) ==
  \/ q < wr.i
  \/ q = wr.i /\ x < wr.x
  \/ q = wr.i /\ x = wr.x /\ j < wr.ctr * B

At3(x, q, j) == x * CtWords + q * POLY_CC + j
Prime == 0 .. L - 1

Writing ==
  /\ wr = [x |-> wr.x, i |-> wr.i, ctr |-> wr.ctr] /\ wr.x \in Comp /\ wr.i \in 0 .. L /\ wr.ctr \in 0 .. NB - 1
  /\ wr.i = L => wr.x = 0 /\ wr.ctr = 0
  /\ step \in Early => wr = NoWrite
  /\ step \notin Early =>
       \A c \in Channel : \A x \in Comp : \A q \in Prime : \A j \in Word0 :
         hbm["p3"][c][At3(x, q, j)] = IF Written(x, q, j) THEN <<"out", <<x, q>>, PC * j + c>> ELSE None

-----------------------------------------------------------------------------
(***************************************************************************)
(* What the host has read, of its files and of the device.                 *)
(***************************************************************************)
Over == {"results", "write_ct_rl", "end"}

ReadIn ==
  /\ step \in Early => nread \in 0 .. 7
  /\ step \in Early \ {"read", "bo"} => nread = 0
  /\ step = "read" => nread < 7
  /\ step = "bo" => nread = 7
  /\ step \in {"read", "bo"} =>
       /\ DOMAIN vec = Object /\ \A o \in Object : DOMAIN vec[o] = 0 .. Rows[o] - 1
       /\ \A j \in 1 .. nread : \A r \in 0 .. Rows[InputOrder[j]] - 1 :
            vec[InputOrder[j]][r] = ReadWords(InputOrder[j], r)

Name(x) == IF x = 0 THEN "ct0_rl" ELSE "ct1_rl"
IsReadback(f) == f = <<"readback", 0>> \/ f = <<"readback", 1>>
IsResult(f)   == \E x \in Comp, r \in Prime : f = <<Name(x), r>>

Files ==
  /\ step = "write_poly" => \A r \in 0 .. 1 : poly[r] = Row("ct_2", r)
  /\ step \in Over /\ ~aborted => wr.i = L
  /\ step \notin Over => ~aborted
  /\ step = "write_ct_rl" /\ ~aborted => \A x \in Comp : \A r \in Prime : ct_rl[x][r] = File("out", <<x, r>>)
  /\ step \in Early \cup Object \cup {"readback"} => files = <<>>
  /\ \A f \in DOMAIN files :
       \/ IsReadback(f) /\ files[f] = Lines(Row("ct_2", f[2]))
       \/ /\ step \in Over /\ IsResult(f)
          /\ ~aborted => files[f] = Lines(Expected(f))
  /\ status = EXIT_SUCCESS => step = "end" /\ \A k \in 1 .. 2 * L : ResultFiles[k] \in DOMAIN files

Kinds == step \in Early \cup Object \cup {"readback", "write_poly", "kernel"} \cup Over /\ fault = FALSE

IInv == Kinds /\ Buffers /\ Offsets /\ Reading /\ Writing /\ ReadIn /\ Files

-----------------------------------------------------------------------------
(***************************************************************************)
(* Arithmetic of the constants.                                            *)
(***************************************************************************)
LEMMA Constants ==
  /\ POLY_CC \in Nat \ {0} /\ B \in Nat \ {0} /\ PC \in Nat \ {0} /\ L \in Nat /\ L >= 2
  /\ NB \in Nat \ {0} /\ NB * B = POLY_CC
  /\ CtWords \in Nat /\ KeyWords \in Nat /\ CtWords >= 2 * POLY_CC
<1>1. POLY_CC \in Nat \ {0} /\ B \in 1 .. POLY_CC /\ POLY_CC % B = 0 /\ PC \in Nat \ {0} /\ L \in Nat /\ L >= 2
  BY BurstAssumption, PcAssumption, LAssumption
<1>2. NB \in Nat \ {0} /\ NB * B = POLY_CC
  BY <1>1, BurstsMakeAll DEF NB
<1>3. CtWords \in Nat /\ KeyWords \in Nat
  <2>1. POLY_CC * L \in Nat /\ L + 1 \in Nat
    BY <1>1
  <2>2. (POLY_CC * L) * (L + 1) \in Nat
    BY <2>1
  <2> QED
    BY <2>1, <2>2 DEF CtWords, KeyWords
<1>4. CtWords >= 2 * POLY_CC
  <2> DEFINE d == L - 2
  <2>1. d \in Nat /\ L = d + 2
    BY <1>1
  <2> HIDE DEF d
  <2>2. POLY_CC * L = POLY_CC * d + 2 * POLY_CC /\ POLY_CC * d \in Nat
    BY <1>1, <2>1
  <2> QED
    BY <1>1, <2>2 DEF CtWords
<1> QED
  BY <1>1, <1>2, <1>3, <1>4

\* The products in the code are sums of a component, a key and a polynomial.
LEMMA Products ==
  /\ L * POLY_CC = CtWords /\ (L + 1) * POLY_CC = CtWords + POLY_CC /\ POLY_CC * (L + 1) = CtWords + POLY_CC
  /\ (L * (L + 1)) * POLY_CC = KeyWords /\ (L + 1) * (POLY_CC * L) = KeyWords
  /\ POLY_CC * L * 2 = CtWords + CtWords /\ PSI_CC * (L + 1) * 2 = (CtWords + POLY_CC) + (CtWords + POLY_CC)
<1>1. POLY_CC \in Nat /\ L \in Nat
  BY Constants
<1>2. L * POLY_CC = POLY_CC * L /\ (L + 1) * POLY_CC = POLY_CC * L + POLY_CC /\ POLY_CC * (L + 1) = POLY_CC * L + POLY_CC
  BY <1>1
<1>3. (L * (L + 1)) * POLY_CC = POLY_CC * L * (L + 1) /\ (L + 1) * (POLY_CC * L) = POLY_CC * L * (L + 1)
  BY <1>1
<1>4. POLY_CC * L * 2 = POLY_CC * L + POLY_CC * L
  BY <1>1
<1>5. POLY_CC * (L + 1) * 2 = (POLY_CC * L + POLY_CC) + (POLY_CC * L + POLY_CC)
  BY <1>1
<1> QED
  BY <1>2, <1>3, <1>4, <1>5 DEF CtWords, KeyWords, PSI_CC

\* How many words the buffers have, from their objects.
LEMMA Sizes ==
  /\ Size("p0") = CtWords + (CtWords + POLY_CC) + (CtWords + POLY_CC)
  /\ Size("p1") = KeyWords + CtWords + CtWords
  /\ Size("p2") = KeyWords
  /\ Size("p3") = CtWords + CtWords
  /\ \A p \in Port : Size(p) \in Nat
<1>0. CtWords \in Nat /\ KeyWords \in Nat /\ POLY_CC \in Nat
  BY Constants
<1>1. Size("p0") = CtWords + (CtWords + POLY_CC) + (CtWords + POLY_CC)
  <2>1. Size("p0") = CtWords + PSI_CC * (L + 1) * 2
    BY DEF Size, CtWords
  <2> QED
    BY <2>1, <1>0, Products
<1>2. Size("p1") = KeyWords + CtWords + CtWords
  <2>1. Size("p1") = KeyWords + POLY_CC * L * 2
    BY DEF Size, KeyWords
  <2> QED
    BY <2>1, <1>0, Products
<1>3. Size("p2") = KeyWords
  BY DEF Size, KeyWords
<1>4. Size("p3") = CtWords + CtWords
  <2>1. Size("p3") = POLY_CC * L * 2
    BY DEF Size
  <2> QED
    BY <2>1, Products
<1> QED
  BY <1>0, <1>1, <1>2, <1>3, <1>4 DEF Port

\* An object has its place in the buffer of its port.
LEMMA Places ==
  ASSUME NEW o \in Object
  PROVE  /\ Rows[o] \in Nat \ {0} /\ Extent[o] = Rows[o] * POLY_CC /\ Extent[o] \in Nat
         /\ PortOf[o] \in Inputs /\ PortOf[o] \in Port
         /\ From[o] \in Nat /\ From[o] + Extent[o] =< Size(PortOf[o])
<1>0. CtWords \in Nat /\ KeyWords \in Nat /\ POLY_CC \in Nat /\ L \in Nat /\ L >= 2
  BY Constants
<1>1. o \in {"ct_2", "psi", "psi_inv", "rlk_0", "ct_0", "ct_1", "rlk_1"}
  BY DEF Object, Rows
<1>2. Rows[o] \in Nat \ {0} /\ Extent[o] = Rows[o] * POLY_CC
  <2>1. L * (L + 1) \in Nat \ {0}
    BY <1>0
  <2>2. Rows[o] \in {L, L + 1, L * (L + 1)}
    BY <1>1 DEF Rows
  <2>3. Rows[o] \in Nat \ {0}
    BY <2>1, <2>2, <1>0
  <2>4. Rows[o] = L => Extent[o] = CtWords \/ L = L * (L + 1)
    BY <1>0, <1>1, <2>1 DEF Rows, Extent
  <2>5. Extent[o] = CASE o \in {"ct_2", "ct_0", "ct_1"} -> CtWords
                      [] o \in {"psi", "psi_inv"} -> CtWords + POLY_CC
                      [] o \in {"rlk_0", "rlk_1"} -> KeyWords
    BY <1>1 DEF Extent
  <2>6. Rows[o] = CASE o \in {"ct_2", "ct_0", "ct_1"} -> L
                    [] o \in {"psi", "psi_inv"} -> L + 1
                    [] o \in {"rlk_0", "rlk_1"} -> L * (L + 1)
    BY <1>1 DEF Rows
  <2>7. CASE o \in {"ct_2", "ct_0", "ct_1"}
    BY <2>3, <2>5, <2>6, <2>7, Products
  <2>8. CASE o \in {"psi", "psi_inv"}
    BY <2>3, <2>5, <2>6, <2>8, Products
  <2>9. CASE o \in {"rlk_0", "rlk_1"}
    BY <2>3, <2>5, <2>6, <2>9, Products
  <2> QED
    BY <1>1, <2>7, <2>8, <2>9
<1>3. PortOf[o] \in Inputs /\ PortOf[o] \in Port
  BY <1>1 DEF PortOf, Inputs, Port
<1>4. Extent[o] \in Nat /\ From[o] \in Nat
  BY <1>0, <1>1 DEF Extent, From
<1>5. From[o] + Extent[o] =< Size(PortOf[o])
  <2>1. PortOf[o] = CASE o \in {"ct_2", "psi", "psi_inv"} -> "p0" [] o \in {"rlk_0", "ct_0", "ct_1"} -> "p1" [] o = "rlk_1" -> "p2"
    BY <1>1 DEF PortOf
  <2>2. CASE o \in {"ct_2", "psi", "psi_inv"}
    <3>1. From[o] + Extent[o] =< CtWords + (CtWords + POLY_CC) + (CtWords + POLY_CC)
      BY <1>0, <2>2 DEF From, Extent
    <3> QED
      BY <3>1, <2>1, <2>2, Sizes
  <2>3. CASE o \in {"rlk_0", "ct_0", "ct_1"}
    <3>1. From[o] + Extent[o] =< KeyWords + CtWords + CtWords
      BY <1>0, <2>3 DEF From, Extent
    <3> QED
      BY <3>1, <2>1, <2>3, Sizes
  <2>4. CASE o = "rlk_1"
    <3>1. From[o] + Extent[o] =< KeyWords
      BY <1>0, <2>4 DEF From, Extent
    <3> QED
      BY <3>1, <2>1, <2>4, Sizes
  <2> QED
    BY <1>1, <2>2, <2>3, <2>4
<1> QED
  BY <1>2, <1>3, <1>4, <1>5

\* No two objects share a place.
LEMMA Apart ==
  ASSUME NEW o \in Object, NEW u \in Object, o # u, PortOf[o] = PortOf[u], NEW a \in Int, Lies(o, a)
  PROVE  ~Lies(u, a)
<1>0. CtWords \in Nat /\ KeyWords \in Nat /\ POLY_CC \in Nat
  BY Constants
<1>1. \/ o \in {"ct_2", "psi", "psi_inv"} /\ u \in {"ct_2", "psi", "psi_inv"}
      \/ o \in {"rlk_0", "ct_0", "ct_1"} /\ u \in {"rlk_0", "ct_0", "ct_1"}
      \/ o = "rlk_1" /\ u = "rlk_1"
  BY DEF Object, Rows, PortOf
<1>2. CASE o \in {"ct_2", "psi", "psi_inv"} /\ u \in {"ct_2", "psi", "psi_inv"}
  BY <1>0, <1>2 DEF Lies, From, Extent
<1>3. CASE o \in {"rlk_0", "ct_0", "ct_1"} /\ u \in {"rlk_0", "ct_0", "ct_1"}
  BY <1>0, <1>3 DEF Lies, From, Extent
<1> QED
  BY <1>1, <1>2, <1>3

\* A number is put together from, and taken apart into, quotient and remainder.
LEMMA Split ==
  ASSUME NEW b \in Nat \ {0}, NEW a \in Nat, NEW r \in 0 .. b - 1
  PROVE  (a * b + r) \div b = a /\ (a * b + r) % b = r /\ (b * a + r) \div b = a /\ (b * a + r) % b = r
<1>1. a * b \in Nat /\ b * a = a * b
  OBVIOUS
<1> DEFINE n == a * b + r
<1>2. n \in Nat /\ a * b =< n /\ n < a * b + b
  BY <1>1
<1>3. n \div b = a
  <2> HIDE DEF n
  <2> QED
    BY <1>2, BurstOf
<1>4. n % b = r
  <2>1. n = (n \div b) * b + (n % b) /\ n % b \in 0 .. b - 1
    <3> HIDE DEF n
    <3> QED
      BY <1>2, BurstOf
  <2> QED
    BY <2>1, <1>1, <1>3
<1> QED
  BY <1>1, <1>3, <1>4

\* A word is in one of the rows of an object.
LEMMA RowOf ==
  ASSUME NEW b \in Nat \ {0}, NEW r \in Nat, NEW n \in 0 .. r * b - 1
  PROVE  n \div b \in 0 .. r - 1 /\ n % b \in 0 .. b - 1
<1>1. r * b \in Nat
  OBVIOUS
<1>2. n \in Nat /\ n < r * b
  BY <1>1
<1>3. n % b \in 0 .. b - 1 /\ n = (n \div b) * b + (n % b) /\ n \div b \in Nat
  BY <1>2, BurstOf
<1>4. n \div b < r
  <2> SUFFICES ASSUME n \div b >= r PROVE FALSE
    BY <1>3
  <2> DEFINE d == (n \div b) - r
  <2>1. d \in Nat /\ n \div b = r + d
    BY <1>3
  <2> HIDE DEF d
  <2>2. (n \div b) * b = r * b + d * b /\ d * b \in Nat
    BY <2>1
  <2> QED
    BY <2>2, <1>1, <1>2, <1>3
<1> QED
  BY <1>3, <1>4

\* The two ways to number the words of a polynomial: by channel, and by place in the channel.
LEMMA InFlat ==
  ASSUME NEW c \in Channel, NEW n \in Word0
  PROVE  c * POLY_CC + n \in Flat /\ PC * n + c \in Flat
<1>0. POLY_CC \in Nat \ {0} /\ PC \in Nat \ {0}
  BY Constants
<1>1. c \in Nat /\ c + 1 =< PC /\ n \in Nat /\ n + 1 =< POLY_CC /\ c \in 0 .. PC - 1 /\ n \in 0 .. POLY_CC - 1
  BY <1>0 DEF Channel, Word0
<1>2. c * POLY_CC \in Nat /\ c * POLY_CC + POLY_CC =< PC * POLY_CC
  BY <1>0, <1>1, BurstEnds
<1>3. n * PC \in Nat /\ n * PC + PC =< POLY_CC * PC
  BY <1>0, <1>1, BurstEnds
<1>4. POLY_CC * PC = PC * POLY_CC /\ n * PC = PC * n /\ PC * POLY_CC \in Nat
  BY <1>0, <1>1
<1> QED
  BY <1>0, <1>1, <1>2, <1>3, <1>4 DEF Flat

\* The two splits of the place of a word in a flat vector, by channel and by position.
LEMMA OfFlat ==
  ASSUME NEW k \in Flat
  PROVE  /\ k \div POLY_CC \in Channel /\ k % POLY_CC \in Word0
         /\ k \div PC \in Word0 /\ k % PC \in Channel
         /\ PC * (k \div PC) + (k % PC) = k
<1>0. POLY_CC \in Nat \ {0} /\ PC \in Nat \ {0}
  BY Constants
<1>1. k \in 0 .. PC * POLY_CC - 1
  BY DEF Flat
<1>2. k \div POLY_CC \in 0 .. PC - 1 /\ k % POLY_CC \in 0 .. POLY_CC - 1
  BY <1>0, <1>1, RowOf
<1>3. PC * POLY_CC = POLY_CC * PC /\ PC * POLY_CC \in Nat
  BY <1>0
<1>4. k \div PC \in 0 .. POLY_CC - 1 /\ k % PC \in 0 .. PC - 1
  <2>1. k \in 0 .. POLY_CC * PC - 1
    BY <1>1, <1>3
  <2> QED
    BY <1>0, <2>1, RowOf
<1>5. k = (k \div PC) * PC + (k % PC)
  <2>1. k \in Nat
    BY <1>1, <1>3
  <2> QED
    BY <1>0, <2>1, BurstOf
<1>6. PC * (k \div PC) = (k \div PC) * PC
  BY <1>0, <1>4
<1> QED
  BY <1>2, <1>4, <1>5, <1>6 DEF Channel, Word0

-----------------------------------------------------------------------------
(***************************************************************************)
(* The initial states, and the steps before there are buffers.             *)
(***************************************************************************)
LEMMA InitIInv == Init => IInv
<1> SUFFICES ASSUME Init PROVE IInv
  OBVIOUS
<1>1. /\ step = "settings" /\ hbm = <<>> /\ offset = CtWords /\ rd = NoBurst /\ wr = NoWrite /\ fault = FALSE
      /\ nread = 0 /\ files = <<>> /\ aborted = FALSE /\ status = "runs"
  BY DEF Init, LayoutInit, CtWords
<1>2. Kinds /\ Buffers /\ Offsets /\ Reading
  BY <1>1 DEF Kinds, Early, Buffers, Offsets, From, Object, Rows, Reading
<1>3. Writing
  BY <1>1, Constants DEF Writing, NoWrite, Comp, Early
<1>4. ReadIn
  BY <1>1 DEF ReadIn, Early
<1>5. Files
  BY <1>1 DEF Files, Early, Object, Rows, Over, EXIT_SUCCESS
<1> QED
  BY <1>2, <1>3, <1>4, <1>5 DEF IInv

\* A step before the memory is laid out keeps the invariant if it leaves memory and outcome alone and reads right.
LEMMA EarlyStep ==
  ASSUME IInv, step \in Early, step' \in Early, UNCHANGED <<offset, hbm, rd, wr, fault, aborted, files>>,
         status' # EXIT_SUCCESS, ReadIn'
  PROVE  IInv'
<1>1. Kinds' /\ Buffers' /\ Offsets' /\ Reading'
  <2>1. hbm = <<>> /\ offset = From["psi"] /\ rd = NoBurst /\ fault = FALSE
    BY DEF IInv, Kinds, Buffers, Offsets, Reading
  <2>2. step' # "psi_inv" /\ step' # "ct_1"
    BY DEF Early
  <2> QED
    BY <2>1, <2>2 DEF Kinds, Buffers, Offsets, Reading
<1>2. Writing'
  <2>1. wr = NoWrite
    BY DEF IInv, Writing
  <2> QED
    BY <2>1, Constants DEF Writing, NoWrite, Comp
<1>3. Files'
  <2>1. files = <<>> /\ ~aborted
    <3>1. step \notin Over
      BY DEF Early, Over
    <3> QED
      BY <3>1 DEF IInv, Files
  <2>2. step' \notin Over \cup {"write_poly"}
    BY DEF Early, Over
  <2> QED
    BY <2>1, <2>2 DEF Files, Over
<1> QED
  BY <1>1, <1>2, <1>3 DEF IInv

\* Parsing, settings and opening the device touch neither vectors nor memory.
LEMMA OpeningStep ==
  ASSUME IInv, Parse \/ Settings \/ OpenDevice \/ LoadXclbin \/ KernelTaken
  PROVE  IInv'
<1>1. CASE Parse
  <2>1. UNCHANGED <<layoutVars, aborted, files, nread>> /\ Running /\ (status' = "terminated" \/ status' = status)
    BY <1>1 DEF Parse
  <2>2. UNCHANGED <<step, vec, offset, bo, hbm, rd, wr, fault, poly, ct_rl>>
    BY <2>1 DEF layoutVars
  <2>3. status' # EXIT_SUCCESS
    BY <2>1 DEF Running, EXIT_SUCCESS
  <2>4. disk' = disk
    BY <1>1 DEF Parse
  <2>5. UNCHANGED <<Kinds, Buffers, Offsets, Reading, Writing>>
    BY <2>2 DEF Kinds, Buffers, Offsets, Reading, Writing, Done, Shape, Laid, Row, Asked, Written
  <2>6. ReadIn'
    BY <2>1, <2>2, <2>4 DEF IInv, ReadIn, ReadWords, BadBefore, Bad, LinesOf
  <2>7. Files'
    BY <2>1, <2>2, <2>3 DEF IInv, Files, Row, Expected
  <2> QED
    BY <2>5, <2>6, <2>7 DEF IInv
<1>2. CASE Settings \/ OpenDevice \/ LoadXclbin \/ KernelTaken
  <2>1. /\ step \in {"settings", "device", "xclbin", "cu"} /\ step' \in {"settings", "device", "xclbin", "cu", "read"}
        /\ UNCHANGED <<offset, hbm, rd, wr, fault, aborted, files, nread, vec>> /\ status' # EXIT_SUCCESS
        /\ step' # "read"
    <3>1. CASE Settings
      BY <3>1 DEF Settings, At, Running, EXIT_SUCCESS, EXIT_FAILURE
    <3>2. CASE OpenDevice
      BY <3>2 DEF OpenDevice, Open, At, Running, EXIT_SUCCESS
    <3>3. CASE LoadXclbin
      BY <3>3 DEF LoadXclbin, Open, At, Running, EXIT_SUCCESS
    <3>4. CASE KernelTaken
      BY <3>4 DEF KernelTaken, Open, At, Running, EXIT_SUCCESS
    <3> QED
      BY <1>2, <3>1, <3>2, <3>3, <3>4
  <2>2. step \in Early /\ step' \in Early
    BY <2>1 DEF Early
  <2>3. nread = 0
    BY <2>1, <2>2 DEF IInv, ReadIn
  <2>4. ReadIn'
    BY <2>1, <2>3 DEF ReadIn
  <2> QED
    BY <2>1, <2>2, <2>4, EarlyStep
<1> QED
  BY <1>1, <1>2

\* When the kernel is opened the buffers are there, of the right sizes, with nothing in them.
LEMMA OpenKernelStep ==
  ASSUME IInv, OpenKernel
  PROVE  IInv'
<1>1. /\ step = "cu" /\ step' = "read" /\ UNCHANGED <<offset, hbm, rd, wr, fault, aborted, files, nread>>
      /\ status' # EXIT_SUCCESS /\ vec' = [o \in DOMAIN Rows |-> [r \in 0 .. Rows[o] - 1 |-> 0]]
  BY DEF OpenKernel, At, Running, EXIT_SUCCESS, AllocateVectors
<1>2. step \in Early /\ step' \in Early
  BY <1>1 DEF Early
<1>3. nread = 0
  BY <1>1, <1>2 DEF IInv, ReadIn
<1>4. ReadIn'
  BY <1>1, <1>3 DEF ReadIn, Object
<1> QED
  BY <1>1, <1>2, <1>4, EarlyStep

\* What is read is what the files hold, as far as they go, and zero behind.
LEMMA ReadFilesStep ==
  ASSUME IInv, ReadFiles
  PROVE  IInv'
<1>1. /\ step = "read" /\ UNCHANGED <<offset, hbm, rd, wr, fault, aborted, files, disk>> /\ Running
  BY DEF ReadFiles, At
<1> DEFINE o == InputOrder[nread + 1]
<1>2. step \in Early /\ nread \in 0 .. 6
  <2>1. step \in Early
    BY <1>1 DEF Early
  <2> QED
    BY <1>1, <2>1 DEF IInv, ReadIn
<1>3. \/ /\ UNCHANGED <<vec, nread, step>> /\ status' = EXIT_FAILURE
      \/ /\ vec' = [vec EXCEPT ![o] = [r \in DOMAIN @ |-> ReadWords(o, r)]] /\ nread' = nread + 1
         /\ step' = IF nread' = Len(InputOrder) THEN "bo" ELSE step
         /\ status' = status
  BY DEF ReadFiles
<1>4. status' # EXIT_SUCCESS
  BY <1>1, <1>3 DEF Running, EXIT_SUCCESS, EXIT_FAILURE
<1>5. CASE UNCHANGED <<vec, nread, step>>
  <2>1. ReadIn'
    BY <1>1, <1>5 DEF IInv, ReadIn, ReadWords, BadBefore, Bad, LinesOf
  <2> QED
    BY <1>1, <1>2, <1>4, <1>5, <2>1, EarlyStep
<1>6. CASE /\ vec' = [vec EXCEPT ![o] = [r \in DOMAIN @ |-> ReadWords(o, r)]] /\ nread' = nread + 1
           /\ step' = IF nread' = Len(InputOrder) THEN "bo" ELSE step
  <2>1. nread' \in 1 .. 7 /\ step' = IF nread' = 7 THEN "bo" ELSE "read"
    BY <1>1, <1>2, <1>6 DEF InputOrder
  <2>2. step' \in Early
    BY <2>1 DEF Early
  <2>3. /\ DOMAIN vec = Object /\ \A u \in Object : DOMAIN vec[u] = 0 .. Rows[u] - 1
        /\ \A j \in 1 .. nread : \A r \in 0 .. Rows[InputOrder[j]] - 1 :
             vec[InputOrder[j]][r] = ReadWords(InputOrder[j], r)
    BY <1>1 DEF IInv, ReadIn
  <2>4. o \in Object
    BY <1>2 DEF InputOrder, Object, Rows
  <2>5. vec'[o] = [r \in 0 .. Rows[o] - 1 |-> ReadWords(o, r)] /\ \A u \in Object : u # o => vec'[u] = vec[u]
    BY <1>6, <2>3, <2>4
  <2>6. DOMAIN vec' = Object /\ \A u \in Object : DOMAIN vec'[u] = 0 .. Rows[u] - 1
    BY <1>6, <2>3, <2>4, <2>5
  <2>7. ASSUME NEW j \in 1 .. nread', NEW r \in 0 .. Rows[InputOrder[j]] - 1
        PROVE  vec'[InputOrder[j]][r] = ReadWords(InputOrder[j], r)
    <3>1. CASE InputOrder[j] = o
      BY <2>5, <3>1
    <3>2. CASE InputOrder[j] # o
      <4>1. j \in 1 .. nread /\ InputOrder[j] \in Object
        <5>1. j # nread + 1
          BY <3>2
        <5>2. j \in 1 .. 7
          BY <2>1
        <5> QED
          BY <1>2, <1>6, <5>1, <5>2 DEF InputOrder, Object, Rows
      <4> QED
        BY <2>3, <2>5, <3>2, <4>1
    <3> QED
      BY <3>1, <3>2
  <2>8. \A u, r : ReadWords(u, r)' = ReadWords(u, r)
    BY <1>1 DEF ReadWords, BadBefore, Bad, LinesOf
  <2>9. ReadIn'
    BY <2>1, <2>2, <2>6, <2>7, <2>8 DEF ReadIn, Early
  <2> QED
    BY <1>1, <1>2, <1>4, <2>2, <2>9, EarlyStep
<1> QED
  BY <1>3, <1>5, <1>6

-----------------------------------------------------------------------------
(***************************************************************************)
(* The host lays out the inputs.                                           *)
(***************************************************************************)
\* The results in port p3's buffer, component after component, prime after prime.
LEMMA Results3 ==
  ASSUME NEW x \in Comp, NEW q \in Prime, NEW j \in Word0
  PROVE  /\ At3(x, q, j) \in Range0("p3") /\ At3(x, q, j) = At3(x, q, 0) + j /\ At3(x, q, 0) \in Nat
         /\ x * CtWords = (IF x = 0 THEN 0 ELSE CtWords) /\ q * POLY_CC \in Nat /\ q * POLY_CC + POLY_CC =< CtWords
<1>0. POLY_CC \in Nat \ {0} /\ L \in Nat \ {0} /\ CtWords \in Nat
  BY Constants
<1>1. q \in 0 .. L - 1 /\ j \in 0 .. POLY_CC - 1 /\ x \in {0, 1}
  BY DEF Prime, Word0, Comp
<1>2. q * POLY_CC \in Nat /\ q * POLY_CC + POLY_CC =< L * POLY_CC
  BY <1>0, <1>1, BurstEnds
<1>3. L * POLY_CC = CtWords
  BY Products
<1>4. x * CtWords = (IF x = 0 THEN 0 ELSE CtWords)
  BY <1>0, <1>1
<1>5. Size("p3") = CtWords + CtWords
  BY Sizes
<1> QED
  BY <1>0, <1>1, <1>2, <1>3, <1>4, <1>5 DEF At3, Range0

\* The buffers are allocated with nothing written yet.
LEMMA PrepareStep ==
  ASSUME IInv, PrepareBO
  PROVE  IInv'
<1>1. /\ step = "bo" /\ step' = "psi" /\ hbm' = Blank /\ bo' = Blank
      /\ UNCHANGED <<offset, rd, wr, fault, aborted, files, status>> /\ Running
  BY DEF PrepareBO, At, AllocateBuffers, hostVars
<1>2. step \in Early /\ step' \notin Early /\ step' \in Object /\ step' # "write_poly" /\ step' \notin Over
  BY <1>1 DEF Early, Object, Rows, Over
<1>3. offset = From["psi"] /\ rd = NoBurst /\ wr = NoWrite /\ fault = FALSE
  BY <1>2 DEF IInv, Offsets, Reading, Writing, Kinds
<1>4. Kinds' /\ Offsets' /\ Reading' /\ ReadIn'
  BY <1>1, <1>2, <1>3 DEF Kinds, Offsets, Reading, ReadIn, Object, Rows
<1>5. Buffers'
  <2>1. Done' = {}
    BY <1>1 DEF Done, LaidAt
  <2>2. Shape(Blank)
    BY DEF Shape, Blank, Range0
  <2>3. \A p \in Inputs : \A c \in Channel : \A a \in Range0(p) : Blank[p][c][a] = None
    BY DEF Blank, Inputs, Port, Range0
  <2> QED
    BY <1>1, <1>2, <2>1, <2>2, <2>3 DEF Buffers, Shape
<1>6. Writing'
  <2>1. \A x \in Comp : \A q \in Prime : \A j \in Word0 : ~Written(x, q, j)'
    <3> SUFFICES ASSUME NEW x \in Comp, NEW q \in Prime, NEW j \in Word0 PROVE ~Written(x, q, j)'
      OBVIOUS
    <3>1. B \in Nat /\ x \in {0, 1} /\ q \in Nat /\ j \in Nat
      BY Constants DEF Comp, Prime, Word0
    <3>2. wr'.x = 0 /\ wr'.i = 0 /\ wr'.ctr = 0
      BY <1>1, <1>3 DEF NoWrite
    <3> QED
      BY <3>1, <3>2 DEF Written
  <2>2. \A c \in Channel : \A x \in Comp : \A q \in Prime : \A j \in Word0 : hbm'["p3"][c][At3(x, q, j)] = None
    <3> SUFFICES ASSUME NEW c \in Channel, NEW x \in Comp, NEW q \in Prime, NEW j \in Word0
                 PROVE  Blank["p3"][c][At3(x, q, j)] = None
      BY <1>1
    <3>1. At3(x, q, j) \in Range0("p3")
      BY Results3
    <3> QED
      BY <3>1 DEF Blank, Port, Range0
  <2>3. wr' = [x |-> wr'.x, i |-> wr'.i, ctr |-> wr'.ctr] /\ wr'.x \in Comp /\ wr'.i \in 0 .. L /\ wr'.ctr \in 0 .. NB - 1
        /\ (wr'.i = L => wr'.x = 0 /\ wr'.ctr = 0)
    BY <1>1, <1>3, Constants DEF NoWrite, Comp
  <2>4. \A x \in Comp : \A q \in Prime : \A j \in Word0 : At3(x, q, j)' = At3(x, q, j)
    BY DEF At3
  <2> QED
    BY <1>2, <2>1, <2>2, <2>3, <2>4 DEF Writing
<1>7. Files'
  <2>1. files = <<>> /\ ~aborted
    BY <1>1, <1>2 DEF IInv, Files, Early, Over
  <2>2. status' # EXIT_SUCCESS
    BY <1>1 DEF Running, EXIT_SUCCESS
  <2> QED
    BY <1>1, <1>2, <2>1, <2>2 DEF Files
<1> QED
  BY <1>4, <1>5, <1>6, <1>7 DEF IInv

\* What writeManyToPC makes of rows of constant data, and of rows split by channel.
LEMMA ConstantLaid ==
  ASSUME NEW o \in Object, NEW c \in Channel, NEW n \in 0 .. Extent[o] - 1
  PROVE  Constant(o)[n \div POLY_CC][Source(FALSE, c, n % POLY_CC)] = Laid(o, c, n)
<1>1. n \div POLY_CC \in 0 .. Rows[o] - 1
  BY Places, Constants, RowOf
<1> QED
  BY <1>1 DEF Constant, Source, Laid

\* Word n of an object is where the invariant says it is laid.
LEMMA LiveLaid ==
  ASSUME NEW o \in Object, NEW c \in Channel, NEW n \in 0 .. Extent[o] - 1
  PROVE  Live(o)[n \div POLY_CC][Source(TRUE, c, n % POLY_CC)] = Laid(o, c, n)
<1> DEFINE r == n \div POLY_CC
           k == c * POLY_CC + (n % POLY_CC)
<1>1. r \in 0 .. Rows[o] - 1 /\ n % POLY_CC \in 0 .. POLY_CC - 1
  BY Places, Constants, RowOf
<1>2. k \in Flat
  BY <1>1, InFlat DEF Word0
<1>3. k % POLY_CC = n % POLY_CC /\ k \div POLY_CC = c
  <2>1. c \in Nat /\ POLY_CC \in Nat \ {0}
    BY Constants DEF Channel
  <2>2. ASSUME NEW s \in 0 .. POLY_CC - 1
        PROVE  (c * POLY_CC + s) % POLY_CC = s /\ (c * POLY_CC + s) \div POLY_CC = c
    BY <2>1, Split
  <2> QED
    BY <1>1, <2>2
<1>4. Preprocess(Row(o, r))[k] = Row(o, r)[PC * (k % POLY_CC) + (k \div POLY_CC)]
  BY <1>2 DEF Preprocess
<1>5. Live(o)[r] = Preprocess(Row(o, r))
  BY <1>1 DEF Live
<1>6. Source(TRUE, c, n % POLY_CC) = k
  BY DEF Source
<1> QED
  <2> HIDE DEF k
  <2>1. Live(o)[r][k] = Row(o, r)[PC * (n % POLY_CC) + c]
    BY <1>3, <1>4, <1>5
  <2> QED
    BY <1>6, <2>1 DEF Laid

\* The rows, handed to writeManyToPC, make the object.
Fits(o, rows, coalesced) ==
  \A c \in Channel : \A n \in 0 .. Extent[o] - 1 :
    rows[n \div POLY_CC][Source(coalesced, c, n % POLY_CC)] = Laid(o, c, n)

\* One call of writeManyToPC puts an object in its place and touches nothing else.
LEMMA Lay ==
  ASSUME Buffers, fault = FALSE, step \notin Early, step' \notin Early, NEW o \in Object, NEW rows, NEW coalesced, NEW next,
         HostWrite(o, PortOf[o], rows, From[o], coalesced, next),
         o \notin Done, Done' = Done \cup {o}, Done \subseteq Object,
         Fits(o, rows, coalesced)
  PROVE  /\ Buffers' /\ fault' = FALSE /\ hbm'["p3"] = hbm["p3"]
         /\ \A p \in Port : \A c \in Channel : \A a \in Range0(p) :
              hbm'[p][c][a] = IF p = PortOf[o] /\ Lies(o, a) THEN Laid(o, c, a - From[o]) ELSE hbm[p][c][a]
<1> DEFINE P == PortOf[o]
<1>1. /\ bo' = [bo EXCEPT ![P] = WriteMany(@, rows, Rows[o], From[o], coalesced)]
      /\ hbm' = [hbm EXCEPT ![P] = Sync(@, bo'[P], From[o], Rows[o] * POLY_CC)]
      /\ fault' = (fault \/ From[o] + Rows[o] * POLY_CC > Size(P))
      /\ vec' = vec
  BY DEF HostWrite
<1>2. P \in Inputs /\ P \in Port /\ Rows[o] * POLY_CC = Extent[o] /\ Extent[o] \in Nat /\ From[o] \in Nat
      /\ From[o] + Extent[o] =< Size(P) /\ Size(P) \in Nat
  BY Places, Sizes
<1>3. fault' = FALSE
  <2>1. ~(From[o] + Rows[o] * POLY_CC > Size(P))
    BY <1>2
  <2> QED
    BY <1>1, <2>1
<1>4. Shape(bo) /\ Shape(hbm)
  BY DEF Buffers
<1>5. /\ DOMAIN bo = Port /\ DOMAIN hbm = Port
      /\ \A p \in Port : \A c \in Channel : /\ DOMAIN bo[p] = Channel /\ DOMAIN hbm[p] = Channel
                                            /\ DOMAIN bo[p][c] = Range0(p) /\ DOMAIN hbm[p][c] = Range0(p)
  <2>1. DOMAIN bo = Port /\ DOMAIN hbm = Port
    BY <1>4 DEF Shape
  <2>2. ASSUME NEW p \in Port
        PROVE  bo[p] = [c \in Channel |-> [a \in Range0(p) |-> bo[p][c][a]]] /\ hbm[p] = [c \in Channel |-> [a \in Range0(p) |-> hbm[p][c][a]]]
    BY <1>4 DEF Shape
  <2>3. ASSUME NEW p \in Port, NEW c \in Channel
        PROVE  DOMAIN bo[p] = Channel /\ DOMAIN hbm[p] = Channel /\ DOMAIN bo[p][c] = Range0(p) /\ DOMAIN hbm[p][c] = Range0(p)
    <3>1. DOMAIN bo[p] = Channel /\ bo[p][c] = [a \in Range0(p) |-> bo[p][c][a]]
      BY <2>2
    <3>2. DOMAIN hbm[p] = Channel /\ hbm[p][c] = [a \in Range0(p) |-> hbm[p][c][a]]
      BY <2>2
    <3> QED
      BY <3>1, <3>2
  <2> QED
    BY <2>1, <2>3
<1>6. bo'[P] = [c \in Channel |-> [a \in Range0(P) |->
                  IF a - From[o] \in 0 .. Extent[o] - 1
                  THEN rows[(a - From[o]) \div POLY_CC][Source(coalesced, c, (a - From[o]) % POLY_CC)] ELSE bo[P][c][a]]]
  <2>1. bo'[P] = WriteMany(bo[P], rows, Rows[o], From[o], coalesced)
    BY <1>1, <1>2, <1>5
  <2>2. bo'[P] = [c \in Channel |-> [a \in DOMAIN bo[P][c] |->
                  IF a - From[o] \in 0 .. Extent[o] - 1
                  THEN rows[(a - From[o]) \div POLY_CC][Source(coalesced, c, (a - From[o]) % POLY_CC)] ELSE bo[P][c][a]]]
    BY <1>2, <2>1 DEF WriteMany
  <2> QED
    BY <1>2, <1>5, <2>2
<1>7. hbm'[P] = [c \in Channel |-> [a \in Range0(P) |->
                   IF a - From[o] \in 0 .. Extent[o] - 1 THEN bo'[P][c][a] ELSE hbm[P][c][a]]]
  <2>1. hbm'[P] = Sync(hbm[P], bo'[P], From[o], Rows[o] * POLY_CC)
    BY <1>1, <1>2, <1>5
  <2>2. hbm'[P] = [c \in Channel |-> [a \in DOMAIN hbm[P][c] |->
                   IF a - From[o] \in 0 .. Extent[o] - 1 THEN bo'[P][c][a] ELSE hbm[P][c][a]]]
    BY <1>2, <2>1 DEF Sync
  <2> QED
    BY <1>2, <1>5, <2>2
<1>8. \A p \in Port : p # P => bo'[p] = bo[p] /\ hbm'[p] = hbm[p]
  BY <1>1, <1>2, <1>5
<1>9. \A c \in Channel : \A a \in Range0(P) :
        hbm'[P][c][a] = IF Lies(o, a) THEN Laid(o, c, a - From[o]) ELSE hbm[P][c][a]
  <2> SUFFICES ASSUME NEW c \in Channel, NEW a \in Range0(P)
               PROVE  hbm'[P][c][a] = IF Lies(o, a) THEN Laid(o, c, a - From[o]) ELSE hbm[P][c][a]
    OBVIOUS
  <2>1. hbm'[P][c][a] = IF Lies(o, a) THEN bo'[P][c][a] ELSE hbm[P][c][a]
    BY <1>7 DEF Lies
  <2>2. Lies(o, a) => bo'[P][c][a] = rows[(a - From[o]) \div POLY_CC][Source(coalesced, c, (a - From[o]) % POLY_CC)]
    BY <1>6 DEF Lies
  <2>3. Lies(o, a) => bo'[P][c][a] = Laid(o, c, a - From[o])
    BY <2>2 DEF Lies, Fits
  <2> QED
    BY <2>1, <2>3
<1>10. \A p \in Port : \A c \in Channel : \A a \in Range0(p) :
         hbm'[p][c][a] = IF p = P /\ Lies(o, a) THEN Laid(o, c, a - From[o]) ELSE hbm[p][c][a]
  BY <1>8, <1>9
<1>11. Shape(bo') /\ Shape(hbm')
  <2>1. \A p \in Port : /\ bo'[p] = [c \in Channel |-> [a \in Range0(p) |-> bo'[p][c][a]]]
                        /\ hbm'[p] = [c \in Channel |-> [a \in Range0(p) |-> hbm'[p][c][a]]]
    <3> SUFFICES ASSUME NEW p \in Port
                 PROVE  /\ bo'[p] = [c \in Channel |-> [a \in Range0(p) |-> bo'[p][c][a]]]
                        /\ hbm'[p] = [c \in Channel |-> [a \in Range0(p) |-> hbm'[p][c][a]]]
      OBVIOUS
    <3>1. CASE p = P
      BY <1>6, <1>7, <3>1
    <3>2. CASE p # P
      <4>1. bo[p] = [c \in Channel |-> [a \in Range0(p) |-> bo[p][c][a]]] /\ hbm[p] = [c \in Channel |-> [a \in Range0(p) |-> hbm[p][c][a]]]
        BY <1>4 DEF Shape
      <4> QED
        BY <1>8, <3>2, <4>1
    <3> QED
      BY <3>1, <3>2
  <2>2. bo' = [p \in Port |-> bo'[p]] /\ hbm' = [p \in Port |-> hbm'[p]]
    BY <1>1, <1>5
  <2> QED
    BY <2>1, <2>2 DEF Shape
<1>12. \A u, c, n : Laid(u, c, n)' = Laid(u, c, n)
  BY <1>1 DEF Laid, Row
<1>13. \A u \in Done' : \A c \in Channel : \A n \in 0 .. Extent[u] - 1 : hbm'[PortOf[u]][c][From[u] + n] = Laid(u, c, n)
  <2> SUFFICES ASSUME NEW u \in Done \cup {o}, NEW c \in Channel, NEW n \in 0 .. Extent[u] - 1
               PROVE  hbm'[PortOf[u]][c][From[u] + n] = Laid(u, c, n)
    OBVIOUS
  <2>1. u \in Object
    OBVIOUS
  <2>2. PortOf[u] \in Port /\ From[u] \in Nat /\ Extent[u] \in Nat /\ From[u] + Extent[u] =< Size(PortOf[u]) /\ Size(PortOf[u]) \in Nat
    BY <2>1, Places, Sizes
  <2> DEFINE a == From[u] + n
  <2>3. a \in Range0(PortOf[u]) /\ a \in Int /\ Lies(u, a) /\ a - From[u] = n
    BY <2>2 DEF Range0, Lies
  <2>4. CASE u = o
    BY <1>10, <2>2, <2>3, <2>4
  <2>5. CASE u # o
    <3>1. hbm[PortOf[u]][c][a] = Laid(u, c, n)
      BY <2>5 DEF Buffers
    <3>2. ~(PortOf[u] = P /\ Lies(o, a))
      <4> HIDE DEF a
      <4> QED
        BY <2>1, <2>3, <2>5, Apart
    <3> QED
      BY <1>10, <2>2, <2>3, <3>1, <3>2
  <2> QED
    BY <2>4, <2>5
<1>14. \A p \in Inputs : \A c \in Channel : \A a \in Range0(p) :
         (\A u \in Done' : PortOf[u] = p => ~Lies(u, a)) => hbm'[p][c][a] = None
  <2> SUFFICES ASSUME NEW p \in Inputs, NEW c \in Channel, NEW a \in Range0(p),
                      \A u \in Done' : PortOf[u] = p => ~Lies(u, a)
               PROVE  hbm'[p][c][a] = None
    OBVIOUS
  <2>1. hbm[p][c][a] = None
    BY DEF Buffers
  <2>2. p \in Port /\ ~(p = P /\ Lies(o, a))
    BY DEF Inputs, Port
  <2> QED
    BY <1>10, <2>1, <2>2
<1>15. Buffers'
  <2>1. Shape(bo)' /\ Shape(hbm)'
    BY <1>11 DEF Shape
  <2> QED
    BY <1>12, <1>13, <1>14, <2>1 DEF Buffers, Lies
<1>16. hbm'["p3"] = hbm["p3"]
  BY <1>2, <1>8 DEF Inputs, Port
<1> QED
  BY <1>3, <1>10, <1>15, <1>16

\* What NothingOverwritten says of a step.
Keeps ==
  \A p \in DOMAIN hbm : \A c \in Channel : \A a \in DOMAIN hbm[p][c] :
    hbm[p][c][a] # None => hbm'[p][c][a] = hbm[p][c][a]

\* What the host lays next.
Follows == {<<"psi", "psi_inv">>, <<"psi_inv", "rlk_0">>, <<"rlk_0", "rlk_1">>, <<"rlk_1", "ct_2">>,
            <<"ct_2", "ct_0">>, <<"ct_0", "ct_1">>, <<"ct_1", "readback">>}

\* What the buffers are indexed by.
LEMMA Domains ==
  ASSUME Shape(hbm)
  PROVE  DOMAIN hbm = Port /\ \A p \in Port : DOMAIN hbm[p] = Channel /\ \A c \in Channel : DOMAIN hbm[p][c] = Range0(p)
<1>1. DOMAIN hbm = Port
  BY DEF Shape
<1>2. ASSUME NEW p \in Port PROVE hbm[p] = [c \in Channel |-> [a \in Range0(p) |-> hbm[p][c][a]]]
  BY DEF Shape
<1>3. ASSUME NEW p \in Port, NEW c \in Channel
      PROVE  DOMAIN hbm[p] = Channel /\ hbm[p][c] = [a \in Range0(p) |-> hbm[p][c][a]]
  BY <1>2
<1>4. ASSUME NEW p \in Port PROVE DOMAIN hbm[p] = Channel
  BY <1>2
<1> QED
  BY <1>1, <1>3, <1>4

\* The parts of the invariant that a step does not touch when the host's data stay.
LEMMA SameWriting ==
  ASSUME Writing, step \notin Early, step' \notin Early, wr' = wr, hbm'["p3"] = hbm["p3"]
  PROVE  Writing'
<1>1. \A x, q, j : At3(x, q, j)' = At3(x, q, j) /\ (Written(x, q, j)' <=> Written(x, q, j))
  BY DEF At3, Written
<1> QED
  BY <1>1 DEF Writing

\* The host lays an object at its offset: the invariant is kept and nothing that was there is touched.
LEMMA LayStep ==
  ASSUME IInv, Running, UNCHANGED <<files, aborted, status>>,
         NEW o \in Object, NEW rows, NEW coalesced, NEW next, <<o, next>> \in Follows,
         HostWrite(o, PortOf[o], rows, From[o], coalesced, next),
         Fits(o, rows, coalesced)
  PROVE  IInv' /\ Keeps
<1>1. /\ step = o /\ step' = next /\ UNCHANGED <<rd, wr>>
      /\ offset' = IF o \in {"rlk_0", "rlk_1"} THEN From[o] ELSE From[o] + Rows[o] * POLY_CC
  BY DEF HostWrite
<1>2. o \in {"psi", "psi_inv", "rlk_0", "rlk_1", "ct_2", "ct_0", "ct_1"}
  BY DEF Object, Rows
<1>3. step' \in (Object \ {"psi"}) \cup {"readback"} /\ step' \notin Early /\ step \notin Early
  BY <1>1, <1>2 DEF Follows, Object, Rows, Early
<1>4. o \notin Done /\ Done' = Done \cup {o} /\ Done \subseteq Object
  <2>1. CASE o = "psi"
    BY <1>1, <2>1 DEF Follows, Done, LaidAt, Object, Rows
  <2>2. CASE o = "psi_inv"
    BY <1>1, <2>2 DEF Follows, Done, LaidAt, Object, Rows
  <2>3. CASE o = "rlk_0"
    BY <1>1, <2>3 DEF Follows, Done, LaidAt, Object, Rows
  <2>4. CASE o = "rlk_1"
    BY <1>1, <2>4 DEF Follows, Done, LaidAt, Object, Rows
  <2>5. CASE o = "ct_2"
    BY <1>1, <2>5 DEF Follows, Done, LaidAt, Object, Rows
  <2>6. CASE o = "ct_0"
    BY <1>1, <2>6 DEF Follows, Done, LaidAt, Object, Rows
  <2>7. CASE o = "ct_1"
    BY <1>1, <2>7 DEF Follows, Done, LaidAt, Object, Rows
  <2> QED
    BY <1>2, <2>1, <2>2, <2>3, <2>4, <2>5, <2>6, <2>7
<1>5. Buffers /\ fault = FALSE /\ Shape(hbm)
  BY <1>3 DEF IInv, Kinds, Buffers
<1>6. /\ Buffers' /\ fault' = FALSE /\ hbm'["p3"] = hbm["p3"]
      /\ \A p \in Port : \A c \in Channel : \A a \in Range0(p) :
           hbm'[p][c][a] = IF p = PortOf[o] /\ Lies(o, a) THEN Laid(o, c, a - From[o]) ELSE hbm[p][c][a]
  BY <1>3, <1>4, <1>5, Lay
<1>7. Kinds'
  BY <1>3, <1>6 DEF Kinds
<1>8. Offsets'
  <2>1. From[o] + Rows[o] * POLY_CC = From[o] + Extent[o]
    BY Places
  <2>2. step' = "psi_inv" => o = "psi"
    BY <1>1 DEF Follows
  <2>3. step' = "ct_1" => o = "ct_0"
    BY <1>1 DEF Follows
  <2>4. From["psi"] + Extent["psi"] = From["psi_inv"] /\ From["ct_0"] + Extent["ct_0"] = From["ct_1"]
    BY DEF From, Extent
  <2> QED
    BY <1>1, <1>3, <2>1, <2>2, <2>3, <2>4 DEF Offsets
<1>9. Reading'
  <2>1. rd = NoBurst
    BY <1>1 DEF IInv, Reading
  <2> QED
    BY <1>1, <2>1 DEF Reading
<1>10. Writing'
  BY <1>1, <1>3, <1>6, SameWriting DEF IInv
<1>11. ReadIn'
  BY <1>3 DEF ReadIn, Early
<1>12. Files'
  <2>1. files = <<>> /\ ~aborted
    <3>1. step \notin Over
      BY <1>1, <1>2 DEF Over
    <3> QED
      BY <1>1, <3>1 DEF IInv, Files
  <2>2. step' # "write_poly" /\ step' \notin Over
    BY <1>3 DEF Object, Rows, Over
  <2>3. status' # EXIT_SUCCESS
    BY DEF Running, EXIT_SUCCESS
  <2> QED
    BY <2>1, <2>2, <2>3 DEF Files, Over
<1>13. Keeps
  <2> SUFFICES ASSUME NEW p \in Port, NEW c \in Channel, NEW a \in Range0(p), hbm[p][c][a] # None
               PROVE  hbm'[p][c][a] = hbm[p][c][a]
    BY <1>5, Domains DEF Keeps
  <2> SUFFICES ASSUME p = PortOf[o], Lies(o, a) PROVE FALSE
    BY <1>6
  <2>1. a \in Int /\ p \in Inputs
    BY Places, Sizes DEF Range0
  <2>2. \A u \in Done : PortOf[u] = p => ~Lies(u, a)
    BY <1>4, <2>1, Apart
  <2>3. hbm[p][c][a] = None
    BY <1>3, <1>5, <2>1, <2>2 DEF Buffers
  <2> QED
    BY <2>3
<1> QED
  BY <1>6, <1>7, <1>8, <1>9, <1>10, <1>11, <1>12, <1>13 DEF IInv

\* Every object the host lays is the next one, at its place, with the rows of its vectors.
LEMMA LayInputsStep ==
  ASSUME IInv, Running, UNCHANGED <<files, aborted, status>>, LayInputs
  PROVE  IInv' /\ Keeps
<1>1. \A o \in Object : Fits(o, Constant(o), FALSE) /\ Fits(o, Live(o), TRUE)
  <2> SUFFICES ASSUME NEW o \in Object, NEW c \in Channel, NEW n \in 0 .. Extent[o] - 1
               PROVE  /\ Constant(o)[n \div POLY_CC][Source(FALSE, c, n % POLY_CC)] = Laid(o, c, n)
                      /\ Live(o)[n \div POLY_CC][Source(TRUE, c, n % POLY_CC)] = Laid(o, c, n)
    BY DEF Fits
  <2> QED
    BY ConstantLaid, LiveLaid
<1>2. /\ step = "psi" => offset = From["psi"]
      /\ step = "psi_inv" => offset = From["psi_inv"]
      /\ step = "ct_1" => offset = From["ct_1"]
  BY DEF IInv, Offsets
<1>3. Ct0Offset = From["ct_0"]
  BY Products DEF Ct0Offset, From
<1>4. \/ HostWrite("psi", PortOf["psi"], Constant("psi"), From["psi"], FALSE, "psi_inv")
      \/ HostWrite("psi_inv", PortOf["psi_inv"], Constant("psi_inv"), From["psi_inv"], FALSE, "rlk_0")
      \/ HostWrite("rlk_0", PortOf["rlk_0"], Constant("rlk_0"), From["rlk_0"], FALSE, "rlk_1")
      \/ HostWrite("rlk_1", PortOf["rlk_1"], Constant("rlk_1"), From["rlk_1"], FALSE, "ct_2")
      \/ HostWrite("ct_2", PortOf["ct_2"], Live("ct_2"), From["ct_2"], TRUE, "ct_0")
      \/ HostWrite("ct_0", PortOf["ct_0"], Live("ct_0"), From["ct_0"], TRUE, "ct_1")
      \/ HostWrite("ct_1", PortOf["ct_1"], Live("ct_1"), From["ct_1"], TRUE, "readback")
  <2>1. \A o, p, rows, a, coalesced, next : HostWrite(o, p, rows, a, coalesced, next) => step = o
    BY DEF HostWrite
  <2>2. /\ PortOf["psi"] = "p0" /\ PortOf["psi_inv"] = "p0" /\ PortOf["ct_2"] = "p0" /\ PortOf["rlk_0"] = "p1"
        /\ PortOf["ct_0"] = "p1" /\ PortOf["ct_1"] = "p1" /\ PortOf["rlk_1"] = "p2"
        /\ From["rlk_0"] = 0 /\ From["rlk_1"] = 0 /\ From["ct_2"] = 0
    BY DEF PortOf, From
  <2> QED
    BY <1>2, <1>3, <2>1, <2>2 DEF LayInputs
<1>5. {"psi", "psi_inv", "rlk_0", "rlk_1", "ct_2", "ct_0", "ct_1"} \subseteq Object
  BY DEF Object, Rows
<1>6. /\ <<"psi", "psi_inv">> \in Follows /\ <<"psi_inv", "rlk_0">> \in Follows /\ <<"rlk_0", "rlk_1">> \in Follows
       /\ <<"rlk_1", "ct_2">> \in Follows /\ <<"ct_2", "ct_0">> \in Follows /\ <<"ct_0", "ct_1">> \in Follows
       /\ <<"ct_1", "readback">> \in Follows
  BY DEF Follows
<1>7. CASE HostWrite("psi", PortOf["psi"], Constant("psi"), From["psi"], FALSE, "psi_inv")
  BY <1>1, <1>5, <1>7, <1>6, LayStep, Zenon
<1>8. CASE HostWrite("psi_inv", PortOf["psi_inv"], Constant("psi_inv"), From["psi_inv"], FALSE, "rlk_0")
  BY <1>1, <1>5, <1>8, <1>6, LayStep, Zenon
<1>9. CASE HostWrite("rlk_0", PortOf["rlk_0"], Constant("rlk_0"), From["rlk_0"], FALSE, "rlk_1")
  BY <1>1, <1>5, <1>9, <1>6, LayStep, Zenon
<1>10. CASE HostWrite("rlk_1", PortOf["rlk_1"], Constant("rlk_1"), From["rlk_1"], FALSE, "ct_2")
  BY <1>1, <1>5, <1>10, <1>6, LayStep, Zenon
<1>11. CASE HostWrite("ct_2", PortOf["ct_2"], Live("ct_2"), From["ct_2"], TRUE, "ct_0")
  BY <1>1, <1>5, <1>11, <1>6, LayStep, Zenon
<1>12. CASE HostWrite("ct_0", PortOf["ct_0"], Live("ct_0"), From["ct_0"], TRUE, "ct_1")
  BY <1>1, <1>5, <1>12, <1>6, LayStep, Zenon
<1>13. CASE HostWrite("ct_1", PortOf["ct_1"], Live("ct_1"), From["ct_1"], TRUE, "readback")
  BY <1>1, <1>5, <1>13, <1>6, LayStep, Zenon
<1> QED
  BY <1>4, <1>7, <1>8, <1>9, <1>10, <1>11, <1>12, <1>13

-----------------------------------------------------------------------------
(***************************************************************************)
(* The host reads back.                                                    *)
(***************************************************************************)
\* Nothing of the device changes.
LEMMA SameDevice ==
  ASSUME IInv, step \notin Early, step' \notin Early \cup DOMAIN LaidAt, Done = Object, Kinds',
         UNCHANGED <<vec, hbm, wr>>, Shape(bo'),
         rd' = NoBurst \/ (rd' = rd /\ step' \notin {"readback", "write_poly"})
  PROVE  Buffers' /\ Offsets' /\ Reading' /\ Writing' /\ ReadIn'
<1>1. Done' = Object
  BY DEF Done
<1>2. \A o, c, n : Laid(o, c, n)' = Laid(o, c, n)
  BY DEF Laid, Row
<1>3. Buffers'
  <2>1. Shape(hbm) /\ Shape(hbm)' /\ Shape(bo)'
    BY DEF IInv, Buffers, Shape
  <2> QED
    BY <1>1, <1>2, <2>1 DEF IInv, Buffers, Lies
<1>4. Offsets'
  <2>1. step' \notin Early \cup {"psi", "psi_inv", "ct_1"}
    BY DEF LaidAt
  <2> QED
    BY <2>1 DEF Offsets
<1>5. Reading'
  <2>1. CASE rd' = NoBurst
    BY <2>1 DEF Reading
  <2>2. CASE rd' = rd /\ step' \notin {"readback", "write_poly"}
    <3>1. step' \notin Object
      BY DEF LaidAt, Object, Rows
    <3>2. Asked(rd)' = Asked(rd)
      BY <2>2 DEF Asked
    <3>3. \A o, r : Row(o, r)' = Row(o, r)
      BY DEF Row
    <3> QED
      BY <2>2, <3>1, <3>2, <3>3 DEF IInv, Reading
  <2> QED
    BY <2>1, <2>2
<1>6. Writing'
  BY SameWriting DEF IInv
<1>7. ReadIn'
  BY DEF ReadIn, Early
<1> QED
  BY <1>3, <1>4, <1>5, <1>6, <1>7

\* The channels' buffers of a port.
Banks(p, m) == m = [c \in Channel |-> [a \in Range0(p) |-> m[c][a]]]

\* What sync takes over from the device.
LEMMA Synced ==
  ASSUME Shape(bo), NEW p \in Port, NEW m, Banks(p, m)
  PROVE  /\ Shape([bo EXCEPT ![p] = m])
         /\ [bo EXCEPT ![p] = m][p] = m
<1> DEFINE b == [bo EXCEPT ![p] = m]
<1>1. DOMAIN bo = Port /\ b = [u \in Port |-> b[u]] /\ b[p] = m /\ \A u \in Port : u # p => b[u] = bo[u]
  BY DEF Shape
<1>2. \A u \in Port : b[u] = [c \in Channel |-> [a \in Range0(u) |-> b[u][c][a]]]
  <2> SUFFICES ASSUME NEW u \in Port PROVE b[u] = [c \in Channel |-> [a \in Range0(u) |-> b[u][c][a]]]
    OBVIOUS
  <2>1. CASE u = p
    <3> HIDE DEF b
    <3> QED
      BY <1>1, <2>1 DEF Banks
  <2>2. CASE u # p
    <3>1. bo[u] = [c \in Channel |-> [a \in Range0(u) |-> bo[u][c][a]]]
      BY DEF Shape
    <3> HIDE DEF b
    <3> QED
      BY <1>1, <2>2, <3>1
  <2> QED
    BY <2>1, <2>2
<1> HIDE DEF b
<1>3. Shape(b)
  BY <1>1, <1>2 DEF Shape
<1> QED
  BY <1>1, <1>3 DEF b

\* The same of a sync: the n words from `at` on are the device's.
LEMMA SyncTakes ==
  ASSUME NEW p \in Port, NEW to, NEW m, NEW at \in Nat, NEW n \in Nat,
         Banks(p, to)
  PROVE  /\ Banks(p, Sync(to, m, at, n))
         /\ \A c \in Channel : \A a \in Range0(p) :
              Sync(to, m, at, n)[c][a] = IF a - at \in 0 .. n - 1 THEN m[c][a] ELSE to[c][a]
<1>1. \A c \in Channel : DOMAIN to[c] = Range0(p)
  <2> SUFFICES ASSUME NEW c \in Channel PROVE DOMAIN to[c] = Range0(p)
    OBVIOUS
  <2>1. to[c] = [a \in Range0(p) |-> to[c][a]]
    BY DEF Banks
  <2> QED
    BY <2>1
<1>2. Sync(to, m, at, n) = [c \in Channel |-> [a \in Range0(p) |-> IF a - at \in 0 .. n - 1 THEN m[c][a] ELSE to[c][a]]]
  BY <1>1 DEF Sync, Banks
<1> QED
  BY <1>2 DEF Banks

\* Reading back changes no memory and returns the words laid.
LEMMA ReadBackStep ==
  ASSUME IInv, Running, UNCHANGED <<files, aborted, status>>, ReadBack
  PROVE  IInv' /\ Keeps
<1>1. /\ step = "readback" /\ step' = "write_poly" /\ UNCHANGED <<vec, hbm, rd, wr, fault>>
      /\ bo' = [bo EXCEPT !["p0"] = Sync(@, hbm["p0"], 0, 2 * POLY_CC)]
      /\ poly' = [r \in 0 .. 1 |-> ReadRow(bo'["p0"], r, 0, FALSE)]
  BY DEF ReadBack
<1>2. /\ step \notin Early /\ step' \notin Early \cup DOMAIN LaidAt /\ Done = Object /\ Kinds' /\ "p0" \in Port
      /\ step' \notin Over /\ step \notin Over
  BY <1>1 DEF Early, LaidAt, Done, Kinds, IInv, Port, Over
<1>3. Shape(bo) /\ Shape(hbm) /\ POLY_CC \in Nat \ {0}
  BY <1>2, Constants DEF IInv, Buffers
<1>4. rd = NoBurst /\ files = <<>> /\ ~aborted
  BY <1>1, <1>2 DEF IInv, Reading, Files
<1> DEFINE m == Sync(bo["p0"], hbm["p0"], 0, 2 * POLY_CC)
<1>5. /\ Banks("p0", m)
      /\ \A c \in Channel : \A a \in Range0("p0") :
           m[c][a] = IF a - 0 \in 0 .. 2 * POLY_CC - 1 THEN hbm["p0"][c][a] ELSE bo["p0"][c][a]
  <2>1. Banks("p0", bo["p0"])
    BY <1>2, <1>3 DEF Shape, Banks
  <2>2. 2 * POLY_CC \in Nat /\ 0 \in Nat
    BY <1>3
  <2> QED
    <3> DEFINE to == bo["p0"]
               from == hbm["p0"]
    <3>1. \A n \in Nat : /\ Banks("p0", Sync(to, from, 0, n))
                         /\ \A c \in Channel : \A a \in Range0("p0") :
                              Sync(to, from, 0, n)[c][a] = IF a - 0 \in 0 .. n - 1 THEN from[c][a] ELSE to[c][a]
      <4>1. Banks("p0", to) /\ "p0" \in Port /\ 0 \in Nat
        BY <1>2, <2>1
      <4> HIDE DEF to, from
      <4> QED
        BY <4>1, SyncTakes
    <3> QED
      BY <2>2, <3>1
<1>6. bo' = [bo EXCEPT !["p0"] = m]
  BY <1>1
<1>7. Shape(bo') /\ bo'["p0"] = m
  <2> HIDE DEF m
  <2> QED
    BY <1>2, <1>3, <1>5, <1>6, Synced
<1>8. Buffers' /\ Offsets' /\ Reading' /\ Writing' /\ ReadIn'
  BY <1>1, <1>2, <1>4, <1>7, SameDevice
<1>9. ASSUME NEW r \in 0 .. 1 PROVE poly'[r] = Row("ct_2", r)
  <2>1. poly'[r] = [k \in Flat |-> m[k % PC][0 + r * POLY_CC + (k \div PC)]]
    BY <1>1, <1>7 DEF ReadRow
  <2>2. ASSUME NEW k \in Flat PROVE m[k % PC][0 + r * POLY_CC + (k \div PC)] = Row("ct_2", r)[k]
    <3> DEFINE c == k % PC
               j == k \div PC
               n == r * POLY_CC + j
    <3>1. c \in Channel /\ j \in Word0 /\ PC * j + c = k
      BY OfFlat
    <3>2. n \in 0 .. 2 * POLY_CC - 1 /\ 0 + r * POLY_CC + j = n
      BY <1>3, <3>1 DEF Word0
    <3>3. "ct_2" \in Object /\ From["ct_2"] = 0 /\ Extent["ct_2"] = CtWords /\ PortOf["ct_2"] = "p0"
      BY DEF Object, Rows, From, Extent, PortOf
    <3>4. n \in 0 .. Extent["ct_2"] - 1 /\ n \in Range0("p0") /\ n - 0 = n
      BY <3>2, <3>3, Constants, Sizes DEF Range0
    <3>5. hbm["p0"][c][0 + n] = Laid("ct_2", c, n)
      BY <1>2, <3>1, <3>3, <3>4 DEF IInv, Buffers
    <3>6. n \div POLY_CC = r /\ n % POLY_CC = j
      <4>1. r \in Nat /\ j \in 0 .. POLY_CC - 1
        BY <3>1 DEF Word0
      <4> HIDE DEF j
      <4> QED
        BY <1>3, <4>1, Split
    <3> HIDE DEF c, j, n, m
    <3>7. m[c][n] = hbm["p0"][c][n] /\ 0 + n = n
      BY <1>5, <3>1, <3>2, <3>4
    <3>8. m[c][n] = Row("ct_2", r)[k]
      BY <3>1, <3>5, <3>6, <3>7 DEF Laid
    <3> QED
      BY <3>2, <3>8 DEF c, j
  <2>3. Row("ct_2", r) = [k \in Flat |-> Row("ct_2", r)[k]]
    BY DEF Row
  <2> HIDE DEF m
  <2> QED
    BY <2>1, <2>2, <2>3
<1>10. Files'
  <2>1. \A r \in 0 .. 1 : poly'[r] = Row("ct_2", r)'
    BY <1>1, <1>9 DEF Row
  <2>2. status' # EXIT_SUCCESS
    BY DEF Running, EXIT_SUCCESS
  <2> QED
    BY <1>1, <1>2, <1>4, <2>1, <2>2 DEF Files
<1>11. Keeps
  BY <1>1 DEF Keeps
<1> QED
  BY <1>2, <1>8, <1>10, <1>11 DEF IInv

-----------------------------------------------------------------------------
(***************************************************************************)
(* The read ports find what the host has laid.                             *)
(***************************************************************************)
RequestOf(r) == [p |-> r.p, id |-> r.id, idx |-> r.idx, idy |-> r.idy]

\* The adapter's bases of a request add up to the row of the object the core asks for.
LEMMA AddressFits ==
  ASSUME NEW r, RequestOf(r) \in Requests
  PROVE  LET o == Asked(r)[1]
             n == Asked(r)[2]
         IN /\ o \in Object /\ n \in 0 .. Rows[o] - 1 /\ PortOf[o] = r.p
            /\ base_id(r.p, r.id) + base_idx(r.p, r.id, r.idx) + base_idy(r.p, r.id, r.idy) = From[o] + n * POLY_CC
            /\ Bursts(r) = NB
<1>0. POLY_CC \in Nat \ {0} /\ L \in Nat /\ L >= 2 /\ CtWords \in Nat /\ KeyWords \in Nat
  BY Constants
<1>1. \/ r.p = "p0" /\ r.id = "POLY_2" /\ r.idx \in 0 .. L - 1 /\ r.idy = 0
      \/ r.p = "p0" /\ r.id = "PSI" /\ r.idx \in 0 .. L /\ r.idy = 0
      \/ r.p = "p0" /\ r.id = "PSI_INV" /\ r.idx \in 0 .. L /\ r.idy = 0
      \/ r.p = "p1" /\ r.id = "RLK_0" /\ r.idx \in 0 .. L /\ r.idy \in 0 .. L - 1
      \/ r.p = "p2" /\ r.id = "RLK_1" /\ r.idx \in 0 .. L /\ r.idy \in 0 .. L - 1
      \/ r.p = "p1" /\ r.id = "POLY_0" /\ r.idx \in 0 .. L - 1 /\ r.idy = 0
      \/ r.p = "p1" /\ r.id = "POLY_1" /\ r.idx \in 0 .. L - 1 /\ r.idy = 0
  <2> DEFINE q == RequestOf(r)
  <2>1. q.p = r.p /\ q.id = r.id /\ q.idx = r.idx /\ q.idy = r.idy
    BY DEF RequestOf
  <2>2. \/ \E a \in 0 .. L - 1 : q = [p |-> "p0", id |-> "POLY_2", idx |-> a, idy |-> 0]
        \/ \E d \in {"PSI", "PSI_INV"}, a \in 0 .. L : q = [p |-> "p0", id |-> d, idx |-> a, idy |-> 0]
        \/ \E d \in {<<"p1", "RLK_0">>, <<"p2", "RLK_1">>}, a \in 0 .. L, b \in 0 .. L - 1 :
              q = [p |-> d[1], id |-> d[2], idx |-> a, idy |-> b]
        \/ \E d \in {"POLY_0", "POLY_1"}, a \in 0 .. L - 1 : q = [p |-> "p1", id |-> d, idx |-> a, idy |-> 0]
    <3> HIDE DEF q
    <3>1. q \in Requests
      BY DEF q
    <3> QED
      BY <3>1 DEF Requests
  <2> HIDE DEF q
  <2>3. CASE \E a \in 0 .. L - 1 : q = [p |-> "p0", id |-> "POLY_2", idx |-> a, idy |-> 0]
    BY <2>1, <2>3
  <2>4. CASE \E d \in {"PSI", "PSI_INV"}, a \in 0 .. L : q = [p |-> "p0", id |-> d, idx |-> a, idy |-> 0]
    BY <2>1, <2>4
  <2>5. CASE \E d \in {<<"p1", "RLK_0">>, <<"p2", "RLK_1">>}, a \in 0 .. L, b \in 0 .. L - 1 :
               q = [p |-> d[1], id |-> d[2], idx |-> a, idy |-> b]
    BY <2>1, <2>5
  <2>6. CASE \E d \in {"POLY_0", "POLY_1"}, a \in 0 .. L - 1 : q = [p |-> "p1", id |-> d, idx |-> a, idy |-> 0]
    BY <2>1, <2>6
  <2> QED
    BY <2>2, <2>3, <2>4, <2>5, <2>6
<1>2. Bursts(r) = NB
  BY DEF Bursts, NB, PSI_CC
<1>3. {"ct_2", "psi", "psi_inv", "rlk_0", "rlk_1", "ct_0", "ct_1"} \subseteq Object
  BY DEF Object, Rows
<1>4. ASSUME NEW a \in 0 .. L, NEW b \in 0 .. L - 1
      PROVE  a * L + b \in 0 .. L * (L + 1) - 1 /\ a * POLY_CC * L + b * POLY_CC = (a * L + b) * POLY_CC
  <2>1. a * L \in Nat /\ a * L + L =< (L + 1) * L
    <3>1. a \in 0 .. (L + 1) - 1 /\ L + 1 \in Nat /\ L \in Nat \ {0}
      BY <1>0
    <3> QED
      BY <3>1, BurstEnds
  <2>2. (L + 1) * L = L * (L + 1)
    BY <1>0
  <2>3. a * POLY_CC * L = (a * L) * POLY_CC
    BY <1>0
  <2>4. (a * L + b) * POLY_CC = (a * L) * POLY_CC + b * POLY_CC
    BY <1>0, <2>1
  <2> QED
    BY <1>0, <2>1, <2>2, <2>3, <2>4
<1>5. CASE r.p = "p0" /\ r.id = "POLY_2" /\ r.idx \in 0 .. L - 1 /\ r.idy = 0
  <2>1. Asked(r) = <<"ct_2", r.idx>> /\ From["ct_2"] = 0 /\ PortOf["ct_2"] = "p0" /\ Rows["ct_2"] = L
    BY <1>5 DEF Asked, From, PortOf, Rows
  <2>2. base_id(r.p, r.id) = 0 /\ base_idx(r.p, r.id, r.idx) = r.idx * POLY_CC /\ base_idy(r.p, r.id, r.idy) = 0
    BY <1>5 DEF base_id, base_idx, base_idy, IsRlk
  <2> QED
    BY <1>0, <1>2, <1>3, <1>5, <2>1, <2>2
<1>6. CASE r.p = "p0" /\ r.id = "PSI" /\ r.idx \in 0 .. L /\ r.idy = 0
  <2>1. Asked(r) = <<"psi", r.idx>> /\ From["psi"] = CtWords /\ PortOf["psi"] = "p0" /\ Rows["psi"] = L + 1
    BY <1>6 DEF Asked, From, PortOf, Rows
  <2>2. base_id(r.p, r.id) = CtWords /\ base_idx(r.p, r.id, r.idx) = r.idx * POLY_CC /\ base_idy(r.p, r.id, r.idy) = 0
    BY <1>6 DEF base_id, base_idx, base_idy, IsRlk, PSI_ADDR_OFFSET, CtWords
  <2> QED
    BY <1>0, <1>2, <1>3, <1>6, <2>1, <2>2
<1>7. CASE r.p = "p0" /\ r.id = "PSI_INV" /\ r.idx \in 0 .. L /\ r.idy = 0
  <2>1. Asked(r) = <<"psi_inv", r.idx>> /\ From["psi_inv"] = CtWords + (CtWords + POLY_CC) /\ PortOf["psi_inv"] = "p0"
        /\ Rows["psi_inv"] = L + 1
    BY <1>7 DEF Asked, From, PortOf, Rows
  <2>2. base_id(r.p, r.id) = PSI_INV_ADDR_OFFSET /\ base_idx(r.p, r.id, r.idx) = r.idx * POLY_CC /\ base_idy(r.p, r.id, r.idy) = 0
    BY <1>7 DEF base_id, base_idx, base_idy, IsRlk
  <2>3. PSI_INV_ADDR_OFFSET = CtWords + (CtWords + POLY_CC)
    BY Products DEF PSI_INV_ADDR_OFFSET, PSI_ADDR_OFFSET, CtWords, PSI_CC
  <2> QED
    BY <1>0, <1>2, <1>3, <1>7, <2>1, <2>2, <2>3
<1>8. CASE r.p = "p1" /\ r.id = "RLK_0" /\ r.idx \in 0 .. L /\ r.idy \in 0 .. L - 1
  <2>1. Asked(r) = <<"rlk_0", r.idx * L + r.idy>> /\ From["rlk_0"] = 0 /\ PortOf["rlk_0"] = "p1" /\ Rows["rlk_0"] = L * (L + 1)
    BY <1>8 DEF Asked, From, PortOf, Rows
  <2>2. base_id(r.p, r.id) = 0 /\ base_idx(r.p, r.id, r.idx) = r.idx * POLY_CC * L /\ base_idy(r.p, r.id, r.idy) = r.idy * POLY_CC
    BY <1>8 DEF base_id, base_idx, base_idy, IsRlk
  <2>3. r.idx * L + r.idy \in 0 .. L * (L + 1) - 1 /\ r.idx * POLY_CC * L + r.idy * POLY_CC = (r.idx * L + r.idy) * POLY_CC
    BY <1>4, <1>8
  <2>4. r.idx * POLY_CC * L \in Nat
    BY <1>0, <1>8
  <2> QED
    BY <1>0, <1>2, <1>3, <1>8, <2>1, <2>2, <2>3, <2>4
<1>9. CASE r.p = "p2" /\ r.id = "RLK_1" /\ r.idx \in 0 .. L /\ r.idy \in 0 .. L - 1
  <2>1. Asked(r) = <<"rlk_1", r.idx * L + r.idy>> /\ From["rlk_1"] = 0 /\ PortOf["rlk_1"] = "p2" /\ Rows["rlk_1"] = L * (L + 1)
    BY <1>9 DEF Asked, From, PortOf, Rows
  <2>2. base_id(r.p, r.id) = 0 /\ base_idx(r.p, r.id, r.idx) = r.idx * POLY_CC * L /\ base_idy(r.p, r.id, r.idy) = r.idy * POLY_CC
    BY <1>9 DEF base_id, base_idx, base_idy, IsRlk
  <2>3. r.idx * L + r.idy \in 0 .. L * (L + 1) - 1 /\ r.idx * POLY_CC * L + r.idy * POLY_CC = (r.idx * L + r.idy) * POLY_CC
    BY <1>4, <1>9
  <2>4. r.idx * POLY_CC * L \in Nat
    BY <1>0, <1>9
  <2> QED
    BY <1>0, <1>2, <1>3, <1>9, <2>1, <2>2, <2>3, <2>4
<1>10. CASE r.p = "p1" /\ r.id = "POLY_0" /\ r.idx \in 0 .. L - 1 /\ r.idy = 0
  <2>1. Asked(r) = <<"ct_0", r.idx>> /\ From["ct_0"] = KeyWords /\ PortOf["ct_0"] = "p1" /\ Rows["ct_0"] = L
    BY <1>10 DEF Asked, From, PortOf, Rows
  <2>2. base_id(r.p, r.id) = KeyWords /\ base_idx(r.p, r.id, r.idx) = r.idx * POLY_CC /\ base_idy(r.p, r.id, r.idy) = 0
    BY <1>10 DEF base_id, base_idx, base_idy, IsRlk, POLY_0_ADDR_OFFSET, KeyWords
  <2> QED
    BY <1>0, <1>2, <1>3, <1>10, <2>1, <2>2
<1>11. CASE r.p = "p1" /\ r.id = "POLY_1" /\ r.idx \in 0 .. L - 1 /\ r.idy = 0
  <2>1. Asked(r) = <<"ct_1", r.idx>> /\ From["ct_1"] = KeyWords + CtWords /\ PortOf["ct_1"] = "p1" /\ Rows["ct_1"] = L
    BY <1>11 DEF Asked, From, PortOf, Rows
  <2>2. base_id(r.p, r.id) = KeyWords + CtWords /\ base_idx(r.p, r.id, r.idx) = r.idx * POLY_CC /\ base_idy(r.p, r.id, r.idy) = 0
    BY <1>11 DEF base_id, base_idx, base_idy, IsRlk, POLY_1_ADDR_OFFSET, POLY_0_ADDR_OFFSET, KeyWords, CtWords
  <2> QED
    BY <1>0, <1>2, <1>3, <1>11, <2>1, <2>2
<1> QED
  BY <1>1, <1>5, <1>6, <1>7, <1>8, <1>9, <1>10, <1>11

\* One burst: the words it delivers, and where the port stands afterwards.
LEMMA BurstStep ==
  ASSUME IInv, step = "kernel", NEW r, RequestOf(r) \in Requests, Burst(r),
         r.ctr \in 0 .. NB - 1, r.data \in Seq(Beat), Len(r.data) = r.ctr * B,
         \A k \in 1 .. Len(r.data) : \A c \in Channel : r.data[k][c] = Row(Asked(r)[1], Asked(r)[2])[PC * (k - 1) + c]
  PROVE  Reading' /\ fault' = FALSE
<1> DEFINE o == Asked(r)[1]
           n == Asked(r)[2]
           a == rx_address(r)
           t == Beats(r.p, a)
           s == r.data
           m == r.ctr * B
           base == n * POLY_CC
<1>1. /\ rd' = [busy |-> r.ctr + 1 # Bursts(r), p |-> r.p, id |-> r.id, idx |-> r.idx, idy |-> r.idy,
                ctr |-> IF r.ctr + 1 = Bursts(r) THEN 0 ELSE r.ctr + 1, data |-> s \o t]
      /\ fault' = (fault \/ a + B > Size(r.p))
      /\ UNCHANGED <<step, vec>>
  BY DEF Burst
<1>2. /\ o \in Object /\ n \in 0 .. Rows[o] - 1 /\ PortOf[o] = r.p
      /\ base_id(r.p, r.id) + base_idx(r.p, r.id, r.idx) + base_idy(r.p, r.id, r.idy) = From[o] + n * POLY_CC
      /\ Bursts(r) = NB
  BY AddressFits
<1>3. /\ POLY_CC \in Nat \ {0} /\ B \in Nat \ {0} /\ PC \in Nat \ {0} /\ NB \in Nat \ {0} /\ NB * B = POLY_CC
      /\ Rows[o] \in Nat \ {0} /\ Extent[o] = Rows[o] * POLY_CC /\ Extent[o] \in Nat
      /\ From[o] \in Nat /\ From[o] + Extent[o] =< Size(r.p) /\ Size(r.p) \in Nat /\ r.p \in Inputs /\ r.p \in Port
  BY <1>2, Constants, Places, Sizes
<1>4. /\ m \in Nat /\ (r.ctr + 1) * B = m + B /\ m + B =< POLY_CC
      /\ (m + B = POLY_CC <=> r.ctr = NB - 1)
  <2>1. \A q \in 0 .. NB - 1 : /\ q * B \in Nat /\ (q + 1) * B = q * B + B /\ (q + 1) * B =< NB * B
                               /\ (q + 1) * B = NB * B <=> q = NB - 1
    BY Constants, BurstEnds
  <2> HIDE DEF o, n, a, s, t
  <2> QED
    BY <1>3, <2>1
<1>5. base \in Nat /\ base + POLY_CC =< Extent[o]
  <2>1. \A x \in Nat : \A q \in 0 .. x - 1 : /\ q * POLY_CC \in Nat /\ (q + 1) * POLY_CC = q * POLY_CC + POLY_CC
                                           /\ (q + 1) * POLY_CC =< x * POLY_CC
    BY Constants, BurstEnds
  <2> HIDE DEF o, n, a, s, t, m
  <2> QED
    BY <1>2, <1>3, <2>1
<1>6. a = From[o] + base + m
  BY <1>2 DEF rx_address
<1> HIDE DEF o, n, a, s, m, base
<1>7. /\ POLY_CC \in Nat /\ B \in Nat \ {0} /\ Extent[o] \in Nat /\ From[o] \in Nat
       /\ From[o] + Extent[o] =< Size(r.p) /\ Size(r.p) \in Nat
  BY <1>3
<1>8. m \in Nat /\ m + B =< POLY_CC
  BY <1>4
<1>9. fault' = FALSE
  <2>1. ~(a + B > Size(r.p))
    BY <1>5, <1>6, <1>7, <1>8
  <2>2. fault = FALSE
    BY DEF IInv, Kinds
  <2> QED
    BY <1>1, <2>1, <2>2
<1>10. ASSUME NEW k \in 1 .. B, NEW c \in Channel
      PROVE  hbm[r.p][c][a + k - 1] = Row(o, n)[PC * (m + k - 1) + c] /\ a + k - 1 \in DOMAIN hbm[r.p][c]
             /\ Row(o, n)[PC * (m + k - 1) + c] \in {Zero} \cup (Object \X Nat \X Nat)
  <2> DEFINE w == m + k - 1
             e == base + w
  <2>1. w \in Word0 /\ e \in 0 .. Extent[o] - 1 /\ a + k - 1 = From[o] + e
    <3>1. k \in Nat /\ k >= 1 /\ k =< B
      BY <1>7
    <3>2. w \in 0 .. POLY_CC - 1 /\ w \in Nat /\ m + k - 1 = w
      BY <1>7, <1>8, <3>1
    <3>3. a + k - 1 = From[o] + base + w /\ a \in Nat
      BY <1>5, <1>6, <1>7, <1>8, <3>1
    <3> HIDE DEF w
    <3>4. e \in 0 .. Extent[o] - 1
      BY <1>5, <1>7, <3>2
    <3>5. From[o] + base + w = From[o] + e
      BY <1>5, <1>7, <3>2
    <3> QED
      BY <3>2, <3>3, <3>4, <3>5 DEF Word0
  <2>2. e \div POLY_CC = n /\ e % POLY_CC = w
    <3>1. n \in Nat /\ w \in 0 .. POLY_CC - 1
      BY <1>2, <1>3, <2>1 DEF Word0
    <3>2. e = n * POLY_CC + w
      BY DEF base
    <3> HIDE DEF w, e
    <3> QED
      BY <1>3, <3>1, <3>2, Split
  <2>3. step \notin Early /\ Done = Object
    BY DEF Early, Done, LaidAt
  <2> HIDE DEF w, e
  <2>4. hbm[r.p][c][From[o] + e] = Laid(o, c, e)
    BY <1>2, <2>1, <2>3 DEF IInv, Buffers, o
  <2>5. From[o] + e \in DOMAIN hbm[r.p][c]
    <3>1. DOMAIN hbm[r.p][c] = Range0(r.p)
      BY <1>3, <2>3, Domains DEF IInv, Buffers
    <3> QED
      BY <1>7, <2>1, <3>1 DEF Range0
  <2>6. Row(o, n)[PC * w + c] \in {Zero} \cup (Object \X Nat \X Nat)
    <3>1. PC * w + c \in Flat /\ PC * w + c \in Nat
      <4>1. PC * w + c \in Flat
        BY <2>1, InFlat
      <4>2. Flat \subseteq Nat
        BY <1>3 DEF Flat
      <4> QED
        BY <4>1, <4>2
    <3>2. n \in Nat
      BY <1>2, <1>3
    <3> QED
      BY <1>2, <3>1, <3>2 DEF Row, File, o
  <2> QED
    BY <2>1, <2>2, <2>4, <2>5, <2>6 DEF Laid, w
<1>11. /\ t \in Seq(Beat) /\ Len(t) = B
      /\ \A k \in 1 .. B : \A c \in Channel : t[k][c] = Row(o, n)[PC * (m + k - 1) + c]
  <2>1. t = [k \in 1 .. B |-> [c \in Channel |-> Row(o, n)[PC * (m + k - 1) + c]]]
    BY <1>10 DEF Beats
  <2>2. \A k \in 1 .. B : [c \in Channel |-> Row(o, n)[PC * (m + k - 1) + c]] \in Beat
    BY <1>10 DEF Beat
  <2>3. t \in [1 .. B -> Beat]
    BY <2>1, <2>2
  <2> HIDE DEF t
  <2>4. t \in Seq(Beat) /\ Len(t) = B
    BY <1>3, <2>3
  <2> QED
    BY <2>1, <2>4
<1> HIDE DEF t
<1>12. s \in Seq(Beat) /\ Len(s) = m /\ \A k \in 1 .. m : \A c \in Channel : s[k][c] = Row(o, n)[PC * (k - 1) + c]
  BY DEF s, m, o, n
<1>13. /\ s \o t \in Seq(Beat) /\ Len(s \o t) = m + B
       /\ \A k \in 1 .. m + B : (s \o t)[k] = IF k =< m THEN s[k] ELSE t[k - m]
  <2>1. s \in Seq(Beat) /\ t \in Seq(Beat)
    BY <1>11, <1>12
  <2>2. /\ s \o t \in Seq(Beat) /\ Len(s \o t) = Len(s) + Len(t)
        /\ \A k \in 1 .. Len(s) + Len(t) : (s \o t)[k] = IF k =< Len(s) THEN s[k] ELSE t[k - Len(s)]
    BY <2>1, ConcatProperties
  <2>3. Len(s) = m /\ Len(t) = B
    BY <1>11, <1>12
  <2> QED
    BY <2>2, <2>3
<1>14. \A k \in 1 .. m + B : \A c \in Channel : (s \o t)[k][c] = Row(o, n)[PC * (k - 1) + c]
  <2> SUFFICES ASSUME NEW k \in 1 .. m + B, NEW c \in Channel PROVE (s \o t)[k][c] = Row(o, n)[PC * (k - 1) + c]
    OBVIOUS
  <2>1. CASE k =< m
    BY <1>3, <1>4, <1>12, <1>13, <2>1
  <2>2. CASE ~(k =< m)
    <3>1. k - m \in 1 .. B /\ m + (k - m) - 1 = k - 1
      BY <1>3, <1>4, <2>2
    <3>2. t[k - m][c] = Row(o, n)[PC * (m + (k - m) - 1) + c]
      BY <1>11, <3>1
    <3> QED
      BY <1>13, <2>2, <3>1, <3>2
  <2> QED
    BY <2>1, <2>2
<1>15. /\ rd'.busy = (r.ctr + 1 # NB) /\ rd'.p = r.p /\ rd'.id = r.id /\ rd'.idx = r.idx /\ rd'.idy = r.idy
       /\ rd'.ctr = (IF r.ctr + 1 = NB THEN 0 ELSE r.ctr + 1) /\ rd'.data = s \o t
       /\ rd' = [busy |-> rd'.busy, p |-> rd'.p, id |-> rd'.id, idx |-> rd'.idx, idy |-> rd'.idy, ctr |-> rd'.ctr, data |-> rd'.data]
  BY <1>1, <1>2
<1>16. /\ rd'.busy \in BOOLEAN /\ rd'.ctr \in 0 .. NB - 1
       /\ Len(rd'.data) = IF rd'.busy THEN rd'.ctr * B ELSE POLY_CC
  <2>0. r.ctr \in Nat /\ r.ctr =< NB - 1 /\ NB \in Nat \ {0} /\ 0 \in 0 .. NB - 1
    BY <1>3
  <2>1. rd'.busy \in BOOLEAN /\ (rd'.busy <=> r.ctr # NB - 1)
    <3>1. r.ctr + 1 = NB <=> r.ctr = NB - 1
      BY <2>0
    <3>2. rd'.busy = (r.ctr + 1 # NB)
      BY <1>15
    <3> QED
      BY <3>1, <3>2, Zenon
  <2>2. rd'.ctr \in 0 .. NB - 1 /\ (rd'.busy => rd'.ctr = r.ctr + 1)
    <3>1. rd'.ctr = (IF r.ctr + 1 = NB THEN 0 ELSE r.ctr + 1)
      BY <1>15
    <3>2. CASE r.ctr + 1 = NB
      <4>1. ~rd'.busy
        BY <2>0, <2>1, <3>2
      <4> QED
        BY <2>0, <3>1, <3>2, <4>1
    <3>3. CASE r.ctr + 1 # NB
      <4>1. r.ctr + 1 \in 0 .. NB - 1
        BY <2>0, <3>3
      <4> QED
        BY <3>1, <3>3, <4>1
    <3> QED
      BY <3>2, <3>3
  <2>3. Len(rd'.data) = m + B
    BY <1>13, <1>15
  <2>4. CASE rd'.busy
    <3>1. rd'.ctr * B = (r.ctr + 1) * B
      BY <2>2, <2>4
    <3> QED
      BY <1>4, <2>1, <2>2, <2>3, <2>4, <3>1
  <2>5. CASE ~rd'.busy
    BY <1>4, <2>1, <2>2, <2>3, <2>5
  <2> QED
    BY <2>4, <2>5
<1>17. Asked(rd)' = Asked(r)
  BY <1>15 DEF Asked
<1>18. \A k \in 1 .. Len(rd'.data) : \A c \in Channel :
         rd'.data[k][c] = Row(Asked(rd)[1], Asked(rd)[2])'[PC * (k - 1) + c]
  <2>1. \A x, y : Row(x, y)' = Row(x, y)
    BY <1>1 DEF Row
  <2> QED
    BY <1>13, <1>14, <1>15, <1>17, <2>1 DEF o, n
<1>19. [p |-> rd'.p, id |-> rd'.id, idx |-> rd'.idx, idy |-> rd'.idy] \in Requests
  BY <1>15 DEF RequestOf
<1>20. step' \notin Early \cup Object \cup {"readback", "write_poly"}
  BY <1>1 DEF Early, Object, Rows
<1>21. rd'.data \in Seq(Beat)
  BY <1>13, <1>15
<1>22. Reading'
  BY <1>15, <1>16, <1>18, <1>19, <1>20, <1>21 DEF Reading
<1> QED
  BY <1>9, <1>22

\* A burst of a read port lies in the object the core asked for, word by word.
LEMMA ReadBurstStep ==
  ASSUME IInv, Running, UNCHANGED <<files, aborted, status>>, ReadFirst \/ ReadNext
  PROVE  IInv' /\ Keeps
<1>1. step = "kernel" /\ UNCHANGED <<step, vec, offset, bo, hbm, wr, poly, ct_rl>>
  BY DEF ReadFirst, ReadNext, Burst
<1>2. Reading' /\ fault' = FALSE
  <2>1. CASE ReadFirst
    <3>1. PICK q \in Requests :
            Burst([busy |-> TRUE, p |-> q.p, id |-> q.id, idx |-> q.idx, idy |-> q.idy, ctr |-> 0, data |-> <<>>])
      BY <2>1 DEF ReadFirst
    <3> DEFINE r == [busy |-> TRUE, p |-> q.p, id |-> q.id, idx |-> q.idx, idy |-> q.idy, ctr |-> 0, data |-> <<>>]
    <3>2. RequestOf(r) = q
      BY DEF RequestOf, Requests
    <3>3. r.ctr = 0 /\ r.data = <<>> /\ 0 \in 0 .. NB - 1 /\ 0 * B = 0
      BY Constants
    <3> HIDE DEF r
    <3>4. r.data \in Seq(Beat) /\ Len(r.data) = r.ctr * B /\ 1 .. Len(r.data) = {}
      BY <3>3
    <3> QED
      BY <1>1, <3>1, <3>2, <3>3, <3>4, BurstStep DEF r
  <2>2. CASE ReadNext
    <3>1. rd.busy /\ Burst(rd)
      BY <2>2 DEF ReadNext
    <3>2. rd # NoBurst
      BY <3>1 DEF NoBurst
    <3>3. /\ RequestOf(rd) \in Requests /\ rd.ctr \in 0 .. NB - 1 /\ rd.data \in Seq(Beat) /\ Len(rd.data) = rd.ctr * B
          /\ \A k \in 1 .. Len(rd.data) : \A c \in Channel :
               rd.data[k][c] = Row(Asked(rd)[1], Asked(rd)[2])[PC * (k - 1) + c]
      BY <3>1, <3>2 DEF IInv, Reading, RequestOf
    <3> QED
      BY <1>1, <3>1, <3>3, BurstStep
  <2> QED
    BY <2>1, <2>2
<1>3. Kinds'
  BY <1>1, <1>2 DEF IInv, Kinds
<1>4. UNCHANGED <<Buffers, Offsets, Writing>>
  BY <1>1 DEF Buffers, Offsets, Writing, Done, Shape, Laid, Row, Written
<1>5. ReadIn'
  BY <1>1 DEF ReadIn, Early
<1>6. Files'
  <2>1. status' # EXIT_SUCCESS
    BY DEF Running, EXIT_SUCCESS
  <2> QED
    BY <1>1, <2>1 DEF IInv, Files, Row, Expected
<1>7. Keeps
  BY <1>1 DEF Keeps
<1> QED
  BY <1>2, <1>3, <1>4, <1>5, <1>6, <1>7 DEF IInv


-----------------------------------------------------------------------------
(***************************************************************************)
(* The write port.                                                         *)
(***************************************************************************)
\* The polynomials of two results have no word in common.
LEMMA ResultsApart ==
  ASSUME NEW x \in Comp, NEW q \in Prime, NEW u \in Comp, NEW s \in Prime, ~(x = u /\ q = s)
  PROVE  At3(x, q, 0) + POLY_CC =< At3(u, s, 0) \/ At3(u, s, 0) + POLY_CC =< At3(x, q, 0)
<1>1. POLY_CC \in Nat \ {0} /\ CtWords \in Nat /\ 0 \in Word0
  BY Constants DEF Word0
<1>2. /\ x * CtWords = (IF x = 0 THEN 0 ELSE CtWords) /\ q * POLY_CC \in Nat /\ q * POLY_CC + POLY_CC =< CtWords
      /\ u * CtWords = (IF u = 0 THEN 0 ELSE CtWords) /\ s * POLY_CC \in Nat /\ s * POLY_CC + POLY_CC =< CtWords
  BY <1>1, Results3
<1>3. x \in {0, 1} /\ u \in {0, 1} /\ q \in Nat /\ s \in Nat
  BY DEF Comp, Prime
<1>4. At3(x, q, 0) = x * CtWords + q * POLY_CC /\ At3(u, s, 0) = u * CtWords + s * POLY_CC
  BY <1>1, <1>2, <1>3 DEF At3
<1>5. CASE x # u
  BY <1>1, <1>2, <1>3, <1>4, <1>5
<1>6. CASE x = u
  <2>1. CASE q < s
    <3>1. q * POLY_CC + POLY_CC =< s * POLY_CC
      BY <1>1, <1>3, <2>1, BurstEnds
    <3> QED
      BY <1>1, <1>2, <1>3, <1>4, <1>6, <3>1
  <2>2. CASE s < q
    <3>1. s * POLY_CC + POLY_CC =< q * POLY_CC
      BY <1>1, <1>3, <2>2, BurstEnds
    <3> QED
      BY <1>1, <1>2, <1>3, <1>4, <1>6, <3>1
  <2> QED
    BY <1>3, <1>6, <2>1, <2>2
<1> QED
  BY <1>5, <1>6

\* The burst the write port is at.
LEMMA WriteAddress ==
  ASSUME Writing, wr.i < L
  PROVE  /\ wr.x \in Comp /\ wr.i \in Prime /\ wr.ctr * B \in Nat /\ wr.ctr * B + B =< POLY_CC
         /\ (wr.ctr + 1) * B = wr.ctr * B + B /\ (wr.ctr + 1 = NB <=> wr.ctr * B + B = POLY_CC)
         /\ tx_address(wr) = At3(wr.x, wr.i, 0) + wr.ctr * B /\ At3(wr.x, wr.i, 0) \in Nat
         /\ At3(wr.x, wr.i, 0) + POLY_CC =< Size("p3")
<1>1. wr.x \in Comp /\ wr.i \in Prime /\ wr.ctr \in 0 .. NB - 1
  BY Constants DEF Writing, Prime
<1>2. POLY_CC \in Nat \ {0} /\ B \in Nat \ {0} /\ NB \in Nat \ {0} /\ NB * B = POLY_CC /\ CtWords \in Nat /\ KeyWords \in Nat
  BY Constants
<1>3. /\ wr.ctr * B \in Nat /\ (wr.ctr + 1) * B = wr.ctr * B + B /\ wr.ctr * B + B =< POLY_CC
      /\ (wr.ctr + 1 = NB <=> wr.ctr * B + B = POLY_CC)
  <2>1. \A n \in 0 .. NB - 1 : /\ n * B \in Nat /\ (n + 1) * B = n * B + B /\ (n + 1) * B =< NB * B
                               /\ (n + 1) * B = NB * B <=> n = NB - 1
    BY <1>2, BurstEnds
  <2>2. /\ wr.ctr * B \in Nat /\ (wr.ctr + 1) * B = wr.ctr * B + B /\ (wr.ctr + 1) * B =< NB * B
        /\ ((wr.ctr + 1) * B = NB * B <=> wr.ctr = NB - 1)
    BY <1>1, <2>1
  <2>3. wr.ctr = NB - 1 <=> wr.ctr + 1 = NB
    BY <1>1, <1>2
  <2> QED
    BY <1>2, <2>2, <2>3
<1>4. 0 \in Word0 /\ POLY_CC - 1 \in Word0
  BY <1>2 DEF Word0
<1>5. /\ At3(wr.x, wr.i, 0) \in Nat /\ wr.i * POLY_CC \in Nat /\ wr.x * CtWords \in Nat
      /\ At3(wr.x, wr.i, POLY_CC - 1) = At3(wr.x, wr.i, 0) + (POLY_CC - 1)
      /\ At3(wr.x, wr.i, POLY_CC - 1) \in Range0("p3")
  BY <1>1, <1>2, <1>4, Results3
<1>6. At3(wr.x, wr.i, 0) + POLY_CC =< Size("p3")
  <2>1. Size("p3") \in Nat
    BY <1>2, Sizes
  <2> QED
    BY <1>2, <1>5, <2>1 DEF Range0
<1>7. tx_address(wr) = At3(wr.x, wr.i, 0) + wr.ctr * B
  <2>1. POLY_1_ADDR_OFFSET - POLY_0_ADDR_OFFSET = CtWords
    <3>1. POLY_1_ADDR_OFFSET = KeyWords + CtWords /\ POLY_0_ADDR_OFFSET = KeyWords
      BY DEF POLY_1_ADDR_OFFSET, POLY_0_ADDR_OFFSET, KeyWords, CtWords
    <3> QED
      BY <1>2, <3>1
  <2>2. tx_address(wr) = wr.x * CtWords + wr.i * POLY_CC + wr.ctr * B
    BY <2>1 DEF tx_address
  <2>3. At3(wr.x, wr.i, 0) = wr.x * CtWords + wr.i * POLY_CC + 0
    BY DEF At3
  <2> QED
    BY <1>3, <1>5, <2>2, <2>3
<1> QED
  BY <1>1, <1>3, <1>5, <1>6, <1>7

\* Of all words of the results, the burst holds those of its own polynomial it should.
LEMMA BurstHolds ==
  ASSUME Writing, wr.i < L, NEW x \in Comp, NEW q \in Prime, NEW j \in Word0
  PROVE  /\ (At3(x, q, j) - tx_address(wr) \in 0 .. B - 1)
              <=> (x = wr.x /\ q = wr.i /\ j - wr.ctr * B \in 0 .. B - 1)
         /\ x = wr.x /\ q = wr.i => wr.ctr * B + At3(x, q, j) - tx_address(wr) = j
<1> DEFINE m == wr.ctr * B
           a == tx_address(wr)
           s == At3(wr.x, wr.i, 0)
           t == At3(x, q, 0)
<1>1. m \in Nat /\ m + B =< POLY_CC /\ s \in Nat /\ a = s + m /\ wr.x \in Comp /\ wr.i \in Prime
  BY WriteAddress
<1>2. POLY_CC \in Nat /\ B \in Nat \ {0} /\ j \in Nat /\ j < POLY_CC
  BY Constants DEF Word0
<1>3. t \in Nat /\ At3(x, q, j) = t + j
  BY Results3
<1>4. x = wr.x /\ q = wr.i => s = t
  OBVIOUS
<1>5. ~(x = wr.x /\ q = wr.i) => t + POLY_CC =< s \/ s + POLY_CC =< t
  BY <1>1, ResultsApart
<1> HIDE DEF m, a, s, t
<1>6. (t + j - a \in 0 .. B - 1) <=> (x = wr.x /\ q = wr.i /\ j - m \in 0 .. B - 1)
  <2>1. CASE x = wr.x /\ q = wr.i
    <3>1. t + j - a = j - m
      BY <1>1, <1>2, <1>3, <1>4, <2>1
    <3> QED
      BY <2>1, <3>1
  <2>2. CASE ~(x = wr.x /\ q = wr.i)
    <3>1. t + POLY_CC =< s \/ s + POLY_CC =< t
      BY <1>5, <2>2
    <3>2. ~(t + j - a \in 0 .. B - 1)
      BY <1>1, <1>2, <1>3, <3>1
    <3> QED
      BY <2>2, <3>2
  <2> QED
    BY <2>1, <2>2
<1>7. x = wr.x /\ q = wr.i => m + (t + j) - a = j
  BY <1>1, <1>2, <1>3, <1>4
<1> DEFINE v == At3(x, q, j)
<1>8. v = t + j /\ v \in Nat /\ t \in Nat /\ j \in Nat /\ a \in Nat /\ m \in Nat
  BY <1>1, <1>2, <1>3
<1> HIDE DEF v
<1>9. (v - a \in 0 .. B - 1) <=> (x = wr.x /\ q = wr.i /\ j - m \in 0 .. B - 1)
  <2>1. v - a = t + j - a
    BY <1>8
  <2> QED
    BY <1>6, <2>1
<1>10. x = wr.x /\ q = wr.i => m + v - a = j
  <2>1. m + v - a = m + (t + j) - a
    BY <1>8
  <2> QED
    BY <1>7, <2>1
<1> QED
  BY <1>9, <1>10, Zenon DEF m, a, v

\* The counters run over the words prime by prime, component by component.
LEMMA WrittenGrows ==
  ASSUME Writing, wr.i < L, wr' = NextWrite
  PROVE  /\ wr' = [x |-> wr'.x, i |-> wr'.i, ctr |-> wr'.ctr]
         /\ wr'.x \in Comp /\ wr'.i \in 0 .. L /\ wr'.ctr \in 0 .. NB - 1
         /\ wr'.i = L => wr'.x = 0 /\ wr'.ctr = 0
         /\ \A x \in Comp : \A q \in Prime : \A j \in Word0 :
              Written(x, q, j)' <=> Written(x, q, j) \/ (x = wr.x /\ q = wr.i /\ j - wr.ctr * B \in 0 .. B - 1)
<1> DEFINE m == wr.ctr * B
<1>1. /\ wr = [x |-> wr.x, i |-> wr.i, ctr |-> wr.ctr] /\ wr.x \in {0, 1} /\ wr.i \in Nat /\ wr.i < L
      /\ wr.ctr \in Nat /\ wr.ctr =< NB - 1 /\ NB \in Nat \ {0} /\ L \in Nat /\ B \in Nat \ {0} /\ POLY_CC \in Nat
  BY Constants DEF Writing, Comp
<1>2. m \in Nat /\ m + B =< POLY_CC /\ (wr.ctr + 1) * B = m + B /\ (wr.ctr + 1 = NB <=> m + B = POLY_CC)
  BY WriteAddress
<1>3. \A x \in Comp : \A q \in Prime : \A j \in Word0 : x \in {0, 1} /\ q \in Nat /\ j \in Nat /\ j < POLY_CC
  BY <1>1 DEF Comp, Prime, Word0
<1>4. CASE wr.ctr + 1 # NB
  <2>1. wr' = [x |-> wr.x, i |-> wr.i, ctr |-> wr.ctr + 1]
    <3>1. wr' = [wr EXCEPT !.ctr = @ + 1]
      BY <1>4 DEF NextWrite, NB
    <3> QED
      BY <1>1, <3>1
  <2>2. wr'.x = wr.x /\ wr'.i = wr.i /\ wr'.ctr = wr.ctr + 1
    BY <2>1
  <2>3. ASSUME NEW x \in Comp, NEW q \in Prime, NEW j \in Word0
        PROVE  Written(x, q, j)' <=> Written(x, q, j) \/ (x = wr.x /\ q = wr.i /\ j - m \in 0 .. B - 1)
    <3>1. Written(x, q, j)' <=> \/ q < wr.i \/ (q = wr.i /\ x < wr.x) \/ (q = wr.i /\ x = wr.x /\ j < m + B)
      BY <1>2, <2>2 DEF Written
    <3>2. Written(x, q, j) <=> \/ q < wr.i \/ (q = wr.i /\ x < wr.x) \/ (q = wr.i /\ x = wr.x /\ j < m)
      BY DEF Written
    <3> HIDE DEF m
    <3>3. j < m + B <=> j < m \/ j - m \in 0 .. B - 1
      BY <1>1, <1>2, <1>3
    <3> QED
      BY <3>1, <3>2, <3>3
  <2>4. wr.ctr + 1 \in 0 .. NB - 1 /\ wr.i \in 0 .. L /\ wr.i # L
    BY <1>1, <1>4
  <2> QED
    BY <1>1, <2>1, <2>2, <2>3, <2>4 DEF Comp
<1>5. CASE wr.ctr + 1 = NB
  <2>1. wr' = [x |-> 1 - wr.x, i |-> wr.i + wr.x, ctr |-> 0]
    BY <1>5 DEF NextWrite, NB
  <2>2. wr'.x = 1 - wr.x /\ wr'.i = wr.i + wr.x /\ wr'.ctr = 0
    BY <2>1
  <2>3. ASSUME NEW x \in Comp, NEW q \in Prime, NEW j \in Word0
        PROVE  Written(x, q, j)' <=> Written(x, q, j) \/ (x = wr.x /\ q = wr.i /\ j - m \in 0 .. B - 1)
    <3>0. 0 * B = 0 /\ ~(j < 0)
      BY <1>1, <1>3
    <3>1. Written(x, q, j)' <=> \/ q < wr.i + wr.x \/ (q = wr.i + wr.x /\ x < 1 - wr.x)
      BY <2>2, <3>0 DEF Written
    <3>2. Written(x, q, j) <=> \/ q < wr.i \/ (q = wr.i /\ x < wr.x) \/ (q = wr.i /\ x = wr.x /\ j < m)
      BY DEF Written
    <3>3. j < m \/ j - m \in 0 .. B - 1
      <4>1. m + B = POLY_CC
        BY <1>2, <1>5
      <4> HIDE DEF m
      <4> QED
        BY <1>1, <1>2, <1>3, <4>1
    <3> HIDE DEF m
    <3>4. (q < wr.i + wr.x \/ (q = wr.i + wr.x /\ x < 1 - wr.x)) <=> (q < wr.i \/ (q = wr.i /\ x =< wr.x))
      BY <1>1, <1>3
    <3>5. x =< wr.x <=> x < wr.x \/ x = wr.x
      BY <1>1, <1>3
    <3> QED
      BY <3>1, <3>2, <3>3, <3>4, <3>5
  <2>4. /\ 1 - wr.x \in {0, 1} /\ wr.i + wr.x \in 0 .. L /\ 0 \in 0 .. NB - 1
        /\ wr.i + wr.x = L => 1 - wr.x = 0
    BY <1>1
  <2>5. Comp = {0, 1}
    BY DEF Comp
  <2> QED
    BY <2>1, <2>2, <2>3, <2>4, <2>5
<1> QED
  BY <1>4, <1>5

\* A burst of the write port goes to the words of its own component and row.
LEMMA WriteBurstStep ==
  ASSUME IInv, Running, UNCHANGED <<files, aborted, status>>, WriteBurst
  PROVE  IInv' /\ Keeps
<1> DEFINE a == tx_address(wr)
           m == wr.ctr * B
           old == hbm["p3"]
           new == [c \in Channel |-> [b \in Range0("p3") |->
                    IF b - a \in 0 .. B - 1 THEN <<"out", <<wr.x, wr.i>>, PC * (m + b - a) + c>> ELSE old[c][b]]]
<1>1. /\ step = "kernel" /\ wr.i < L /\ UNCHANGED <<step, vec, offset, bo, rd, poly, ct_rl>> /\ wr' = NextWrite
      /\ fault' = (fault \/ a + B > Size("p3"))
  BY DEF WriteBurst
<1>2. step \notin Early /\ step' \notin Early /\ Done = Object /\ Done' = Object /\ step \notin Over \cup {"write_poly"}
  BY <1>1 DEF Early, Done, LaidAt, Over
<1>3. Shape(bo) /\ Shape(hbm) /\ fault = FALSE /\ Writing
  BY <1>2 DEF IInv, Buffers, Kinds
<1>4. "p3" \in Port /\ DOMAIN hbm = Port /\ \A c \in Channel : DOMAIN old[c] = Range0("p3")
  BY <1>3, Domains DEF Port
<1>5. hbm' = [hbm EXCEPT !["p3"] = new]
  <2>1. hbm' = [hbm EXCEPT !["p3"] = [c \in Channel |-> [b \in DOMAIN hbm["p3"][c] |->
                 IF b - a \in 0 .. B - 1 THEN <<"out", <<wr.x, wr.i>>, PC * (m + b - a) + c>> ELSE hbm["p3"][c][b]]]]
    BY DEF WriteBurst
  <2>2. new = [c \in Channel |-> [b \in DOMAIN hbm["p3"][c] |->
                 IF b - a \in 0 .. B - 1 THEN <<"out", <<wr.x, wr.i>>, PC * (m + b - a) + c>> ELSE hbm["p3"][c][b]]]
    BY <1>4
  <2> QED
    BY <2>1, <2>2
<1>6. hbm'["p3"] = new /\ DOMAIN hbm' = Port /\ \A p \in Port : p # "p3" => hbm'[p] = hbm[p]
  <2> HIDE DEF new
  <2> QED
    BY <1>4, <1>5
<1>7. \A c \in Channel : \A b \in Range0("p3") :
        hbm'["p3"][c][b] = IF b - a \in 0 .. B - 1 THEN <<"out", <<wr.x, wr.i>>, PC * (m + b - a) + c>> ELSE old[c][b]
  BY <1>6
<1>8. Shape(hbm)'
  <2>1. ASSUME NEW p \in Port PROVE hbm'[p] = [c \in Channel |-> [b \in Range0(p) |-> hbm'[p][c][b]]]
    <3>1. CASE p = "p3"
      BY <1>6, <3>1
    <3>2. CASE p # "p3"
      <4>1. hbm[p] = [c \in Channel |-> [b \in Range0(p) |-> hbm[p][c][b]]]
        BY <1>3 DEF Shape
      <4> QED
        BY <1>6, <3>2, <4>1
    <3> QED
      BY <3>1, <3>2
  <2>2. hbm' = [p \in Port |-> hbm'[p]]
    BY <1>5, <1>6
  <2>3. \A p : Range0(p)' = Range0(p)
    BY DEF Range0
  <2> QED
    BY <2>1, <2>2, <2>3 DEF Shape
<1> HIDE DEF new
<1>9. fault' = FALSE
  <2> DEFINE s == At3(wr.x, wr.i, 0)
  <2>1. m \in Nat /\ m + B =< POLY_CC /\ s \in Nat /\ s + POLY_CC =< Size("p3") /\ a = s + m
    BY <1>1, <1>3, WriteAddress
  <2>2. POLY_CC \in Nat /\ B \in Nat /\ Size("p3") \in Nat
    BY <1>4, Constants, Sizes
  <2> HIDE DEF s, m, a
  <2>3. ~(a + B > Size("p3"))
    BY <2>1, <2>2
  <2> QED
    BY <1>1, <1>3, <2>3
<1>10. Kinds'
  BY <1>1, <1>9 DEF IInv, Kinds
<1>11. Buffers'
  <2>1. \A o, c, n : Laid(o, c, n)' = Laid(o, c, n)
    BY <1>1 DEF Laid, Row
  <2>2. \A p \in Inputs : p \in Port /\ p # "p3"
    BY DEF Inputs, Port
  <2>3. \A o \in Object : PortOf[o] \in Inputs
    BY Places
  <2>4. Shape(bo)'
    BY <1>1, <1>3 DEF Shape
  <2>5. \A p \in Inputs : hbm'[p] = hbm[p]
    BY <1>6, <2>2
  <2>6. \A p : Range0(p)' = Range0(p)
    BY DEF Range0
  <2>7. \A o \in Object : \A c \in Channel : \A n \in 0 .. Extent[o] - 1 : hbm'[PortOf[o]][c][From[o] + n] = Laid(o, c, n)'
    BY <1>2, <2>1, <2>3, <2>5 DEF IInv, Buffers
  <2>8. \A p \in Inputs : \A c \in Channel : \A b \in Range0(p) :
          (\A o \in Object : PortOf[o] = p => ~Lies(o, b)) => hbm'[p][c][b] = None
    BY <1>2, <2>5 DEF IInv, Buffers
  <2> QED
    BY <1>2, <1>8, <2>4, <2>6, <2>7, <2>8 DEF Buffers, Lies
<1>12. Offsets' /\ Reading' /\ ReadIn'
  <2>1. \A o, r : Row(o, r)' = Row(o, r)
    BY <1>1 DEF Row
  <2>2. Asked(rd)' = Asked(rd)
    BY <1>1 DEF Asked
  <2> QED
    BY <1>1, <2>1, <2>2 DEF IInv, Offsets, Reading, ReadIn, Early
<1>13. Writing'
  <2>1. /\ wr' = [x |-> wr'.x, i |-> wr'.i, ctr |-> wr'.ctr]
        /\ wr'.x \in Comp /\ wr'.i \in 0 .. L /\ wr'.ctr \in 0 .. NB - 1
        /\ wr'.i = L => wr'.x = 0 /\ wr'.ctr = 0
        /\ \A x \in Comp : \A q \in Prime : \A j \in Word0 :
             Written(x, q, j)' <=> Written(x, q, j) \/ (x = wr.x /\ q = wr.i /\ j - wr.ctr * B \in 0 .. B - 1)
    BY <1>1, <1>3, WrittenGrows
  <2>2. ASSUME NEW c \in Channel, NEW x \in Comp, NEW q \in Prime, NEW j \in Word0
        PROVE  hbm'["p3"][c][At3(x, q, j)] = IF Written(x, q, j)' THEN <<"out", <<x, q>>, PC * j + c>> ELSE None
    <3>1. /\ (At3(x, q, j) - a \in 0 .. B - 1) <=> (x = wr.x /\ q = wr.i /\ j - m \in 0 .. B - 1)
          /\ x = wr.x /\ q = wr.i => m + At3(x, q, j) - a = j
      BY <1>1, <1>3, BurstHolds
    <3>2. At3(x, q, j) \in Range0("p3")
      BY Results3
    <3>3. Written(x, q, j)' <=> Written(x, q, j) \/ (x = wr.x /\ q = wr.i /\ j - m \in 0 .. B - 1)
      BY <2>1
    <3>4. old[c][At3(x, q, j)] = IF Written(x, q, j) THEN <<"out", <<x, q>>, PC * j + c>> ELSE None
      BY <1>2, <1>3 DEF Writing
    <3> HIDE DEF a, m, old
    <3>5. hbm'["p3"][c][At3(x, q, j)] = IF At3(x, q, j) - a \in 0 .. B - 1
                                        THEN <<"out", <<wr.x, wr.i>>, PC * (m + At3(x, q, j) - a) + c>>
                                        ELSE old[c][At3(x, q, j)]
      BY <1>7, <3>2
    <3>6. CASE x = wr.x /\ q = wr.i /\ j - m \in 0 .. B - 1
      <4>1. hbm'["p3"][c][At3(x, q, j)] = <<"out", <<wr.x, wr.i>>, PC * (m + At3(x, q, j) - a) + c>>
        BY <3>1, <3>5, <3>6, Zenon
      <4>2. hbm'["p3"][c][At3(x, q, j)] = <<"out", <<x, q>>, PC * j + c>>
        BY <3>1, <3>6, <4>1, Zenon
      <4> QED
        BY <3>3, <3>6, <4>2, Zenon
    <3>7. CASE ~(x = wr.x /\ q = wr.i /\ j - m \in 0 .. B - 1)
      <4>1. hbm'["p3"][c][At3(x, q, j)] = old[c][At3(x, q, j)]
        BY <3>1, <3>5, <3>7, Zenon
      <4>2. Written(x, q, j)' <=> Written(x, q, j)
        BY <3>3, <3>7, Zenon
      <4> QED
        BY <3>4, <4>1, <4>2, Zenon
    <3> QED
      BY <3>6, <3>7
  <2>3. \A x, q, j : At3(x, q, j)' = At3(x, q, j)
    BY DEF At3
  <2> QED
    BY <1>2, <2>1, <2>2, <2>3 DEF Writing
<1>14. Files'
  <2>1. status' # EXIT_SUCCESS
    BY DEF Running, EXIT_SUCCESS
  <2>2. step' \notin Over \cup {"write_poly"}
    BY <1>1, <1>2
  <2> QED
    BY <1>1, <1>2, <2>1, <2>2 DEF IInv, Files, Row, Expected
<1>15. Keeps
  <2> SUFFICES ASSUME NEW p \in Port, NEW c \in Channel, NEW b \in Range0(p), hbm[p][c][b] # None
               PROVE  hbm'[p][c][b] = hbm[p][c][b]
    BY <1>3, Domains DEF Keeps
  <2> SUFFICES ASSUME p = "p3", b - a \in 0 .. B - 1 PROVE FALSE
    BY <1>6, <1>7
  <2> DEFINE j == m + (b - a)
             s == At3(wr.x, wr.i, 0)
  <2>1. m \in Nat /\ m + B =< POLY_CC /\ s \in Nat /\ a = s + m /\ wr.x \in Comp /\ wr.i \in Prime
    BY <1>1, <1>3, WriteAddress
  <2>2. POLY_CC \in Nat /\ B \in Nat /\ b \in Nat
    BY <1>4, Constants, Sizes DEF Range0
  <2>3. j \in Word0 /\ ~(j < m) /\ b = s + j
    <3> HIDE DEF m, a, s
    <3> QED
      BY <2>1, <2>2 DEF Word0
  <2> HIDE DEF j
  <2>4. At3(wr.x, wr.i, j) = s + j
    BY <2>1, <2>3, Results3
  <2>5. ~Written(wr.x, wr.i, j)
    <3>1. wr.x \in Nat /\ wr.i \in Nat
      BY <2>1 DEF Comp, Prime
    <3> QED
      BY <2>3, <3>1 DEF Written
  <2>6. old[c][At3(wr.x, wr.i, j)] = None
    BY <1>2, <1>3, <2>1, <2>3, <2>5 DEF Writing
  <2> QED
    BY <2>3, <2>4, <2>6
<1> QED
  BY <1>10, <1>11, <1>12, <1>13, <1>14, <1>15 DEF IInv

-----------------------------------------------------------------------------
(***************************************************************************)
(* The host reads the results.                                             *)
(***************************************************************************)
\* What a coalesced read of a row and the postprocessing make of a result in the buffer.
LEMMA ResultRead ==
  ASSUME NEW m, NEW x \in Comp, NEW q \in Prime, NEW at, at = x * CtWords,
         \A c \in Channel : \A j \in Word0 : m[c][At3(x, q, j)] = <<"out", <<x, q>>, PC * j + c>>
  PROVE  Postprocess(ReadRow(m, q, at, TRUE)) = File("out", <<x, q>>)
<1> DEFINE in == ReadRow(m, q, at, TRUE)
<1>1. \A f \in Flat : in[f] = m[f \div POLY_CC][at + q * POLY_CC + (f % POLY_CC)]
  BY DEF ReadRow
<1> HIDE DEF in
<1>2. ASSUME NEW k \in Flat PROVE in[(k % PC) * POLY_CC + (k \div PC)] = <<"out", <<x, q>>, k>>
  <2> DEFINE c == k % PC
             j == k \div PC
             f == c * POLY_CC + j
  <2>1. c \in Channel /\ j \in Word0 /\ PC * j + c = k
    BY OfFlat
  <2> HIDE DEF c, j
  <2>2. f \in Flat
    BY <2>1, InFlat
  <2>3. f \div POLY_CC = c /\ f % POLY_CC = j
    <3>1. POLY_CC \in Nat \ {0} /\ c \in Nat /\ j \in 0 .. POLY_CC - 1
      BY <2>1, Constants DEF Channel, Word0
    <3> QED
      BY <3>1, Split
  <2> HIDE DEF f
  <2>4. in[f] = m[c][at + q * POLY_CC + j]
    BY <1>1, <2>2, <2>3
  <2>5. at + q * POLY_CC + j = At3(x, q, j)
    BY DEF At3
  <2>6. in[f] = <<"out", <<x, q>>, k>>
    BY <2>1, <2>4, <2>5
  <2> QED
    BY <2>6 DEF f, c, j
<1>3. Postprocess(in) = [k \in Flat |-> <<"out", <<x, q>>, k>>]
  BY <1>2 DEF Postprocess
<1> QED
  BY <1>3 DEF in, File

\* Two syncs take the whole buffer of port p3.
LEMMA SyncTwice ==
  ASSUME NEW to, NEW from, Banks("p3", to)
  PROVE  LET m == Sync(Sync(to, from, 0, CtWords), from, CtWords, CtWords)
         IN Banks("p3", m) /\ \A c \in Channel : \A a \in Range0("p3") : m[c][a] = from[c][a]
<1>1. CtWords \in Nat /\ Size("p3") = CtWords + CtWords /\ "p3" \in Port /\ 0 \in Nat
  BY Constants, Sizes DEF Port
<1> DEFINE half == Sync(to, from, 0, CtWords)
           m    == Sync(half, from, CtWords, CtWords)
<1>2. /\ Banks("p3", half)
      /\ \A c \in Channel : \A a \in Range0("p3") :
           half[c][a] = IF a - 0 \in 0 .. CtWords - 1 THEN from[c][a] ELSE to[c][a]
  BY <1>1, SyncTakes
<1> HIDE DEF half
<1>3. /\ Banks("p3", m)
      /\ \A c \in Channel : \A a \in Range0("p3") :
           m[c][a] = IF a - CtWords \in 0 .. CtWords - 1 THEN from[c][a] ELSE half[c][a]
  <2>1. \A c \in Channel : DOMAIN half[c] = Range0("p3")
    <3> SUFFICES ASSUME NEW c \in Channel PROVE DOMAIN half[c] = Range0("p3")
      OBVIOUS
    <3>1. half[c] = [a \in Range0("p3") |-> half[c][a]]
      BY <1>2 DEF Banks
    <3> QED
      BY <3>1
  <2>2. m = [c \in Channel |-> [a \in Range0("p3") |->
               IF a - CtWords \in 0 .. CtWords - 1 THEN from[c][a] ELSE half[c][a]]]
    BY <2>1 DEF Sync
  <2> HIDE DEF m
  <2> QED
    BY <2>2 DEF Banks
<1> HIDE DEF m
<1>4. ASSUME NEW c \in Channel, NEW a \in Range0("p3") PROVE m[c][a] = from[c][a]
  <2>1. a - 0 \in 0 .. CtWords - 1 \/ a - CtWords \in 0 .. CtWords - 1
    BY <1>1 DEF Range0
  <2> QED
    BY <1>2, <1>3, <2>1
<1> QED
  BY <1>3, <1>4 DEF m, half

\* The results the host reads are those the port wrote, in the order of the vectors.
LEMMA ReadResultsStep ==
  ASSUME IInv, Running, UNCHANGED <<files, aborted, status>>, ReadResults
  PROVE  IInv' /\ Keeps
<1> DEFINE to   == bo["p3"]
           from == hbm["p3"]
           half == Sync(to, from, 0, CtWords)
           m    == Sync(half, from, CtWords, CtWords)
<1>0. L * POLY_CC = CtWords /\ CtWords \in Nat /\ Size("p3") = CtWords + CtWords /\ 0 * CtWords = 0 /\ 1 * CtWords = CtWords
  BY Products, Constants, Sizes
<1>1. /\ step = "results" /\ step' = "write_ct_rl" /\ UNCHANGED <<vec, hbm, rd, wr, fault, poly>>
      /\ bo' = [bo EXCEPT !["p3"] = m]
      /\ \A x \in Comp : \A r \in Prime :
           ct_rl'[x][r] = Postprocess(ReadRow(bo'["p3"], r, IF x = 0 THEN 0 ELSE CtWords, TRUE))
  <2> DEFINE at(x) == IF x = 0 THEN 0 ELSE L * POLY_CC
  <2>1. /\ step = "results" /\ step' = "write_ct_rl" /\ UNCHANGED <<vec, hbm, rd, wr, fault, poly>>
        /\ bo' = [bo EXCEPT !["p3"] = Sync(Sync(@, hbm["p3"], at(0), L * POLY_CC), hbm["p3"], at(1), L * POLY_CC)]
        /\ ct_rl' = [x \in Comp |-> [r \in 0 .. L - 1 |-> Postprocess(ReadRow(bo'["p3"], r, at(x), TRUE))]]
    BY DEF ReadResults
  <2>2. at(0) = 0 /\ at(1) = CtWords
    BY <1>0
  <2>3. \A x : at(x) = IF x = 0 THEN 0 ELSE CtWords
    BY <1>0
  <2> HIDE DEF at
  <2>4. bo' = [bo EXCEPT !["p3"] = m]
    BY <1>0, <2>1, <2>2
  <2>5. ASSUME NEW x \in Comp, NEW r \in Prime
        PROVE  ct_rl'[x][r] = Postprocess(ReadRow(bo'["p3"], r, IF x = 0 THEN 0 ELSE CtWords, TRUE))
    <3>1. ct_rl'[x][r] = Postprocess(ReadRow(bo'["p3"], r, at(x), TRUE))
      BY <2>1 DEF Prime
    <3> QED
      BY <2>3, <3>1, Zenon
  <2> QED
    BY <2>1, <2>4, <2>5
<1>2. /\ step \notin Early /\ step' \notin Early \cup DOMAIN LaidAt /\ Done = Object /\ Kinds' /\ "p3" \in Port
      /\ step' \in Over /\ step \in Over /\ step' \notin Object \cup {"readback", "write_poly"}
  BY <1>1 DEF Early, LaidAt, Done, Kinds, IInv, Port, Over, Object, Rows
<1>3. Shape(bo) /\ Shape(hbm) /\ Writing
  BY <1>2 DEF IInv, Buffers
<1>4. Banks("p3", to)
  BY <1>2, <1>3 DEF Shape, Banks
<1> HIDE DEF to, from
<1>5. Banks("p3", m)
  BY <1>4, SyncTwice
<1>6. \A c \in Channel : \A a \in Range0("p3") : m[c][a] = from[c][a]
  BY <1>4, SyncTwice
<1> HIDE DEF half, m
<1>7. Shape(bo') /\ bo'["p3"] = m
  BY <1>1, <1>2, <1>3, <1>5, Synced
<1>8. Buffers' /\ Offsets' /\ Reading' /\ Writing' /\ ReadIn'
  BY <1>1, <1>2, <1>7, SameDevice
<1>9. ~aborted => \A x \in Comp : \A r \in Prime : ct_rl'[x][r] = File("out", <<x, r>>)
  <2> SUFFICES ASSUME ~aborted, NEW x \in Comp, NEW r \in Prime PROVE ct_rl'[x][r] = File("out", <<x, r>>)
    OBVIOUS
  <2>1. wr.i = L
    BY <1>2 DEF IInv, Files
  <2>2. ASSUME NEW c \in Channel, NEW j \in Word0 PROVE m[c][At3(x, r, j)] = <<"out", <<x, r>>, PC * j + c>>
    <3>1. Written(x, r, j)
      BY <2>1, Constants DEF Written, Prime
    <3>2. hbm["p3"][c][At3(x, r, j)] = <<"out", <<x, r>>, PC * j + c>>
      BY <1>2, <1>3, <3>1 DEF Writing
    <3>3. At3(x, r, j) \in Range0("p3")
      BY Results3
    <3> QED
      BY <1>6, <3>2, <3>3 DEF from
  <2>3. (IF x = 0 THEN 0 ELSE CtWords) = x * CtWords
    BY <1>0 DEF Comp
  <2>4. Postprocess(ReadRow(m, r, IF x = 0 THEN 0 ELSE CtWords, TRUE)) = File("out", <<x, r>>)
    <3> DEFINE at == IF x = 0 THEN 0 ELSE CtWords
    <3> HIDE DEF at
    <3>1. at = x * CtWords => Postprocess(ReadRow(m, r, at, TRUE)) = File("out", <<x, r>>)
      BY <2>2, ResultRead, Zenon
    <3> QED
      BY <2>3, <3>1 DEF at
  <2> QED
    BY <1>1, <1>7, <2>4
<1>10. Files'
  <2>1. status' # EXIT_SUCCESS
    BY DEF Running, EXIT_SUCCESS
  <2>2. \A x, r : File(x, r)' = File(x, r)
    BY DEF File
  <2>3. \A f : Expected(f)' = Expected(f)
    BY <1>1 DEF Expected, Row
  <2>4. \A r : Row("ct_2", r)' = Row("ct_2", r)
    BY <1>1 DEF Row
  <2>5. step' # "write_poly" /\ step' \notin Early \cup Object \cup {"readback"}
    BY <1>2
  <2> QED
    BY <1>1, <1>2, <1>9, <2>1, <2>2, <2>3, <2>4, <2>5 DEF IInv, Files
<1>11. Keeps
  BY <1>1 DEF Keeps
<1> QED
  BY <1>2, <1>8, <1>10, <1>11 DEF IInv

-----------------------------------------------------------------------------
(***************************************************************************)
(* The end of a run, and the files.                                        *)
(***************************************************************************)
LEMMA RunOverStep ==
  ASSUME IInv, RunDone \/ RunGivenUp
  PROVE  IInv' /\ Keeps
<1>1. /\ step = "kernel" /\ step' = "results" /\ UNCHANGED <<vec, bo, hbm, wr, fault, files, status>> /\ Running
      /\ rd' = rd \/ rd' = NoBurst
      /\ ~aborted' => wr.i = L
      /\ aborted' = aborted \/ aborted' = TRUE
  BY DEF RunDone, RunGivenUp, At, RunOver, hostVars
<1>2. /\ step \notin Early /\ step' \notin Early \cup DOMAIN LaidAt /\ Done = Object /\ Kinds'
      /\ step' \in Over /\ step \notin Over /\ step' \notin Early \cup Object \cup {"readback", "write_poly", "write_ct_rl"}
  BY <1>1 DEF Early, LaidAt, Done, Kinds, IInv, Over, Object, Rows
<1>3. Shape(bo')
  BY <1>1, <1>2 DEF IInv, Buffers, Shape
<1>4. Buffers' /\ Offsets' /\ Reading' /\ Writing' /\ ReadIn'
  BY <1>1, <1>2, <1>3, SameDevice
<1>5. Files'
  <2>1. status' # EXIT_SUCCESS
    BY <1>1 DEF Running, EXIT_SUCCESS
  <2>2. \A f \in DOMAIN files : IsReadback(f) /\ files[f] = Lines(Row("ct_2", f[2]))
    BY <1>2 DEF IInv, Files
  <2>3. \A r : Row("ct_2", r)' = Row("ct_2", r)
    BY <1>1 DEF Row
  <2> QED
    BY <1>1, <1>2, <2>1, <2>2, <2>3 DEF Files
<1>6. Keeps
  BY <1>1 DEF Keeps
<1> QED
  BY <1>2, <1>4, <1>5, <1>6 DEF IInv

\* The names of the files, and what is written into one.
LEMMA FilesNamed ==
  /\ Len(Readback) = 2 /\ \A k \in 1 .. 2 : IsReadback(Readback[k])
  /\ Len(ResultFiles) = 2 * L /\ \A k \in 1 .. 2 * L : IsResult(ResultFiles[k])
<1>1. L \in Nat \ {0} /\ 2 * L \in Nat
  BY Constants
<1>2. Len(ResultFiles) = 2 * L
  BY <1>1 DEF ResultFiles
<1>3. ASSUME NEW k \in 1 .. 2 * L PROVE IsResult(ResultFiles[k])
  <2> DEFINE x == IF k =< L THEN 0 ELSE 1
             r == (k - 1) % L
  <2>1. r \in Prime
    <3>1. k - 1 \in Nat
      BY <1>1
    <3> QED
      BY <1>1, <3>1 DEF Prime
  <2>2. x \in Comp
    BY DEF Comp
  <2>3. ResultFiles[k] = <<Name(x), r>>
    BY DEF ResultFiles, Name
  <2> HIDE DEF x, r
  <2> QED
    BY <2>1, <2>2, <2>3 DEF IsResult
<1>4. Len(Readback) = 2 /\ \A k \in 1 .. 2 : IsReadback(Readback[k])
  BY DEF Readback, IsReadback
<1> QED
  BY <1>2, <1>3, <1>4

\* Files are written whole, all of them or the program fails.
LEMMA Wrote ==
  ASSUME NEW from, NEW names, NEW next, NEW last, WriteFiles(from, names, next, last), Len(names) \in Nat
  PROVE  /\ Running /\ step = from
         /\ UNCHANGED <<disk, nread, aborted, vec, offset, bo, hbm, rd, wr, fault, poly, ct_rl>>
         /\ \A f \in DOMAIN files' : \/ \E k \in 1 .. Len(names) : f = names[k] /\ files'[f] = Lines(Contents(f))
                                     \/ f \in DOMAIN files /\ files'[f] = files[f]
         /\ \/ step' = step /\ status' = EXIT_FAILURE
            \/ /\ step' = next /\ status' = IF last THEN EXIT_SUCCESS ELSE status
               /\ \A k \in 1 .. Len(names) : names[k] \in DOMAIN files'
<1>1. /\ Running /\ step = from
      /\ UNCHANGED <<disk, nread, aborted, vec, offset, bo, hbm, rd, wr, fault, poly, ct_rl>>
  BY DEF WriteFiles, At
<1>2. PICK n \in 0 .. Len(names) :
        /\ files' = [f \in {names[k] : k \in 1 .. n} \cup DOMAIN files |->
                       IF f \in {names[k] : k \in 1 .. n} THEN Lines(Contents(f)) ELSE files[f]]
        /\ step' = IF n = Len(names) THEN next ELSE step
        /\ status' = IF n < Len(names) THEN EXIT_FAILURE ELSE IF last THEN EXIT_SUCCESS ELSE status
  BY DEF WriteFiles
<1>3. 1 .. n \subseteq 1 .. Len(names)
  OBVIOUS
<1>4. \A f \in DOMAIN files' : \/ \E k \in 1 .. Len(names) : f = names[k] /\ files'[f] = Lines(Contents(f))
                               \/ f \in DOMAIN files /\ files'[f] = files[f]
  <2> DEFINE new == {names[k] : k \in 1 .. n}
  <2>1. \A f \in new : \E k \in 1 .. Len(names) : f = names[k]
    BY <1>3
  <2>2. files' = [f \in new \cup DOMAIN files |-> IF f \in new THEN Lines(Contents(f)) ELSE files[f]]
    BY <1>2
  <2> HIDE DEF new
  <2> QED
    BY <2>1, <2>2
<1>5. \/ step' = step /\ status' = EXIT_FAILURE
      \/ /\ step' = next /\ status' = IF last THEN EXIT_SUCCESS ELSE status
         /\ \A k \in 1 .. Len(names) : names[k] \in DOMAIN files'
  <2>1. CASE n = Len(names)
    BY <1>2, <2>1
  <2>2. CASE n # Len(names)
    BY <1>2, <2>2
  <2> QED
    BY <2>1, <2>2
<1> QED
  BY <1>1, <1>4, <1>5

\* The files of the read-back hold the lines of their vectors.
LEMMA WriteReadbackStep ==
  ASSUME IInv, WriteReadback
  PROVE  IInv' /\ Keeps
<1>1. /\ Running /\ step = "write_poly"
      /\ UNCHANGED <<disk, nread, aborted, vec, offset, bo, hbm, rd, wr, fault, poly, ct_rl>>
      /\ \A f \in DOMAIN files' : \/ \E k \in 1 .. 2 : f = Readback[k] /\ files'[f] = Lines(Contents(f))
                                  \/ f \in DOMAIN files /\ files'[f] = files[f]
      /\ \/ step' = step /\ status' = EXIT_FAILURE
         \/ step' = "kernel" /\ status' = status
  <2>1. WriteFiles("write_poly", Readback, "kernel", FALSE) /\ Len(Readback) = 2
    BY FilesNamed DEF WriteReadback
  <2> DEFINE last == FALSE
             u    == Readback
  <2>2. WriteFiles("write_poly", u, "kernel", last) /\ Len(u) = 2 /\ ~last /\ Len(u) \in Nat
    <3>1. WriteFiles("write_poly", u, "kernel", last) /\ ~last
      BY <2>1, Zenon
    <3>2. Len(u) = 2 /\ Len(u) \in Nat
      BY <2>1
    <3> QED
      BY <3>1, <3>2, Zenon
  <2> HIDE DEF last, u
  <2>3. /\ Running /\ step = "write_poly"
        /\ UNCHANGED <<disk, nread, aborted, vec, offset, bo, hbm, rd, wr, fault, poly, ct_rl>>
        /\ \A f \in DOMAIN files' : \/ \E k \in 1 .. Len(u) : f = u[k] /\ files'[f] = Lines(Contents(f))
                                    \/ f \in DOMAIN files /\ files'[f] = files[f]
        /\ \/ step' = step /\ status' = EXIT_FAILURE
           \/ /\ step' = "kernel" /\ status' = IF last THEN EXIT_SUCCESS ELSE status
              /\ \A k \in 1 .. Len(u) : u[k] \in DOMAIN files'
    BY <2>2, Wrote, Zenon
  <2> QED
    BY <2>2, <2>3 DEF u
<1>2. /\ step \notin Early /\ step' \notin Early \cup DOMAIN LaidAt /\ Done = Object /\ Kinds'
      /\ step' \notin Over /\ step \notin Over /\ step' \notin Early \cup Object \cup {"readback"} /\ rd = NoBurst
      /\ status' # EXIT_SUCCESS
  BY <1>1 DEF Early, LaidAt, Done, Kinds, IInv, Reading, Over, Object, Rows, Running, EXIT_SUCCESS, EXIT_FAILURE
<1>3. Shape(bo')
  BY <1>1, <1>2 DEF IInv, Buffers, Shape
<1>4. Buffers' /\ Offsets' /\ Reading' /\ Writing' /\ ReadIn'
  BY <1>1, <1>2, <1>3, SameDevice
<1>5. Files'
  <2>1. \A r \in 0 .. 1 : poly[r] = Row("ct_2", r)
    BY <1>1 DEF IInv, Files
  <2>2. \A f \in DOMAIN files : IsReadback(f) /\ files[f] = Lines(Row("ct_2", f[2]))
    BY <1>2 DEF IInv, Files
  <2>3. \A r : Row("ct_2", r)' = Row("ct_2", r)
    BY <1>1 DEF Row
  <2>4. ASSUME NEW f \in DOMAIN files' PROVE IsReadback(f) /\ files'[f] = Lines(Row("ct_2", f[2]))
    <3>1. CASE \E k \in 1 .. 2 : f = Readback[k] /\ files'[f] = Lines(Contents(f))
      <4>1. IsReadback(f) /\ files'[f] = Lines(Contents(f))
        BY <3>1, FilesNamed
      <4>2. f[1] = "readback" /\ f[2] \in 0 .. 1
        BY <4>1 DEF IsReadback
      <4> QED
        BY <2>1, <4>1, <4>2 DEF Contents
    <3>2. CASE f \in DOMAIN files /\ files'[f] = files[f]
      BY <2>2, <3>2
    <3> QED
      BY <1>1, <3>1, <3>2
  <2>5. ~aborted
    BY <1>2 DEF IInv, Files
  <2> QED
    BY <1>1, <1>2, <2>1, <2>3, <2>4, <2>5 DEF Files
<1>6. Keeps
  BY <1>1 DEF Keeps
<1> QED
  BY <1>2, <1>4, <1>5, <1>6 DEF IInv

\* The files of the results hold the lines of their vectors, and only then is it a success.
LEMMA WriteResultsStep ==
  ASSUME IInv, WriteResults
  PROVE  IInv' /\ Keeps
<1>1. /\ Running /\ step = "write_ct_rl"
      /\ UNCHANGED <<disk, nread, aborted, vec, offset, bo, hbm, rd, wr, fault, poly, ct_rl>>
      /\ \A f \in DOMAIN files' : \/ \E k \in 1 .. 2 * L : f = ResultFiles[k] /\ files'[f] = Lines(Contents(f))
                                  \/ f \in DOMAIN files /\ files'[f] = files[f]
      /\ \/ step' = step /\ status' = EXIT_FAILURE
         \/ step' = "end" /\ \A k \in 1 .. 2 * L : ResultFiles[k] \in DOMAIN files'
  <2>1. WriteFiles("write_ct_rl", ResultFiles, "end", TRUE) /\ Len(ResultFiles) = 2 * L
    BY FilesNamed DEF WriteResults
  <2> DEFINE last == TRUE
             u    == ResultFiles
  <2>2. WriteFiles("write_ct_rl", u, "end", last) /\ Len(u) = 2 * L /\ Len(u) \in Nat
    <3>1. WriteFiles("write_ct_rl", u, "end", last)
      BY <2>1, Zenon
    <3>2. Len(u) = 2 * L /\ 2 * L \in Nat
      BY <2>1, Constants
    <3> QED
      BY <3>1, <3>2
  <2> HIDE DEF last, u
  <2>3. /\ Running /\ step = "write_ct_rl"
        /\ UNCHANGED <<disk, nread, aborted, vec, offset, bo, hbm, rd, wr, fault, poly, ct_rl>>
        /\ \A f \in DOMAIN files' : \/ \E k \in 1 .. Len(u) : f = u[k] /\ files'[f] = Lines(Contents(f))
                                    \/ f \in DOMAIN files /\ files'[f] = files[f]
        /\ \/ step' = step /\ status' = EXIT_FAILURE
           \/ /\ step' = "end" /\ status' = IF last THEN EXIT_SUCCESS ELSE status
              /\ \A k \in 1 .. Len(u) : u[k] \in DOMAIN files'
    BY <2>2, Wrote, Zenon
  <2> QED
    BY <2>2, <2>3 DEF u
<1>2. /\ step \notin Early /\ step' \notin Early \cup DOMAIN LaidAt /\ Done = Object /\ Kinds'
      /\ step' \in Over /\ step \in Over /\ step' \notin Early \cup Object \cup {"readback", "write_poly"}
  BY <1>1 DEF Early, LaidAt, Done, Kinds, IInv, Over, Object, Rows
<1>3. Shape(bo')
  BY <1>1, <1>2 DEF IInv, Buffers, Shape
<1>4. Buffers' /\ Offsets' /\ Reading' /\ Writing' /\ ReadIn'
  BY <1>1, <1>2, <1>3, SameDevice
<1>5. Files'
  <2>1. ~aborted => wr.i = L /\ \A x \in Comp : \A r \in Prime : ct_rl[x][r] = File("out", <<x, r>>)
    BY <1>1, <1>2 DEF IInv, Files
  <2>2. \A f \in DOMAIN files : \/ IsReadback(f) /\ files[f] = Lines(Row("ct_2", f[2]))
                                \/ IsResult(f) /\ (~aborted => files[f] = Lines(Expected(f)))
    BY <1>2 DEF IInv, Files
  <2>3. /\ \A r : Row("ct_2", r)' = Row("ct_2", r)
        /\ \A f : Expected(f)' = Expected(f)
    BY <1>1 DEF Row, Expected
  <2>4. ASSUME NEW f \in DOMAIN files'
        PROVE  \/ IsReadback(f) /\ files'[f] = Lines(Row("ct_2", f[2]))
               \/ IsResult(f) /\ (~aborted => files'[f] = Lines(Expected(f)))
    <3>1. CASE \E k \in 1 .. 2 * L : f = ResultFiles[k] /\ files'[f] = Lines(Contents(f))
      <4>1. IsResult(f) /\ files'[f] = Lines(Contents(f))
        BY <3>1, FilesNamed
      <4>2. PICK x \in Comp, r \in Prime : f = <<Name(x), r>>
        BY <4>1 DEF IsResult
      <4>3. x \in {0, 1}
        BY DEF Comp
      <4>4. Contents(f) = ct_rl[x][r] /\ Expected(f) = File("out", <<x, r>>)
        BY <4>2, <4>3 DEF Contents, Expected, Name
      <4> QED
        BY <2>1, <4>1, <4>4
    <3>2. CASE f \in DOMAIN files /\ files'[f] = files[f]
      BY <2>2, <3>2
    <3> QED
      BY <1>1, <3>1, <3>2
  <2>5. status' = EXIT_SUCCESS => step' = "end" /\ \A k \in 1 .. 2 * L : ResultFiles[k] \in DOMAIN files'
    BY <1>1 DEF EXIT_SUCCESS, EXIT_FAILURE
  <2>6. /\ \A x, r : File(x, r)' = File(x, r)
        /\ ResultFiles' = ResultFiles
    BY DEF File, ResultFiles
  <2> QED
    BY <1>1, <1>2, <2>1, <2>3, <2>4, <2>5, <2>6 DEF Files
<1>6. Keeps
  BY <1>1 DEF Keeps
<1> QED
  BY <1>2, <1>4, <1>5, <1>6 DEF IInv

-----------------------------------------------------------------------------
(***************************************************************************)
(* The theorems.                                                           *)
(***************************************************************************)
LEMMA StepIInv ==
  ASSUME IInv, [Next]_vars
  PROVE  IInv' /\ Keeps
<1>1. CASE Parse \/ Settings \/ OpenDevice \/ LoadXclbin \/ KernelTaken \/ OpenKernel \/ ReadFiles \/ PrepareBO
  <2>1. IInv'
    BY <1>1, OpeningStep, OpenKernelStep, ReadFilesStep, PrepareStep
  <2>2. step \in Early \/ Parse
    BY <1>1 DEF Settings, OpenDevice, LoadXclbin, KernelTaken, Open, OpenKernel, ReadFiles, PrepareBO, At, Early
  <2>3. CASE step \in Early
    <3>1. DOMAIN hbm = {}
      BY <2>3 DEF IInv, Buffers
    <3> QED
      BY <2>1, <3>1 DEF Keeps
  <2>4. CASE Parse
    BY <2>1, <2>4 DEF Parse, layoutVars, Keeps
  <2> QED
    BY <2>2, <2>3, <2>4
<1>2. CASE Move
  <2>1. Running /\ UNCHANGED <<files, aborted, status>>
    BY <1>2 DEF Move, hostVars
  <2>2. LayInputs \/ ReadBack \/ ReadFirst \/ ReadNext \/ WriteBurst \/ ReadResults
    BY <1>2 DEF Move, AdapterStep
  <2> QED
    BY <2>1, <2>2, LayInputsStep, ReadBackStep, ReadBurstStep, WriteBurstStep, ReadResultsStep
<1>3. CASE WriteReadback
  BY <1>3, WriteReadbackStep
<1>4. CASE RunDone \/ RunGivenUp
  BY <1>4, RunOverStep
<1>5. CASE WriteResults
  BY <1>5, WriteResultsStep
<1>6. CASE UNCHANGED vars
  <2>1. UNCHANGED <<step, vec, offset, bo, hbm, rd, wr, fault, poly, ct_rl, disk, nread, files, aborted, status>>
    BY <1>6 DEF vars, layoutVars, hostVars
  <2>2. UNCHANGED <<Kinds, Buffers, Offsets, Reading, Writing>>
    BY <2>1 DEF Kinds, Buffers, Offsets, Reading, Writing, Done, Shape, Laid, Row, Asked, Written
  <2>3. ReadIn'
    BY <2>1 DEF IInv, ReadIn, ReadWords, BadBefore, Bad, LinesOf
  <2>4. Files'
    BY <2>1 DEF IInv, Files, Row, Expected
  <2>5. Keeps
    BY <2>1 DEF Keeps
  <2> QED
    BY <2>2, <2>3, <2>4, <2>5 DEF IInv
<1> QED
  BY <1>1, <1>2, <1>3, <1>4, <1>5, <1>6 DEF Next

\* What is inductive: the map of the memories, the two counters of the adapter and what the host has read.
THEOREM Invariant == Spec => []IInv
<1>1. IInv /\ [Next]_vars => IInv'
  BY StepIInv
<1> QED
  BY <1>1, InitIInv, PTL DEF Spec

\* kernel.cpp and relin_hbm_adapter.sv compute the offsets apart from each other: for no number of primes
\* or channels and no size of a polynomial or a burst does an access leave the buffer the host allocates.
THEOREM BuffersCorrect == Spec => []InBuffers
<1>1. IInv => InBuffers
  BY DEF IInv, Kinds, InBuffers
<1> QED
  BY <1>1, Invariant, PTL

\* Every beat of a read port is the words of the polynomial the core has asked for, in the order of the
\* host's vector: neither the offsets nor the split over the channels nor the syncs can mix rows up.
THEOREM ReadsCorrect == Spec => []ReadsRight
<1>1. ASSUME IInv PROVE ReadsRight
  <2>1. CASE rd = NoBurst
    BY <2>1 DEF ReadsRight, NoBurst
  <2>2. CASE rd # NoBurst
    BY <1>1, <2>2 DEF IInv, Reading, ReadsRight
  <2> QED
    BY <2>1, <2>2
<1> QED
  BY <1>1, Invariant, PTL

\* No write of the host or of the write port changes a word written before: two objects never overlap.
THEOREM NothingLost == Spec => NothingOverwritten
<1>1. IInv /\ [Next]_vars => [Keeps]_layoutVars
  BY StepIInv
<1> QED
  BY <1>1, Invariant, PTL DEF Spec, NothingOverwritten, Keeps

\* Every file is right line by line, whatever the input files lack and whichever file fails to open.
THEOREM HostReadsCorrect == Spec => []HostReadsRight
<1>1. ASSUME IInv PROVE HostReadsRight
  <2> SUFFICES ASSUME NEW f \in DOMAIN files, f[1] = "readback" \/ ~aborted PROVE files[f] = Lines(Expected(f))
    BY DEF HostReadsRight
  <2>1. CASE IsReadback(f) /\ files[f] = Lines(Row("ct_2", f[2]))
    <3>1. f[1] = "readback"
      BY <2>1 DEF IsReadback
    <3> QED
      BY <2>1, <3>1 DEF Expected
  <2>2. CASE IsResult(f) /\ (~aborted => files[f] = Lines(Expected(f)))
    <3>1. f[1] # "readback"
      BY <2>2 DEF IsResult, Name
    <3> QED
      BY <2>2, <3>1
  <2> QED
    BY <1>1, <2>1, <2>2 DEF IInv, Files
<1> QED
  BY <1>1, Invariant, PTL

\* A program that ends with 0 has written every file; and behind the first short file of an object
\* the vectors it computes with are zero.
THEOREM SuccessCorrect == Spec => []SuccessIsWhole
<1>1. ASSUME IInv PROVE SuccessIsWhole
  <2>1. status = EXIT_SUCCESS => \A k \in 1 .. 2 * L : ResultFiles[k] \in DOMAIN files
    BY <1>1 DEF IInv, Files
  <2>2. ASSUME step = "bo", NEW o \in DOMAIN Rows, NEW r \in DOMAIN vec[o], NEW s \in DOMAIN vec[o], r < s, vec[o][s] > 0
        PROVE  vec[o][r] = PC * POLY_CC
    <3>1. /\ DOMAIN vec[o] = 0 .. Rows[o] - 1 /\ nread = 7
          /\ \A j \in 1 .. 7 : \A q \in 0 .. Rows[InputOrder[j]] - 1 :
               vec[InputOrder[j]][q] = ReadWords(InputOrder[j], q)
      BY <1>1, <2>2 DEF IInv, ReadIn, Early, Object
    <3>2. \E j \in 1 .. 7 : InputOrder[j] = o
      <4>1. o \in {"ct_2", "psi", "psi_inv", "rlk_0", "ct_0", "ct_1", "rlk_1"}
        BY DEF Rows
      <4>2. /\ InputOrder[1] = "ct_2" /\ InputOrder[2] = "psi" /\ InputOrder[3] = "psi_inv" /\ InputOrder[4] = "rlk_0"
            /\ InputOrder[5] = "ct_0" /\ InputOrder[6] = "ct_1" /\ InputOrder[7] = "rlk_1"
        BY DEF InputOrder
      <4> QED
        BY <4>1, <4>2
    <3>3. vec[o][r] = ReadWords(o, r) /\ vec[o][s] = ReadWords(o, s)
      BY <3>1, <3>2
    <3>4. ~BadBefore(o, s)
      BY <2>2, <3>3 DEF ReadWords
    <3>5. r \in 0 .. s - 1
      BY <2>2, <3>1, Places DEF Object
    <3>6. ~Bad(o, r) /\ ~BadBefore(o, r)
      <4>1. \A b \in 0 .. r - 1 : b \in 0 .. s - 1
        BY <2>2, <3>1, Places DEF Object
      <4> QED
        BY <3>4, <3>5, <4>1 DEF BadBefore
    <3>7. ReadWords(o, r) = (PACK_FACTOR * PC * POLY_CC) \div PACK_FACTOR
      BY <3>6 DEF ReadWords, LinesOf, Bad
    <3>8. (PACK_FACTOR * PC * POLY_CC) \div PACK_FACTOR = PC * POLY_CC
      <4> DEFINE n == PC * POLY_CC
      <4>1. n \in Nat /\ PACK_FACTOR * PC * POLY_CC = n * 2 + 0
        BY Constants DEF PACK_FACTOR
      <4>2. 2 \in Nat \ {0} /\ 0 \in 0 .. 2 - 1
        OBVIOUS
      <4> HIDE DEF n
      <4>3. (n * 2 + 0) \div 2 = n
        BY <4>1, <4>2, Split
      <4> QED
        BY <4>1, <4>3 DEF n, PACK_FACTOR
    <3> QED
      BY <3>3, <3>7, <3>8
  <2> QED
    BY <2>1, <2>2 DEF SuccessIsWhole
<1> QED
  BY <1>1, Invariant, PTL

-----------------------------------------------------------------------------
(***************************************************************************)
(* Smallest and largest elements.                                          *)
(***************************************************************************)
LEMMA Smallest ==
  ASSUME NEW S \in SUBSET Nat, S # {}
  PROVE  \E n \in S : \A m \in S : n =< m
<1>1. PICK n \in S : \A m \in S : ~(<<m, n>> \in OpToRel(<, Nat))
  BY NatLessThanWellFounded, WFMin
<1>2. \A m \in S : ~(m < n)
  BY <1>1 DEF OpToRel
<1> QED
  BY <1>2

\* A lower bound in the set is its minimum.
LEMMA MinIs ==
  ASSUME NEW S \in SUBSET Nat, NEW n \in S, \A m \in S : n =< m
  PROVE  Min(S) = n
<1>1. \E x \in S : \A y \in S : x =< y
  OBVIOUS
<1>2. Min(S) \in S /\ \A y \in S : Min(S) =< y
  BY <1>1 DEF Min
<1>3. Min(S) \in Nat /\ n \in Nat /\ Min(S) =< n /\ n =< Min(S)
  BY <1>2
<1> QED
  BY <1>3

\* An upper bound in the set is its maximum.
LEMMA MaxIs ==
  ASSUME NEW S \in SUBSET Nat, NEW n \in S, \A m \in S : m =< n
  PROVE  Max(S) = n
<1>1. \E x \in S : \A y \in S : x >= y
  OBVIOUS
<1>2. Max(S) \in S /\ \A y \in S : Max(S) >= y
  BY <1>1 DEF Max
<1>3. Max(S) \in Nat /\ n \in Nat /\ Max(S) >= n /\ Max(S) =< n
  BY <1>2
<1> QED
  BY <1>3

-----------------------------------------------------------------------------
(***************************************************************************)
(* The places whose tokens are values. A place is one if the option before *)
(* it takes a value and is not a value itself: a definition by recursion   *)
(* along the command line, which one set satisfies and no other.           *)
(***************************************************************************)
Alternates(V, n, T) == \A j \in 1 .. n : j \in V <=> j > 1 /\ j - 1 \in T /\ j - 1 \notin V

\* There is one way only to tell values from options when every second token of a run is a value.
LEMMA AlternatesUnique ==
  ASSUME NEW n \in Nat, NEW T, NEW V \in SUBSET (1 .. n), NEW W \in SUBSET (1 .. n),
         Alternates(V, n, T), Alternates(W, n, T)
  PROVE  V = W
<1> DEFINE D == {j \in 1 .. n : (j \in V) # (j \in W)}
<1>1. SUFFICES ASSUME D # {} PROVE FALSE
  OBVIOUS
<1>2. PICK j \in D : \A m \in D : j =< m
  <2>1. D \in SUBSET Nat
    OBVIOUS
  <2> HIDE DEF D
  <2> QED
    BY <1>1, <2>1, Smallest
<1>3. j > 1 => (j - 1 \in V <=> j - 1 \in W)
  <2>1. j > 1 => j - 1 \in 1 .. n /\ j - 1 \notin D
    BY <1>2
  <2> QED
    BY <2>1
<1> QED
  BY <1>2, <1>3 DEF Alternates

\* And there is one, for every command line.
LEMMA AlternatesExist ==
  ASSUME NEW T, NEW n \in Nat
  PROVE  \E V \in SUBSET (1 .. n) : Alternates(V, n, T)
<1> DEFINE Ex(k) == \E V \in SUBSET (1 .. k) : Alternates(V, k, T)
           F == {k \in Nat : ~Ex(k)}
<1>1. SUFFICES ASSUME F # {} PROVE FALSE
  OBVIOUS
<1>2. PICK k \in F : \A m \in F : k =< m
  <2>1. F \in SUBSET Nat
    OBVIOUS
  <2> HIDE DEF F
  <2> QED
    BY <1>1, <2>1, Smallest
<1>3. Ex(0)
  <2>1. {} \in SUBSET (1 .. 0) /\ Alternates({}, 0, T)
    BY DEF Alternates
  <2> QED
    BY <2>1
<1>4. k # 0 /\ k - 1 \in Nat /\ Ex(k - 1)
  <2>1. k \in Nat /\ k # 0
    BY <1>2, <1>3
  <2>2. k - 1 \in Nat /\ k - 1 \notin F
    BY <1>2, <2>1
  <2> QED
    BY <2>1, <2>2
<1>5. PICK V \in SUBSET (1 .. k - 1) : Alternates(V, k - 1, T)
  BY <1>4
<1> DEFINE W == IF k > 1 /\ k - 1 \in T /\ k - 1 \notin V THEN V \cup {k} ELSE V
<1>6. W \in SUBSET (1 .. k)
  BY <1>4, <1>5
<1>7. Alternates(W, k, T)
  <2> SUFFICES ASSUME NEW j \in 1 .. k PROVE j \in W <=> j > 1 /\ j - 1 \in T /\ j - 1 \notin W
    BY DEF Alternates
  <2>1. k \notin V /\ j - 1 # k
    BY <1>4, <1>5
  <2>2. j - 1 \in W <=> j - 1 \in V
    BY <2>1
  <2>3. CASE j = k
    BY <2>1, <2>2, <2>3
  <2>4. CASE j # k
    <3>1. j \in 1 .. k - 1 /\ (j \in W <=> j \in V)
      BY <1>4, <2>4
    <3>2. j \in V <=> j > 1 /\ j - 1 \in T /\ j - 1 \notin V
      BY <1>5, <3>1 DEF Alternates
    <3> QED
      BY <2>2, <3>1, <3>2
  <2> QED
    BY <2>3, <2>4
<1>8. Ex(k)
  <2> HIDE DEF W
  <2> QED
    BY <1>6, <1>7
<1> QED
  BY <1>2, <1>8

-----------------------------------------------------------------------------
(***************************************************************************)
(* The invariant of the parser.                                            *)
(***************************************************************************)
Value0 == Token \cup {Text("false"), Text("true")}
Entry  == [istoggle : BOOLEAN, default : Value0, value : Value0, isvalid : BOOLEAN]

\* The maps point into each other, and --help is always there.
Maps ==
  /\ keys \in [DOMAIN keys -> Entry]
  /\ \A k \in DOMAIN keys : k[1] >= 2
  /\ Help \in DOMAIN keys /\ keys[Help].istoggle
  /\ \A s \in DOMAIN shortcuts : shortcuts[s] \in DOMAIN keys
  /\ default_key \in DOMAIN keys \cup {Empty}

Types ==
  /\ client \in DOMAIN Clients /\ called \in 0 .. Len(Clients[client])
  /\ argv \in Seq(Token) /\ argv # <<>> /\ i \in 1 .. Len(argv) + 1
  /\ ctOptions \in 0 .. Len(argv) /\ parsed \in Results
  /\ Maps

\* The places parse cannot pass, and the options before place n.
Stop        == Stops["unknown"] \cup Stops["help"] \cup Stops["crash"]
OptionsTo(n) == {j \in Options : j < n}
GivenTo(n, k) == {j \in OptionsTo(n) : Named(j) = k}

\* Switch k has the value it gets from the options G.
Means(k, G) ==
  /\ keys[k].value = IF G = {} THEN keys[k].default ELSE IF keys[k].istoggle THEN Text("true") ELSE argv[Max(G) + 1]
  /\ keys[k].isvalid <=> keys[k].istoggle \/ G # {}

\* The parse has come to place n.
ParsedTo(n) ==
  /\ \A j \in Stop : j >= n
  /\ ctOptions = Cardinality(OptionsTo(n))
  /\ \A k \in DOMAIN keys : Means(k, GivenTo(n, k))

ParserInv ==
  /\ Types
  /\ called < Len(Clients[client]) /\ parsed = "no" => i = 1
  /\ parsed = "no" => i \notin Values /\ ParsedTo(i)
  /\ ParseRight

-----------------------------------------------------------------------------
(***************************************************************************)
(* What the places mean.                                                   *)
(***************************************************************************)
LEMMA TypesOK == Types => ParserTypeOK
BY DEF Types, Maps, Entry, ParserTypeOK

ValuesRight == Values \in SUBSET Place /\ \A j \in Place : j \in Values <=> j > 1 /\ TakesValue(j - 1) /\ j - 1 \notin Values

\* The places of values are the ones the parser's rule of taking a token after an option makes.
LEMMA ValuesAre == Len(argv) \in Nat => ValuesRight
<1> SUFFICES ASSUME Len(argv) \in Nat PROVE ValuesRight
  OBVIOUS
<1> DEFINE T == {j \in Place : TakesValue(j)}
           P(V) == \A j \in Place : j \in V <=> j > 1 /\ TakesValue(j - 1) /\ j - 1 \notin V
<1>1. PICK V \in SUBSET Place : Alternates(V, Len(argv), T)
  BY AlternatesExist DEF Place
<1>2. P(V)
  <2> SUFFICES ASSUME NEW j \in Place PROVE j \in V <=> j > 1 /\ TakesValue(j - 1) /\ j - 1 \notin V
    OBVIOUS
  <2>1. j \in V <=> j > 1 /\ j - 1 \in T /\ j - 1 \notin V
    BY <1>1 DEF Alternates, Place
  <2>2. j > 1 => j - 1 \in Place
    BY DEF Place
  <2> QED
    BY <2>1, <2>2
<1>3. \E U \in SUBSET Place : P(U)
  BY <1>1, <1>2
<1>4. Values = CHOOSE U \in SUBSET Place : P(U)
  BY DEF Values
<1> HIDE DEF P
<1>5. Values \in SUBSET Place /\ P(Values)
  BY <1>3, <1>4
<1> QED
  BY <1>5 DEF P, ValuesRight

\* The options, and what a place that stops the parse is.
LEMMA OptionsAre ==
  /\ \A j : j \in Options <=> j \in Place /\ j \notin Values /\ NamesOption(j)
  /\ \A j : j \in Stop <=> /\ j \in Place /\ j \notin Values
                           /\ \/ argv[j][1] > 0 /\ ~NamesOption(j)
                              \/ NamesOption(j) /\ (Named(j) = Help \/ (TakesValue(j) /\ j = Len(argv)))
<1>1. \A j : j \in Options <=> j \in Place /\ j \notin Values /\ NamesOption(j)
  BY DEF Options
<1>2. /\ Stops["unknown"] = {j \in Place \ Values : argv[j][1] > 0 /\ j \notin Options}
      /\ Stops["help"] = {j \in Options : Named(j) = Help}
      /\ Stops["crash"] = {j \in Options : TakesValue(j) /\ j = Len(argv)}
  BY DEF Stops
<1> QED
  BY <1>1, <1>2 DEF Stop

\* A place that names an option names a switch there is.
LEMMA NamedIsKey ==
  ASSUME Types, NEW j \in Place, NamesOption(j)
  PROVE  Named(j) \in DOMAIN keys
<1>1. argv[j] \in Token /\ argv[j][1] \in 0 .. 3 /\ Named(j) # Empty
  BY DEF Types, Place, NamesOption, Token
<1>2. CASE argv[j][1] = 0
  BY <1>1, <1>2 DEF Named, Types, Maps
<1>3. CASE argv[j][1] = 1
  <2>1. Named(j) = IF argv[j] \in DOMAIN shortcuts THEN shortcuts[argv[j]] ELSE Empty
    BY <1>3 DEF Named
  <2> QED
    BY <1>1, <2>1 DEF Types, Maps
<1>4. CASE argv[j][1] >= 2
  <2>1. Named(j) = IF argv[j] \in DOMAIN keys THEN argv[j] ELSE Empty
    BY <1>4 DEF Named
  <2> QED
    BY <1>1, <2>1
<1> QED
  BY <1>1, <1>2, <1>3, <1>4

\* What parse does with the token that comes next is what its place means.
LEMMA Here ==
  ASSUME Types, i =< Len(argv)
  PROVE  /\ i \in Place /\ token = argv[i] /\ token[1] \in 0 .. 3
         /\ Known(token) \/ AtDefault <=> NamesOption(i)
         /\ NamesOption(i) => Key = Named(i) /\ Key \in DOMAIN keys
         /\ token[1] > 0 => (Known(token) <=> NamesOption(i))
<1>1. i \in Place /\ token = argv[i] /\ token \in Token /\ token[1] \in 0 .. 3
  BY DEF Types, Place, token, Token
<1>2. Empty \notin DOMAIN keys
  <2>1. Empty[1] = 0
    BY DEF Empty, Text
  <2> QED
    BY <2>1 DEF Types, Maps
<1>3. CASE token[1] = 0
  <2>1. Named(i) = default_key /\ ~Known(token)
    BY <1>1, <1>3 DEF Named, Known
  <2>2. AtDefault <=> NamesOption(i)
    <3>1. AtDefault <=> default_key # Empty /\ i + 1 = Len(argv) /\ ~isNextTokenKey
      BY <1>3 DEF AtDefault, Types
    <3>2. i + 1 = Len(argv) => (isNextTokenKey <=> Known(argv[Len(argv)]))
      BY DEF isNextTokenKey, Types
    <3>3. NamesOption(i) <=> default_key # Empty /\ i + 1 = Len(argv) /\ ~Known(argv[Len(argv)])
      BY <1>1, <1>3, <2>1 DEF NamesOption
    <3> QED
      BY <3>1, <3>2, <3>3
  <2>3. NamesOption(i) => Key = Named(i)
    BY <2>1, <2>2 DEF Key
  <2> QED
    BY <1>1, <1>3, <2>1, <2>2, <2>3, NamedIsKey
<1>4. CASE token[1] = 1
  <2>1. Named(i) = IF token \in DOMAIN shortcuts THEN shortcuts[token] ELSE Empty
    BY <1>1, <1>4 DEF Named
  <2>2. (Known(token) <=> token \in DOMAIN shortcuts) /\ FullKey(token) = shortcuts[token] /\ ~AtDefault
    BY <1>4 DEF Known, FullKey, AtDefault
  <2>3. NamesOption(i) <=> token \in DOMAIN shortcuts
    BY <1>1, <1>2, <1>4, <2>1 DEF NamesOption, Types, Maps
  <2>4. NamesOption(i) => Key = Named(i)
    BY <2>1, <2>2, <2>3 DEF Key
  <2> QED
    BY <1>1, <1>4, <2>2, <2>3, <2>4, NamedIsKey
<1>5. CASE token[1] >= 2
  <2>1. Named(i) = IF token \in DOMAIN keys THEN token ELSE Empty
    BY <1>1, <1>5 DEF Named
  <2>2. (Known(token) <=> token \in DOMAIN keys) /\ FullKey(token) = token /\ ~AtDefault
    BY <1>5 DEF Known, FullKey, AtDefault
  <2>3. NamesOption(i) <=> token \in DOMAIN keys
    BY <1>1, <1>2, <1>5, <2>1 DEF NamesOption
  <2>4. NamesOption(i) => Key = Named(i)
    BY <2>1, <2>2, <2>3 DEF Key
  <2> QED
    BY <1>1, <1>5, <2>2, <2>3, <2>4, NamedIsKey
<1> QED
  BY <1>1, <1>3, <1>4, <1>5

\* The meaning does not change while the arguments are parsed: values of switches are no part of it.
SameSwitches ==
  /\ DOMAIN keys' = DOMAIN keys
  /\ \A k \in DOMAIN keys : keys'[k].istoggle = keys[k].istoggle /\ keys'[k].default = keys[k].default
  /\ UNCHANGED <<client, called, argv, shortcuts, default_key>>

\* What tokens mean depends on the switches and not on the values they have been given.
LEMMA SameMeaning ==
  ASSUME Types, Types', SameSwitches
  PROVE  /\ Place' = Place /\ Values' = Values /\ Options' = Options
         /\ \A j \in Place : (NamesOption(j)' <=> NamesOption(j)) /\ Named(j)' = Named(j) /\ (TakesValue(j)' <=> TakesValue(j))
<1>1. Place' = Place /\ argv' = argv /\ Len(argv) \in Nat
  BY DEF SameSwitches, Place, Types
<1>2. \A j \in Place : Named(j)' = Named(j)
  BY DEF Named, SameSwitches
<1>3. \A j \in Place : NamesOption(j)' <=> NamesOption(j)
  BY <1>2 DEF NamesOption, Known, SameSwitches
<1>4. \A j \in Place : TakesValue(j)' <=> TakesValue(j)
  <2> SUFFICES ASSUME NEW j \in Place PROVE TakesValue(j)' <=> TakesValue(j)
    OBVIOUS
  <2>1. TakesValue(j) <=> NamesOption(j) /\ ~keys[Named(j)].istoggle
    BY DEF TakesValue
  <2>2. TakesValue(j)' <=> NamesOption(j)' /\ ~keys'[Named(j)'].istoggle
    BY DEF TakesValue
  <2>3. NamesOption(j) => keys'[Named(j)].istoggle = keys[Named(j)].istoggle
    BY NamedIsKey DEF SameSwitches
  <2> QED
    BY <1>2, <1>3, <2>1, <2>2, <2>3
<1>5. Values' = Values
  <2> DEFINE T == {j \in Place : TakesValue(j)}
  <2>1. Values \in SUBSET (1 .. Len(argv)) /\ \A j \in Place : j \in Values <=> j > 1 /\ TakesValue(j - 1) /\ j - 1 \notin Values
    BY <1>1, ValuesAre DEF Place, ValuesRight
  <2>2. (Len(argv) \in Nat => ValuesRight)'
    BY ValuesAre, PTL
  <2>3. Values' \in SUBSET (1 .. Len(argv)) /\ \A j \in Place : j \in Values' <=> j > 1 /\ TakesValue(j - 1)' /\ j - 1 \notin Values'
    BY <1>1, <2>2 DEF Place, ValuesRight
  <2>4. \A j \in Place : j > 1 => j - 1 \in Place
    BY <1>1 DEF Place
  <2>5. Alternates(Values, Len(argv), T)
    BY <2>1, <2>4 DEF Alternates, Place
  <2>6. Alternates(Values', Len(argv), T)
    BY <1>4, <2>3, <2>4 DEF Alternates, Place
  <2> QED
    BY <1>1, <2>1, <2>3, <2>5, <2>6, AlternatesUnique
<1>6. Options' = Options
  BY <1>1, <1>3, <1>5 DEF Options
<1> QED
  BY <1>1, <1>2, <1>3, <1>4, <1>5, <1>6

-----------------------------------------------------------------------------
(***************************************************************************)
(* Registration: nothing is parsed yet.                                    *)
(***************************************************************************)
AtFirst == 1 \notin Values /\ (\A j \in Stop : j >= 1) /\ OptionsTo(1) = {} /\ \A k : GivenTo(1, k) = {}

\* The first place is no value, and nothing comes before it.
LEMMA FirstPlace == Types => AtFirst
<1> SUFFICES ASSUME Types PROVE AtFirst
  OBVIOUS
<1>1. 1 \notin Values
  BY ValuesAre DEF Types, Place, ValuesRight
<1>2. \A j \in Stop : j \in Place
  BY OptionsAre
<1>3. OptionsTo(1) = {}
  BY OptionsAre DEF OptionsTo, Place
<1>4. \A k : GivenTo(1, k) = {}
  BY <1>3 DEF GivenTo
<1> QED
  BY <1>1, <1>2, <1>3, <1>4 DEF AtFirst, Place

\* Every switch has its default.
Unset == \A k \in DOMAIN keys : keys[k].value = keys[k].default /\ (keys[k].isvalid <=> keys[k].istoggle)

\* Before the first token nothing has been parsed and every switch has its default.
LEMMA Unparsed == Types => (ParsedTo(1) <=> ctOptions = 0 /\ Unset)
<1> SUFFICES ASSUME Types PROVE ParsedTo(1) <=> ctOptions = 0 /\ Unset
  OBVIOUS
<1>1. AtFirst
  BY FirstPlace
<1>2. Cardinality(OptionsTo(1)) = 0
  BY <1>1, FS_EmptySet DEF AtFirst
<1>3. \A k \in DOMAIN keys : Means(k, GivenTo(1, k)) <=> keys[k].value = keys[k].default /\ (keys[k].isvalid <=> keys[k].istoggle)
  BY <1>1 DEF AtFirst, Means
<1> QED
  BY <1>1, <1>2, <1>3 DEF ParsedTo, Unset, AtFirst

\* The tokens the parser itself makes are tokens.
LEMMA Tokens == Text("false") \in Value0 /\ Text("true") \in Value0 /\ Help[1] = 2 /\ Help # Empty
<1>1. Help[1] = 2 /\ Empty[1] = 0
  BY DEF Help, Long, Empty, Text
<1> QED
  BY <1>1 DEF Value0

\* A switch is kept with its default as its value, valid if it is a toggle.
LEMMA KeptEntry ==
  ASSUME NEW s \in Calls, s.op = "addSwitch"
  PROVE  /\ Kept(s) \in Entry
         /\ Kept(s).value = Kept(s).default /\ Kept(s).isvalid = Kept(s).istoggle
<1>1. s \in [op : {"addSwitch"}, key : Token, shortcut : Token, desc : BOOLEAN, default : Token, istoggle : BOOLEAN]
  BY DEF Calls
<1>2. Text("false") \in Value0
  BY Tokens
<1>3. (IF s.istoggle THEN Text("false") ELSE s.default) \in Value0
  BY <1>1, <1>2 DEF Value0
<1> HIDE DEF Text
<1>4. Kept(s).istoggle = s.istoggle /\ Kept(s).default = Kept(s).value /\ Kept(s).isvalid = s.istoggle
  BY DEF Kept
<1>5. Kept(s) \in Entry
  BY <1>1, <1>3 DEF Kept, Entry
<1> QED
  BY <1>1, <1>4, <1>5

\* The parser begins with the switch for help and nothing parsed.
LEMMA InitParser == ParserInit => ParserInv
<1> SUFFICES ASSUME ParserInit PROVE ParserInv
  OBVIOUS
<1>1. argv \in Seq(Token) /\ argv # <<>> /\ Len(argv) \in Nat
  BY ArgvsAssumption DEF ParserInit
<1>2. Len(argv) >= 1
  BY <1>1
<1>3. Clients[client] \in Seq(Calls) /\ Len(Clients[client]) \in Nat
  BY CallsAssumption DEF ParserInit
<1> DEFINE e == Kept(Switch(Help, Short("h"), TRUE, Empty, TRUE))
<1>4. e = [istoggle |-> TRUE, default |-> Text("false"), value |-> Text("false"), isvalid |-> TRUE]
  BY DEF Kept, Switch
<1>5. Help[1] = 2 /\ Text("false") \in Value0 /\ Help # Empty
  BY Tokens
<1>6. e \in Entry
  <2>1. TRUE \in BOOLEAN
    OBVIOUS
  <2> HIDE DEF e, Text
  <2> QED
    BY <1>4, <1>5, <2>1 DEF Entry
<1>7. keys = [k \in {Help} |-> e] /\ DOMAIN keys = {Help}
  BY DEF ParserInit
<1>8. shortcuts = [s \in {Short("h")} |-> Help]
  BY DEF ParserInit
<1> HIDE DEF e
<1>9. Maps
  <2>1. keys[Help].istoggle
    BY <1>4, <1>7
  <2>2. default_key = Empty
    BY DEF ParserInit
  <2> QED
    BY <1>5, <1>6, <1>7, <1>8, <2>1, <2>2 DEF Maps
<1>10. Types
  BY <1>1, <1>2, <1>3, <1>9 DEF Types, ParserInit, Results
<1>11. Unset
  BY <1>4, <1>7 DEF Unset
<1>12. i = 1 /\ ctOptions = 0 /\ parsed = "no"
  BY DEF ParserInit
<1>13. ParsedTo(1) /\ 1 \notin Values
  BY <1>10, <1>11, <1>12, Unparsed, FirstPlace DEF AtFirst
<1>14. ParseRight
  BY <1>12 DEF ParseRight
<1> QED
  BY <1>10, <1>12, <1>13, <1>14 DEF ParserInv

\* Registering keeps the invariant: no token has been parsed yet.
LEMMA RegisterStep ==
  ASSUME ParserInv, Register
  PROVE  ParserInv'
<1> DEFINE s == Clients[client][called + 1]
<1>1. /\ Types /\ called < Len(Clients[client]) /\ parsed = "no" /\ i = 1 /\ ctOptions = 0 /\ Unset
      /\ UNCHANGED <<client, argv, i, appname, ctOptions>>
  BY Unparsed DEF ParserInv, Register
<1>2. s \in Calls /\ Len(Clients[client]) \in Nat
  <2>1. Clients[client] \in Seq(Calls) /\ called + 1 \in 1 .. Len(Clients[client])
    BY <1>1, CallsAssumption DEF Types
  <2> QED
    BY <2>1
<1>3. \/ (AddSwitch(s) \/ SetDefaultKey(s)) /\ called' = called + 1
      \/ NoShortcut(s) /\ UNCHANGED called
  BY DEF Register
<1> HIDE DEF s
<1>4. Maps' /\ Unset'
  <2>1. CASE UNCHANGED <<keys, shortcuts, default_key>>
    BY <1>1, <2>1 DEF Maps, Unset, Types
  <2>2. CASE AddSwitch(s) /\ Accepted(s)
    <3>1. /\ keys' = Put(keys, s.key, Kept(s)) /\ shortcuts' = Put(shortcuts, s.shortcut, s.key)
          /\ default_key' = default_key /\ s.key \notin DOMAIN keys /\ s.key[1] >= 2
      BY <2>2 DEF AddSwitch, Accepted
    <3>2. /\ Kept(s) \in Entry
          /\ Kept(s).value = Kept(s).default /\ Kept(s).isvalid = Kept(s).istoggle
      BY <1>2, <2>2, KeptEntry DEF AddSwitch
    <3>3. /\ DOMAIN keys' = {s.key} \cup DOMAIN keys /\ keys'[s.key] = Kept(s)
          /\ \A k \in DOMAIN keys : keys'[k] = keys[k]
      BY <3>1 DEF Put
    <3>4. keys' \in [DOMAIN keys' -> Entry]
      <4>1. keys' = [y \in {s.key} \cup DOMAIN keys |-> IF y = s.key THEN Kept(s) ELSE keys[y]]
        BY <3>1 DEF Put
      <4> QED
        BY <1>1, <3>2, <3>3, <4>1 DEF Types, Maps
    <3>5. \A t \in DOMAIN shortcuts' : shortcuts'[t] \in DOMAIN keys'
      <4>1. DOMAIN shortcuts' = {s.shortcut} \cup DOMAIN shortcuts
        BY <3>1 DEF Put
      <4>2. \A t \in DOMAIN shortcuts' : shortcuts'[t] = IF t = s.shortcut THEN s.key ELSE shortcuts[t]
        BY <3>1 DEF Put
      <4> QED
        BY <1>1, <3>3, <4>1, <4>2 DEF Types, Maps
    <3>6. Maps'
      BY <1>1, <3>1, <3>2, <3>3, <3>4, <3>5 DEF Types, Maps
    <3>7. Unset'
      BY <1>1, <3>2, <3>3 DEF Unset
    <3> QED
      BY <3>6, <3>7
  <2>3. CASE SetDefaultKey(s)
    <3>1. UNCHANGED <<keys, shortcuts>> /\ default_key' \in DOMAIN keys \cup {Empty}
      BY <1>1, <2>3 DEF SetDefaultKey, Types, Maps
    <3> QED
      BY <1>1, <3>1 DEF Maps, Unset, Types
  <2> QED
    BY <1>3, <2>1, <2>2, <2>3 DEF AddSwitch, NoShortcut
<1>5. parsed' \in {"no", "crash"} /\ (parsed' # "no" => called' < Len(Clients[client]))
  BY <1>1, <1>3 DEF AddSwitch, NoShortcut, SetDefaultKey
<1>6. Types'
  BY <1>1, <1>2, <1>3, <1>4, <1>5 DEF Types, Results
<1>7. (Types => (ParsedTo(1) <=> ctOptions = 0 /\ Unset))' /\ (Types => AtFirst)'
  BY Unparsed, FirstPlace, PTL
<1>8. ParsedTo(1)' /\ (1 \notin Values)'
  BY <1>1, <1>4, <1>6, <1>7 DEF AtFirst
<1>9. ParseRight'
  BY <1>1, <1>5 DEF ParseRight
<1> QED
  BY <1>1, <1>6, <1>8, <1>9 DEF ParserInv

-----------------------------------------------------------------------------
(***************************************************************************)
(* A place is passed.                                                      *)
(***************************************************************************)
StopRight ==
  \A j : j \in Stop <=> /\ j \in Place /\ j \notin Values
                        /\ \/ argv[j][1] > 0 /\ ~NamesOption(j)
                           \/ NamesOption(j) /\ (Named(j) = Help \/ (TakesValue(j) /\ j = Len(argv)))

\* The parser stops where the property says it does.
LEMMA StopsAre == StopRight
BY OptionsAre DEF StopRight

\* Where it stops depends on the switches and not on their values.
LEMMA SameStop ==
  ASSUME Types, Types', SameSwitches
  PROVE  Stop' = Stop
<1>1. StopRight /\ StopRight'
  BY StopsAre, PTL
<1>2. Place' = Place /\ Values' = Values /\ argv' = argv
  BY SameMeaning DEF SameSwitches
<1>3. \A j \in Place : (NamesOption(j)' <=> NamesOption(j)) /\ Named(j)' = Named(j) /\ (TakesValue(j)' <=> TakesValue(j))
  BY SameMeaning
<1>4. Help' = Help
  BY DEF Help, Long
<1>5. \A j : j \in Stop' <=> j \in Stop
  BY <1>1, <1>2, <1>3, <1>4 DEF StopRight
<1> QED
  BY <1>5

\* Option i gives its switch the value it should.
Gives ==
  /\ keys'[Named(i)].value = IF keys[Named(i)].istoggle THEN Text("true") ELSE argv[i + 1]
  /\ keys'[Named(i)].isvalid

\* If the token at i is gone past, as an option or not, what is said of the tokens before i holds one or two places on.
LEMMA Passed ==
  ASSUME Types, Types', SameSwitches, ParsedTo(i), i \in Place, i \notin Stop,
         NEW n \in {i + 1, i + 2}, n = i + 2 => i + 1 \notin Options /\ i + 1 \notin Stop,
         ctOptions' = IF i \in Options THEN ctOptions + 1 ELSE ctOptions,
         i \in Options => Gives,
         \A k \in DOMAIN keys : (i \in Options /\ Named(i) = k) \/ keys'[k] = keys[k]
  PROVE  ParsedTo(n)'
<1>1. i \in Nat /\ n \in Nat /\ n > i /\ Place \subseteq Nat /\ Options \subseteq Place
  BY OptionsAre DEF Types, Place
<1>2. /\ Options' = Options /\ Stop' = Stop /\ DOMAIN keys' = DOMAIN keys /\ argv' = argv
      /\ \A j \in Options : Named(j)' = Named(j)
  BY SameMeaning, SameStop, OptionsAre DEF SameSwitches
<1>3. \A j \in Stop' : j >= n
  <2> SUFFICES ASSUME NEW j \in Stop PROVE j >= n
    BY <1>2
  <2>1. j >= i /\ j # i /\ j \in Nat
    BY <1>1, StopsAre DEF ParsedTo, StopRight
  <2> QED
    BY <1>1, <2>1
<1>4. OptionsTo(n)' = IF i \in Options THEN OptionsTo(i) \cup {i} ELSE OptionsTo(i)
  <2>1. OptionsTo(n)' = {j \in Options : j < n}
    BY <1>2 DEF OptionsTo
  <2>2. \A j \in Options : j < n <=> j < i \/ j = i
    BY <1>1
  <2> QED
    BY <2>1, <2>2 DEF OptionsTo
<1>5. IsFiniteSet(OptionsTo(i)) /\ i \notin OptionsTo(i)
  <2>1. OptionsTo(i) \subseteq 1 .. Len(argv) /\ Len(argv) \in Nat
    <3>1. OptionsTo(i) \subseteq Place
      BY <1>1 DEF OptionsTo
    <3> QED
      BY <3>1 DEF Place, Types
  <2>2. IsFiniteSet(1 .. Len(argv))
    BY <2>1, FS_Interval
  <2> QED
    BY <1>1, <2>1, <2>2, FS_Subset DEF OptionsTo
<1>6. ctOptions' = Cardinality(OptionsTo(n)')
  BY <1>4, <1>5, FS_AddElement DEF ParsedTo
<1>7. ASSUME NEW k \in DOMAIN keys
      PROVE  Means(k, GivenTo(n, k))'
  <2>1. Means(k, GivenTo(n, k))' <=>
          /\ keys'[k].value = IF GivenTo(n, k)' = {} THEN keys'[k].default
                              ELSE IF keys'[k].istoggle THEN Text("true") ELSE argv[Max(GivenTo(n, k)') + 1]
          /\ keys'[k].isvalid <=> keys'[k].istoggle \/ GivenTo(n, k)' # {}
    BY <1>2 DEF Means, Text, Max
  <2>2. keys'[k].istoggle = keys[k].istoggle /\ keys'[k].default = keys[k].default
    BY DEF SameSwitches
  <2>3. GivenTo(n, k)' = {j \in OptionsTo(n)' : Named(j) = k}
    BY <1>2 DEF GivenTo, OptionsTo
  <2>4. CASE i \in Options /\ Named(i) = k
    <3> DEFINE G == GivenTo(i, k) \cup {i}
    <3>1. GivenTo(n, k)' = G
      BY <1>4, <2>3, <2>4 DEF GivenTo
    <3>2. G \in SUBSET Nat /\ i \in G /\ \A m \in G : m =< i
      <4>1. \A m \in GivenTo(i, k) : m \in Options /\ m < i
        BY DEF GivenTo, OptionsTo
      <4>2. \A m \in GivenTo(i, k) : m \in Nat
        BY <1>1, <4>1
      <4>3. \A m \in GivenTo(i, k) : m =< i
        <5> SUFFICES ASSUME NEW m \in GivenTo(i, k) PROVE m =< i
          OBVIOUS
        <5>1. m \in Nat /\ m < i
          BY <4>1, <4>2
        <5> QED
          BY <1>1, <5>1
      <4> QED
        BY <1>1, <4>2, <4>3
    <3> HIDE DEF G
    <3>3. Max(G) = i /\ G # {}
      BY <3>2, MaxIs
    <3> QED
      BY <2>1, <2>2, <2>4, <3>1, <3>3 DEF Gives
  <2>5. CASE ~(i \in Options /\ Named(i) = k)
    <3>1. GivenTo(n, k)' = GivenTo(i, k) /\ keys'[k] = keys[k]
      BY <1>4, <2>3, <2>5 DEF GivenTo
    <3>2. Means(k, GivenTo(i, k))
      BY DEF ParsedTo
    <3> QED
      BY <2>1, <3>1, <3>2 DEF Means
  <2> QED
    BY <2>4, <2>5
<1> QED
  BY <1>2, <1>3, <1>6, <1>7 DEF ParsedTo

\* Where a value ends, another place begins that is none.
LEMMA NextPlace ==
  ASSUME Types, Types', SameSwitches, i \in Place, i \notin Values
  PROVE  /\ ~TakesValue(i) => i + 1 \notin Values'
         /\ TakesValue(i) /\ i < Len(argv) => i + 1 \in Values /\ i + 2 \notin Values'
<1>1. Values' = Values /\ Len(argv) \in Nat /\ i \in Nat /\ i >= 1 /\ UNCHANGED argv
  BY SameMeaning DEF Types, SameSwitches
<1> DEFINE T == {j \in Place : TakesValue(j)}
<1>2. Values \subseteq Place /\ \A j \in Place : j \in Values <=> j > 1 /\ j - 1 \in T /\ j - 1 \notin Values
  <2>1. \A j \in Place : j > 1 => j - 1 \in Place
    BY <1>1 DEF Place
  <2> QED
    BY <1>1, <2>1, ValuesAre DEF ValuesRight
<1>6. i \in T <=> TakesValue(i)
  OBVIOUS
<1> HIDE DEF T
<1>3. i + 1 \in Values <=> i + 1 \in Place /\ TakesValue(i)
  <2>1. i + 1 - 1 = i /\ i + 1 > 1
    BY <1>1
  <2> QED
    BY <1>1, <1>2, <1>6, <2>1
<1>4. i + 1 \in Values => i + 2 \notin Values
  <2>1. i + 2 - 1 = i + 1
    BY <1>1
  <2> QED
    BY <1>1, <1>2, <2>1
<1>5. i < Len(argv) => i + 1 \in Place
  BY <1>1 DEF Place
<1> QED
  BY <1>1, <1>3, <1>4, <1>5

-----------------------------------------------------------------------------
(***************************************************************************)
(* The parse ends.                                                         *)
(***************************************************************************)
StopsHere ==
  /\ i \in Place /\ i \notin Values
  /\ \/ parsed = "unknown" /\ argv[i][1] > 0 /\ ~NamesOption(i)
     \/ parsed = "help" /\ NamesOption(i) /\ Named(i) = Help
     \/ parsed = "crash" /\ NamesOption(i) /\ TakesValue(i) /\ i = Len(argv)

AllSeen ==
  /\ \A j \in Stop : j >= i
  /\ \A k \in DOMAIN keys : Means(k, GivenTo(i, k))

\* ParseRight, by parts.
RightTo(stops, seen) ==
  /\ IF stops = {} THEN parsed = "ok" /\ ctOptions = Cardinality(seen)
     ELSE parsed \in DOMAIN Stops /\ Min(stops) \in Stops[parsed]
  /\ \A k \in DOMAIN keys :
       /\ Value(k) = IF {j \in seen : Named(j) = k} = {} THEN keys[k].default
                     ELSE IF keys[k].istoggle THEN Text("true") ELSE argv[Max({j \in seen : Named(j) = k}) + 1]
       /\ IsValid(k) <=> keys[k].istoggle \/ {j \in seen : Named(j) = k} # {}

\* What is said of the place of the stop and of the options before it is ParseRight.
LEMMA RightParts ==
  ASSUME RightTo(Stop, IF Stop = {} THEN Options ELSE {j \in Options : j < Min(Stop)})
  PROVE  ParseRight
<1>1. DOMAIN Stops = {"unknown", "help", "crash"}
  BY DEF Stops
<1>2. UNION {Stops[r] : r \in DOMAIN Stops} = Stop
  BY <1>1 DEF Stop
<1> QED
  BY <1>2 DEF ParseRight, RightTo

\* Value and validity of a key follow from the places where it has been given.
LEMMA SeenMeans ==
  ASSUME NEW k \in DOMAIN keys, NEW G, Means(k, G), Types
  PROVE  /\ Value(k) = IF G = {} THEN keys[k].default ELSE IF keys[k].istoggle THEN Text("true") ELSE argv[Max(G) + 1]
         /\ IsValid(k) <=> keys[k].istoggle \/ G # {}
<1>1. Dashed(k) = k
  BY DEF Dashed, Types, Maps
<1> QED
  BY <1>1 DEF Means, Value, IsValid

\* When the parser stops, it has seen what the property says.
LEMMA StopMeans == Types /\ StopsHere /\ AllSeen => ParseRight
<1> SUFFICES ASSUME Types, StopsHere, AllSeen PROVE ParseRight
  OBVIOUS
<1>1. i \in Stop /\ Stop \subseteq Nat /\ i \in Nat
  BY StopsAre DEF StopRight, StopsHere, Place
<1>2. Stop # {} /\ Min(Stop) = i
  BY <1>1, MinIs DEF AllSeen
<1>3. parsed \in DOMAIN Stops /\ i \in Stops[parsed]
  <2>1. /\ DOMAIN Stops = {"unknown", "help", "crash"}
        /\ Stops["unknown"] = {j \in Place \ Values : argv[j][1] > 0 /\ j \notin Options}
        /\ Stops["help"] = {j \in Options : Named(j) = Help}
        /\ Stops["crash"] = {j \in Options : TakesValue(j) /\ j = Len(argv)}
    BY DEF Stops
  <2>2. i \in Options <=> NamesOption(i)
    BY OptionsAre DEF StopsHere
  <2> QED
    BY <2>1, <2>2 DEF StopsHere
<1>4. {j \in Options : j < i} = OptionsTo(i)
  BY DEF OptionsTo
<1>5. \A k \in DOMAIN keys : {j \in OptionsTo(i) : Named(j) = k} = GivenTo(i, k) /\ Means(k, GivenTo(i, k))
  BY DEF AllSeen, GivenTo
<1>6. RightTo(Stop, OptionsTo(i))
  BY <1>2, <1>3, <1>5, SeenMeans DEF RightTo
<1> QED
  BY <1>2, <1>4, <1>6, RightParts

\* When it comes to the end, it has seen all.
LEMMA EndMeans == Types /\ parsed = "ok" /\ i = Len(argv) + 1 /\ ParsedTo(i) => ParseRight
<1> SUFFICES ASSUME Types, parsed = "ok", i = Len(argv) + 1, ParsedTo(i) PROVE ParseRight
  OBVIOUS
<1>1. Len(argv) \in Nat
  BY DEF Types
<1>2. Stop = {}
  <2>1. \A j \in Stop : j \in 1 .. Len(argv) /\ j >= Len(argv) + 1
    BY StopsAre DEF StopRight, Place, ParsedTo
  <2> QED
    BY <1>1, <2>1
<1>3. Options = OptionsTo(i)
  <2>1. \A j \in Options : j \in 1 .. Len(argv)
    BY OptionsAre DEF Place
  <2>2. \A j \in Options : j < i
    BY <1>1, <2>1
  <2> QED
    BY <2>2 DEF OptionsTo
<1>4. \A k \in DOMAIN keys : {j \in OptionsTo(i) : Named(j) = k} = GivenTo(i, k) /\ Means(k, GivenTo(i, k))
  BY DEF ParsedTo, GivenTo
<1>5. RightTo(Stop, OptionsTo(i))
  BY <1>2, <1>4, SeenMeans DEF RightTo, ParsedTo
<1> QED
  BY <1>2, <1>3, <1>5, RightParts

\* Nothing changes but how the parse has ended.
LEMMA SameSeen ==
  ASSUME Types, Types', SameSwitches, UNCHANGED <<keys, i>>, ParsedTo(i)
  PROVE  AllSeen' /\ (ctOptions' = ctOptions => ParsedTo(i)')
<1>1. Stop' = Stop /\ Options' = Options /\ i' = i /\ keys' = keys /\ argv' = argv /\ \A j \in Options : Named(j)' = Named(j)
  BY SameMeaning, SameStop, OptionsAre DEF SameSwitches
<1>2. OptionsTo(i)' = OptionsTo(i)
  BY <1>1 DEF OptionsTo
<1>3. \A k : GivenTo(i, k)' = GivenTo(i, k)
  BY <1>1, <1>2 DEF GivenTo, OptionsTo
<1>4. \A k \in DOMAIN keys : Means(k, GivenTo(i, k))'
  <2> SUFFICES ASSUME NEW k \in DOMAIN keys PROVE Means(k, GivenTo(i, k))'
    OBVIOUS
  <2>1. Means(k, GivenTo(i, k))
    BY DEF ParsedTo
  <2> QED
    BY <1>1, <1>3, <2>1 DEF Means, Text, Max
<1> QED
  BY <1>1, <1>2, <1>4 DEF ParsedTo, AllSeen

-----------------------------------------------------------------------------
(***************************************************************************)
(* A step of parse.                                                        *)
(***************************************************************************)
\* Where parse stands before a step.
Stands ==
  /\ Types /\ called = Len(Clients[client]) /\ parsed = "no"
  /\ i \notin Values /\ ParsedTo(i)
  /\ UNCHANGED <<client, called, argv, shortcuts, default_key>>

\* Between two tokens the parser stands at a place that is no value.
LEMMA StandsHere ==
  ASSUME ParserInv, Parsing, UNCHANGED <<client, called, argv, shortcuts, default_key>>
  PROVE  Stands
BY DEF ParserInv, Parsing, Stands

\* There are no more options than tokens.
LEMMA CountOptions ==
  ASSUME Stands, i =< Len(argv)
  PROVE  ctOptions + 1 =< Len(argv)
<1>1. Len(argv) \in Nat /\ i \in 1 .. Len(argv) /\ ctOptions \in Nat
  BY DEF Stands, Types
<1>2. OptionsTo(i) \subseteq 1 .. i - 1
  <2>1. \A j \in OptionsTo(i) : j \in 1 .. Len(argv) /\ j < i
    BY OptionsAre DEF OptionsTo, Place
  <2> QED
    BY <1>1, <2>1
<1>3. IsFiniteSet(1 .. i - 1) /\ Cardinality(1 .. i - 1) = i - 1
  <2>1. 1 \in Int /\ i - 1 \in Int
    BY <1>1
  <2>2. IsFiniteSet(1 .. i - 1) /\ Cardinality(1 .. i - 1) = IF 1 > i - 1 THEN 0 ELSE i - 1 - 1 + 1
    BY <2>1, FS_Interval
  <2> QED
    BY <1>1, <2>2
<1>4. Cardinality(OptionsTo(i)) =< i - 1
  BY <1>2, <1>3, FS_Subset
<1> QED
  BY <1>1, <1>4 DEF Stands, ParsedTo

\* The parse ends with an option or a token that stops it.
LEMMA StopStep ==
  ASSUME Stands, i =< Len(argv), UNCHANGED <<keys, i>>, ctOptions' \in {ctOptions, ctOptions + 1},
         \/ parsed' = "unknown" /\ argv[i][1] > 0 /\ ~NamesOption(i)
         \/ parsed' = "help" /\ NamesOption(i) /\ Named(i) = Help
         \/ parsed' = "crash" /\ NamesOption(i) /\ TakesValue(i) /\ i = Len(argv)
  PROVE  ParserInv'
<1>1. Types /\ Types' /\ SameSwitches /\ ParsedTo(i)
  <2>1. ctOptions' \in 0 .. Len(argv)
    BY CountOptions DEF Stands, Types
  <2> QED
    BY <2>1 DEF Stands, Types, Maps, SameSwitches, Results
<1>2. AllSeen'
  BY <1>1, SameSeen
<1>3. i \in Place /\ i \notin Values
  BY DEF Stands, Types, Place
<1>4. StopsHere'
  <2>1. Place' = Place /\ Values' = Values /\ i' = i /\ argv' = argv /\ Help' = Help
    BY <1>1, SameMeaning DEF SameSwitches, Help, Long
  <2>2. (NamesOption(i)' <=> NamesOption(i)) /\ Named(i)' = Named(i) /\ (TakesValue(i)' <=> TakesValue(i))
    <3>1. \A j \in Place : (NamesOption(j)' <=> NamesOption(j)) /\ Named(j)' = Named(j) /\ (TakesValue(j)' <=> TakesValue(j))
      BY <1>1, SameMeaning
    <3> QED
      BY <1>3, <2>1, <3>1 DEF NamesOption, Named, TakesValue, Known
  <2> QED
    BY <1>3, <2>1, <2>2 DEF StopsHere
<1>5. (Types /\ StopsHere /\ AllSeen => ParseRight)'
  BY StopMeans, PTL
<1> QED
  BY <1>1, <1>2, <1>4, <1>5 DEF ParserInv, Stands, StopsHere, SameSwitches

\* The parse goes on behind the token and its value.
LEMMA GoOn ==
  ASSUME Stands, Types', SameSwitches, i =< Len(argv), parsed' = "no",
         NEW n \in {i + 1, i + 2}, i' = n, n = i + 2 <=> TakesValue(i), n = i + 2 => i < Len(argv),
         ctOptions' = IF NamesOption(i) THEN ctOptions + 1 ELSE ctOptions,
         NamesOption(i) => Gives /\ Named(i) # Help,
         NamesOption(i) \/ argv[i][1] = 0,
         \A k \in DOMAIN keys : (NamesOption(i) /\ Named(i) = k) \/ keys'[k] = keys[k]
  PROVE  ParserInv'
<1>1. i \in Place /\ i \notin Values /\ Types /\ ParsedTo(i) /\ i \in Nat /\ Len(argv) \in Nat
  BY DEF Stands, Types, Place
<1>2. (i \in Options <=> NamesOption(i)) /\ i \notin Stop
  <2>1. i \in Options <=> NamesOption(i)
    BY <1>1, OptionsAre
  <2>2. TakesValue(i) => i # Len(argv)
    BY <1>1
  <2>3. ~(argv[i][1] > 0 /\ ~NamesOption(i))
    OBVIOUS
  <2> QED
    BY <2>1, <2>2, <2>3, StopsAre DEF StopRight
<1>3. n = i + 2 => i + 1 \in Values /\ i + 1 \notin Options /\ i + 1 \notin Stop
  BY <1>1, NextPlace, OptionsAre
<1>4. ParsedTo(n)'
  BY <1>1, <1>2, <1>3, Passed
<1>5. n \notin Values'
  <2>1. CASE TakesValue(i)
    BY <1>1, <2>1, NextPlace
  <2>2. CASE ~TakesValue(i)
    BY <1>1, <2>2, NextPlace
  <2> QED
    BY <2>1, <2>2
<1>6. (i \notin Values /\ ParsedTo(i))'
  BY <1>4, <1>5 DEF ParsedTo, GivenTo, OptionsTo
<1>7. ParseRight'
  BY DEF ParseRight
<1> QED
  BY <1>6, <1>7 DEF ParserInv, Stands, SameSwitches

\* Switches are set, and nothing else about them changes.
LEMMA SetSwitch ==
  ASSUME Types, NEW key \in DOMAIN keys, NEW v \in Value0, Set(key, v)
  PROVE  /\ keys' \in [DOMAIN keys -> Entry] /\ keys'[key].value = v /\ keys'[key].isvalid
         /\ \A k \in DOMAIN keys : keys'[k].istoggle = keys[k].istoggle /\ keys'[k].default = keys[k].default
         /\ \A k \in DOMAIN keys : k # key => keys'[k] = keys[k]
<1>1. keys \in [DOMAIN keys -> Entry]
  BY DEF Types, Maps
<1> DEFINE e == keys[key]
           f == [e EXCEPT !.value = v, !.isvalid = TRUE]
<1>2. keys' = [keys EXCEPT ![key] = f]
  BY <1>1 DEF Set
<1>3. e \in Entry
  BY <1>1
<1> HIDE DEF e
<1>5. f \in Entry /\ f.value = v /\ f.isvalid /\ f.istoggle = e.istoggle /\ f.default = e.default
  <2>1. f \in Entry
    BY <1>3 DEF Entry
  <2>2. f.value = v /\ f.isvalid = TRUE /\ f.istoggle = e.istoggle /\ f.default = e.default
    BY <1>3 DEF Entry
  <2> QED
    BY <2>1, <2>2
<1> HIDE DEF f
<1>6. \A k \in DOMAIN keys : keys'[k] = IF k = key THEN f ELSE keys[k]
  BY <1>1, <1>2
<1>7. keys' \in [DOMAIN keys -> Entry]
  BY <1>1, <1>2, <1>5
<1> QED
  BY <1>5, <1>6, <1>7 DEF e

\* Giving a key a value keeps types and switches.
LEMMA SetKeeps ==
  ASSUME Stands, NEW key \in DOMAIN keys, NEW v \in Value0, Set(key, v),
         i' \in 1 .. Len(argv) + 1, ctOptions' \in 0 .. Len(argv), parsed' = parsed
  PROVE  Types' /\ SameSwitches
<1>1. /\ keys' \in [DOMAIN keys -> Entry] /\ DOMAIN keys' = DOMAIN keys
      /\ \A k \in DOMAIN keys : keys'[k].istoggle = keys[k].istoggle /\ keys'[k].default = keys[k].default
  <2>1. keys' \in [DOMAIN keys -> Entry]
    BY SetSwitch DEF Stands
  <2>2. \A k \in DOMAIN keys : keys'[k].istoggle = keys[k].istoggle /\ keys'[k].default = keys[k].default
    BY SetSwitch DEF Stands
  <2> QED
    BY <2>1, <2>2
<1>2. SameSwitches
  BY <1>1 DEF SameSwitches, Stands
<1>3. Maps'
  <2>1. Help' = Help /\ Empty' = Empty
    BY DEF Help, Long, Empty, Text
  <2> QED
    BY <1>1, <2>1 DEF Stands, Types, Maps
<1> QED
  BY <1>2, <1>3 DEF Stands, Types

\* Every way to go on from a token keeps the invariant.
LEMMA ParseStepRight ==
  ASSUME ParserInv, ParseStep
  PROVE  ParserInv'
<1>1. CASE UnrecognizedKey
  <2>1. Stands /\ i =< Len(argv) /\ UNCHANGED <<keys, i, ctOptions>> /\ parsed' = "unknown"
    BY <1>1, StandsHere DEF ParseStep, UnrecognizedKey
  <2>2. argv[i][1] > 0 /\ ~NamesOption(i)
    BY <1>1, <2>1, Here DEF Stands, UnrecognizedKey
  <2> QED
    BY <2>1, <2>2, StopStep
<1>2. CASE HelpAsked
  <2>1. Stands /\ i =< Len(argv) /\ UNCHANGED <<keys, i>> /\ ctOptions' = ctOptions + 1 /\ parsed' = "help"
    BY <1>2, StandsHere DEF ParseStep, HelpAsked, Option
  <2>2. NamesOption(i) /\ Named(i) = Help
    BY <1>2, <2>1, Here DEF Stands, HelpAsked, Option
  <2> QED
    BY <2>1, <2>2, StopStep
<1>3. CASE Toggle
  <2>1. /\ Stands /\ i =< Len(argv) /\ i' = i + 1 /\ ctOptions' = ctOptions + 1 /\ parsed' = "no"
        /\ Set(Key, Text("true"))
    BY <1>3, StandsHere DEF ParseStep, Toggle, Option, Parsing
  <2>2. NamesOption(i) /\ Key = Named(i) /\ Key \in DOMAIN keys /\ Key # Help /\ keys[Key].istoggle
    BY <1>3, <2>1, Here DEF Stands, Toggle, Option
  <2>3. i' \in 1 .. Len(argv) + 1 /\ ctOptions' \in 0 .. Len(argv) /\ parsed' = parsed
    BY <2>1, CountOptions DEF Stands, Types
  <2>4. Types' /\ SameSwitches
    BY <2>1, <2>2, <2>3, SetKeeps, Tokens
  <2>5. Gives
    BY <2>1, <2>2, SetSwitch, Tokens DEF Gives, Stands
  <2>6. \A k \in DOMAIN keys : (NamesOption(i) /\ Named(i) = k) \/ keys'[k] = keys[k]
    BY <2>1, <2>2, SetSwitch, Tokens DEF Stands
  <2>7. ~TakesValue(i)
    BY <2>2 DEF TakesValue
  <2>8. i + 1 \in {i + 1, i + 2} /\ i + 1 # i + 2
    BY <2>1 DEF Stands, Types
  <2> QED
    BY <2>1, <2>2, <2>4, <2>5, <2>6, <2>7, <2>8, GoOn
<1>4. CASE TakeValue
  <2>1. Stands /\ i =< Len(argv) /\ ctOptions' = ctOptions + 1
    BY <1>4, StandsHere DEF ParseStep, TakeValue, Option
  <2>2. NamesOption(i) /\ Key = Named(i) /\ Key \in DOMAIN keys /\ TakesValue(i)
    BY <1>4, <2>1, Here DEF Stands, TakeValue, Option, TakesValue
  <2>3. CASE i = Len(argv)
    <3>1. UNCHANGED <<keys, i>> /\ parsed' = "crash"
      BY <1>4, <2>3 DEF TakeValue
    <3> QED
      BY <2>1, <2>2, <2>3, <3>1, StopStep
  <2>4. CASE i # Len(argv)
    <3>1. Set(Key, argv[i + 1]) /\ i' = i + 2 /\ parsed' = parsed
      BY <1>4, <2>4 DEF TakeValue
    <3>2. i < Len(argv) /\ i \in Nat /\ i + 1 \in 1 .. Len(argv)
      BY <2>1, <2>4 DEF Stands, Types
    <3>3. argv[i + 1] \in Value0
      <4>1. argv \in Seq(Token)
        BY <2>1 DEF Stands, Types
      <4>2. argv[i + 1] \in Token
        BY <3>2, <4>1
      <4> QED
        BY <4>2 DEF Value0
    <3>4. i' \in 1 .. Len(argv) + 1 /\ ctOptions' \in 0 .. Len(argv)
      BY <2>1, <3>1, <3>2, CountOptions DEF Stands, Types
    <3>5. Types' /\ SameSwitches
      BY <2>1, <2>2, <3>1, <3>3, <3>4, SetKeeps
    <3>6. Gives
      BY <2>1, <2>2, <3>1, <3>3, SetSwitch DEF Gives, Stands, TakesValue
    <3>7. \A k \in DOMAIN keys : (NamesOption(i) /\ Named(i) = k) \/ keys'[k] = keys[k]
      BY <2>1, <2>2, <3>1, <3>3, SetSwitch DEF Stands
    <3>8. Named(i) # Help
      <4>1. keys[Help].istoggle
        BY <2>1 DEF Stands, Types, Maps
      <4> QED
        BY <2>2, <4>1 DEF TakesValue
    <3>9. parsed' = "no"
      BY <2>1, <3>1 DEF Stands
    <3> QED
      BY <2>1, <2>2, <3>1, <3>2, <3>5, <3>6, <3>7, <3>8, <3>9, GoOn
  <2> QED
    BY <2>3, <2>4
<1>5. CASE PlainToken
  <2>1. Stands /\ i =< Len(argv) /\ i' = i + 1 /\ UNCHANGED <<keys, ctOptions, parsed>> /\ parsed' = "no"
    BY <1>5, StandsHere DEF ParseStep, PlainToken, Parsing
  <2>2. ~NamesOption(i) /\ argv[i][1] = 0
    BY <1>5, <2>1, Here DEF Stands, PlainToken, Known
  <2>3. Types' /\ SameSwitches
    BY <2>1 DEF Stands, Types, Maps, SameSwitches
  <2>4. ~TakesValue(i)
    BY <2>2 DEF TakesValue
  <2>5. i + 1 \in {i + 1, i + 2} /\ i + 1 # i + 2
    BY <2>1 DEF Stands, Types
  <2> QED
    BY <2>1, <2>2, <2>3, <2>4, <2>5, GoOn
<1>6. CASE ParseEnd
  <2>1. Stands /\ i = Len(argv) + 1 /\ UNCHANGED <<keys, i, ctOptions>> /\ parsed' = "ok"
    BY <1>6, StandsHere DEF ParseStep, ParseEnd
  <2>2. Types /\ Types' /\ SameSwitches /\ ParsedTo(i)
    BY <2>1 DEF Stands, Types, Maps, SameSwitches, Results
  <2>3. ParsedTo(i)'
    BY <2>1, <2>2, SameSeen
  <2>4. (Types /\ parsed = "ok" /\ i = Len(argv) + 1 /\ ParsedTo(i) => ParseRight)'
    BY EndMeans, PTL
  <2> QED
    BY <2>1, <2>2, <2>3, <2>4 DEF ParserInv, SameSwitches
<1> QED
  BY <1>1, <1>2, <1>3, <1>4, <1>5, <1>6 DEF ParseStep

\* Every step of the parser keeps its invariant.
LEMMA ParserStep ==
  ASSUME ParserInv, ParserNext
  PROVE  ParserInv'
BY RegisterStep, ParseStepRight DEF ParserNext

-----------------------------------------------------------------------------
(***************************************************************************)
(* The parser in the host program.                                         *)
(***************************************************************************)
\* main sets no default key.
Plain == client = "main" => default_key = Empty

\* Nothing of the parser changes.
LEMMA ParserKept == ParserInv /\ UNCHANGED parserVars => ParserInv'
<1> SUFFICES ASSUME ParserInv, UNCHANGED parserVars PROVE ParserInv'
  OBVIOUS
<1>1. UNCHANGED <<client, called, argv, i, keys, shortcuts, default_key, appname, ctOptions, parsed>>
  BY DEF parserVars
<1>2. Types' /\ SameSwitches
  BY <1>1 DEF ParserInv, Types, Maps, Entry, Help, Long, Results, Empty, Text, SameSwitches, Token, Value0
<1>3. Values' = Values /\ Place' = Place /\ Options' = Options
  BY <1>2, SameMeaning DEF ParserInv
<1>4. ParsedTo(i) => ParsedTo(i)'
  BY <1>1, <1>2, SameSeen DEF ParserInv
<1>5. ParseRight'
  <2> DEFINE stops == UNION {Stops[r] : r \in DOMAIN Stops}
             seen  == IF stops = {} THEN Options ELSE {j \in Options : j < Min(stops)}
  <2>1. Stops' = Stops
    BY <1>1, <1>3 DEF Stops, TakesValue, NamesOption, Named, Known, Help, Long, Empty, Text
  <2>2. \A j : Named(j)' = Named(j)
    BY <1>1 DEF Named, Empty, Text
  <2>3. stops' = stops
    BY <2>1
  <2>4. Min(stops)' = Min(stops)
    BY <2>3
  <2>5. seen' = seen
    BY <1>3, <2>3, <2>4
  <2> HIDE DEF stops, seen
  <2>6. \A k : {j \in seen : Named(j) = k}' = {j \in seen : Named(j) = k}
    BY <2>2, <2>5
  <2>7. \A k : Max({j \in seen : Named(j) = k})' = Max({j \in seen : Named(j) = k})
    BY <2>6 DEF Max
  <2>8. called = Len(Clients[client]) /\ parsed \notin {"no", "over"} => RightTo(stops, seen)
    BY DEF ParserInv, ParseRight, RightTo, stops, seen
  <2>9. called = Len(Clients[client]) /\ parsed \notin {"no", "over"} => RightTo(stops, seen)'
    BY <1>1, <2>1, <2>3, <2>4, <2>5, <2>6, <2>7, <2>8 DEF RightTo, Value, IsValid, Text
  <2> QED
    BY <1>1, <2>9 DEF ParseRight, RightTo, stops, seen
<1> QED
  BY <1>1, <1>2, <1>3, <1>4, <1>5 DEF ParserInv

\* From here on the arguments are forgotten; main has no default key that could be left dangling.
LEMMA ForgetArguments ==
  ASSUME ParserInv, Plain, OpenKernel
  PROVE  ParserInv' /\ Plain'
<1>1. /\ client = "main" /\ argv' = <<argv[1]>> /\ i' = 1 /\ keys' = [k \in {Help} |-> keys[k]] /\ shortcuts' = <<>>
      /\ ctOptions' = 0 /\ parsed' = "over" /\ UNCHANGED <<client, called, default_key>> /\ default_key = Empty
  BY DEF OpenKernel, At, Plain
<1>2. Types
  BY DEF ParserInv
<1>3. argv' \in Seq(Token) /\ argv' # <<>> /\ Len(argv') = 1
  <2>1. argv[1] \in Token
    BY <1>2 DEF Types
  <2> QED
    BY <1>1, <2>1
<1>4. Maps'
  <2>1. Help \in DOMAIN keys /\ keys[Help].istoggle /\ keys[Help] \in Entry /\ Help[1] >= 2
    BY <1>2 DEF Types, Maps
  <2>2. Help' = Help /\ Entry' = Entry /\ Empty' = Empty
    BY DEF Help, Long, Entry, Value0, Token, Empty, Text
  <2>3. DOMAIN keys' = {Help} /\ keys'[Help] = keys[Help]
    BY <1>1
  <2>4. keys' \in [DOMAIN keys' -> Entry']
    BY <1>1, <2>1, <2>2, <2>3
  <2>5. DOMAIN shortcuts' = {}
    BY <1>1
  <2> QED
    BY <1>1, <2>1, <2>2, <2>3, <2>4, <2>5 DEF Maps
<1>5. Types'
  <2>1. i' \in 1 .. Len(argv') + 1 /\ ctOptions' \in 0 .. Len(argv') /\ parsed' \in Results'
    BY <1>1, <1>3 DEF Results
  <2> QED
    BY <1>1, <1>2, <1>3, <1>4, <2>1 DEF Types, Token
<1>6. parsed' # "no" /\ ParseRight'
  BY <1>1 DEF ParseRight
<1> QED
  BY <1>1, <1>5, <1>6 DEF ParserInv, Plain, Empty, Text

\* Every step of the host program is one of the parser, leaves it alone or forgets the arguments.
LEMMA HostParserStep ==
  ASSUME ParserInv, Plain, [Next]_vars
  PROVE  ParserInv' /\ Plain'
<1>1. CASE Parse
  <2>1. ParserNext
    BY <1>1 DEF Parse
  <2>2. ParserInv'
    BY <2>1, ParserStep
  <2>3. Plain'
    <3>1. CASE Register
      <4> SUFFICES ASSUME client' = "main" PROVE default_key' = Empty
        BY DEF Plain, Empty, Text
      <4>1. client = "main" /\ default_key = Empty /\ called < Len(MainCalls) /\ called \in 0 .. Len(MainCalls)
        BY <3>1, ClientsAssumption DEF Register, ParserInv, Types, Plain
      <4>2. Len(MainCalls) = 2 /\ MainCalls[1].op = "addSwitch" /\ MainCalls[2].op = "addSwitch"
        BY DEF MainCalls, Switch
      <4>3. Clients[client][called + 1].op = "addSwitch"
        BY <4>1, <4>2, ClientsAssumption
      <4> QED
        BY <3>1, <4>1, <4>3 DEF Register, AddSwitch, SetDefaultKey, NoShortcut
    <3>2. CASE ParseStep
      BY <3>2 DEF ParseStep, Plain, Empty, Text
    <3> QED
      BY <2>1, <3>1, <3>2 DEF ParserNext
  <2> QED
    BY <2>2, <2>3
<1>2. CASE OpenKernel
  BY <1>2, ForgetArguments
<1>3. CASE ~Parse /\ ~OpenKernel
  <2>1. UNCHANGED parserVars
    BY <1>3 DEF Next, Settings, OpenDevice, LoadXclbin, KernelTaken, Open, ReadFiles, PrepareBO, Move, WriteReadback,
                RunDone, RunGivenUp, WriteResults, WriteFiles, vars
  <2>2. UNCHANGED <<client, default_key>>
    BY <2>1 DEF parserVars
  <2> QED
    BY <2>1, <2>2, ParserKept DEF Plain, Empty, Text
<1> QED
  BY <1>1, <1>2, <1>3

\* Every switch gets the meaning the whole command line gives it, and the parse stops, or crashes, exactly
\* where it must: for every set of switches and every command line, whatever the program registers.
THEOREM ParseCorrect == Spec => []ParseRight
<1>1. Init => ParserInv /\ Plain
  BY InitParser DEF Init, ParserInit, Plain
<1>2. ParserInv /\ Plain /\ [Next]_vars => ParserInv' /\ Plain'
  BY HostParserStep
<1>3. ParserInv => ParseRight
  BY DEF ParserInv
<1> QED
  BY <1>1, <1>2, <1>3, PTL DEF Spec

-----------------------------------------------------------------------------
(***************************************************************************)
(* Types of the host's variables.                                          *)
(***************************************************************************)
Ways == {"runs", EXIT_SUCCESS, EXIT_FAILURE, "terminated"}

\* What the map of the memories leaves open.
HostTypes ==
  /\ disk \in Disks \cup {<<>>} /\ nread \in 0 .. 7 /\ aborted \in BOOLEAN /\ status \in Ways
  /\ offset \in 0 .. Size("p1")
  /\ \A o \in DOMAIN vec : vec[o] \in [0 .. Rows[o] - 1 -> 0 .. PC * POLY_CC]
  /\ step \in Early => bo = <<>>

\* The invariants together give every variable its type.
LEMMA TypesTogether ==
  ASSUME IInv, HostTypes, ParserTypeOK
  PROVE  TypeOK
<1>1. step \in Steps \cup {"settings", "device", "xclbin", "cu", "read", "bo", "write_poly", "write_ct_rl", "end"}
  BY DEF IInv, Kinds, Early, Object, Rows, Over, Steps
<1>2. \A p \in DOMAIN bo : \A c \in Channel : DOMAIN hbm[p][c] = 0 .. Size(p) - 1 /\ DOMAIN bo[p][c] = 0 .. Size(p) - 1
  <2>1. CASE step \in Early
    BY <2>1 DEF HostTypes
  <2>2. CASE step \notin Early
    <3>1. Shape(bo) /\ Shape(hbm)
      BY <2>2 DEF IInv, Buffers
    <3>2. DOMAIN bo = Port
      BY <3>1 DEF Shape
    <3>3. \A m : Shape(m) => \A p \in Port : \A c \in Channel : DOMAIN m[p][c] = 0 .. Size(p) - 1
      BY DEF Shape, Range0
    <3> QED
      BY <3>1, <3>2, <3>3
  <2> QED
    BY <2>1, <2>2
<1>3. rd.busy \in BOOLEAN /\ rd.ctr \in 0 .. POLY_CC \div B - 1
  <2>1. CASE rd = NoBurst
    BY <2>1, Constants DEF NoBurst, NB
  <2>2. CASE rd # NoBurst
    BY <2>2 DEF IInv, Reading, NB
  <2> QED
    BY <2>1, <2>2
<1>4. wr.x \in Comp /\ wr.i \in 0 .. L /\ wr.ctr \in 0 .. POLY_CC \div B - 1 /\ fault \in BOOLEAN
  BY DEF IInv, Writing, Kinds, NB
<1> QED
  BY <1>1, <1>2, <1>3, <1>4 DEF HostTypes, TypeOK, LayoutTypeOK, Ways

\* The largest offset of all is in the buffer of port p1.
LEMMA Ends ==
  ASSUME NEW o \in Object
  PROVE  From[o] \in 0 .. Size("p1") /\ From[o] + Extent[o] \in 0 .. Size("p1")
<1>0. CtWords \in Nat /\ KeyWords \in Nat /\ POLY_CC \in Nat /\ CtWords >= 2 * POLY_CC /\ L \in Nat /\ L >= 2
  BY Constants
<1>1. KeyWords >= CtWords + CtWords
  <2> DEFINE d == L - 2
  <2>1. d \in Nat /\ L + 1 = d + 3
    BY <1>0
  <2>2. KeyWords = CtWords * (L + 1)
    BY DEF KeyWords, CtWords
  <2> HIDE DEF d
  <2>3. CtWords * (d + 3) = CtWords * d + 3 * CtWords /\ CtWords * d \in Nat
    BY <1>0, <2>1
  <2> QED
    BY <1>0, <2>1, <2>2, <2>3
<1>2. \A p \in Inputs : Size(p) =< Size("p1")
  BY <1>0, <1>1, Sizes DEF Inputs
<1>3. From[o] \in Nat /\ Extent[o] \in Nat /\ From[o] + Extent[o] =< Size(PortOf[o]) /\ PortOf[o] \in Inputs
  BY Places
<1>4. Size("p1") \in Nat /\ Size(PortOf[o]) \in Nat
  BY Sizes, <1>3 DEF Inputs, Port
<1> QED
  BY <1>2, <1>3, <1>4

\* The types the maps of the memories do not give hold at the beginning.
LEMMA InitTypes == Init => HostTypes
<1> SUFFICES ASSUME Init PROVE HostTypes
  OBVIOUS
<1>1. disk = <<>> /\ nread = 0 /\ aborted = FALSE /\ status = "runs" /\ offset = From["psi"] /\ bo = <<>> /\ vec = <<>>
  BY DEF Init, LayoutInit, From, CtWords
<1>2. "psi" \in Object
  BY DEF Object, Rows
<1>3. offset \in 0 .. Size("p1")
  BY <1>1, <1>2, Ends
<1>4. DOMAIN vec = {}
  BY <1>1
<1>5. \A o \in DOMAIN vec : vec[o] \in [0 .. Rows[o] - 1 -> 0 .. PC * POLY_CC]
  BY <1>4
<1>6. disk \in Disks \cup {<<>>}
  BY <1>1
<1>7. aborted \in BOOLEAN
  BY <1>1
<1>8. nread \in 0 .. 7 /\ status \in Ways
  BY <1>1 DEF Ways
<1> QED
  BY <1>1, <1>3, <1>5, <1>6, <1>7, <1>8 DEF HostTypes

\* Steps that leave files, vectors and buffers alone keep them.
LEMMA SameTypes ==
  ASSUME HostTypes, UNCHANGED <<disk, nread, vec, bo>>, step' \in Early => step \in Early,
         aborted' \in BOOLEAN, status' \in Ways, offset' \in 0 .. Size("p1")
  PROVE  HostTypes'
BY DEF HostTypes, Ways, Early

\* A row is read as far as its file goes, and no further than it has room.
LEMMA ReadFits ==
  ASSUME IInv, HostTypes, ReadFiles
  PROVE  HostTypes'
<1> DEFINE o == InputOrder[nread + 1]
<1>1. step = "read" /\ UNCHANGED <<disk, aborted, offset, bo>> /\ status' \in Ways
  BY DEF ReadFiles, At, Running, Ways, HostTypes
<1>2. /\ nread \in 0 .. 6 /\ DOMAIN vec = Object /\ \A u \in Object : DOMAIN vec[u] = 0 .. Rows[u] - 1
  BY <1>1 DEF IInv, ReadIn, Early
<1>3. step' \in {"read", "bo"} /\ bo = <<>>
  BY <1>1 DEF ReadFiles, HostTypes, Early
<1>4. CASE UNCHANGED <<vec, nread>>
  BY <1>1, <1>3, <1>4 DEF HostTypes, Ways
<1>5. CASE /\ ~\E r \in DOMAIN vec[o] : LinesOf(o, r) = Missing /\ ~BadBefore(o, r)
           /\ vec' = [vec EXCEPT ![o] = [r \in DOMAIN @ |-> ReadWords(o, r)]] /\ nread' = nread + 1
  <2>1. o \in Object
    BY <1>2 DEF InputOrder, Object, Rows
  <2>2. ASSUME NEW r \in 0 .. Rows[o] - 1 PROVE ReadWords(o, r) \in 0 .. PC * POLY_CC
    <3> DEFINE n == PC * POLY_CC
    <3>1. n \in Nat /\ PACK_FACTOR = 2 /\ PACK_FACTOR * PC * POLY_CC = 2 * n
      BY Constants DEF PACK_FACTOR
    <3>2. CASE BadBefore(o, r)
      BY <3>1, <3>2 DEF ReadWords
    <3>3. CASE ~BadBefore(o, r)
      <4>1. LinesOf(o, r) # Missing
        BY <1>2, <1>5, <2>1, <3>3
      <4>2. LinesOf(o, r) \in 0 .. 2 * n
        <5>1. CASE Bad(o, r)
          <6>1. disk \in Disks /\ LinesOf(o, r) = disk[<<o, r>>] /\ <<o, r>> \in DOMAIN disk
            BY <5>1 DEF HostTypes, Bad, LinesOf
          <6>2. LinesOf(o, r) \in Missing .. PACK_FACTOR * PC * POLY_CC - 1
            BY <6>1, DisksAssumption
          <6> HIDE DEF n
          <6> QED
            BY <3>1, <4>1, <6>2 DEF Missing
        <5>2. CASE ~Bad(o, r)
          <6>1. LinesOf(o, r) = 2 * n
            BY <3>1, <5>2 DEF LinesOf, Bad
          <6> HIDE DEF n
          <6> QED
            BY <3>1, <6>1
        <5> QED
          BY <5>1, <5>2
      <4>3. ReadWords(o, r) = LinesOf(o, r) \div 2
        BY <3>1, <3>3 DEF ReadWords
      <4> HIDE DEF n
      <4>4. \A l \in 0 .. 2 * n : l \div 2 \in 0 .. n
        BY <3>1
      <4> QED
        BY <4>2, <4>3, <4>4 DEF n
    <3> QED
      BY <3>2, <3>3
  <2>3. vec'[o] = [r \in 0 .. Rows[o] - 1 |-> ReadWords(o, r)] /\ DOMAIN vec' = Object /\ \A u \in Object : u # o => vec'[u] = vec[u]
    BY <1>2, <1>5, <2>1
  <2>4. vec'[o] \in [0 .. Rows[o] - 1 -> 0 .. PC * POLY_CC]
    BY <2>2, <2>3
  <2>5. \A u \in DOMAIN vec' : vec'[u] \in [0 .. Rows[u] - 1 -> 0 .. PC * POLY_CC]
    BY <1>2, <2>3, <2>4 DEF HostTypes
  <2>6. nread' \in 0 .. 7
    BY <1>2, <1>5
  <2> QED
    BY <1>1, <1>3, <2>5, <2>6 DEF HostTypes, Ways
<1> QED
  BY <1>4, <1>5 DEF ReadFiles

\* Laying and reading objects keep the offset within a buffer.
LEMMA LayTypes ==
  ASSUME IInv, HostTypes, LayInputs \/ ReadBack \/ ReadResults
  PROVE  step' \notin Early /\ step \notin Early /\ vec' = vec /\ offset' \in 0 .. Size("p1")
<1>0. {"psi", "psi_inv", "rlk_0", "rlk_1", "ct_2", "ct_0", "ct_1"} \subseteq Object
  BY DEF Object, Rows
<1>1. ASSUME NEW o \in Object, NEW p, NEW rows, NEW coalesced, NEW next, HostWrite(o, p, rows, From[o], coalesced, next)
      PROVE  step = o /\ step' = next /\ vec' = vec /\ offset' \in 0 .. Size("p1")
  <2>1. offset' = From[o] \/ offset' = From[o] + Extent[o]
    BY <1>1, Places DEF HostWrite
  <2> QED
    BY <1>1, <2>1, Ends DEF HostWrite
<1>2. /\ step = "psi" => offset = From["psi"]
      /\ step = "psi_inv" => offset = From["psi_inv"]
      /\ step = "ct_1" => offset = From["ct_1"]
      /\ Ct0Offset = From["ct_0"] /\ From["rlk_0"] = 0 /\ From["rlk_1"] = 0 /\ From["ct_2"] = 0
  BY Products DEF IInv, Offsets, Ct0Offset, From
<1>3. CASE LayInputs
  <2>1. \A o, p, rows, a, coalesced, next : HostWrite(o, p, rows, a, coalesced, next) => step = o
    BY DEF HostWrite
  <2>2. \/ HostWrite("psi", "p0", Constant("psi"), From["psi"], FALSE, "psi_inv")
        \/ HostWrite("psi_inv", "p0", Constant("psi_inv"), From["psi_inv"], FALSE, "rlk_0")
        \/ HostWrite("rlk_0", "p1", Constant("rlk_0"), From["rlk_0"], FALSE, "rlk_1")
        \/ HostWrite("rlk_1", "p2", Constant("rlk_1"), From["rlk_1"], FALSE, "ct_2")
        \/ HostWrite("ct_2", "p0", Live("ct_2"), From["ct_2"], TRUE, "ct_0")
        \/ HostWrite("ct_0", "p1", Live("ct_0"), From["ct_0"], TRUE, "ct_1")
        \/ HostWrite("ct_1", "p1", Live("ct_1"), From["ct_1"], TRUE, "readback")
    BY <1>2, <1>3, <2>1 DEF LayInputs
  <2>3. vec' = vec /\ offset' \in 0 .. Size("p1") /\ step \in {"psi", "psi_inv", "rlk_0", "rlk_1", "ct_2", "ct_0", "ct_1"}
        /\ step' \in {"psi_inv", "rlk_0", "rlk_1", "ct_2", "ct_0", "ct_1", "readback"}
    BY <1>0, <1>1, <2>2
  <2> QED
    BY <2>3 DEF Early
<1>4. CASE ReadBack
  BY <1>4 DEF ReadBack, Early, HostTypes
<1>5. CASE ReadResults
  <2>1. offset' = CtWords
    BY <1>5, Products DEF ReadResults
  <2>2. From["psi"] = CtWords
    BY DEF From
  <2> QED
    BY <1>0, <1>5, <2>1, <2>2, Ends DEF ReadResults, Early
<1> QED
  BY <1>3, <1>4, <1>5

\* Every step of the host program keeps the types.
LEMMA HostTypesStep ==
  ASSUME IInv, HostTypes, [Next]_vars
  PROVE  HostTypes'
<1>1. CASE ReadFiles
  BY <1>1, ReadFits
<1>2. CASE OpenKernel
  <2>1. /\ step' = "read" /\ step \in Early /\ disk' \in Disks /\ UNCHANGED <<nread, aborted, status, offset, bo>>
        /\ vec' = [o \in DOMAIN Rows |-> [r \in 0 .. Rows[o] - 1 |-> 0]]
    BY <1>2 DEF OpenKernel, At, AllocateVectors, Early
  <2>2. 0 \in 0 .. PC * POLY_CC
    <3>1. PC * POLY_CC \in Nat
      BY Constants
    <3> QED
      BY <3>1
  <2>3. \A o \in DOMAIN vec' : vec'[o] \in [0 .. Rows[o] - 1 -> 0 .. PC * POLY_CC]
    BY <2>1, <2>2
  <2> QED
    BY <2>1, <2>3 DEF HostTypes, Ways
<1>3. CASE PrepareBO
  <2>1. step' = "psi" /\ UNCHANGED <<disk, nread, aborted, status, vec, offset>>
    BY <1>3 DEF PrepareBO, hostVars
  <2> QED
    BY <2>1 DEF HostTypes, Ways, Early
<1>4. CASE Move
  <2>1. UNCHANGED <<disk, nread, aborted, status>>
    BY <1>4 DEF Move, hostVars
  <2>2. CASE AdapterStep
    <3>1. step = "kernel" /\ UNCHANGED <<step, vec, offset, bo>>
      BY <2>2 DEF AdapterStep, ReadFirst, ReadNext, Burst, WriteBurst
    <3> QED
      BY <2>1, <3>1 DEF HostTypes, Ways
  <2>3. CASE LayInputs \/ ReadBack \/ ReadResults
    <3>1. step' \notin Early /\ vec' = vec /\ offset' \in 0 .. Size("p1")
      BY <2>3, LayTypes
    <3> QED
      BY <2>1, <3>1 DEF HostTypes, Ways, Early
  <2> QED
    BY <1>4, <2>2, <2>3 DEF Move
<1>5. CASE Parse \/ Settings \/ OpenDevice \/ LoadXclbin \/ KernelTaken \/ WriteReadback \/ RunDone \/ RunGivenUp \/ WriteResults
           \/ UNCHANGED vars
  <2>1. UNCHANGED <<disk, nread, vec, bo, offset>> /\ (aborted' = aborted \/ aborted' = TRUE)
    BY <1>5 DEF Parse, Settings, OpenDevice, LoadXclbin, KernelTaken, Open, WriteReadback, WriteResults, WriteFiles, RunDone,
                RunGivenUp, RunOver, vars, layoutVars, hostVars
  <2>2. status' \in Ways
    <3>1. CASE Parse \/ Settings \/ OpenDevice \/ LoadXclbin \/ KernelTaken
      BY <3>1 DEF Parse, Settings, OpenDevice, LoadXclbin, KernelTaken, Open, HostTypes, Ways
    <3>2. CASE WriteReadback \/ WriteResults
      BY <3>2 DEF WriteReadback, WriteResults, WriteFiles, HostTypes, Ways
    <3>3. CASE RunDone \/ RunGivenUp \/ UNCHANGED vars
      BY <3>3 DEF RunDone, RunGivenUp, vars, hostVars, HostTypes, Ways
    <3> QED
      BY <1>5, <3>1, <3>2, <3>3
  <2>3. step' \in Early => step \in Early
    <3>1. CASE Parse \/ RunDone \/ RunGivenUp \/ UNCHANGED vars
      BY <3>1 DEF Parse, RunDone, RunGivenUp, RunOver, vars, layoutVars, Early
    <3>2. CASE Settings \/ OpenDevice \/ LoadXclbin \/ KernelTaken
      BY <3>2 DEF Settings, OpenDevice, LoadXclbin, KernelTaken, Open, At, Early
    <3>3. CASE WriteReadback \/ WriteResults
      BY <3>3 DEF WriteReadback, WriteResults, WriteFiles, Early
    <3> QED
      BY <1>5, <3>1, <3>2, <3>3
  <2>4. aborted' \in BOOLEAN /\ offset' \in 0 .. Size("p1")
    BY <2>1 DEF HostTypes
  <2> QED
    BY <2>1, <2>2, <2>3, <2>4, SameTypes
<1> QED
  BY <1>1, <1>2, <1>3, <1>4, <1>5 DEF Next

\* No step of the host leaves its types: whatever state the input files are in, a row is read no further than it has
\* room, the host's offset stays in the largest buffer, and every map of the parser points to a switch there is.
THEOREM HostTypeCorrect == Spec => []TypeOK
<1>1. Init => HostTypes /\ ParserInv /\ Plain
  BY InitTypes, InitParser DEF Init, ParserInit, Plain
<1>2. IInv /\ HostTypes /\ ParserInv /\ Plain /\ [Next]_vars => HostTypes' /\ ParserInv' /\ Plain'
  BY HostTypesStep, HostParserStep
<1>3. IInv /\ HostTypes /\ ParserInv => TypeOK
  BY TypesTogether, TypesOK DEF ParserInv
<1> QED
  BY <1>1, <1>2, <1>3, Invariant, PTL DEF Spec
=============================================================================
