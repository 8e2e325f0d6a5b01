------------------------------ MODULE RelinData ------------------------------
(***************************************************************************)
(* What travels on the data paths of the relinearization core, up to what  *)
(* the control can get wrong: a polynomial is the name of what it holds,   *)
(* and an operator on polynomials returns Junk as soon as its operands do  *)
(* not belong together (another prime, another polynomial, another table). *)
(* The arithmetic itself (NTT, modular multiplier) lives in submodules.    *)
(***************************************************************************)
EXTENDS Integers, Sequences, FiniteSets

CONSTANTS
  L,       \* number of primes of the ciphertext modulus; the special prime is prime L
  FIFO_M   \* polynomials held by each FIFO between the NTT and the multipliers

ASSUME LAssumption     == L \in Nat \ {0}
ASSUME FifoAssumption  == FIFO_M \in Nat \ {0}

Comp  == 0 .. 1        \* the two components of a ciphertext: ct0, ct1
Poly  == 0 .. L - 1    \* the residue polynomials of ct2
Prime == 0 .. L        \* the primes, the special one last
Round == 0 .. L        \* a run works through the primes, the special one first

\* The prime of a round: `ctr_L_` in relin_cu_p0_ntt, relin_cu_p1_p2 and `ctr_` in relin_q_loader.
PrimeOf(c) == IF c = 0 THEN L ELSE c - 1

\* A round counter that wraps after the last round.
NextRound(c) == IF c = L THEN 0 ELSE c + 1

(***************************************************************************)
(* Values. The second and third component are the prime and the index:     *)
(*   ct      residue polynomial of ct0, ct1 (index 0, 1) as stored in HBM  *)
(*   ct2     residue polynomial of ct2 (the prime is the one it is of)     *)
(*   psi     twiddle table of a prime, forward (0) or inverse (1)          *)
(*   rlk     key polynomial for a prime and a residue of ct2               *)
(*   ntt     residue polynomial of ct2, transformed modulo a prime         *)
(*   prod    its product with the key                                      *)
(*   ksw     key-switched component 0 or 1 modulo a prime                  *)
(*   out     component 0 or 1 of the result modulo a prime                 *)
(***************************************************************************)
Kind  == {"none", "junk", "ct", "ct2", "psi", "rlk", "ntt", "prod", "ksw", "out"}
Value == Kind \X Prime \X Prime

None == <<"none", 0, 0>>
Junk == <<"junk", 0, 0>>

\* The NTT unit in forward mode: q is the loaded modulus, tab the loaded table.
Transform(p, tab, q) ==
  IF p[1] = "ct2" /\ tab = <<"psi", q, 0>> THEN <<"ntt", q, p[2]>> ELSE Junk

\* A multiplier: a transformed polynomial times a key modulo q.
Multiply(p, key, q) ==
  IF p[1] = "ntt" /\ p[2] = q /\ key = <<"rlk", q, p[3]>> THEN <<"prod", q, p[3]>> ELSE Junk

\* An accumulator: the first polynomial of a sum replaces what the BRAM held.
Add(sum, p, first) ==
  IF first THEN {p} ELSE IF p \in sum THEN {Junk} ELSE sum \union {p}

\* The sum of all L products modulo q.
FullSum(q) == {<<"prod", q, j>> : j \in Poly}

\* The NTT unit in inverse mode on accumulator x.
InverseTransform(sum, x, tab, q) ==
  IF sum = FullSum(q) /\ tab = <<"psi", q, 1>> THEN <<"ksw", q, x>> ELSE Junk

\* Final operation of the special prime's round: add half, keep for the others.
AddHalf(p, q) == IF p[1] = "ksw" /\ p[2] = q THEN p ELSE Junk

\* Final operation of the other rounds: (a - kept) / P modulo q, + b if the addition is built in.
Combine(a, b, kept, q, add) ==
  IF \E x \in Comp : /\ a = <<"ksw", q, x>>
                     /\ kept = <<"ksw", L, x>>
                     /\ add => b = <<"ct", q, x>>
  THEN <<"out", q, a[3]>>
  ELSE Junk

\* The result of a run: component x modulo prime i.
Result(x, i) == <<"out", i, x>>
=============================================================================
