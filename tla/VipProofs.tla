------------------------------ MODULE VipProofs ------------------------------
(***************************************************************************)
(* Theorems about AxiVip for every number of transactions, every number of *)
(* them in flight, every depth of the socket, and every build.             *)
(***************************************************************************)
EXTENDS AxiVip, SequenceTheorems, TLAPS

Transaction == Dir \X Nat

-----------------------------------------------------------------------------
(***************************************************************************)
(* Transactions of one direction in a queue of both.                       *)
(***************************************************************************)
\* Of direction d, queue s holds numbers m + 1 .. n, each once, the lowest first.
Run(s, d, m, n) ==
  /\ \A j \in DOMAIN s : s[j][1] = d => s[j][2] \in m + 1 .. n
  /\ \A k \in m + 1 .. n : \E j \in DOMAIN s : s[j] = <<d, k>>
  /\ \A i, j \in DOMAIN s : i < j /\ s[i][1] = d /\ s[j][1] = d => s[i][2] < s[j][2]

\* No transaction is in an empty queue.
LEMMA RunEmpty ==
  ASSUME NEW d, NEW m \in Nat
  PROVE  Run(<<>>, d, m, m)
<1>1. DOMAIN <<>> = {} /\ m + 1 .. m = {}
  OBVIOUS
<1> QED
  BY <1>1 DEF Run

\* The next transaction of the direction is put behind the others.
LEMMA RunAppend ==
  ASSUME NEW s \in Seq(Transaction), NEW d \in Dir, NEW m \in Nat, NEW n \in Nat, m =< n, Run(s, d, m, n)
  PROVE  Run(Append(s, <<d, n + 1>>), d, m, n + 1)
<1> DEFINE t == Append(s, <<d, n + 1>>)
<1>1. DOMAIN s = 1 .. Len(s) /\ Len(s) \in Nat /\ \A j \in DOMAIN s : s[j] \in Transaction
  OBVIOUS
<1>2. DOMAIN t = 1 .. Len(s) + 1 /\ t[Len(s) + 1] = <<d, n + 1>> /\ \A j \in 1 .. Len(s) : t[j] = s[j]
  OBVIOUS
<1> HIDE DEF t
<1>3. ASSUME NEW j \in DOMAIN t, t[j][1] = d PROVE t[j][2] \in m + 1 .. n + 1
  <2>1. CASE j = Len(s) + 1
    BY <1>2, <2>1
  <2>2. CASE j \in 1 .. Len(s)
    BY <1>1, <1>2, <1>3, <2>2 DEF Run
  <2> QED
    BY <1>1, <1>2, <2>1, <2>2
<1>4. ASSUME NEW k \in m + 1 .. n + 1 PROVE \E j \in DOMAIN t : t[j] = <<d, k>>
  <2>1. CASE k = n + 1
    BY <1>1, <1>2, <2>1
  <2>2. CASE k \in m + 1 .. n
    <3>1. PICK j \in DOMAIN s : s[j] = <<d, k>>
      BY <2>2 DEF Run
    <3> QED
      BY <1>1, <1>2, <3>1
  <2> QED
    BY <2>1, <2>2
<1>5. ASSUME NEW i \in DOMAIN t, NEW j \in DOMAIN t, i < j, t[i][1] = d, t[j][1] = d PROVE t[i][2] < t[j][2]
  <2>1. i \in 1 .. Len(s) /\ t[i] = s[i] /\ s[i][2] \in m + 1 .. n
    BY <1>1, <1>2, <1>5 DEF Run
  <2>2. CASE j = Len(s) + 1
    BY <1>2, <2>1, <2>2
  <2>3. CASE j \in 1 .. Len(s)
    BY <1>1, <1>2, <1>5, <2>1, <2>3 DEF Run
  <2> QED
    BY <1>1, <1>2, <2>2, <2>3
<1> QED
  BY <1>3, <1>4, <1>5 DEF Run, t

\* One of the other direction may come behind them.
LEMMA RunOther ==
  ASSUME NEW s \in Seq(Transaction), NEW d \in Dir, NEW m \in Nat, NEW n \in Nat, Run(s, d, m, n),
         NEW x \in Transaction, x[1] # d
  PROVE  Run(Append(s, x), d, m, n)
<1> DEFINE t == Append(s, x)
<1>1. DOMAIN s = 1 .. Len(s) /\ Len(s) \in Nat
  OBVIOUS
<1>2. DOMAIN t = 1 .. Len(s) + 1 /\ t[Len(s) + 1] = x /\ \A j \in 1 .. Len(s) : t[j] = s[j]
  OBVIOUS
<1> HIDE DEF t
<1>3. \A j \in DOMAIN t : t[j][1] = d => j \in DOMAIN s /\ t[j] = s[j]
  BY <1>1, <1>2
<1>4. \A j \in DOMAIN s : j \in DOMAIN t /\ t[j] = s[j]
  BY <1>1, <1>2
<1> QED
  BY <1>3, <1>4 DEF Run, t

\* The queue's first transaction, if it is of the direction, is the next one; it is taken.
LEMMA RunTake ==
  ASSUME NEW s \in Seq(Transaction), s # <<>>, NEW d \in Dir, NEW m \in Nat, NEW n \in Nat, Run(s, d, m, n), Head(s)[1] = d
  PROVE  Head(s) = <<d, m + 1>> /\ m + 1 =< n /\ Run(Tail(s), d, m + 1, n)
<1> DEFINE t == Tail(s)
<1>1. DOMAIN s = 1 .. Len(s) /\ Len(s) \in Nat \ {0} /\ Head(s) = s[1] /\ \A j \in DOMAIN s : s[j] \in Transaction
  OBVIOUS
<1>2. DOMAIN t = 1 .. Len(s) - 1 /\ \A j \in 1 .. Len(s) - 1 : t[j] = s[j + 1]
  OBVIOUS
<1> HIDE DEF t
<1>3. s[1] \in Transaction /\ s[1][1] = d /\ s[1][2] \in m + 1 .. n /\ 1 \in DOMAIN s
  BY <1>1 DEF Run
<1>4. s[1][2] = m + 1
  <2>1. m + 1 \in m + 1 .. n
    BY <1>3
  <2>2. PICK j \in DOMAIN s : s[j] = <<d, m + 1>>
    BY <2>1 DEF Run
  <2>3. j # 1 => s[1][2] < s[j][2]
    BY <1>1, <1>3, <2>2 DEF Run
  <2> QED
    BY <1>3, <2>2, <2>3
<1>5. Head(s) = <<d, m + 1>>
  BY <1>1, <1>3, <1>4 DEF Transaction
<1>6. ASSUME NEW j \in DOMAIN t, t[j][1] = d PROVE t[j][2] \in m + 2 .. n
  <2>1. j + 1 \in DOMAIN s /\ t[j] = s[j + 1] /\ 1 < j + 1
    BY <1>1, <1>2
  <2>2. s[j + 1][2] \in m + 1 .. n /\ s[1][2] < s[j + 1][2]
    BY <1>3, <1>6, <2>1 DEF Run
  <2> QED
    BY <1>4, <2>1, <2>2
<1>7. ASSUME NEW k \in m + 2 .. n PROVE \E j \in DOMAIN t : t[j] = <<d, k>>
  <2>1. PICK j \in DOMAIN s : s[j] = <<d, k>>
    BY <1>7 DEF Run
  <2>2. j # 1
    BY <1>4, <2>1
  <2>3. j - 1 \in DOMAIN t /\ t[j - 1] = s[j]
    BY <1>1, <1>2, <2>2
  <2> QED
    BY <2>1, <2>3
<1>8. ASSUME NEW i \in DOMAIN t, NEW j \in DOMAIN t, i < j, t[i][1] = d, t[j][1] = d PROVE t[i][2] < t[j][2]
  <2>1. i + 1 \in DOMAIN s /\ j + 1 \in DOMAIN s /\ i + 1 < j + 1 /\ t[i] = s[i + 1] /\ t[j] = s[j + 1]
    BY <1>1, <1>2, <1>8
  <2> QED
    BY <1>8, <2>1 DEF Run
<1>9. m + 1 + 1 = m + 2 /\ m + 1 =< n
  BY <1>3
<1>10. Run(t, d, m + 1, n)
  BY <1>6, <1>7, <1>8, <1>9 DEF Run
<1> QED
  BY <1>5, <1>9, <1>10 DEF t

\* A first transaction of the other direction is none of them.
LEMMA RunPass ==
  ASSUME NEW s \in Seq(Transaction), s # <<>>, NEW d \in Dir, NEW m \in Nat, NEW n \in Nat, Run(s, d, m, n), Head(s)[1] # d
  PROVE  Run(Tail(s), d, m, n)
<1> DEFINE t == Tail(s)
<1>1. DOMAIN s = 1 .. Len(s) /\ Len(s) \in Nat \ {0} /\ Head(s) = s[1]
  OBVIOUS
<1>2. DOMAIN t = 1 .. Len(s) - 1 /\ \A j \in 1 .. Len(s) - 1 : t[j] = s[j + 1]
  OBVIOUS
<1> HIDE DEF t
<1>3. \A j \in DOMAIN t : j + 1 \in DOMAIN s /\ t[j] = s[j + 1]
  BY <1>1, <1>2
<1>4. \A k \in m + 1 .. n : \E j \in DOMAIN t : t[j] = <<d, k>>
  <2> SUFFICES ASSUME NEW k \in m + 1 .. n PROVE \E j \in DOMAIN t : t[j] = <<d, k>>
    OBVIOUS
  <2>1. PICK j \in DOMAIN s : s[j] = <<d, k>>
    BY DEF Run
  <2>2. j # 1
    BY <1>1, <2>1
  <2>3. j - 1 \in DOMAIN t /\ t[j - 1] = s[j]
    BY <1>1, <1>2, <2>2
  <2> QED
    BY <2>1, <2>3
<1>5. ASSUME NEW i \in DOMAIN t, NEW j \in DOMAIN t, i < j, t[i][1] = d, t[j][1] = d PROVE t[i][2] < t[j][2]
  <2>1. i + 1 \in DOMAIN s /\ j + 1 \in DOMAIN s /\ i + 1 < j + 1 /\ t[i] = s[i + 1] /\ t[j] = s[j + 1]
    BY <1>1, <1>2, <1>5
  <2> QED
    BY <1>5, <2>1 DEF Run
<1> QED
  BY <1>3, <1>4, <1>5 DEF Run, t

\* What is put behind a queue at once: nothing or one transaction.
OneOf(x, d, n) == x = <<>> \/ x = << <<d, n + 1>> >>
Nothing(x, d)  == x = <<>> \/ \E y \in Transaction : x = <<y>> /\ y[1] # d

\* What a method puts into a queue, if it is of the direction, is the next one.
LEMMA RunPut ==
  ASSUME NEW s \in Seq(Transaction), NEW d \in Dir, NEW m \in Nat, NEW n \in Nat, m =< n, Run(s, d, m, n), NEW x, OneOf(x, d, n)
  PROVE  Run(s \o x, d, m, n + Len(x)) /\ s \o x \in Seq(Transaction) /\ Len(x) \in 0 .. 1
<1>1. CASE x = <<>>
  BY <1>1
<1>2. CASE x = << <<d, n + 1>> >>
  <2>1. <<d, n + 1>> \in Transaction
    BY DEF Transaction
  <2>2. s \o x = Append(s, <<d, n + 1>>) /\ Len(x) = 1
    BY <1>2, <2>1
  <2>3. n + Len(x) = n + 1 /\ Append(s, <<d, n + 1>>) \in Seq(Transaction)
    BY <2>1, <2>2
  <2>4. Run(Append(s, <<d, n + 1>>), d, m, n + 1)
    BY RunAppend
  <2> QED
    BY <2>2, <2>3, <2>4
<1> QED
  BY <1>1, <1>2 DEF OneOf

\* What is of the other direction does not change the numbers of this one.
LEMMA RunKeep ==
  ASSUME NEW s \in Seq(Transaction), NEW d \in Dir, NEW m \in Nat, NEW n \in Nat, Run(s, d, m, n), NEW x, Nothing(x, d)
  PROVE  Run(s \o x, d, m, n) /\ s \o x \in Seq(Transaction)
<1>1. CASE x = <<>>
  BY <1>1
<1>2. ASSUME NEW y \in Transaction, x = <<y>>, y[1] # d PROVE Run(s \o x, d, m, n) /\ s \o x \in Seq(Transaction)
  <2>1. s \o x = Append(s, y)
    BY <1>2
  <2>2. Run(Append(s, y), d, m, n)
    BY <1>2, RunOther
  <2>3. Append(s, y) \in Seq(Transaction)
    OBVIOUS
  <2> QED
    BY <2>1, <2>2, <2>3
<1> QED
  BY <1>1, <1>2 DEF Nothing

\* A write and then a read are taken from the front of a queue.
Write(s, x) == IsNext(s, "wr") /\ x
Rest(s, x)  == IF Write(s, x) THEN Tail(s) ELSE s
Read(s, x, y) == IsNext(Rest(s, x), "rd") /\ y
Left(s, x, y) == IF Read(s, x, y) THEN Tail(Rest(s, x)) ELSE Rest(s, x)

\* A method that takes a write and a read at a time takes the next write.
LEMMA RunTakeWrite ==
  ASSUME NEW s \in Seq(Transaction), NEW x \in BOOLEAN, NEW y \in BOOLEAN, NEW m \in Nat, NEW n \in Nat, Run(s, "wr", m, n)
  PROVE  /\ Left(s, x, y) \in Seq(Transaction)
         /\ Write(s, x) => Head(s) = <<"wr", m + 1>> /\ m + 1 =< n /\ Run(Left(s, x, y), "wr", m + 1, n)
         /\ ~Write(s, x) => Run(Left(s, x, y), "wr", m, n)
<1>1. "wr" \in Dir /\ "rd" # "wr"
  BY DEF Dir
<1>2. Write(s, x) => s # <<>> /\ Head(s)[1] = "wr"
  BY DEF Write, IsNext
<1>3. Rest(s, x) \in Seq(Transaction)
  BY <1>2 DEF Rest
<1>4. Write(s, x) => Head(s) = <<"wr", m + 1>> /\ m + 1 =< n /\ Run(Rest(s, x), "wr", m + 1, n)
  BY <1>1, <1>2, RunTake DEF Rest
<1>5. ~Write(s, x) => Run(Rest(s, x), "wr", m, n)
  BY DEF Rest
<1>6. Read(s, x, y) => Rest(s, x) # <<>> /\ Head(Rest(s, x))[1] # "wr"
  BY <1>1 DEF Read, IsNext
<1>7. Left(s, x, y) \in Seq(Transaction)
  BY <1>3, <1>6 DEF Left
<1>8. \A k \in Nat : Run(Rest(s, x), "wr", k, n) => Run(Left(s, x, y), "wr", k, n)
  BY <1>1, <1>3, <1>6, RunPass DEF Left
<1> QED
  BY <1>4, <1>5, <1>7, <1>8

\* And the next read, which it looks for behind the write.
LEMMA RunTakeRead ==
  ASSUME NEW s \in Seq(Transaction), NEW x \in BOOLEAN, NEW y \in BOOLEAN, NEW m \in Nat, NEW n \in Nat, Run(s, "rd", m, n)
  PROVE  /\ Read(s, x, y) => Head(Rest(s, x)) = <<"rd", m + 1>> /\ m + 1 =< n /\ Run(Left(s, x, y), "rd", m + 1, n)
         /\ ~Read(s, x, y) => Run(Left(s, x, y), "rd", m, n)
<1>1. "rd" \in Dir /\ "rd" # "wr"
  BY DEF Dir
<1>2. Write(s, x) => s # <<>> /\ Head(s)[1] # "rd"
  BY <1>1 DEF Write, IsNext
<1>3. Rest(s, x) \in Seq(Transaction)
  BY <1>2 DEF Rest
<1>4. Run(Rest(s, x), "rd", m, n)
  BY <1>1, <1>2, RunPass DEF Rest
<1>5. Read(s, x, y) => Rest(s, x) # <<>> /\ Head(Rest(s, x))[1] = "rd"
  BY DEF Read, IsNext
<1> QED
  BY <1>1, <1>3, <1>4, <1>5, RunTake DEF Left

-----------------------------------------------------------------------------
(***************************************************************************)
(* The inductive invariant: the numbers of a direction go through the      *)
(* stages of the bridge in order, none is left out and none is there twice.*)
(***************************************************************************)
BridgeTypes ==
  /\ asked \in [Dir -> Nat] /\ pending \in [Dir -> Seq(Transaction)]
  /\ request \in Seq(Transaction) /\ wire \in Seq(Transaction) /\ response \in Seq(Transaction)
  /\ busy \in [Dir -> Transaction \cup {None}] /\ answer \in [Dir -> Transaction \cup {None}]
  /\ given \in [Dir -> Seq(Transaction)]

\* A place for one transaction: it is empty, or number n = m + 1 is there.
Holds(x, d, m, n) == \/ x = None /\ n = m
                     \/ x = <<d, m + 1>> /\ n = m + 1

\* The numbers the stages hold end at r, w, a, b and q.
Stages(d, r, w, a, b, q) ==
  /\ \A k \in DOMAIN given[d] : given[d][k] = <<d, k>>
  /\ Len(given[d]) =< r /\ r =< w /\ w =< a /\ a =< b /\ b =< q /\ q =< asked[d]
  /\ Run(response, d, Len(given[d]), r)
  /\ Run(wire, d, r, w)
  /\ Holds(answer[d], d, w, a)
  /\ Holds(busy[d], d, a, b)
  /\ Run(request, d, b, q)
  /\ Run(pending[d], d, q, asked[d])
  /\ \A k \in DOMAIN pending[d] : pending[d][k][1] = d

InOrder(d)  == \E r, w, a, b, q \in Nat : Stages(d, r, w, a, b, q)
BridgeInv   == BridgeTypes /\ \A d \in Dir : InOrder(d)

\* In the beginning no transaction is anywhere.
LEMMA InitBridge == BridgeInit => BridgeInv
<1> SUFFICES ASSUME BridgeInit PROVE BridgeInv
  OBVIOUS
<1>1. BridgeTypes
  BY DEF BridgeInit, BridgeTypes, Dir
<1>2. ASSUME NEW d \in Dir PROVE InOrder(d)
  <2>1. /\ asked[d] = 0 /\ pending[d] = <<>> /\ request = <<>> /\ wire = <<>> /\ response = <<>>
        /\ busy[d] = None /\ answer[d] = None /\ given[d] = <<>>
    BY DEF BridgeInit
  <2>2. Run(<<>>, d, 0, 0) /\ Len(<<>>) = 0
    BY RunEmpty
  <2>3. DOMAIN <<>> = {}
    OBVIOUS
  <2>4. Stages(d, 0, 0, 0, 0, 0)
    BY <2>1, <2>2, <2>3 DEF Stages, Holds
  <2> QED
    BY <2>4 DEF InOrder
<1> QED
  BY <1>1, <1>2 DEF BridgeInv

\* What holds of both directions is as it was, and so is everything of this one.
LEMMA IssueKeeps ==
  ASSUME BridgeInv, NEW e \in Dir, Issue(e)
  PROVE  BridgeInv'
<1>1. /\ asked' = [asked EXCEPT ![e] = @ + 1] /\ pending' = [pending EXCEPT ![e] = Append(@, <<e, asked[e] + 1>>)]
      /\ UNCHANGED <<request, busy, answer, wire, response, given>>
  BY DEF Issue, BridgeInv, BridgeTypes
<1>2. asked \in [Dir -> Nat] /\ pending \in [Dir -> Seq(Transaction)]
  BY DEF BridgeInv, BridgeTypes
<1>3. /\ asked'[e] = asked[e] + 1 /\ pending'[e] = Append(pending[e], <<e, asked[e] + 1>>)
      /\ \A d \in Dir : d # e => asked'[d] = asked[d] /\ pending'[d] = pending[d]
  BY <1>1, <1>2
<1>4. BridgeTypes'
  <2>1. <<e, asked[e] + 1>> \in Transaction
    BY <1>2 DEF Transaction
  <2>2. pending'[e] \in Seq(Transaction)
    BY <1>2, <1>3, <2>1
  <2>3. asked' \in [Dir -> Nat] /\ pending' \in [Dir -> Seq(Transaction)]
    BY <1>1, <1>2, <1>3, <2>2
  <2> QED
    BY <1>1, <2>3 DEF BridgeInv, BridgeTypes, Transaction, Dir, None
<1>5. ASSUME NEW d \in Dir PROVE InOrder(d)'
  <2>1. PICK r \in Nat, w \in Nat, a \in Nat, b \in Nat, q \in Nat : Stages(d, r, w, a, b, q)
    BY DEF BridgeInv, InOrder
  <2>2. CASE d # e
    <3>1. Stages(d, r, w, a, b, q)'
      BY <1>1, <1>3, <2>1, <2>2 DEF Stages, Holds, None
    <3> QED
      BY <3>1 DEF InOrder
  <2>3. CASE d = e
    <3>1. /\ pending[d] \in Seq(Transaction) /\ asked[d] \in Nat /\ q =< asked[d] /\ Run(pending[d], d, q, asked[d])
          /\ \A k \in DOMAIN pending[d] : pending[d][k][1] = d
      BY <1>2, <2>1 DEF Stages
    <3>2. Run(Append(pending[d], <<d, asked[d] + 1>>), d, q, asked[d] + 1)
      BY <3>1, RunAppend
    <3>3. \A k \in DOMAIN pending'[d] : pending'[d][k][1] = d
      <4> DEFINE s == pending[d]
      <4>1. s \in Seq(Transaction) /\ pending'[d] = Append(s, <<d, asked[d] + 1>>) /\ \A k \in DOMAIN s : s[k][1] = d
        BY <1>3, <2>3, <3>1
      <4> HIDE DEF s
      <4> QED
        BY <4>1
    <3>4. Stages(d, r, w, a, b, q)'
      BY <1>1, <1>3, <2>1, <2>3, <3>1, <3>2, <3>3 DEF Stages, Holds, None
    <3> QED
      BY <3>4 DEF InOrder
  <2> QED
    BY <2>2, <2>3
<1> QED
  BY <1>4, <1>5 DEF BridgeInv, Dir

\* A write and a read go into the socket, each the first of its direction, as far as there is room.
LEMMA SendKeeps ==
  ASSUME BridgeInv, aximm2ipc_send
  PROVE  BridgeInv'
<1> DEFINE u == Sent("wr", Len(request))
           v == Sent("rd", Len(request) + Len(u))
           left(d, x) == SubSeq(pending[d], Len(x) + 1, Len(pending[d]))
<1>1. /\ request' = request \o u \o v /\ pending' = [wr |-> left("wr", u), rd |-> left("rd", v)]
      /\ UNCHANGED <<asked, busy, answer, wire, response, given>>
  BY DEF aximm2ipc_send
<1>2. BridgeTypes
  BY DEF BridgeInv
<1>3. pending'["wr"] = left("wr", u) /\ pending'["rd"] = left("rd", v) /\ pending' = [d \in Dir |-> pending'[d]]
  BY <1>1 DEF Dir
<1>4. /\ u = <<>> \/ (pending["wr"] # <<>> /\ u = <<Head(pending["wr"])>>)
      /\ v = <<>> \/ (pending["rd"] # <<>> /\ v = <<Head(pending["rd"])>>)
  BY DEF Sent
<1> HIDE DEF u, v
<1>5. ASSUME NEW d \in Dir, NEW x, x = <<>> \/ (pending[d] # <<>> /\ x = <<Head(pending[d])>>),
             NEW q \in Nat, q =< asked[d], Run(pending[d], d, q, asked[d]), \A k \in DOMAIN pending[d] : pending[d][k][1] = d
      PROVE  /\ OneOf(x, d, q) /\ \A e \in Dir : e # d => Nothing(x, e)
             /\ q + Len(x) \in Nat /\ q + Len(x) =< asked[d] /\ Run(left(d, x), d, q + Len(x), asked[d])
             /\ left(d, x) \in Seq(Transaction) /\ \A k \in DOMAIN left(d, x) : left(d, x)[k][1] = d
  <2> DEFINE p == pending[d]
             n == asked[d]
  <2>1. p \in Seq(Transaction) /\ n \in Nat /\ Run(p, d, q, n) /\ \A k \in DOMAIN p : p[k][1] = d
    BY <1>2, <1>5 DEF BridgeTypes
  <2>2. x = <<>> \/ (p # <<>> /\ x = <<Head(p)>>)
    BY <1>5
  <2>3. left(d, x) = SubSeq(p, Len(x) + 1, Len(p)) /\ q =< n
    BY <1>5
  <2> HIDE DEF p, n, left
  <2>4. CASE x = <<>>
    <3>1. SubSeq(p, 1, Len(p)) = p
      BY <2>1
    <3>2. Len(x) = 0 /\ left(d, x) = p
      BY <2>3, <2>4, <3>1
    <3>3. OneOf(x, d, q) /\ \A e \in Dir : Nothing(x, e)
      BY <2>4 DEF OneOf, Nothing
    <3>4. q + Len(x) = q
      BY <3>2
    <3> QED
      BY <2>1, <2>3, <3>2, <3>3, <3>4 DEF n
  <2>5. CASE p # <<>> /\ x = <<Head(p)>>
    <3>1. Head(p) \in Transaction /\ Head(p)[1] = d /\ SubSeq(p, 2, Len(p)) = Tail(p) /\ Tail(p) \in Seq(Transaction)
      BY <2>1, <2>5
    <3>2. Len(x) = 1 /\ left(d, x) = Tail(p)
      BY <2>3, <2>5, <3>1
    <3>3. Head(p) = <<d, q + 1>> /\ q + 1 =< n /\ Run(Tail(p), d, q + 1, n)
      BY <2>1, <2>5, <3>1, RunTake
    <3>4. \A k \in DOMAIN Tail(p) : Tail(p)[k][1] = d
      BY <2>1, <2>5
    <3>5. OneOf(x, d, q)
      BY <2>5, <3>3 DEF OneOf
    <3>6. \A e \in Dir : e # d => Nothing(x, e)
      BY <2>5, <3>1 DEF Nothing
    <3> QED
      BY <3>1, <3>2, <3>3, <3>4, <3>5, <3>6 DEF n
  <2> QED
    BY <2>2, <2>4, <2>5
<1>6. "wr" \in Dir /\ "rd" \in Dir /\ \A d \in Dir : d = "wr" \/ d = "rd"
  BY DEF Dir
<1>7. PICK rw \in Nat, ww \in Nat, aw \in Nat, bw \in Nat, qw \in Nat : Stages("wr", rw, ww, aw, bw, qw)
  BY <1>6 DEF BridgeInv, InOrder
<1>8. PICK rr \in Nat, wr0 \in Nat, ar \in Nat, br \in Nat, qr \in Nat : Stages("rd", rr, wr0, ar, br, qr)
  BY <1>6 DEF BridgeInv, InOrder
<1>9. /\ OneOf(u, "wr", qw) /\ Nothing(u, "rd") /\ qw + Len(u) \in Nat /\ qw + Len(u) =< asked["wr"]
      /\ Run(left("wr", u), "wr", qw + Len(u), asked["wr"]) /\ left("wr", u) \in Seq(Transaction)
      /\ \A k \in DOMAIN left("wr", u) : left("wr", u)[k][1] = "wr"
  BY <1>4, <1>5, <1>6, <1>7 DEF Stages
<1>10. /\ OneOf(v, "rd", qr) /\ Nothing(v, "wr") /\ qr + Len(v) \in Nat /\ qr + Len(v) =< asked["rd"]
       /\ Run(left("rd", v), "rd", qr + Len(v), asked["rd"]) /\ left("rd", v) \in Seq(Transaction)
       /\ \A k \in DOMAIN left("rd", v) : left("rd", v)[k][1] = "rd"
  BY <1>4, <1>5, <1>6, <1>8 DEF Stages
<1>11. PICK qw2 \in Nat : qw2 = qw + Len(u)
  BY <1>9
<1>12. PICK qr2 \in Nat : qr2 = qr + Len(v)
  BY <1>10
<1>13. Run(request', "wr", bw, qw + Len(u)) /\ request' \in Seq(Transaction) /\ qw =< qw + Len(u)
  <2>1. request \in Seq(Transaction) /\ Run(request, "wr", bw, qw) /\ bw =< qw
    BY <1>2, <1>7 DEF BridgeTypes, Stages
  <2>2. Run(request \o u, "wr", bw, qw + Len(u)) /\ request \o u \in Seq(Transaction) /\ Len(u) \in 0 .. 1
    BY <1>6, <1>9, <2>1, RunPut
  <2>3. Run((request \o u) \o v, "wr", bw, qw2) /\ (request \o u) \o v \in Seq(Transaction)
    <3>1. Run(request \o u, "wr", bw, qw2)
      BY <1>11, <2>2
    <3> QED
      BY <1>6, <1>10, <2>2, <3>1, RunKeep
  <2> QED
    BY <1>1, <1>11, <2>2, <2>3
<1>14. Run(request', "rd", br, qr + Len(v)) /\ qr =< qr + Len(v)
  <2>1. request \in Seq(Transaction) /\ Run(request, "rd", br, qr) /\ br =< qr
    BY <1>2, <1>8 DEF BridgeTypes, Stages
  <2>2. Run(request \o u, "rd", br, qr) /\ request \o u \in Seq(Transaction)
    BY <1>6, <1>9, <2>1, RunKeep
  <2>3. Run(request \o u \o v, "rd", br, qr + Len(v)) /\ Len(v) \in 0 .. 1
    BY <1>6, <1>10, <2>1, <2>2, RunPut
  <2> QED
    BY <1>1, <2>3
<1>15. /\ qw2 \in Nat /\ qw =< qw2 /\ qw2 =< asked["wr"] /\ Run(left("wr", u), "wr", qw2, asked["wr"])
       /\ qr2 \in Nat /\ qr =< qr2 /\ qr2 =< asked["rd"] /\ Run(left("rd", v), "rd", qr2, asked["rd"])
       /\ Run(request', "wr", bw, qw2) /\ Run(request', "rd", br, qr2)
  BY <1>9, <1>10, <1>11, <1>12, <1>13, <1>14
<1>16. asked["wr"] \in Nat /\ asked["rd"] \in Nat
  BY <1>2, <1>6 DEF BridgeTypes
<1> HIDE DEF left
<1>17. BridgeTypes'
  <2>1. \A d \in Dir : pending'[d] \in Seq(Transaction)
    BY <1>3, <1>6, <1>9, <1>10
  <2>2. pending' \in [Dir -> Seq(Transaction)]
    BY <1>3, <2>1
  <2> QED
    BY <1>1, <1>2, <1>13, <2>2 DEF BridgeTypes, Transaction, Dir, None
<1>18. InOrder("wr")'
  <2>1. /\ Run(pending["wr"], "wr", qw2, asked["wr"])' /\ \A k \in DOMAIN pending'["wr"] : pending'["wr"][k][1] = "wr"
        /\ UNCHANGED <<asked["wr"], given["wr"], answer["wr"], busy["wr"], response, wire>>
    BY <1>1, <1>3, <1>9, <1>15
  <2>2. Stages("wr", rw, ww, aw, bw, qw2)'
    BY <1>7, <1>15, <1>16, <2>1 DEF Stages, Holds, None
  <2> QED
    BY <1>15, <2>2 DEF InOrder
<1>19. InOrder("rd")'
  <2>1. /\ Run(pending["rd"], "rd", qr2, asked["rd"])' /\ \A k \in DOMAIN pending'["rd"] : pending'["rd"][k][1] = "rd"
        /\ UNCHANGED <<asked["rd"], given["rd"], answer["rd"], busy["rd"], response, wire>>
    BY <1>1, <1>3, <1>10, <1>15
  <2>2. Stages("rd", rr, wr0, ar, br, qr2)'
    BY <1>8, <1>15, <1>16, <2>1 DEF Stages, Holds, None
  <2> QED
    BY <1>15, <2>2 DEF InOrder
<1> QED
  BY <1>6, <1>17, <1>18, <1>19 DEF BridgeInv, Dir

\* The socket delivers in order.
LEMMA ArriveKeeps ==
  ASSUME BridgeInv, Arrive
  PROVE  BridgeInv'
<1> DEFINE x == Head(wire)
<1>1. /\ wire # <<>> /\ response' = Append(response, x) /\ wire' = Tail(wire)
      /\ UNCHANGED <<asked, pending, request, busy, answer, given>>
  BY DEF Arrive
<1>2. wire \in Seq(Transaction) /\ response \in Seq(Transaction) /\ BridgeTypes
  BY DEF BridgeInv, BridgeTypes
<1>3. x \in Transaction
  BY <1>1, <1>2
<1>4. BridgeTypes'
  <2>1. response' \in Seq(Transaction) /\ wire' \in Seq(Transaction)
    BY <1>1, <1>2, <1>3
  <2> QED
    BY <1>1, <1>2, <2>1 DEF BridgeTypes, Transaction, Dir, None
<1>5. ASSUME NEW d \in Dir PROVE InOrder(d)'
  <2>1. PICK r \in Nat, w \in Nat, a \in Nat, b \in Nat, q \in Nat : Stages(d, r, w, a, b, q)
    BY DEF BridgeInv, InOrder
  <2>2. PICK g \in Nat : g = Len(given[d])
    <3>1. given[d] \in Seq(Transaction)
      BY <1>2 DEF BridgeTypes
    <3> QED
      BY <3>1
  <2>3. Run(response, d, g, r) /\ Run(wire, d, r, w) /\ g =< r /\ r =< w
    BY <2>1, <2>2 DEF Stages
  <2>4. CASE x[1] = d
    <3>1. x = <<d, r + 1>> /\ r + 1 =< w /\ Run(Tail(wire), d, r + 1, w)
      BY <1>1, <1>2, <2>3, <2>4, RunTake
    <3>2. Run(Append(response, <<d, r + 1>>), d, g, r + 1)
      BY <1>2, <2>3, RunAppend
    <3>3. Run(wire', d, r + 1, w) /\ Run(response', d, g, r + 1) /\ g =< r + 1
      BY <1>1, <2>3, <3>1, <3>2
    <3>4. Stages(d, r + 1, w, a, b, q)'
      BY <1>1, <2>1, <2>2, <3>1, <3>3 DEF Stages, Holds, None
    <3> QED
      BY <3>4 DEF InOrder
  <2>5. CASE x[1] # d
    <3>1. Run(Tail(wire), d, r, w)
      BY <1>1, <1>2, <2>3, <2>5, RunPass
    <3>2. Run(Append(response, x), d, g, r)
      BY <1>2, <1>3, <2>3, <2>5, RunOther
    <3>3. Run(wire', d, r, w) /\ Run(response', d, g, r)
      BY <1>1, <3>1, <3>2
    <3>4. Stages(d, r, w, a, b, q)'
      BY <1>1, <2>1, <2>2, <3>3 DEF Stages, Holds, None
    <3> QED
      BY <3>4 DEF InOrder
  <2> QED
    BY <2>4, <2>5
<1> QED
  BY <1>4, <1>5 DEF BridgeInv, Dir

\* The far slave answers the transaction of a direction it got first.
LEMMA AnswerKeeps ==
  ASSUME BridgeInv, NEW e \in Dir, Answer(e)
  PROVE  BridgeInv'
<1>1. /\ busy[e] # None /\ answer[e] = None /\ answer' = [answer EXCEPT ![e] = busy[e]] /\ busy' = [busy EXCEPT ![e] = None]
      /\ UNCHANGED <<asked, pending, request, wire, response, given>>
  BY DEF Answer
<1>2. BridgeTypes
  BY DEF BridgeInv
<1>3. /\ answer'[e] = busy[e] /\ busy'[e] = None
      /\ \A d \in Dir : d # e => answer'[d] = answer[d] /\ busy'[d] = busy[d]
  BY <1>1, <1>2 DEF BridgeTypes
<1>4. BridgeTypes'
  <2>1. answer' \in [Dir -> Transaction \cup {None}] /\ busy' \in [Dir -> Transaction \cup {None}]
    BY <1>1, <1>2 DEF BridgeTypes
  <2> QED
    BY <1>1, <1>2, <2>1 DEF BridgeTypes, Transaction, Dir, None
<1>5. ASSUME NEW d \in Dir PROVE InOrder(d)'
  <2>1. PICK r \in Nat, w \in Nat, a \in Nat, b \in Nat, q \in Nat : Stages(d, r, w, a, b, q)
    BY DEF BridgeInv, InOrder
  <2>2. CASE d # e
    <3>1. Stages(d, r, w, a, b, q)'
      BY <1>1, <1>3, <2>1, <2>2 DEF Stages, Holds, None
    <3> QED
      BY <3>1 DEF InOrder
  <2>3. CASE d = e
    <3>1. a = w /\ b = a + 1 /\ busy[d] = <<d, w + 1>>
      <4>1. Holds(answer[d], d, w, a) /\ Holds(busy[d], d, a, b)
        BY <2>1 DEF Stages
      <4>2. \A n : <<d, n>> # None
        BY DEF None, Dir
      <4> QED
        BY <1>1, <2>3, <4>1, <4>2 DEF Holds
    <3>2. Holds(answer[d], d, w, b)' /\ Holds(busy[d], d, b, b)'
      BY <1>3, <2>3, <3>1 DEF Holds, None
    <3>3. Stages(d, r, w, b, b, q)'
      BY <1>1, <2>1, <3>1, <3>2 DEF Stages
    <3> QED
      BY <3>3 DEF InOrder
  <2> QED
    BY <2>2, <2>3
<1> QED
  BY <1>4, <1>5 DEF BridgeInv, Dir

\* Answers come out of the socket into the queues of their directions.
LEMMA ReceiveKeeps ==
  ASSUME BridgeInv, ipc2aximm_receive
  PROVE  BridgeInv'
<1> DEFINE x == is_slave_ready("wr")
           y == is_slave_ready("rd")
<1>1. /\ busy' = [wr |-> IF Write(request, x) THEN Head(request) ELSE busy["wr"],
                  rd |-> IF Read(request, x, y) THEN Head(Rest(request, x)) ELSE busy["rd"]]
      /\ request' = Left(request, x, y)
      /\ UNCHANGED <<asked, pending, answer, wire, response, given>>
  BY DEF ipc2aximm_receive, Write, Rest, Read, Left
<1>2. BridgeTypes /\ request \in Seq(Transaction)
  BY DEF BridgeInv, BridgeTypes
<1>3. x \in BOOLEAN /\ y \in BOOLEAN /\ "wr" \in Dir /\ "rd" \in Dir /\ \A d \in Dir : d = "wr" \/ d = "rd"
  BY DEF is_slave_ready, Dir
<1>4. PICK r \in Nat, w \in Nat, a \in Nat, b \in Nat, q \in Nat : Stages("wr", r, w, a, b, q)
  BY <1>3 DEF BridgeInv, InOrder
<1>5. PICK r0 \in Nat, w0 \in Nat, a0 \in Nat, b0 \in Nat, q0 \in Nat : Stages("rd", r0, w0, a0, b0, q0)
  BY <1>3 DEF BridgeInv, InOrder
<1>6. Write(request, x) => busy["wr"] = None /\ b = a
  <2>1. Holds(busy["wr"], "wr", a, b) /\ \A n : <<"wr", n>> # None
    BY <1>4 DEF Stages, None
  <2> QED
    BY <2>1 DEF Write, is_slave_ready, Holds
<1>7. Read(request, x, y) => busy["rd"] = None /\ b0 = a0
  <2>1. Holds(busy["rd"], "rd", a0, b0) /\ \A n : <<"rd", n>> # None
    BY <1>5 DEF Stages, None
  <2> QED
    BY <2>1 DEF Read, is_slave_ready, Holds
<1>8. Run(request, "wr", b, q) /\ Run(request, "rd", b0, q0)
  BY <1>4, <1>5 DEF Stages
<1> HIDE DEF x, y
<1>9. /\ Left(request, x, y) \in Seq(Transaction)
      /\ Write(request, x) => Head(request) = <<"wr", b + 1>> /\ b + 1 =< q /\ Run(Left(request, x, y), "wr", b + 1, q)
      /\ ~Write(request, x) => Run(Left(request, x, y), "wr", b, q)
  BY <1>2, <1>3, <1>8, RunTakeWrite
<1>10. /\ Read(request, x, y) => Head(Rest(request, x)) = <<"rd", b0 + 1>> /\ b0 + 1 =< q0 /\ Run(Left(request, x, y), "rd", b0 + 1, q0)
       /\ ~Read(request, x, y) => Run(Left(request, x, y), "rd", b0, q0)
  BY <1>2, <1>3, <1>8, RunTakeRead
<1>11. /\ Write(request, x) => busy'["wr"] = <<"wr", b + 1>>
       /\ ~Write(request, x) => busy'["wr"] = busy["wr"]
       /\ Read(request, x, y) => busy'["rd"] = <<"rd", b0 + 1>>
       /\ ~Read(request, x, y) => busy'["rd"] = busy["rd"]
       /\ busy' = [d \in Dir |-> busy'[d]]
  BY <1>1, <1>9, <1>10 DEF Dir
<1>12. BridgeTypes'
  <2>1. <<"wr", b + 1>> \in Transaction /\ <<"rd", b0 + 1>> \in Transaction
    BY <1>3 DEF Transaction
  <2>2. busy' \in [Dir -> Transaction \cup {None}]
    <3>1. busy'["wr"] \in Transaction \cup {None} /\ busy'["rd"] \in Transaction \cup {None}
      BY <1>2, <1>3, <1>11, <2>1 DEF BridgeTypes
    <3> QED
      BY <1>3, <1>11, <3>1
  <2> QED
    BY <1>1, <1>2, <1>9, <2>2 DEF BridgeTypes, Transaction, Dir, None
<1>13. InOrder("wr")'
  <2>1. CASE Write(request, x)
    <3>1. Holds(busy["wr"], "wr", a, b + 1)' /\ a =< b + 1
      BY <1>6, <1>11, <2>1 DEF Holds
    <3>2. Stages("wr", r, w, a, b + 1, q)'
      BY <1>1, <1>4, <1>9, <2>1, <3>1 DEF Stages, Holds, None
    <3> QED
      BY <3>2 DEF InOrder
  <2>2. CASE ~Write(request, x)
    <3>1. Stages("wr", r, w, a, b, q)'
      BY <1>1, <1>4, <1>9, <1>11, <2>2 DEF Stages, Holds, None
    <3> QED
      BY <3>1 DEF InOrder
  <2> QED
    BY <2>1, <2>2
<1>14. InOrder("rd")'
  <2>1. CASE Read(request, x, y)
    <3>1. Holds(busy["rd"], "rd", a0, b0 + 1)' /\ a0 =< b0 + 1
      BY <1>7, <1>11, <2>1 DEF Holds
    <3>2. Stages("rd", r0, w0, a0, b0 + 1, q0)'
      BY <1>1, <1>5, <1>10, <2>1, <3>1 DEF Stages, Holds, None
    <3> QED
      BY <3>2 DEF InOrder
  <2>2. CASE ~Read(request, x, y)
    <3>1. Stages("rd", r0, w0, a0, b0, q0)'
      BY <1>1, <1>5, <1>10, <1>11, <2>2 DEF Stages, Holds, None
    <3> QED
      BY <3>1 DEF InOrder
  <2> QED
    BY <2>1, <2>2
<1> QED
  BY <1>3, <1>12, <1>13, <1>14 DEF BridgeInv, Dir

\* An answer is matched with the transaction at the front of its queue.
LEMMA ResponseKeeps ==
  ASSUME BridgeInv, aximm_resp_handler
  PROVE  BridgeInv'
<1> DEFINE x == is_master_ready("wr")
           y == is_master_ready("rd")
<1>1. /\ given' = [wr |-> IF Write(response, x) THEN Append(given["wr"], Head(response)) ELSE given["wr"],
                   rd |-> IF Read(response, x, y) THEN Append(given["rd"], Head(Rest(response, x))) ELSE given["rd"]]
      /\ response' = Left(response, x, y)
      /\ UNCHANGED <<asked, pending, request, busy, answer, wire>>
  BY DEF aximm_resp_handler, Write, Rest, Read, Left
<1>2. BridgeTypes /\ response \in Seq(Transaction) /\ given \in [Dir -> Seq(Transaction)]
  BY DEF BridgeInv, BridgeTypes
<1>3. x \in BOOLEAN /\ y \in BOOLEAN /\ "wr" \in Dir /\ "rd" \in Dir /\ \A d \in Dir : d = "wr" \/ d = "rd"
  BY DEF is_master_ready, Dir
<1>4. PICK r \in Nat, w \in Nat, a \in Nat, b \in Nat, q \in Nat : Stages("wr", r, w, a, b, q)
  BY <1>3 DEF BridgeInv, InOrder
<1>5. PICK r0 \in Nat, w0 \in Nat, a0 \in Nat, b0 \in Nat, q0 \in Nat : Stages("rd", r0, w0, a0, b0, q0)
  BY <1>3 DEF BridgeInv, InOrder
<1>6. PICK g \in Nat, g0 \in Nat : g = Len(given["wr"]) /\ g0 = Len(given["rd"])
  <2>1. given["wr"] \in Seq(Transaction) /\ given["rd"] \in Seq(Transaction)
    BY <1>2, <1>3
  <2> QED
    BY <2>1
<1>7. Run(response, "wr", g, r) /\ Run(response, "rd", g0, r0)
  BY <1>4, <1>5, <1>6 DEF Stages
<1> HIDE DEF x, y
<1>8. /\ Left(response, x, y) \in Seq(Transaction)
      /\ Write(response, x) => Head(response) = <<"wr", g + 1>> /\ g + 1 =< r /\ Run(Left(response, x, y), "wr", g + 1, r)
      /\ ~Write(response, x) => Run(Left(response, x, y), "wr", g, r)
  BY <1>2, <1>3, <1>7, RunTakeWrite
<1>9. /\ Read(response, x, y) => Head(Rest(response, x)) = <<"rd", g0 + 1>> /\ g0 + 1 =< r0 /\ Run(Left(response, x, y), "rd", g0 + 1, r0)
      /\ ~Read(response, x, y) => Run(Left(response, x, y), "rd", g0, r0)
  BY <1>2, <1>3, <1>7, RunTakeRead
<1>10. /\ Write(response, x) => given'["wr"] = Append(given["wr"], <<"wr", g + 1>>)
       /\ ~Write(response, x) => given'["wr"] = given["wr"]
       /\ Read(response, x, y) => given'["rd"] = Append(given["rd"], <<"rd", g0 + 1>>)
       /\ ~Read(response, x, y) => given'["rd"] = given["rd"]
       /\ given' = [d \in Dir |-> given'[d]]
  BY <1>1, <1>8, <1>9 DEF Dir
<1>11. ASSUME NEW d \in Dir, NEW l \in Nat, l = Len(given[d]), \A k \in DOMAIN given[d] : given[d][k] = <<d, k>>
       PROVE  /\ Append(given[d], <<d, l + 1>>) \in Seq(Transaction) /\ Len(Append(given[d], <<d, l + 1>>)) = l + 1
              /\ \A k \in DOMAIN Append(given[d], <<d, l + 1>>) : Append(given[d], <<d, l + 1>>)[k] = <<d, k>>
  <2> DEFINE s == given[d]
  <2>1. s \in Seq(Transaction) /\ Len(s) = l /\ \A k \in DOMAIN s : s[k] = <<d, k>>
    BY <1>2, <1>11
  <2>2. <<d, l + 1>> \in Transaction
    BY DEF Transaction
  <2> HIDE DEF s
  <2>3. /\ Append(s, <<d, l + 1>>) \in Seq(Transaction) /\ Len(Append(s, <<d, l + 1>>)) = l + 1
        /\ \A k \in DOMAIN Append(s, <<d, l + 1>>) : Append(s, <<d, l + 1>>)[k] = <<d, k>>
    BY <2>1, <2>2
  <2> QED
    BY <2>3 DEF s
<1>12. /\ Append(given["wr"], <<"wr", g + 1>>) \in Seq(Transaction) /\ Len(Append(given["wr"], <<"wr", g + 1>>)) = g + 1
       /\ \A k \in DOMAIN Append(given["wr"], <<"wr", g + 1>>) : Append(given["wr"], <<"wr", g + 1>>)[k] = <<"wr", k>>
  BY <1>3, <1>4, <1>6, <1>11 DEF Stages
<1>13. /\ Append(given["rd"], <<"rd", g0 + 1>>) \in Seq(Transaction) /\ Len(Append(given["rd"], <<"rd", g0 + 1>>)) = g0 + 1
       /\ \A k \in DOMAIN Append(given["rd"], <<"rd", g0 + 1>>) : Append(given["rd"], <<"rd", g0 + 1>>)[k] = <<"rd", k>>
  BY <1>3, <1>5, <1>6, <1>11 DEF Stages
<1>14. BridgeTypes'
  <2>1. \A d \in Dir : given'[d] \in Seq(Transaction)
    BY <1>2, <1>3, <1>10, <1>12, <1>13
  <2>2. given' \in [Dir -> Seq(Transaction)]
    BY <1>10, <2>1
  <2> QED
    BY <1>1, <1>2, <1>8, <2>2 DEF BridgeTypes, Transaction, Dir, None
<1>15. InOrder("wr")'
  <2>1. CASE Write(response, x)
    <3>1. Stages("wr", r, w, a, b, q)'
      BY <1>1, <1>4, <1>8, <1>10, <1>12, <2>1 DEF Stages, Holds, None
    <3> QED
      BY <3>1 DEF InOrder
  <2>2. CASE ~Write(response, x)
    <3>1. Stages("wr", r, w, a, b, q)'
      BY <1>1, <1>4, <1>6, <1>8, <1>10, <2>2 DEF Stages, Holds, None
    <3> QED
      BY <3>1 DEF InOrder
  <2> QED
    BY <2>1, <2>2
<1>16. InOrder("rd")'
  <2>1. CASE Read(response, x, y)
    <3>1. Stages("rd", r0, w0, a0, b0, q0)'
      BY <1>1, <1>5, <1>9, <1>10, <1>13, <2>1 DEF Stages, Holds, None
    <3> QED
      BY <3>1 DEF InOrder
  <2>2. CASE ~Read(response, x, y)
    <3>1. Stages("rd", r0, w0, a0, b0, q0)'
      BY <1>1, <1>5, <1>6, <1>9, <1>10, <2>2 DEF Stages, Holds, None
    <3> QED
      BY <3>1 DEF InOrder
  <2> QED
    BY <2>1, <2>2
<1> QED
  BY <1>3, <1>14, <1>15, <1>16 DEF BridgeInv, Dir

\* The master is given the answer that is next.
LEMMA RespondKeeps ==
  ASSUME BridgeInv, send_response
  PROVE  BridgeInv'
<1> DEFINE taken(d) == IF answer[d] = None THEN <<>> ELSE <<answer[d]>>
           u == taken("wr")
           v == taken("rd")
<1>1. /\ wire' = wire \o u \o v /\ answer' = [d \in Dir |-> None]
      /\ UNCHANGED <<asked, pending, request, busy, response, given>>
  BY DEF send_response
<1>2. BridgeTypes /\ wire \in Seq(Transaction)
  BY DEF BridgeInv, BridgeTypes
<1>3. "wr" \in Dir /\ "rd" \in Dir /\ \A d \in Dir : d = "wr" \/ d = "rd"
  BY DEF Dir
<1>4. ASSUME NEW d \in Dir, NEW w \in Nat, NEW a \in Nat, Holds(answer[d], d, w, a)
      PROVE  OneOf(taken(d), d, w) /\ a = w + Len(taken(d)) /\ \A e \in Dir : e # d => Nothing(taken(d), e)
  <2>1. CASE answer[d] = None /\ a = w
    <3>1. taken(d) = <<>> /\ Len(<<>>) = 0
      BY <2>1
    <3>2. OneOf(<<>>, d, w) /\ \A e \in Dir : Nothing(<<>>, e)
      BY DEF OneOf, Nothing
    <3> HIDE DEF taken
    <3> QED
      BY <2>1, <3>1, <3>2
  <2>2. CASE answer[d] = <<d, w + 1>> /\ a = w + 1
    <3>1. <<d, w + 1>> # None /\ <<d, w + 1>> \in Transaction
      BY DEF None, Dir, Transaction
    <3>2. taken(d) = << <<d, w + 1>> >>
      BY <2>2, <3>1
    <3>3. Len(<< <<d, w + 1>> >>) = 1
      OBVIOUS
    <3>4. OneOf(<< <<d, w + 1>> >>, d, w) /\ \A e \in Dir : e # d => Nothing(<< <<d, w + 1>> >>, e)
      BY <3>1 DEF OneOf, Nothing
    <3> HIDE DEF taken
    <3> QED
      BY <2>2, <3>2, <3>3, <3>4
  <2> QED
    BY <1>4, <2>1, <2>2 DEF Holds
<1>5. PICK r \in Nat, w \in Nat, a \in Nat, b \in Nat, q \in Nat : Stages("wr", r, w, a, b, q)
  BY <1>3 DEF BridgeInv, InOrder
<1>6. PICK r0 \in Nat, w0 \in Nat, a0 \in Nat, b0 \in Nat, q0 \in Nat : Stages("rd", r0, w0, a0, b0, q0)
  BY <1>3 DEF BridgeInv, InOrder
<1>7. /\ Holds(answer["wr"], "wr", w, a) /\ Run(wire, "wr", r, w) /\ r =< w /\ w =< a
      /\ Holds(answer["rd"], "rd", w0, a0) /\ Run(wire, "rd", r0, w0) /\ r0 =< w0 /\ w0 =< a0
  BY <1>5, <1>6 DEF Stages
<1>8. /\ OneOf(u, "wr", w) /\ a = w + Len(u) /\ Nothing(u, "rd")
      /\ OneOf(v, "rd", w0) /\ a0 = w0 + Len(v) /\ Nothing(v, "wr")
  BY <1>3, <1>4, <1>7
<1> HIDE DEF u, v
<1>9. Run((wire \o u) \o v, "wr", r, a) /\ (wire \o u) \o v \in Seq(Transaction)
  <2>1. Run(wire \o u, "wr", r, a) /\ wire \o u \in Seq(Transaction)
    BY <1>2, <1>3, <1>7, <1>8, RunPut
  <2> QED
    BY <1>3, <1>8, <2>1, RunKeep
<1>10. Run((wire \o u) \o v, "rd", r0, a0)
  <2>1. Run(wire \o u, "rd", r0, w0) /\ wire \o u \in Seq(Transaction)
    BY <1>2, <1>3, <1>7, <1>8, RunKeep
  <2> QED
    BY <1>3, <1>7, <1>8, <2>1, RunPut
<1>11. wire' \in Seq(Transaction) /\ Run(wire', "wr", r, a) /\ Run(wire', "rd", r0, a0)
  BY <1>1, <1>9, <1>10
<1>12. BridgeTypes'
  BY <1>1, <1>2, <1>11 DEF BridgeTypes, Transaction, Dir, None
<1>13. Holds(answer["wr"], "wr", a, a)' /\ Holds(answer["rd"], "rd", a0, a0)'
  BY <1>1, <1>3 DEF Holds, None
<1>14. r =< a /\ r0 =< a0
  BY <1>7
<1>15. InOrder("wr")'
  <2>1. Stages("wr", r, a, a, b, q)'
    BY <1>1, <1>5, <1>11, <1>13, <1>14 DEF Stages, None
  <2> QED
    BY <2>1 DEF InOrder
<1>16. InOrder("rd")'
  <2>1. Stages("rd", r0, a0, a0, b0, q0)'
    BY <1>1, <1>6, <1>11, <1>13, <1>14 DEF Stages, None
  <2> QED
    BY <2>1 DEF InOrder
<1> QED
  BY <1>3, <1>12, <1>15, <1>16 DEF BridgeInv, Dir

\* What does not touch the bridge keeps its invariant.
LEMMA BridgeStutters ==
  ASSUME BridgeInv, UNCHANGED bridgeVars
  PROVE  BridgeInv'
<1>1. UNCHANGED <<asked, pending, request, busy, answer, wire, response, given>>
  BY DEF bridgeVars
<1>2. BridgeTypes'
  BY <1>1 DEF BridgeInv, BridgeTypes, Transaction, Dir, None
<1>3. ASSUME NEW d \in Dir PROVE InOrder(d)'
  <2>1. PICK r \in Nat, w \in Nat, a \in Nat, b \in Nat, q \in Nat : Stages(d, r, w, a, b, q)
    BY DEF BridgeInv, InOrder
  <2>2. Stages(d, r, w, a, b, q)'
    BY <1>1, <2>1 DEF Stages, Holds, None
  <2> QED
    BY <2>2 DEF InOrder
<1> QED
  BY <1>2, <1>3 DEF BridgeInv, Dir

\* Every step of the VIP is a step of the bridge or leaves it alone.
LEMMA BridgeKeeps ==
  ASSUME BridgeInv, [Next]_vars
  PROVE  BridgeInv'
<1>1. CASE Simulate
  BY <1>1, IssueKeeps, AnswerKeeps, SendKeeps, ArriveKeeps, ResponseKeeps, ReceiveKeeps, RespondKeeps DEF Simulate, BridgeStep
<1>2. CASE ~Simulate
  <2>1. UNCHANGED bridgeVars
    BY <1>2 DEF Next, Construct, BeforeEndOfElaboration, DeletePins, DeleteImpl, vars
  <2> QED
    BY <2>1, BridgeStutters
<1> QED
  BY <1>1, <1>2

\* The master is given the answers to its own transactions, each once and in the order it asked, for every number of
\* transactions in flight and every depth of the socket, and whichever method runs when.
THEOREM AnswersCorrect == Spec => []AnswersRight
<1>1. ASSUME BridgeInv PROVE AnswersRight
  <2> SUFFICES ASSUME NEW d \in Dir, NEW k \in DOMAIN given[d] PROVE given[d][k] = <<d, k>> /\ k =< asked[d]
    BY DEF AnswersRight
  <2>1. PICK r \in Nat, w \in Nat, a \in Nat, b \in Nat, q \in Nat : Stages(d, r, w, a, b, q)
    BY <1>1 DEF BridgeInv, InOrder
  <2>2. given[d] \in Seq(Transaction) /\ asked[d] \in Nat
    BY <1>1 DEF BridgeInv, BridgeTypes
  <2>3. k \in 1 .. Len(given[d]) /\ Len(given[d]) \in Nat
    BY <2>2
  <2>4. Len(given[d]) =< asked[d] /\ given[d][k] = <<d, k>>
    BY <2>1, <2>2, <2>3 DEF Stages
  <2> QED
    BY <2>2, <2>3, <2>4
<1>2. Init => BridgeInv
  BY InitBridge DEF Init
<1>3. BridgeInv /\ [Next]_vars => BridgeInv'
  BY BridgeKeeps
<1> QED
  BY <1>1, <1>2, <1>3, PTL DEF Spec

-----------------------------------------------------------------------------
(***************************************************************************)
(* No event is missed: whatever is on its way has a method awake that will *)
(* take it, or a transaction before it that will wake one. Nothing is left *)
(* in a queue whose method sleeps because the socket was full.             *)
(***************************************************************************)
Size(s)  == Len(s)
Count(x) == IF x = None THEN 0 ELSE 1

\* The transactions of both directions on their way.
Asking    == Size(pending["wr"]) + Size(pending["rd"]) + Size(request)
AtSlave   == Count(busy["wr"]) + Count(busy["rd"]) + Count(answer["wr"]) + Count(answer["rd"])
Returning == Size(wire) + Size(response)
OnTheWay  == Asking + AtSlave + Returning

\* None is lost, and no more than the master's limit are on their way.
Counted ==
  /\ OnTheWay + Size(given["wr"]) + Size(given["rd"]) = asked["wr"] + asked["rd"]
  /\ \A d \in Dir : asked[d] =< Size(given[d]) + Outstanding

Awake ==
  /\ \A d \in Dir : Size(pending[d]) =< 1
  /\ \A d \in Dir : pending[d] # <<>> => Runs("aximm2ipc_send")
  /\ request # <<>> => Runs("ipc2aximm_receive") \/ \E d \in Dir : busy[d] # None
  /\ \A d \in Dir : answer[d] # None => Runs("send_response")
  /\ Size(response) =< 1
  /\ response # <<>> => Runs("aximm_resp_handler")

AwakeInv == Counted /\ Awake

\* No event is missed: while a transaction is unanswered, a method is going to run that has one to take,
\* a slave has one to answer, or the socket one to deliver. Nothing lies in a queue whose method went to
\* sleep, be it because the socket was full or because two events woke it once.
NobodySleeps ==
  (\E d \in Dir : asked[d] > Len(given[d])) =>
    \/ Runs("aximm2ipc_send") /\ \E d \in Dir : pending[d] # <<>>
    \/ Runs("ipc2aximm_receive") /\ request # <<>>
    \/ \E d \in Dir : busy[d] # None /\ answer[d] = None
    \/ Runs("send_response") /\ \E d \in Dir : answer[d] # None
    \/ wire # <<>>
    \/ Runs("aximm_resp_handler") /\ response # <<>>

\* The length of a queue, of an empty one, and of one to which or from which something is moved.
LEMMA SizeIs ==
  /\ \A s \in Seq(Transaction) : /\ Size(s) \in Nat /\ (Size(s) = 0 <=> s = <<>>)
                                 /\ \A x \in Transaction : Size(Append(s, x)) = Size(s) + 1
                                 /\ s # <<>> => Tail(s) \in Seq(Transaction) /\ Size(s) = Size(Tail(s)) + 1
                                 /\ \A t \in Seq(Transaction) : Size(s \o t) = Size(s) + Size(t)
  /\ Size(<<>>) = 0
  BY DEF Size

\* The stages' lengths are numbers, and the two directions are all there are.
LEMMA Lengths ==
  ASSUME BridgeTypes
  PROVE  /\ \A d \in Dir : /\ pending[d] \in Seq(Transaction) /\ given[d] \in Seq(Transaction) /\ asked[d] \in Nat
                           /\ Size(pending[d]) \in Nat /\ Size(given[d]) \in Nat
         /\ "wr" \in Dir /\ "rd" \in Dir /\ \A d \in Dir : d = "wr" \/ d = "rd"
<1>1. \A d \in Dir : pending[d] \in Seq(Transaction) /\ given[d] \in Seq(Transaction) /\ asked[d] \in Nat
  BY DEF BridgeTypes
<1> QED
  BY <1>1, SizeIs DEF Dir

\* And so is what is on its way.
LEMMA Numbers ==
  ASSUME BridgeTypes
  PROVE  /\ Size(pending["wr"]) \in Nat /\ Size(pending["rd"]) \in Nat /\ Size(request) \in Nat
         /\ Size(wire) \in Nat /\ Size(response) \in Nat
         /\ Count(busy["wr"]) \in Nat /\ Count(busy["rd"]) \in Nat /\ Count(answer["wr"]) \in Nat /\ Count(answer["rd"]) \in Nat
         /\ Size(given["wr"]) \in Nat /\ Size(given["rd"]) \in Nat /\ asked["wr"] \in Nat /\ asked["rd"] \in Nat
         /\ Asking \in Nat /\ AtSlave \in Nat /\ Returning \in Nat /\ OnTheWay \in Nat
<1>1. request \in Seq(Transaction) /\ wire \in Seq(Transaction) /\ response \in Seq(Transaction)
  BY DEF BridgeTypes
<1>2. /\ Count(busy["wr"]) \in Nat /\ Count(busy["rd"]) \in Nat /\ Count(answer["wr"]) \in Nat /\ Count(answer["rd"]) \in Nat
  BY DEF Count
<1>3. /\ Size(pending["wr"]) \in Nat /\ Size(pending["rd"]) \in Nat /\ Size(request) \in Nat
      /\ Size(wire) \in Nat /\ Size(response) \in Nat
      /\ Size(given["wr"]) \in Nat /\ Size(given["rd"]) \in Nat /\ asked["wr"] \in Nat /\ asked["rd"] \in Nat
  BY <1>1, Lengths, SizeIs
<1>4. Asking \in Nat /\ AtSlave \in Nat /\ Returning \in Nat
  BY <1>2, <1>3 DEF Asking, AtSlave, Returning
<1>5. OnTheWay \in Nat
  BY <1>4 DEF OnTheWay
<1> QED
  BY <1>2, <1>3, <1>4, <1>5

\* What is taken from a queue of both directions is what is missing in it.
LEMMA LeftSize ==
  ASSUME NEW s \in Seq(Transaction), NEW x \in BOOLEAN, NEW y \in BOOLEAN
  PROVE  /\ Left(s, x, y) \in Seq(Transaction)
         /\ Size(s) = Size(Left(s, x, y)) + (IF Write(s, x) THEN 1 ELSE 0) + (IF Read(s, x, y) THEN 1 ELSE 0)
<1>1. /\ Rest(s, x) \in Seq(Transaction)
      /\ Size(s) = Size(Rest(s, x)) + (IF Write(s, x) THEN 1 ELSE 0)
  BY SizeIs DEF Rest, Write, IsNext
<1>2. /\ Left(s, x, y) \in Seq(Transaction)
      /\ Size(Rest(s, x)) = Size(Left(s, x, y)) + (IF Read(s, x, y) THEN 1 ELSE 0)
  BY <1>1, SizeIs DEF Left, Read, IsNext
<1>3. Size(Left(s, x, y)) \in Nat
  BY <1>2, SizeIs
<1> DEFINE m == IF Write(s, x) THEN 1 ELSE 0
           n == IF Read(s, x, y) THEN 1 ELSE 0
<1>4. m \in Nat /\ n \in Nat /\ Size(s) = Size(Rest(s, x)) + m /\ Size(Rest(s, x)) = Size(Left(s, x, y)) + n
  BY <1>1, <1>2
<1> HIDE DEF m, n
<1>5. Size(s) = Size(Left(s, x, y)) + m + n
  BY <1>3, <1>4
<1> QED
  BY <1>2, <1>5 DEF m, n

\* A queue from which neither is taken, though both may be, is empty.
LEMMA NoneTaken ==
  ASSUME NEW s \in Seq(Transaction), NEW x \in BOOLEAN, NEW y \in BOOLEAN, s # <<>>,
         Head(s)[1] = "wr" => x, Head(s)[1] = "rd" => y
  PROVE  Write(s, x) \/ Read(s, x, y)
<1>1. Head(s)[1] = "wr" \/ Head(s)[1] = "rd"
  <2>1. Head(s) \in Transaction
    OBVIOUS
  <2> QED
    BY <2>1 DEF Transaction, Dir
<1> QED
  BY <1>1 DEF Write, Read, Rest, IsNext

\* In the beginning there is nothing to be woken for.
LEMMA InitAwake == BridgeInit => AwakeInv
<1> SUFFICES ASSUME BridgeInit PROVE AwakeInv
  OBVIOUS
<1>1. /\ \A d \in Dir : asked[d] = 0 /\ pending[d] = <<>> /\ given[d] = <<>> /\ busy[d] = None /\ answer[d] = None
      /\ request = <<>> /\ wire = <<>> /\ response = <<>> /\ Size(<<>>) = 0
  BY SizeIs DEF BridgeInit
<1>2. "wr" \in Dir /\ "rd" \in Dir /\ Count(None) = 0 /\ Outstanding \in Nat
  BY BridgeAssumption DEF Dir, Count
<1>3. Counted
  BY <1>1, <1>2 DEF Counted, OnTheWay, Asking, AtSlave, Returning
<1>4. Awake
  BY <1>1 DEF Awake
<1> QED
  BY <1>3, <1>4 DEF AwakeInv

\* A transaction that is issued has the method awake that takes it.
LEMMA IssueWakes ==
  ASSUME BridgeInv, AwakeInv, NEW e \in Dir, Issue(e)
  PROVE  AwakeInv'
<1>1. /\ asked' = [asked EXCEPT ![e] = @ + 1] /\ pending' = [pending EXCEPT ![e] = Append(@, <<e, asked[e] + 1>>)]
      /\ awake' = awake \cup {"aximm2ipc_send", "aximm_resp_handler"}
      /\ UNCHANGED <<request, busy, answer, wire, response, given>>
      /\ asked[e] - Size(given[e]) < Outstanding /\ ~(Runs("aximm2ipc_send") /\ pending[e] # <<>>)
  BY DEF Issue, BridgeInv, BridgeTypes, transaction_available, Size
<1>2. BridgeTypes
  BY DEF BridgeInv
<1>3. /\ asked'[e] = asked[e] + 1 /\ pending'[e] = Append(pending[e], <<e, asked[e] + 1>>)
      /\ \A d \in Dir : d # e => asked'[d] = asked[d] /\ pending'[d] = pending[d]
  BY <1>1, <1>2 DEF BridgeTypes
<1>4. pending[e] = <<>>
  BY <1>1 DEF AwakeInv, Awake
<1>5. Size(pending[e]) = 0 /\ Size(pending'[e]) = 1
  <2>1. <<e, asked[e] + 1>> \in Transaction
    BY <1>2 DEF BridgeTypes, Transaction
  <2>2. <<>> \in Seq(Transaction) /\ pending'[e] = Append(<<>>, <<e, asked[e] + 1>>)
    BY <1>3, <1>4
  <2>3. Size(<<>>) = 0 /\ Size(pending'[e]) = Size(<<>>) + 1
    BY <2>1, <2>2, SizeIs
  <2> QED
    BY <1>4, <2>3
<1>6. Counted'
  <2>1. /\ e = "wr" => /\ Size(pending'["wr"]) = 1 /\ Size(pending["wr"]) = 0 /\ Size(pending'["rd"]) = Size(pending["rd"])
                        /\ asked'["wr"] = asked["wr"] + 1 /\ asked'["rd"] = asked["rd"]
        /\ e = "rd" => /\ Size(pending'["rd"]) = 1 /\ Size(pending["rd"]) = 0 /\ Size(pending'["wr"]) = Size(pending["wr"])
                        /\ asked'["rd"] = asked["rd"] + 1 /\ asked'["wr"] = asked["wr"]
        /\ e = "wr" \/ e = "rd"
    BY <1>2, <1>3, <1>5, Lengths
  <2>2. /\ Size(request') = Size(request) /\ AtSlave' = AtSlave /\ Returning' = Returning
        /\ Size(given'["wr"]) = Size(given["wr"]) /\ Size(given'["rd"]) = Size(given["rd"])
    BY <1>1 DEF AtSlave, Returning
  <2>3. OnTheWay' = OnTheWay + 1 /\ asked'["wr"] + asked'["rd"] = asked["wr"] + asked["rd"] + 1
    <3>1. Asking' = Asking + 1 /\ asked'["wr"] + asked'["rd"] = asked["wr"] + asked["rd"] + 1
      BY <1>2, <2>1, <2>2, Numbers DEF Asking
    <3> QED
      BY <1>2, <2>2, <3>1, Numbers DEF OnTheWay
  <2>4. OnTheWay + Size(given["wr"]) + Size(given["rd"]) = asked["wr"] + asked["rd"]
    BY DEF AwakeInv, Counted
  <2>5. OnTheWay' + Size(given'["wr"]) + Size(given'["rd"]) = asked'["wr"] + asked'["rd"]
    BY <1>2, <2>2, <2>3, <2>4, Numbers
  <2>6. ASSUME NEW d \in Dir PROVE asked'[d] =< Size(given'[d]) + Outstanding
    <3>1. asked[d] =< Size(given[d]) + Outstanding /\ asked[d] \in Nat /\ Size(given[d]) \in Nat /\ Outstanding \in Nat
      BY <1>2, Lengths, BridgeAssumption DEF AwakeInv, Counted
    <3>2. Size(given'[d]) = Size(given[d])
      BY <1>1
    <3>3. d = e => asked[d] - Size(given[d]) < Outstanding /\ asked'[d] = asked[d] + 1
      BY <1>1, <1>3
    <3>4. d # e => asked'[d] = asked[d]
      BY <1>3
    <3> QED
      BY <3>1, <3>2, <3>3, <3>4
  <2> QED
    BY <2>5, <2>6 DEF Counted
<1>7. Awake'
  BY <1>1, <1>3, <1>5 DEF AwakeInv, Awake, Runs
<1> QED
  BY <1>6, <1>7 DEF AwakeInv

\* The socket has room for all that the master may have on their way: the method leaves none behind when it goes to
\* sleep, and wakes the one that takes them.
LEMMA SendWakes ==
  ASSUME BridgeInv, AwakeInv, aximm2ipc_send, Depth >= 2 * Outstanding
  PROVE  AwakeInv'
<1> DEFINE u == Sent("wr", Size(request))
           v == Sent("rd", Size(request) + Size(u))
           left(d, x) == SubSeq(pending[d], Len(x) + 1, Len(pending[d]))
<1>1. /\ request' = request \o u \o v /\ pending' = [wr |-> left("wr", u), rd |-> left("rd", v)]
      /\ awake' = (awake \ {"aximm2ipc_send"}) \cup (IF u \o v # <<>> THEN {"ipc2aximm_receive"} ELSE {})
      /\ UNCHANGED <<asked, busy, answer, wire, response, given>>
  BY DEF aximm2ipc_send, master_event, Size
<1>2. BridgeTypes /\ request \in Seq(Transaction)
  BY DEF BridgeInv, BridgeTypes
<1>3. pending'["wr"] = left("wr", u) /\ pending'["rd"] = left("rd", v)
  BY <1>1
<1>4. Size(pending["wr"]) + Size(pending["rd"]) + Size(request) =< Depth
  <2>1. asked["wr"] =< Size(given["wr"]) + Outstanding /\ asked["rd"] =< Size(given["rd"]) + Outstanding
    BY <1>2, Lengths DEF AwakeInv, Counted
  <2>2. OnTheWay =< Depth
    <3>1. OnTheWay \in Nat
      BY <1>2, Numbers
    <3>2. OnTheWay + Size(given["wr"]) + Size(given["rd"]) = asked["wr"] + asked["rd"]
      BY DEF AwakeInv, Counted
    <3>3. /\ Size(given["wr"]) \in Nat /\ Size(given["rd"]) \in Nat /\ asked["wr"] \in Nat /\ asked["rd"] \in Nat
          /\ Outstanding \in Nat /\ Depth \in Nat
      BY <1>2, Numbers, BridgeAssumption
    <3> QED
      BY <2>1, <3>1, <3>2, <3>3
  <2> QED
    <3>1. Asking + AtSlave + Returning =< Depth
      BY <2>2 DEF OnTheWay
    <3>2. Asking \in Nat /\ AtSlave \in Nat /\ Returning \in Nat /\ Depth \in Nat
      BY <1>2, Numbers, BridgeAssumption
    <3>3. Asking =< Depth
      BY <3>1, <3>2
    <3> QED
      BY <3>3 DEF Asking
<1>5. ASSUME NEW d \in Dir, NEW n \in Nat, n + Size(pending[d]) =< Depth
      PROVE  /\ Sent(d, n) \in Seq(Transaction) /\ Size(Sent(d, n)) = Size(pending[d])
             /\ (Sent(d, n) = <<>> <=> pending[d] = <<>>) /\ left(d, Sent(d, n)) = <<>>
  <2> DEFINE p == pending[d]
             x == Sent(d, n)
  <2>1. p \in Seq(Transaction) /\ Size(p) \in 0 .. 1
    BY <1>2, Lengths DEF AwakeInv, Awake
  <2>2. x = (IF p # <<>> /\ n < Depth THEN <<Head(p)>> ELSE <<>>) /\ left(d, x) = SubSeq(p, Len(x) + 1, Len(p))
        /\ n + Size(p) =< Depth
    BY <1>5 DEF Sent
  <2> HIDE DEF p, x, left
  <2>3. CASE p = <<>>
    BY <2>1, <2>2, <2>3, SizeIs DEF p, x
  <2>4. CASE p # <<>>
    <3>1. Size(p) = 1 /\ n < Depth /\ Head(p) \in Transaction
      <4>1. Size(p) # 0 /\ Head(p) \in Transaction
        BY <2>1, <2>4, SizeIs
      <4>2. Size(p) = 1
        BY <2>1, <4>1
      <4> QED
        BY <2>2, <4>1, <4>2, BridgeAssumption
    <3>2. x = <<Head(p)>> /\ Len(x) = 1 /\ Size(x) = 1 /\ Len(p) = 1
      BY <2>2, <2>4, <3>1 DEF Size
    <3>3. SubSeq(p, 2, 1) = <<>>
      BY <2>1
    <3> QED
      BY <2>2, <2>4, <3>1, <3>2, <3>3 DEF p, x
  <2> QED
    BY <2>3, <2>4
<1> HIDE DEF left
<1>6. u \in Seq(Transaction) /\ Size(u) = Size(pending["wr"]) /\ (u = <<>> <=> pending["wr"] = <<>>) /\ left("wr", u) = <<>>
  <2>1. Size(request) + Size(pending["wr"]) =< Depth /\ Size(request) \in Nat
    <3>1. Size(pending["wr"]) \in Nat /\ Size(pending["rd"]) \in Nat /\ Size(request) \in Nat /\ Depth \in Nat
      BY <1>2, Numbers, BridgeAssumption
    <3> QED
      BY <1>4, <3>1
  <2>2. "wr" \in Dir
    BY DEF Dir
  <2> QED
    BY <1>5, <2>1, <2>2
<1>7. v \in Seq(Transaction) /\ Size(v) = Size(pending["rd"]) /\ (v = <<>> <=> pending["rd"] = <<>>) /\ left("rd", v) = <<>>
  <2>1. v = Sent("rd", Size(request) + Size(u)) /\ "rd" \in Dir
    BY DEF Dir
  <2> HIDE DEF u, v
  <2>2. /\ Size(u) = Size(pending["wr"]) /\ Size(pending["wr"]) \in Nat /\ Size(pending["rd"]) \in Nat
        /\ Size(request) \in Nat /\ Depth \in Nat
    BY <1>2, <1>6, Numbers, BridgeAssumption
  <2>3. PICK n \in Nat : n = Size(request) + Size(u)
    BY <2>2
  <2>4. n + Size(pending["rd"]) =< Depth
    BY <1>4, <2>2, <2>3
  <2> QED
    BY <1>5, <2>1, <2>3, <2>4
<1> HIDE DEF u, v
<1>8. Size(request') = Size(request) + Size(pending["wr"]) + Size(pending["rd"])
  <2>1. request \o u \in Seq(Transaction) /\ Size(request \o u) = Size(request) + Size(u)
    BY <1>2, <1>6, SizeIs
  <2>2. Size((request \o u) \o v) = Size(request \o u) + Size(v)
    BY <1>7, <2>1, SizeIs
  <2> QED
    BY <1>1, <1>6, <1>7, <2>1, <2>2
<1>9. pending'["wr"] = <<>> /\ pending'["rd"] = <<>> /\ Size(pending'["wr"]) = 0 /\ Size(pending'["rd"]) = 0
  BY <1>3, <1>6, <1>7, SizeIs
<1>10. Counted'
  <2>1. OnTheWay' = OnTheWay
    <3>1. Asking' = Asking
      <4>1. Size(pending["wr"]) \in Nat /\ Size(pending["rd"]) \in Nat /\ Size(request) \in Nat
        BY <1>2, Numbers
      <4>2. 0 + 0 + Size(request') = Size(pending["wr"]) + Size(pending["rd"]) + Size(request)
        BY <1>8, <4>1
      <4> QED
        BY <1>9, <4>2 DEF Asking
    <3>2. AtSlave' = AtSlave /\ Returning' = Returning
      BY <1>1 DEF AtSlave, Returning
    <3> QED
      BY <3>1, <3>2 DEF OnTheWay
  <2> QED
    BY <1>1, <2>1 DEF AwakeInv, Counted
<1>11. u \o v = <<>> => request' = request
  <2> SUFFICES ASSUME u \o v = <<>> PROVE request' = request
    OBVIOUS
  <2>1. u = <<>> /\ v = <<>>
    BY <1>6, <1>7
  <2>2. request \o <<>> \o <<>> = request
    BY <1>2
  <2> QED
    BY <1>1, <2>1, <2>2
<1>12. Awake'
  BY <1>1, <1>2, <1>9, <1>11, Lengths DEF AwakeInv, Awake, Runs
<1> QED
  BY <1>10, <1>12 DEF AwakeInv

\* An answer the socket delivers has the method awake that takes it, and none is before it.
LEMMA ArriveWakes ==
  ASSUME BridgeInv, AwakeInv, Arrive
  PROVE  AwakeInv'
<1>1. /\ wire # <<>> /\ ~Runs("aximm_resp_handler") /\ response' = Append(response, Head(wire)) /\ wire' = Tail(wire)
      /\ awake' = awake \cup {"aximm_resp_handler"} /\ UNCHANGED <<asked, pending, request, busy, answer, given>>
  BY DEF Arrive, slave_event
<1>2. BridgeTypes /\ wire \in Seq(Transaction)
  BY DEF BridgeInv, BridgeTypes
<1>3. response = <<>>
  BY <1>1 DEF AwakeInv, Awake
<1>4. Size(response) = 0 /\ Size(response') = 1 /\ Size(wire) = Size(wire') + 1 /\ Size(wire') \in Nat
  <2>1. Head(wire) \in Transaction /\ response \in Seq(Transaction)
    BY <1>1, <1>2 DEF BridgeTypes
  <2>2. Size(<<>>) = 0 /\ Size(response') = Size(response) + 1
    BY <1>1, <2>1, SizeIs
  <2>3. Tail(wire) \in Seq(Transaction) /\ Size(wire) = Size(Tail(wire)) + 1
    BY <1>1, <1>2, SizeIs
  <2>4. Size(response) = 0
    BY <1>3, <2>2
  <2>5. Size(response') = 1
    BY <2>2, <2>4
  <2>6. Size(Tail(wire)) \in Nat
    BY <2>3, SizeIs
  <2> QED
    BY <1>1, <2>3, <2>4, <2>5, <2>6
<1>5. OnTheWay' = OnTheWay
  <2>1. Asking' = Asking /\ AtSlave' = AtSlave
    BY <1>1 DEF Asking, AtSlave
  <2>2. Returning' = Returning
    BY <1>4 DEF Returning
  <2> QED
    BY <2>1, <2>2 DEF OnTheWay
<1>6. Counted'
  BY <1>1, <1>5 DEF AwakeInv, Counted
<1>7. Awake'
  BY <1>1, <1>4 DEF AwakeInv, Awake, Runs
<1> QED
  BY <1>6, <1>7 DEF AwakeInv

\* An answer wakes both methods of the master bridge, the one that takes it and the one that may go on.
LEMMA AnswerWakes ==
  ASSUME BridgeInv, AwakeInv, NEW e \in Dir, Answer(e)
  PROVE  AwakeInv'
<1>1. /\ busy[e] # None /\ answer[e] = None /\ answer' = [answer EXCEPT ![e] = busy[e]] /\ busy' = [busy EXCEPT ![e] = None]
      /\ awake' = awake \cup {"ipc2aximm_receive", "send_response"}
      /\ UNCHANGED <<asked, pending, request, wire, response, given>>
  BY DEF Answer, resp_available
<1>2. BridgeTypes
  BY DEF BridgeInv
<1>3. /\ answer'[e] = busy[e] /\ busy'[e] = None
      /\ \A d \in Dir : d # e => answer'[d] = answer[d] /\ busy'[d] = busy[d]
  BY <1>1, <1>2 DEF BridgeTypes
<1>4. /\ Count(answer'[e]) = 1 /\ Count(busy'[e]) = 0 /\ Count(answer[e]) = 0 /\ Count(busy[e]) = 1
  BY <1>1, <1>3 DEF Count
<1>5. OnTheWay' = OnTheWay
  <2>1. Asking' = Asking /\ Returning' = Returning
    BY <1>1 DEF Asking, Returning
  <2>2. /\ e = "wr" => Count(answer'["rd"]) = Count(answer["rd"]) /\ Count(busy'["rd"]) = Count(busy["rd"])
        /\ e = "rd" => Count(answer'["wr"]) = Count(answer["wr"]) /\ Count(busy'["wr"]) = Count(busy["wr"])
    BY <1>2, <1>3, Lengths
  <2>3. AtSlave' = AtSlave
    <3>1. CASE e = "wr"
      BY <1>2, <1>4, <2>2, <3>1, Numbers DEF AtSlave
    <3>2. CASE e = "rd"
      BY <1>2, <1>4, <2>2, <3>2, Numbers DEF AtSlave
    <3> QED
      BY <3>1, <3>2 DEF Dir
  <2> QED
    BY <2>1, <2>3 DEF OnTheWay
<1>6. Counted'
  BY <1>1, <1>5 DEF AwakeInv, Counted
<1>7. Awake'
  BY <1>1 DEF AwakeInv, Awake, Runs
<1> QED
  BY <1>6, <1>7 DEF AwakeInv

\* When the method goes to sleep over a request, the slave has a transaction whose answer wakes it.
LEMMA ReceiveWakes ==
  ASSUME BridgeInv, AwakeInv, ipc2aximm_receive
  PROVE  AwakeInv'
<1> DEFINE x == is_slave_ready("wr")
           y == is_slave_ready("rd")
<1>1. /\ busy' = [wr |-> IF Write(request, x) THEN Head(request) ELSE busy["wr"],
                  rd |-> IF Read(request, x, y) THEN Head(Rest(request, x)) ELSE busy["rd"]]
      /\ request' = Left(request, x, y) /\ awake' = awake \ {"ipc2aximm_receive"}
      /\ UNCHANGED <<asked, pending, answer, wire, response, given>>
  BY DEF ipc2aximm_receive, Write, Rest, Read, Left
<1>2. BridgeTypes /\ request \in Seq(Transaction)
  BY DEF BridgeInv, BridgeTypes
<1>3. x \in BOOLEAN /\ y \in BOOLEAN
  BY DEF is_slave_ready
<1>4. (x <=> busy["wr"] = None) /\ (y <=> busy["rd"] = None)
  BY DEF is_slave_ready
<1> HIDE DEF x, y
<1>5. Left(request, x, y) \in Seq(Transaction)
  BY <1>2, <1>3, LeftSize
<1>6. /\ Write(request, x) => x /\ Head(request) # None
      /\ Read(request, x, y) => y /\ Head(Rest(request, x)) # None
  BY DEF Write, Read, IsNext, None
<1>7. Count(busy'["wr"]) = Count(busy["wr"]) + (IF Write(request, x) THEN 1 ELSE 0)
  BY <1>1, <1>4, <1>6 DEF Count
<1>8. Count(busy'["rd"]) = Count(busy["rd"]) + (IF Read(request, x, y) THEN 1 ELSE 0)
  BY <1>1, <1>4, <1>6 DEF Count
<1>9. OnTheWay' = OnTheWay
  <2>1. Size(request) = Size(request') + (IF Write(request, x) THEN 1 ELSE 0) + (IF Read(request, x, y) THEN 1 ELSE 0)
    BY <1>1, <1>2, <1>3, LeftSize
  <2>2. Size(request') \in Nat
    BY <1>1, <1>5, SizeIs
  <2>3. Returning' = Returning /\ Size(pending'["wr"]) = Size(pending["wr"]) /\ Size(pending'["rd"]) = Size(pending["rd"])
    BY <1>1 DEF Returning
  <2> DEFINE m == IF Write(request, x) THEN 1 ELSE 0
             n == IF Read(request, x, y) THEN 1 ELSE 0
  <2>4. /\ Size(request) = Size(request') + m + n /\ m \in Nat /\ n \in Nat
        /\ Count(busy'["wr"]) = Count(busy["wr"]) + m /\ Count(busy'["rd"]) = Count(busy["rd"]) + n
        /\ Count(answer'["wr"]) = Count(answer["wr"]) /\ Count(answer'["rd"]) = Count(answer["rd"])
    BY <1>1, <1>7, <1>8, <2>1
  <2> HIDE DEF m, n
  <2>5. /\ Size(pending["wr"]) \in Nat /\ Size(pending["rd"]) \in Nat
        /\ Count(busy["wr"]) \in Nat /\ Count(busy["rd"]) \in Nat /\ Count(answer["wr"]) \in Nat /\ Count(answer["rd"]) \in Nat
    BY <1>2, Numbers
  <2>6. Asking' \in Nat
    BY <2>2, <2>3, <2>5 DEF Asking
  <2>7. Asking = Asking' + m + n
    BY <2>2, <2>3, <2>4, <2>5 DEF Asking
  <2>8. AtSlave' = AtSlave + m + n
    BY <2>4, <2>5 DEF AtSlave
  <2>9. AtSlave \in Nat /\ Returning \in Nat
    BY <1>2, Numbers
  <2>10. Asking' + AtSlave' + Returning' = Asking + AtSlave + Returning
    BY <2>3, <2>4, <2>6, <2>7, <2>8, <2>9
  <2> QED
    BY <2>10 DEF OnTheWay
<1>10. Counted'
  BY <1>1, <1>9 DEF AwakeInv, Counted
<1>11. request' # <<>> => \E d \in Dir : busy'[d] # None
  <2> SUFFICES ASSUME busy'["wr"] = None, busy'["rd"] = None, request' # <<>> PROVE FALSE
    BY <1>2, Lengths
  <2>1. ~Write(request, x) /\ ~Read(request, x, y) /\ x /\ y
    BY <1>1, <1>4, <1>6
  <2>2. request' = request
    BY <1>1, <2>1 DEF Left, Rest
  <2> QED
    BY <1>2, <1>3, <2>1, <2>2, NoneTaken
<1>12. Awake'
  BY <1>1, <1>11 DEF AwakeInv, Awake, Runs
<1> QED
  BY <1>10, <1>12 DEF AwakeInv

\* The socket takes both answers: none is left behind.
LEMMA RespondWakes ==
  ASSUME BridgeInv, AwakeInv, send_response
  PROVE  AwakeInv'
<1> DEFINE taken(d) == IF answer[d] = None THEN <<>> ELSE <<answer[d]>>
           u == taken("wr")
           v == taken("rd")
<1>1. /\ wire' = wire \o u \o v /\ answer' = [d \in Dir |-> None] /\ awake' = awake \ {"send_response"}
      /\ UNCHANGED <<asked, pending, request, busy, response, given>>
  BY DEF send_response
<1>2. BridgeTypes /\ wire \in Seq(Transaction)
  BY DEF BridgeInv, BridgeTypes
<1>3. ASSUME NEW d \in Dir PROVE taken(d) \in Seq(Transaction) /\ Size(taken(d)) = Count(answer[d])
  <2>1. answer[d] \in Transaction \cup {None}
    BY <1>2 DEF BridgeTypes
  <2> QED
    BY <2>1 DEF Count, Size
<1>4. /\ u \in Seq(Transaction) /\ Size(u) = Count(answer["wr"])
      /\ v \in Seq(Transaction) /\ Size(v) = Count(answer["rd"])
  BY <1>2, <1>3, Lengths
<1> HIDE DEF u, v
<1>5. Size(wire') = Size(wire) + Count(answer["wr"]) + Count(answer["rd"])
  <2>1. wire \o u \in Seq(Transaction) /\ Size(wire \o u) = Size(wire) + Size(u)
    BY <1>2, <1>4, SizeIs
  <2>2. Size((wire \o u) \o v) = Size(wire \o u) + Size(v)
    BY <1>4, <2>1, SizeIs
  <2> QED
    BY <1>1, <1>4, <2>1, <2>2
<1>6. \A d \in Dir : answer'[d] = None /\ Count(answer'[d]) = 0
  BY <1>1 DEF Count
<1>7. OnTheWay' = OnTheWay
  <2>1. Asking' = Asking /\ Size(response') = Size(response)
    BY <1>1 DEF Asking
  <2>2. /\ Count(answer'["wr"]) = 0 /\ Count(answer'["rd"]) = 0
        /\ Count(busy'["wr"]) = Count(busy["wr"]) /\ Count(busy'["rd"]) = Count(busy["rd"])
    BY <1>1, <1>6 DEF Dir
  <2>3. /\ Count(busy["wr"]) \in Nat /\ Count(busy["rd"]) \in Nat /\ Count(answer["wr"]) \in Nat /\ Count(answer["rd"]) \in Nat
        /\ Size(wire) \in Nat /\ Size(response) \in Nat /\ Asking \in Nat /\ AtSlave \in Nat /\ Returning \in Nat
    BY <1>2, Numbers
  <2>4. AtSlave' = Count(busy["wr"]) + Count(busy["rd"]) + 0 + 0
    BY <2>2 DEF AtSlave
  <2>5. AtSlave' \in Nat /\ AtSlave' = Count(busy["wr"]) + Count(busy["rd"])
    BY <2>3, <2>4
  <2>6. AtSlave = AtSlave' + Count(answer["wr"]) + Count(answer["rd"])
    BY <2>3, <2>5 DEF AtSlave
  <2>7. Returning' = Returning + Count(answer["wr"]) + Count(answer["rd"])
    BY <1>5, <2>1, <2>3 DEF Returning
  <2>8. Asking' + AtSlave' + Returning' = Asking + AtSlave + Returning
    BY <2>1, <2>3, <2>5, <2>6, <2>7
  <2> QED
    BY <2>8 DEF OnTheWay
<1>8. Counted'
  BY <1>1, <1>7 DEF AwakeInv, Counted
<1>9. Awake'
  BY <1>1, <1>6 DEF AwakeInv, Awake, Runs
<1> QED
  BY <1>8, <1>9 DEF AwakeInv

\* The master has asked for the answer that is there: the method takes it.
LEMMA ResponseWakes ==
  ASSUME BridgeInv, AwakeInv, aximm_resp_handler
  PROVE  AwakeInv'
<1> DEFINE x == is_master_ready("wr")
           y == is_master_ready("rd")
<1>1. /\ given' = [wr |-> IF Write(response, x) THEN Append(given["wr"], Head(response)) ELSE given["wr"],
                   rd |-> IF Read(response, x, y) THEN Append(given["rd"], Head(Rest(response, x))) ELSE given["rd"]]
      /\ response' = Left(response, x, y) /\ awake' = awake \ {"aximm_resp_handler"}
      /\ UNCHANGED <<asked, pending, request, busy, answer, wire>>
  BY DEF aximm_resp_handler, Write, Rest, Read, Left
<1>2. BridgeTypes /\ response \in Seq(Transaction)
  BY DEF BridgeInv, BridgeTypes
<1>3. x \in BOOLEAN /\ y \in BOOLEAN
  BY DEF is_master_ready
<1>4. (x <=> asked["wr"] > Size(given["wr"])) /\ (y <=> asked["rd"] > Size(given["rd"]))
  BY DEF is_master_ready, Size
<1> HIDE DEF x, y
<1>5. /\ response # <<>> /\ Head(response)[1] = "wr" => x
      /\ response # <<>> /\ Head(response)[1] = "rd" => y
  <2>1. ASSUME NEW d \in Dir, response # <<>>, Head(response)[1] = d PROVE asked[d] > Size(given[d])
    <3>1. PICK r \in Nat, w \in Nat, a \in Nat, b \in Nat, q \in Nat : Stages(d, r, w, a, b, q)
      BY DEF BridgeInv, InOrder
    <3>2. PICK g \in Nat : g = Size(given[d])
      BY <1>2, Lengths
    <3>3. Run(response, d, g, r) /\ r =< asked[d] /\ asked[d] \in Nat
      BY <1>2, <3>1, <3>2, Lengths DEF Stages, Size
    <3>4. g + 1 =< r
      BY <1>2, <2>1, <3>3, RunTake
    <3> QED
      BY <3>2, <3>3, <3>4
  <2> QED
    BY <1>2, <1>4, <2>1, Lengths
<1>6. Size(response) \in 0 .. 1
  BY <1>2, SizeIs DEF AwakeInv, Awake
<1>7. Left(response, x, y) \in Seq(Transaction)
  BY <1>2, <1>3, LeftSize
<1>8. Size(response) = Size(response') + (IF Write(response, x) THEN 1 ELSE 0) + (IF Read(response, x, y) THEN 1 ELSE 0)
  BY <1>1, <1>2, <1>3, LeftSize
<1>9. Size(response') = 0 /\ response' = <<>>
  <2>1. CASE response = <<>>
    <3>1. ~Write(response, x) /\ ~Read(response, x, y) /\ response' = response
      BY <1>1, <2>1 DEF Write, Read, Rest, Left, IsNext
    <3> QED
      BY <2>1, <3>1, SizeIs
  <2>2. CASE response # <<>>
    <3>1. Write(response, x) \/ Read(response, x, y)
      BY <1>2, <1>3, <1>5, <2>2, NoneTaken
    <3>2. Size(response') \in Nat
      BY <1>1, <1>7, SizeIs
    <3>3. Size(response') = 0
      BY <1>6, <1>8, <3>1, <3>2
    <3> QED
      BY <1>1, <1>7, <3>3, SizeIs
  <2> QED
    BY <2>1, <2>2
<1>10. /\ Size(given'["wr"]) = Size(given["wr"]) + (IF Write(response, x) THEN 1 ELSE 0)
      /\ Size(given'["rd"]) = Size(given["rd"]) + (IF Read(response, x, y) THEN 1 ELSE 0)
  <2>1. Write(response, x) => Head(response) \in Transaction
    BY <1>2 DEF Write, IsNext
  <2>2. Read(response, x, y) => Head(Rest(response, x)) \in Transaction
    <3>1. Rest(response, x) \in Seq(Transaction)
      BY <1>2 DEF Rest, Write, IsNext
    <3> QED
      BY <3>1 DEF Read, IsNext
  <2>3. given["wr"] \in Seq(Transaction) /\ given["rd"] \in Seq(Transaction) /\ Size(given["wr"]) \in Nat /\ Size(given["rd"]) \in Nat
    BY <1>2, Lengths
  <2>4. /\ Write(response, x) => Size(Append(given["wr"], Head(response))) = Size(given["wr"]) + 1
        /\ Read(response, x, y) => Size(Append(given["rd"], Head(Rest(response, x)))) = Size(given["rd"]) + 1
    BY <2>1, <2>2, <2>3, SizeIs
  <2>5. /\ given'["wr"] = IF Write(response, x) THEN Append(given["wr"], Head(response)) ELSE given["wr"]
        /\ given'["rd"] = IF Read(response, x, y) THEN Append(given["rd"], Head(Rest(response, x))) ELSE given["rd"]
    BY <1>1
  <2> QED
    BY <2>3, <2>4, <2>5
<1> DEFINE m == IF Write(response, x) THEN 1 ELSE 0
           n == IF Read(response, x, y) THEN 1 ELSE 0
<1>11. /\ Size(response) = Size(response') + m + n /\ Size(response') = 0 /\ m \in 0 .. 1 /\ n \in 0 .. 1
       /\ Size(given'["wr"]) = Size(given["wr"]) + m /\ Size(given'["rd"]) = Size(given["rd"]) + n
  BY <1>8, <1>9, <1>10
<1> HIDE DEF m, n
<1>12. Counted'
  <2>1. OnTheWay = OnTheWay' + Size(response) /\ OnTheWay' \in Nat
    <3>1. Asking' = Asking /\ AtSlave' = AtSlave /\ Size(wire') = Size(wire)
      BY <1>1 DEF Asking, AtSlave
    <3>2. Size(response') = 0 /\ Size(wire) \in Nat /\ Size(response) \in Nat /\ Asking \in Nat /\ AtSlave \in Nat
      BY <1>2, <1>11, Numbers
    <3>3. Returning = Returning' + Size(response) /\ Returning' \in Nat
      BY <3>1, <3>2 DEF Returning
    <3>4. Asking + AtSlave + Returning' \in Nat
      <4>1. Asking + AtSlave \in Nat
        BY <3>2
      <4>2. Returning' \in Nat
        BY <3>3
      <4> QED
        BY <4>1, <4>2
    <3>5. Asking + AtSlave + Returning = Asking + AtSlave + Returning' + Size(response)
      BY <3>2, <3>3
    <3> QED
      BY <3>1, <3>4, <3>5 DEF OnTheWay
  <2>2. OnTheWay' + Size(given'["wr"]) + Size(given'["rd"]) = asked'["wr"] + asked'["rd"]
    <3>1. OnTheWay + Size(given["wr"]) + Size(given["rd"]) = asked["wr"] + asked["rd"] /\ asked' = asked
      BY <1>1 DEF AwakeInv, Counted
    <3>2. /\ OnTheWay = OnTheWay' + m + n /\ OnTheWay' \in Nat /\ m \in Nat /\ n \in Nat
          /\ Size(given'["wr"]) = Size(given["wr"]) + m /\ Size(given'["rd"]) = Size(given["rd"]) + n
      BY <1>11, <2>1
    <3>3. Size(given["wr"]) \in Nat /\ Size(given["rd"]) \in Nat
      BY <1>2, Numbers
    <3> QED
      BY <3>1, <3>2, <3>3
  <2>3. ASSUME NEW d \in Dir PROVE asked'[d] =< Size(given'[d]) + Outstanding
    <3>1. asked[d] =< Size(given[d]) + Outstanding /\ asked'[d] = asked[d] /\ asked[d] \in Nat /\ Size(given[d]) \in Nat /\ Outstanding \in Nat
      BY <1>1, <1>2, Lengths, BridgeAssumption DEF AwakeInv, Counted
    <3>2. Size(given'[d]) = Size(given[d]) + m \/ Size(given'[d]) = Size(given[d]) + n
      BY <1>11 DEF Dir
    <3> QED
      BY <1>11, <3>1, <3>2
  <2> QED
    BY <2>2, <2>3 DEF Counted
<1>13. Awake'
  BY <1>1, <1>9 DEF AwakeInv, Awake, Runs
<1> QED
  BY <1>12, <1>13 DEF AwakeInv

\* Every step of the VIP keeps a method awake for what is on its way, or leaves the bridge alone.
LEMMA AwakeKeeps ==
  ASSUME BridgeInv, AwakeInv, [Next]_vars, Depth >= 2 * Outstanding
  PROVE  AwakeInv'
<1>1. CASE Simulate
  BY <1>1, IssueWakes, AnswerWakes, SendWakes, ArriveWakes, ResponseWakes, ReceiveWakes, RespondWakes DEF Simulate, BridgeStep
<1>2. CASE ~Simulate
  <2>1. UNCHANGED bridgeVars
    BY <1>2 DEF Next, Construct, BeforeEndOfElaboration, DeletePins, DeleteImpl, vars
  <2>2. UNCHANGED <<asked, pending, request, busy, answer, wire, response, given, awake>>
    BY <2>1 DEF bridgeVars
  <2>3. Counted' <=> Counted
    BY <2>2 DEF Counted, OnTheWay, Asking, AtSlave, Returning
  <2>4. Awake' <=> Awake
    BY <2>2 DEF Awake, Runs
  <2> QED
    BY <2>3, <2>4 DEF AwakeInv
<1> QED
  BY <1>1, <1>2

\* No event is missed, if the socket has room for what the master may have on their way in both directions: although the
\* methods are not told that the socket has room again, there is always a step that takes a transaction further. This
\* is the safety part of EveryRequestAnswered; with a smaller socket it is false.
THEOREM NoEventMissed ==
  ASSUME Depth >= 2 * Outstanding
  PROVE  Spec => []NobodySleeps
<1>1. ASSUME BridgeInv, AwakeInv PROVE NobodySleeps
  <2> SUFFICES ASSUME NEW d \in Dir, asked[d] > Size(given[d]), ~NobodySleeps PROVE FALSE
    BY DEF NobodySleeps, Size
  <2>1. BridgeTypes /\ Awake /\ Counted
    BY <1>1 DEF BridgeInv, AwakeInv
  <2>2. pending["wr"] = <<>> /\ pending["rd"] = <<>>
    BY <2>1, Lengths DEF NobodySleeps, Awake
  <2>3. answer["wr"] = None /\ answer["rd"] = None
    BY <2>1, Lengths DEF NobodySleeps, Awake
  <2>4. busy["wr"] = None /\ busy["rd"] = None
    BY <2>1, <2>3, Lengths DEF NobodySleeps
  <2>5. request = <<>>
    BY <2>1, <2>4, Lengths DEF NobodySleeps, Awake
  <2>6. response = <<>> /\ wire = <<>>
    BY <2>1 DEF NobodySleeps, Awake
  <2>7. OnTheWay = 0
    <3>1. Size(<<>>) = 0 /\ Count(None) = 0
      BY SizeIs DEF Count
    <3> QED
      BY <2>2, <2>3, <2>4, <2>5, <2>6, <3>1 DEF OnTheWay, Asking, AtSlave, Returning
  <2>8. \A e \in Dir : Size(given[e]) =< asked[e]
    <3> SUFFICES ASSUME NEW e \in Dir PROVE Size(given[e]) =< asked[e]
      OBVIOUS
    <3>1. PICK r \in Nat, w \in Nat, a \in Nat, b \in Nat, q \in Nat : Stages(e, r, w, a, b, q)
      BY <1>1 DEF BridgeInv, InOrder
    <3> QED
      BY <2>1, <3>1, Lengths DEF Stages, Size
  <2>9. Size(given["wr"]) + Size(given["rd"]) = asked["wr"] + asked["rd"]
    BY <2>1, <2>7, Numbers DEF Counted
  <2>10. Size(given["wr"]) =< asked["wr"] /\ Size(given["rd"]) =< asked["rd"] /\ (d = "wr" \/ d = "rd")
    BY <2>8 DEF Dir
  <2>11. asked["wr"] = Size(given["wr"]) /\ asked["rd"] = Size(given["rd"])
    BY <2>1, <2>9, <2>10, Numbers
  <2> QED
    BY <2>1, <2>10, <2>11, Numbers
<1>2. Init => BridgeInv /\ AwakeInv
  BY InitBridge, InitAwake DEF Init
<1>3. BridgeInv /\ AwakeInv /\ [Next]_vars => BridgeInv' /\ AwakeInv'
  BY BridgeKeeps, AwakeKeeps
<1> QED
  BY <1>1, <1>2, <1>3, PTL DEF Spec

-----------------------------------------------------------------------------
(***************************************************************************)
(* What the constructors make, and what the destructors find of it.        *)
(***************************************************************************)
AllMembers == Members \cup Pins \cup {"mp_impl"}

\* The members that point at an object, when the elaboration is over.
PointingNow == Pointing \cup PinsOf(~early /\ ~tlm)
PointsAt(ms) == [m \in AllMembers |-> IF m \in ms THEN m ELSE NULL]

\* The one build whose destructors meet: a master behind a socket.
Meets == build = <<0, TRUE>>

BuildInv ==
  /\ build \in (0 .. 2) \X BOOLEAN /\ early \in BOOLEAN /\ tlm \in BOOLEAN
  /\ phase \in {"new", "made", "simulation", "pins_deleted", "over"}
  /\ phase # "over" => ~twice
  /\ phase = "made" => member = PointsAt(Pointing) /\ live = Pointing \cup Others
  /\ phase \in {"simulation", "pins_deleted"} => member = PointsAt(PointingNow)
  /\ phase = "simulation" => /\ PointingNow \cup Others \subseteq live
                             /\ live \subseteq PointingNow \cup Others \cup PinStubs
  /\ phase = "pins_deleted" => /\ (Pointing \ Pins) \cup Others \subseteq live
                               /\ live \subseteq (Pointing \ Pins) \cup Others \cup PinStubs
  /\ phase = "over" => (twice <=> Meets) /\ live \subseteq Stubs \cup PinStubs

\* What a set of members points at.
LEMMA PointeesOf ==
  ASSUME NEW ms, ms \subseteq AllMembers, NEW ps, ps \subseteq AllMembers, member = PointsAt(ps)
  PROVE  Pointees(ms) = ms \cap ps
<1>1. \A m \in AllMembers : m # NULL
  BY DEF AllMembers, Members, Sockets, Pins, NULL
<1>2. \A m \in ms : member[m] = IF m \in ps THEN m ELSE NULL
  BY DEF PointsAt
<1> QED
  BY <1>1, <1>2 DEF Pointees

\* The members that point at objects, and the build in which two destructors meet.
LEMMA Named ==
  ASSUME build \in (0 .. 2) \X BOOLEAN
  PROVE  /\ Pointing \subseteq AllMembers /\ PointingNow \subseteq AllMembers
         /\ PointingNow \ Pins = Pointing \ Pins
         /\ Mode \in 0 .. 2 /\ Ipc \in BOOLEAN /\ (Meets <=> Mode = 0 /\ Ipc)
<1>1. Mode \in 0 .. 2 /\ Ipc \in BOOLEAN /\ build = <<Mode, Ipc>>
  BY DEF Mode, Ipc
<1>2. \A b : PinsOf(b) \subseteq Pins
  BY DEF PinsOf
<1>3. Used \subseteq AllMembers /\ Bridge \in AllMembers
  BY <1>1 DEF Used, Bridge, Targets, Initiators, AllMembers, Members, Sockets
<1>4. Pointing \subseteq AllMembers
  BY <1>2, <1>3 DEF Pointing, AllMembers, Members
<1>5. PointingNow \subseteq AllMembers /\ PointingNow \ Pins = Pointing \ Pins
  BY <1>2, <1>4 DEF PointingNow, AllMembers
<1>6. Meets <=> Mode = 0 /\ Ipc
  BY <1>1 DEF Meets
<1> QED
  BY <1>1, <1>4, <1>5, <1>6

\* The destructors of the VIP and of its bridge leave the stubs, and delete twice in that one build.
LEMMA DeleteImplStep ==
  ASSUME BuildInv, DeleteImpl
  PROVE  (twice' <=> Meets) /\ live' \subseteq Stubs \cup PinStubs
<1> DEFINE first  == Pointees(Sockets \cup {"P1", "P2"})
           bridge == Pointees({"m_ipc_master", "m_ipc_slave"})
<1>1. /\ twice' = (twice \/ ~(first \cup bridge \subseteq live) \/ ~(BridgeDeletes \subseteq live \ first))
      /\ live' = live \ (first \cup bridge \cup BridgeDeletes \cup {"mp_impl"})
  BY DEF DeleteImpl
<1>2. /\ build \in (0 .. 2) \X BOOLEAN /\ ~twice /\ member = PointsAt(PointingNow)
      /\ (Pointing \ Pins) \cup Others \subseteq live /\ live \subseteq (Pointing \ Pins) \cup Others \cup PinStubs
  BY DEF BuildInv, DeleteImpl
<1>3. /\ Pointing \subseteq AllMembers /\ PointingNow \subseteq AllMembers /\ PointingNow \ Pins = Pointing \ Pins
      /\ Mode \in 0 .. 2 /\ Ipc \in BOOLEAN /\ (Meets <=> Mode = 0 /\ Ipc)
  BY <1>2, Named
<1>4. first = (Sockets \cup {"P1", "P2"}) \cap PointingNow /\ bridge = {"m_ipc_master", "m_ipc_slave"} \cap PointingNow
  <2>1. Sockets \cup {"P1", "P2"} \subseteq AllMembers /\ {"m_ipc_master", "m_ipc_slave"} \subseteq AllMembers
    BY DEF AllMembers, Members
  <2> QED
    BY <1>2, <1>3, <2>1, PointeesOf
<1>5. (Sockets \cup {"P1", "P2", "m_ipc_master", "m_ipc_slave", "mp_impl"}) \cap Pins = {}
  BY DEF Sockets, Pins
<1>6. first = (Sockets \cup {"P1", "P2"}) \cap Pointing /\ bridge = {"m_ipc_master", "m_ipc_slave"} \cap Pointing
  BY <1>3, <1>4, <1>5
<1> HIDE DEF first, bridge
<1>7. Used \subseteq first /\ first \subseteq live /\ bridge \subseteq live
  <2>1. Used \subseteq Sockets /\ Used \subseteq Pointing
    BY <1>3 DEF Used, Targets, Initiators, Sockets, Pointing
  <2> QED
    BY <1>2, <1>5, <1>6, <2>1
<1>8. ~(BridgeDeletes \subseteq live \ first) <=> Mode = 0 /\ Ipc
  <2>1. CASE Mode = 0 /\ Ipc
    <3>1. BridgeDeletes = {"socket"} \cup Used /\ "M_INITIATOR_rd_socket" \in Used
      BY <1>3, <2>1 DEF BridgeDeletes, Behind, Used, Initiators
    <3> QED
      BY <1>7, <2>1, <3>1
  <2>2. CASE Mode = 2 /\ Ipc
    <3>1. BridgeDeletes = {"socket"} /\ Others = {"socket"} /\ "socket" \notin Sockets \cup {"P1", "P2"}
      BY <2>2 DEF BridgeDeletes, Behind, Others, Sockets
    <3> QED
      BY <1>2, <1>6, <2>2, <3>1
  <2>3. CASE Mode = 1 \/ ~Ipc
    <3>1. BridgeDeletes = {}
      BY <2>3 DEF BridgeDeletes, Behind
    <3> QED
      BY <2>3, <3>1
  <2> QED
    BY <1>3, <2>1, <2>2, <2>3
<1>9. twice' <=> Meets
  BY <1>1, <1>2, <1>3, <1>7, <1>8
<1>10. live' \subseteq Stubs \cup PinStubs
  <2>1. Others \subseteq Stubs \cup BridgeDeletes
    BY <1>3 DEF Others, BridgeDeletes, Behind
  <2>2. Pointing \ Pins \subseteq first \cup bridge \cup {"mp_impl"}
    <3>1. AllMembers = Sockets \cup {"P1", "P2"} \cup {"m_ipc_master", "m_ipc_slave"} \cup Pins \cup {"mp_impl"}
      BY DEF AllMembers, Members
    <3> QED
      BY <1>3, <1>6, <3>1
  <2> QED
    BY <1>1, <1>2, <2>1, <2>2
<1> QED
  BY <1>9, <1>10

\* Every step keeps what is said of objects and pointers.
LEMMA BuildStep ==
  ASSUME BuildInv, [Next]_vars
  PROVE  BuildInv'
<1>1. CASE Construct
  BY <1>1 DEF Construct, BuildInv, PointsAt, AllMembers, Pointing, Others, Used, Bridge, PinsOf, Mode, Ipc, Targets, Initiators,
              Members, Sockets, Pins, Stubs, NULL
<1>2. CASE BeforeEndOfElaboration
  <2>1. /\ phase = "made" /\ phase' = "simulation" /\ UNCHANGED <<build, early, tlm, twice>> /\ ~twice
        /\ member = PointsAt(Pointing) /\ live = Pointing \cup Others
    BY <1>2 DEF BeforeEndOfElaboration, BuildInv
  <2>2. member' = PointsAt(PointingNow) /\ PointingNow \cup Others \subseteq live' /\ live' \subseteq PointingNow \cup Others \cup PinStubs
    <3>1. CASE LatePins
      <4>1. PinsOf(~early /\ ~tlm) = PinsOf(~tlm)
        BY <3>1 DEF LatePins
      <4>2. DOMAIN member = AllMembers /\ PinsOf(~tlm) \subseteq AllMembers
        BY <2>1 DEF PointsAt, PinsOf, AllMembers
      <4> QED
        BY <2>1, <3>1, <4>1, <4>2 DEF LatePins, PointingNow, PointsAt
    <3>2. CASE EarlyPins
      <4>1. PointingNow = Pointing
        BY <3>2 DEF EarlyPins, PointingNow, PinsOf
      <4> QED
        BY <2>1, <3>2, <4>1 DEF EarlyPins
    <3> QED
      BY <1>2, <3>1, <3>2 DEF BeforeEndOfElaboration
  <2>3. UNCHANGED <<PointingNow, Others, PinStubs, PointsAt(PointingNow), Stubs>>
    BY <2>1 DEF PointingNow, PointsAt, Pointing, Others, Used, Bridge, PinsOf, Mode, Ipc, Targets, Initiators, Pins, PinStubs,
                Stubs, AllMembers, Members, Sockets, NULL
  <2> QED
    BY <2>1, <2>2, <2>3 DEF BuildInv
<1>3. CASE DeletePins
  <2>1. /\ phase = "simulation" /\ phase' = "pins_deleted" /\ UNCHANGED <<build, early, tlm, member>>
        /\ twice' = (twice \/ ~(Pointees(Pins) \subseteq live)) /\ live' = live \ Pointees(Pins)
        /\ build \in (0 .. 2) \X BOOLEAN /\ ~twice /\ member = PointsAt(PointingNow)
        /\ PointingNow \cup Others \subseteq live /\ live \subseteq PointingNow \cup Others \cup PinStubs
    BY <1>3 DEF DeletePins, BuildInv
  <2>2. PointingNow \subseteq AllMembers /\ PointingNow \ Pins = Pointing \ Pins /\ Pins \subseteq AllMembers
    BY <2>1, Named DEF AllMembers
  <2>3. Pointees(Pins) = Pins \cap PointingNow
    BY <2>1, <2>2, PointeesOf
  <2>4. Others \cap Pins = {}
    BY DEF Others, Stubs, Pins
  <2>5. ~twice' /\ (Pointing \ Pins) \cup Others \subseteq live' /\ live' \subseteq (Pointing \ Pins) \cup Others \cup PinStubs
    BY <2>1, <2>2, <2>3, <2>4
  <2>6. UNCHANGED <<PointingNow, Pointing, Others, PinStubs, PointsAt(PointingNow), Stubs, Pins>>
    BY <2>1 DEF PointingNow, PointsAt, Pointing, Others, Used, Bridge, PinsOf, Mode, Ipc, Targets, Initiators, Pins, PinStubs,
                Stubs, AllMembers, Members, Sockets, NULL
  <2> QED
    BY <2>1, <2>5, <2>6 DEF BuildInv
<1>4. CASE DeleteImpl
  <2>1. (twice' <=> Meets) /\ live' \subseteq Stubs \cup PinStubs
    BY <1>4, DeleteImplStep
  <2>2. phase' = "over" /\ UNCHANGED <<build, early, tlm>>
    BY <1>4 DEF DeleteImpl
  <2> QED
    BY <2>1, <2>2 DEF BuildInv, Meets, Stubs, PinStubs
<1>5. CASE Simulate \/ UNCHANGED vars
  <2>1. UNCHANGED <<build, early, tlm, phase, member, live, twice>>
    BY <1>5 DEF Simulate, vars, vipVars
  <2>2. UNCHANGED <<PointingNow, Pointing, Others, PinStubs, PointsAt(PointingNow), PointsAt(Pointing), Stubs, Pins, Meets>>
    BY <2>1 DEF PointingNow, PointsAt, Pointing, Others, Used, Bridge, PinsOf, Mode, Ipc, Targets, Initiators, Pins, PinStubs,
                Stubs, AllMembers, Members, Sockets, NULL, Meets
  <2> QED
    BY <2>1, <2>2 DEF BuildInv
<1> QED
  BY <1>1, <1>2, <1>3, <1>4, <1>5 DEF Next

\* The invariant of construction and destruction holds in every build.
LEMMA BuildInvariant == Spec => []BuildInv
<1>1. Init => BuildInv
  BY BuildsAssumption DEF Init, BuildInv
<1>2. BuildInv /\ [Next]_vars => BuildInv'
  BY BuildStep
<1> QED
  BY <1>1, <1>2, PTL DEF Spec

\* The destructors of the VIP and of its wrapper share the sockets and the bridges out among them: in every build
\* but that of a master behind a socket, none deletes what another has deleted, and only stubs are left.
THEOREM DeletionsCorrect == Spec => [](~Meets => DeletedOnce)
<1>1. BuildInv => (~Meets => DeletedOnce)
  BY DEF BuildInv, DeletedOnce
<1> QED
  BY <1>1, BuildInvariant, PTL

\* And a master behind a socket never ends without deleting its sockets twice, whichever simulator it is made for.
THEOREM MasterDeletesTwice == Spec => [](Meets /\ phase = "over" => twice)
<1>1. BuildInv => (Meets /\ phase = "over" => twice)
  BY DEF BuildInv
<1> QED
  BY <1>1, BuildInvariant, PTL
=============================================================================
