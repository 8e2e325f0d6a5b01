------------------------------ MODULE VipBridge ------------------------------
(***************************************************************************)
(* AXI transactions between two simulations. In one of them the AXI VIP is *)
(* a slave: sim_ipc_aximm_slave passes what its master asks to a socket    *)
(* and gives the answers back. In the other it is a master:                *)
(* sim_ipc_aximm_master passes what comes from the socket to its slave.    *)
(* Each has two SC_METHODs, which run when an event they are sensitive to  *)
(* has been notified; two notifications before a method runs wake it once. *)
(*                                                                         *)
(* Sockets and utils are libraries that are not in the repository; they    *)
(* are modelled by what the methods rely on. A transaction is              *)
(* <<direction, number>>.                                                  *)
(***************************************************************************)
EXTENDS Integers, Sequences

CONSTANTS
  MaxAsked,     \* bound: transactions in each direction
  Outstanding,  \* transactions the master has in flight in a direction (NUM_READ_OUTSTANDING)
  Depth         \* requests the socket takes before it is not ready

ASSUME BridgeAssumption == MaxAsked \in Nat /\ Outstanding \in Nat \ {0} /\ Depth \in Nat \ {0}

VARIABLES
  asked,    \* transactions the master has issued
  pending,  \* those the slave bridge has not taken yet
  request,  \* requests in the socket
  busy,     \* the transaction the far slave works at
  answer,   \* its answer, not yet taken by the master bridge
  wire,     \* answers on their way back
  response, \* answers in the socket
  given,    \* answers the master has been given
  awake     \* the methods that are going to run

bridgeVars == <<asked, pending, request, busy, answer, wire, response, given, awake>>

Dir     == {"wr", "rd"}
None    == <<"none", 0>>
Methods == {"aximm2ipc_send", "aximm_resp_handler", "ipc2aximm_receive", "send_response"}

BridgeInit ==
  /\ asked = [d \in Dir |-> 0] /\ pending = [d \in Dir |-> <<>>]
  /\ request = <<>> /\ wire = <<>> /\ response = <<>>
  /\ busy = [d \in Dir |-> None] /\ answer = [d \in Dir |-> None]
  /\ given = [d \in Dir |-> <<>>]
  /\ awake = {}

\* Who is sensitive to what. The slave bridge does not send when the socket becomes ready:
\* its constructor names the socket's event without adding it to the list.
transaction_available == {"aximm2ipc_send", "aximm_resp_handler"}
slave_event           == {"aximm_resp_handler"}
master_event          == {"ipc2aximm_receive"}

\* Mutant: the master bridge is not woken by an answer.
resp_availableSend == {"send_response"}
resp_available     == {"ipc2aximm_receive", "send_response"}  \* data_available for reads

-----------------------------------------------------------------------------
(***************************************************************************)
(* The simulation with the slave bridge.                                   *)
(***************************************************************************)
Runs(m) == m \in awake

\* The master, through its transactor, issues a transaction: at most one in each direction in a
\* clock cycle, and the methods run in every cycle.
Issue(d) ==
  /\ asked[d] < MaxAsked /\ asked[d] - Len(given[d]) < Outstanding
  /\ ~(Runs("aximm2ipc_send") /\ pending[d] # <<>>)
  /\ asked' = [asked EXCEPT ![d] = @ + 1]
  /\ pending' = [pending EXCEPT ![d] = Append(@, <<d, asked'[d]>>)]
  /\ awake' = awake \cup transaction_available
  /\ UNCHANGED <<request, busy, answer, wire, response, given>>

\* One write, then one read, if the socket is ready for it.
Sent(d, n) == IF pending[d] # <<>> /\ n < Depth THEN <<Head(pending[d])>> ELSE <<>>

aximm2ipc_send ==
  LET w == Sent("wr", Len(request))
      r == Sent("rd", Len(request) + Len(w))
      left(d, q) == SubSeq(pending[d], Len(q) + 1, Len(pending[d]))
  IN /\ Runs("aximm2ipc_send")
     /\ request' = request \o w \o r
     /\ pending' = [wr |-> left("wr", w), rd |-> left("rd", r)]
     /\ awake' = (awake \ {"aximm2ipc_send"}) \cup (IF w \o r # <<>> THEN master_event ELSE {})
     /\ UNCHANGED <<asked, busy, answer, wire, response, given>>

\* The socket has an answer. It is notified of the next one when the method has run.
Arrive ==
  /\ wire # <<>> /\ ~Runs("aximm_resp_handler")
  /\ response' = Append(response, Head(wire)) /\ wire' = Tail(wire)
  /\ awake' = awake \cup slave_event
  /\ UNCHANGED <<asked, pending, request, busy, answer, given>>

\* A master that has asked takes the answer.
is_master_ready(d) == asked[d] > Len(given[d])

\* Mutant: the command of the answer is not looked at.
IsNextAny(q, d) == q # <<>>

\* The next transaction of q is one of direction d.
IsNext(q, d) == q # <<>> /\ Head(q)[1] = d

\* At most one write, then at most one read.
aximm_resp_handler ==
  LET w    == IsNext(response, "wr") /\ is_master_ready("wr")
      rest == IF w THEN Tail(response) ELSE response
      r    == IsNext(rest, "rd") /\ is_master_ready("rd")
  IN /\ Runs("aximm_resp_handler")
     /\ given' = [wr |-> IF w THEN Append(given["wr"], Head(response)) ELSE given["wr"],
                  rd |-> IF r THEN Append(given["rd"], Head(rest)) ELSE given["rd"]]
     /\ response' = IF r THEN Tail(rest) ELSE rest
     /\ awake' = awake \ {"aximm_resp_handler"}
     /\ UNCHANGED <<asked, pending, request, busy, answer, wire>>

-----------------------------------------------------------------------------
(***************************************************************************)
(* The simulation with the master bridge: one transaction at a time in     *)
(* each direction.                                                         *)
(***************************************************************************)
is_slave_ready(d) == busy[d] = None

ipc2aximm_receive ==
  LET w    == IsNext(request, "wr") /\ is_slave_ready("wr")
      rest == IF w THEN Tail(request) ELSE request
      r    == IsNext(rest, "rd") /\ is_slave_ready("rd")
  IN /\ Runs("ipc2aximm_receive")
     /\ busy' = [wr |-> IF w THEN Head(request) ELSE busy["wr"], rd |-> IF r THEN Head(rest) ELSE busy["rd"]]
     /\ request' = IF r THEN Tail(rest) ELSE rest
     /\ awake' = awake \ {"ipc2aximm_receive"}
     /\ UNCHANGED <<asked, pending, answer, wire, response, given>>

\* The slave answers.
Answer(d) ==
  /\ busy[d] # None /\ answer[d] = None
  /\ answer' = [answer EXCEPT ![d] = busy[d]]
  /\ busy' = [busy EXCEPT ![d] = None]
  /\ awake' = awake \cup resp_available
  /\ UNCHANGED <<asked, pending, request, wire, response, given>>

send_response ==
  LET taken(d) == IF answer[d] = None THEN <<>> ELSE <<answer[d]>> IN
  /\ Runs("send_response")
  /\ wire' = wire \o taken("wr") \o taken("rd")
  /\ answer' = [d \in Dir |-> None]
  /\ awake' = awake \ {"send_response"}
  /\ UNCHANGED <<asked, pending, request, busy, response, given>>

BridgeStep ==
  \/ \E d \in Dir : Issue(d) \/ Answer(d)
  \/ aximm2ipc_send \/ Arrive \/ aximm_resp_handler \/ ipc2aximm_receive \/ send_response

-----------------------------------------------------------------------------
\* The master is given, in each direction, the answers to its own transactions, each once and in the
\* order it asked, however the two directions overtake each other on the way.
AnswersRight == \A d \in Dir : \A k \in DOMAIN given[d] : given[d][k] = <<d, k>> /\ k =< asked[d]
=============================================================================
