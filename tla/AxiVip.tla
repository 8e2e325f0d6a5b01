------------------------------- MODULE AxiVip -------------------------------
(***************************************************************************)
(* The AXI VIP of the simulation model: what its constructors make for the *)
(* interface mode it is built with, what is bound before the elaboration   *)
(* ends, the simulation (VipBridge, if the VIP is a slave behind a         *)
(* socket), and what the destructors delete. axi_vip_0 is built with mode  *)
(* 2; axi_vip.cpp serves all three.                                        *)
(***************************************************************************)
EXTENDS VipBridge

CONSTANTS
  Early,  \* does the simulator's variant of axi_vip_0 make its transactor in the constructor (VCS, MTI: TRUE)?
  Builds  \* the modes, and whether ENABLE_XTLM_IPC_IN_VIP is set: <<0 master, 1 pass through, 2 slave; ipc>>

ASSUME BuildsAssumption == Builds \subseteq (0 .. 2) \X BOOLEAN /\ Early \subseteq BOOLEAN

VARIABLES
  build,    \* C_AXI_INTERFACE_MODE and the environment
  early,    \* the simulator it is compiled for, by what tells the variants apart
  tlm,      \* is S_AXI_TLM_MODE 1, another TLM model at the sockets?
  phase,    \* where the simulation is
  member,   \* the pointers of axi_vip and axi_vip_0
  live,     \* the objects there are
  twice     \* has an object been deleted twice?

vipVars == <<build, early, tlm, phase, member, live, twice>>
vars    == <<vipVars, bridgeVars>>

NULL    == "NULL"
Sockets == {"S_TARGET_rd_socket", "S_TARGET_wr_socket", "M_INITIATOR_rd_socket", "M_INITIATOR_wr_socket"}
Members == Sockets \cup {"P1", "P2", "m_ipc_master", "m_ipc_slave"}
Pins    == {"transactor", "arlock_converter", "awlock_converter"}
Stubs   == {"stubRd", "stubWr"}
PinStubs == {"S_AXI_transactor_target_rd_socket_stub", "S_AXI_transactor_target_wr_socket_stub"}

Mode == build[1]
Ipc  == build[2]

Init ==
  /\ BridgeInit
  /\ build \in Builds /\ early \in Early /\ tlm \in BOOLEAN /\ phase = "new"
  /\ member = <<>> /\ live = {} /\ twice = FALSE

-----------------------------------------------------------------------------
Targets    == {"S_TARGET_rd_socket", "S_TARGET_wr_socket"}
Initiators == {"M_INITIATOR_rd_socket", "M_INITIATOR_wr_socket"}

\* The sockets of a bridge are its own, and axi_vip points at them.
Bridge == IF Mode = 0 THEN "m_ipc_master" ELSE "m_ipc_slave"
Used   == CASE Mode = 1 -> Targets \cup Initiators
            [] Mode = 0 -> Initiators
            [] Mode = 2 -> Targets
Behind == Mode # 1 /\ Ipc

\* The pins of axi_vip_0, which is a slave, get a transactor, in the constructor or later.
PinsOf(now) == IF Mode = 2 /\ now THEN Pins ELSE {}

\* Members that point at an object, and the objects without one.
Pointing == Used \cup {"mp_impl"} \cup PinsOf(early) \cup (IF Mode = 1 THEN {"P1", "P2"} ELSE IF Ipc THEN {Bridge} ELSE {})
Others   == IF Mode = 1 THEN {} ELSE IF Ipc THEN {"socket"} ELSE Stubs

\* axi_vip_0, axi_vip_0_sc, axi_vip and the bridge, one constructor inside the other. An object bears the name
\* of the member that points at it.
Construct ==
  /\ phase = "new" /\ phase' = "made"
  /\ live' = Pointing \cup Others
  /\ member' = [m \in Members \cup Pins \cup {"mp_impl"} |-> IF m \in Pointing THEN m ELSE NULL]
  /\ UNCHANGED <<build, early, tlm, twice, bridgeVars>>

\* Where no TLM model takes the place of the pins, their transactor is made if there is none.
LatePins ==
  /\ ~early
  /\ live' = live \cup PinsOf(~tlm)
  /\ member' = [m \in DOMAIN member |-> IF m \in PinsOf(~tlm) THEN m ELSE member[m]]

\* Where one does, the transactor there is gets stubs and is disabled.
EarlyPins ==
  /\ early
  /\ live' = IF Mode = 2 /\ tlm THEN live \cup PinStubs ELSE live
  /\ UNCHANGED member

BeforeEndOfElaboration ==
  /\ phase = "made" /\ phase' = "simulation"
  /\ LatePins \/ EarlyPins
  /\ UNCHANGED <<build, early, tlm, twice, bridgeVars>>

Simulate ==
  /\ phase = "simulation" /\ Mode = 2 /\ Ipc
  /\ BridgeStep
  /\ UNCHANGED vipVars

Pointees(ms) == {member[m] : m \in ms} \ {NULL}

\* ~axi_vip_0, when the simulation is over.
DeletePins ==
  /\ phase = "simulation" /\ phase' = "pins_deleted"
  /\ twice' = (twice \/ ~(Pointees(Pins) \subseteq live))
  /\ live' = live \ Pointees(Pins)
  /\ UNCHANGED <<build, early, tlm, member, bridgeVars>>

\* Mutant: the slave bridge deletes the sockets it has made, as the master bridge does.
BridgeDeletesBoth == IF ~Behind THEN {} ELSE {"socket"} \cup Used

\* What the destructor of a bridge deletes.
BridgeDeletes == IF ~Behind THEN {} ELSE IF Mode = 0 THEN {"socket"} \cup Used ELSE {"socket"}

\* ~axi_vip_0_sc and ~axi_vip: the sockets first, then the pass throughs and the bridges. Nobody deletes stubs.
DeleteImpl ==
  LET first  == Pointees(Sockets \cup {"P1", "P2"})
      bridge == Pointees({"m_ipc_master", "m_ipc_slave"})
  IN /\ phase = "pins_deleted" /\ phase' = "over"
     /\ twice' = (twice \/ ~(first \cup bridge \subseteq live) \/ ~(BridgeDeletes \subseteq live \ first))
     /\ live' = live \ (first \cup bridge \cup BridgeDeletes \cup {"mp_impl"})
     /\ UNCHANGED <<build, early, tlm, member, bridgeVars>>

Next == Construct \/ BeforeEndOfElaboration \/ Simulate \/ DeletePins \/ DeleteImpl

\* The kernels of both simulations run, the socket delivers and the far slave answers. Nobody is made to ask.
Method(m) == phase = "simulation" /\ Mode = 2 /\ Ipc /\ m /\ UNCHANGED vipVars
Fairness ==
  /\ WF_vars(Construct) /\ WF_vars(BeforeEndOfElaboration)
  /\ WF_vars(Method(aximm2ipc_send)) /\ WF_vars(Method(aximm_resp_handler)) /\ WF_vars(Method(Arrive))
  /\ WF_vars(Method(ipc2aximm_receive)) /\ WF_vars(Method(send_response))
  /\ \A d \in Dir : WF_vars(Method(Answer(d)))

Spec == Init /\ [][Next]_vars /\ Fairness

-----------------------------------------------------------------------------
\* No destructor deletes what another one has deleted, and when all have run only the stubs are left, which
\* no destructor names: the sockets a bridge makes are deleted by axi_vip, and by it alone.
DeletedOnce == ~twice /\ (phase = "over" => live \subseteq Stubs \cup PinStubs)

\* Every transaction is answered, unless the simulation ends first: no method sleeps over the last
\* event that could have told it of a transaction.
EveryRequestAnswered ==
  \A d \in Dir : \A k \in 1 .. MaxAsked :
    asked[d] >= k ~> Len(given[d]) >= k \/ phase # "simulation"
=============================================================================
