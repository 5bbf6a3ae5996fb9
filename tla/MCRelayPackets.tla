--------------------------- MODULE MCRelayPackets ---------------------------
(***************************************************************************)
(* A relay provider, and the packets and contact cards by which Agents     *)
(* reach each other, checked side by side: a behaviour belongs to one of   *)
(* them and leaves the variables of the others alone.                      *)
(***************************************************************************)
EXTENDS MCRelayProvider, AgentPacket

VARIABLE part

ExchangeInit ==
  /\ part \in {"relay", "packets", "contacts"}
  /\ Init /\ PacketInit
  /\ part # "relay" => terms \in Combined /\ serving = Servers

ExchangeNext ==
  /\ part' = part
  /\ \/ part = "relay" /\ Next /\ UNCHANGED packetVars
     \/ part = "packets" /\ PacketNext /\ UNCHANGED vars
     \/ part = "contacts" /\ ContactNext /\ UNCHANGED vars

ExchangeSpec == ExchangeInit /\ [][ExchangeNext]_<<part, packetVars, vars>>
=============================================================================
