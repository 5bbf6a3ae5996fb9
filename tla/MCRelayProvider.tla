--------------------------- MODULE MCRelayProvider ---------------------------
(***************************************************************************)
(* Small instances of RelayProvider and RelayEvidence.                     *)
(***************************************************************************)
EXTENDS RelayEvidence, TLC

Offer(mode, sponsorClass, relayClass) ==
  [mode |-> mode, sponsorClass |-> sponsorClass, relayClass |-> relayClass]

\* Every mode, with the classes that take it through the most branches.
MCOffers ==
  {Offer("relay_exact", "validator", "corroborated"),
   Offer("sponsor_only", "corroborated", "validator"),
   Offer("sponsor_and_relay", "corroborated", "validator"),
   Offer("sponsor_and_relay", "validator", "corroborated")}
Combined == {Offer("sponsor_and_relay", "corroborated", "validator")}
Plain == {Offer("relay_exact", "validator", "corroborated")}
Relayed == {o \in MCOffers : o.mode # "sponsor_only"}

SomeServers == SUBSET Servers \ {{}}
AllServers == {Servers}

Interchangeable == Permutations(Servers) \cup Permutations(Handles)
==============================================================================
