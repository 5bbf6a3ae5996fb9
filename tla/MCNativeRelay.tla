---------------------------- MODULE MCNativeRelay ----------------------------
(***************************************************************************)
(* Two relayers, two keys and three actions on one object: a1 and a2 are   *)
(* nonce variants for its first state slot, b follows a1, so both a        *)
(* mutually exclusive pair and a successor are there. a2 may also reach    *)
(* the chain through somebody else. Calls are configured with one of two   *)
(* fundings, which two claims in one window may exceed.                    *)
(*                                                                         *)
(* Beside the relay, the catalog of Capabilities: two processes share one  *)
(* with room for two of three.  A behaviour belongs to the relay or to the *)
(* catalog and leaves the variables of the other alone.                    *)
(***************************************************************************)
EXTENDS NativeRelay, CapabilityCatalog, TLC

CONSTANTS a1, a2, b, s1, s2, t1

MCSlotOf == a1 :> s1 @@ a2 :> s1 @@ b :> s2
MCTargetOf == s1 :> t1 @@ s2 :> t1
MCPred == s1 :> None @@ s2 :> a1

Interchangeable == Permutations(Relayers) \cup Permutations(Keys)

MCVersion == [m \in Manifests |-> m]
MCUses == "c1" :> {"publish", "list"} @@ "c2" :> {"search"}
Commits(c, m) == states[1][c].found /\ m \in DOMAIN states[1][c].versions

VARIABLE part

NativeInit ==
  /\ part \in {"relay", "catalog"}
  /\ Init /\ CatalogInit
  /\ Commits(1, "m1") /\ ~states[1][2].found /\ Commits(3, "m2")

NativeNext ==
  /\ UNCHANGED part
  /\ \/ part = "relay" /\ Next /\ UNCHANGED catalogVars
     \/ part = "catalog" /\ CatalogNext /\ UNCHANGED vars

NativeSpec == NativeInit /\ [][NativeNext]_<<part, vars, catalogVars>>
=============================================================================
