---------------------------- MODULE MCChainReads ----------------------------
(***************************************************************************)
(* What the services read from the chain, checked side by side: finalized  *)
(* reads, exact relay resolutions and the objects of the registry.  A      *)
(* behaviour belongs to one of them and leaves the variables of the others *)
(* alone.  Two goroutines in one process or in two read from three         *)
(* endpoints of which one is faulty; two processes of the provider and one *)
(* of the client resolve with observers of two operators; one Agent and    *)
(* one Capability are acted on, beside an Agent that is there already.     *)
(***************************************************************************)
EXTENDS FinalizedRead, ExactRelay, NativeObject

------------------------------------------------------------------------------
(***************************************************************************)
(* One Agent that is registered, governed and recovered, one Capability    *)
(* and a second Agent to transfer it to.  One of the three keys is lost.   *)
(***************************************************************************)
Full == {"agent", "delegation", "capability", "recovery"}
Controller(purposes) == [weight |-> 1, purposes |-> purposes, recovery |-> "recovery" \in purposes]
PolicyOf(controllers, threshold, timelock) ==
  [threshold |-> threshold, recoveryThreshold |-> 1, timelock |-> timelock, controllers |-> controllers]

Alone    == PolicyOf("k1" :> Controller(Full), 1, 1)
Divided  == PolicyOf("k1" :> Controller(Full \ {"recovery"}) @@ "k2" :> Controller({"recovery"}), 1, 0)
Together == PolicyOf("k1" :> Controller(Full) @@ "k2" :> Controller(Full), 2, 0)
WithLost == PolicyOf("k1" :> Controller(Full \ {"recovery"}) @@ "lost" :> Controller({"recovery"}), 1, 0)
NoQuorum == PolicyOf("k1" :> Controller(Full) @@ "k2" :> Controller({"agent"}), 2, 0)

MCPolicies == {Alone, Divided, WithLost, NoQuorum}
MCDerivedFrom ==
  [id \in {"a1", "a2", "c1"} |->
     IF id = "a1" THEN Alone ELSE IF id = "a2" THEN Together
     ELSE [owner |-> "a1", version |-> [name |-> "v1", manifest |-> "d1"]]]

------------------------------------------------------------------------------
CONSTANTS p1, p2, v1, o1, o2

MCDomain == o1 :> "x" @@ o2 :> "y"
\* The readers have the names of the resolvers.
Interchangeable ==
  Permutations(Resolvers) \cup Permutations(Hosts) \cup Permutations(Nodes \ Faulty)

VARIABLE part

ChainInit ==
  /\ part \in {"read", "resolve", "objects"}
  /\ ReadInit /\ Init /\ ObjectInit
  /\ (part = "objects") = (objects["a2"] # NoObject)

ChainNext ==
  /\ UNCHANGED part
  /\ \/ part = "read" /\ ReadNext /\ UNCHANGED <<vars, objectVars>>
     \/ part = "resolve" /\ Next /\ UNCHANGED <<readVars, objectVars>>
     \/ part = "objects" /\ ObjectNext /\ UNCHANGED <<readVars, vars>>

ChainSpec == ChainInit /\ [][ChainNext]_<<part, readVars, vars, objectVars>>
=============================================================================
