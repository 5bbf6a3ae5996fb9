---------------------------- MODULE NativeObject ----------------------------
(***************************************************************************)
(* Agents and Capabilities, the objects of the Native registry, and the    *)
(* actions on them (pkg/nativecore action.go, state.go, locator.go, and    *)
(* the checks of relay.go before it journals and broadcasts an action).    *)
(*                                                                         *)
(* An Agent is governed by a policy of weighted controllers.  An action    *)
(* names the slot (generation, sequence) it fills and the hash of the      *)
(* state it replaces.  A relayer checks it against finalized state and     *)
(* sends it; it takes effect later, or never.  The contract is external:   *)
(* here it only insists that the object has not moved since, which is less *)
(* than the real one does, and applies what the action says.  There is one *)
(* state per slot, so the slot stands for the state's hash; a set of keys  *)
(* stands for the sorted signatures of an action, valid if the keys are    *)
(* held by somebody.                                                       *)
(***************************************************************************)
EXTENDS Integers, FiniteSets, FiniteSetsExt, TLC

CONSTANTS AgentIDs, CapabilityIDs,
          DerivedFrom,      \* what each ID is derived from: a policy; an owner and a version
          Policies,         \* candidate policies, acceptable or not
          Held,             \* the keys that somebody holds
          DelegationDigests,
          VersionNames,
          MaxControllers, MaxControllerWeight, MaxRecoveryTimelock,
          MaxDelegations, MaxVersions,
          RecoverySafety,   \* margin a relayer adds to the timelock
          Targets,          \* bounds: the objects acted on, the others may be there already;
          MaxSlot,          \* the largest generation and sequence
          MaxSent,          \* the messages on their way,
          MaxRelayed,       \* and in all;
          MaxObjectTime,    \* the time
          NoObject

VARIABLES objects,   \* the finalized state of each ID
          sent,      \* actions broadcast and not yet applied or dropped
          objectTime,
          relayed    \* how many were broadcast

objectVars == <<objects, sent, objectTime, relayed>>

Purposes == {"agent", "delegation", "capability"}
NoState == <<0, 0>>
-----------------------------------------------------------------------------
(* Policies and signatures.                                                *)

WeightOf(policy, keys) == FoldSet(LAMBDA k, sum : sum + policy.controllers[k].weight, 0, keys)

With(policy, purpose) ==
  {k \in DOMAIN policy.controllers : purpose \in policy.controllers[k].purposes}

\* The thresholds are reachable for every purpose.
ValidatePolicy(policy) ==
  /\ policy.threshold > 0 /\ policy.recoveryThreshold > 0
  /\ Cardinality(DOMAIN policy.controllers) \in 1..MaxControllers
  /\ \A k \in DOMAIN policy.controllers :
       LET c == policy.controllers[k]
       IN  /\ c.weight \in 1..MaxControllerWeight /\ c.purposes # {}
           /\ c.recovery = ("recovery" \in c.purposes)
  /\ \A purpose \in Purposes : policy.threshold =< WeightOf(policy, With(policy, purpose))
  /\ policy.recoveryThreshold =< WeightOf(policy, With(policy, "recovery"))
  /\ policy.timelock =< MaxRecoveryTimelock

VerifySignatures(policy, keys, purpose, recovery) ==
  /\ ValidatePolicy(policy)
  /\ keys # {} /\ keys \subseteq With(policy, purpose)
  /\ recovery => \A k \in keys : policy.controllers[k].recovery
  /\ keys \subseteq Held
  /\ WeightOf(policy, keys) >= IF recovery THEN policy.recoveryThreshold ELSE policy.threshold

PossessedByQuorum(policy, keys) ==
  VerifySignatures(policy, keys, "agent", FALSE)

\* A policy is installed only with a signature of each of its controllers.
VerifyPolicyPossession(policy, keys) ==
  ValidatePolicy(policy) /\ keys = DOMAIN policy.controllers /\ keys \subseteq Held
-----------------------------------------------------------------------------
(* The form of an action.                                                  *)

AgentKinds == {"register-agent", "update-policy", "delegate", "initiate-recovery",
               "complete-recovery", "revoke-agent"}

Registers(a) == a.kind \in {"register-agent", "register-capability"}
ResetsGeneration(a) == a.kind \in {"complete-recovery", "transfer"}

\* A policy cell, and so a payload that carries one, can only be built from a
\* valid policy; a registration targets the ID derived from it.
BuildPayload(a) ==
  /\ (a.kind \in AgentKinds) = (a.target \in AgentIDs)
  /\ a.kind \in {"register-agent", "update-policy", "initiate-recovery"} => ValidatePolicy(a.policy)
  /\ a.kind = "transfer" => a.newOwner # a.owner

\* An ID is the hash of what it is derived from: at most one has that origin.
DeriveAgentID(policy) == {id \in AgentIDs : DerivedFrom[id] = policy}

DeriveCapabilityID(owner, version) ==
  {id \in CapabilityIDs : DerivedFrom[id] = [owner |-> owner, version |-> version]}

ValidateRegistrationIdentity(a) ==
  /\ a.kind = "register-agent" => a.target \in DeriveAgentID(a.policy)
  /\ a.kind = "register-capability" => a.target \in DeriveCapabilityID(a.owner, a.version)

BuildAction(a) ==
  /\ a.slot[1] > 0 /\ a.slot[2] > 0
  /\ BuildPayload(a) /\ ValidateRegistrationIdentity(a)
  /\ IF Registers(a) THEN a.slot = <<1, 1>> /\ a.predecessor = NoState
     ELSE /\ a.predecessor # NoState
          /\ IF ResetsGeneration(a) THEN a.slot[1] >= 2 /\ a.slot[2] = 1 ELSE a.slot[2] >= 2

\* Only actions that install a policy or an owner carry a second set.
ValidateSignatureShape(a) ==
  (a.counterparty # {}) = (a.kind \in {"update-policy", "initiate-recovery", "transfer"})
-----------------------------------------------------------------------------
(* The finalized state.                                                    *)

DecodePolicyCell(policy) == ValidatePolicy(policy)

DecodeDelegations(delegations) == Cardinality(delegations) =< MaxDelegations

\* A recovery that is pending has a policy and a time.
DecodeRecovery(r) == r # NoObject => DecodePolicyCell(r.policy) /\ r.executeAfter > 0

DecodeVersions(versions) == Cardinality(DOMAIN versions) \in 1..MaxVersions

\* A pending recovery belongs to the policy that is in force.
DecodeState(id, s) ==
  /\ s.slot[1] > 0 /\ s.slot[2] > 0
  /\ IF id \in AgentIDs
     THEN /\ DecodePolicyCell(s.policy) /\ DecodeDelegations(s.delegations)
          /\ DecodeRecovery(s.recovery)
          /\ s.recovery # NoObject => s.recovery.initiatedBy = s.policy
     ELSE DecodeVersions(s.versions)

DecodeData(id) ==
  IF objects[id] # NoObject /\ DecodeState(id, objects[id]) THEN objects[id] ELSE NoObject

\* The slot after the object's state, for an action of this kind.
NextSlot(a, s) ==
  IF ResetsGeneration(a) THEN s.slot[1] < MaxSlot /\ a.slot = <<s.slot[1] + 1, 1>>
  ELSE s.slot[2] < MaxSlot /\ a.slot = <<s.slot[1], s.slot[2] + 1>>

RecoveryIsDelayed(a, s) == a.executeAfter >= objectTime + s.policy.timelock + RecoverySafety

PreflightAgent(a, s) ==
  /\ a.kind = "delegate" => a.digest \notin s.delegations
  /\ a.kind = "initiate-recovery" => RecoveryIsDelayed(a, s)
  /\ a.kind = "complete-recovery" =>
       /\ s.recovery # NoObject /\ s.recovery.initiation = a.initiation
       /\ s.recovery.executeAfter =< objectTime

PreflightCapability(a, s) ==
  /\ a.owner = s.owner
  /\ a.kind = "add-version" => a.version.name \notin DOMAIN s.versions
  /\ a.kind = "transfer" => a.newOwner # s.owner
  /\ a.kind = "revoke-capability" /\ a.version # NoObject =>
       a.version.name \in DOMAIN s.versions /\ ~s.versions[a.version.name].revoked

PreflightTargetTransition(a) ==
  IF Registers(a) THEN objects[a.target] = NoObject
  ELSE LET s == DecodeData(a.target)
       IN  /\ s # NoObject /\ s.slot = a.predecessor
           /\ ~s.tombstoned /\ NextSlot(a, s)
           /\ IF a.target \in AgentIDs THEN PreflightAgent(a, s) ELSE PreflightCapability(a, s)
-----------------------------------------------------------------------------
(* Who has to sign.                                                        *)

LiveAgent(id) == DecodeData(id) # NoObject /\ ~objects[id].tombstoned

VerifyLiveAuthorization(a) ==
  LET authority == IF a.target \in AgentIDs THEN a.target ELSE a.owner
      recovery == a.kind \in {"initiate-recovery", "complete-recovery"}
      purpose == IF a.kind = "delegate" THEN "delegation" ELSE IF recovery THEN "recovery"
                 ELSE IF a.target \in AgentIDs THEN "agent" ELSE "capability"
  IN  /\ LiveAgent(authority)
      /\ VerifySignatures(objects[authority].policy, a.authority, purpose, recovery)
      /\ a.kind \in {"update-policy", "initiate-recovery"} =>
           VerifyPolicyPossession(a.policy, a.counterparty)
      /\ a.kind = "transfer" =>
           /\ LiveAgent(a.newOwner)
           /\ VerifySignatures(objects[a.newOwner].policy, a.counterparty, "capability", FALSE)

Authorized(a) ==
  /\ ValidateSignatureShape(a)
  /\ IF a.kind = "register-agent"
     THEN /\ VerifyPolicyPossession(a.policy, a.authority)
          /\ VerifySignatures(a.policy, a.authority, "agent", FALSE)
     ELSE VerifyLiveAuthorization(a)
-----------------------------------------------------------------------------
(* Submissions, and what they do once they are on chain.                   *)

\* What a submitter may put together for an Agent or for a Capability.
ActionPayloads(id) ==
  IF id \in AgentIDs
  THEN [kind : {"register-agent", "update-policy"}, policy : Policies]
       \cup [kind : {"delegate"}, digest : DelegationDigests]
       \cup [kind : {"initiate-recovery"}, policy : Policies, executeAfter : 0..MaxObjectTime]
       \cup [kind : {"complete-recovery"}, initiation : (1..MaxSlot) \X (2..MaxSlot)]
       \cup [kind : {"revoke-agent"}]
  ELSE [kind : {"register-capability", "add-version"}, owner : AgentIDs,
        version : [name : VersionNames, manifest : DelegationDigests]]
       \cup [kind : {"transfer"}, owner : AgentIDs, newOwner : AgentIDs]
       \cup [kind : {"revoke-capability"}, owner : AgentIDs,
             version : {NoObject} \cup [name : VersionNames]]

ObjectInit ==
  /\ \E existing \in {{}, AgentIDs \ Targets} :
       objects = [id \in AgentIDs \cup CapabilityIDs |->
                    IF id \notin existing THEN NoObject
                    ELSE [slot |-> <<1, 1>>, policy |-> DerivedFrom[id], delegations |-> {},
                          recovery |-> NoObject, tombstoned |-> FALSE]]
  /\ sent = {} /\ objectTime = 0 /\ relayed = 0

\* A relayer takes a submission for the state that its submitter saw, in the
\* next slot or in the next generation, if its form, the finalized state and
\* the signatures allow it.
Relay(id) ==
  LET s == objects[id]
      seen == IF s = NoObject THEN NoState ELSE s.slot
  IN  \E payload \in ActionPayloads(id), slot \in {<<seen[1], seen[2] + 1>>, <<seen[1] + 1, 1>>} :
        LET m == payload @@ [target |-> id, slot |-> slot, predecessor |-> seen, at |-> objectTime]
        IN  /\ Cardinality(sent) < MaxSent /\ relayed < MaxRelayed /\ relayed' = relayed + 1
            /\ PreflightTargetTransition(m) /\ BuildAction(m)
            /\ \E authority, counterparty \in SUBSET Held :
                 Authorized(m @@ [authority |-> authority, counterparty |-> counterparty])
            /\ sent' = sent \cup {m}
            /\ UNCHANGED <<objects, objectTime>>

\* What an action that is applied makes of the state.
Effect(m, s) ==
  CASE m.kind = "register-agent" ->
         [slot |-> m.slot, policy |-> m.policy, delegations |-> {}, recovery |-> NoObject,
          tombstoned |-> FALSE]
    [] m.kind = "update-policy" ->
         [s EXCEPT !.slot = m.slot, !.policy = m.policy, !.recovery = NoObject]
    [] m.kind = "delegate" ->
         [s EXCEPT !.slot = m.slot, !.delegations = @ \cup {m.digest}]
    [] m.kind = "initiate-recovery" ->
         [s EXCEPT !.slot = m.slot,
                   !.recovery = [policy |-> m.policy, executeAfter |-> m.executeAfter,
                                 initiation |-> m.slot, initiatedBy |-> s.policy, at |-> m.at]]
    [] m.kind = "complete-recovery" ->
         [s EXCEPT !.slot = m.slot, !.policy = s.recovery.policy, !.recovery = NoObject]
    [] m.kind = "register-capability" ->
         [slot |-> m.slot, owner |-> m.owner, tombstoned |-> FALSE,
          versions |-> m.version.name :> [manifest |-> m.version.manifest, revoked |-> FALSE]]
    [] m.kind = "add-version" ->
         [s EXCEPT !.slot = m.slot,
                   !.versions = m.version.name :> [manifest |-> m.version.manifest, revoked |-> FALSE] @@ @]
    [] m.kind = "transfer" -> [s EXCEPT !.slot = m.slot, !.owner = m.newOwner]
    [] m.kind = "revoke-capability" /\ m.version # NoObject ->
         [s EXCEPT !.slot = m.slot, !.versions[m.version.name].revoked = TRUE]
    [] OTHER -> [s EXCEPT !.slot = m.slot, !.tombstoned = TRUE]

\* The contract takes an action for the state the object is in, and has room
\* for what it adds; any other message is without effect.
Apply ==
  \E m \in sent :
    LET s == objects[m.target]
        current == IF s = NoObject THEN NoState ELSE s.slot
    IN  /\ sent' = sent \ {m}
        /\ \/ /\ m.predecessor = current
              /\ m.kind = "delegate" => Cardinality(s.delegations) < MaxDelegations
              /\ m.kind = "add-version" => Cardinality(DOMAIN s.versions) < MaxVersions
              /\ objects' = [objects EXCEPT ![m.target] = Effect(m, s)]
           \/ m.predecessor # current /\ UNCHANGED objects
        /\ UNCHANGED <<objectTime, relayed>>

ObjectTick ==
  /\ objectTime < MaxObjectTime /\ objectTime' = objectTime + 1
  /\ UNCHANGED <<objects, sent, relayed>>

ObjectNext == (\E id \in Targets : Relay(id)) \/ Apply \/ ObjectTick
-----------------------------------------------------------------------------
\* Those who hold keys can use the policy for every purpose.
Controllable(policy) ==
  /\ \A purpose \in Purposes : \E keys \in SUBSET Held : VerifySignatures(policy, keys, purpose, FALSE)
  /\ \E keys \in SUBSET Held : VerifySignatures(policy, keys, "recovery", TRUE)

\* Whatever relayers let through, in whatever order it takes effect: nobody is
\* locked out of an Agent (its policy, and the one that a pending recovery
\* would install, can be used for every purpose with keys that are held) and
\* its state decodes; a recovery takes at least the time lock of the policy it
\* replaces and the relayer's margin, from when it was relayed; slots only go
\* up; a tombstone is final; a published version keeps its manifest, and a
\* revoked one stays revoked.
ObjectsStaySound ==
  /\ [](\A id \in AgentIDs :
          objects[id] # NoObject =>
            /\ DecodeData(id) # NoObject
            /\ Controllable(objects[id].policy)
            /\ objects[id].recovery # NoObject => Controllable(objects[id].recovery.policy))
  /\ [][\A id \in AgentIDs \cup CapabilityIDs :
          LET s == objects[id] t == objects'[id]
          IN  s # NoObject /\ t # s =>
                /\ ~s.tombstoned
                /\ t.slot[1] > s.slot[1] \/ (t.slot[1] = s.slot[1] /\ t.slot[2] > s.slot[2])
                /\ id \in AgentIDs /\ t.slot[1] > s.slot[1] =>
                     objectTime >= s.recovery.at + s.policy.timelock + RecoverySafety
                /\ id \in CapabilityIDs =>
                     \A v \in DOMAIN s.versions :
                       /\ t.versions[v].manifest = s.versions[v].manifest
                       /\ s.versions[v].revoked => t.versions[v].revoked]_objectVars
=============================================================================
