----------------------------- MODULE NativeRelay -----------------------------
(***************************************************************************)
(* The Native relayer (pkg/nativecore/relay.go) over its process-          *)
(* independent file journal (relay_journal.go). Several relayer processes  *)
(* spend from one wallet and share the journal directory; each runs        *)
(* Relayer.submit one step at a time, where a step is one journal file     *)
(* operation, one chain read or one call of the sender. A process may      *)
(* crash between any two steps; the kernel then drops its file lock.       *)
(***************************************************************************)
EXTENDS Integers, FiniteSets, Functions

CONSTANTS Relayers,   \* processes that share one wallet and one journal
          Keys,       \* request idempotency keys
          Actions,    \* signed Native actions (action identities)
          Slots,      \* network/code/object/generation/sequence/predecessor
          Targets,    \* target objects
          SlotOf,     \* SlotOf[a]: canonicalRelayStateSlotIdentity of a
          TargetOf,   \* TargetOf[s]: the object a slot belongs to
          Pred,       \* Pred[s]: last action applied in the predecessor state
          Fundings,   \* values of FundingNanoTOS that relayers are configured with
          Foreign,    \* actions that somebody else may also bring on chain
          Window, MaxActionsPerTarget, MaxActionsPerWallet,
          MaxFundingPerTarget, MaxFundingPerWallet,
          MaxTime,    \* bound on the wall clock
          None

ASSUME RelayAssumption ==
  /\ SlotOf \in [Actions -> Slots]
  /\ TargetOf \in [Slots -> Targets]
  /\ Pred \in [Slots -> Actions \cup {None}]
  /\ Fundings \subseteq Nat \ {0}
  /\ Foreign \subseteq Actions
  /\ Window \in Nat /\ MaxTime \in Nat
  /\ MaxActionsPerTarget \in Nat \ {0} /\ MaxActionsPerWallet \in Nat \ {0}
  /\ MaxFundingPerTarget \in Nat /\ MaxFundingPerWallet \in Nat
  /\ None \notin Actions /\ None \notin Relayers
  /\ IsFiniteSet(Slots)

\* RelaySpendLimits.permitsSingle, which CheckReady and submit insist on.
ASSUME LimitsAssumption ==
  \A f \in Fundings : f <= MaxFundingPerTarget /\ f <= MaxFundingPerWallet

VARIABLES
  slot,      \* slot-*.json files of the journal
  request,   \* request-*.json files: the action a key is an alias of
  lock,      \* holder of .relay-journal.lock between two writes, or None
  pc, job,   \* where each relayer is in submit, and what it was called with
  now,       \* r.now() as read before Begin takes the lock
  clock,
  head,      \* head[t]: last action applied to object t on chain
  applied,   \* every action applied so far
  inflight,  \* actions in messages the network has accepted
  sent,      \* sent[s]: calls of SendContractCell for slot s
  acked,     \* actions whose SendContractCell returned no error
  answered   \* pairs <<key, action>> answered with the action's hash

journal == <<slot, request, lock>>
local == <<pc, job, now>>
chain == <<head, applied, inflight>>
history == <<sent, acked, answered>>
vars == <<journal, local, clock, chain, history>>

Phases == {"absent", "prepared", "broadcasting", "complete"}
Labels == {"idle", "lookup", "preflight", "begin", "alias", "acquire",
           "send", "resolve", "complete"}

NoSlot == [action |-> None, funding |-> 0, phase |-> "absent", claimed |-> 0]
NoJob == [key |-> None, action |-> None, funding |-> 0]
Jobs == [key : Keys, action : Actions, funding : Fundings]

SlotRecord == [action : Actions \cup {None}, funding : Nat, phase : Phases,
               claimed : Nat]

\* The state slot relayer r's action competes for.
Mine(r) == SlotOf[job[r].action]

\* relaySlotRecord.matches: same action and same complete outbound intent, of
\* which only the configured funding can differ between two calls.
Matches(r) ==
  /\ slot[Mine(r)].action = job[r].action
  /\ slot[Mine(r)].funding = job[r].funding

Goto(r, l) == pc' = [pc EXCEPT ![r] = l]

\* submit returns: the process is free for another call.
Return(r) ==
  /\ Goto(r, "idle")
  /\ job' = [job EXCEPT ![r] = NoJob]
  /\ now' = [now EXCEPT ![r] = 0]

Answer(r) == answered' = answered \cup {<<job[r].key, job[r].action>>}

-----------------------------------------------------------------------------
Init ==
  /\ slot = [s \in Slots |-> NoSlot]
  /\ request = [k \in Keys |-> None]
  /\ lock = None
  /\ pc = [r \in Relayers |-> "idle"]
  /\ job = [r \in Relayers |-> NoJob]
  /\ now = [r \in Relayers |-> 0]
  /\ clock = 0
  /\ head = [t \in Targets |-> None]
  /\ applied = {}
  /\ inflight = {}
  /\ sent = [s \in Slots |-> 0]
  /\ acked = {}
  /\ answered = {}

\* submit up to Lookup's first read: a key that is an alias of another action
\* is refused, which changes nothing. The funding is the configuration of the
\* process that makes the call.
Submit(r, k, a, f) ==
  /\ pc[r] = "idle"
  /\ request[k] \in {None, a}
  /\ job' = [job EXCEPT ![r] = [key |-> k, action |-> a, funding |-> f]]
  /\ Goto(r, "lookup")
  /\ UNCHANGED <<journal, now, clock, chain, history>>

\* Lookup's second read, which holds no lock either. A prepared slot counts as
\* not found; a complete one is answered without recording the key's alias.
Lookup(r) ==
  /\ pc[r] = "lookup"
  /\ LET s == slot[Mine(r)] IN
     \/ /\ s.phase = "absent" \/ (Matches(r) /\ s.phase = "prepared")
        /\ Goto(r, "preflight")
        /\ UNCHANGED <<job, now, answered>>
     \/ /\ Matches(r) /\ s.phase = "broadcasting"
        /\ Goto(r, "resolve")
        /\ UNCHANGED <<job, now, answered>>
     \/ /\ Matches(r) /\ s.phase = "complete"
        /\ Answer(r)
        /\ Return(r)
     \/ /\ s.phase # "absent" /\ ~Matches(r)
        /\ Return(r)
        /\ UNCHANGED answered
  /\ UNCHANGED <<journal, clock, chain, sent, acked>>

\* preflightTargetTransition and the signature checks against the finalized
\* state, then r.now() is evaluated as an argument of Begin.
Preflight(r) ==
  /\ pc[r] = "preflight"
  /\ head[TargetOf[Mine(r)]] = Pred[Mine(r)]
  /\ now' = [now EXCEPT ![r] = clock]
  /\ Goto(r, "begin")
  /\ UNCHANGED <<journal, job, clock, chain, history>>

\* Preflight refuses the transition, or the finalized read fails.
PreflightFails(r) ==
  /\ pc[r] = "preflight"
  /\ Return(r)
  /\ UNCHANGED <<journal, clock, chain, history>>

-----------------------------------------------------------------------------
\* MUTANT: a claim made exactly Window ago no longer counts.
CountedExclusive(r) ==
  {s \in Slots : slot[s].phase # "absent" /\ slot[s].claimed > now[r] - Window}

\* enforceSpendLimits: the claims whose time is not before now - Window count,
\* those with a later time included.
Counted(r) ==
  {s \in Slots : slot[s].phase # "absent" /\ slot[s].claimed >= now[r] - Window}

FundingOf(S) == SumFunctionOnSet([s \in Slots |-> slot[s].funding], S)

OnTarget(S, t) == {s \in S : TargetOf[s] = t}

EnforceSpendLimits(r) ==
  LET wallet == Counted(r)
      target == OnTarget(wallet, TargetOf[Mine(r)])
  IN  /\ Cardinality(wallet) < MaxActionsPerWallet
      /\ FundingOf(wallet) <= MaxFundingPerWallet - job[r].funding
      /\ Cardinality(target) < MaxActionsPerTarget
      /\ FundingOf(target) <= MaxFundingPerTarget - job[r].funding

\* beginLocked refuses: the key or the slot belongs to another action, the
\* recorded intent differs, or a spend limit is reached.
BeginRefuses(r) ==
  \/ request[job[r].key] \notin {None, job[r].action}
  \/ (slot[Mine(r)].phase # "absent" /\ ~Matches(r))
  \/ (slot[Mine(r)].phase = "absent" /\ ~EnforceSpendLimits(r))

\* beginLocked up to the slot file: the claim is one atomic create. The lock is
\* kept for the alias file that follows.
BeginSlot(r) ==
  /\ pc[r] = "begin"
  /\ lock = None
  /\ \/ /\ BeginRefuses(r)
        /\ Return(r)
        /\ UNCHANGED <<slot, lock>>
     \/ /\ ~BeginRefuses(r)
        /\ slot' = IF slot[Mine(r)].phase # "absent" THEN slot ELSE
                   [slot EXCEPT ![Mine(r)] =
                      [action |-> job[r].action, funding |-> job[r].funding,
                       phase |-> "prepared", claimed |-> now[r]]]
        /\ lock' = r
        /\ Goto(r, "alias")
        /\ UNCHANGED <<job, now>>
  /\ UNCHANGED <<request, clock, chain, history>>

\* The rest of beginLocked: the alias file (an existing one names the same
\* action, which was checked under the same lock), and the caller goes on by phase.
BeginAlias(r) ==
  /\ pc[r] = "alias"
  /\ request' = [request EXCEPT ![job[r].key] = job[r].action]
  /\ lock' = None
  /\ LET p == slot[Mine(r)].phase IN
     \/ /\ p = "prepared" /\ Goto(r, "acquire")
        /\ UNCHANGED <<job, now, answered>>
     \/ /\ p = "broadcasting" /\ Goto(r, "resolve")
        /\ UNCHANGED <<job, now, answered>>
     \/ /\ p = "complete"
        /\ Answer(r)
        /\ Return(r)
  /\ UNCHANGED <<slot, clock, chain, sent, acked>>

\* MUTANT: the lease is granted whatever the phase.
AcquireAnyPhase(r) ==
  /\ pc[r] = "acquire"
  /\ lock = None
  /\ slot' = [slot EXCEPT ![Mine(r)].phase = "broadcasting"]
  /\ Goto(r, "send")
  /\ UNCHANGED <<request, lock, job, now, clock, chain, history>>

\* AcquireBroadcastLease: prepared becomes broadcasting for exactly one caller.
\* A slot that no longer matches is an error, and the call returns.
AcquireBroadcastLease(r) ==
  /\ pc[r] = "acquire"
  /\ lock = None
  /\ LET p == IF Matches(r) THEN slot[Mine(r)].phase ELSE "absent" IN
     \/ /\ p = "prepared"
        /\ slot' = [slot EXCEPT ![Mine(r)].phase = "broadcasting"]
        /\ Goto(r, "send")
        /\ UNCHANGED <<job, now, answered>>
     \/ /\ p = "broadcasting"
        /\ Goto(r, "resolve")
        /\ UNCHANGED <<slot, job, now, answered>>
     \/ /\ p \in {"complete", "absent"}
        /\ Return(r)
        /\ IF p = "complete" THEN Answer(r) ELSE UNCHANGED answered
        /\ UNCHANGED slot
  /\ UNCHANGED <<request, lock, clock, chain, sent, acked>>

\* SendContractCell succeeds; the message is with the network.
Send(r) ==
  /\ pc[r] = "send"
  /\ sent' = [sent EXCEPT ![Mine(r)] = @ + 1]
  /\ inflight' = inflight \cup {job[r].action}
  /\ acked' = acked \cup {job[r].action}
  /\ Goto(r, "complete")
  /\ UNCHANGED <<journal, job, now, clock, head, applied, answered>>

\* MUTANT: a failed send gives the lease back.
SendFailsReleases(r) ==
  /\ pc[r] = "send"
  /\ sent' = [sent EXCEPT ![Mine(r)] = @ + 1]
  /\ inflight' \in {inflight, inflight \cup {job[r].action}}
  /\ slot' = [slot EXCEPT ![Mine(r)].phase = "prepared"]
  /\ Return(r)
  /\ UNCHANGED <<request, lock, clock, head, applied, acked, answered>>

\* SendContractCell returns an error: the message may be out all the same.
SendFails(r) ==
  /\ pc[r] = "send"
  /\ sent' = [sent EXCEPT ![Mine(r)] = @ + 1]
  /\ inflight' \in {inflight, inflight \cup {job[r].action}}
  /\ Return(r)
  /\ UNCHANGED <<journal, clock, head, applied, acked, answered>>

\* Journal.Complete, after the sender returned or after the chain showed the
\* action; idempotent.
Complete(r) ==
  /\ pc[r] = "complete"
  /\ lock = None
  /\ IF Matches(r) /\ slot[Mine(r)].phase \in {"broadcasting", "complete"}
     THEN /\ slot' = [slot EXCEPT ![Mine(r)].phase = "complete"]
          /\ Answer(r)
     ELSE UNCHANGED <<slot, answered>>
  /\ Return(r)
  /\ UNCHANGED <<request, lock, clock, chain, sent, acked>>

\* MUTANT: an ambiguous outcome is taken for success.
ResolveOptimistic(r) ==
  /\ pc[r] = "resolve"
  /\ Goto(r, "complete")
  /\ UNCHANGED <<journal, job, now, clock, chain, history>>

\* resolveRecordedIntent for a slot that is not complete: only the action's own
\* hash as the object's last action completes the slot.
ResolveRecordedIntent(r) ==
  /\ pc[r] = "resolve"
  /\ head[TargetOf[Mine(r)]] = job[r].action
  /\ Goto(r, "complete")
  /\ UNCHANGED <<journal, job, now, clock, chain, history>>

\* "outcome is ambiguous; refusing to rebroadcast": another last action, no
\* object, or the read failed.
ResolveAmbiguous(r) ==
  /\ pc[r] = "resolve"
  /\ Return(r)
  /\ UNCHANGED <<journal, clock, chain, history>>

\* The process dies between two steps and starts afresh; its flock is gone.
Crash(r) ==
  /\ pc[r] # "idle"
  /\ Return(r)
  /\ lock' = IF lock = r THEN None ELSE lock
  /\ UNCHANGED <<slot, request, clock, chain, history>>

-----------------------------------------------------------------------------
\* The Native contract applies an action to the state it was signed for.
ChainApply(a) ==
  /\ a \in inflight \cup Foreign
  /\ head[TargetOf[SlotOf[a]]] = Pred[SlotOf[a]]
  /\ a \notin applied
  /\ head' = [head EXCEPT ![TargetOf[SlotOf[a]]] = a]
  /\ applied' = applied \cup {a}
  /\ UNCHANGED <<journal, local, clock, inflight, history>>

Tick ==
  /\ clock < MaxTime
  /\ clock' = clock + 1
  /\ UNCHANGED <<journal, local, chain, history>>

Step(r) ==
  \/ Lookup(r)
  \/ Preflight(r)
  \/ PreflightFails(r)
  \/ BeginSlot(r)
  \/ BeginAlias(r)
  \/ AcquireBroadcastLease(r)
  \/ Send(r)
  \/ SendFails(r)
  \/ Complete(r)
  \/ ResolveRecordedIntent(r)
  \/ ResolveAmbiguous(r)

Next ==
  \/ \E r \in Relayers, k \in Keys, a \in Actions, f \in Fundings : Submit(r, k, a, f)
  \/ \E r \in Relayers : Step(r) \/ Crash(r)
  \/ \E a \in Actions : ChainApply(a)
  \/ Tick

Spec == Init /\ [][Next]_vars

-----------------------------------------------------------------------------
\* The state has the shape of the journal's records and of submit's locals.
TypeOK ==
  /\ slot \in [Slots -> SlotRecord]
  /\ request \in [Keys -> Actions \cup {None}]
  /\ lock \in Relayers \cup {None}
  /\ pc \in [Relayers -> Labels]
  /\ job \in [Relayers -> Jobs \cup {NoJob}]
  /\ now \in [Relayers -> Nat]
  /\ clock \in Nat
  /\ head \in [Targets -> Actions \cup {None}]
  /\ applied \subseteq Actions
  /\ inflight \subseteq Actions
  /\ sent \in [Slots -> Nat]
  /\ acked \subseteq Actions
  /\ answered \subseteq Keys \X Actions

\* README: changing a request key or an action nonce cannot purchase a second
\* broadcast for the same mutually exclusive transition. Whatever processes
\* race, crash and retry, SendContractCell is called at most once per slot.
AtMostOneBroadcast == \A s \in Slots : sent[s] <= 1

\* README: a prepared slot is safely recoverable. No message of the slot's
\* transition can have left a relayer before the lease is on disk, so taking
\* over a prepared slot after a crash never pays twice.
PreparedIsUnsent ==
  \A s \in Slots : slot[s].phase \in {"absent", "prepared"} => sent[s] = 0

\* A caller that was given an action's hash was told the truth: the slot is
\* complete, for this very action, and the sender acknowledged it or the chain
\* has applied it. A competing action never completes the slot, although the
\* answer is read without the lock.
AnswersAreEarned ==
  \A x \in answered :
    /\ slot[SlotOf[x[2]]].phase = "complete"
    /\ slot[SlotOf[x[2]]].action = x[2]
    /\ x[2] \in acked \cup applied

\* The claims made within any Window-long stretch of claim times respect the
\* wallet's and each target's limits on actions and on funding, although the
\* claim time is read before the lock is taken and may be stale in it.
InWindow(t) == {s \in Slots : /\ slot[s].phase # "absent"
                             /\ slot[s].claimed \in t .. (t + Window)}

BudgetRespected ==
  \A t \in 0 .. MaxTime :
    /\ Cardinality(InWindow(t)) <= MaxActionsPerWallet
    /\ FundingOf(InWindow(t)) <= MaxFundingPerWallet
    /\ \A x \in Targets :
         /\ Cardinality(OnTarget(InWindow(t), x)) <= MaxActionsPerTarget
         /\ FundingOf(OnTarget(InWindow(t), x)) <= MaxFundingPerTarget

-----------------------------------------------------------------------------
\* The journal implements PayOnce: a slot is the subject, the action that
\* claimed it the claim, and a call of the sender the payment.
Abstract == INSTANCE PayOnce WITH
  Subjects <- Slots, Claims <- Actions,
  owner <- [s \in Slots |-> slot[s].action],
  paid <- sent,
  settled <- [s \in Slots |-> slot[s].phase = "complete"]

\* Every step of the relayers, of the chain and of a crash is a step PayOnce
\* allows: one owner per slot, one payment, and settled for good.
ImplementsPayOnce == Abstract!Spec
=============================================================================
