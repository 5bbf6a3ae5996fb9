-------------------------- MODULE NativeRelayProofs --------------------------
(***************************************************************************)
(* Proofs about NativeRelay for any number of relayers, keys, actions and  *)
(* slots, and any clock.                                                   *)
(***************************************************************************)
EXTENDS NativeRelay, SumTheorems, TLAPS

\* A relayer that is in submit has a key and an action.
JobOK == \A r \in Relayers :
           pc[r] # "idle" => job[r] \in Jobs

\* The relayer about to call the sender holds a lease that is on disk and was
\* not used yet. The slot may be complete already, if the chain showed the
\* action to somebody else meanwhile.
LeaseHeld == \A r \in Relayers : pc[r] = "send" =>
               /\ slot[Mine(r)].phase \in {"broadcasting", "complete"}
               /\ sent[Mine(r)] = 0

\* A slot has one lease holder.
LeaseUnique == \A r, q \in Relayers :
                 /\ pc[r] = "send"
                 /\ pc[q] = "send"
                 /\ Mine(r) = Mine(q)
                 => r = q

\* AtMostOneBroadcast is not inductive by itself: the lease facts exclude a
\* second caller, and PreparedIsUnsent that the lease is granted after a send.
PayInv ==
  /\ TypeOK
  /\ JobOK
  /\ LeaseHeld
  /\ LeaseUnique
  /\ PreparedIsUnsent
  /\ AtMostOneBroadcast

\* A relayer inside submit competes for some slot.
LEMMA MineIsSlot ==
  ASSUME TypeOK, JobOK, NEW r \in Relayers, pc[r] # "idle"
  PROVE  /\ Mine(r) \in Slots /\ job[r].action \in Actions
         /\ job[r].key \in Keys /\ job[r].funding \in Nat
BY RelayAssumption, Zenon DEF TypeOK, JobOK, Jobs, Mine

\* What the record of a slot holds.
LEMMA SlotTypes ==
  ASSUME TypeOK, NEW s \in Slots
  PROVE  /\ slot[s].action \in Actions \cup {None} /\ slot[s].funding \in Nat
         /\ slot[s].phase \in Phases /\ slot[s].claimed \in Nat
<1>1. slot[s] \in SlotRecord
  BY Zenon DEF TypeOK
<1> QED
  BY <1>1 DEF SlotRecord

\* Moving a slot to another phase leaves the rest of it and the others alone.
LEMMA PhaseUpdate ==
  ASSUME TypeOK, NEW s \in Slots, NEW p \in Phases,
         NEW new, new = [slot EXCEPT ![s].phase = p]
  PROVE  /\ new \in [Slots -> SlotRecord]
         /\ new[s].phase = p
         /\ new[s].action = slot[s].action
         /\ new[s].funding = slot[s].funding
         /\ new[s].claimed = slot[s].claimed
         /\ \A q \in Slots : q # s => new[q] = slot[q]
<1>1. slot \in [Slots -> SlotRecord] /\ slot[s] \in SlotRecord
  BY DEF TypeOK
<1>2. new = [slot EXCEPT ![s] = [slot[s] EXCEPT !.phase = p]]
  BY <1>1
<1>3. [slot[s] EXCEPT !.phase = p] \in SlotRecord
  BY <1>1 DEF SlotRecord
<1> QED
  BY <1>1, <1>2, <1>3 DEF SlotRecord

\* The specification keeps the type invariant and gives every relayer inside
\* submit a well-formed job.
LEMMA TypeStep == TypeOK /\ JobOK /\ [Next]_vars => TypeOK' /\ JobOK'
<1> SUFFICES ASSUME TypeOK, JobOK, [Next]_vars
             PROVE  TypeOK' /\ JobOK'
  BY Zenon
<1> USE RelayAssumption
<1>1. ASSUME NEW r \in Relayers, NEW k \in Keys, NEW a \in Actions,
             NEW f \in Fundings, Submit(r, k, a, f)
      PROVE  TypeOK' /\ JobOK'
  BY <1>1, Zenon DEF Submit, TypeOK, JobOK, Goto, Labels, NoJob, Jobs, journal, chain, history
<1>2. ASSUME NEW r \in Relayers, Lookup(r)
      PROVE  TypeOK' /\ JobOK'
  BY <1>2 DEF Lookup, TypeOK, JobOK, Goto, Return, Answer, Labels, NoJob, Jobs, journal, chain
<1>3. ASSUME NEW r \in Relayers, Preflight(r) \/ PreflightFails(r)
      PROVE  TypeOK' /\ JobOK'
  BY <1>3 DEF Preflight, PreflightFails, TypeOK, JobOK, Goto, Return, Labels, NoJob, Jobs, journal, chain, history
<1>4. ASSUME NEW r \in Relayers, BeginSlot(r)
      PROVE  TypeOK' /\ JobOK'
  <2>1. Mine(r) \in Slots /\ job[r].action \in Actions /\ job[r].funding \in Nat
    BY <1>4, MineIsSlot DEF BeginSlot
  <2>2. slot' \in [Slots -> SlotRecord]
    BY <1>4, <2>1 DEF BeginSlot, TypeOK, SlotRecord, Phases
  <2>3. /\ lock' \in Relayers \cup {None}
        /\ UNCHANGED <<request, clock, head, applied, inflight, sent, acked, answered>>
    BY <1>4 DEF BeginSlot, TypeOK, chain, history
  <2>4. CASE Return(r)
    BY <2>2, <2>3, <2>4, Zenon DEF TypeOK, JobOK, Goto, Return, Labels, NoJob
  <2>5. CASE Goto(r, "alias") /\ UNCHANGED <<job, now>>
    BY <1>4, <2>2, <2>3, <2>5, Zenon DEF BeginSlot, TypeOK, JobOK, Goto, Labels
  <2> QED
    BY <1>4, <2>4, <2>5 DEF BeginSlot
<1>5. ASSUME NEW r \in Relayers, BeginAlias(r)
      PROVE  TypeOK' /\ JobOK'
  BY <1>5 DEF BeginAlias, TypeOK, JobOK, Goto, Return, Answer, Labels, NoJob, Jobs, chain
<1>6. ASSUME NEW r \in Relayers, AcquireBroadcastLease(r)
      PROVE  TypeOK' /\ JobOK'
  <2>1. Mine(r) \in Slots /\ job[r].action \in Actions /\ job[r].key \in Keys
    BY <1>6, MineIsSlot DEF AcquireBroadcastLease
  <2>2. slot' \in [Slots -> SlotRecord]
    <3>1. slot' \in {slot, [slot EXCEPT ![Mine(r)].phase = "broadcasting"]}
      BY <1>6 DEF AcquireBroadcastLease
    <3>2. "broadcasting" \in Phases
      BY DEF Phases
    <3> QED
      BY <2>1, <3>1, <3>2, PhaseUpdate DEF TypeOK
  <2>3. answered' \subseteq Keys \X Actions
    <3>1. answered' \in {answered, answered \cup {<<job[r].key, job[r].action>>}}
      BY <1>6 DEF AcquireBroadcastLease, Answer
    <3> QED
      BY <2>1, <3>1 DEF TypeOK
  <2> QED
    BY <1>6, <2>2, <2>3 DEF AcquireBroadcastLease, TypeOK, JobOK, Goto, Return, Labels, NoJob, Jobs, chain
<1>7. ASSUME NEW r \in Relayers, Send(r) \/ SendFails(r)
      PROVE  TypeOK' /\ JobOK'
  <2>1. Mine(r) \in Slots /\ job[r].action \in Actions
    BY <1>7, MineIsSlot, Zenon DEF Send, SendFails
  <2> QED
    BY <1>7, <2>1 DEF Send, SendFails, TypeOK, JobOK, Goto, Return, Labels, NoJob, journal
<1>8. ASSUME NEW r \in Relayers, Complete(r)
      PROVE  TypeOK' /\ JobOK'
  <2>1. Mine(r) \in Slots /\ job[r].action \in Actions /\ job[r].key \in Keys
    BY <1>8, MineIsSlot DEF Complete
  <2>2. slot' \in [Slots -> SlotRecord]
    <3>1. slot' \in {slot, [slot EXCEPT ![Mine(r)].phase = "complete"]}
      BY <1>8 DEF Complete
    <3>2. "complete" \in Phases
      BY DEF Phases
    <3> QED
      BY <2>1, <3>1, <3>2, PhaseUpdate DEF TypeOK
  <2>3. answered' \subseteq Keys \X Actions
    BY <1>8, <2>1 DEF Complete, TypeOK, Answer
  <2> QED
    BY <1>8, <2>2, <2>3 DEF Complete, TypeOK, JobOK, Goto, Return, Labels, NoJob, Jobs, chain
<1>9. ASSUME NEW r \in Relayers, ResolveRecordedIntent(r) \/ ResolveAmbiguous(r)
      PROVE  TypeOK' /\ JobOK'
  <2>1. CASE ResolveRecordedIntent(r)
    BY <2>1 DEF ResolveRecordedIntent, TypeOK, JobOK, Goto, Labels, journal, chain, history
  <2>2. CASE ResolveAmbiguous(r)
    BY <2>2, Zenon DEF ResolveAmbiguous, TypeOK, JobOK, Goto, Return, Labels, NoJob, journal, chain, history
  <2> QED
    BY <1>9, <2>1, <2>2, Zenon
<1>10. ASSUME NEW r \in Relayers, Crash(r)
       PROVE  TypeOK' /\ JobOK'
  BY <1>10, Zenon DEF Crash, TypeOK, JobOK, Goto, Return, Labels, NoJob, Jobs, chain, history
<1>11. ASSUME NEW a \in Actions, ChainApply(a)
       PROVE  TypeOK' /\ JobOK'
  BY <1>11 DEF ChainApply, TypeOK, JobOK, journal, local, history
<1>12. ASSUME Tick
       PROVE  TypeOK' /\ JobOK'
  BY <1>12 DEF Tick, TypeOK, JobOK, journal, local, chain, history
<1>13. ASSUME UNCHANGED vars
       PROVE  TypeOK' /\ JobOK'
  BY <1>13, Zenon DEF vars, TypeOK, JobOK, journal, local, chain, history
<1> QED
  BY <1>1, <1>2, <1>3, <1>4, <1>5, <1>6, <1>7, <1>8, <1>9, <1>10, <1>11, <1>12, <1>13, Zenon
     DEF Next, Step

\* The initial state is typed.
LEMMA TypeInit == Init => TypeOK /\ JobOK
BY RelayAssumption DEF Init, TypeOK, JobOK, Labels, NoJob, Jobs, NoSlot, SlotRecord, Phases

\* The journal's records and submit's locals keep their shape for ever.
THEOREM TypeCorrect == Spec => []TypeOK
<1>1. Init => TypeOK /\ JobOK
  BY TypeInit
<1>2. TypeOK /\ JobOK /\ [Next]_vars => TypeOK' /\ JobOK'
  BY TypeStep
<1> QED
  BY <1>1, <1>2, PTL DEF Spec

-----------------------------------------------------------------------------
\* What keeps the lease facts when nobody takes a lease or uses one: phases go
\* absent to prepared or broadcasting to complete, and nobody enters the sender.
Quiet ==
  /\ \A s \in Slots :
       \/ slot'[s].phase = slot[s].phase
       \/ slot[s].phase = "absent" /\ slot'[s].phase = "prepared"
       \/ slot[s].phase \in {"broadcasting", "complete"} /\ slot'[s].phase = "complete"
  /\ sent' = sent
  /\ \A r \in Relayers : pc'[r] = "send" => pc[r] = "send" /\ job'[r] = job[r]

\* A step that neither leases nor sends keeps the lease invariants.
LEMMA QuietStep ==
  ASSUME PayInv, Quiet
  PROVE  LeaseHeld' /\ LeaseUnique' /\ PreparedIsUnsent' /\ AtMostOneBroadcast'
<1>1. \A r \in Relayers : pc'[r] = "send" => pc[r] = "send" /\ Mine(r)' = Mine(r) /\ Mine(r) \in Slots
  BY MineIsSlot DEF Quiet, PayInv, Mine
<1>2. LeaseHeld'
  BY <1>1 DEF Quiet, PayInv, LeaseHeld
<1>3. LeaseUnique'
  BY <1>1 DEF PayInv, LeaseUnique
<1>4. PreparedIsUnsent' /\ AtMostOneBroadcast'
  BY DEF Quiet, PayInv, PreparedIsUnsent, AtMostOneBroadcast
<1> QED
  BY <1>2, <1>3, <1>4, Zenon

\* AcquireBroadcastLease grants the lease on a prepared slot, which nobody holds
\* and nobody has paid for.
LEMMA AcquireStep ==
  ASSUME PayInv, NEW r \in Relayers, AcquireBroadcastLease(r), TypeOK', JobOK'
  PROVE  LeaseHeld' /\ LeaseUnique' /\ PreparedIsUnsent' /\ AtMostOneBroadcast'
<1>1. Mine(r) \in Slots /\ pc[r] = "acquire" /\ sent' = sent
  BY MineIsSlot DEF AcquireBroadcastLease, PayInv
<1>2. CASE pc'[r] # "send"
  <2>1. slot' = slot
    BY <1>2, Zenon DEF AcquireBroadcastLease, Goto, PayInv, TypeOK
  <2>2. \A q \in Relayers : pc'[q] = "send" => pc[q] = "send" /\ job'[q] = job[q]
    BY <1>2 DEF AcquireBroadcastLease, Goto, Return, PayInv, TypeOK
  <2> QED
    BY <1>1, <2>1, <2>2, QuietStep DEF Quiet
<1>3. CASE pc'[r] = "send"
  <2>1. /\ slot[Mine(r)].phase = "prepared"
        /\ slot' = [slot EXCEPT ![Mine(r)].phase = "broadcasting"]
        /\ pc' = [pc EXCEPT ![r] = "send"]
        /\ job' = job
    BY <1>3 DEF AcquireBroadcastLease, Goto, Return, PayInv, TypeOK
  <2>2. /\ slot'[Mine(r)].phase = "broadcasting"
        /\ \A s \in Slots : s # Mine(r) => slot'[s] = slot[s]
    BY <1>1, <2>1 DEF PayInv, TypeOK, SlotRecord
  <2>3. sent[Mine(r)] = 0
    BY <1>1, <2>1, Zenon DEF PayInv, PreparedIsUnsent
  <2>4. \A q \in Relayers : /\ Mine(q)' = Mine(q)
                            /\ q # r /\ pc'[q] = "send" => pc[q] = "send" /\ Mine(q) # Mine(r)
    BY <1>1, <2>1 DEF PayInv, LeaseHeld, TypeOK, Mine
  <2>5. LeaseHeld'
    <3> SUFFICES ASSUME NEW q \in Relayers, pc'[q] = "send"
                 PROVE  /\ slot'[Mine(q)].phase \in {"broadcasting", "complete"}
                        /\ sent[Mine(q)] = 0
      BY <1>1, <2>4 DEF LeaseHeld
    <3>1. CASE q = r
      BY <2>2, <2>3, <3>1
    <3>2. CASE q # r
      <4>1. pc[q] = "send" /\ Mine(q) # Mine(r) /\ Mine(q) \in Slots
        BY <2>4, <3>2, MineIsSlot DEF PayInv
      <4> QED
        BY <4>1, <2>2 DEF PayInv, LeaseHeld
    <3> QED
      BY <3>1, <3>2
  <2>6. LeaseUnique'
    BY <2>4 DEF PayInv, LeaseUnique
  <2>7. PreparedIsUnsent' /\ AtMostOneBroadcast'
    BY <1>1, <2>2, <2>3 DEF PayInv, PreparedIsUnsent, AtMostOneBroadcast
  <2> QED
    BY <2>5, <2>6, <2>7, Zenon
<1> QED
  BY <1>2, <1>3

\* The sender is called by the one lease holder, which then gives up the lease.
LEMMA SendStep ==
  ASSUME PayInv, NEW r \in Relayers, Send(r) \/ SendFails(r), TypeOK', JobOK'
  PROVE  LeaseHeld' /\ LeaseUnique' /\ PreparedIsUnsent' /\ AtMostOneBroadcast'
<1>1. /\ pc[r] = "send" /\ Mine(r) \in Slots
      /\ sent' = [sent EXCEPT ![Mine(r)] = @ + 1]
      /\ slot' = slot
      /\ pc'[r] # "send"
      /\ \A q \in Relayers : q # r => pc'[q] = pc[q] /\ job'[q] = job[q]
  BY MineIsSlot, Zenon DEF Send, SendFails, Goto, Return, PayInv, TypeOK, journal
<1>2. sent[Mine(r)] = 0 /\ slot[Mine(r)].phase \in {"broadcasting", "complete"}
  BY <1>1 DEF PayInv, LeaseHeld
<1>3. sent'[Mine(r)] = 1 /\ \A s \in Slots : s # Mine(r) => sent'[s] = sent[s]
  BY <1>1, <1>2 DEF PayInv, TypeOK
<1>4. \A q \in Relayers : pc'[q] = "send" =>
        /\ q # r /\ pc[q] = "send"
        /\ Mine(q)' = Mine(q) /\ Mine(q) # Mine(r) /\ Mine(q) \in Slots
  BY <1>1, MineIsSlot, Zenon DEF PayInv, LeaseUnique, Mine
<1>5. LeaseHeld'
  BY <1>1, <1>3, <1>4 DEF PayInv, LeaseHeld
<1>6. LeaseUnique'
  BY <1>4, Zenon DEF PayInv, LeaseUnique
<1>7. PreparedIsUnsent' /\ AtMostOneBroadcast'
  BY <1>1, <1>2, <1>3 DEF PayInv, PreparedIsUnsent, AtMostOneBroadcast
<1> QED
  BY <1>5, <1>6, <1>7, Zenon

\* No other step takes or uses a lease.
LEMMA OtherSteps ==
  ASSUME PayInv, TypeOK', JobOK',
         \/ \E r \in Relayers, k \in Keys, a \in Actions, f \in Fundings : Submit(r, k, a, f)
         \/ \E r \in Relayers : \/ Lookup(r) \/ Preflight(r) \/ PreflightFails(r)
                               \/ BeginSlot(r) \/ BeginAlias(r) \/ Complete(r)
                               \/ ResolveRecordedIntent(r) \/ ResolveAmbiguous(r)
                               \/ Crash(r)
         \/ \E a \in Actions : ChainApply(a)
         \/ Tick
         \/ UNCHANGED vars
  PROVE  LeaseHeld' /\ LeaseUnique' /\ PreparedIsUnsent' /\ AtMostOneBroadcast'
<1> SUFFICES Quiet
  BY QuietStep, Zenon
<1> USE DEF PayInv
<1>1. ASSUME NEW r \in Relayers, NEW k \in Keys, NEW a \in Actions,
             NEW f \in Fundings, Submit(r, k, a, f)
      PROVE  Quiet
  BY <1>1 DEF Submit, Quiet, Goto, TypeOK, journal, history
<1>2. ASSUME NEW r \in Relayers,
             \/ Lookup(r) \/ Preflight(r) \/ PreflightFails(r)
             \/ ResolveRecordedIntent(r) \/ ResolveAmbiguous(r) \/ Crash(r)
      PROVE  Quiet
  BY <1>2, ZenonT(30) DEF Lookup, Preflight, PreflightFails, ResolveRecordedIntent, ResolveAmbiguous,
              Crash, Quiet, Goto, Return, TypeOK, journal, history
<1>3. ASSUME NEW r \in Relayers, BeginSlot(r)
      PROVE  Quiet
  <2>1. Mine(r) \in Slots
    BY <1>3, MineIsSlot DEF BeginSlot
  <2>2. sent' = sent /\ \A q \in Relayers : pc'[q] = "send" => pc[q] = "send" /\ job'[q] = job[q]
    BY <1>3, Zenon DEF BeginSlot, Goto, Return, TypeOK, history
  <2>3. \/ slot' = slot
        \/ /\ slot[Mine(r)].phase = "absent"
           /\ slot'[Mine(r)].phase = "prepared"
           /\ \A s \in Slots : s # Mine(r) => slot'[s] = slot[s]
    <3>1. \/ slot' = slot
          \/ /\ slot[Mine(r)].phase = "absent"
             /\ slot' = [slot EXCEPT ![Mine(r)] =
                           [action |-> job[r].action, funding |-> job[r].funding,
                            phase |-> "prepared", claimed |-> now[r]]]
      BY <1>3, Zenon DEF BeginSlot
    <3>2. DOMAIN slot = Slots
      BY Zenon DEF TypeOK
    <3> QED
      BY <2>1, <3>1, <3>2
  <2> QED
    BY <2>1, <2>2, <2>3, Zenon DEF Quiet
<1>4. ASSUME NEW r \in Relayers, BeginAlias(r)
      PROVE  Quiet
  BY <1>4, Zenon DEF BeginAlias, Quiet, Goto, Return, TypeOK
<1>5. ASSUME NEW r \in Relayers, Complete(r)
      PROVE  Quiet
  <2>1. Mine(r) \in Slots
    BY <1>5, MineIsSlot, Zenon DEF Complete
  <2>2. sent' = sent /\ \A q \in Relayers : pc'[q] = "send" => pc[q] = "send" /\ job'[q] = job[q]
    BY <1>5 DEF Complete, Goto, Return, TypeOK
  <2>3. \/ slot' = slot
        \/ /\ slot[Mine(r)].phase \in {"broadcasting", "complete"}
           /\ slot' = [slot EXCEPT ![Mine(r)].phase = "complete"]
    BY <1>5 DEF Complete
  <2>4. \/ slot' = slot
        \/ /\ slot[Mine(r)].phase \in {"broadcasting", "complete"}
           /\ slot'[Mine(r)].phase = "complete"
           /\ \A s \in Slots : s # Mine(r) => slot'[s] = slot[s]
    BY <2>1, <2>3 DEF TypeOK, SlotRecord
  <2> QED
    BY <2>1, <2>2, <2>4, Zenon DEF Quiet
<1>6. ASSUME (\E a \in Actions : ChainApply(a)) \/ Tick \/ UNCHANGED vars
      PROVE  Quiet
  BY <1>6, Zenon DEF ChainApply, Tick, vars, Quiet, journal, local, history
<1> QED
  BY <1>1, <1>2, <1>3, <1>4, <1>5, <1>6

\* Every step keeps the invariant.
LEMMA PayStep == PayInv /\ [Next]_vars => PayInv'
<1> SUFFICES ASSUME PayInv, [Next]_vars
             PROVE  PayInv'
  OBVIOUS
<1>1. TypeOK' /\ JobOK'
  BY TypeStep DEF PayInv
<1>2. ASSUME NEW r \in Relayers, AcquireBroadcastLease(r)
      PROVE  PayInv'
  BY <1>1, <1>2, AcquireStep DEF PayInv
<1>3. ASSUME NEW r \in Relayers, Send(r) \/ SendFails(r)
      PROVE  PayInv'
  BY <1>1, <1>3, SendStep DEF PayInv
<1>4. ASSUME ~ \E r \in Relayers : AcquireBroadcastLease(r) \/ Send(r) \/ SendFails(r)
      PROVE  PayInv'
  BY <1>1, <1>4, OtherSteps, Zenon DEF PayInv, Next, Step
<1> QED
  BY <1>2, <1>3, <1>4, Zenon

\* The initial state satisfies the invariant.
LEMMA PayInit == Init => PayInv
BY TypeInit, RelayAssumption
   DEF Init, PayInv, NoSlot, LeaseHeld, LeaseUnique, PreparedIsUnsent, AtMostOneBroadcast

\* The invariant holds in every behaviour.
LEMMA PayInvariant == Spec => []PayInv
BY PayInit, PayStep, PTL DEF Spec

\* The relayers together call the sender at most once per state slot, however
\* many there are and wherever they crash.
THEOREM SingleBroadcast == Spec => []AtMostOneBroadcast
<1>1. PayInv => AtMostOneBroadcast
  BY DEF PayInv
<1> QED
  BY <1>1, PayInvariant, PTL

\* A prepared slot can be taken over: nothing of it was ever sent.
THEOREM PreparedRecoverable == Spec => []PreparedIsUnsent
<1>1. PayInv => PreparedIsUnsent
  BY DEF PayInv
<1> QED
  BY <1>1, PayInvariant, PTL

-----------------------------------------------------------------------------
(* The journal as PayOnce.                                                 *)

\* The three ways a step changes a slot file.
Claims(r) ==
  /\ pc[r] = "begin"
  /\ slot[Mine(r)].phase = "absent"
  /\ EnforceSpendLimits(r)
  /\ slot' = [slot EXCEPT ![Mine(r)] =
                [action |-> job[r].action, funding |-> job[r].funding,
                 phase |-> "prepared", claimed |-> now[r]]]

Leases(r) ==
  /\ pc[r] = "acquire"
  /\ slot[Mine(r)].phase = "prepared"
  /\ slot' = [slot EXCEPT ![Mine(r)].phase = "broadcasting"]

Completes(r) ==
  /\ pc[r] = "complete"
  /\ slot[Mine(r)].phase \in {"broadcasting", "complete"}
  /\ slot[Mine(r)].action = job[r].action
  /\ slot' = [slot EXCEPT ![Mine(r)].phase = "complete"]

\* Nothing else changes one.
LEMMA SlotSteps ==
  ASSUME [Next]_vars
  PROVE  slot' = slot \/ \E r \in Relayers : Claims(r) \/ Leases(r) \/ Completes(r)
<1>1. ASSUME NEW r \in Relayers, BeginSlot(r)
      PROVE  slot' = slot \/ Claims(r)
  BY <1>1 DEF BeginSlot, BeginRefuses, Claims
<1>2. ASSUME NEW r \in Relayers, AcquireBroadcastLease(r)
      PROVE  slot' = slot \/ Leases(r)
  BY <1>2 DEF AcquireBroadcastLease, Leases
<1>3. ASSUME NEW r \in Relayers, Complete(r)
      PROVE  slot' = slot \/ Completes(r)
  BY <1>3, ZenonT(30) DEF Complete, Matches, Completes
<1>4. ASSUME NEW r \in Relayers,
             \/ Lookup(r) \/ Preflight(r) \/ PreflightFails(r) \/ BeginAlias(r)
             \/ Send(r) \/ SendFails(r)
             \/ ResolveRecordedIntent(r) \/ ResolveAmbiguous(r) \/ Crash(r)
      PROVE  slot' = slot
  BY <1>4 DEF Lookup, Preflight, PreflightFails, BeginAlias, Send, SendFails,
              ResolveRecordedIntent, ResolveAmbiguous, Crash, journal
<1>5. ASSUME NEW r \in Relayers, NEW k \in Keys, NEW a \in Actions,
             NEW f \in Fundings, Submit(r, k, a, f)
      PROVE  slot' = slot
  BY <1>5, Zenon DEF Submit, journal
<1>6. ASSUME (\E a \in Actions : ChainApply(a)) \/ Tick \/ UNCHANGED vars
      PROVE  slot' = slot
  BY <1>6, Zenon DEF ChainApply, Tick, vars, journal
<1> QED
  BY <1>1, <1>2, <1>3, <1>4, <1>5, <1>6, Zenon DEF Next, Step

\* What they do to one slot and leave of the others.
LEMMA ClaimEffects ==
  ASSUME TypeOK, JobOK, NEW r \in Relayers, Claims(r)
  PROVE  /\ Mine(r) \in Slots /\ job[r].action \in Actions /\ job[r].funding \in Nat
         /\ SlotOf[job[r].action] = Mine(r)
         /\ slot'[Mine(r)] = [action |-> job[r].action, funding |-> job[r].funding,
                              phase |-> "prepared", claimed |-> now[r]]
         /\ \A s \in Slots : s # Mine(r) => slot'[s] = slot[s]
<1>1. /\ Mine(r) \in Slots /\ job[r].action \in Actions /\ job[r].funding \in Nat
      /\ SlotOf[job[r].action] = Mine(r)
  BY MineIsSlot, Zenon DEF Claims, Mine
<1> QED
  BY <1>1 DEF Claims, TypeOK

\* A lease and a completion change the phase of their own slot only.
LEMMA PhaseEffects ==
  ASSUME TypeOK, JobOK, NEW r \in Relayers, Leases(r) \/ Completes(r)
  PROVE  /\ Mine(r) \in Slots
         /\ slot[Mine(r)].phase # "absent"
         /\ slot'[Mine(r)].phase # "absent"
         /\ slot'[Mine(r)].action = slot[Mine(r)].action
         /\ slot'[Mine(r)].funding = slot[Mine(r)].funding
         /\ slot'[Mine(r)].claimed = slot[Mine(r)].claimed
         /\ Leases(r) => slot'[Mine(r)].phase = "broadcasting"
         /\ \A s \in Slots : s # Mine(r) => slot'[s] = slot[s]
<1>1. Mine(r) \in Slots /\ slot[Mine(r)].phase # "absent"
  BY MineIsSlot DEF Leases, Completes
<1>2. \E p \in Phases \ {"absent"} :
        slot' = [slot EXCEPT ![Mine(r)].phase = p] /\ (Leases(r) => p = "broadcasting")
  <2>1. CASE Leases(r)
    BY <2>1, Zenon DEF Leases, Phases
  <2>2. CASE Completes(r) /\ ~Leases(r)
    BY <2>2, Zenon DEF Completes, Phases
  <2> QED
    BY <2>1, <2>2
<1> QED
  BY <1>1, <1>2, PhaseUpdate

\* A slot file names an action of its own slot.
Owned ==
  \A s \in Slots :
    /\ slot[s].phase = "absent" <=> slot[s].action = None
    /\ slot[s].phase # "absent" => slot[s].action \in Actions /\ SlotOf[slot[s].action] = s

\* Every step keeps the ownership of jobs.
LEMMA OwnedStep == PayInv /\ Owned /\ [Next]_vars => Owned'
<1> SUFFICES ASSUME PayInv, Owned, [Next]_vars
             PROVE  Owned'
  OBVIOUS
<1>1. CASE slot' = slot
  BY <1>1, Zenon DEF Owned
<1>2. ASSUME NEW r \in Relayers, Claims(r)
      PROVE  Owned'
  <2>1. /\ slot'[Mine(r)] = [action |-> job[r].action, funding |-> job[r].funding,
                              phase |-> "prepared", claimed |-> now[r]]
        /\ job[r].action \in Actions /\ SlotOf[job[r].action] = Mine(r)
        /\ \A s \in Slots : s # Mine(r) => slot'[s] = slot[s]
    BY <1>2, ClaimEffects, Zenon DEF PayInv
  <2>2. slot'[Mine(r)].action = job[r].action /\ slot'[Mine(r)].phase = "prepared"
    BY <2>1
  <2>3. job[r].action # None
    BY <2>1, RelayAssumption, Zenon
  <2> QED
    BY <2>1, <2>2, <2>3 DEF Owned
<1>3. ASSUME NEW r \in Relayers, Leases(r) \/ Completes(r)
      PROVE  Owned'
  <2>1. /\ slot[Mine(r)].phase # "absent"
        /\ slot'[Mine(r)].action = slot[Mine(r)].action
        /\ slot'[Mine(r)].phase # "absent"
        /\ \A s \in Slots : s # Mine(r) => slot'[s] = slot[s]
    BY <1>3, PhaseEffects DEF PayInv
  <2> QED
    BY <2>1 DEF Owned
<1> QED
  BY <1>1, <1>2, <1>3, SlotSteps

\* Jobs stay owned in every behaviour.
LEMMA OwnedInvariant == Spec => [](PayInv /\ Owned)
<1>1. Init => Owned
  BY DEF Init, Owned, NoSlot
<1> QED
  BY <1>1, PayInit, PayStep, OwnedStep, PTL DEF Spec

\* Only the lease holder's call of the sender counts as a payment, and it
\* leaves the slot file alone.
LEMMA SentSteps ==
  ASSUME [Next]_vars
  PROVE  \/ sent' = sent
         \/ /\ slot' = slot
            /\ \E r \in Relayers : pc[r] = "send" /\ sent' = [sent EXCEPT ![Mine(r)] = @ + 1]
<1>1. ASSUME NEW r \in Relayers, Send(r) \/ SendFails(r)
      PROVE  slot' = slot /\ pc[r] = "send" /\ sent' = [sent EXCEPT ![Mine(r)] = @ + 1]
  BY <1>1, Zenon DEF Send, SendFails, journal
<1>2. ASSUME NEW r \in Relayers,
             \/ Lookup(r) \/ Preflight(r) \/ PreflightFails(r) \/ BeginSlot(r) \/ BeginAlias(r)
             \/ AcquireBroadcastLease(r) \/ Complete(r)
             \/ ResolveRecordedIntent(r) \/ ResolveAmbiguous(r) \/ Crash(r)
      PROVE  sent' = sent
  BY <1>2 DEF Lookup, Preflight, PreflightFails, BeginSlot, BeginAlias, AcquireBroadcastLease,
              Complete, ResolveRecordedIntent, ResolveAmbiguous, Crash, history
<1>3. ASSUME NEW r \in Relayers, NEW k \in Keys, NEW a \in Actions,
             NEW f \in Fundings, Submit(r, k, a, f)
      PROVE  sent' = sent
  BY <1>3 DEF Submit, history
<1>4. ASSUME (\E a \in Actions : ChainApply(a)) \/ Tick \/ UNCHANGED vars
      PROVE  sent' = sent
  BY <1>4 DEF ChainApply, Tick, vars, history
<1> QED
  BY <1>1, <1>2, <1>3, <1>4, Zenon DEF Next, Step

\* The initial states map to initial states of the abstract payment.
LEMMA RefinesInit == Init => Abstract!Init
<1> SUFFICES ASSUME Init
             PROVE  Abstract!Init
  OBVIOUS
<1>1. \A s \in Slots : slot[s].action = None /\ slot[s].phase = "absent"
  BY DEF Init, NoSlot
<1>2. [s \in Slots |-> slot[s].action] = [s \in Slots |-> None]
  BY <1>1
<1>3. [s \in Slots |-> slot[s].phase = "complete"] = [s \in Slots |-> FALSE]
  BY <1>1, Zenon
<1> QED
  BY <1>2, <1>3, Zenon DEF Init, Abstract!Init

\* A claim of a slot is PayOnce's Claim, a call of the sender its Pay, a
\* completed slot its Settle; taking the lease and everything else is a stutter.
LEMMA RefinesStep == PayInv /\ Owned /\ [Next]_vars => [Abstract!Next]_(Abstract!vars)
<1> SUFFICES ASSUME PayInv, Owned, [Next]_vars
             PROVE  Abstract!Next \/ UNCHANGED Abstract!vars
  OBVIOUS
<1>1. CASE slot' = slot /\ sent' = sent
  BY <1>1 DEF Abstract!vars
<1>2. ASSUME slot' = slot, NEW r \in Relayers, pc[r] = "send",
             sent' = [sent EXCEPT ![Mine(r)] = @ + 1]
      PROVE  Abstract!Next
  <2>1. Mine(r) \in Slots /\ sent[Mine(r)] = 0 /\ slot[Mine(r)].action # None
    BY <1>2, MineIsSlot, Zenon DEF PayInv, LeaseHeld, Owned
  <2>2. Abstract!Pay(Mine(r))
    BY <1>2, <2>1 DEF Abstract!Pay
  <2> QED
    BY <2>1, <2>2, Zenon DEF Abstract!Next
<1>3. ASSUME sent' = sent, NEW r \in Relayers, Claims(r)
      PROVE  Abstract!Next
  <2>1. /\ Mine(r) \in Slots /\ job[r].action \in Actions
        /\ slot'[Mine(r)].action = job[r].action
        /\ slot'[Mine(r)].phase = "prepared"
        /\ \A s \in Slots : s # Mine(r) => slot'[s] = slot[s]
    <3>1. /\ Mine(r) \in Slots /\ job[r].action \in Actions
          /\ slot'[Mine(r)] = [action |-> job[r].action, funding |-> job[r].funding,
                               phase |-> "prepared", claimed |-> now[r]]
          /\ \A s \in Slots : s # Mine(r) => slot'[s] = slot[s]
      BY <1>3, ClaimEffects, Zenon DEF PayInv
    <3> QED
      BY <3>1
  <2>2. slot[Mine(r)].action = None /\ slot[Mine(r)].phase = "absent"
    BY <1>3, <2>1 DEF Claims, Owned
  <2>3. Abstract!Claim(Mine(r), job[r].action)
    BY <1>3, <2>1, <2>2, Zenon DEF Abstract!Claim
  <2> QED
    BY <2>1, <2>3, Zenon DEF Abstract!Next, Abstract!Claim
<1>4. ASSUME sent' = sent, NEW r \in Relayers, Leases(r)
      PROVE  UNCHANGED Abstract!vars
  <2>1. /\ slot[Mine(r)].phase = "prepared" /\ slot'[Mine(r)].phase = "broadcasting"
        /\ slot'[Mine(r)].action = slot[Mine(r)].action
        /\ \A s \in Slots : s # Mine(r) => slot'[s] = slot[s]
    BY <1>4, PhaseEffects, Zenon DEF PayInv, Leases
  <2> QED
    BY <1>4, <2>1 DEF Abstract!vars
<1>5. ASSUME sent' = sent, NEW r \in Relayers, Completes(r)
      PROVE  Abstract!Next
  <2>1. /\ Mine(r) \in Slots
        /\ slot'[Mine(r)].phase = "complete"
        /\ slot'[Mine(r)].action = slot[Mine(r)].action
        /\ slot[Mine(r)].action # None
        /\ \A s \in Slots : s # Mine(r) => slot'[s] = slot[s]
    <3>1. Mine(r) \in Slots /\ "complete" \in Phases /\ slot[Mine(r)].phase # "absent"
      BY <1>5, PhaseEffects DEF PayInv, Phases
    <3> QED
      BY <1>5, <3>1, PhaseUpdate DEF PayInv, Owned, Completes
  <2>2. Abstract!Settle(Mine(r))
    BY <1>5, <2>1, Zenon DEF Abstract!Settle
  <2> QED
    BY <2>1, <2>2, Zenon DEF Abstract!Next, Abstract!Settle
<1> QED
  BY <1>1, <1>2, <1>3, <1>4, <1>5, SlotSteps, SentSteps, Zenon

\* The relayers and their journal implement PayOnce, for any number of
\* processes and wherever they crash: a slot has one owner, is paid for once,
\* and stays settled.
THEOREM RefinesPayOnce == Spec => ImplementsPayOnce
BY RefinesInit, RefinesStep, OwnedInvariant, PTL DEF Spec, ImplementsPayOnce, Abstract!Spec

-----------------------------------------------------------------------------
(* Answers.                                                                *)

Settled == acked \cup applied

\* What an answer rests on: the chain's last actions were applied, the relayer
\* between the slot file and the alias file owns the slot, the one about to
\* complete a slot knows the outcome of its action, and so does a complete slot.
EarnInv ==
  /\ \A t \in Targets : head[t] # None => head[t] \in applied
  /\ \A r \in Relayers : pc[r] = "alias" =>
       slot[Mine(r)].phase # "absent" /\ slot[Mine(r)].action = job[r].action
  /\ \A r \in Relayers : pc[r] = "complete" => job[r].action \in Settled
  /\ \A s \in Slots : slot[s].phase = "complete" => slot[s].action \in Settled
  /\ AnswersAreEarned

\* No step takes a claim or a completion back.
LEMMA SlotsStand ==
  ASSUME TypeOK, JobOK, [Next]_vars, NEW s \in Slots, slot[s].phase # "absent"
  PROVE  /\ slot'[s].phase # "absent" /\ slot'[s].action = slot[s].action
         /\ slot'[s].funding = slot[s].funding /\ slot'[s].claimed = slot[s].claimed
         /\ slot[s].phase = "complete" => slot'[s].phase = "complete"
<1>1. ASSUME NEW r \in Relayers, Claims(r)
      PROVE  slot'[s] = slot[s]
  BY <1>1, ClaimEffects DEF Claims
<1>2. ASSUME NEW r \in Relayers, Leases(r)
      PROVE  /\ slot'[s].phase # "absent" /\ slot'[s].action = slot[s].action
             /\ slot'[s].funding = slot[s].funding /\ slot'[s].claimed = slot[s].claimed
             /\ slot[s].phase = "complete" => slot'[s].phase = "complete"
  BY <1>2, PhaseEffects DEF Leases
<1>3. ASSUME NEW r \in Relayers, Completes(r)
      PROVE  /\ slot'[s].phase # "absent" /\ slot'[s].action = slot[s].action
             /\ slot'[s].funding = slot[s].funding /\ slot'[s].claimed = slot[s].claimed
             /\ slot[s].phase = "complete" => slot'[s].phase = "complete"
  <2>1. Mine(r) \in Slots /\ "complete" \in Phases
    BY <1>3, PhaseEffects DEF Phases
  <2> QED
    BY <1>3, <2>1, PhaseUpdate DEF Completes
<1> QED
  BY <1>1, <1>2, <1>3, SlotSteps, Zenon

\* Who is given an answer is given one of a complete slot that is its own.
LEMMA AnswerSteps ==
  ASSUME PayInv, Owned, EarnInv, [Next]_vars
  PROVE  \/ answered' = answered
         \/ \E r \in Relayers :
              /\ Mine(r) \in Slots /\ Mine(r) = SlotOf[job[r].action]
              /\ answered' = answered \cup {<<job[r].key, job[r].action>>}
              /\ slot'[Mine(r)].phase = "complete"
              /\ slot'[Mine(r)].action = job[r].action
<1> USE DEF PayInv
<1>0. ASSUME NEW r \in Relayers, pc[r] # "idle"
      PROVE  Mine(r) \in Slots /\ Mine(r) = SlotOf[job[r].action]
  BY <1>0, MineIsSlot DEF Mine
<1>1. ASSUME NEW r \in Relayers, Lookup(r), answered' # answered
      PROVE  /\ pc[r] # "idle"
             /\ answered' = answered \cup {<<job[r].key, job[r].action>>}
             /\ slot'[Mine(r)].phase = "complete"
             /\ slot'[Mine(r)].action = job[r].action
  BY <1>1, Zenon DEF Lookup, Answer, Matches, journal
<1>2. ASSUME NEW r \in Relayers, BeginAlias(r), answered' # answered
      PROVE  /\ pc[r] # "idle"
             /\ answered' = answered \cup {<<job[r].key, job[r].action>>}
             /\ slot'[Mine(r)].phase = "complete"
             /\ slot'[Mine(r)].action = job[r].action
  BY <1>2, Zenon DEF BeginAlias, Answer, EarnInv
<1>3. ASSUME NEW r \in Relayers, AcquireBroadcastLease(r), answered' # answered
      PROVE  /\ pc[r] # "idle"
             /\ answered' = answered \cup {<<job[r].key, job[r].action>>}
             /\ slot'[Mine(r)].phase = "complete"
             /\ slot'[Mine(r)].action = job[r].action
  BY <1>3 DEF AcquireBroadcastLease, Answer, Matches
<1>4. ASSUME NEW r \in Relayers, Complete(r), answered' # answered
      PROVE  /\ pc[r] # "idle"
             /\ answered' = answered \cup {<<job[r].key, job[r].action>>}
             /\ slot'[Mine(r)].phase = "complete"
             /\ slot'[Mine(r)].action = job[r].action
  <2>1. /\ pc[r] = "complete"
        /\ answered' = answered \cup {<<job[r].key, job[r].action>>}
        /\ slot[Mine(r)].action = job[r].action
        /\ slot' = [slot EXCEPT ![Mine(r)].phase = "complete"]
    BY <1>4 DEF Complete, Answer, Matches
  <2>2. Mine(r) \in Slots /\ "complete" \in Phases
    BY <1>0, <2>1 DEF Phases
  <2> QED
    BY <2>1, <2>2, PhaseUpdate
<1>5. ASSUME NEW r \in Relayers,
             \/ Preflight(r) \/ PreflightFails(r) \/ BeginSlot(r) \/ Send(r) \/ SendFails(r)
             \/ ResolveRecordedIntent(r) \/ ResolveAmbiguous(r) \/ Crash(r)
      PROVE  answered' = answered
  BY <1>5, Zenon DEF Preflight, PreflightFails, BeginSlot, Send, SendFails,
              ResolveRecordedIntent, ResolveAmbiguous, Crash, history
<1>6. ASSUME NEW r \in Relayers, NEW k \in Keys, NEW a \in Actions,
             NEW f \in Fundings, Submit(r, k, a, f)
      PROVE  answered' = answered
  BY <1>6 DEF Submit, history
<1>7. ASSUME (\E a \in Actions : ChainApply(a)) \/ Tick \/ UNCHANGED vars
      PROVE  answered' = answered
  BY <1>7, Zenon DEF ChainApply, Tick, vars, history
<1> HIDE DEF PayInv
<1> QED
  BY <1>0, <1>1, <1>2, <1>3, <1>4, <1>5, <1>6, <1>7, Zenon DEF Next, Step

\* The sender's acknowledgements and the chain's history only grow.
LEMMA HistoryGrows ==
  ASSUME [Next]_vars
  PROVE  acked \subseteq acked' /\ applied \subseteq applied'
<1>1. ASSUME NEW r \in Relayers, Step(r) \/ Crash(r)
      PROVE  acked \subseteq acked' /\ applied \subseteq applied'
  BY <1>1, Zenon DEF Step, Lookup, Preflight, PreflightFails, BeginSlot, BeginAlias,
              AcquireBroadcastLease, Send, SendFails, Complete, ResolveRecordedIntent,
              ResolveAmbiguous, Crash, history, chain
<1>2. ASSUME NEW r \in Relayers, NEW k \in Keys, NEW a \in Actions,
             NEW f \in Fundings, Submit(r, k, a, f)
      PROVE  acked \subseteq acked' /\ applied \subseteq applied'
  BY <1>2, Zenon DEF Submit, history, chain
<1>3. ASSUME (\E a \in Actions : ChainApply(a)) \/ Tick \/ UNCHANGED vars
      PROVE  acked \subseteq acked' /\ applied \subseteq applied'
  BY <1>3 DEF ChainApply, Tick, vars, history, chain
<1> QED
  BY <1>1, <1>2, <1>3, Zenon DEF Next

\* How a relayer comes to own a slot under the lock, and to complete one.
LEMMA ArrivalSteps ==
  ASSUME TypeOK, JobOK, [Next]_vars, NEW q \in Relayers
  PROVE  /\ pc'[q] = "alias" =>
              /\ job'[q] = job[q]
              /\ \/ pc[q] = "alias"
                 \/ /\ pc[q] = "begin"
                    /\ slot'[Mine(q)].phase # "absent" /\ slot'[Mine(q)].action = job[q].action
         /\ pc'[q] = "complete" =>
              /\ job'[q] = job[q]
              /\ \/ pc[q] = "complete"
                 \/ job[q].action \in acked'
                 \/ pc[q] = "resolve" /\ head[TargetOf[Mine(q)]] = job[q].action
<1> DEFINE Kept == (pc'[q] = pc[q] /\ job'[q] = job[q]) \/ pc'[q] \notin {"alias", "complete"}
<1>1. ASSUME NEW r \in Relayers,
             \/ Lookup(r) \/ Preflight(r) \/ PreflightFails(r) \/ BeginAlias(r)
             \/ SendFails(r) \/ ResolveAmbiguous(r) \/ Crash(r)
      PROVE  Kept
  BY <1>1, Zenon DEF Lookup, Preflight, PreflightFails, BeginAlias, SendFails, ResolveAmbiguous, Crash,
              Goto, Return, TypeOK
<1>2. ASSUME NEW r \in Relayers, AcquireBroadcastLease(r) \/ Complete(r)
      PROVE  Kept
  BY <1>2, Zenon DEF AcquireBroadcastLease, Complete, Goto, Return, TypeOK
<1>3. ASSUME NEW r \in Relayers, BeginSlot(r)
      PROVE  \/ Kept
             \/ /\ q = r /\ pc[q] = "begin" /\ pc'[q] = "alias" /\ job'[q] = job[q]
                /\ slot'[Mine(q)].phase # "absent" /\ slot'[Mine(q)].action = job[q].action
  <2>1. CASE Return(r) \/ q # r
    BY <1>3, <2>1 DEF BeginSlot, Goto, Return, TypeOK
  <2>2. CASE ~Return(r) /\ q = r
    <3>1. /\ pc[q] = "begin" /\ pc'[q] = "alias" /\ job'[q] = job[q]
          /\ ~BeginRefuses(q) /\ (slot' = slot \/ Claims(q))
          /\ slot[Mine(q)].phase # "absent" => slot' = slot
          /\ slot[Mine(q)].phase = "absent" => Claims(q)
      BY <1>3, <2>2, ZenonT(30) DEF BeginSlot, BeginRefuses, Claims, Goto, TypeOK
    <3>2. CASE slot[Mine(q)].phase # "absent"
      BY <2>2, <3>1, <3>2 DEF BeginRefuses, Matches
    <3>3. CASE slot[Mine(q)].phase = "absent"
      <4>1. slot'[Mine(q)] = [action |-> job[q].action, funding |-> job[q].funding,
                              phase |-> "prepared", claimed |-> now[q]]
        BY <3>1, <3>3, ClaimEffects, ZenonT(30)
      <4>2. slot'[Mine(q)].phase = "prepared" /\ slot'[Mine(q)].action = job[q].action
        BY <4>1
      <4> QED
        BY <2>2, <3>1, <4>2, Zenon
    <3> QED
      BY <3>2, <3>3, Zenon
  <2> QED
    BY <2>1, <2>2, Zenon
<1>4. ASSUME NEW r \in Relayers, Send(r)
      PROVE  Kept \/ (q = r /\ pc'[q] = "complete" /\ job'[q] = job[q] /\ job[q].action \in acked')
  BY <1>4, Zenon DEF Send, Goto, TypeOK
<1>5. ASSUME NEW r \in Relayers, ResolveRecordedIntent(r)
      PROVE  \/ Kept
             \/ /\ q = r /\ pc[q] = "resolve" /\ pc'[q] = "complete" /\ job'[q] = job[q]
                /\ head[TargetOf[Mine(q)]] = job[q].action
  BY <1>5, Zenon DEF ResolveRecordedIntent, Goto, TypeOK
<1>6. ASSUME NEW r \in Relayers, NEW k \in Keys, NEW a \in Actions,
             NEW f \in Fundings, Submit(r, k, a, f)
      PROVE  Kept
  BY <1>6 DEF Submit, Goto, TypeOK
<1>7. ASSUME (\E a \in Actions : ChainApply(a)) \/ Tick \/ UNCHANGED vars
      PROVE  Kept
  BY <1>7, Zenon DEF ChainApply, Tick, vars, local
<1> QED
  BY <1>1, <1>2, <1>3, <1>4, <1>5, <1>6, <1>7, Zenon DEF Next, Step

\* The chain's last action on an object is one it applied.
LEMMA HeadStep ==
  ASSUME TypeOK, EarnInv, [Next]_vars, NEW t \in Targets, head'[t] # None
  PROVE  head'[t] \in applied'
<1>1. ASSUME NEW a \in Actions, ChainApply(a)
      PROVE  head'[t] \in applied'
  BY <1>1, RelayAssumption, Zenon DEF ChainApply, TypeOK, EarnInv
<1>2. ASSUME head' = head
      PROVE  head'[t] \in applied'
  BY <1>2, HistoryGrows, Zenon DEF EarnInv
<1>3. ASSUME NEW r \in Relayers, Step(r) \/ Crash(r)
      PROVE  head' = head
  BY <1>3, ZenonT(30) DEF Step, Lookup, Preflight, PreflightFails, BeginSlot, BeginAlias,
              AcquireBroadcastLease, Send, SendFails, Complete, ResolveRecordedIntent,
              ResolveAmbiguous, Crash, chain
<1>4. ASSUME \/ Tick \/ UNCHANGED vars
             \/ \E r \in Relayers, k \in Keys, a \in Actions, f \in Fundings : Submit(r, k, a, f)
      PROVE  head' = head
  BY <1>4 DEF Tick, vars, Submit, chain
<1> QED
  BY <1>1, <1>2, <1>3, <1>4, Zenon DEF Next

\* Every step keeps the answers earned.
LEMMA EarnStep == PayInv /\ Owned /\ EarnInv /\ [Next]_vars => EarnInv'
<1> SUFFICES ASSUME PayInv, Owned, EarnInv, [Next]_vars
             PROVE  EarnInv'
  OBVIOUS
<1>0. TypeOK /\ JobOK /\ TypeOK' /\ JobOK' /\ Settled \subseteq Settled'
  BY TypeStep, HistoryGrows DEF PayInv, Settled
<1>1. \A t \in Targets : head'[t] # None => head'[t] \in applied'
  BY <1>0, HeadStep
<1>2. ASSUME NEW r \in Relayers, pc'[r] = "alias"
      PROVE  slot'[Mine(r)'].phase # "absent" /\ slot'[Mine(r)'].action = job'[r].action
  <2>1. job'[r] = job[r] /\ Mine(r)' = Mine(r)
    BY <1>0, <1>2, ArrivalSteps, Zenon DEF Mine
  <2>2. CASE pc[r] = "alias"
    <3>1. Mine(r) \in Slots
      BY <1>0, <2>2, MineIsSlot
    <3> QED
      BY <1>0, <2>1, <2>2, <3>1, SlotsStand, ZenonT(30) DEF EarnInv
  <2>3. CASE pc[r] # "alias"
    BY <1>0, <1>2, <2>1, <2>3, ArrivalSteps, Zenon
  <2> QED
    BY <2>2, <2>3, ZenonT(30)
<1>3. ASSUME NEW r \in Relayers, pc'[r] = "complete"
      PROVE  job'[r].action \in Settled'
  <2>1. /\ job'[r] = job[r]
        /\ \/ pc[r] = "complete"
           \/ job[r].action \in acked'
           \/ pc[r] = "resolve" /\ head[TargetOf[Mine(r)]] = job[r].action
    BY <1>0, <1>3, ArrivalSteps, Zenon
  <2>2. CASE pc[r] = "complete"
    BY <1>0, <2>1, <2>2, Zenon DEF EarnInv
  <2>3. CASE pc[r] = "resolve" /\ head[TargetOf[Mine(r)]] = job[r].action
    <3>1. Mine(r) \in Slots /\ job[r].action \in Actions
      BY <1>0, <2>3, MineIsSlot, Zenon
    <3>2. TargetOf[Mine(r)] \in Targets /\ job[r].action # None
      BY <3>1, RelayAssumption
    <3> QED
      BY <1>0, <2>1, <2>3, <3>2, Zenon DEF EarnInv, Settled
  <2> QED
    BY <2>1, <2>2, <2>3, Zenon DEF Settled
<1>4. ASSUME NEW s \in Slots, slot'[s].phase = "complete"
      PROVE  slot'[s].action \in Settled'
  <2>1. CASE slot' = slot
    BY <1>0, <1>4, <2>1, Zenon DEF EarnInv
  <2>2. ASSUME NEW r \in Relayers, Claims(r)
        PROVE  slot'[s].action \in Settled'
    <3>1. /\ slot'[Mine(r)] = [action |-> job[r].action, funding |-> job[r].funding,
                                phase |-> "prepared", claimed |-> now[r]]
          /\ \A q \in Slots : q # Mine(r) => slot'[q] = slot[q]
      BY <1>0, <2>2, ClaimEffects, Zenon
    <3>2. slot'[Mine(r)].phase = "prepared"
      BY <3>1
    <3> QED
      BY <1>0, <1>4, <3>1, <3>2, Zenon DEF EarnInv
  <2>3. ASSUME NEW r \in Relayers, Leases(r)
        PROVE  slot'[s].action \in Settled'
    BY <1>0, <1>4, <2>3, PhaseEffects, Zenon DEF EarnInv
  <2>4. ASSUME NEW r \in Relayers, Completes(r)
        PROVE  slot'[s].action \in Settled'
    <3>1. /\ slot'[Mine(r)].action = slot[Mine(r)].action
          /\ \A q \in Slots : q # Mine(r) => slot'[q] = slot[q]
      BY <1>0, <2>4, PhaseEffects
    <3>2. slot[Mine(r)].action \in Settled
      BY <2>4, Zenon DEF Completes, EarnInv
    <3> QED
      BY <1>0, <1>4, <3>1, <3>2, Zenon DEF EarnInv
  <2> QED
    BY <2>1, <2>2, <2>3, <2>4, SlotSteps, Zenon
<1>5. AnswersAreEarned'
  <2> SUFFICES ASSUME NEW x \in answered'
               PROVE  /\ slot'[SlotOf[x[2]]].phase = "complete"
                      /\ slot'[SlotOf[x[2]]].action = x[2]
                      /\ x[2] \in Settled'
    BY Zenon DEF AnswersAreEarned, Settled
  <2>1. SlotOf[x[2]] \in Slots
    BY <1>0, RelayAssumption DEF TypeOK
  <2>2. CASE x \in answered
    <3>1. slot[SlotOf[x[2]]].phase = "complete" /\ slot[SlotOf[x[2]]].action = x[2]
          /\ x[2] \in Settled
      BY <2>2 DEF EarnInv, AnswersAreEarned, Settled
    <3> QED
      BY <1>0, <2>1, <3>1, SlotsStand, ZenonT(30)
  <2>3. CASE x \notin answered
    <3>1. PICK r \in Relayers :
              /\ Mine(r) = SlotOf[job[r].action]
              /\ x = <<job[r].key, job[r].action>>
              /\ slot'[Mine(r)].phase = "complete"
              /\ slot'[Mine(r)].action = job[r].action
      BY <2>3, AnswerSteps, Zenon
    <3>2. x[2] = job[r].action
      BY <3>1
    <3> QED
      BY <2>1, <3>1, <3>2, <1>4, ZenonT(30)
  <2> QED
    BY <2>2, <2>3, Zenon
<1> QED
  BY <1>1, <1>2, <1>3, <1>4, <1>5, Zenon DEF EarnInv, Settled

\* Whoever was answered with an action's hash was told the truth: the slot is
\* complete for this action, and the sender acknowledged it or the chain has it.
THEOREM AnswersEarned == Spec => []AnswersAreEarned
<1>1. Init => EarnInv
  <2> SUFFICES ASSUME Init
               PROVE  EarnInv
    OBVIOUS
  <2>1. /\ \A t \in Targets : head[t] = None
        /\ \A r \in Relayers : pc[r] = "idle"
        /\ \A s \in Slots : slot[s].phase = "absent"
        /\ answered = {}
    BY DEF Init, NoSlot
  <2> QED
    BY <2>1, Zenon DEF EarnInv, AnswersAreEarned
<1>2. EarnInv => AnswersAreEarned
  BY Zenon DEF EarnInv
<1> QED
  BY <1>1, <1>2, EarnStep, OwnedInvariant, PTL DEF Spec

-----------------------------------------------------------------------------
(* The budget.                                                             *)

\* The limits hold of a set of slots, for the wallet and for every target.
WithinLimits(S) ==
  /\ Cardinality(S) <= MaxActionsPerWallet
  /\ FundingOf(S) <= MaxFundingPerWallet
  /\ \A x \in Targets :
       /\ Cardinality(OnTarget(S, x)) <= MaxActionsPerTarget
       /\ FundingOf(OnTarget(S, x)) <= MaxFundingPerTarget

\* What the counts and sums of a set of slots are when a claim is added to them.
LEMMA AddClaim ==
  ASSUME TypeOK, TypeOK', NEW C \in SUBSET Slots, NEW D \in SUBSET C, NEW m \in Slots \ C,
         \A s \in Slots \ {m} : slot'[s] = slot[s]
  PROVE  /\ Cardinality(D \cup {m}) <= Cardinality(C) + 1
         /\ FundingOf(D \cup {m})' <= FundingOf(C) + slot'[m].funding
         /\ Cardinality(D) <= Cardinality(C)
         /\ FundingOf(D)' <= FundingOf(C)
         /\ Cardinality(C) \in Nat /\ FundingOf(C) \in Nat
<1>1. IsFiniteSet(Slots) /\ IsFiniteSet(C) /\ IsFiniteSet(D)
  BY RelayAssumption, FS_Subset, Zenon
<1>2. /\ Cardinality(D \cup {m}) = Cardinality(D) + 1
      /\ Cardinality(D) <= Cardinality(C)
      /\ Cardinality(C) \in Nat /\ Cardinality(D) \in Nat
  BY <1>1, FS_AddElement, FS_Subset, FS_CardinalityType
<1> DEFINE f == [s \in Slots |-> slot[s].funding]
           g == [s \in Slots |-> slot'[s].funding]
<1>3. f \in [Slots -> Nat] /\ g \in [Slots -> Nat] /\ \A s \in C : f[s] = g[s]
  BY Zenon DEF TypeOK, SlotRecord
<1>4. /\ SumFunctionOnSet(f, D) = SumFunctionOnSet(g, D)
      /\ SumFunctionOnSet(g, D \cup {m}) = g[m] + SumFunctionOnSet(g, D)
      /\ SumFunctionOnSet(f, D) \in Nat
      /\ SumFunctionOnSet(f, D) <= SumFunctionOnSet(f, C)
      /\ SumFunctionOnSet(f, C) \in Nat
  <2> HIDE DEF f, g
  <2>1. f \in [Slots -> Int] /\ g \in [Slots -> Int]
    BY <1>3
  <2>2. SumFunctionOnSet(f, D) = SumFunctionOnSet(g, D)
    BY <1>1, <1>3, <2>1, SumAgree
  <2>3. SumFunctionOnSet(g, D \cup {m}) = g[m] + SumFunctionOnSet(g, D)
    BY <1>1, <2>1, SumAdd
  <2>4. SumFunctionOnSet(f, D) \in Nat /\ SumFunctionOnSet(f, D) <= SumFunctionOnSet(f, C)
    BY <1>1, <1>3, SumMonotone, Zenon
  <2>5. SumFunctionOnSet(f, C) \in Nat
    BY <1>1, <1>3, SumMonotone, Zenon
  <2> QED
    BY <2>2, <2>3, <2>4, <2>5, Zenon
<1>5. g[m] = slot'[m].funding /\ g[m] \in Nat
  BY <1>3, Zenon
<1> HIDE DEF f, g
<1>6. /\ FundingOf(D \cup {m})' = SumFunctionOnSet(g, D \cup {m})
      /\ FundingOf(D)' = SumFunctionOnSet(g, D)
      /\ FundingOf(C) = SumFunctionOnSet(f, C)
  BY DEF FundingOf, f, g
<1> QED
  BY SMTT(30), <1>2, <1>4, <1>5, <1>6

\* The funding of a set of slots is a number.
LEMMA FundingType ==
  ASSUME TypeOK', NEW C \in SUBSET Slots
  PROVE  FundingOf(C)' \in Nat /\ Cardinality(C) \in Nat /\ IsFiniteSet(C)
<1> DEFINE g == [s \in Slots |-> slot'[s].funding]
<1>1. g \in [Slots -> Nat]
  BY DEF TypeOK, SlotRecord
<1>2. SumFunctionOnSet(g, C) \in Nat
  <2> HIDE DEF g
  <2> QED
    BY <1>1, RelayAssumption, SumMonotone
<1>3. Cardinality(C) \in Nat /\ IsFiniteSet(C)
  BY RelayAssumption, FS_Subset, FS_CardinalityType, Zenon
<1> QED
  BY <1>2, <1>3, Zenon DEF FundingOf

\* Nothing of a window changes when only phases do.
LEMMA SameClaims ==
  ASSUME TypeOK, TypeOK', NEW C \in SUBSET Slots, \A s \in C : slot'[s].funding = slot[s].funding
  PROVE  FundingOf(C)' = FundingOf(C)
<1> DEFINE f == [s \in Slots |-> slot[s].funding]
           g == [s \in Slots |-> slot'[s].funding]
<1>1. f \in [Slots -> Int] /\ g \in [Slots -> Int] /\ \A s \in C : f[s] = g[s]
  BY DEF TypeOK, SlotRecord
<1>0. IsFiniteSet(Slots) /\ C \subseteq Slots
  BY RelayAssumption, Zenon
<1>2. SumFunctionOnSet(f, C) = SumFunctionOnSet(g, C)
  <2> HIDE DEF f, g
  <2> QED
    BY <1>0, <1>1, SumAgree
<1> QED
  BY <1>2, Zenon DEF FundingOf

\* A step that makes no claim leaves every window as it is.
LEMMA NoClaimStep ==
  ASSUME TypeOK, TypeOK', NEW t \in 0 .. MaxTime, WithinLimits(InWindow(t)),
         InWindow(t)' = InWindow(t),
         \A s \in InWindow(t) : slot'[s].funding = slot[s].funding
  PROVE  WithinLimits(InWindow(t))'
<1> DEFINE W == InWindow(t)
<1>1. W \in SUBSET Slots /\ \A x \in Targets : OnTarget(W, x) \in SUBSET W
  BY DEF InWindow, OnTarget
<1>2. FundingOf(W)' = FundingOf(W)
  BY <1>1, SameClaims, Zenon
<1>3. ASSUME NEW x \in Targets
      PROVE  FundingOf(OnTarget(W, x))' = FundingOf(OnTarget(W, x)) /\ OnTarget(W, x)' = OnTarget(W, x)
  <2>1. OnTarget(W, x)' = OnTarget(W, x)
    BY Zenon DEF OnTarget
  <2> DEFINE V == OnTarget(W, x)
  <2>2. ASSUME NEW C, C = V
        PROVE  FundingOf(C)' = FundingOf(C)
    BY <1>1, <2>2, SameClaims, Zenon
  <2>3. V' = V
    BY <2>1, Zenon
  <2> HIDE DEF V
  <2>4. FundingOf(V)' = FundingOf(V)
    BY <2>2, <2>3, Zenon DEF FundingOf
  <2> QED
    BY <2>1, <2>4 DEF V
<1> QED
  BY <1>2, <1>3, Zenon DEF WithinLimits

\* A claim joins the windows that hold its time. What else they hold was counted
\* by EnforceSpendLimits, since a window that reaches the claim begins no more
\* than Window before it.
LEMMA ClaimStep ==
  ASSUME PayInv, TypeOK', NEW r \in Relayers, Claims(r),
         NEW t \in 0 .. MaxTime, WithinLimits(InWindow(t))
  PROVE  WithinLimits(InWindow(t))'
<1>a. PICK m, W, P : m = Mine(r) /\ W = InWindow(t) /\ P = Counted(r)
  OBVIOUS
<1>1. /\ m \in Slots /\ job[r].funding \in Nat /\ now[r] \in Nat
      /\ slot'[m] = [action |-> job[r].action, funding |-> job[r].funding,
                     phase |-> "prepared", claimed |-> now[r]]
      /\ \A s \in Slots : s # m => slot'[s] = slot[s]
      /\ slot[m].phase = "absent"
  BY <1>a, ClaimEffects, Zenon DEF PayInv, Claims, TypeOK
<1>2. slot'[m].phase # "absent" /\ slot'[m].claimed = now[r] /\ slot'[m].funding = job[r].funding
  <2>1. slot'[m] = [action |-> job[r].action, funding |-> job[r].funding,
                    phase |-> "prepared", claimed |-> now[r]]
    BY <1>1, Zenon
  <2> QED
    BY <2>1
<1>3. W \in SUBSET Slots /\ m \notin W /\ P \in SUBSET Slots /\ m \notin P
  BY <1>a, <1>1, Zenon DEF InWindow, Counted
<1>4. CASE now[r] \notin t .. (t + Window)
  <2>1. InWindow(t)' = W
    BY <1>a, <1>1, <1>2, <1>4, Zenon DEF InWindow
  <2>2. \A s \in W : slot'[s].funding = slot[s].funding
    BY <1>1, <1>3, Zenon
  <2> QED
    BY <1>a, <2>1, <2>2, NoClaimStep, Zenon DEF PayInv
<1>5. CASE now[r] \in t .. (t + Window)
  <2>1. InWindow(t)' = W \cup {m}
    BY <1>a, <1>1, <1>2, <1>5, Zenon DEF InWindow
  <2>2. W \in SUBSET P
    <3> SUFFICES ASSUME NEW s \in W
                 PROVE  s \in P
      OBVIOUS
    <3>1. s \in Slots /\ slot[s].phase # "absent" /\ slot[s].claimed \in t .. (t + Window)
      BY <1>a, Zenon DEF InWindow
    <3>2. slot[s].claimed \in Nat /\ now[r] \in Nat /\ Window \in Nat /\ MaxTime \in Nat
      BY <1>1, <3>1, SlotTypes, RelayAssumption, Zenon DEF PayInv
    <3>3. slot[s].claimed >= now[r] - Window
      BY <1>5, <3>1, <3>2
    <3> QED
      BY <1>a, <3>1, <3>3 DEF Counted
  <2>3. /\ Cardinality(P) < MaxActionsPerWallet
        /\ FundingOf(P) <= MaxFundingPerWallet - job[r].funding
        /\ Cardinality(OnTarget(P, TargetOf[m])) < MaxActionsPerTarget
        /\ FundingOf(OnTarget(P, TargetOf[m])) <= MaxFundingPerTarget - job[r].funding
    BY <1>a, Zenon DEF Claims, EnforceSpendLimits
  <2>4. ASSUME NEW C \in SUBSET Slots, NEW D \in SUBSET C, m \notin C,
               NEW n \in Nat, NEW b \in Nat,
               Cardinality(C) < n, FundingOf(C) <= b - job[r].funding
        PROVE  Cardinality(D \cup {m}) <= n /\ FundingOf(D \cup {m})' <= b
    <3>1. /\ Cardinality(D \cup {m}) <= Cardinality(C) + 1
          /\ FundingOf(D \cup {m})' <= FundingOf(C) + slot'[m].funding
          /\ Cardinality(C) \in Nat /\ FundingOf(C) \in Nat
      BY <1>1, <2>4, AddClaim, Zenon DEF PayInv
    <3>2. Cardinality(D \cup {m}) \in Nat /\ FundingOf(D \cup {m})' \in Nat
      BY <1>1, <2>4, FundingType, Zenon
    <3>3. job[r].funding \in Nat /\ slot'[m].funding = job[r].funding
      BY <1>1, <1>2, Zenon
    <3>4. Cardinality(C) < n /\ FundingOf(C) <= b - job[r].funding
      BY <2>4, Zenon
    <3> QED
      BY <3>1, <3>2, <3>3, <3>4
  <2>5. Cardinality(W \cup {m}) <= MaxActionsPerWallet /\ FundingOf(W \cup {m})' <= MaxFundingPerWallet
    BY <1>3, <2>2, <2>3, <2>4, RelayAssumption, Zenon
  <2>6. ASSUME NEW x \in Targets
        PROVE  /\ Cardinality(OnTarget(W \cup {m}, x)) <= MaxActionsPerTarget
               /\ FundingOf(OnTarget(W \cup {m}, x))' <= MaxFundingPerTarget
    <3>1. CASE x = TargetOf[m]
      <4>1. /\ OnTarget(W \cup {m}, x) = OnTarget(W, x) \cup {m}
            /\ OnTarget(W, x) \in SUBSET OnTarget(P, x)
            /\ OnTarget(P, x) \in SUBSET Slots /\ m \notin OnTarget(P, x)
        BY <1>1, <1>3, <2>2, <3>1, Zenon DEF OnTarget
      <4>2. Cardinality(OnTarget(P, x)) < MaxActionsPerTarget /\ FundingOf(OnTarget(P, x)) <= MaxFundingPerTarget - job[r].funding
        BY <2>3, <3>1, Zenon
      <4>3. PICK C, D : C = OnTarget(P, x) /\ D = OnTarget(W, x)
        OBVIOUS
      <4>4. Cardinality(D \cup {m}) <= MaxActionsPerTarget /\ FundingOf(D \cup {m})' <= MaxFundingPerTarget
        BY <2>4, <4>1, <4>2, <4>3, RelayAssumption, Zenon
      <4> QED
        BY <4>1, <4>3, <4>4, Zenon
    <3>2. CASE x # TargetOf[m]
      <4>1. OnTarget(W \cup {m}, x) = OnTarget(W, x) /\ OnTarget(W, x) \in SUBSET Slots
            /\ \A s \in OnTarget(W, x) : slot'[s] = slot[s]
        BY <1>1, <1>3, <3>2, Zenon DEF OnTarget
      <4>2. PICK D : D = OnTarget(W, x)
        OBVIOUS
      <4>3. FundingOf(D)' = FundingOf(D)
        BY <4>1, <4>2, SameClaims, Zenon DEF PayInv
      <4>4. Cardinality(D) <= MaxActionsPerTarget /\ FundingOf(D) <= MaxFundingPerTarget
        BY <1>a, <4>2 DEF WithinLimits
      <4> QED
        BY <4>1, <4>2, <4>3, <4>4, Zenon
    <3> QED
      BY <3>1, <3>2, Zenon
  <2> QED
    BY <2>1, <2>5, <2>6 DEF WithinLimits
<1> QED
  BY <1>4, <1>5, Zenon

\* Every step respects the budget.
LEMMA BudgetStep == PayInv /\ BudgetRespected /\ [Next]_vars => BudgetRespected'
<1> SUFFICES ASSUME PayInv, BudgetRespected, [Next]_vars, NEW t \in 0 .. MaxTime
             PROVE  WithinLimits(InWindow(t))'
  BY DEF BudgetRespected, WithinLimits
<1>1. TypeOK /\ JobOK /\ TypeOK' /\ WithinLimits(InWindow(t))
  BY TypeStep DEF PayInv, BudgetRespected, WithinLimits
<1>2. ASSUME NEW r \in Relayers, Claims(r)
      PROVE  WithinLimits(InWindow(t))'
  BY <1>1, <1>2, ClaimStep, Zenon
<1>3. ASSUME ~ \E r \in Relayers : Claims(r)
      PROVE  WithinLimits(InWindow(t))'
  <2>1. ASSUME NEW s \in Slots
        PROVE  /\ slot'[s].phase = "absent" <=> slot[s].phase = "absent"
               /\ slot'[s].claimed = slot[s].claimed
               /\ slot'[s].funding = slot[s].funding
    <3>1. CASE slot' = slot
      BY <3>1
    <3>2. ASSUME NEW r \in Relayers, Leases(r) \/ Completes(r)
          PROVE  /\ slot'[s].phase = "absent" <=> slot[s].phase = "absent"
                 /\ slot'[s].claimed = slot[s].claimed
                 /\ slot'[s].funding = slot[s].funding
      BY <1>1, <3>2, PhaseEffects, Zenon
    <3> QED
      BY <1>3, <3>1, <3>2, SlotSteps, Zenon
  <2>2. InWindow(t)' = InWindow(t) /\ \A s \in InWindow(t) : slot'[s].funding = slot[s].funding
    BY <2>1 DEF InWindow
  <2> QED
    BY <1>1, <2>2, NoClaimStep
<1> QED
  BY <1>2, <1>3, Zenon

\* The limits of enforceSpendLimits hold of every window of claim times, for any
\* wallet and any limits, although each relayer reads the clock before it takes
\* the lock and may claim with a stale time.
THEOREM BudgetKept == Spec => []BudgetRespected
<1>1. Init => BudgetRespected
  <2> SUFFICES ASSUME Init, NEW t \in 0 .. MaxTime
               PROVE  WithinLimits(InWindow(t))
    BY DEF BudgetRespected, WithinLimits
  <2>1. InWindow(t) = {} /\ \A x \in Targets : OnTarget({}, x) = {}
    <3>1. \A s \in Slots : slot[s].phase = "absent"
      BY DEF Init, NoSlot
    <3> QED
      BY <3>1, Zenon DEF InWindow, OnTarget
  <2>2. FundingOf({}) = 0
    <3> DEFINE f == [s \in Slots |-> slot[s].funding]
    <3>1. f \in [Slots -> Int]
      BY DEF Init, NoSlot
    <3>2. SumFunctionOnSet(f, {}) = 0
      <4> HIDE DEF f
      <4> QED
        BY <3>1, RelayAssumption, SumEmpty
    <3> QED
      BY <3>2, Zenon DEF FundingOf
  <2>3. Cardinality({}) = 0
    BY FS_EmptySet
  <2>4. /\ 0 <= MaxActionsPerWallet /\ 0 <= MaxFundingPerWallet
        /\ 0 <= MaxActionsPerTarget /\ 0 <= MaxFundingPerTarget
    BY RelayAssumption
  <2>5. WithinLimits({})
    BY <2>1, <2>2, <2>3, <2>4 DEF WithinLimits
  <2> QED
    BY <2>1, <2>5, Zenon
<1> QED
  BY <1>1, BudgetStep, PayInvariant, PTL DEF Spec
=============================================================================
