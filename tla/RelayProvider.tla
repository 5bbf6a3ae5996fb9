---------------------------- MODULE RelayProvider ----------------------------
(***************************************************************************)
(* The agent relay provider (pkg/agentrelay/service.go) serving Submit and *)
(* Resolve for one admitted action, from several processes that share the  *)
(* journal. A call works on the record it last got back (mine) and writes  *)
(* with that record's revision; between two calls to the journal, to the   *)
(* sponsorship processor or to the broadcaster the others run, and the     *)
(* process may die. The processor, the broadcaster and the chain are       *)
(* external: the provider's top-up and the client's transaction are sent,  *)
(* seen in a block, and final, or expire.                                  *)
(***************************************************************************)
EXTENDS RelayRecord

CONSTANTS Servers,
          Offers,         \* the terms a quote may have
          Deployments,    \* the sets of processes that may serve the action
          StartNotAfter,  \* of the admission receipt
          TopUpUntil,     \* expiry of the provider's payment
          ExpiresAt,      \* first of the deadlines of the signed request
          Margin,         \* finality and inclusion window a side effect needs
          MaxTime, MaxRevision, MaxReorgs

ASSUME ProviderAssumption ==
  /\ {StartNotAfter, TopUpUntil, ExpiresAt, Margin, MaxTime, MaxRevision, MaxReorgs} \subseteq Nat
  /\ TopUpUntil <= ExpiresAt
  /\ Offers \subseteq Terms /\ Deployments \subseteq SUBSET Servers

VARIABLES
  serving,   \* the processes that serve the action
  record,    \* the journal's record of the action
  released,  \* exposureReleased of its quote reservation
  pc, mine, answer,
  topup, transaction,  \* on the chain
  paid,      \* payments the processor was told to make
  written,   \* SubmitExact was called: the bytes may be out
  reorgs, clock

chain == <<topup, transaction, reorgs>>
local == <<pc, mine, answer>>
moving == <<record, released, local, chain, paid, written, clock>>
vars == <<terms, serving, moving>>

NoAnswer == [from |-> "none", is |-> "none", value |-> 0]

Init ==
  /\ terms \in Offers /\ serving \in Deployments
  /\ record = NoRecord /\ released = FALSE
  /\ pc = [p \in Servers |-> "idle"]
  /\ mine = [p \in Servers |-> NoRecord]
  /\ answer = [p \in Servers |-> NoAnswer]
  /\ topup = "none" /\ transaction = "none" /\ reorgs = 0
  /\ paid = {} /\ written = FALSE /\ clock = 0

------------------------------------------------------------------------------
RemainingValidity == clock + Margin < ExpiresAt
RelaySignedWindowExpired == clock >= ExpiresAt

Go(p, label, r, a) ==
  /\ pc' = [pc EXCEPT ![p] = label]
  /\ mine' = [mine EXCEPT ![p] = r]
  /\ answer' = [answer EXCEPT ![p] = a]

Return(p) == Go(p, "idle", NoRecord, NoAnswer)

\* A journal call: it stores new and the call goes on at label, or it
\* refuses and the call returns its error.
Write(p, can, new, label) ==
  IF can
  THEN /\ record' = new
       /\ released' = (released \/ ReleasesExposure(new))
       /\ IF label = "idle" THEN Return(p) ELSE Go(p, label, new, NoAnswer)
  ELSE Return(p) /\ UNCHANGED <<record, released>>

TransitionTo(p, target, reference, evidence, outcome, label) ==
  Write(p, CanTransition(record, mine[p].revision, target, evidence, outcome),
        Transition(record, target, reference, evidence, outcome), label)

SponsorshipOnlyOutcomeForEvidence ==
  Outcome("sponsorship_only",
          IF SponsorClass = "corroborated" THEN "corroborated" ELSE "finalized")

TerminalizeSponsorshipOnly(p) ==
  IF mine[p].transfer /\ mine[p].evidence # {}
  THEN TransitionTo(p, "terminal", "topup", mine[p].evidence,
                    SponsorshipOnlyOutcomeForEvidence, "idle")
  ELSE Return(p) /\ UNCHANGED <<record, released>>

RejectPrepared(p) == TransitionTo(p, "rejected", "none", mine[p].evidence, NoOutcome, "idle")

------------------------------------------------------------------------------
(***************************************************************************)
(* Submit.                                                                 *)
(***************************************************************************)
AfterAdmission == IF Mode = "relay_exact" THEN "submit" ELSE "sponsor"

Admit(p) ==
  /\ pc[p] = "idle" /\ record = NoRecord
  /\ clock < StartNotAfter /\ RemainingValidity
  /\ record' = NewPreparedRecord
  /\ Go(p, AfterAdmission, NewPreparedRecord, NoAnswer)
  /\ UNCHANGED <<released, chain, paid, written, clock>>

Ask(asker) == [NoAnswer EXCEPT !.from = asker]

SubmitAgain(p) ==
  /\ pc[p] = "idle" /\ record.state = "prepared"
  /\ IF record.attempted /\ RelaySignedWindowExpired
     THEN Go(p, "query", record, Ask("attempted"))
     ELSE RemainingValidity /\ Go(p, AfterAdmission, record, NoAnswer)
  /\ UNCHANGED <<record, released, chain, paid, written, clock>>

\* Mutant: the payment is made before it is checkpointed.
SubmitSponsorshipUnrecorded(p) ==
  /\ pc[p] = "sponsor" /\ RemainingValidity
  /\ \E h \in Handles : Go(p, "ensure", [mine[p] EXCEPT !.handle = h], NoAnswer)
  /\ UNCHANGED <<record, released, chain, paid, written, clock>>

\* The branch on what the record holds of the top-up, and BeginSponsorship
\* for the payment PrepareRecovery returns.
SubmitSponsorship(p) ==
  LET r == mine[p] IN
  /\ pc[p] = "sponsor"
  /\ CASE ~r.transfer /\ r.observed # 0 ->
            /\ Go(p, IF Mode = "sponsor_only" THEN "observed" ELSE "ready", r, NoAnswer)
            /\ UNCHANGED <<record, released>>
       [] ~r.transfer /\ r.observed = 0 /\ ~r.sponsorshipAbsent ->
            IF ~RemainingValidity THEN RejectPrepared(p)
            ELSE IF r.attempted
            THEN Go(p, "ensure", r, NoAnswer) /\ UNCHANGED <<record, released>>
            ELSE \E h \in Handles :
                   Write(p, CanBeginSponsorship(record, r.revision, h,
                                                clock + Margin < TopUpUntil),
                         BeginSponsorship(record, h), "ensure")
       [] OTHER ->
            /\ Go(p, IF Mode = "sponsor_only" THEN "terminate" ELSE "ready", r, NoAnswer)
            /\ UNCHANGED <<record, released>>
  /\ UNCHANGED <<chain, paid, written, clock>>

\* EnsureFinalized pays unless it finds the payment made.
EnsureFinalized(p) ==
  /\ pc[p] = "ensure"
  /\ paid' = paid \cup {mine[p].handle}
  /\ topup' = IF topup = "none" /\ clock < TopUpUntil THEN "sent" ELSE topup
  /\ Go(p, "query", mine[p], Ask("submit"))
  /\ UNCHANGED <<record, released, transaction, reorgs, written, clock>>

\* What the processor may answer, as validateSponsorshipResolution lets it.
TopUpAbsent == clock >= TopUpUntil /\ topup \in {"none", "sent"}
TransactionAbsent == clock >= ExpiresAt /\ transaction \in {"none", "sent"}
Resolutions ==
  {<<"unknown", 0>>} \cup
  (IF SponsorClass = "corroborated" /\ topup \in {"seen", "final"}
   THEN {"observed"} \X (1 .. MaxObservation) ELSE {}) \cup
  (IF topup = "final" THEN {<<"transfer", 0>>} ELSE {}) \cup
  (IF TopUpAbsent THEN {<<"absent", 0>>} ELSE {}) \cup
  (IF Mode = "sponsor_and_relay" /\ TopUpAbsent /\ TransactionAbsent
   THEN {<<"both absent", 0>>} ELSE {})

ResolveFinalized(p) ==
  /\ pc[p] = "query"
  /\ \E res \in Resolutions :
       IF res[1] = "unknown"
       THEN IF answer[p].from = "observed" /\ Mode = "sponsor_and_relay"
            THEN Go(p, "chain", mine[p], NoAnswer)
            ELSE Return(p)
       ELSE Go(p, "apply", mine[p],
               [from |-> answer[p].from, is |-> res[1], value |-> res[2]])
  /\ UNCHANGED <<record, released, chain, paid, written, clock>>

AllValidator == SponsorClass = "validator" /\ RelayClass = "validator"
By(validator) == IF validator THEN "finalized" ELSE "corroborated"

\* The journal write for the processor's answer. Submit goes on from it;
\* resolveObservedSponsorship returns to Resolve, which queries the chain.
ApplyResolution(p) ==
  LET r == mine[p]
      from == answer[p].from
      goOn(submit, attempted, sponsorOnly) ==
        CASE from = "submit" -> IF Mode = "sponsor_only" THEN sponsorOnly ELSE submit
          [] from = "attempted" -> attempted
          [] OTHER -> IF Mode = "sponsor_only" THEN attempted ELSE "chain"
  IN
  /\ pc[p] = "apply"
  /\ CASE answer[p].is = "observed" ->
            Write(p, CanRecordObservation(record, r.revision, r.handle, answer[p].value),
                  RecordObservation(record, answer[p].value),
                  goOn("ready", "idle", "observed"))
       [] answer[p].is = "transfer" ->
            Write(p, CanRecordSponsorship(record, r.revision, r.handle),
                  RecordSponsorship(record), goOn("ready", "terminate", "terminate"))
       [] OTHER ->
            LET both == answer[p].is = "both absent"
                outcome == IF Mode = "sponsor_and_relay" /\ ~both THEN NoOutcome
                           ELSE Outcome("absence", By(SponsorClass = "validator"
                                                      /\ (both => AllValidator)))
            IN Write(p, CanRecordAbsence(record, r.revision, outcome, TRUE, both),
                     RecordAbsence(record, outcome, TRUE, both),
                     goOn("idle", "idle", "idle"))
  /\ UNCHANGED <<chain, paid, written, clock>>

\* A sponsor-only action with an observed credit becomes SUBMITTED.
SubmitObserved(p) ==
  /\ pc[p] = "observed"
  /\ TransitionTo(p, "submitted", "none", {}, NoOutcome, "idle")
  /\ UNCHANGED <<chain, paid, written, clock>>

SubmitTerminal(p) ==
  /\ pc[p] = "terminate"
  /\ TransitionTo(p, "terminal", "topup", mine[p].evidence,
                  SponsorshipOnlyOutcomeForEvidence, "idle")
  /\ UNCHANGED <<chain, paid, written, clock>>

\* The authorization and chain-state checks before a combined broadcast.
SubmitReady(p) ==
  /\ pc[p] = "ready"
  /\ \E verified \in BOOLEAN :
       IF verified /\ RemainingValidity
       THEN Go(p, "submit", mine[p], NoAnswer) /\ UNCHANGED <<record, released>>
       ELSE TerminalizeSponsorshipOnly(p)
  /\ UNCHANGED <<chain, paid, written, clock>>

SubmitSubmitted(p) ==
  /\ pc[p] = "submit"
  /\ IF RemainingValidity
     THEN TransitionTo(p, "submitted", "none", mine[p].evidence, NoOutcome, "send")
     ELSE IF mine[p].transfer THEN TerminalizeSponsorshipOnly(p)
     ELSE IF mine[p].observed # 0 THEN Return(p) /\ UNCHANGED <<record, released>>
     ELSE RejectPrepared(p)
  /\ UNCHANGED <<chain, paid, written, clock>>

\* One write attempt: the bytes may be lost, and so may the answer.
SubmitExact(p) ==
  /\ pc[p] = "send"
  /\ written' = TRUE
  /\ \E arrives \in BOOLEAN :
       transaction' = IF arrives /\ transaction = "none" THEN "sent" ELSE transaction
  /\ Return(p) \/ Go(p, "accept", mine[p], NoAnswer)
  /\ UNCHANGED <<record, released, topup, reorgs, paid, clock>>

SubmitAccepted(p) ==
  /\ pc[p] = "accept"
  /\ TransitionTo(p, "accepted", "transaction", mine[p].evidence, NoOutcome, "idle")
  /\ UNCHANGED <<chain, paid, written, clock>>

------------------------------------------------------------------------------
(***************************************************************************)
(* Resolve.                                                                *)
(***************************************************************************)
\* Mutant: after the window closed an attempted payment is not looked up.
ResolveWithoutQuery(p) ==
  /\ pc[p] = "idle" /\ record.state \in Open
  /\ IF record.state = "prepared"
     THEN RelaySignedWindowExpired /\ Go(p, "reject", record, NoAnswer)
     ELSE Go(p, "chain", record, NoAnswer)
  /\ UNCHANGED <<record, released, chain, paid, written, clock>>

Resolve(p) ==
  LET pending == Mode = "sponsor_and_relay" /\ record.sponsorshipAbsent
                 /\ ~record.transfer /\ ~record.transactionAbsent
                 /\ record.outcome = NoOutcome
  IN
  /\ pc[p] = "idle" /\ record.state \in Open
  /\ IF record.state = "prepared" /\ ~pending
     THEN /\ RelaySignedWindowExpired
          /\ CASE record.transfer -> Go(p, "terminate", record, NoAnswer)
               [] record.attempted /\ ~record.transfer ->
                    Go(p, "query", record, Ask("attempted"))
               [] OTHER -> Go(p, "reject", record, NoAnswer)
     ELSE IF record.attempted /\ record.observed # 0
     THEN Go(p, "query", record, Ask("observed"))
     ELSE Go(p, "chain", record, NoAnswer)
  /\ UNCHANGED <<record, released, chain, paid, written, clock>>

ResolveRejected(p) ==
  /\ pc[p] = "reject"
  /\ TransitionTo(p, "rejected", "none", {}, NoOutcome, "idle")
  /\ UNCHANGED <<chain, paid, written, clock>>

\* Broadcaster.Resolve. It knows no sponsor-only action and fails for one.
ChainResolutions ==
  {"none", "rejected"} \cup
  (IF transaction = "final" THEN {"finalized", By(RelayClass = "validator")} ELSE {}) \cup
  (IF transaction = "seen" THEN {"accepted"} ELSE {}) \cup
  (IF transaction \in {"none", "sent"} THEN {"submitted"} ELSE {}) \cup
  (IF transaction \in {"none", "sent"} /\ clock < ExpiresAt THEN {"safe"} ELSE {}) \cup
  (IF TransactionAbsent THEN {"absent"} ELSE {})

QueryChain(p) ==
  /\ pc[p] = "chain"
  /\ \E a \in IF Mode = "sponsor_only" THEN {"none"} ELSE ChainResolutions :
       /\ a = "submitted" => record.revision < MaxRevision
       /\ IF a = "none" THEN Return(p)
          ELSE Go(p, "chained", mine[p], [from |-> "chain", is |-> a, value |-> 0])
  /\ UNCHANGED <<record, released, chain, paid, written, clock>>

RelayOutcomeForSelectedEvidence(what, by, transfer) ==
  Outcome(what, IF SelectedTerminalUsesCorroboration(transfer) THEN "corroborated" ELSE by)

Merge(r, kind) == r.evidence \cup {kind}

\* The chain says the transaction can no longer execute.
ResolveAbsent(p) ==
  LET r == mine[p] IN
  /\ pc[p] = "chained" /\ answer[p].is = "absent"
  /\ IF r.sponsorshipAbsent /\ ~r.transfer /\ ~r.transactionAbsent /\ r.outcome = NoOutcome
     THEN \* ResolveRelayDualAbsence
          \/ Return(p) /\ UNCHANGED <<record, released>>
          \/ LET outcome == Outcome("absence", By(AllValidator)) IN
             Write(p, CanRecordAbsence(record, r.revision, outcome, TRUE, TRUE),
                   RecordAbsence(record, outcome, TRUE, TRUE), "idle")
     ELSE IF Mode = "sponsor_and_relay" /\ r.transfer
     THEN \* ResolveRelayTransactionAbsence
          \/ Return(p) /\ UNCHANGED <<record, released>>
          \/ LET outcome == Outcome("sponsorship_only", By(AllValidator)) IN
             Write(p, CanRecordAbsence(record, r.revision, outcome, FALSE, TRUE),
                   RecordAbsence(record, outcome, FALSE, TRUE), "idle")
     ELSE IF r.attempted /\ r.observed # 0
     THEN Return(p) /\ UNCHANGED <<record, released>>
     ELSE TransitionTo(p, "terminal", "none", Merge(r, "transaction absence"),
                       RelayOutcomeForSelectedEvidence("absence", "finalized", FALSE), "idle")
  /\ UNCHANGED <<chain, paid, written, clock>>

ResolveSuccess(p) ==
  LET r == mine[p]
      by == answer[p].is
      outcome == CASE r.sponsorshipAbsent /\ ~r.transfer ->
                        Outcome("relay_only", By(AllValidator))
                   [] r.transfer /\ by = "corroborated" -> Outcome("success", by)
                   [] OTHER -> RelayOutcomeForSelectedEvidence("success", by, r.transfer)
  IN
  /\ pc[p] = "chained" /\ by \in {"finalized", "corroborated"}
  /\ IF r.attempted /\ r.observed # 0
     THEN Return(p) /\ UNCHANGED <<record, released>>
     ELSE TransitionTo(p, "terminal", "transaction", Merge(r, "transaction"), outcome, "idle")
  /\ UNCHANGED <<chain, paid, written, clock>>

\* The chain shows the transaction, lost it again, or refused it. A refusal
\* after SUBMITTED proves nothing.
ResolveTentative(p) ==
  LET r == mine[p]
      state == answer[p].is
      reference == IF state = "accepted" THEN "transaction" ELSE "none"
  IN
  /\ pc[p] = "chained" /\ state \in {"accepted", "submitted", "rejected"}
  /\ IF \/ state = "rejected" /\ r.state \in {"submitted", "accepted"}
        \/ state = r.state /\ reference = r.reference
     THEN Return(p) /\ UNCHANGED <<record, released>>
     ELSE TransitionTo(p, state, reference, r.evidence, NoOutcome, "idle")
  /\ UNCHANGED <<chain, paid, written, clock>>

\* SafeToRebroadcastExact, and the checks before the bytes go out again.
ResolveRebroadcast(p) ==
  /\ pc[p] = "chained" /\ answer[p].is = "safe"
  /\ \E verified \in BOOLEAN :
       IF verified /\ RemainingValidity THEN Go(p, "send", mine[p], NoAnswer)
       ELSE Return(p)
  /\ UNCHANGED <<record, released, chain, paid, written, clock>>

------------------------------------------------------------------------------
\* ReleaseSponsorshipExposure, once the transfer is settled.
Settle ==
  /\ CanReleaseExposure(record, record.revision) /\ ~record.settled
  /\ record' = ReleaseExposure(record)
  /\ released' = (released \/ ReleasesExposure(record'))
  /\ UNCHANGED <<local, chain, paid, written, clock>>

Crash(p) ==
  /\ pc[p] # "idle"
  /\ Return(p)
  /\ UNCHANGED <<record, released, chain, paid, written, clock>>

Include ==
  /\ \/ topup = "sent" /\ clock < TopUpUntil /\ topup' = "seen" /\ UNCHANGED transaction
     \/ topup = "seen" /\ topup' = "final" /\ UNCHANGED transaction
     \/ transaction = "sent" /\ clock < ExpiresAt /\ transaction' = "seen" /\ UNCHANGED topup
     \/ transaction = "seen" /\ transaction' = "final" /\ UNCHANGED topup
  /\ UNCHANGED <<record, released, local, reorgs, paid, written, clock>>

Reorg ==
  /\ reorgs < MaxReorgs /\ reorgs' = reorgs + 1
  /\ \/ topup = "seen" /\ topup' = "sent" /\ UNCHANGED transaction
     \/ transaction = "seen" /\ transaction' = "sent" /\ UNCHANGED topup
  /\ UNCHANGED <<record, released, local, paid, written, clock>>

Tick ==
  /\ clock < MaxTime /\ clock' = clock + 1
  /\ UNCHANGED <<record, released, local, chain, paid, written>>

Step(p) ==
  \/ SubmitSponsorship(p) \/ EnsureFinalized(p) \/ ResolveFinalized(p)
  \/ ApplyResolution(p) \/ SubmitObserved(p) \/ SubmitTerminal(p)
  \/ SubmitReady(p) \/ SubmitSubmitted(p) \/ SubmitExact(p) \/ SubmitAccepted(p)
  \/ ResolveRejected(p) \/ QueryChain(p) \/ ResolveAbsent(p) \/ ResolveSuccess(p)
  \/ ResolveTentative(p) \/ ResolveRebroadcast(p)

Next ==
  /\ \/ \E p \in serving :
           Admit(p) \/ SubmitAgain(p) \/ Resolve(p) \/ Step(p) \/ Crash(p)
     \/ Settle \/ Include \/ Reorg \/ Tick
  /\ UNCHANGED <<terms, serving>>

Spec == Init /\ [][Next]_vars

------------------------------------------------------------------------------
(***************************************************************************)
(* Properties.                                                             *)
(***************************************************************************)
\* Several processes may run Submit for one combined action.
Contended == Mode = "sponsor_and_relay" /\ Cardinality(serving) > 1

\* Submit "can never create a new payment identity" (service.go): whatever
\* payments PrepareRecovery proposes to calls that race or retry, the
\* processor is only ever told to make one.
OneTopUp == \A a, b \in paid : a = b

\* "A different provider cannot sponsor again until finalized evidence
\* proves this transaction expired": the reservation's exposure is released
\* only when no top-up happened and none can happen any more, or when the
\* transfer was settled.
ExposureCovered ==
  released /\ ~record.settled => topup \in {"none", "sent"} /\ (paid # {} => clock >= TopUpUntil)

\* A terminal outcome is what happened on the chain, and stays so: both
\* effects for success, the top-up alone, the transaction alone, or neither.
\* An action that was rejected had no effect at all. Only exact success or
\* verified absence may close a combined action (service.go); two processes
\* that run Submit for one do not keep to that.
OutcomeIsTrue ==
  LET paidFor == topup = "final"
      executed == transaction = "final"
      noTopUp == topup \in {"none", "sent"} /\ (paid # {} => clock >= TopUpUntil)
      noTransaction == transaction = "none" \/ TransactionAbsent
  IN
  /\ record.state \in {"rejected", "conflict"} => paid = {} /\ transaction = "none"
  /\ record.state = "terminal" =>
       CASE record.outcome.what = "success" ->
              executed /\ (Mode = "sponsor_and_relay" => paidFor)
         [] record.outcome.what = "sponsorship_only" -> paidFor /\ noTransaction
         [] record.outcome.what = "relay_only" -> executed /\ noTopUp
         [] OTHER -> /\ noTopUp
                     /\ Mode # "sponsor_only" => noTransaction

\* No outcome claims validator finality unless every effect it rests on was
\* selected with validator evidence.
AssuranceNotOverstated ==
  record.outcome.by = "finalized" =>
    /\ Mode # "sponsor_only" /\ record.outcome.what # "sponsorship_only" =>
         RelayClass = "validator"
    /\ record.transactionAbsent => RelayClass = "validator"
    /\ Mode # "relay_exact" => SponsorClass = "validator"

\* A terminal outcome is true, except in the two-process combined case, and
\* claims no more assurance than its evidence has.
TerminalIsTrue == (Contended \/ OutcomeIsTrue) /\ AssuranceNotOverstated

\* "Persist SUBMITTED before the first network write" (service.go): when the
\* bytes may be out, the journal says so, and never goes back. Resolve of a
\* PREPARED action whose top-up is proven absent is the exception: it sends
\* the bytes when the broadcaster calls that safe.
SubmittedBeforeWrite ==
  written => \/ record.state \in {"submitted", "accepted", "terminal"}
             \/ record.state = "prepared" /\ record.sponsorshipAbsent

\* The side effects are accounted for: one payment, the exposure it uses held,
\* and the journal ahead of the bytes.
EffectsAccounted == OneTopUp /\ ExposureCovered /\ SubmittedBeforeWrite

\* RestoreRecord is "the only supported way for an external durable Journal
\* implementation to construct a recoverable Record" (state.go): it accepts
\* every record the journal stores, whatever the process died after. Two
\* kinds of record are stored and not accepted: a sponsor-only action that
\* died between its transfer and its terminal transition, and an outcome
\* that is corroborated only because of the transaction's class.
Restorable ==
  record.state # "none" =>
    \/ RestoreRecordAccepts(record)
    \/ Mode = "sponsor_only" /\ record.state = "submitted" /\ record.transfer
    \/ /\ record.outcome = Outcome("sponsorship_only", "corroborated")
       /\ SponsorClass = "validator" /\ RelayClass = "corroborated"

(***************************************************************************)
(* Liveness. The clock advances, a block that holds a payment becomes      *)
(* final, Resolve is called again and again, and a call either finishes or *)
(* dies. Processes may die for ever, but a step that is reached again and  *)
(* again is taken some time before the process dies, and an external       *)
(* service that is asked often enough and has a decisive answer gives it.  *)
(***************************************************************************)
Decided(p) == answer'[p].is \notin {"none", "unknown", "observed", "accepted",
                                   "submitted", "rejected", "safe"}

LiveSpec ==
  /\ Spec
  /\ WF_moving(Tick) /\ WF_moving(Include)
  /\ \A p \in Servers :
       /\ SF_moving(Resolve(p)) /\ WF_moving(Step(p))
       /\ SF_moving(ResolveFinalized(p) /\ Decided(p))
       /\ SF_moving(QueryChain(p) /\ Decided(p))
       /\ SF_moving(ApplyResolution(p) /\ record' # record)
       /\ SF_moving(ResolveAbsent(p) /\ record' # record)
       /\ SF_moving(ResolveSuccess(p)) /\ SF_moving(SubmitTerminal(p))
       /\ SF_moving(ResolveRejected(p))

\* An admitted action is concluded: Resolve, called until it is, leaves no
\* action open and no reservation held by an open action for ever.
Concludes == record.state = "prepared" ~> record.state \in Closed
==============================================================================
