----------------------------- MODULE RelayRecord -----------------------------
(***************************************************************************)
(* One record of the agent relay journal (pkg/agentrelay/state.go): what   *)
(* each Journal method requires of it and makes of it, and which snapshots *)
(* RestoreRecord accepts. A method is a pair of operators: CanX, its       *)
(* checks, and X, the record it stores.                                    *)
(*                                                                         *)
(* Digests, references and proofs are abstracted to whether they are       *)
(* there and whose they are. The three conclusions of an absence (expired, *)
(* absent, invalidated) are one, "absence"; by is the assurance an outcome *)
(* claims. The autonomous assurance level is the case in which both        *)
(* selected evidence classes are "validator".                              *)
(***************************************************************************)
EXTENDS Integers, FiniteSets

CONSTANTS Handles,        \* payments a processor may prepare for the top-up
          MaxObservation, \* bound: checkpoints of credit observations
          None

Modes == {"relay_exact", "sponsor_only", "sponsor_and_relay"}
Classes == {"validator", "corroborated"}

ASSUME RecordAssumption == MaxObservation \in Nat /\ None \notin Handles

VARIABLE terms  \* of the signed quote: they never change

\* The mode of the request, and the terminal evidence classes selected for
\* the provider's top-up and for the client's transaction.
Terms == [mode : Modes, sponsorClass : Classes, relayClass : Classes]
Mode == terms.mode
SponsorClass == terms.sponsorClass
RelayClass == terms.relayClass

States == {"none", "prepared", "submitted", "accepted", "rejected", "conflict", "terminal"}
Open == {"prepared", "submitted", "accepted"}
Closed == {"rejected", "conflict", "terminal"}

NoOutcome == [what |-> "none", by |-> "none"]
Outcome(what, by) == [what |-> what, by |-> by]
Outcomes == {NoOutcome} \cup
            [what : {"success", "sponsorship_only", "relay_only", "absence"},
             by : {"finalized", "corroborated"}]

Records ==
  [state : States, revision : Nat,
   attempted : BOOLEAN,                 \* SponsorshipAttempted, and its token
   handle : Handles \cup {None},        \* identity of the top-up payment
   transfer : BOOLEAN,                  \* SponsorshipTransferReference and its evidence
   observed : 0 .. MaxObservation,      \* SponsorshipCreditObservation, 0: none
   superseded : BOOLEAN,                \* an observation an absence replaced
   sponsorshipAbsent : BOOLEAN, transactionAbsent : BOOLEAN,
   promoted : BOOLEAN,                  \* SupersededAbsenceProofBundleDigest
   reference : {"none", "transaction", "topup"},
   evidence : SUBSET {"topup", "topup absence", "transaction", "transaction absence"},
   outcome : Outcomes,
   settled : BOOLEAN]                   \* SponsorshipExposureReleaseEvidenceRefs

NoRecord ==
  [state |-> "none", revision |-> 0, attempted |-> FALSE, handle |-> None,
   transfer |-> FALSE, observed |-> 0, superseded |-> FALSE,
   sponsorshipAbsent |-> FALSE, transactionAbsent |-> FALSE, promoted |-> FALSE,
   reference |-> "none", evidence |-> {}, outcome |-> NoOutcome, settled |-> FALSE]

NewPreparedRecord == [NoRecord EXCEPT !.state = "prepared", !.revision = 1]

------------------------------------------------------------------------------
(***************************************************************************)
(* Which states and outcomes go together.                                  *)
(***************************************************************************)
IsAbsence(outcome) == outcome.what = "absence"
IsSponsorshipOnly(outcome) == outcome.what = "sponsorship_only"
IsRelayOnly(outcome) == outcome.what = "relay_only"

ValidRelayTransition(from, to) ==
  to \in CASE from = "prepared" -> {"submitted", "rejected", "conflict", "terminal"}
           [] from = "submitted" -> {"accepted", "rejected", "conflict", "terminal"}
           [] from = "accepted" -> {"submitted", "terminal"}
           [] OTHER -> {}

ValidRelayModeState(state, outcome, transfer, seen, topupAbsent, txAbsent) ==
  LET present == transfer \/ seen IN
  CASE Mode = "relay_exact" ->
         /\ ~present /\ ~topupAbsent /\ ~txAbsent
         /\ ~IsSponsorshipOnly(outcome)
    [] Mode = "sponsor_only" ->
         /\ ~txAbsent
         /\ IF seen
            THEN state \in {"prepared", "submitted"} /\ outcome = NoOutcome /\ ~topupAbsent
            ELSE /\ state \notin {"submitted", "accepted"}
                 /\ present => state \notin {"rejected", "conflict"}
                 /\ state = "terminal" =>
                      \/ transfer /\ ~topupAbsent /\ IsSponsorshipOnly(outcome)
                      \/ ~transfer /\ topupAbsent /\ IsAbsence(outcome)
    [] OTHER ->
         /\ present => state \notin {"rejected", "conflict"}
         /\ CASE state \in {"submitted", "accepted"} ->
                   /\ ~txAbsent
                   /\ \/ present /\ ~topupAbsent
                      \/ ~present /\ topupAbsent /\ outcome = NoOutcome
              [] state = "terminal" ->
                   \/ /\ transfer /\ ~topupAbsent
                      /\ \/ IsSponsorshipOnly(outcome)
                         \/ outcome.what = "success" /\ ~txAbsent
                   \/ /\ ~present /\ topupAbsent
                      /\ IF txAbsent THEN IsAbsence(outcome) ELSE IsRelayOnly(outcome)
              [] OTHER ->
                   \/ ~topupAbsent /\ ~txAbsent
                   \/ /\ state = "prepared" /\ outcome = NoOutcome
                      /\ topupAbsent /\ ~txAbsent /\ ~present

ValidRelayAbsenceStateShape(r) ==
  /\ r.sponsorshipAbsent \/ r.transactionAbsent
  /\ IF r.state # "terminal"
     THEN /\ Mode = "sponsor_and_relay" /\ r.state \in Open
          /\ r.sponsorshipAbsent /\ ~r.transactionAbsent
          /\ ~r.transfer /\ r.outcome = NoOutcome
     ELSE \/ /\ Mode = "sponsor_only" /\ r.sponsorshipAbsent /\ ~r.transactionAbsent
             /\ ~r.transfer /\ r.reference = "none" /\ IsAbsence(r.outcome)
          \/ /\ Mode = "sponsor_and_relay" /\ r.sponsorshipAbsent /\ ~r.transfer
             /\ IF r.transactionAbsent
                THEN r.reference = "none" /\ IsAbsence(r.outcome)
                ELSE r.reference # "none" /\ IsRelayOnly(r.outcome)
          \/ /\ Mode = "sponsor_and_relay" /\ ~r.sponsorshipAbsent /\ r.transactionAbsent
             /\ r.transfer /\ r.reference = "topup" /\ IsSponsorshipOnly(r.outcome)

\* The evidence of a top-up has the class the quote selected for it.
ValidRelayAbsenceOutcomeAssurance(outcome, topupAbsent, txAbsent, transfer) ==
  IF outcome = NoOutcome
  THEN Mode = "sponsor_and_relay" /\ topupAbsent /\ ~txAbsent
  ELSE LET allValidator ==
             /\ topupAbsent \/ transfer
             /\ SponsorClass = "validator"
             /\ Mode = "sponsor_and_relay" /\ (txAbsent \/ IsRelayOnly(outcome))
                  => RelayClass = "validator"
       IN /\ outcome.what \in {"absence", "relay_only", "sponsorship_only"}
          /\ outcome.by = IF allValidator THEN "finalized" ELSE "corroborated"

SelectedTerminalUsesCorroboration(transfer) ==
  RelayClass = "corroborated" \/ (transfer /\ SponsorClass = "corroborated")

------------------------------------------------------------------------------
(***************************************************************************)
(* The journal's methods. revision is what the caller expects.             *)
(***************************************************************************)
\* timely: hasStrictRemainingWindow up to the payment's expiry.
CanBeginSponsorship(r, revision, handle, timely) ==
  /\ r.state = "prepared" /\ Mode # "relay_exact" /\ timely
  /\ ~r.transfer /\ ~r.sponsorshipAbsent /\ ~r.transactionAbsent
  /\ IF r.attempted THEN r.handle = handle ELSE r.revision = revision
BeginSponsorship(r, handle) ==
  IF r.attempted THEN r
  ELSE [r EXCEPT !.attempted = TRUE, !.handle = handle, !.revision = @ + 1]

CanRecordObservation(r, revision, handle, checkpoint) ==
  /\ Mode # "relay_exact" /\ r.state \in Open /\ ~r.transfer
  /\ r.handle = handle
  /\ IF r.observed # 0
     THEN \/ checkpoint = r.observed
          \/ checkpoint >= r.observed /\ r.revision = revision
     ELSE r.attempted /\ r.revision = revision

RecordObservation(r, checkpoint) ==
  IF r.observed = checkpoint THEN r
  ELSE [r EXCEPT !.observed = checkpoint, !.revision = @ + 1]

CanRecordSponsorship(r, revision, handle) ==
  /\ Mode # "relay_exact" /\ r.state \in Open
  /\ r.handle = handle
  /\ r.transfer \/ (r.attempted /\ r.revision = revision)
\* Mutant: the observation the transfer replaces is kept.
RecordSponsorshipKeepsObservation(r) ==
  IF r.transfer THEN r
  ELSE [r EXCEPT !.transfer = TRUE, !.attempted = @ /\ Mode = "sponsor_and_relay",
                 !.evidence = {"topup"}, !.revision = @ + 1]

RecordSponsorship(r) ==
  IF r.transfer THEN r
  ELSE [r EXCEPT !.transfer = TRUE, !.observed = 0,
                 !.attempted = @ /\ Mode = "sponsor_and_relay",
                 !.evidence = {"topup"}, !.revision = @ + 1]

AbsenceEvidence(topupAbsent, txAbsent) ==
  (IF topupAbsent THEN {"topup absence"} ELSE {}) \cup
  (IF txAbsent THEN {"transaction absence"} ELSE {})

ValidSponsorshipAbsenceRecord(r) ==
  /\ ValidRelayAbsenceStateShape(r) /\ r.handle # None
  /\ AbsenceEvidence(r.sponsorshipAbsent, r.transactionAbsent) \subseteq r.evidence
  /\ ValidRelayAbsenceOutcomeAssurance(r.outcome, r.sponsorshipAbsent,
                                       r.transactionAbsent, r.transfer)

HasAbsence(r) ==
  (r.sponsorshipAbsent \/ r.transactionAbsent) /\ ValidSponsorshipAbsenceRecord(r)
IsReplay(r, outcome, topupAbsent, txAbsent) ==
  /\ HasAbsence(r) /\ r.outcome = outcome
  /\ r.sponsorshipAbsent = topupAbsent /\ r.transactionAbsent = txAbsent
IsPromotion(r, outcome, topupAbsent, txAbsent) ==
  /\ HasAbsence(r) /\ Mode = "sponsor_and_relay"
  /\ r.state # "terminal" /\ r.outcome = NoOutcome
  /\ r.sponsorshipAbsent /\ ~r.transactionAbsent
  /\ topupAbsent /\ txAbsent /\ IsAbsence(outcome)

CanRecordAbsence(r, revision, outcome, topupAbsent, txAbsent) ==
  \/ IsReplay(r, outcome, topupAbsent, txAbsent)
  \/ /\ HasAbsence(r) => IsPromotion(r, outcome, topupAbsent, txAbsent)
     /\ r.state \in Open /\ r.handle # None /\ r.revision = revision
     /\ \/ /\ topupAbsent /\ ~r.transfer
           /\ r.attempted \/ IsPromotion(r, outcome, topupAbsent, txAbsent)
           /\ IF Mode = "sponsor_only" THEN ~txAbsent /\ IsAbsence(outcome)
              ELSE IF txAbsent THEN IsAbsence(outcome) ELSE outcome = NoOutcome
        \/ /\ Mode = "sponsor_and_relay" /\ ~topupAbsent /\ txAbsent
           /\ r.transfer /\ r.attempted /\ IsSponsorshipOnly(outcome)
     /\ Mode # "relay_exact"
     /\ ValidRelayAbsenceOutcomeAssurance(outcome, topupAbsent, txAbsent, r.transfer)
RecordAbsence(r, outcome, topupAbsent, txAbsent) ==
  LET terminal == Mode = "sponsor_only" \/ txAbsent IN
  IF IsReplay(r, outcome, topupAbsent, txAbsent) THEN r
  ELSE [r EXCEPT
         !.superseded = @ \/ (topupAbsent /\ r.observed # 0),
         !.observed = IF topupAbsent THEN 0 ELSE @,
         !.attempted = @ /\ ~terminal,
         !.sponsorshipAbsent = topupAbsent, !.transactionAbsent = txAbsent,
         !.promoted = @ \/ IsPromotion(r, outcome, topupAbsent, txAbsent),
         !.state = IF terminal THEN "terminal" ELSE @,
         !.reference = IF ~terminal THEN @ ELSE IF r.transfer THEN "topup" ELSE "none",
         !.evidence = @ \cup AbsenceEvidence(topupAbsent, txAbsent),
         !.outcome = outcome,
         !.revision = @ + 1]

CanReleaseExposure(r, revision) ==
  r.settled \/ (r.revision = revision /\ r.state = "terminal" /\ r.transfer)
ReleaseExposure(r) ==
  IF r.settled THEN r ELSE [r EXCEPT !.settled = TRUE, !.revision = @ + 1]

PendingAbsence(r) ==
  /\ r.sponsorshipAbsent /\ ~r.transactionAbsent /\ ~r.transfer
  /\ r.observed = 0 /\ r.outcome = NoOutcome

CanTransition(r, revision, target, evidence, outcome) ==
  /\ r.revision = revision /\ ValidRelayTransition(r.state, target)
  /\ r.attempted =>
       \/ target = "terminal" /\ PendingAbsence(r) /\ IsRelayOnly(outcome)
       \/ Mode = "sponsor_and_relay" /\ r.transfer
       \/ r.observed # 0 /\ target \in {"submitted", "accepted"}
  /\ IF target = "terminal" THEN outcome # NoOutcome /\ evidence # {}
     ELSE outcome = NoOutcome
  /\ ValidRelayModeState(target, outcome, r.transfer, r.observed # 0,
                         r.sponsorshipAbsent, r.transactionAbsent)
Transition(r, target, reference, evidence, outcome) ==
  [r EXCEPT !.state = target, !.revision = @ + 1, !.reference = reference,
            !.evidence = evidence, !.outcome = outcome,
            !.attempted = @ /\ target # "terminal"]

\* releaseRecordExposureLocked, which every call that closes or settles a
\* record makes: a real transfer keeps its exposure until it is settled.
ReleasesExposure(r) == r.state \in Closed /\ (r.transfer => r.settled)

------------------------------------------------------------------------------
(***************************************************************************)
(* The snapshots RestoreRecord accepts.                                    *)
(***************************************************************************)
ValidSponsorshipSnapshot(r) ==
  LET pendingAbsence ==
        /\ Mode = "sponsor_and_relay" /\ r.sponsorshipAbsent
        /\ ~r.transactionAbsent /\ r.outcome = NoOutcome /\ ~r.transfer
      pendingTransaction ==
        /\ Mode = "sponsor_and_relay" /\ r.transfer
        /\ ~r.sponsorshipAbsent /\ ~r.transactionAbsent
        /\ r.outcome = NoOutcome /\ r.state # "terminal"
      anyAbsence == r.sponsorshipAbsent \/ r.transactionAbsent \/ r.promoted
  IN /\ Mode = "relay_exact" =>
          /\ ~r.transfer /\ ~r.attempted /\ r.observed = 0
          /\ r.handle = None /\ ~anyAbsence
     /\ pendingAbsence \/ pendingTransaction => r.attempted
     /\ r.attempted /\ r.transfer => pendingTransaction
     /\ r.attempted /\ r.observed = 0 /\ r.state # "prepared" =>
          pendingAbsence \/ pendingTransaction
     /\ r.observed # 0 => r.attempted /\ ~r.transfer /\ r.state \in Open
                          /\ SponsorClass = "corroborated"
     /\ ~(r.transfer /\ r.sponsorshipAbsent)
     /\ r.superseded => r.sponsorshipAbsent
     /\ (r.attempted \/ r.transfer \/ anyAbsence) <=> (r.handle # None)
     /\ r.transfer => r.evidence # {}
     /\ anyAbsence =>
          /\ ValidSponsorshipAbsenceRecord(r)
          /\ r.promoted => r.sponsorshipAbsent /\ r.transactionAbsent
          /\ r.attempted => pendingAbsence

ValidOutcomeSnapshot(r) ==
  IF r.state # "terminal" THEN r.outcome = NoOutcome
  ELSE /\ r.outcome # NoOutcome /\ r.evidence # {}
       /\ IsSponsorshipOnly(r.outcome) => Mode # "relay_exact" /\ r.transfer
       /\ r.outcome = Outcome("sponsorship_only", "corroborated") =>
            SponsorClass = "corroborated"
       /\ r.outcome.what = "success" =>
            IF SelectedTerminalUsesCorroboration(r.transfer)
            THEN r.outcome.by = "corroborated"
            ELSE r.outcome.by = "finalized"

RestoreRecordAccepts(r) ==
  /\ r \in Records
  /\ ValidSponsorshipSnapshot(r)
  /\ r.settled => r.state = "terminal" /\ r.transfer
  /\ ValidOutcomeSnapshot(r)
  /\ ValidRelayModeState(r.state, r.outcome, r.transfer, r.observed # 0,
                         r.sponsorshipAbsent, r.transactionAbsent)
==============================================================================
