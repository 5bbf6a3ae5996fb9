---------------------------- MODULE RelayEvidence ----------------------------
(***************************************************************************)
(* What the provider signs about a record, and what the client accepts     *)
(* (pkg/agentrelay: SignedResolution and Evidence of service.go, the       *)
(* resolution and finality evidence validators of validation.go, absence.go*)
(* and canonical.go).                                                      *)
(*                                                                         *)
(* Identities, digests and profiles of the exact execution are the same on *)
(* both sides; a document is abstracted to which parts it has and to the   *)
(* evidence class of each. The evidence source and the client's proof      *)
(* verifiers are external: a source may return any body.                   *)
(***************************************************************************)
EXTENDS RelayProvider

RelayProfile == IF Mode = "sponsor_only" THEN "none" ELSE RelayClass
SponsorshipProfile == IF Mode = "relay_exact" THEN "none" ELSE SponsorClass
Autonomous == RelayProfile # "corroborated" /\ SponsorshipProfile # "corroborated"

------------------------------------------------------------------------------
(***************************************************************************)
(* A signed resolution: the record's state.                                *)
(***************************************************************************)
SignedResolution(r) ==
  [state |-> r.state, revision |-> r.revision, outcome |-> r.outcome,
   reference |-> r.reference, identity |-> r.handle # None, transfer |-> r.transfer,
   status |-> IF r.observed # 0 /\ r.attempted THEN "observed_unproven" ELSE "none",
   evidence |-> r.state = "terminal" /\ r.evidence # {}]

ValidateRelayResolutionBody(b) ==
  /\ b.revision > 0
  /\ b.transfer => b.identity
  /\ b.status = "observed_unproven" => b.identity /\ ~b.transfer /\ b.state \in Open
  /\ IF b.state = "terminal" THEN b.outcome # NoOutcome /\ b.evidence
     ELSE b.outcome = NoOutcome /\ ~b.evidence

TypedTerminalResult(b) ==
  IF ~b.transfer
  THEN /\ b.identity
       /\ \/ Mode = "sponsor_and_relay" /\ IsRelayOnly(b.outcome) /\ b.reference # "none"
          \/ IsAbsence(b.outcome) /\ b.reference = "none"
  ELSE \/ IsSponsorshipOnly(b.outcome) /\ b.reference = "topup"
       \/ /\ Mode = "sponsor_and_relay" /\ b.outcome.what = "success"
          /\ b.reference = "transaction"

ValidateRelayResolutionMode(b) ==
  IF Mode = "relay_exact"
  THEN /\ ~b.identity /\ ~b.transfer /\ b.status = "none"
       /\ ~IsSponsorshipOnly(b.outcome)
       /\ b.outcome # Outcome("success", "corroborated")
  ELSE IF b.state # "terminal" THEN Mode = "sponsor_only" => b.reference = "none"
  ELSE TypedTerminalResult(b)

VerifyRelayResolutionForExecution(b) ==
  /\ ValidateRelayResolutionBody(b)
  /\ b.status = "observed_unproven" => SponsorClass = "corroborated"
  /\ ValidateRelayResolutionMode(b)

------------------------------------------------------------------------------
(***************************************************************************)
(* Terminal evidence. A part that is missing has class "none"; relay is    *)
(* the class of the relay result, authenticated its portable proof flag,   *)
(* executed whether it has a submitted hash and a source execution.        *)
(***************************************************************************)
EvidenceParts == {"none", "validator", "corroborated"}
FinalityEvidence(r) ==
  [outcome : {r.outcome}, identity : {r.handle # None}, transfer : {r.transfer},
   topup : EvidenceParts,
   topupAbsence : IF r.sponsorshipAbsent THEN Classes ELSE {"none"},
   transactionAbsence : IF r.transactionAbsent THEN Classes ELSE {"none"},
   relay : EvidenceParts, authenticated : BOOLEAN, executed : BOOLEAN]

HasAbsencePart(b) == b.topupAbsence # "none" \/ b.transactionAbsence # "none"
HasRelayTerminal(b) == b.relay # "none" \/ b.executed

RelayTerminalMeetsProfile(b) ==
  HasRelayTerminal(b) =>
    /\ RelayProfile # "none" /\ b.relay = RelayProfile
    /\ b.authenticated <=> b.relay = "validator"

SponsorshipPartMeetsProfile(b) ==
  /\ b.transfer <=> b.topup # "none"
  /\ b.transfer => b.identity
  /\ b.identity /\ ~b.transfer => b.topupAbsence # "none"
  /\ ~(b.transfer /\ b.topupAbsence # "none")
  /\ b.identity \/ HasAbsencePart(b) => SponsorshipProfile # "none"
  /\ b.topup # "none" => b.topup = SponsorshipProfile
  /\ b.topup = "corroborated" =>
       b.outcome.by = "corroborated" /\ b.outcome.what \in {"sponsorship_only", "success"}

\* The class an absence set is validated against.
TransactionAbsenceProfile == IF RelayProfile # "none" THEN RelayProfile ELSE SponsorshipProfile

\* Mutant: only the top-up's class decides the label.
SponsorshipClassOnly(outcome) ==
  outcome.by = IF SponsorshipProfile = "validator" THEN "finalized" ELSE "corroborated"

ValidateRelayAbsenceOutcomeClass(outcome) ==
  outcome.by = IF SponsorshipProfile = "validator" /\ RelayProfile # "corroborated"
               THEN "finalized" ELSE "corroborated"

AbsencePartsMeetProfile(b) ==
  /\ b.topupAbsence \in {"none", SponsorshipProfile}
  /\ b.transactionAbsence \in {"none", TransactionAbsenceProfile}
  /\ HasAbsencePart(b) => b.identity
  /\ b.topupAbsence # "none" /\ b.transactionAbsence # "none" =>
       /\ ValidateRelayAbsenceOutcomeClass(b.outcome)
       /\ IsAbsence(b.outcome) /\ ~HasRelayTerminal(b)
  /\ b.topupAbsence # "none" /\ b.transactionAbsence = "none" =>
       \/ IsRelayOnly(b.outcome) /\ HasRelayTerminal(b) /\ b.executed
       \/ IsAbsence(b.outcome) /\ ~HasRelayTerminal(b)
  /\ b.topupAbsence = "none" /\ b.transactionAbsence # "none" =>
       IsSponsorshipOnly(b.outcome) /\ b.transfer /\ ~HasRelayTerminal(b)

\* The label is finalized exactly when every part it rests on is validated.
LabelMatches(b, allValidator) == b.outcome.by = IF allValidator THEN "finalized" ELSE "corroborated"

OutcomeMatchesParts(b) ==
  CASE b.outcome.what = "success" ->
         /\ b.relay # "none" /\ b.executed /\ ~HasAbsencePart(b)
         /\ LabelMatches(b, b.relay = "validator" /\ b.topup # "corroborated")
    [] b.outcome.what = "sponsorship_only" ->
         /\ b.topup # "none" /\ b.topupAbsence = "none" /\ ~HasRelayTerminal(b)
         /\ LabelMatches(b, b.topup = "validator" /\ b.transactionAbsence # "corroborated")
    [] b.outcome.what = "relay_only" ->
         /\ b.topupAbsence # "none" /\ b.transactionAbsence = "none" /\ b.topup = "none"
         /\ b.relay # "none" /\ b.executed
         /\ LabelMatches(b, b.relay = "validator" /\ b.topupAbsence = "validator")
    [] b.outcome.what = "absence" ->
         IF b.topupAbsence # "none"
         THEN LabelMatches(b, b.topupAbsence = "validator"
                              /\ b.transactionAbsence # "corroborated")
         ELSE /\ b.relay # "none" /\ LabelMatches(b, b.relay = "validator")
    [] OTHER -> FALSE

ValidateRelayFinalityEvidenceBody(b) ==
  /\ RelayTerminalMeetsProfile(b) /\ SponsorshipPartMeetsProfile(b)
  /\ AbsencePartsMeetProfile(b) /\ OutcomeMatchesParts(b)
  /\ Autonomous => b.outcome.by = "finalized"

------------------------------------------------------------------------------
(***************************************************************************)
(* Evidence of the service signs a body that agrees with the record; the   *)
(* client checks it against the mode it asked for.                         *)
(***************************************************************************)
EvidenceAgreesWithMode(b) ==
  CASE Mode = "relay_exact" ->
         ~b.identity /\ ~b.transfer /\ ~HasAbsencePart(b) /\ ~IsSponsorshipOnly(b.outcome)
    [] Mode = "sponsor_only" ->
         IF b.transfer THEN IsSponsorshipOnly(b.outcome) ELSE HasAbsencePart(b)
    [] OTHER -> b.transfer \/ HasAbsencePart(b)

\* A source's body that the service signs for record r.
Evidence(r, b) ==
  /\ r.state = "terminal"
  /\ ValidateRelayFinalityEvidenceBody(b)
  /\ b.executed => r.reference = "transaction"
  /\ b.outcome = Outcome("success", "finalized") => b.executed /\ r.reference = "transaction"
  /\ HasAbsencePart(b) => ValidSponsorshipAbsenceRecord(r)
  /\ EvidenceAgreesWithMode(b)
  /\ b.topup # "none" => r.transfer

ValidateRelayFinalityEvidenceMode(b) ==
  CASE Mode = "relay_exact" ->
         /\ b.topup = "none" /\ ~HasAbsencePart(b) /\ ~b.identity /\ ~b.transfer
         /\ ~IsSponsorshipOnly(b.outcome)
    [] b.topup = "none" ->
         /\ HasAbsencePart(b) /\ b.identity /\ ~b.transfer /\ b.topupAbsence # "none"
         /\ \/ /\ IsAbsence(b.outcome) /\ ~b.executed
               /\ (Mode = "sponsor_and_relay") = (b.transactionAbsence # "none")
            \/ /\ Mode = "sponsor_and_relay" /\ b.transactionAbsence = "none"
               /\ IsRelayOnly(b.outcome) /\ b.executed
    [] OTHER ->
         /\ b.topupAbsence = "none" /\ b.transfer
         /\ \/ /\ IsSponsorshipOnly(b.outcome) /\ ~b.executed
               /\ Mode = "sponsor_only" => b.transactionAbsence = "none"
            \/ /\ Mode = "sponsor_and_relay" /\ b.outcome.what = "success" /\ b.executed

\* The release profile is observed_unproven for a corroborated top-up.
VerifyRelayFinalityEvidenceForExecution(b) ==
  /\ ValidateRelayFinalityEvidenceBody(b)
  /\ ValidateRelayFinalityEvidenceMode(b)
  /\ b.topup # "none" => b.topup = SponsorClass

------------------------------------------------------------------------------
(***************************************************************************)
(* Properties.                                                             *)
(***************************************************************************)
\* Whatever the evidence source returns for a terminal record, a body that
\* the service signs and the client accepts says what happened: it has a
\* top-up, an absence or an execution only for an effect that had that fate,
\* and it claims validator finality only when every selected class has it.
\* And there is such a body for every terminal record: the client can always
\* be shown the outcome. Where two processes ran one combined action the
\* outcome itself may be untrue, and the evidence with it.
EvidenceIsTrueAndAvailable ==
  record.state = "terminal" =>
    LET accepted == {b \in FinalityEvidence(record) :
                       Evidence(record, b) /\ VerifyRelayFinalityEvidenceForExecution(b)}
    IN /\ accepted # {}
       /\ \A b \in accepted :
            /\ b.topup # "none" => topup = "final"
            /\ b.topupAbsence # "none" => Contended \/ topup \in {"none", "sent"}
            /\ b.outcome.what \in {"success", "relay_only"} =>
                 Contended \/ transaction = "final"
            /\ b.outcome.by = "finalized" =>
                 "corroborated" \notin {b.topup, b.topupAbsence, b.transactionAbsence, b.relay}

\* What the provider concludes is what happened, and evidence shows it.
ConclusionIsTrue == TerminalIsTrue /\ EvidenceIsTrueAndAvailable

\* OutcomeCorroboratedSuccess "means every requested side effect succeeded
\* under the exact signed lower-assurance predicates" (types.go): the client
\* accepts the resolution the provider signs for any record it stores.
ResolutionAccepted ==
  record.state # "none" => VerifyRelayResolutionForExecution(SignedResolution(record))
==============================================================================
