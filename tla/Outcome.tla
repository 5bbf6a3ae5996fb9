------------------------------- MODULE Outcome -------------------------------
(***************************************************************************)
(* Operation outcomes (pkg/agentcommerce operation*.go, outcome_*.go): an   *)
(* agent signs an operation envelope whose payload commits to one typed     *)
(* assertion and to its evidence; a carrier admits the exact bytes, and a   *)
(* reader assesses them, at any later time, against the historical          *)
(* authority the evidence names.  Beside it stands the cohort: the Merkle   *)
(* set of the assertions an admission authority has counted.                *)
(*                                                                          *)
(* A digest is the object it commits to, and an event is named by its       *)
(* number in Events: the signed payload is the event, so the payload,       *)
(* manifest and extension bindings hold by construction, as they do in      *)
(* BuildOperationOutcomeEventV1.  Hashes are free terms.                    *)
(***************************************************************************)
EXTENDS Integers, Sequences, FiniteSets, FiniteSetsExt, SequencesExt

CONSTANTS
    Events,          \* the outcome events an agent may assert, with artifacts
    TimePins,        \* authority-time proofs the deployment pins, in order
    Lives,           \* lifetimes an operation may be signed with; 0: no expiry
    Members,         \* assertions a cohort may count (naturals: their order)
    OperationSkew,   \* MaxAgentOperationClockSkew
    Word,            \* 2^64, the width of the counters
    MaxEnvelopes, MaxOperationKey, MaxOutcomeTime

VARIABLES
    outTime,         \* the clock of every party
    operationKeys,   \* PinnedAgentOperationAuthorityResolverV1: key pins
    pinned,          \* how many of TimePins the deployment has pinned
    envelopes,       \* signed operation envelopes
    carried,         \* envelopes a carrier has accepted
    assessed,        \* what readers concluded: envelope and high water
    cohort,          \* assertions counted by the admission authority
    proven           \* assertions a reader took for counted ones

outcomeVars ==
    <<outTime, operationKeys, pinned, envelopes, carried, assessed, cohort, proven>>

-----------------------------------------------------------------------------
(* What the assertions are about: OutcomeAssertionProfileV1.                *)

Profile(event, required, optional, maximum) ==
    [event |-> event, required |-> required, optional |-> optional, maximum |-> maximum]

AssertionProfiles ==
    [state_transition |-> Profile("transition", {"source_resolution"}, {}, 16),
     terminal |-> Profile("terminal", {"authoritative_resolution"}, {}, 16),
     cost |-> Profile("observation", {"cost_source"}, {}, 16),
     cohort_checkpoint |-> Profile("checkpoint", {"admission_checkpoint"}, {}, 16),
     obligation_state |-> Profile("transition", {"billing_resolution"}, {}, 16),
     action_reference |-> Profile("observation", {}, {}, 0),
     availability |-> Profile("availability", {"custodian_resolution"}, {}, 8),
     gate_execution |-> Profile("transition", {"authoritative_resolution"}, {}, 16),
     carrier_receipt |-> Profile("observation", {"carrier_receipt"}, {}, 8),
     gift |-> Profile("observation", {"finalized_transfer"}, {}, 16),
     agreement_payment |-> Profile("observation", {"finalized_transfer"}, {}, 16),
     escrow |-> Profile("transition", {"escrow_state", "authority_finality"},
                        {"transaction_bytes"}, 8),
     perimeter |-> Profile("observation", {"perimeter_authority"}, {}, 16),
     revenue |-> Profile("observation", {"accounting_authority"}, {}, 16),
     conversion |-> Profile("observation", {"price_evidence"}, {}, 16),
     forecast |-> Profile("observation", {"forecast_authority"}, {}, 8),
     censoring |-> Profile("observation", {"admission_checkpoint"}, {}, 8),
     ledger |-> Profile("observation", {"accounting_authority"}, {}, 16),
     calibration |-> Profile("observation", {"cohort_checkpoint"}, {}, 16),
     financial |-> Profile("observation", {"accounting_authority"}, {}, 16),
     dataset |-> Profile("checkpoint", {"admission_checkpoint"}, {}, 16),
     promotion |-> Profile("observation", {"owner_approval", "evaluation_report"}, {}, 8)]

(* The payloads, by the fields their validators relate.                     *)

LedgerLine(asset, side, amount) == [asset |-> asset, side |-> side, amount |-> amount]

LedgerEntry(effective, posting, lines) ==
    [effective |-> effective, posting |-> posting, lines |-> lines]

Checkpoint(admitted, eligible, excluded, censored, first, last) ==
    [admitted |-> admitted, eligible |-> eligible, excluded |-> excluded,
     censored |-> censored, first |-> first, last |-> last]

ObligationState(prior, target, priorPaid, applied, targetPaid) ==
    [prior |-> prior, target |-> target, priorPaid |-> priorPaid, applied |-> applied,
     targetPaid |-> targetPaid]

Revenue(relationship, gross, recognized) ==
    [relationship |-> relationship, gross |-> gross, recognized |-> recognized]

Conversion(source, numerator, denominator, rule, fee, target) ==
    [source |-> source, numerator |-> numerator, denominator |-> denominator,
     rule |-> rule, fee |-> fee, target |-> target, from |-> "source asset",
     to |-> "target asset", quotedAt |-> 1, validUntil |-> 1]

Transfer(class, payer, payee, amount, agreement, action, gift) ==
    [class |-> class, payer |-> payer, payee |-> payee, amount |-> amount,
     agreement |-> agreement, action |-> action, gift |-> gift]

EscrowObservation(stage, class, amount) == [stage |-> stage, class |-> class, amount |-> amount]

StateTransition(prior, target) == [prior |-> prior, target |-> target]

TerminalDisposition(disposition, stage) == [disposition |-> disposition, stage |-> stage]

CostObservation(class, original) == [class |-> class, original |-> original]

Availability(prior, target) == [prior |-> prior, target |-> target]

GateExecution(action, request) == [startAction |-> action, startRequest |-> request]

CarrierReceipt(sequence, acceptedAt) == [sequence |-> sequence, acceptedAt |-> acceptedAt]

Perimeter(from, until) == [from |-> from, until |-> until]

Forecast(issued, horizon, probability, whole) ==
    [issued |-> issued, horizon |-> horizon, probability |-> probability, whole |-> whole]

Calibration(denominator, clusters) == [denominator |-> denominator, clusters |-> clusters]

FinancialReport(start, end) == [start |-> start, end |-> end]

Censoring(admission, end, revision) ==
    [admission |-> admission, end |-> end, revision |-> revision]

LearningDataset(included, excluded, conflict, censored) ==
    [included |-> included, excluded |-> excluded, conflict |-> conflict, censored |-> censored]

SkillPromotion(prior, candidate, decidedAt) ==
    [prior |-> prior, candidate |-> candidate, decidedAt |-> decidedAt]

ValidateStateTransition(v) == v.target = (v.prior + 1) % Word

ValidateTerminalDisposition(v) ==
    v.disposition = "succeeded" => v.stage = "not_applicable"

ValidateCostObservation(v) == (v.class = "contra") <=> v.original

SideOf(entry, asset, side) ==
    FoldLeft(LAMBDA sum, line : sum + IF line.asset = asset /\ line.side = side
                                      THEN line.amount ELSE 0,
             0, entry.lines)

Balanced(entry) ==
    \A i \in DOMAIN entry.lines :
        SideOf(entry, entry.lines[i].asset, "debit")
          = SideOf(entry, entry.lines[i].asset, "credit")

ValidateEconomicLedgerEntries(entries) ==
    \A entry \in Range(entries) :
        /\ entry.effective > 0 /\ entry.posting >= entry.effective
        /\ Len(entry.lines) \in 2..64
        /\ \A i \in DOMAIN entry.lines : entry.lines[i].amount > 0
        /\ Balanced(entry)

ValidateCohortCheckpoint(v) ==
    /\ v.admitted = (v.eligible + v.excluded) % Word
    /\ v.censored <= v.admitted
    /\ IF v.admitted = 0 THEN v.first = 0 /\ v.last = 0
                         ELSE v.first > 0 /\ v.last >= v.first

ValidateObligationState(v) ==
    /\ v.target = (v.prior + 1) % Word
    /\ v.priorPaid + v.applied = v.targetPaid

ValidateEvidenceAvailability(v) == v.prior # v.target /\ v.target # "unknown"

ValidateGateExecution(v) == v.startAction = v.startRequest

ValidateTransfer(v) ==
    /\ v.payer # v.payee
    /\ v.amount > 0
    /\ CASE v.class = "gift" -> ~v.agreement /\ ~v.action /\ v.gift
         [] v.class \in {"agreement_bound", "refund", "collateral"} ->
              v.agreement /\ v.action /\ ~v.gift
         [] OTHER -> ~v.agreement /\ ~v.gift

ValidateTOSEscrow(v) ==
    /\ v.amount > 0
    /\ v.class = CASE v.stage = "release_finalized" -> "agreement_bound"
                   [] v.stage = "refund_finalized" -> "refund"
                   [] v.stage = "fee_finalized" -> "fee"
                   [] OTHER -> "collateral"

ValidateRevenueRecognition(v) ==
    /\ v.recognized <= v.gross
    /\ v.relationship # "external" => v.recognized = 0

HalfUp(product, denominator, rule) ==
    LET quotient == product \div denominator
        remainder == product % denominator
        up == CASE rule = "ceiling" -> remainder # 0
                [] rule = "half_even" -> 2 * remainder >= denominator
                [] OTHER -> FALSE
    IN  quotient + IF up THEN 1 ELSE 0

Rounded(product, denominator, rule) ==
    LET quotient == product \div denominator
        remainder == product % denominator
        up == CASE rule = "ceiling" -> remainder # 0
                [] rule = "half_even" ->
                     \/ 2 * remainder > denominator
                     \/ 2 * remainder = denominator /\ quotient % 2 = 1
                [] OTHER -> FALSE
    IN  quotient + IF up THEN 1 ELSE 0

ValidateAssetConversion(v) ==
    LET quotient == Rounded(v.source * v.numerator, v.denominator, v.rule)
    IN  /\ v.from # v.to
        /\ v.numerator > 0
        /\ v.denominator > 0
        /\ v.quotedAt > 0 /\ v.validUntil >= v.quotedAt
        /\ v.fee <= quotient
        /\ quotient - v.fee = v.target

ValidateInterval(from, until) == from > 0 /\ until > from

ValidateEconomicPerimeter(v) == ValidateInterval(v.from, v.until)

ValidateOutcomeForecast(v) ==
    ValidateInterval(v.issued, v.horizon) /\ v.probability <= v.whole

ValidateCalibrationReport(v) == v.denominator > 0 /\ v.clusters > 0

ValidateFinancialReport(v) == ValidateInterval(v.start, v.end)

ValidateOutcomeCensoring(v) == v.admission > 0 /\ v.end >= v.admission /\ v.revision > 0

ValidateCarrierReceipt(v) == v.sequence > 0 /\ v.acceptedAt > 0

ValidateSkillPromotionDecision(v) == v.prior # v.candidate /\ v.decidedAt > 0

\* The four counts of a training cut fit 32 bits, a quarter of the word here.
ValidateLearningDataset(v) ==
    \A count \in {v.included, v.excluded, v.conflict, v.censored} : count < Word \div 4

\* The switch of VerifyOperationOutcomeArtifactsV1 on the profile.
ValidatePayload(uri, v) ==
    CASE uri = "state_transition" -> ValidateStateTransition(v)
      [] uri = "terminal" -> ValidateTerminalDisposition(v)
      [] uri = "cost" -> ValidateCostObservation(v)
      [] uri = "cohort_checkpoint" -> ValidateCohortCheckpoint(v)
      [] uri = "obligation_state" -> ValidateObligationState(v)
      [] uri = "action_reference" -> v.revision > 0
      [] uri = "availability" -> ValidateEvidenceAvailability(v)
      [] uri = "gate_execution" -> ValidateGateExecution(v)
      [] uri = "carrier_receipt" -> ValidateCarrierReceipt(v)
      [] uri = "gift" -> v.class = "gift" /\ ValidateTransfer(v)
      [] uri = "agreement_payment" -> v.class = "agreement_bound" /\ ValidateTransfer(v)
      [] uri = "escrow" -> ValidateTOSEscrow(v)
      [] uri = "perimeter" -> ValidateEconomicPerimeter(v)
      [] uri = "revenue" -> ValidateRevenueRecognition(v)
      [] uri = "conversion" -> ValidateAssetConversion(v)
      [] uri = "forecast" -> ValidateOutcomeForecast(v)
      [] uri = "censoring" -> ValidateOutcomeCensoring(v)
      [] uri = "ledger" -> ValidateEconomicLedgerEntries(v)
      [] uri = "calibration" -> ValidateCalibrationReport(v)
      [] uri = "financial" -> ValidateFinancialReport(v)
      [] uri = "dataset" -> ValidateLearningDataset(v)
      [] uri = "promotion" -> ValidateSkillPromotionDecision(v)

-----------------------------------------------------------------------------
(* Evidence and its authority.                                              *)

AuthorityTime(start, end, highWater) ==
    [start |-> start, end |-> end, highWater |-> highWater]

ValidateAuthorityTimeProof(time) == ValidateInterval(time.start, time.end)

ValidateIssuerQualificationProof(q) == ValidateInterval(q.from, q.until)

Qualification(issuer, scope, subject, from, until, time) ==
    [issuer |-> issuer, scope |-> scope, subject |-> subject,
     from |-> from, until |-> until, time |-> time]

EvidenceItem(role, profile, issuer, subject, claimed, time, qualification) ==
    [role |-> role, profile |-> profile, issuer |-> issuer, subject |-> subject,
     claimed |-> claimed, time |-> time, qualification |-> qualification]

Event(kind, uri, payload, items) ==
    [kind |-> kind, uri |-> uri, payload |-> payload, items |-> items]

\* VerifyOperationOutcomeArtifactsV1: one item per required role, none outside
\* the profile, and a payload its profile's validator accepts.
VerifyArtifacts(e) ==
    /\ e.uri \in DOMAIN AssertionProfiles
    /\ LET profile == AssertionProfiles[e.uri]
           roles == [i \in DOMAIN e.items |-> e.items[i].role]
       IN  /\ profile.event = e.kind
           /\ Len(e.items) <= profile.maximum
           /\ profile.required \subseteq Range(roles)
           /\ Range(roles) \subseteq profile.required \union profile.optional
           /\ IsInjective(roles)
    /\ ValidatePayload(e.uri, e.payload)

\* NewPinnedOutcomeEvidenceAuthorityV1: only well-formed proofs are pinned,
\* and a pin is never replaced.
TimePinned(time) == \E i \in 1..pinned : TimePins[i] = time

VerifyOutcomeAuthorityTime(time, now) == time.end <= now /\ TimePinned(time)

QualifiedAtPresent(q, item, time, now) ==
    /\ q.time = item.time /\ q.scope = item.profile /\ q.issuer = item.issuer
    /\ q.subject = item.subject
    /\ q.from <= now /\ now < q.until

\* PinnedOutcomeEvidenceAuthorityV1.VerifyOutcomeIssuerQualification: the
\* issuer's mandate at the end of the authority interval, whatever the clock
\* of the reader says.
VerifyOutcomeIssuerQualification(q, item, time, now) ==
    /\ q.time = item.time /\ q.scope = item.profile /\ q.issuer = item.issuer
    /\ q.subject = item.subject
    /\ q.from <= time.end /\ time.end < q.until

NotAssessed == [qualified |-> FALSE, highWater |-> 0 - 1]

\* VerifyOperationOutcomeAuthorityV1: an assertion whose profile requires no
\* evidence is accepted and stays unqualified.
VerifyOperationOutcomeAuthority(e, now) ==
    IF AssertionProfiles[e.uri].required = {}
    THEN [qualified |-> FALSE, highWater |-> 0]
    ELSE IF \A item \in Range(e.items) :
              LET time == item.time
                  q == item.qualification
              IN  /\ ValidateAuthorityTimeProof(time)
                  /\ ValidateIssuerQualificationProof(q)
                  /\ item.claimed \in time.start..time.end
                  /\ VerifyOutcomeAuthorityTime(time, now)
                  /\ VerifyOutcomeIssuerQualification(q, item, time, now)
         THEN [qualified |-> TRUE,
               highWater |-> Max({item.time.highWater : item \in Range(e.items)})]
         ELSE NotAssessed

-----------------------------------------------------------------------------
(* The operation envelope.                                                  *)

\* PinnedAgentOperationAuthorityV1: a key pin covers [from, until).
KeyPin(key, from, until) == [key |-> key, from |-> from, until |-> until]

AuthorizeAgentOperationKey(pin, issuedAt) ==
    /\ pin.until > pin.from
    /\ pin.from <= issuedAt /\ issuedAt < pin.until
    /\ pin \in Range(operationKeys)

Operation(event, created, pin, expires) ==
    [event |-> event, created |-> created, notBefore |-> created, pin |-> pin,
     expires |-> expires]

ValidateAgentOperationBody(o) ==
    o.created > 0 /\ (o.expires # 0 => o.expires > o.notBefore)

VerifyAgentOperation(o, now) ==
    /\ ValidateAgentOperationBody(o)
    /\ o.created <= now + OperationSkew
    /\ o.notBefore <= now + OperationSkew
    /\ o.expires # 0 => now < o.expires
    /\ AuthorizeAgentOperationKey(o.pin, o.created)

\* ValidateOperationCarrierRequestV1: the carrier checks the bytes and the
\* artifacts; it does not judge their authority.
ValidateOperationCarrierRequest(o) == VerifyArtifacts(Events[o.event])

SignAgentOperation(n, life) ==
    /\ Cardinality(envelopes) < MaxEnvelopes
    /\ outTime > 0
    /\ envelopes' = envelopes \union
         {Operation(n, outTime, Last(operationKeys), IF life = 0 THEN 0 ELSE outTime + life)}
    /\ UNCHANGED <<outTime, operationKeys, pinned, carried, assessed, cohort, proven>>

PublishOperation(o) ==
    /\ o \in envelopes \ carried
    /\ ValidateOperationCarrierRequest(o)
    /\ carried' = carried \union {o}
    /\ UNCHANGED <<outTime, operationKeys, pinned, envelopes, assessed, cohort, proven>>

\* VerifyOperationOutcomeEnvelopeV1, the artifact bundle and the authority
\* assessment, as a reader of the carried bytes applies them.
AssessOutcome(o) ==
    LET verdict == VerifyOperationOutcomeAuthority(Events[o.event], outTime)
    IN  /\ o \in carried
        /\ VerifyAgentOperation(o, outTime)
        /\ verdict # NotAssessed
        /\ [operation |-> o, verdict |-> verdict] \notin assessed
        /\ assessed' = assessed \union {[operation |-> o, verdict |-> verdict]}
        /\ UNCHANGED <<outTime, operationKeys, pinned, envelopes, carried, cohort, proven>>

\* The owner rotates the agent's key: the superseded pin is retained.
PinOperationKey ==
    /\ Len(operationKeys) < MaxOperationKey
    /\ outTime > 0
    /\ operationKeys' = Append(operationKeys,
                               KeyPin(Len(operationKeys) + 1, outTime, MaxOutcomeTime + 1))
    /\ UNCHANGED <<outTime, pinned, envelopes, carried, assessed, cohort, proven>>

PinAuthorityTime ==
    /\ pinned < Len(TimePins)
    /\ TimePins[pinned + 1].end <= outTime
    /\ pinned' = pinned + 1
    /\ UNCHANGED <<outTime, operationKeys, envelopes, carried, assessed, cohort, proven>>

OutcomeTick ==
    /\ outTime < MaxOutcomeTime
    /\ outTime' = outTime + 1
    /\ UNCHANGED <<operationKeys, pinned, envelopes, carried, assessed, cohort, proven>>

-----------------------------------------------------------------------------
(* The cohort's Merkle set (outcome_merkle.go).                             *)

Leaf(m) == <<"leaf", m>>
Node(left, right) == <<"node", left, right>>

Leaves(set) == LET ordered == SetToSortSeq(set, <)
               IN  [i \in DOMAIN ordered |-> Leaf(ordered[i])]

\* The next level of the tree: an odd last digest is promoted unchanged.
Above(level) ==
    [i \in 1..((Len(level) + 1) \div 2) |->
        IF 2 * i > Len(level) THEN level[2 * i - 1]
                              ELSE Node(level[2 * i - 1], level[2 * i])]

RECURSIVE RootOf(_)
RootOf(level) == IF Len(level) = 1 THEN level[1] ELSE RootOf(Above(level))

OutcomeAssertionSetRoot(set) == IF set = {} THEN <<"empty">> ELSE RootOf(Leaves(set))

RECURSIVE SiblingsOf(_, _)
SiblingsOf(level, position) ==
    IF Len(level) = 1 THEN <<>>
    ELSE (IF position % 2 = 1 THEN <<level[position]>>
          ELSE IF position + 1 < Len(level) THEN <<level[position + 2]>> ELSE <<>>)
         \o SiblingsOf(Above(level), position \div 2)

MembershipProof(m, index, count, siblings) ==
    [member |-> m, index |-> index, count |-> count, siblings |-> siblings]

BuildOutcomeCohortMembershipProof(set, m) ==
    LET index == Cardinality({other \in set : other < m})
    IN  MembershipProof(m, index, Cardinality(set), SiblingsOf(Leaves(set), index))

Incomplete == [digest |-> <<"incomplete">>, left |-> <<>>]

RECURSIVE Climb(_, _, _, _)
Climb(digest, position, width, siblings) ==
    IF width = 1 THEN [digest |-> digest, left |-> siblings]
    ELSE IF position % 2 = 0 /\ position + 1 >= width
         THEN Climb(digest, position \div 2, (width + 1) \div 2, siblings)
         ELSE IF siblings = <<>> THEN Incomplete
              ELSE Climb(IF position % 2 = 1 THEN Node(Head(siblings), digest)
                                             ELSE Node(digest, Head(siblings)),
                         position \div 2, (width + 1) \div 2, Tail(siblings))

VerifyOutcomeCohortMembershipProof(proof, root) ==
    /\ proof.index < proof.count
    /\ Climb(Leaf(proof.member), proof.index, proof.count, proof.siblings)
         = [digest |-> root, left |-> <<>>]

CountAttempt(m) ==
    /\ m \notin cohort
    /\ cohort' = cohort \union {m}
    /\ UNCHANGED <<outTime, operationKeys, pinned, envelopes, carried, assessed, proven>>

Digests(set) == {Leaf(m) : m \in Members} \union
    {Node(Leaf(a), Leaf(b)) : a \in set, b \in set} \union {OutcomeAssertionSetRoot(set)}

\* A reader checks a proof against the root of the present cohort: the one the
\* authority builds, or one with any other index, count and path.
CheckMembership(m) ==
    LET root == OutcomeAssertionSetRoot(cohort)
    IN  /\ m \notin proven
        /\ \/ \E count \in 1..Cardinality(Members) : \E index \in 0..(count - 1) :
                \E siblings \in BoundedSeq(Digests(cohort), 2) :
                    VerifyOutcomeCohortMembershipProof(
                        MembershipProof(m, index, count, siblings), root)
           \/ /\ m \in cohort
              /\ VerifyOutcomeCohortMembershipProof(
                     BuildOutcomeCohortMembershipProof(cohort, m), root)
        /\ proven' = proven \union {m}
        /\ UNCHANGED <<outTime, operationKeys, pinned, envelopes, carried, assessed, cohort>>

OutcomeInit ==
    /\ outTime = 0
    /\ operationKeys = <<KeyPin(1, 1, MaxOutcomeTime + 1)>>
    /\ pinned = 0
    /\ envelopes = {}
    /\ carried = {}
    /\ assessed = {}
    /\ cohort = {}
    /\ proven = {}

OutcomeNext ==
    \/ \E n \in DOMAIN Events, life \in Lives : SignAgentOperation(n, life)
    \/ \E o \in envelopes : PublishOperation(o) \/ AssessOutcome(o)
    \/ PinOperationKey
    \/ PinAuthorityTime
    \/ OutcomeTick

CohortNext == \E m \in Members : CountAttempt(m) \/ CheckMembership(m)

-----------------------------------------------------------------------------
(* Properties.                                                              *)

\* "Implementations must resolve delegation and revocation at authorityTime,
\* never at a publisher-selected wall-clock time" (outcome_event.go): what one
\* reader concluded about a carried operation every later reader concludes
\* too, with the same high water, although the agent's key was rotated, the
\* issuer's mandate ended and more authority times were pinned since - until
\* the operation's own expiry.
AssessmentIsStable ==
    \A a \in assessed :
        /\ VerifyOperationOutcomeAuthority(Events[a.operation.event], outTime) = a.verdict
        /\ a.operation.expires = 0 => VerifyAgentOperation(a.operation, outTime)

ExactConversion(v) ==
    LET exact == v.source * v.numerator
        error == (v.target + v.fee) * v.denominator - exact
    IN  CASE v.rule = "floor" -> 0 - v.denominator < error /\ error <= 0
          [] v.rule = "ceiling" -> 0 <= error /\ error < v.denominator
          [] OTHER -> /\ 2 * error <= v.denominator /\ 0 - v.denominator <= 2 * error
                      /\ 2 * error \in {v.denominator, 0 - v.denominator}
                           => (v.target + v.fee) % 2 = 0

\* The figures readers have accepted can be added up: an accepted ledger cut
\* moves no asset in or out of the books, value from inside the economic
\* perimeter is never recognised as revenue, and a converted amount is off by
\* less than the one unit its rounding rule allows, ties going to even.
BooksAreExact ==
    \A a \in assessed :
        LET e == Events[a.operation.event]
        IN  /\ e.uri = "ledger" =>
                 \A asset \in UNION {{line.asset : line \in Range(entry.lines)} :
                                         entry \in Range(e.payload)} :
                     FoldLeft(LAMBDA sum, entry : sum + SideOf(entry, asset, "debit")
                                                      - SideOf(entry, asset, "credit"),
                              0, e.payload) = 0
            /\ e.uri = "revenue" => e.payload.recognized <=
                 (IF e.payload.relationship = "external" THEN e.payload.gross ELSE 0)
            /\ e.uri = "conversion" => ExactConversion(e.payload)

\* VerifyOutcomeCohortMembershipProofV1 accepts the proof built for every
\* member of the cohort, and no claim of another index, count or path makes it
\* accept an assertion the cohort does not count.
MembershipProofsExact ==
    /\ proven \subseteq cohort
    /\ \A m \in cohort : VerifyOutcomeCohortMembershipProof(
           BuildOutcomeCohortMembershipProof(cohort, m), OutcomeAssertionSetRoot(cohort))

\* What a reader concludes about a carried operation, every reader concludes;
\* the figures accepted that way are exact, and so are the proofs that an
\* assertion is counted.
AssessedIsSound == AssessmentIsStable /\ BooksAreExact /\ MembershipProofsExact
=============================================================================
