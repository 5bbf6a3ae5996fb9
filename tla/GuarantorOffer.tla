--------------------------- MODULE GuarantorOffer ---------------------------
(***************************************************************************)
(* How a coverage comes into force: the documents of pkg/agentguarantor.   *)
(*                                                                         *)
(* A guarantor publishes a service profile.  The party to be covered signs *)
(* a quote request under it; the exposure authority reserves an amount;    *)
(* the guarantor signs a firm offer carrying the coverage terms; the       *)
(* covered party accepts it; the offer's authority admits the acceptance.  *)
(* From then on the coverage is either activated (a collateralised one     *)
(* against evidence of its collateral position) or resolved as never       *)
(* activated against a cut of the activation log.                          *)
(*                                                                         *)
(* The digest of terms is their number.  The signatures are those of the   *)
(* parties the code resolves keys for; what the guarantor chooses to sign  *)
(* is unconstrained, so the verifiers carry the properties.                *)
(***************************************************************************)
EXTENDS Integers, FiniteSets, Sequences, TLC

CONSTANTS GuarantorProfile,      \* the ServiceProfileV1 the guarantor published
          CoverageRequests,    \* the terms a covered party may ask for, numbered
          CoverageOffers,      \* the coverage terms the guarantor may sign, numbered
          Reserved,            \* the amounts it may have reserved
          OfferLives,          \* how long an offer may be open
          OfferGrace,          \* AcceptanceProcessingGraceSeconds
          RequestLife,         \* bound of a quote request's lifetime (24 hours)
          ClockSkewed,         \* the five minutes a document may lie ahead
          Whole,               \* 1_000_000 parts per million
          GuarantorRoots,      \* the subjects declared to be the guarantor's own
          Controllers,         \* who may turn out to control the stage authorities
          ControlAge,          \* MaximumControlEvidenceAgeSeconds
          DrawAmounts,         \* the amounts of collateral transitions
          MaxTransitions,      \* bound of the collateral position's revisions
          MaxActivations,         \* bound of the activation log
          MaxCoverTime         \* bound of the clock

VARIABLES coverTime,   \* time.Now()
          quoted,      \* the signed quote request
          offered,     \* the signed firm offer
          acceptance,  \* the acceptance receipt and, later, its fate
          position,    \* the collateral position and the evidence of its steps
          attempts     \* the activation admission log

coverVars == <<coverTime, quoted, offered, acceptance, position, attempts>>

Levels == {"unsecured", "attested", "independent"}
Secured(level) == level # "unsecured"

-----------------------------------------------------------------------------
\* The published profile.

\* A claim profile: who decides claims, and the capacity and deadlines offered.
ClaimProfile(id, authority, capacity, review, payout, fallbacks) ==
  [id |-> id, authority |-> authority, capacity |-> capacity, review |-> review,
   payout |-> payout, fallbacks |-> fallbacks]

Capacity(claims, ingress, revisions) ==
  [claims |-> claims, ingress |-> ingress, revisions |-> revisions]

CollateralProfile(id, level, ppm, compatible, executors, age) ==
  [id |-> id, level |-> level, ppm |-> ppm, compatible |-> compatible,
   executors |-> executors, age |-> age]

\* The product is bounded by division, so that it cannot wrap.
ValidateClaimProfiles(profiles) ==
  \A p \in profiles :
    /\ p.capacity.claims > 0
    /\ p.capacity.revisions > 0
    /\ p.capacity.ingress >= p.capacity.claims
    /\ p.capacity.claims <= p.capacity.ingress \div p.capacity.revisions
    /\ p.review > 0
    /\ p.payout > 0
    /\ p.fallbacks # {}

ValidateCollateralProfiles(profiles, claims) ==
  \A c \in profiles :
    /\ Secured(c.level)
    /\ c.ppm > 0
    /\ c.age > 0
    /\ c.compatible # {}
    /\ c.compatible \subseteq {p.id : p \in claims}
    /\ c.level = "independent" => c.ppm >= Whole /\ c.executors # {}
    /\ c.level = "attested" => c.executors = {}

ValidateCoverageCapability(k) ==
  k.most >= k.least /\ k.longest > 0 /\ k.window > 0

ValidateServiceProfile(p, now) ==
  /\ p.created < p.expires
  /\ p.created <= now + ClockSkewed
  /\ now < p.expires
  /\ p.grace > 0
  /\ \A k \in p.capabilities : ValidateCoverageCapability(k)
  /\ ValidateClaimProfiles(p.claims)
  /\ ValidateCollateralProfiles(p.collateral, p.claims)

-----------------------------------------------------------------------------
\* The quote request.

\* What a covered party asks for: amounts, window, claim profile, assurance.
RequestedTerms(aggregate, perClaim, capacity, starts, ends, filing, claim, level, collateral) ==
  [aggregate |-> aggregate, perClaim |-> perClaim, capacity |-> capacity,
   starts |-> starts, ends |-> ends, filing |-> filing, claim |-> claim,
   level |-> level, collateral |-> collateral]

ValidateClaimClosureCapacity(c) ==
  /\ c.revisions > 0
  /\ c.ingress >= c.claims * c.revisions
  /\ c.claims > 0

ValidateRequestedCoverageTerms(t) ==
  /\ t.perClaim > 0
  /\ t.perClaim <= t.aggregate
  /\ ValidateClaimClosureCapacity(t.capacity)
  /\ t.starts < t.ends
  /\ t.ends <= t.filing
  /\ t.level \in Levels
  /\ Secured(t.level) = (t.collateral # "")

ValidateQuoteRequestShape(q) ==
  /\ ValidateRequestedCoverageTerms(CoverageRequests[q.terms])
  /\ q.created < q.expires
  /\ q.expires - q.created <= RequestLife

ContainsCapacity(p, c) ==
  \A f \in {"claims", "ingress", "revisions"} : c[f] <= p.capacity[f]

ProfileSupportsRequest(p, t) ==
  /\ \E k \in p.capabilities :
       /\ t.ends - t.starts <= k.longest
       /\ t.filing - t.ends <= k.window
       /\ t.aggregate \in k.least .. k.most
  /\ \E c \in p.claims : c.id = t.claim /\ ContainsCapacity(c, t.capacity)
  /\ Secured(t.level) => \E c \in p.collateral : c.id = t.collateral /\ c.level = t.level

VerifyQuoteRequest(q, p, now) ==
  /\ ValidateServiceProfile(p, now)
  /\ ValidateQuoteRequestShape(q)
  /\ q.created >= p.created
  /\ q.expires <= p.expires
  /\ now < q.expires
  /\ ProfileSupportsRequest(p, CoverageRequests[q.terms])

-----------------------------------------------------------------------------
\* Coverage terms and the firm offer.

\* The collateral a term sheet pledges: when it is locked, until when it is held.
CollateralTerms(profile, amount, lockBy, lockUntil, releaseFrom, executors, age) ==
  [profile |-> profile, amount |-> amount, lockBy |-> lockBy, lockUntil |-> lockUntil,
   releaseFrom |-> releaseFrom, executors |-> executors, age |-> age]
NoCollateral == [profile |-> "", amount |-> 0, lockBy |-> 0, lockUntil |-> 0,
                 releaseFrom |-> 0, executors |-> {}, age |-> 0]

\* What the guarantor binds itself to.  payer, payee and bounds of the payout
\* template are those of the terms and are left out.
CoverageTerms(request, authority, review, payout, fallback, terminal, collateral) ==
  [request |-> request, authority |-> authority, review |-> review, payout |-> payout,
   fallback |-> fallback, terminal |-> terminal, collateral |-> collateral]

ValidateCollateralTerms(c) ==
  /\ c.amount > 0
  /\ c.lockBy > 0
  /\ c.lockUntil >= c.lockBy
  /\ c.releaseFrom >= c.lockUntil
  /\ c.age > 0

\* The terms restate the amounts, the window and the selections of a request.
ValidateCoverageTerms(t) ==
  /\ ValidateRequestedCoverageTerms(t.request)
  /\ t.review > 0
  /\ t.payout > 0
  /\ t.terminal >= t.request.filing
  /\ IF Secured(t.request.level)
     THEN t.collateral.profile = t.request.collateral /\ ValidateCollateralTerms(t.collateral)
     ELSE t.collateral = NoCollateral

\* A bug: the share is rounded down.
RequiredRoundedDown(t, c) == (t.request.aggregate * c.ppm) \div Whole

RequiredCollateral(t, c) == (t.request.aggregate * c.ppm + Whole - 1) \div Whole

\* The terms are those of the claim profile they select themselves.
ValidateCoverageTermsAgainstServiceProfile(t, p) ==
  /\ ValidateCoverageTerms(t)
  /\ \E k \in p.claims :
       /\ k.id = t.request.claim
       /\ t.authority = k.authority
       /\ t.fallback \in k.fallbacks
       /\ ContainsCapacity(k, t.request.capacity)
       /\ t.review <= k.review
       /\ t.payout <= k.payout
  /\ Secured(t.request.level) =>
       \E c \in p.collateral :
         /\ c.id = t.request.collateral
         /\ t.request.claim \in c.compatible
         /\ t.collateral.age <= c.age
         /\ t.collateral.amount >= RequiredCollateral(t, c)
         /\ t.request.level = "independent" => t.collateral.executors = c.executors

\* ProviderExposureAdmissionReceiptV1: what is set aside for the offer.
ExposureReceipt(terms, amount, expires) ==
  [terms |-> terms, amount |-> amount, expires |-> expires]

FirmOffer(request, terms, receipt, from, by, expires) ==
  [request |-> request, terms |-> terms, receipt |-> receipt, from |-> from,
   by |-> by, expires |-> expires]
NoOffer == [by |-> 0]
TermsOf(o) == CoverageOffers[o.terms]
NoCoverageRequest == [expires |-> 0]

ValidateFirmOfferShape(o) ==
  /\ ValidateCoverageTerms(TermsOf(o))
  /\ ValidateQuoteRequestShape(o.request)
  /\ o.from < o.by
  /\ o.by + OfferGrace <= o.receipt.expires
  /\ o.by < o.expires

\* A bug: the reservation's amount is not compared with the promise.
AnyReservation(o) == o.receipt.terms = o.terms

ExposureBound(o) ==
  /\ o.receipt.terms = o.terms
  /\ o.receipt.amount = TermsOf(o).request.aggregate

VerifyFirmOffer(o, now) ==
  /\ ValidateFirmOfferShape(o)
  /\ ValidateCoverageTermsAgainstServiceProfile(TermsOf(o), GuarantorProfile)
  /\ VerifyQuoteRequest(o.request, GuarantorProfile, now)
  /\ o.from <= now
  /\ now < o.by
  /\ ExposureBound(o)

\* The Agreement's verifier looks at the offer again when the acceptance is
\* verified, now without its acceptance window and its exposure binding.
VerifyFirmOfferAgreementEvidenceIntrinsic(o, now) ==
  /\ ValidateFirmOfferShape(o)
  /\ VerifyQuoteRequest(o.request, GuarantorProfile, now)
  /\ ValidateCoverageTermsAgainstServiceProfile(TermsOf(o), GuarantorProfile)

-----------------------------------------------------------------------------
\* Acceptance.

NoAcceptance == [state |-> "none"]

VerifyCoverageAcceptanceRequest(a, o, now) ==
  /\ a.expires >= a.created
  /\ now <= a.expires
  /\ a.created >= o.from
  /\ a.created <= o.by
  /\ a.expires <= o.expires
  /\ VerifyFirmOfferAgreementEvidenceIntrinsic(o, now)

\* The receipt is verified as of the time it was accepted at.
VerifyCoverageAcceptanceReceipt(a, o, now) ==
  /\ a.accepted >= a.received
  /\ a.accepted <= now + ClockSkewed
  /\ VerifyCoverageAcceptanceRequest(a, o, a.accepted)
  /\ a.received <= o.by
  /\ a.accepted <= o.by + OfferGrace
  /\ a.accepted <= o.receipt.expires

-----------------------------------------------------------------------------
\* The collateral position.

TransitionRules ==
  [lock |-> [prior |-> {"lock_pending", "unproven"}, result |-> {"locked"}],
   encumber |-> [prior |-> {"locked"}, result |-> {"encumbered"}],
   payout |-> [prior |-> {"encumbered", "partially_consumed"},
               result |-> {"depleted", "partially_consumed"}],
   release |-> [prior |-> {"encumbered", "locked", "partially_consumed"},
                result |-> {"released"}],
   reorg |-> [prior |-> {"encumbered", "locked", "partially_consumed"},
              result |-> {"reorged"}],
   position_impairment |-> [prior |-> {"encumbered", "locked", "partially_consumed", "reorged"},
                            result |-> {"defaulted"}],
   payout_default |-> [prior |-> {"encumbered", "partially_consumed"},
                       result |-> {"defaulted"}]]

\* CollateralPositionStateV1 of a position nothing has happened to.
Unproven(amount) ==
  [revision |-> 1, status |-> "unproven", allocated |-> amount, consumed |-> 0,
   released |-> 0, impaired |-> 0, remaining |-> amount]
NoPosition == [revision |-> 0]

ValidateCollateralPositionState(s) ==
  /\ {s.consumed, s.released, s.impaired, s.remaining} \subseteq Nat
  /\ s.consumed + s.released + s.impaired + s.remaining = s.allocated

ValidateCollateralAdapterRequest(s, kind, amount) ==
  /\ ValidateCollateralPositionState(s)
  /\ amount > 0
  /\ s.status \in TransitionRules[kind].prior

Successor(s, kind, amount) ==
  LET next == [s EXCEPT !.revision = @ + 1] IN
  CASE kind = "lock" -> [next EXCEPT !.status = "locked"]
    [] kind = "encumber" -> [next EXCEPT !.status = "encumbered"]
    [] kind = "payout" ->
         [next EXCEPT !.remaining = @ - amount, !.consumed = @ + amount,
                      !.status = IF s.remaining = amount THEN "depleted" ELSE "partially_consumed"]
    [] kind = "release" ->
         [next EXCEPT !.released = @ + s.remaining, !.remaining = 0, !.status = "released"]
    [] kind = "reorg" -> [next EXCEPT !.status = "reorged"]
    [] OTHER ->
         [next EXCEPT !.remaining = @ - amount, !.impaired = @ + amount, !.status = "defaulted"]

\* TRUE iff ApplyCollateralAdapterTransitionV1 returns the successor.
ApplyCollateralAdapterTransition(s, kind, amount) ==
  /\ ValidateCollateralAdapterRequest(s, kind, amount)
  /\ kind \in {"payout", "position_impairment", "payout_default"} => amount <= s.remaining
  /\ Successor(s, kind, amount).status \in TransitionRules[kind].result
  /\ ValidateCollateralPositionState(Successor(s, kind, amount))

\* A bug: evidence of a position never goes stale.
VerifiedWhateverItsAge(e, t, now) ==
  /\ ApplyCollateralAdapterTransition(e.before, e.kind, e.amount)
  /\ e.after = Successor(e.before, e.kind, e.amount)
  /\ now >= e.finalized

VerifyCollateralEvidence(e, t, now) ==
  /\ ApplyCollateralAdapterTransition(e.before, e.kind, e.amount)
  /\ e.after = Successor(e.before, e.kind, e.amount)
  /\ now >= e.finalized
  /\ now <= e.finalized + t.collateral.age

\* Who controls the custodian, as observed and for how long that may be relied on.
ControlEvidence(controllers, observed, expires) ==
  [controllers |-> controllers, observed |-> observed, expires |-> expires]
NoControl == ControlEvidence({}, 0, 0)

VerifyCollateralControlEvidence(c, now) ==
  /\ c.observed > 0
  /\ c.expires > c.observed
  /\ c.observed <= now
  /\ now < c.expires

\* No stage authority, nor whoever controls it in turn, is the guarantor.
VerifyOperationalIndependenceEvidence(c, now) ==
  /\ VerifyCollateralControlEvidence(c, now)
  /\ c.expires - c.observed <= ControlAge
  /\ c.controllers \intersect GuarantorRoots = {}

\* What an activation of a collateralised coverage rests on.
VerifyActivationCollateralPrerequisite(items, c, t, now) ==
  /\ \E e \in items :
       /\ VerifyCollateralEvidence(e, t, now)
       /\ e.kind \in {"lock", "encumber"}
       /\ e.after.status \in {"locked", "encumbered"}
       /\ e.after.remaining >= t.collateral.amount
  /\ VerifyCollateralControlEvidence(c, now)
  /\ t.request.level = "independent" => VerifyOperationalIndependenceEvidence(c, now)

-----------------------------------------------------------------------------
\* Activation, or the proof that there was none.

VerifyCoverageActivationEvidence(a, o, items, c, now) ==
  /\ now < TermsOf(o).request.ends
  /\ Secured(TermsOf(o).request.level) =>
       VerifyActivationCollateralPrerequisite(items, c, TermsOf(o), now)
  /\ VerifyCoverageAcceptanceReceipt(a, o, now)

InCut(log, cutoff) == {i \in DOMAIN log : log[i].received <= cutoff}

\* A bug: an attempt of unknown outcome does not count.
CutCountsAccepted(log, cutoff) ==
  \A i \in InCut(log, cutoff) : log[i].state # "accepted"

\* accepted_count and pending_or_ambiguous_count of the cut are both zero.
ActivationAdmissionCut(log, cutoff) ==
  \A i \in InCut(log, cutoff) : log[i].state \in {"rejected", "conflict"}

\* A mutual cancellation must itself expire by the cutoff and be alive when it
\* is verified; prerequisite failures carry their own authority's signatures.
VerifyCoverageNonActivationReason(reason, o, cutoff, cancelBy, now) ==
  CASE reason = "activation_window_expired" -> cutoff = TermsOf(o).request.starts
    [] reason = "prerequisite_failed" -> TRUE
    [] reason = "mutually_cancelled" -> cancelBy <= cutoff /\ now < cancelBy

\* The evidence is dated by the authority that signs it: ResolvedAtUnix is now.
VerifyCoverageNonActivationEvidence(a, o, log, reason, cutoff, cancelBy, now) ==
  /\ ActivationAdmissionCut(log, cutoff)
  /\ now >= cutoff
  /\ VerifyCoverageNonActivationReason(reason, o, cutoff, cancelBy, now)
  /\ VerifyCoverageAcceptanceReceipt(a, o, now)

-----------------------------------------------------------------------------
CoverInit ==
  /\ coverTime = 1
  /\ quoted = NoCoverageRequest
  /\ offered = NoOffer
  /\ acceptance = NoAcceptance
  /\ position = [state |-> NoPosition, evidence |-> {}, control |-> NoControl]
  /\ attempts = <<>>

\* The covered party signs a quote request under the published profile.
SignQuoteRequest ==
  /\ quoted = NoCoverageRequest
  /\ \E t \in DOMAIN CoverageRequests :
       LET q == [terms |-> t, created |-> coverTime,
                 expires |-> coverTime + RequestLife] IN
       VerifyQuoteRequest(q, GuarantorProfile, coverTime) /\ quoted' = q
  /\ UNCHANGED <<coverTime, offered, acceptance, position, attempts>>

\* The guarantor reserves an amount and signs a firm offer: terms of its choice,
\* open from now.  Whatever has the shape of an offer has a digest and is signed.
SignFirmOffer ==
  /\ quoted # NoCoverageRequest
  /\ offered = NoOffer
  /\ \E t \in DOMAIN CoverageOffers, n \in Reserved, life \in OfferLives :
       LET by == coverTime + life
           o == FirmOffer(quoted, t, ExposureReceipt(t, n, by + OfferGrace),
                          coverTime, by, by + OfferGrace) IN
       ValidateFirmOfferShape(o) /\ offered' = o
  /\ UNCHANGED <<coverTime, quoted, acceptance, position, attempts>>

\* The covered party verifies the offer and signs its acceptance.
AcceptOffer ==
  /\ offered # NoOffer
  /\ acceptance = NoAcceptance
  /\ VerifyFirmOffer(offered, coverTime)
  /\ acceptance' = [state |-> "requested", created |-> coverTime, expires |-> offered.expires,
                    received |-> 0, accepted |-> 0]
  /\ UNCHANGED <<coverTime, quoted, offered, position, attempts>>

\* The offer's authority sequences the request when it arrives ...
ReceiveAcceptance ==
  /\ acceptance.state = "requested"
  /\ acceptance' = [acceptance EXCEPT !.state = "received", !.received = coverTime]
  /\ UNCHANGED <<coverTime, quoted, offered, position, attempts>>

\* ... and signs its receipt, which the relying parties verify.
AdmitAcceptance ==
  /\ acceptance.state = "received"
  /\ LET a == [acceptance EXCEPT !.state = "accepted", !.accepted = coverTime] IN
     VerifyCoverageAcceptanceReceipt(a, offered, coverTime) /\ acceptance' = a
  /\ position' = IF Secured(TermsOf(offered).request.level)
                 THEN [position EXCEPT !.state = Unproven(TermsOf(offered).collateral.amount)]
                 ELSE position
  /\ UNCHANGED <<coverTime, quoted, offered, attempts>>

\* The custody adapter finalizes a transition of the position.
CollateralTransition ==
  /\ position.state # NoPosition
  /\ position.state.revision < MaxTransitions
  /\ \E kind \in DOMAIN TransitionRules, n \in DrawAmounts :
       /\ ApplyCollateralAdapterTransition(position.state, kind, n)
       /\ LET after == Successor(position.state, kind, n) IN
          position' = [position EXCEPT
                         !.state = after,
                         !.evidence = @ \union
                           {[before |-> position.state, kind |-> kind, amount |-> n,
                             after |-> after, finalized |-> coverTime]}]
  /\ UNCHANGED <<coverTime, quoted, offered, acceptance, attempts>>

\* The control of the custodian is looked up and attested.
ObserveControl ==
  /\ position.state # NoPosition
  /\ position.control = NoControl
  /\ \E c \in Controllers :
       position' = [position EXCEPT !.control =
                      ControlEvidence(c, coverTime, coverTime + ControlAge)]
  /\ UNCHANGED <<coverTime, quoted, offered, acceptance, attempts>>

\* An activation attempt reaches the authority's log; its outcome is not yet known.
AttemptActivation ==
  /\ acceptance.state = "accepted"
  /\ Len(attempts) < MaxActivations
  /\ attempts' = Append(attempts, [received |-> coverTime, state |-> "pending"])
  /\ UNCHANGED <<coverTime, quoted, offered, acceptance, position>>

\* An attempt is resolved: refused, or applied with evidence that verifies.
ResolveAttempt(i) ==
  /\ attempts[i].state = "pending"
  /\ \/ /\ acceptance.state = "accepted"
        /\ VerifyCoverageActivationEvidence(acceptance, offered, position.evidence,
                                            position.control, coverTime)
        /\ acceptance' = [acceptance EXCEPT !.state = "active"] @@ [activated |-> coverTime]
        /\ attempts' = [attempts EXCEPT ![i].state = "accepted"]
     \/ /\ attempts' = [attempts EXCEPT ![i].state = "rejected"]
        /\ UNCHANGED acceptance
  /\ UNCHANGED <<coverTime, quoted, offered, position>>

\* The authority confirms that the coverage was never activated.
ConfirmNonActivation ==
  /\ acceptance.state = "accepted"
  /\ \E reason \in {"activation_window_expired", "prerequisite_failed", "mutually_cancelled"},
        cutoff \in {TermsOf(offered).request.starts, coverTime}, cancelBy \in 1 .. MaxCoverTime :
       /\ VerifyCoverageNonActivationEvidence(acceptance, offered, attempts, reason, cutoff,
                                              cancelBy, coverTime)
       /\ acceptance' = [acceptance EXCEPT !.state = "not_activated"] @@ [cutoff |-> cutoff]
  /\ UNCHANGED <<coverTime, quoted, offered, position, attempts>>

CoverTick ==
  /\ coverTime < MaxCoverTime
  /\ coverTime' = coverTime + 1
  /\ UNCHANGED <<quoted, offered, acceptance, position, attempts>>

CoverNext ==
  \/ SignQuoteRequest \/ SignFirmOffer \/ AcceptOffer \/ ReceiveAcceptance
  \/ AdmitAcceptance \/ CollateralTransition \/ ObserveControl \/ AttemptActivation
  \/ \E i \in DOMAIN attempts : ResolveAttempt(i)
  \/ ConfirmNonActivation \/ CoverTick

-----------------------------------------------------------------------------
Accepted == acceptance.state \in {"accepted", "active", "not_activated"}

\* What an admitted acceptance is worth: the whole of the promised payout is
\* reserved by a reservation alive when it was admitted, the pledged collateral
\* is at least the published share of it, exactly, and claims are decided by an
\* authority the guarantor published (VerifyFirmOffer,
\* ValidateCoverageTermsAgainstServiceProfile, VerifyCoverageAcceptanceReceiptV1).
AcceptedCoverageIsBacked ==
  Accepted =>
    LET t == TermsOf(offered) IN
    /\ offered.receipt.amount >= t.request.aggregate
    /\ acceptance.accepted <= offered.receipt.expires
    /\ t.authority \in {k.authority : k \in GuarantorProfile.claims}
    /\ Secured(t.request.level) =>
         \E c \in GuarantorProfile.collateral :
           /\ c.id = t.request.collateral
           /\ t.collateral.amount * Whole >= t.request.aggregate * c.ppm

\* A coverage that is active was secured when it was activated: its position had
\* been locked or encumbered with the whole pledge, no longer ago than the age
\* the published profile grants, and where it was sold as independently
\* enforced nobody in control of it was the guarantor; and whatever happens to
\* the position later, what was paid out, released, lost and still remains is
\* together what was pledged (verifyActivationCollateralPrerequisiteV1,
\* ApplyCollateralAdapterTransitionV1).
ActiveIsSecured ==
  acceptance.state = "active" /\ Secured(TermsOf(offered).request.level) =>
    LET t == TermsOf(offered)
        s == position.state IN
    /\ \E e \in position.evidence :
         /\ e.after.status \in {"locked", "encumbered"}
         /\ e.after.remaining >= t.collateral.amount
         /\ \E c \in GuarantorProfile.collateral :
              c.id = t.request.collateral /\ acceptance.activated \in e.finalized .. e.finalized + c.age
    /\ t.request.level = "independent" => position.control.controllers \intersect GuarantorRoots = {}
    /\ s.consumed + s.released + s.impaired + s.remaining = t.collateral.amount

\* From the acceptance to the activation and after it, coverage is backed by
\* what the guarantor published and pledged.
CoverageIsBacked == AcceptedCoverageIsBacked /\ ActiveIsSecured

\* A coverage resolved as never activated leaves no activation behind: every
\* attempt received by the cutoff had been refused, none was applied and none
\* was of unknown outcome (ValidateActivationAdmissionCutProofV1).
NonActivationLeavesNoAttempt ==
  acceptance.state = "not_activated" =>
    \A i \in DOMAIN attempts :
      attempts[i].received <= acceptance.cutoff => attempts[i].state \in {"rejected", "conflict"}
=============================================================================
