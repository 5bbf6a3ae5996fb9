-------------------------- MODULE GuarantorCoverage --------------------------
(***************************************************************************)
(* One coverage of the guarantor (pkg/agentguarantor): the firm offer and   *)
(* the exposure reserved for it, the coverage record, the claims made       *)
(* against it and the way the reservation is given back.                    *)
(*                                                                          *)
(* The package holds the transitions of the records (state.go) and the      *)
(* verifier of the receipt of each step; the authority that stores the      *)
(* records and issues the receipts is another system. An action here is a   *)
(* step whose receipt verifies. Every step names the revisions it replaces, *)
(* so it happens in one piece. Three things the verifiers leave to the      *)
(* authority are taken as done: it carries a claim's round counters from    *)
(* one receipt to the next, it puts a decision's deadlines in its receipt,  *)
(* and it releases one reservation once.                                    *)
(*                                                                          *)
(* Amounts are small numbers. Of the time only the deadlines are kept: per  *)
(* claim the one that is running, and for the coverage the era its filing   *)
(* and resolution deadlines divide it into.                                 *)
(***************************************************************************)
EXTENDS Integers, FiniteSets, FiniteSetsExt

CONSTANTS MaxClaims,  \* bounds the claims in the model that are not rejected
          MaximumAggregatePayout, MaximumPerClaim,
          MaximumChallengeRoundsPerClaim, MaximumNonterminalRoundsPerClaim,
          MaxRounds   \* bounds the challenges, responses and revisions of all
                      \* claims together in the model

ASSUME GuarantorAssumption ==
  /\ {MaxClaims, MaximumAggregatePayout, MaximumPerClaim, MaximumChallengeRoundsPerClaim,
      MaximumNonterminalRoundsPerClaim, MaxRounds} \subseteq Nat
  /\ MaximumPerClaim \in 1 .. MaximumAggregatePayout

VARIABLES
  terms,       \* of the agreement: the fallback's outcome rule, and whether its
               \* authority subjects are the decision authority subjects
  offer,       \* OfferRecord.Status
  portfolio,   \* where the reserved exposure is
  coverage,    \* CoverageRecord; "touched" once its revision left the activated one
  received,    \* claims in the ingress log that are neither admitted nor rejected
  claims,      \* per admission sequence
  reserve,     \* AggregatePendingDecisionReserve
  cumulative,  \* CumulativeApproved
  era          \* 0 until the filing cutoff, 1 until the terminal resolution
               \* deadline, 2 until the late recovery deadline, 3 afterwards

vars == <<terms, offer, portfolio, coverage, received, claims, reserve, cumulative, era>>

Claims == 1 .. MaxClaims
Amounts == 0 .. MaximumAggregatePayout
Outcomes == {"closed", "cancelled", "exhausted", "defaulted", "closed_not_activated"}
CoverageRecords ==
  [status : {"none", "pending_authorization", "active", "not_activated_confirmed",
             "coverage_ended", "release_pending"} \cup Outcomes,
   filing : {"not_open", "open", "frozen"},
   touched : BOOLEAN, late : BOOLEAN, outcome : Outcomes \cup {"none"}]

\* "decided" stands for approved, partially_approved and denied, which the
\* amount tells apart, "nonterminal" for evidence_required and disputed.
ClaimRecords ==
  [status : {"none", "admitted", "decided", "nonterminal", "reviewing", "final"},
   revision : 0 .. 2, path : {"none", "ordinary", "fallback"},
   amount : Amounts, token : {"none", "pending", "consumed"},
   challenges : 0 .. MaximumChallengeRoundsPerClaim,
   responses : 0 .. MaximumNonterminalRoundsPerClaim,
   window : {"open", "at", "past"},   \* the running deadline: before, on, after
   payable : BOOLEAN, paid : Amounts, defaulted : Amounts]

NoClaim ==
  [status |-> "none", revision |-> 0, path |-> "none", amount |-> 0, token |-> "none",
   challenges |-> 0, responses |-> 0, window |-> "open",
   payable |-> TRUE, paid |-> 0, defaulted |-> 0]

Init ==
  /\ terms \in [aligned : BOOLEAN, rule : {"deny_zero", "accepted_benefit_calculation"}]
  /\ offer = "issued"
  /\ portfolio = [reserved |-> MaximumAggregatePayout, returned |-> 0,
                  realized |-> 0, retained |-> 0]
  /\ coverage = [status |-> "none", filing |-> "not_open", touched |-> FALSE,
                 late |-> FALSE, outcome |-> "none"]
  /\ received = 0
  /\ claims = [c \in Claims |-> NoClaim]
  /\ reserve = 0 /\ cumulative = 0 /\ era = 0

Money == <<portfolio, reserve, cumulative>>
SumOver(S, f(_)) == MapThenSumSet(f, S)
Paid == LET f(c) == claims[c].paid IN SumOver(Claims, f)
Defaulted == LET f(c) == claims[c].defaulted IN SumOver(Claims, f)
Approved == LET f(c) == claims[c].amount IN SumOver(Claims, f)
Rounds == LET f(c) == claims[c].challenges + claims[c].responses +
                      (IF claims[c].revision = 2 THEN 1 ELSE 0)
          IN SumOver(Claims, f)
Admitted(c) == claims[c].status # "none"
HighWater == Cardinality({c \in Claims : Admitted(c)})   \* ClaimAdmissionHighWater

--------------------------------------------------------------------------------
(* The offer and the coverage. *)

\* Mutant: an offer is accepted whatever became of it.
AcceptAnyOffer ==
  /\ offer # "accepted"
  /\ offer' = "accepted"
  /\ coverage' = [coverage EXCEPT !.status = "pending_authorization"]
  /\ UNCHANGED <<terms, received, claims, era, Money>>

\* AcceptIssuedOffer with NewAcceptedCoverageRecord.
AcceptIssuedOffer ==
  /\ offer = "issued"
  /\ offer' = "accepted"
  /\ coverage' = [coverage EXCEPT !.status = "pending_authorization"]
  /\ UNCHANGED <<terms, received, claims, era, Money>>

ExpireIssuedOffer ==
  /\ offer = "issued"
  /\ offer' = "expired"
  /\ UNCHANGED <<terms, received, coverage, claims, era, Money>>

\* All of a reservation that no claim can draw on goes back.
ReturnAll == portfolio' = [portfolio EXCEPT !.reserved = 0, !.returned = portfolio.reserved]

ReleaseExpiredOffer ==
  /\ offer = "expired"
  /\ offer' = "released"
  /\ ReturnAll
  /\ UNCHANGED <<terms, received, coverage, claims, reserve, cumulative, era>>

ActivateAcceptedCoverage ==
  /\ coverage.status = "pending_authorization" /\ coverage.filing = "not_open"
  /\ era = 0
  /\ coverage' = [coverage EXCEPT !.status = "active", !.filing = "open"]
  /\ UNCHANGED <<terms, offer, received, claims, era, Money>>

ConfirmCoverageNonActivation ==
  /\ coverage.status = "pending_authorization" /\ coverage.filing = "not_open"
  /\ coverage' = [coverage EXCEPT !.status = "not_activated_confirmed"]
  /\ UNCHANGED <<terms, offer, received, claims, era, Money>>

\* The cancellation receipt names the revision the activation made.
ApplyCoverageCancellation ==
  /\ coverage.status = "active" /\ ~coverage.touched
  /\ era = 0
  /\ coverage' = [coverage EXCEPT !.status = "coverage_ended", !.touched = TRUE]
  /\ UNCHANGED <<terms, offer, received, claims, era, Money>>

--------------------------------------------------------------------------------
(* Filing. *)

ReceiveClaim ==
  /\ coverage.filing = "open" /\ era = 0
  /\ received + HighWater < MaxClaims
  /\ received' = received + 1
  /\ UNCHANGED <<terms, offer, coverage, claims, era, Money>>

RejectClaim ==
  /\ received > 0
  /\ received' = received - 1
  /\ UNCHANGED <<terms, offer, coverage, claims, era, Money>>

AdmitClaim ==
  /\ received > 0
  /\ coverage.status = "active" /\ coverage.filing = "open"
  /\ received' = received - 1
  /\ claims' = [claims EXCEPT ![HighWater + 1] =
                   [@ EXCEPT !.status = "admitted", !.revision = 1]]
  /\ coverage' = [coverage EXCEPT !.touched = TRUE]
  /\ UNCHANGED <<terms, offer, era, Money>>

\* A revision starts the claim over at "admitted", with decision sequence 0 and
\* no head decision. Its receipt carries no application token, so the reserve of
\* a token that was pending stays. The record keeps the digest of the first claim
\* body, so only the first revision names the predecessor it expects.
ReviseClaim(c) ==
  /\ claims[c].status \in {"admitted", "nonterminal", "reviewing"}
  /\ claims[c].revision = 1 /\ Rounds < MaxRounds
  /\ coverage.status \in {"active", "coverage_ended"}
  /\ coverage.filing \in {"open", "frozen"}
  /\ claims' = [claims EXCEPT ![c] =
       [@ EXCEPT !.status = "admitted", !.revision = 2, !.path = "none",
                 !.amount = 0, !.token = "none", !.window = "open"]]
  /\ coverage' = [coverage EXCEPT !.touched = TRUE]
  /\ UNCHANGED <<terms, offer, received, era, Money>>

\* The cut that closes filing leaves no received claim unresolved.
FreezeClaimFiling ==
  /\ coverage.status \in {"active", "coverage_ended"} /\ coverage.filing = "open"
  /\ era > 0
  /\ received = 0
  /\ coverage' = [coverage EXCEPT !.filing = "frozen", !.touched = TRUE, !.late = era = 2]
  /\ UNCHANGED <<terms, offer, received, claims, era, Money>>

--------------------------------------------------------------------------------
(* Decisions. *)

\* The amount a decision gets back from the one it replaces: after a challenge
\* that decision's application token is still pending.
Reclaimable(c) ==
  IF claims[c].status = "reviewing" /\ claims[c].token = "pending"
    THEN claims[c].amount ELSE 0

\* A decision admission puts its result at the head of the claim and its
\* approved amount in the reserve. Only the reserve is held to the maximum.
Decision(c, status, path, amount) ==
  LET after == reserve + amount - Reclaimable(c) IN
  /\ after \in Amounts
  /\ reserve' = after
  /\ claims' = [claims EXCEPT ![c] =
       [@ EXCEPT !.status = status, !.path = path, !.amount = amount, !.window = "open",
                 !.token = IF status = "decided" THEN "pending" ELSE "none"]]
  /\ coverage' = [coverage EXCEPT !.touched = TRUE]
  /\ UNCHANGED <<terms, offer, received, portfolio, cumulative, era>>

MayDecide(c) ==
  \/ claims[c].status = "admitted"
  \/ claims[c].status = "reviewing" /\ claims[c].window # "past"

AdmitDecision(c) ==
  /\ MayDecide(c)
  /\ \E amount \in 0 .. MaximumPerClaim : Decision(c, "decided", "ordinary", amount)

AdmitNonterminalDecision(c) ==
  /\ MayDecide(c)
  /\ Decision(c, "nonterminal", "ordinary", 0)

\* Mutant: no fallback for a claim that waits for a successor decision.
FallbackDueUnlessReviewing(c) ==
  /\ claims[c].status \in {"admitted", "nonterminal"}
  /\ \/ claims[c].window # "open"
     \/ coverage.late /\ era = 2 /\ claims[c].revision = 1

\* A late filing close opens the fallback at once to the claims of its cut.
FallbackDue(c) ==
  /\ claims[c].status \in {"admitted", "nonterminal", "reviewing"}
  /\ \/ claims[c].window # "open"
     \/ coverage.late /\ era = 2 /\ claims[c].revision = 1

\* The benefit rule approves what the maximum leaves; it has no answer when the
\* applied and the pending approvals already exceed it.
Remaining(c) == MaximumAggregatePayout - cumulative - reserve + Reclaimable(c)

FallbackAmounts(c) ==
  IF terms.rule = "deny_zero" THEN {0}
  ELSE {Min({gross, Remaining(c)}) : gross \in 0 .. MaximumPerClaim} \cap Amounts

AdmitFallback(c) ==
  /\ FallbackDue(c)
  /\ \E amount \in FallbackAmounts(c) : Decision(c, "decided", "fallback", amount)

\* A later step proves the decision it follows to ValidateClaimDecision as one
\* of the decision authority's, which a fallback's own subjects have to equal.
Provable(c) == claims[c].path = "fallback" => terms.aligned

AdmitChallenge(c) ==
  /\ claims[c].status = "decided" /\ Provable(c)
  /\ claims[c].window # "past"
  /\ claims[c].challenges < MaximumChallengeRoundsPerClaim /\ Rounds < MaxRounds
  /\ claims' = [claims EXCEPT ![c].status = "reviewing", ![c].challenges = @ + 1,
                              ![c].window = "open"]
  /\ UNCHANGED <<terms, offer, received, coverage, era, Money>>

\* The successor of a nonterminal decision is due when its resolution was.
AdmitNonterminalResponse(c) ==
  /\ claims[c].status = "nonterminal" /\ Provable(c)
  /\ claims[c].window = "open"
  /\ claims[c].responses < MaximumNonterminalRoundsPerClaim /\ Rounds < MaxRounds
  /\ claims' = [claims EXCEPT ![c].status = "reviewing", ![c].responses = @ + 1]
  /\ UNCHANGED <<terms, offer, received, coverage, era, Money>>

\* A payout line has to expire by the terminal resolution deadline, so nothing
\* applies an approval that is closed later. One closed only shortly before it
\* is among those that nobody applies, which ApplyDecision leaves open.
CloseChallenge(c) ==
  /\ claims[c].status = "decided" /\ Provable(c)
  /\ claims[c].window # "open"
  /\ claims' = [claims EXCEPT ![c].status = "final", ![c].window = "open",
                              ![c].payable = (claims[c].amount = 0 \/ era < 2)]
  /\ UNCHANGED <<terms, offer, received, coverage, era, Money>>

--------------------------------------------------------------------------------
(* Payouts, closure and release. *)

ApplyDecision(c) ==
  /\ claims[c].status = "final" /\ claims[c].token = "pending"
  /\ claims[c].payable
  /\ reserve - claims[c].amount >= 0
  /\ cumulative + claims[c].amount <= MaximumAggregatePayout
  /\ reserve' = reserve - claims[c].amount
  /\ cumulative' = cumulative + claims[c].amount
  /\ claims' = [claims EXCEPT ![c].token = "consumed"]
  /\ coverage' = [coverage EXCEPT !.touched = TRUE]
  /\ UNCHANGED <<terms, offer, received, portfolio, era>>

\* What the terminal claim set has to show of a claim that was admitted.
Resolved(c) ==
  \/ ~Admitted(c)
  \/ claims[c].status = "final" /\ claims[c].token = "consumed" /\ Provable(c)

ClosureOutcome(paid) ==
  LET f(c) == paid[c]
      total == SumOver(Claims, f) IN
  CASE total < Approved -> "defaulted"
    [] total = MaximumAggregatePayout -> "exhausted"
    [] coverage.status = "coverage_ended" -> "cancelled"
    [] OTHER -> "closed"

\* The terminal payout evidence in the set shows how every line of the payouts
\* ended, as finalized or as defaulted.
CloseCoverage ==
  /\ coverage.status \in {"active", "coverage_ended"} /\ coverage.filing = "frozen"
  /\ \A c \in Claims : Resolved(c)
  /\ Approved <= MaximumAggregatePayout
  /\ \E paid \in {f \in [Claims -> Amounts] : \A c \in Claims : f[c] <= claims[c].amount} :
       /\ claims' = [c \in Claims |->
            [claims[c] EXCEPT !.paid = paid[c], !.defaulted = claims[c].amount - paid[c]]]
       /\ coverage' = [coverage EXCEPT !.status = "release_pending",
                                       !.outcome = ClosureOutcome(paid)]
  /\ UNCHANGED <<terms, offer, received, era, Money>>

\* ComputeExposureDispositionV1: defaults are charged off or retained.
ReleaseExposure ==
  /\ coverage.status = "release_pending" /\ coverage.outcome # "closed_not_activated"
  /\ portfolio.reserved > 0
  /\ Approved = Paid + Defaulted /\ Approved <= portfolio.reserved
  /\ \E retained \in {0, Defaulted} :
       LET realized == Paid + Defaulted - retained IN
       portfolio' = [reserved |-> 0, realized |-> realized, retained |-> retained,
                     returned |-> portfolio.reserved - realized - retained]
  /\ UNCHANGED <<terms, offer, received, coverage, claims, reserve, cumulative, era>>

ResolveCoverage ==
  /\ coverage.status = "release_pending"
  /\ coverage.outcome # "closed_not_activated" => portfolio.reserved = 0
  /\ coverage' = [coverage EXCEPT !.status = coverage.outcome]
  /\ UNCHANGED <<terms, offer, received, claims, era, Money>>

\* A coverage that was never activated freezes its unopened filing.
FreezeNeverActivated ==
  /\ coverage.status = "not_activated_confirmed" /\ coverage.filing = "not_open"
  /\ coverage' = [coverage EXCEPT !.filing = "frozen", !.touched = TRUE]
  /\ UNCHANGED <<terms, offer, received, claims, era, Money>>

CloseNeverActivated ==
  /\ coverage.status = "not_activated_confirmed" /\ coverage.filing = "frozen"
  /\ coverage' = [coverage EXCEPT !.status = "release_pending",
                                  !.outcome = "closed_not_activated"]
  /\ UNCHANGED <<terms, offer, received, claims, era, Money>>

ReleaseNeverActivated ==
  /\ \/ coverage.status = "not_activated_confirmed"
     \/ coverage.outcome = "closed_not_activated"
  /\ portfolio.reserved > 0
  /\ ReturnAll
  /\ UNCHANGED <<terms, offer, received, coverage, claims, reserve, cumulative, era>>

--------------------------------------------------------------------------------
(* Time. *)

NextWindow == [open |-> "at", at |-> "past"]

\* Only a challenge and a successor decision tell the deadline from after it.
DeadlinePasses(c) ==
  /\ \/ claims[c].window = "open" /\ claims[c].status \notin {"none", "final"}
     \/ /\ claims[c].window = "at"
        /\ \/ claims[c].status = "reviewing"
           \/ /\ claims[c].status = "decided" /\ Provable(c)
              /\ claims[c].challenges < MaximumChallengeRoundsPerClaim
  /\ claims' = [claims EXCEPT ![c].window = NextWindow[@]]
  /\ UNCHANGED <<terms, offer, received, coverage, era, Money>>

\* The resolution deadline tells a late filing close from one in time, and the
\* last deadline ends the recovery after a late close. Of the other claims they
\* only ask that a close be payable; a filing closed after both is like one
\* closed in time whose open approvals nobody applies.
EraPasses ==
  /\ era < 3
  /\ era = 1 => coverage.filing = "open"
  /\ era = 2 => coverage.late
  /\ era' = era + 1
  /\ UNCHANGED <<terms, offer, received, coverage, claims, Money>>

ClaimStep(c) ==
  \/ ReviseClaim(c)
  \/ AdmitDecision(c) \/ AdmitNonterminalDecision(c) \/ AdmitFallback(c)
  \/ AdmitChallenge(c) \/ AdmitNonterminalResponse(c) \/ CloseChallenge(c)
  \/ ApplyDecision(c) \/ DeadlinePasses(c)

Next ==
  \/ AcceptIssuedOffer \/ ExpireIssuedOffer \/ ReleaseExpiredOffer
  \/ ActivateAcceptedCoverage \/ ConfirmCoverageNonActivation \/ ApplyCoverageCancellation
  \/ ReceiveClaim \/ RejectClaim \/ AdmitClaim
  \/ FreezeClaimFiling \/ CloseCoverage \/ ReleaseExposure \/ ResolveCoverage
  \/ FreezeNeverActivated \/ CloseNeverActivated \/ ReleaseNeverActivated
  \/ EraPasses
  \/ \E c \in Claims : ClaimStep(c)

\* Deadlines pass, and the decision-admission authority "merely materializes"
\* (claim.go) what a passed deadline allows. Nobody has to decide anything.
Fairness ==
  \A c \in Claims : WF_vars(DeadlinePasses(c) \/ AdmitFallback(c) \/ CloseChallenge(c))

Spec == Init /\ [][Next]_vars /\ Fairness

--------------------------------------------------------------------------------
\* The exposure admitted for an offer is given back once, on one of the three
\* ways out: an offer that expired, a coverage that was never activated, a set
\* of claims that is terminal. Then what was charged or retained is what
\* the claims cost, no claim is left to cost more, and the rest was returned.
ExposureConserved ==
  /\ portfolio.reserved + portfolio.returned + portfolio.realized + portfolio.retained
       = MaximumAggregatePayout
  /\ portfolio.reserved = 0 =>
       /\ coverage.status \notin {"pending_authorization", "active", "coverage_ended"}
       /\ received = 0 /\ \A c \in Claims : Resolved(c)
       /\ portfolio.realized + portfolio.retained = Paid + Defaulted

\* The pending reserve covers every application token that is still pending, so
\* an application never finds it too small, through challenges that replace a
\* token and revisions that start a claim over; and what was applied is what the
\* consumed tokens approved, within the maximum of the agreement. The reserve
\* may be larger than the pending tokens: a revision leaves it behind.
ReserveCovers ==
  LET held(token) == LET f(c) == IF claims[c].token = token THEN claims[c].amount ELSE 0
                     IN SumOver(Claims, f) IN
  /\ held("pending") <= reserve /\ reserve <= MaximumAggregatePayout
  /\ held("consumed") = cumulative /\ cumulative <= MaximumAggregatePayout
  /\ Paid + Defaulted <= cumulative

\* "Claim admission races cancellation and filing close in this domain"
\* (state.go): whichever of a first admission and the cancellation comes first
\* shuts the other out, so a cancelled coverage has no claim and pays nothing.
CancelledHasNoClaims ==
  coverage.status \in {"coverage_ended", "cancelled"} \/ coverage.outcome = "cancelled" =>
    \A c \in Claims : ~Admitted(c)

\* The records keep the fields and ranges of the source's types, and the
\* exposure, the reserve and the claims agree at every moment.
CoverageAccounts ==
  /\ coverage \in CoverageRecords /\ claims \in [Claims -> ClaimRecords]
  /\ ExposureConserved /\ ReserveCovers /\ CancelledHasNoClaims

\* "Once an Agreement-fixed deadline is proven, the claim is deterministically
\* denied rather than left open forever" (fallback.go): under the deny-zero rule
\* every admitted claim becomes final and stays so, even when the guarantor never
\* decides. It needs the fallback's subjects to be the decision authority's.
Concludes ==
  <>[](terms.aligned /\ terms.rule = "deny_zero" =>
         \A c \in Claims : Admitted(c) => claims[c].status = "final")
===============================================================================
