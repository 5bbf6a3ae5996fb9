----------------------------- MODULE Settlement -----------------------------
(***************************************************************************)
(* Billing of an agreement (pkg/agentcommerce/billing.go, payment.go,      *)
(* external_payment.go). A value-bearing obligation is materialized into a *)
(* sequence of instances. The payer builds payment requests for them, an   *)
(* attestor of the external system signs what it has finalized, and the    *)
(* ledger of each instance applies that evidence, at least once, or is     *)
(* resolved otherwise. Time and sequence numbers are unsigned words.       *)
(* A digest is the document it is the digest of. Payment evidence and the  *)
(* evidence of a resolution are different documents.                       *)
(***************************************************************************)
EXTENDS Integers, Sequences, FiniteSetsExt

CONSTANTS Billable,         \* AgreementObligations with their BillingTerms
          Requested,        \* amounts the payer may ask to pay
          Destinations,     \* payout destinations of the settlement adapter
          Reports,          \* evidence of payments of decimal amounts
          Resolutions,      \* evidence of transitions other than payment
          Versions,         \* schema versions of payment requests in use
          WordSize,         \* 2^64 in the code
          MaxRecurrence,    \* 10_000 in the code
          MaxScale,         \* digits after the point in use
          MaxRequests, MaxBillingTime

VARIABLES
  terms,      \* the obligation that was materialized
  instances,  \* its SettlementObligations, in sequence
  ledger,     \* instance -> SettlementObligationState
  requests,   \* AgreementPaymentRequests handed to the external system
  attested,   \* the attestations it signed
  billTime

settlementVars == <<terms, instances, ledger, requests, attested, billTime>>

NoTerms == [billing |-> "unset"]
Wrap(n) == n % WordSize

------------------------------------------------------------------------------
(* Amounts: a coefficient and its scale, as decimalCoefficient splits the   *)
(* spelling; an atomic amount has scale 0.                                   *)
SameProfile(a, b) == a.asset = b.asset /\ a.form = b.form

CanonicalDecimal(a) == a.scale = 0 \/ a.coefficient % 10 # 0

AlignDecimals(a, b) ==
  LET scale == Max({a.scale, b.scale}) IN
  [a |-> a.coefficient * 10 ^ (scale - a.scale),
   b |-> b.coefficient * 10 ^ (scale - b.scale), scale |-> scale]

\* formatDecimal drops the zeros after the point.
FormatDecimal(a, coefficient, scale) ==
  LET drop == Max({k \in 0 .. scale : coefficient % 10 ^ k = 0}) IN
  [a EXCEPT !.coefficient = coefficient \div 10 ^ drop, !.scale = scale - drop]

AddAmounts(a, b) == LET d == AlignDecimals(a, b) IN FormatDecimal(a, d.a + d.b, d.scale)
SubtractAmounts(a, b) == LET d == AlignDecimals(a, b) IN FormatDecimal(a, d.a - d.b, d.scale)
AtMost(a, b) == SameProfile(a, b) /\ (LET d == AlignDecimals(a, b) IN d.a <= d.b)
AmountIsZero(a) == a.coefficient = 0
Zero(a) == [a EXCEPT !.coefficient = 0, !.scale = 0]

ValidateBillingTerms(t) ==
  /\ CASE t.billing = "one_time" -> t.start = 0 /\ t.end = 0 /\ t.count = 0 /\ t.interval = 0
       [] t.billing = "periodic" -> /\ t.start # 0 /\ t.end > t.start
                                    /\ t.count \in 1 .. MaxRecurrence /\ t.interval # 0
       [] OTHER -> FALSE
  /\ t.first # 0 /\ t.maximum.asset = t.amount.asset

ExceedsAggregate(amount, count, maximum) ==
  \/ ~ SameProfile(amount, maximum)
  \/ LET d == AlignDecimals(amount, maximum) IN d.a * count > d.b

\* The time bounds of the instance at an offset of a periodic billing.
Window(t, offset) ==
  LET notBefore == Wrap(t.start + Wrap(offset * t.interval)) IN
  [notBefore |-> notBefore,
   due       |-> IF t.due = 0 \/ t.due < notBefore THEN notBefore ELSE t.due,
   expires   |-> IF t.expires = 0 \/ t.expires > t.end THEN t.end ELSE t.expires]

Count(t) == IF t.billing = "periodic" THEN t.count ELSE 1

Instance(t, offset) ==
  LET w == IF t.billing = "periodic" THEN Window(t, offset)
           ELSE [notBefore |-> t.notBefore, due |-> t.due, expires |-> t.expires] IN
  [sequence |-> Wrap((IF t.billing = "none" THEN 1 ELSE t.first) + offset),
   amount |-> t.amount, notBefore |-> w.notBefore, due |-> w.due, expires |-> w.expires]

MaterializeSettlementObligations(t) ==
  LET maximum == IF t.billing = "none" THEN t.amount ELSE t.maximum
      made == [n \in 1 .. Count(t) |-> Instance(t, n - 1)] IN
  IF \/ t.billing # "none" /\ ~ ValidateBillingTerms(t)
     \/ ExceedsAggregate(t.amount, Count(t), maximum)
     \/ t.billing = "periodic" /\ \E n \in DOMAIN made : made[n].notBefore >= made[n].expires
  THEN << >> ELSE made

ValidateSettlementObligation(o) ==
  /\ o.sequence # 0
  /\ ~ (o.notBefore # 0 /\ o.expires # 0 /\ o.notBefore >= o.expires)
  /\ ~ (o.due # 0 /\ o.expires # 0 /\ o.due > o.expires)

NewSettlementState(o) ==
  [obligation |-> o, state |-> "pending", paid |-> Zero(o.amount), outstanding |-> o.amount,
   applied |-> {}, refs |-> {}, revision |-> 1]

------------------------------------------------------------------------------
(* Payment requests. The stable action id is the record of the fields it   *)
(* is derived from. Version 1 names a network, 2 an external system, 3 a    *)
(* network domain.                                                          *)
PaymentActionKind(version) ==
  CASE version = 2 -> "settlement.external"
    [] version = 3 -> "payment.domain-bound"
    [] OTHER -> "payment.direct"

StablePaymentAction(r) ==
  [kind |-> PaymentActionKind(r.version), instance |-> r.instance, amount |-> r.amount,
   destination |-> <<r.network, r.destination>>]

\* buildAgreementPaymentRequestAmount (versions 1 and 3): atomic amounts only.
BuildAgreementPaymentRequestAmount(o, version, network, destination, amount) ==
  [version |-> version, instance |-> o.sequence, network |-> network, amount |-> amount,
   destination |-> destination, expires |-> o.expires]

RequestBuilds(o, version, amount) ==
  /\ ValidateSettlementObligation(o)
  /\ version # 2 => o.amount.form = "atomic"
  /\ AtMost(amount, o.amount) /\ ~ AmountIsZero(amount)
  /\ o.expires # 0

ValidateAgreementPaymentRequest(r) == r.amount.form = "atomic" /\ r.expires # 0

VerifyExternalPaymentAttestation(a, now) == now < a.expires /\ a.resolved <= now

ExternalPaymentEvidence(r, a, now) ==
  VerifyExternalPaymentAttestation(a, now) /\ a.request = r

VerifyAgreementPaymentEvidence(r, a, now) ==
  /\ ValidateAgreementPaymentRequest(r) /\ now < r.expires
  /\ a.request = r /\ a.resolved # 0 /\ a.resolved <= now
  /\ ExternalPaymentEvidence(r, a, now)

------------------------------------------------------------------------------
(* The ledger of one instance.                                              *)
Terminal == {"paid", "cancelled", "written_off"}

Credited(s, o, digest, amount) ==
  LET total == AddAmounts(s.paid, amount)
      left == SubtractAmounts(o.amount, total) IN
  [s EXCEPT !.applied = @ \cup {digest}, !.refs = @ \cup {digest},
            !.paid = total, !.outstanding = left, !.revision = @ + 1,
            !.state = IF AmountIsZero(left) THEN "paid" ELSE "partially_paid"]

\* A second credit for evidence that was applied before.
ApplyPaymentAgain(s, o, digest, amount, now) ==
  IF /\ ValidateSettlementObligation(o) /\ s.obligation = o /\ SameProfile(amount, o.amount)
     /\ s.state \notin Terminal
     /\ o.expires # 0 => now < o.expires
     /\ AtMost(AddAmounts(s.paid, amount), o.amount)
  THEN Credited(s, o, digest, amount) ELSE s

\* A payment that arrives late reopens an instance.
ApplyPaymentLate(s, o, digest, amount, now) ==
  IF /\ ValidateSettlementObligation(o) /\ s.obligation = o /\ SameProfile(amount, o.amount)
     /\ digest \notin s.applied
     /\ o.expires # 0 => now < o.expires
     /\ AtMost(AddAmounts(s.paid, amount), o.amount)
  THEN Credited(s, o, digest, amount) ELSE s

\* ApplyPayment: evidence that was applied changes nothing, and a refused
\* payment neither.
ApplyPayment(s, o, digest, amount, now) ==
  IF /\ ValidateSettlementObligation(o) /\ s.obligation = o /\ SameProfile(amount, o.amount)
     /\ digest \notin s.applied
     /\ s.state \notin Terminal
     /\ o.expires # 0 => now < o.expires
     /\ AtMost(AddAmounts(s.paid, amount), o.amount)
  THEN Credited(s, o, digest, amount) ELSE s

ResolutionAllowed(s, o, target, now) ==
  CASE target = "overdue" -> /\ s.state \in {"pending", "partially_paid"}
                             /\ o.due # 0 /\ now >= o.due
    [] target = "cancelled" -> s.state \in {"pending", "partially_paid", "overdue", "disputed"}
    [] target = "disputed" -> s.state \in {"pending", "partially_paid", "overdue"}
    [] target = "written_off" -> s.state \in {"overdue", "disputed"}
    [] OTHER -> FALSE

ResolveSettlementState(s, o, target, digest, now) ==
  IF /\ ValidateSettlementObligation(o) /\ s.obligation = o
     /\ ResolutionAllowed(s, o, target, now) /\ digest \notin s.refs
  THEN [s EXCEPT !.state = target, !.revision = @ + 1, !.refs = @ \cup {digest}]
  ELSE s

------------------------------------------------------------------------------
SettlementInit ==
  /\ terms = NoTerms /\ instances = << >> /\ ledger = << >>
  /\ requests = {} /\ attested = {} /\ billTime = 1

Materialize(t) ==
  LET made == MaterializeSettlementObligations(t) IN
  /\ instances = << >> /\ made # << >>
  /\ \A n \in DOMAIN made : ValidateSettlementObligation(made[n])
  /\ terms' = t /\ instances' = made
  /\ ledger' = [n \in DOMAIN made |-> NewSettlementState(made[n])]
  /\ UNCHANGED <<requests, attested, billTime>>

RequestPayment(n, version, network, destination, amount) ==
  /\ Cardinality(requests) < MaxRequests
  /\ RequestBuilds(instances[n], version, amount)
  /\ requests' = requests \cup
       {BuildAgreementPaymentRequestAmount(instances[n], version, network, destination, amount)}
  /\ UNCHANGED <<terms, instances, ledger, attested, billTime>>

\* The external system finalizes a transfer once for a stable action, and its
\* attestor signs what it finalized.
AttestTransfer(r) ==
  /\ \A a \in attested : StablePaymentAction(a.request) # StablePaymentAction(r)
  /\ attested' = attested \cup {[request |-> r, resolved |-> billTime, expires |-> MaxBillingTime + 1]}
  /\ UNCHANGED <<terms, instances, ledger, requests, billTime>>

\* Evidence reaches the ledger of an instance, any number of times.
DeliverEvidence(n, r, a) ==
  /\ r.instance = instances[n].sequence
  /\ VerifyAgreementPaymentEvidence(r, a, billTime)
  /\ ledger' = [ledger EXCEPT ![n] = ApplyPayment(@, instances[n], a, r.amount, billTime)]
  /\ UNCHANGED <<terms, instances, requests, attested, billTime>>

\* The adapter of an obligation with a decimal amount, for which there are no
\* payment requests, reports a payment.
ReportPayment(n, amount, digest) ==
  /\ instances[n].amount.form = "decimal"
  /\ ledger' = [ledger EXCEPT ![n] =
       ApplyPayment(@, instances[n], [request |-> [amount |-> amount], id |-> digest], amount, billTime)]
  /\ UNCHANGED <<terms, instances, requests, attested, billTime>>

ResolveInstance(n, target, digest) ==
  /\ ledger' = [ledger EXCEPT ![n] = ResolveSettlementState(@, instances[n], target, digest, billTime)]
  /\ UNCHANGED <<terms, instances, requests, attested, billTime>>

BillingTick ==
  /\ billTime < MaxBillingTime /\ billTime' = billTime + 1
  /\ UNCHANGED <<terms, instances, ledger, requests, attested>>

SettlementNext ==
  \/ \E t \in Billable : Materialize(t)
  \/ \E n \in DOMAIN instances, version \in Versions, d \in Destinations, amount \in Requested :
       RequestPayment(n, version, d.network, d.address, amount)
  \/ \E r \in requests : AttestTransfer(r)
  \/ \E n \in DOMAIN instances, r \in requests, a \in attested : DeliverEvidence(n, r, a)
  \/ \E n \in DOMAIN instances, digest \in Resolutions,
        target \in {"overdue", "cancelled", "disputed", "written_off"} :
       ResolveInstance(n, target, digest)
  \/ \E n \in DOMAIN instances, amount \in Requested, digest \in Reports :
       ReportPayment(n, amount, digest)
  \/ BillingTick

SettlementSpec == SettlementInit /\ [][SettlementNext]_settlementVars

------------------------------------------------------------------------------
Exact(a) == a.coefficient * 10 ^ (MaxScale - a.scale)

\* Whatever evidence is delivered, repeated or refused, an instance's paid
\* and outstanding amounts add up to its amount, in the canonical spelling
\* the validators accept, the paid one is what its applied evidence carries,
\* it is paid exactly when nothing is outstanding, and all instances together
\* stay within the agreed aggregate.
LedgerBalances ==
  /\ \A n \in DOMAIN ledger :
       LET s == ledger[n] IN
       /\ Exact(s.paid) + Exact(s.outstanding) = Exact(instances[n].amount)
       /\ CanonicalDecimal(s.paid) /\ CanonicalDecimal(s.outstanding)
       /\ Exact(s.paid) = MapThenSumSet(LAMBDA a : Exact(a.request.amount), s.applied)
       /\ (s.state = "paid") <=> AmountIsZero(s.outstanding)
  /\ terms # NoTerms /\ terms.billing # "none" =>
       MapThenSumSet(LAMBDA n : Exact(ledger[n].paid), DOMAIN ledger) <= Exact(terms.maximum)

\* The ledger of an instance only moves forward: what was credited stays
\* credited, and an instance that was paid, cancelled or written off keeps
\* that state, whatever evidence still arrives.
LedgerAdvances ==
  [][\A n \in DOMAIN ledger :
       /\ ledger[n].applied \subseteq ledger'[n].applied
       /\ ledger[n].refs \subseteq ledger'[n].refs
       /\ ledger[n].state \in Terminal => ledger'[n] = ledger[n]]_settlementVars
=============================================================================
