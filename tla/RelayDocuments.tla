--------------------------- MODULE RelayDocuments ---------------------------
(***************************************************************************)
(* The documents of a relay deal (pkg/agentrelay/validation.go, types.go   *)
(* and the binding of canonical.go): the provider's service profile, the   *)
(* client's quote request, the provider's quote, the Agreement they sign,  *)
(* and the execution request that names the Agreement's obligations.       *)
(*                                                                         *)
(* A digest is the document it commits to. Names, endpoints, keys and      *)
(* encodings are taken as well formed; there is one asset and one network. *)
(* The quote policy and the parties' choice of obligations are external.   *)
(***************************************************************************)
EXTENDS Integers, FiniteSets, Sequences, FiniteSetsExt

CONSTANTS ServiceProfile,   \* the provider's published profile
          QuoteRequests,    \* requests a client may sign
          QuoteTerms,       \* what the quote policy may answer
          Obligations,      \* obligations an Agreement may hold
          MaxObligations,   \* bound: obligations of one Agreement
          InclusionMargin,  \* MinimumRelayInclusionMarginSeconds
          MaxRequestLife,   \* MaxRelayRequestLifetime
          ClockSkew, MaxDealTime

VARIABLES dealTime, quoteRequest, providerQuote, agreed, executed
dealVars == <<dealTime, quoteRequest, providerQuote, agreed, executed>>

------------------------------------------------------------------------------
(***************************************************************************)
(* Profiles.                                                               *)
(***************************************************************************)
NoFinality == [class |-> "none"]
FinalityProfile(class, uri, observers, domains, resolution, reorg) ==
  [class |-> class, uri |-> uri, observers |-> observers, domains |-> domains,
   resolution |-> resolution, reorg |-> reorg]

ValidateFinalityProfile(f) ==
  /\ f.class \in {"validator", "provider_corroborated", "client_corroborated"}
  /\ f.domains \in 1 .. f.observers
  /\ f.resolution > 0 /\ f.reorg <= f.resolution
  /\ f.class # "validator" => f.uri = f.class

ValidateRelayServiceProfileShape(p) ==
  /\ p.expires > p.created
  /\ p.modes # {} /\ p.assurances # {} /\ p.finality # {}
  /\ \A f \in p.finality : ValidateFinalityProfile(f)
  /\ 0 < p.perRequest /\ p.perRequest <= p.outstanding

ValidateRelayServiceProfile(p) ==
  /\ ValidateRelayServiceProfileShape(p)
  /\ p.created <= dealTime + ClockSkew /\ dealTime < p.expires

ValidRelayTerminalClass(class, assurance) ==
  \/ class = "validator"
  \/ class = "provider_corroborated" /\ assurance # "autonomous"

ValidSponsorshipTerminalClass(class, assurance) ==
  \/ class = "validator"
  \/ class = "client_corroborated" /\ assurance # "autonomous"

\* release: the evidence class and profile after which a sponsored
\* transaction may be sent.
NoRelease == [class |-> "none", profile |-> NoFinality]
ValidateSponsorshipReleaseProfile(mode, assurance, release, finality) ==
  IF mode = "relay_exact" THEN release = NoRelease
  ELSE CASE release.class = "validator" ->
              release.profile = finality /\ finality.class = "validator"
         [] release.class = "observed_unproven" ->
              /\ assurance # "autonomous" /\ release.profile.class = "rpc_corroboration"
              /\ finality.class = "client_corroborated" /\ finality.uri = "client_corroborated"
         [] OTHER -> FALSE

------------------------------------------------------------------------------
(***************************************************************************)
(* The quote request.                                                      *)
(***************************************************************************)
NoRequest == [mode |-> "none"]
RelayQuoteRequest(mode, assurance, relay, sponsorship, release, amount, maxFee,
                  created, expires, validUntil) ==
  [mode |-> mode, assurance |-> assurance, relay |-> relay, sponsorship |-> sponsorship,
   release |-> release, amount |-> amount, maxFee |-> maxFee, created |-> created,
   expires |-> expires, validUntil |-> validUntil]

\* The parts a mode has: a relay predicate, and a sponsorship with its own
\* predicate, a positive amount and a release policy.
ModeParts(d, amount) ==
  /\ IF d.mode = "sponsor_only" THEN d.relay = NoFinality
     ELSE d.relay # NoFinality /\ ValidRelayTerminalClass(d.relay.class, d.assurance)
  /\ IF d.mode = "relay_exact" THEN d.sponsorship = NoFinality /\ amount = 0
     ELSE /\ d.sponsorship # NoFinality /\ amount > 0
          /\ ValidSponsorshipTerminalClass(d.sponsorship.class, d.assurance)
  /\ ValidateSponsorshipReleaseProfile(d.mode, d.assurance, d.release, d.sponsorship)

ValidateRelayQuoteRequestShape(q) ==
  /\ q.mode \in {"relay_exact", "sponsor_only", "sponsor_and_relay"}
  /\ q.expires > q.created /\ q.expires - q.created <= MaxRequestLife
  /\ q.expires < q.validUntil
  /\ ModeParts(q, q.amount)

HasStrictRemainingWindow(now, deadline, budget) == now + budget < deadline

MaximumResolution(q) ==
  Max({f.resolution : f \in {q.relay, q.sponsorship} \ {NoFinality}})

VerifyRelayQuoteRequest(q, p) ==
  /\ ValidateRelayServiceProfile(p) /\ ValidateRelayQuoteRequestShape(q)
  /\ q.mode \in p.modes /\ q.assurance \in p.assurances
  /\ q.created >= p.created /\ q.expires <= p.expires
  /\ {q.relay, q.sponsorship} \ {NoFinality} \subseteq p.finality
  /\ HasStrictRemainingWindow(q.created, q.validUntil, MaximumResolution(q) + InclusionMargin)
  /\ q.amount <= p.perRequest
  /\ dealTime < q.expires /\ q.created <= dealTime + ClockSkew

------------------------------------------------------------------------------
(***************************************************************************)
(* The provider's quote. lines is a sequence of fees by kind.              *)
(***************************************************************************)
NoQuote == [request |-> NoRequest]
FeeLine(kind, amount) == [kind |-> kind, amount |-> amount]
ProviderRelayQuote(request, profile, terms) ==
  [request |-> request, profile |-> profile, mode |-> request.mode,
   assurance |-> request.assurance, relay |-> terms.relay,
   sponsorship |-> terms.sponsorship, release |-> request.release,
   lines |-> terms.lines, reserved |-> terms.reserved,
   validFrom |-> terms.validFrom, expires |-> terms.expires]

QuotedKinds(mode) ==
  CASE mode = "relay_exact" -> <<"transaction_relay_fee">>
    [] mode = "sponsor_only" -> <<"gas_sponsorship_fee">>
    [] OTHER -> <<"gas_sponsorship_fee", "transaction_relay_fee">>

ValidateProviderRelayQuoteShape(b) ==
  /\ b.expires > b.validFrom /\ b.expires - b.validFrom <= MaxRequestLife
  /\ [i \in DOMAIN b.lines |-> b.lines[i].kind] = QuotedKinds(b.mode)
  /\ ModeParts(b, b.reserved)
  /\ \A f \in {b.relay, b.sponsorship} \ {NoFinality} : ValidateFinalityProfile(f)

LinesTotal(lines) == MapThenSumSet(LAMBDA i : lines[i].amount, DOMAIN lines)

VerifyProviderRelayQuote(b, q, p) ==
  /\ ValidateRelayServiceProfile(p) /\ ValidateProviderRelayQuoteShape(b)
  /\ b.request = q /\ b.profile = p
  /\ b.mode = q.mode /\ b.assurance = q.assurance /\ b.release = q.release
  /\ b.relay = q.relay /\ b.sponsorship = q.sponsorship
  /\ b.validFrom >= q.created /\ b.expires <= q.expires /\ b.expires < q.validUntil
  /\ b.validFrom <= dealTime /\ dealTime < b.expires
  /\ {b.relay, b.sponsorship} \ {NoFinality} \subseteq p.finality
  /\ b.reserved = q.amount
  /\ LinesTotal(b.lines) <= q.maxFee

------------------------------------------------------------------------------
(***************************************************************************)
(* The Agreement and the execution request. Every obligation has a binding:*)
(* the quote pair its subject commits to, or something else.               *)
(***************************************************************************)
NoAgreement == [expires |-> -1]
Obligation(id, kind, obligor, beneficiary, amount, bound) ==
  [id |-> id, kind |-> kind, obligor |-> obligor, beneficiary |-> beneficiary,
   amount |-> amount, bound |-> bound]

ReservedKinds == {"transaction_relay", "gas_sponsorship",
                  "transaction_relay_fee", "gas_sponsorship_fee"}
RelayReservedObligationKind(kind) == kind \in ReservedKinds

SameBoundObligation(o, kind, obligor, beneficiary) ==
  o.kind = kind /\ o.obligor = obligor /\ o.beneficiary = beneficiary /\ o.bound

\* The obligation of an agreement with an identifier, none if it has none.
NoObligation == Obligation("none", "none", "none", "none", 0, FALSE)
ObligationOf(a, id) ==
  IF \E o \in a.obligations : o.id = id THEN CHOOSE o \in a.obligations : o.id = id
  ELSE NoObligation

Execution(relay, sponsorship, fees, created, expires) ==
  [relay |-> relay, sponsorship |-> sponsorship, fees |-> fees,
   created |-> created, expires |-> expires]

ValidateRelayExecutionRequestCoreShape(x, a, b) ==
  /\ x.fees # {} /\ x.expires > x.created
  /\ x.expires <= a.expires /\ x.expires <= b.expires
  /\ (x.relay = "none") = (b.mode = "sponsor_only")
  /\ (x.sponsorship = "none") = (b.mode = "relay_exact")

DeliveryBound(x, a, b) ==
  /\ x.relay # "none" =>
       LET o == ObligationOf(a, x.relay)
       IN SameBoundObligation(o, "transaction_relay", "provider", "client") /\ o.amount = 0
  /\ x.sponsorship # "none" =>
       LET o == ObligationOf(a, x.sponsorship)
       IN /\ SameBoundObligation(o, "gas_sponsorship", "provider", "client")
          /\ b.reserved > 0 /\ o.amount = b.reserved

\* Every fee obligation is one quoted line, and every line has one.
FeesBound(x, a, b) ==
  LET fee == [id \in x.fees |-> ObligationOf(a, id)]
      amountOf == [k \in {b.lines[i].kind : i \in DOMAIN b.lines} |->
                     (CHOOSE i \in DOMAIN b.lines : b.lines[i].kind = k)]
  IN /\ \A id \in x.fees :
          /\ fee[id].kind \in DOMAIN amountOf
          /\ SameBoundObligation(fee[id], fee[id].kind, "client", "provider")
          /\ fee[id].amount = b.lines[amountOf[fee[id].kind]].amount
     /\ \A id, other \in x.fees : fee[id].kind = fee[other].kind => id = other
     /\ Cardinality(x.fees) = Cardinality(DOMAIN amountOf)

\* Mutant: obligations the request does not name are not looked at.
VerifyNamedObligations(x, a, b) ==
  /\ a.authorized /\ a.binding = b /\ dealTime < a.expires
  /\ DeliveryBound(x, a, b) /\ FeesBound(x, a, b)

VerifyRelayExecutionAgreement(x, a, b) ==
  /\ a.authorized /\ a.binding = b /\ dealTime < a.expires
  /\ DeliveryBound(x, a, b) /\ FeesBound(x, a, b)
  /\ \A o \in a.obligations :
       RelayReservedObligationKind(o.kind) \/ o.bound =>
         \/ o.id = x.relay /\ o.kind = "transaction_relay"
         \/ o.id = x.sponsorship /\ o.kind = "gas_sponsorship"
         \/ o.id \in x.fees

\* Start and end of the request, checked on submission.
ExecutionTimely(x, b) ==
  /\ dealTime < x.expires /\ x.created <= dealTime + ClockSkew
  /\ x.created >= b.request.created /\ x.created >= b.validFrom
  /\ x.expires <= b.request.validUntil

------------------------------------------------------------------------------
(***************************************************************************)
(* The deal.                                                               *)
(***************************************************************************)
DealInit ==
  /\ dealTime = 0 /\ quoteRequest = NoRequest /\ providerQuote = NoQuote
  /\ agreed = NoAgreement /\ executed = {}

SignRelayQuoteRequest ==
  /\ quoteRequest = NoRequest
  /\ \E q \in QuoteRequests : ValidateRelayQuoteRequestShape(q) /\ quoteRequest' = q
  /\ UNCHANGED <<dealTime, providerQuote, agreed, executed>>

SignProviderRelayQuote ==
  /\ quoteRequest # NoRequest /\ providerQuote = NoQuote
  /\ VerifyRelayQuoteRequest(quoteRequest, ServiceProfile)
  /\ \E t \in QuoteTerms :
       LET b == ProviderRelayQuote(quoteRequest, ServiceProfile, t)
       IN VerifyProviderRelayQuote(b, quoteRequest, ServiceProfile) /\ providerQuote' = b
  /\ UNCHANGED <<dealTime, quoteRequest, agreed, executed>>

\* CompileRelayAgreementBinding, and whatever obligations the parties sign.
SignAgreement ==
  /\ providerQuote # NoQuote /\ agreed = NoAgreement
  /\ \E os \in UNION {kSubset(n, Obligations) : n \in 1 .. MaxObligations},
       expires \in {providerQuote.expires, providerQuote.expires + 1} :
       /\ \A o, other \in os : o.id = other.id => o = other
       /\ agreed' = [obligations |-> os, binding |-> providerQuote,
                     expires |-> expires, authorized |-> TRUE]
  /\ UNCHANGED <<dealTime, quoteRequest, providerQuote, executed>>

\* The client names obligations of the Agreement; the provider verifies the
\* quote pair again, the Agreement, and the times.
SubmitExecution ==
  /\ agreed # NoAgreement /\ executed = {}
  /\ VerifyRelayQuoteRequest(quoteRequest, ServiceProfile)
  /\ VerifyProviderRelayQuote(providerQuote, quoteRequest, ServiceProfile)
  /\ LET ids == {o.id : o \in agreed.obligations} IN
     \E relay, sponsorship \in ids \cup {"none"}, fees \in SUBSET ids :
       LET x == Execution(relay, sponsorship, fees, dealTime, providerQuote.expires)
       IN /\ ValidateRelayExecutionRequestCoreShape(x, agreed, providerQuote)
          /\ ExecutionTimely(x, providerQuote)
          /\ VerifyRelayExecutionAgreement(x, agreed, providerQuote)
          /\ executed' = {x}
  /\ UNCHANGED <<dealTime, quoteRequest, providerQuote, agreed>>

DealTick ==
  /\ dealTime < MaxDealTime /\ dealTime' = dealTime + 1
  /\ UNCHANGED <<quoteRequest, providerQuote, agreed, executed>>

DealNext ==
  SignRelayQuoteRequest \/ SignProviderRelayQuote \/ SignAgreement \/ SubmitExecution \/ DealTick

------------------------------------------------------------------------------
(***************************************************************************)
(* Properties.                                                             *)
(***************************************************************************)
\* "Otherwise a coordinator can authorize a second fee/liability that one
\* implementation ignores while another treats it as part of the relay
\* transaction" (validation.go): once the provider accepts an execution, all
\* the client owes under the Agreement's relay obligations is the quoted
\* fee, within the maximum the client signed; and what the provider owes is
\* one delivery and one top-up of the amount asked for.
LiabilityIsQuoted ==
  \A x \in executed :
    LET relay == {o \in agreed.obligations : o.bound \/ RelayReservedObligationKind(o.kind)}
        owed(party) == {o \in relay : o.obligor = party}
        total(os) == MapThenSumSet(LAMBDA o : o.amount, os)
    IN /\ total(owed("client")) = LinesTotal(providerQuote.lines)
       /\ total(owed("client")) <= quoteRequest.maxFee
       /\ total(owed("provider")) = quoteRequest.amount
       /\ Cardinality(owed("provider")) = IF quoteRequest.mode = "sponsor_and_relay" THEN 2 ELSE 1
       /\ \A o \in relay : {o.obligor, o.beneficiary} = {"client", "provider"}
==============================================================================
