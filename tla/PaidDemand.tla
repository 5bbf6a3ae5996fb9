---------------------------- MODULE PaidDemand -----------------------------
(***************************************************************************)
(* Paid demand (pkg/paiddemand, pkg/buyersdk/paid_demand_buyer.go,         *)
(* tosctl_action_sender.go, the schema-2 quote and escrow of               *)
(* pkg/nativecore, the escrow resolver of pkg/toschain).                   *)
(* A provider checks a negotiation package and signs an offer that binds   *)
(* an agreement to native quote terms. The buyer builds the quote and the  *)
(* escrow from both, deploys it, accepts it and funds it with wallet       *)
(* actions whose identity is derived from the transition alone, and shows  *)
(* the finalized acceptance as evidence. Calls of the buyer overlap,       *)
(* crash, time out and are repeated; messages are delayed or lost; the     *)
(* resolver lags; the provider's key rotates.                              *)
(* Documents are named by the number of the package they come from: the    *)
(* binding of an offer, the terms of a quote. A digest or a cell is the    *)
(* document it commits to. The escrow contract, the wallet's journal and   *)
(* the authority for the provider's keys are external.                     *)
(***************************************************************************)
EXTENDS Agreement, Sequences, FiniteSetsExt

CONSTANTS Packages,        \* negotiation packages, sound and unsound: a sequence
          PublicTerms,     \* the provider's published terms
          Buyer,           \* the buyer's agent id and wallet
          Workers,         \* concurrent calls of the buyer
          ActionTTL, OfferExpiries, MaxOffers, MaxProviderKey, MaxClock, MaxChain

VARIABLES
  offers,      \* offers the provider signed
  keyFrom,     \* provider key -> when it became the current one
  purchase,    \* the prepared purchase
  call,        \* worker -> the call it runs
  prepared,    \* stable action id -> the message the wallet signed for it
  signed,      \* every message the wallet signed
  pool,        \* messages broadcast and not yet executed
  chain,       \* finalized states of the escrow account, by checkpoint
  highWater,   \* the resolver's last checkpoint
  accepts,     \* buyer-accept evidence built
  time

paidVars == <<offers, keyFrom, purchase, call, prepared, signed, pool, chain, highWater,
              accepts, time>>

------------------------------------------------------------------------------
(* Quotes and escrow documents.                                             *)
EscrowTermsV1(buyer, provider, funding, refund) ==
  [buyer |-> buyer, provider |-> provider, funding |-> funding, refund |-> refund]

BuildEscrowTermsCellV1(t) == t.funding # 0 /\ t.refund > t.funding

QuoteProposalV1(provider, capability, manifest, transport, price, asset, terms, expires) ==
  [provider |-> provider, capability |-> capability, manifest |-> manifest,
   transport |-> transport, price |-> price, asset |-> asset, terms |-> terms,
   expires |-> expires]

BuildAcceptedQuoteCommitment(network, proposal, signer) ==
  [schema |-> 1, network |-> network, proposal |-> proposal, signer |-> signer]

\* A schema-2 quote: the schema-1 terms of package v, and an extension with
\* the offer and the execution deadline.
BuildAcceptedQuoteCommitmentV2(network, v, offer) ==
  [schema |-> 2, network |-> network, from |-> v, offer |-> offer]

Terms(q) == Packages[q.from]
AcceptBy(offer) == Packages[offer.binding].binding.acceptBy

BuildPaidDemandExtension(offer, execution) ==
  AcceptBy(offer) # 0 /\ execution > AcceptBy(offer)

DecodeAcceptedQuoteV1(q, network) == q.network = network /\ Terms(q).proposal.expires # 0

DecodeAcceptedQuoteV2(q, network) ==
  /\ q.schema = 2 /\ DecodeAcceptedQuoteV1(q, network)
  /\ BuildPaidDemandExtension(q.offer, Terms(q).execution)

------------------------------------------------------------------------------
(* The agreement's side: binding and offer.                                 *)
PaidDemandQuoteBindingBody(agreement, obligations, targets, parties, projection, acceptBy) ==
  [agreement |-> agreement, network |-> agreement.network, obligations |-> obligations,
   targets |-> targets, provider |-> parties.provider, buyer |-> parties.buyer,
   buyerWallet |-> parties.buyerWallet, providerWallet |-> parties.providerWallet,
   projection |-> projection, acceptBy |-> acceptBy]

ValidatePaidDemandQuoteBinding(b) ==
  b.obligations # {} /\ DOMAIN b.targets # {} /\ b.acceptBy # 0

ValidatePaidDemandAgreementBinding(agreement, b) ==
  LET included == {p \in agreement.predicates : p.id \in DOMAIN b.targets} IN
  /\ ValidateAgreementBody(agreement) /\ ValidatePaidDemandQuoteBinding(b)
  /\ b.agreement = agreement /\ b.network = agreement.network
  /\ b.acceptBy <= agreement.expires
  /\ b.obligations \subseteq {o.id : o \in agreement.obligations}
  /\ \A p \in agreement.predicates : p.profile = "paid-demand-quote" => p \in included
  /\ \A p \in included :
       /\ p.profile = "paid-demand-quote" /\ agreement.targets[p.id] = b.targets[p.id]
       /\ p.expires >= b.acceptBy /\ p.obligations \cap b.obligations # {}
  /\ \E p \in included : p.subject.kind = "agent" /\ p.subject.identifier = b.provider
  /\ \E p \in included : /\ p.subject.kind = "wallet" /\ p.subject.identifier = b.buyerWallet
                         /\ p.subject.represented = b.buyer

ProviderProofContext(key, from, expires) == [key |-> key, from |-> from, expires |-> expires]

ValidateProviderProofContext(b, c) ==
  /\ ValidatePaidDemandQuoteBinding(b)
  /\ c.from # 0 /\ c.expires >= b.acceptBy /\ c.expires > c.from

SignedProviderOffer(n, c, key) == [binding |-> n, context |-> c, signedBy |-> key]
SignProviderOffer(b, c, key) == ValidateProviderProofContext(b, c) /\ c.key = key

\* External: the key was the provider's at that moment.
AuthorizeProviderOfferKey(c, at) ==
  /\ c.key \in DOMAIN keyFrom /\ keyFrom[c.key] <= at
  /\ c.key + 1 \in DOMAIN keyFrom => at <= keyFrom[c.key + 1]

VerifyProviderOffer(offer, at) ==
  /\ ValidateProviderProofContext(Packages[offer.binding].binding, offer.context)
  /\ at < offer.context.expires
  /\ AuthorizeProviderOfferKey(offer.context, at) /\ offer.signedBy = offer.context.key

------------------------------------------------------------------------------
(* Negotiation and quote.                                                   *)
ExecutionManifestV1(kind, agreement, work) ==
  [kind |-> kind, agreement |-> agreement, work |-> work]

ValidateExecutionManifest(m) == m.kind = "canonical" => m.work # {}

ManifestWorkMatches(agreement, b, m) ==
  m.work = {o.id : o \in {o \in agreement.obligations :
              /\ o.id \in b.obligations /\ o.value = 0
              /\ o.obligor = b.provider /\ o.beneficiary = b.buyer}}

NegotiationPackageV1(agreement, proposal, manifest, terms, signer, transport, execution, b) ==
  [agreement |-> agreement, proposal |-> proposal, manifest |-> manifest, terms |-> terms,
   signer |-> signer, transport |-> transport, execution |-> execution, binding |-> b]

ValidateNegotiationPackage(agreement, public, v, now) ==
  /\ ValidateAgreementBody(agreement)
  /\ v.binding.acceptBy > now /\ v.execution > v.binding.acceptBy
  /\ v.execution < v.terms.refund /\ v.execution <= agreement.expires
  /\ v.agreement = agreement /\ ValidatePaidDemandAgreementBinding(agreement, v.binding)
  /\ v.manifest.kind = "canonical" /\ ValidateExecutionManifest(v.manifest)
  /\ v.manifest.agreement = agreement /\ v.proposal.manifest = v.manifest
  /\ ManifestWorkMatches(agreement, v.binding, v.manifest)
  /\ v.binding.providerWallet = public.wallet /\ v.terms.provider = public.wallet
  /\ v.binding.buyerWallet = v.terms.buyer /\ v.proposal.capability = public.capability
  /\ v.proposal.provider = v.binding.provider /\ v.proposal.expires = v.binding.acceptBy
  /\ v.signer = public.signer /\ v.transport = public.transport
  /\ v.proposal.asset = public.asset
  /\ BuildEscrowTermsCellV1(v.terms) /\ v.proposal.terms = v.terms

ValidateNegotiationPackageOnNetwork(agreement, public, v, network, now) ==
  /\ network = v.binding.network /\ ValidateNegotiationPackage(agreement, public, v, now)
  /\ BuildAcceptedQuoteCommitment(network, v.proposal, v.signer) = v.binding.projection

Pays(o, b, proposal) ==
  /\ o.value # 0 /\ o.obligor = b.buyer /\ o.beneficiary = b.provider /\ o.value = proposal.price

\* The payment the quote names is not compared with the agreement.
AnyPayment(v, b, network) ==
  /\ v.execution # 0 /\ ValidatePaidDemandAgreementBinding(v.agreement, b)
  /\ v.agreement.network = network /\ v.proposal.provider = b.provider
  /\ v.proposal.expires = b.acceptBy /\ v.execution > b.acceptBy /\ v.execution < v.terms.refund
  /\ v.terms.buyer = b.buyerWallet /\ v.terms.provider = b.providerWallet
  /\ BuildEscrowTermsCellV1(v.terms) /\ v.proposal.terms = v.terms

ValidateBuildInput(v, b, network) ==
  LET bound == {o \in v.agreement.obligations : o.id \in b.obligations} IN
  /\ v.execution # 0 /\ ValidatePaidDemandAgreementBinding(v.agreement, b)
  /\ v.agreement.network = network /\ v.proposal.provider = b.provider
  /\ v.proposal.expires = b.acceptBy /\ v.execution > b.acceptBy /\ v.execution < v.terms.refund
  /\ v.terms.buyer = b.buyerWallet /\ v.terms.provider = b.providerWallet
  /\ BuildEscrowTermsCellV1(v.terms) /\ v.proposal.terms = v.terms
  /\ \E o \in bound : Pays(o, b, v.proposal)
  /\ \E o \in bound : o.value = 0 /\ o.obligor = b.provider /\ o.beneficiary = b.buyer

\* Which agreement (of package p[1]) which binding (of package p[2]) is for,
\* and every generic and native equality of the quote built from both.
BoundTo ==
  {p \in (DOMAIN Packages) \X (DOMAIN Packages) :
     ValidatePaidDemandAgreementBinding(Packages[p[1]].agreement, Packages[p[2]].binding)}
ProjectsExactly ==
  {p \in (DOMAIN Packages) \X (DOMAIN Packages) :
     LET v == Packages[p[1]] b == Packages[p[2]].binding IN
     /\ ValidateBuildInput(v, b, "net")
     /\ b.projection = BuildAcceptedQuoteCommitment("net", v.proposal, v.signer)}

BuildAcceptedQuote(v, offer, now) ==
  <<v, offer.binding>> \in ProjectsExactly /\ VerifyProviderOffer(offer, now)

VerifyAcceptedQuote(q, v, network, now) ==
  /\ DecodeAcceptedQuoteV2(q, network) /\ VerifyProviderOffer(q.offer, now)
  /\ <<v, q.offer.binding>> \in BoundTo
  /\ <<q.from, q.offer.binding>> \in ProjectsExactly

------------------------------------------------------------------------------
(* The escrow account.                                                      *)
NoEscrow == [status |-> -1]

\* The account as it is deployed: accept_by <= funding < execution < refund.
BuildEscrowStateInitV2(q, terms, signer, transport, network) ==
  /\ DecodeAcceptedQuoteV2(q, network) /\ BuildEscrowTermsCellV1(terms)
  /\ Terms(q).proposal.terms = terms /\ Terms(q).signer = signer
  /\ Terms(q).proposal.transport = transport
  /\ AcceptBy(q.offer) <= terms.funding /\ terms.funding < Terms(q).execution
  /\ Terms(q).execution < terms.refund

EscrowStateV2(q) ==
  [status |-> 0, quote |-> q, acceptedAt |-> 0, funded |-> 0, settled |-> 0,
   receipt |-> 0, query |-> 0]

ValidEscrowRuntimeV2(s, amount, acceptBy) ==
  LET taken == s.acceptedAt > 0 /\ s.acceptedAt < acceptBy
      unsettled == s.settled = 0 /\ s.receipt = 0 IN
  CASE s.status = 0 -> s.acceptedAt = 0 /\ s.funded = 0 /\ unsettled /\ s.query = 0
    [] s.status = 1 -> taken /\ s.funded = 0 /\ unsettled /\ s.query = 0
    [] s.status = 2 -> taken /\ s.funded = amount /\ unsettled /\ s.query = 0
    [] s.status = 3 -> /\ taken /\ s.funded = amount /\ s.settled = amount
                       /\ s.receipt # 0 /\ s.query # 0
    [] s.status = 4 -> taken /\ s.funded = amount /\ unsettled /\ s.query # 0
    [] OTHER -> FALSE

DecodeEscrowDataV2(s, network) ==
  LET v == Terms(s.quote) IN
  /\ DecodeAcceptedQuoteV2(s.quote, network) /\ BuildEscrowTermsCellV1(v.terms)
  /\ v.proposal.price > 0 /\ v.proposal.terms = v.terms
  /\ ValidEscrowRuntimeV2(s, v.proposal.price, AcceptBy(s.quote.offer))

\* EscrowResolver.ResolveFinalizedV2 at checkpoint k: a view older than the
\* last one is refused, and so is a state the decoder rejects.
ResolveFinalizedV2(k) ==
  /\ k \in highWater .. Len(chain)
  /\ chain[k] # NoEscrow => DecodeEscrowDataV2(chain[k], "net")

------------------------------------------------------------------------------
(* The buyer.                                                               *)
NoPurchase == [quote |-> NoEscrow]
Idle == [kind |-> "none", pc |-> "idle", deadline |-> 0]

PaidInit ==
  /\ offers = {} /\ keyFrom = <<0>> /\ purchase = NoPurchase
  /\ call = [w \in Workers |-> Idle] /\ prepared = [i \in {} |-> 0] /\ signed = {} /\ pool = {}
  /\ chain = <<NoEscrow>> /\ highWater = 1 /\ accepts = {} /\ time = 1

\* The provider signs an offer for a package it validated.
OfferSigned(n, expires) ==
  LET v == Packages[n]
      c == ProviderProofContext(Len(keyFrom), time, expires) IN
  /\ Cardinality(offers) < MaxOffers
  /\ ValidateNegotiationPackageOnNetwork(v.agreement, PublicTerms, v, "net", time)
  /\ SignProviderOffer(v.binding, c, Len(keyFrom))
  /\ offers' = offers \cup {SignedProviderOffer(n, c, Len(keyFrom))}
  /\ UNCHANGED <<keyFrom, purchase, call, prepared, signed, pool, chain, highWater, accepts, time>>

PaymentObligations(v) ==
  {o \in v.agreement.obligations : o.value # 0 /\ o.obligor = Buyer.agent}

PreparePurchase(n, offer) ==
  LET v == Packages[n]
      b == Packages[offer.binding].binding
      q == BuildAcceptedQuoteCommitmentV2("net", n, offer) IN
  /\ purchase = NoPurchase /\ v.terms.buyer = Buyer.wallet /\ b.buyer = Buyer.agent
  /\ b.acceptBy > time /\ v.terms.funding > time
  /\ ValidateExecutionManifest(v.manifest) /\ v.manifest = v.proposal.manifest
  /\ BuildAcceptedQuote(n, offer, time)
  /\ BuildEscrowStateInitV2(q, v.terms, v.signer, v.transport, "net")
  /\ v.manifest.kind = "canonical" =>
       v.manifest.agreement = v.agreement /\ ManifestWorkMatches(v.agreement, b, v.manifest)
  /\ Cardinality(PaymentObligations(v)) = 1
  /\ purchase' = [quote |-> q, from |-> n]
  /\ UNCHANGED <<offers, keyFrom, call, prepared, signed, pool, chain, highWater, accepts, time>>

Satisfies(actual, expected) ==
  IF expected = 0 THEN actual = 0 ELSE actual >= expected

\* resolveExact: the offer is verified now while the acceptance is pending
\* and at the moment of acceptance afterwards.
ResolveExact(k) ==
  LET s == chain[k] IN
  /\ ResolveFinalizedV2(k) /\ s # NoEscrow /\ s.quote = purchase.quote
  /\ Terms(s.quote).terms.buyer = Buyer.wallet
  /\ s.status # 0 => s.acceptedAt # 0 /\ s.acceptedAt <= AcceptBy(s.quote.offer)
  /\ VerifyAcceptedQuote(s.quote, purchase.from, "net",
                         IF s.status = 0 THEN time ELSE s.acceptedAt)
  /\ s.status = 2 => s.funded = Packages[purchase.from].proposal.price

Go(w, kind, pc, deadline) ==
  call' = [call EXCEPT ![w] = [kind |-> kind, pc |-> pc, deadline |-> deadline]]

\* Deploy: an account that exists must still be pending; the message is an
\* ordinary wallet transfer, signed anew for every call.
Deploy(w, k) ==
  /\ call[w] = Idle /\ purchase # NoPurchase /\ ResolveFinalizedV2(k)
  /\ highWater' = k
  /\ IF chain[k] # NoEscrow THEN UNCHANGED <<call, pool>>
     ELSE /\ pool' \in {pool, pool \cup {[kind |-> "deploy"]}}
          /\ Go(w, "deploy", "wait", 0)
  /\ UNCHANGED <<offers, keyFrom, purchase, prepared, signed, chain, accepts, time>>

BuyerAccept(w, k) ==
  LET s == chain[k] IN
  /\ call[w] = Idle /\ purchase # NoPurchase /\ ResolveExact(k)
  /\ highWater' = k
  /\ IF Satisfies(s.status, 1) THEN UNCHANGED call
     ELSE AcceptBy(s.quote.offer) > time /\ Go(w, "accept", "submit", AcceptBy(s.quote.offer))
  /\ UNCHANGED <<offers, keyFrom, purchase, prepared, signed, pool, chain, accepts, time>>

Fund(w, k) ==
  LET s == chain[k] IN
  /\ call[w] = Idle /\ purchase # NoPurchase /\ ResolveExact(k)
  /\ highWater' = k
  /\ IF Satisfies(s.status, 2) THEN UNCHANGED call
     ELSE /\ s.status = 1 /\ Terms(s.quote).terms.funding >= time
          /\ Go(w, "fund", "submit", Terms(s.quote).terms.funding)
  /\ UNCHANGED <<offers, keyFrom, purchase, prepared, signed, pool, chain, accepts, time>>

\* The id names the transition and the state it expects, never the expiry.
ExpectedStatus(kind) == IF kind = "accept" THEN 0 ELSE 1
StableActionID(kind, expiry) ==
  [quote |-> purchase.quote, kind |-> kind, expected |-> ExpectedStatus(kind)]

\* External: the wallet signs once per action id and returns that message
\* to every later request.
Journaled(id, kind, expiry) ==
  IF id \in DOMAIN prepared THEN prepared[id] ELSE [id |-> id, kind |-> kind, until |-> expiry]

\* submitEffect up to PrepareWalletAction: the sender refuses a message that
\* expired or outlives the authorization.
PrepareWalletAction(w) ==
  LET c == call[w]
      expiry == Min({c.deadline, time + ActionTTL})
      id == StableActionID(c.kind, expiry)
      m == Journaled(id, c.kind, expiry) IN
  /\ c.pc = "submit"
  /\ prepared' = [i \in DOMAIN prepared \cup {id} |-> IF i = id THEN m ELSE prepared[i]]
  /\ signed' = signed \cup {m}
  /\ Go(w, c.kind, IF m.until <= expiry /\ time < m.until THEN "broadcast" ELSE "wait", c.deadline)
  /\ UNCHANGED <<offers, keyFrom, purchase, pool, chain, highWater, accepts, time>>

\* The outcome of a broadcast is ambiguous: the message may be lost, and an
\* error is answered like a success, by waiting for the status.
BroadcastWalletAction(w) ==
  LET c == call[w]
      mine == {m \in signed : m.kind = c.kind /\ m.id \in DOMAIN prepared /\ prepared[m.id] = m} IN
  /\ c.pc = "broadcast"
  /\ \E m \in mine : pool' \in {pool, pool \cup {m}}
  /\ Go(w, c.kind, "wait", c.deadline)
  /\ UNCHANGED <<offers, keyFrom, purchase, prepared, signed, chain, highWater, accepts, time>>

WaitedFor(kind) == CASE kind = "deploy" -> 0 [] kind = "accept" -> 1 [] OTHER -> 2

\* n is the package whose binding the evidence is for.
BuildBuyerAcceptNativeEvidence(n, s) ==
  LET b == Packages[n].binding IN
  /\ ValidatePaidDemandQuoteBinding(b) /\ s.status # 0 /\ Terms(s.quote).terms.buyer = b.buyerWallet
  /\ s.acceptedAt # 0 /\ s.acceptedAt <= b.acceptBy
  /\ DecodeAcceptedQuoteV2(s.quote, "net") /\ s.quote.offer.binding = n
  /\ VerifyProviderOffer(s.quote.offer, s.acceptedAt)

\* waitForStatus returns the finalized state it saw, from which the buyer
\* builds its evidence.
WaitForStatus(w, k) ==
  LET s == chain[k] IN
  /\ call[w].pc = "wait" /\ ResolveExact(k) /\ Satisfies(s.status, WaitedFor(call[w].kind))
  /\ highWater' = k
  /\ call' = [call EXCEPT ![w] = Idle]
  /\ accepts' = accepts \cup
       {e \in {[quote |-> s.quote, acceptedAt |-> s.acceptedAt, observed |-> k]} :
          BuildBuyerAcceptNativeEvidence(purchase.quote.offer.binding, s)}
  /\ UNCHANGED <<offers, keyFrom, purchase, prepared, signed, pool, chain, time>>

\* A timeout, an error or a crash of the process ends the call.
EndCall(w) ==
  /\ call[w] # Idle /\ call' = [call EXCEPT ![w] = Idle]
  /\ UNCHANGED <<offers, keyFrom, purchase, prepared, signed, pool, chain, highWater, accepts, time>>

------------------------------------------------------------------------------
(* Evidence as another agent verifies it, against its own view.             *)
VerifiedAtPresent(n, e, k) ==
  LET s == chain[k]
      b == Packages[n].binding IN
  /\ e.acceptedAt # 0 /\ e.acceptedAt <= b.acceptBy
  /\ s # NoEscrow /\ s.status # 0 /\ k >= e.observed
  /\ s.quote = e.quote /\ Terms(s.quote).terms.buyer = b.buyerWallet
  /\ s.acceptedAt = e.acceptedAt
  /\ DecodeAcceptedQuoteV2(s.quote, "net") /\ s.quote.offer.binding = n
  /\ VerifyProviderOffer(s.quote.offer, time)

VerifyFinalizedBuyerAccept(n, e, k) ==
  LET s == chain[k]
      b == Packages[n].binding IN
  /\ e.acceptedAt # 0 /\ e.acceptedAt <= b.acceptBy
  /\ s # NoEscrow /\ s.status # 0 /\ k >= e.observed
  /\ s.quote = e.quote /\ Terms(s.quote).terms.buyer = b.buyerWallet
  /\ s.acceptedAt = e.acceptedAt
  /\ DecodeAcceptedQuoteV2(s.quote, "net") /\ s.quote.offer.binding = n
  /\ VerifyProviderOffer(s.quote.offer, e.acceptedAt)

------------------------------------------------------------------------------
(* The chain and the escrow contract, external.                             *)
Latest == chain[Len(chain)]
Finalize(s) == Len(chain) < MaxChain /\ chain' = Append(chain, s)
Chain == UNCHANGED <<offers, keyFrom, purchase, call, prepared, signed, highWater, accepts, time>>

Included(m) ==
  /\ m \in pool /\ pool' = pool \ {m}
  /\ CASE m.kind = "deploy" /\ Latest = NoEscrow ->
            Finalize(EscrowStateV2(purchase.quote))
       [] m.kind = "accept" /\ Latest # NoEscrow ->
            IF Latest.status = 0 /\ time < AcceptBy(Latest.quote.offer) /\ time < m.until
            THEN Finalize([Latest EXCEPT !.status = 1, !.acceptedAt = time]) ELSE UNCHANGED chain
       [] m.kind = "fund" /\ Latest # NoEscrow ->
            IF Latest.status = 1 /\ time <= Terms(Latest.quote).terms.funding /\ time < m.until
            THEN Finalize([Latest EXCEPT !.status = 2, !.funded = Terms(Latest.quote).proposal.price])
            ELSE UNCHANGED chain
       [] OTHER -> UNCHANGED chain
  /\ Chain

Settle ==
  /\ Latest # NoEscrow /\ Latest.status = 2
  /\ \/ Finalize([Latest EXCEPT !.status = 3, !.settled = Latest.funded, !.receipt = 1, !.query = 1])
     \/ time >= Terms(Latest.quote).terms.refund /\ Finalize([Latest EXCEPT !.status = 4, !.query = 1])
  /\ UNCHANGED pool /\ Chain

RotateProviderKey ==
  /\ Len(keyFrom) < MaxProviderKey /\ keyFrom' = Append(keyFrom, time)
  /\ UNCHANGED <<offers, purchase, call, prepared, signed, pool, chain, highWater, accepts, time>>

PaidTick ==
  /\ time < MaxClock /\ time' = time + 1
  /\ UNCHANGED <<offers, keyFrom, purchase, call, prepared, signed, pool, chain, highWater, accepts>>

PaidNext ==
  \/ \E n \in DOMAIN Packages, expires \in OfferExpiries : OfferSigned(n, expires)
  \/ \E n \in DOMAIN Packages, offer \in offers : PreparePurchase(n, offer)
  \/ \E w \in Workers, k \in 1 .. Len(chain) :
       Deploy(w, k) \/ BuyerAccept(w, k) \/ Fund(w, k) \/ WaitForStatus(w, k)
  \/ \E w \in Workers : PrepareWalletAction(w) \/ BroadcastWalletAction(w) \/ EndCall(w)
  \/ \E m \in pool : Included(m)
  \/ Settle \/ RotateProviderKey \/ PaidTick

------------------------------------------------------------------------------
\* However often Accept and Fund are called, crash or overlap, the wallet
\* signs at most one message for each transition of the purchase.
OneMessagePerTransition ==
  \A m, n \in signed : m.kind = n.kind => m = n

\* Money in the escrow is the price of one payment the buyer owes the
\* provider under the agreement the provider's own offer binds, accepted in
\* time, with a refund only after the execution deadline.
FundedAsAgreed ==
  (Latest # NoEscrow /\ Latest.status >= 2) =>
    LET offer == Latest.quote.offer
        b == Packages[offer.binding].binding
        v == Packages[purchase.from] IN
    /\ offer \in offers /\ <<purchase.from, offer.binding>> \in BoundTo
    /\ \E o \in v.agreement.obligations :
         /\ o.id \in b.obligations /\ o.obligor = Buyer.agent /\ o.beneficiary = b.provider
         /\ o.value = Latest.funded
    /\ Latest.acceptedAt < b.acceptBy /\ b.acceptBy <= v.terms.funding
    /\ v.terms.funding < v.execution /\ v.execution < v.terms.refund

\* Evidence of an acceptance, once built, verifies for the binding of the
\* purchase against every later finalized state, after the offer expired and
\* after the provider's key was rotated away.
EvidenceStaysVerifiable ==
  \A e \in accepts : \A k \in e.observed .. Len(chain) :
    VerifyFinalizedBuyerAccept(purchase.quote.offer.binding, e, k)

\* The buyer pays once, pays what was agreed, and can show it afterwards.
PurchaseAsAgreed == OneMessagePerTransition /\ FundedAsAgreed /\ EvidenceStaysVerifiable
==============================================================================
