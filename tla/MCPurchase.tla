----------------------------- MODULE MCPurchase -----------------------------
(***************************************************************************)
(* The two ways to pay for a purchase, FundPurchase and the paid demand    *)
(* buyer, checked side by side: a behaviour belongs to one of them and     *)
(* leaves the variables of the other alone.                                *)
(***************************************************************************)
EXTENDS MCBuyerFunding, PaidDemand, TLC

------------------------------------------------------------------------------
(***************************************************************************)
(* One provider and one buyer, and three negotiated packages: one that     *)
(* keeps its agreement, one with another price, and one whose funding      *)
(* deadline is its execution deadline.                                     *)
(***************************************************************************)
Provider == AgreementAuthoritySubject("agent", "prov", "")
BuyerWallet == AgreementAuthoritySubject("wallet", "bw", "buyer")
Deal(price) ==
  PrepareAgreementTargets(AgentAgreementBody(1, NoBody, {"prov", "buyer"},
    {AgreementObligation(1, "prov", "buyer", {}, 0, {1}),
     AgreementObligation(2, "buyer", "prov", {}, price, {2})},
    {AgreementAuthorizationPredicate(1, Provider, {1}, "paid-demand-quote", 1, 6),
     AgreementAuthorizationPredicate(2, BuyerWallet, {2}, "paid-demand-quote", 1, 6)}, 1, 6))

Parties == [provider |-> "prov", buyer |-> "buyer", buyerWallet |-> "bw", providerWallet |-> "pw"]
Package(deal, price, acceptBy, funding, execution, refund) ==
  LET manifest == ExecutionManifestV1("canonical", deal, {1})
      terms == EscrowTermsV1("bw", "pw", funding, refund)
      proposal == QuoteProposalV1("prov", "cap", manifest, "tls", price, "usd", terms, acceptBy)
      binding == PaidDemandQuoteBindingBody(deal, {1, 2}, deal.targets, Parties,
                   BuildAcceptedQuoteCommitment("net", proposal, "signer"), acceptBy)
  IN  NegotiationPackageV1(deal, proposal, manifest, terms, "signer", "tls", execution, binding)

P1 == Package(Deal(5), 5, 2, 3, 4, 5)
P2 == Package(Deal(5), 6, 2, 3, 4, 5)
P3 == Package(Deal(7), 7, 2, 4, 4, 5)
MCPackages == <<P1, P2, P3>>
MCPublicTerms == [wallet |-> "pw", capability |-> "cap", signer |-> "signer", transport |-> "tls",
                  asset |-> "usd"]
MCBuyer == [agent |-> "buyer", wallet |-> "bw"]

------------------------------------------------------------------------------
VARIABLE part

PurchaseInit == part \in {"budget", "paid-demand"} /\ Init /\ AgreementInit /\ PaidInit

PurchaseNext ==
  /\ UNCHANGED <<part, agreementVars>>
  /\ \/ part = "budget" /\ Next /\ UNCHANGED paidVars
     \/ part = "paid-demand" /\ PaidNext /\ UNCHANGED vars

PurchaseSpec == PurchaseInit /\ [][PurchaseNext]_<<part, agreementVars, paidVars, vars>>

\* The buyers have the names of the workers.
Interchangeable == Permutations(Workers)
=============================================================================
