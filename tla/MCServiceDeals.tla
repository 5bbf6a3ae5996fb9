---------------------------- MODULE MCServiceDeals ----------------------------
(***************************************************************************)
(* The paths from a service profile to an admitted deal, of the relay and  *)
(* of the guarantor, the relay's admission and gifts, checked side by      *)
(* side: a behaviour belongs to one of them and leaves the variables of    *)
(* the others alone.                                                       *)
(***************************************************************************)
EXTENDS RelayDocuments, RelayAuthorization, GuarantorOffer, RelayAdmission, AgentGift

------------------------------------------------------------------------------
(***************************************************************************)
(* A service profile with three finality profiles, five quote requests,    *)
(* and obligations of which some are not the relay's.                      *)
(***************************************************************************)
ByValidators == FinalityProfile("validator", "validator", 2, 1, 2, 1)
ByProvider == FinalityProfile("provider_corroborated", "provider_corroborated", 2, 1, 1, 1)
ByClient == FinalityProfile("client_corroborated", "client_corroborated", 1, 1, 1, 1)
MCServiceProfile ==
  [created |-> 0, expires |-> 8, modes |-> {"relay_exact", "sponsor_only", "sponsor_and_relay"},
   assurances |-> {"autonomous", "single"}, finality |-> {ByValidators, ByProvider, ByClient},
   perRequest |-> 2, outstanding |-> 4]

Observed == [class |-> "observed_unproven",
             profile |-> [class |-> "rpc_corroboration", uri |-> "rpc"]]
Q1 == RelayQuoteRequest("relay_exact", "single", ByProvider, NoFinality, NoRelease, 0, 2, 0, 3, 4)
Q2 == RelayQuoteRequest("sponsor_only", "autonomous", NoFinality, ByValidators,
                        [class |-> "validator", profile |-> ByValidators], 2, 1, 0, 2, 5)
Q3 == RelayQuoteRequest("sponsor_and_relay", "single", ByValidators, ByClient, Observed, 2, 2, 0, 3, 5)
Q4 == RelayQuoteRequest("sponsor_and_relay", "autonomous", ByValidators, ByClient, Observed,
                        2, 2, 0, 3, 5)
Q5 == RelayQuoteRequest("relay_exact", "single", ByValidators, NoFinality, NoRelease, 0, 2, 0, 1, 3)
MCQuoteRequests == {Q1, Q2, Q3, Q4, Q5}

Offered(relay, sponsorship, lines, reserved) ==
  [relay |-> relay, sponsorship |-> sponsorship, lines |-> lines, reserved |-> reserved,
   validFrom |-> 0, expires |-> 2]
RelayFee == FeeLine("transaction_relay_fee", 1)
SponsorFee(amount) == FeeLine("gas_sponsorship_fee", amount)
MCQuoteTerms ==
  {Offered(ByProvider, NoFinality, <<RelayFee>>, 0),
   Offered(NoFinality, ByValidators, <<SponsorFee(1)>>, 2),
   Offered(NoFinality, ByValidators, <<SponsorFee(2)>>, 2),
   Offered(ByValidators, ByClient, <<SponsorFee(1), RelayFee>>, 2),
   Offered(ByValidators, ByClient, <<SponsorFee(2), RelayFee>>, 2),
   Offered(ByValidators, ByClient, <<SponsorFee(1), RelayFee>>, 1)}

MCObligations ==
  {Obligation("a", "transaction_relay", "provider", "client", 0, TRUE),
   Obligation("b", "gas_sponsorship", "provider", "client", 2, TRUE),
   Obligation("c", "transaction_relay_fee", "client", "provider", 1, TRUE),
   Obligation("d", "gas_sponsorship_fee", "client", "provider", 1, TRUE),
   Obligation("e", "transaction_relay_fee", "client", "provider", 1, FALSE),
   Obligation("e", "transaction_relay_fee", "client", "provider", 1, TRUE),
   Obligation("e", "consulting", "client", "provider", 1, TRUE),
   Obligation("e", "consulting", "client", "provider", 1, FALSE)}

------------------------------------------------------------------------------
(***************************************************************************)
(* Three executions of one stable action: two providers for the relay, and *)
(* one of them for relay and sponsorship.                                  *)
(***************************************************************************)
Ordered(mode, provider, created) ==
  RelayExecutionRequest("a", 1, 1, mode, "autonomous", provider, created, 4, 0, {4, 5})
X1 == Ordered("relay_exact", "p", 0)
X2 == Ordered("relay_exact", "q", 0)
X3 == Ordered("sponsor_and_relay", "q", 1)
MCExecutions == <<X1, X2, X3>>

------------------------------------------------------------------------------
(***************************************************************************)
(* A guarantor with two claim and two collateral profiles, and coverage    *)
(* terms with too little collateral, none, and of three levels.            *)
(***************************************************************************)
Hearing == Capacity(1, 2, 2)
Fast == ClaimProfile("fast", "panel", Hearing, 2, 2, {"deny"})
Slow == ClaimProfile("slow", "court", Capacity(2, 4, 2), 3, 3, {"deny"})
Vault == CollateralProfile("vault", "attested", 3, {"fast"}, {}, 1)
Trust == CollateralProfile("trust", "independent", 2, {"fast", "slow"}, {"notary"}, 2)
Capabilities == {[least |-> 1, most |-> 3, longest |-> 2, window |-> 1]}
MCGuarantorProfile ==
  [created |-> 1, expires |-> 9, grace |-> 1, claims |-> {Fast, Slow},
   collateral |-> {Vault, Trust}, capabilities |-> Capabilities]

Ask(level, collateral) == RequestedTerms(3, 3, Hearing, 3, 4, 5, "fast", level, collateral)
Covered(request, collateral) == CoverageTerms(request, "panel", 1, 1, "deny", 7, collateral)
Attested == Ask("attested", "vault")
MCCoverageRequests == <<Attested>>

C1 == Covered(Attested, CollateralTerms("vault", 5, 2, 6, 7, {}, 1))
C2 == Covered(Attested, CollateralTerms("vault", 4, 2, 6, 7, {}, 1))
C3 == Covered(Ask("independent", "trust"), CollateralTerms("trust", 3, 2, 6, 7, {"notary"}, 1))
C4 == Covered(Ask("unsecured", ""), NoCollateral)
MCCoverageOffers == <<C1, C2, C3, C4>>
MCControllers == {{"custodian"}, {"custodian", "guarantor"}}

------------------------------------------------------------------------------
CONSTANTS r1, r2, r3, alice, bob

MCRequester == [r \in Requests |-> IF r = r1 THEN bob ELSE alice]
\* r1 fits with neither of the others; r2 and r3, of one requester, fit together.
MCAmount == [r \in Requests |-> IF r = r1 THEN 2 ELSE 1]

Interchangeable == Permutations(Servers) \cup Permutations(Actions)

------------------------------------------------------------------------------
VARIABLE part

DealsInit ==
  /\ part \in {"documents", "authorization", "coverage", "admission", "gift"}
  /\ DealInit /\ AuthInit /\ CoverInit /\ Init /\ GiftInit

DealsNext ==
  /\ UNCHANGED part
  /\ \/ part = "documents" /\ DealNext /\ UNCHANGED <<authVars, coverVars, giftVars, vars>>
     \/ part = "authorization" /\ AuthNext /\ UNCHANGED <<dealVars, coverVars, giftVars, vars>>
     \/ part = "coverage" /\ CoverNext /\ UNCHANGED <<dealVars, authVars, giftVars, vars>>
     \/ part = "admission" /\ Next /\ UNCHANGED <<dealVars, authVars, coverVars, giftVars>>
     \/ part = "gift" /\ GiftNext /\ UNCHANGED <<dealVars, authVars, coverVars, vars>>

DealsSpec == DealsInit /\ [][DealsNext]_<<part, dealVars, authVars, coverVars, giftVars, vars>>
===============================================================================
