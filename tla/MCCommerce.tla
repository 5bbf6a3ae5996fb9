------------------------------ MODULE MCCommerce ------------------------------
(***************************************************************************)
(* Components that share no state, checked side by side: a behaviour       *)
(* belongs to one of them and leaves the variables of the others alone.    *)
(***************************************************************************)
EXTENDS Agreement, Settlement, Engagement, Outcome, IntentHandoff, PredictionMarket,
        MarketEvidence, MCExecutionGate

------------------------------------------------------------------------------
(***************************************************************************)
(* A one-time atomic and a one-time decimal obligation, a monthly one, and *)
(* two billings MaterializeSettlementObligations refuses.                  *)
(***************************************************************************)
Atomic(v) == [asset |-> "tos", form |-> "atomic", coefficient |-> v, scale |-> 0]
Decimal(c, s) == [asset |-> "usd", form |-> "decimal", coefficient |-> c, scale |-> s]

Once ==
  [billing |-> "none", amount |-> Atomic(2), notBefore |-> 0, due |-> 2, expires |-> 3,
   first |-> 0, start |-> 0, end |-> 0, count |-> 0, interval |-> 0, maximum |-> Atomic(2)]
Monthly ==
  [Once EXCEPT !.billing = "periodic", !.first = 1, !.start = 1, !.end = 4, !.count = 2,
               !.interval = 1, !.maximum = Atomic(4), !.due = 0, !.expires = 0]
MCBillable ==
  {Once, [Once EXCEPT !.amount = Decimal(15, 1)], Monthly,
   [Monthly EXCEPT !.maximum = Atomic(3)], [Monthly EXCEPT !.interval = 3]}
MCRequested == {Atomic(1), Atomic(2), Decimal(75, 2), Decimal(5, 1)}
MCDestinations == {[network |-> "n", address |-> "d"]}

------------------------------------------------------------------------------
(***************************************************************************)
(* One event of each profile, with evidence qualified at one of two pinned *)
(* authority times; some are refused.                                      *)
(***************************************************************************)
Early == AuthorityTime(1, 2, 7)
Late == AuthorityTime(2, 3, 9)
MCTimePins == <<Early, Late>>

Item(role, claimed, t, until) ==
  EvidenceItem(role, role, "issuer", "deal", claimed, t,
               Qualification("issuer", role, "deal", 1, until, t))
Seen(kind, uri, payload, role, claimed, t, until) ==
  Event(kind, uri, payload, <<Item(role, claimed, t, until)>>)

E1 == Seen("observation", "ledger", <<LedgerEntry(1, 2, <<LedgerLine("x", "debit",2),
        LedgerLine("x", "credit",2)>>)>>, "accounting_authority", 1, Early, 3)
E2 == Seen("observation", "ledger", <<LedgerEntry(1, 2, <<LedgerLine("x", "debit",2),
        LedgerLine("y", "credit",2)>>)>>, "accounting_authority", 1, Early, 3)
E3 == Seen("observation", "conversion", Conversion(1, 5, 2, "half_even", 0, 2),
        "price_evidence", 2, Early, 5)
E4 == Seen("observation", "conversion", Conversion(1, 5, 2, "half_even", 0, 3),
        "price_evidence", 2, Late, 4)
E5 == Event("observation", "action_reference", [revision |-> 1], <<>>)
E6 == Event("transition", "escrow", EscrowObservation("release_finalized",
        "agreement_bound", 1),
        <<Item("escrow_state", 2, Early, 4), Item("authority_finality", 3, Late, 4)>>)
E7 == Seen("observation", "revenue", Revenue("related_party", 2, 1),
        "accounting_authority", 2, Late, 4)
E8 == Seen("checkpoint", "cohort_checkpoint", Checkpoint(3, 2, 1, 1, 1, 3),
        "admission_checkpoint", 3, Early, 4)
E9 == Seen("transition", "obligation_state", ObligationState(15, 0, 1, 1, 2),
        "billing_resolution", 2, Late, 4)
E10 == Seen("observation", "gift", Transfer("gift", "a", "b", 1, FALSE, FALSE, TRUE),
        "finalized_transfer", 2, Early, 3)
E11 == Seen("transition", "state_transition", StateTransition(1, 2), "source_resolution",
        2, Early, 4)
E12 == Seen("terminal", "terminal", TerminalDisposition("failed", "delivery"),
        "authoritative_resolution", 2, Early, 4)
E13 == Seen("observation", "cost", CostObservation("contra", TRUE), "cost_source", 2, Early, 4)
E14 == Seen("availability", "availability", Availability("available", "redacted"),
        "custodian_resolution", 2, Early, 4)
E15 == Seen("transition", "gate_execution", GateExecution("start", "start"),
        "authoritative_resolution", 2, Early, 4)
E16 == Seen("observation", "carrier_receipt", CarrierReceipt(1, 1), "carrier_receipt", 2,
        Early, 4)
E17 == Seen("observation", "agreement_payment", Transfer("agreement_bound", "a", "b", 1,
        TRUE, TRUE, FALSE), "finalized_transfer", 2, Early, 4)
E18 == Seen("observation", "perimeter", Perimeter(1, 2), "perimeter_authority", 2, Early, 4)
E19 == Seen("observation", "forecast", Forecast(1, 2, 1, 2), "forecast_authority", 2, Early, 4)
E20 == Seen("observation", "censoring", Censoring(1, 1, 1), "admission_checkpoint", 2, Early, 4)
E21 == Seen("observation", "calibration", Calibration(1, 1), "cohort_checkpoint", 2, Early, 4)
E22 == Seen("observation", "financial", FinancialReport(1, 2), "accounting_authority", 2,
        Early, 4)
E23 == Seen("checkpoint", "dataset", LearningDataset(1, 1, 0, 0), "admission_checkpoint",
        2, Early, 4)
E24 == Event("observation", "promotion", SkillPromotion("s1", "s2", 1),
        <<Item("owner_approval", 2, Early, 4), Item("evaluation_report", 2, Early, 4)>>)
MCEvents ==
  <<E1, E2, E3, E4, E5, E6, E7, E8, E9, E10, E11, E12, E13, E14, E15, E16, E17, E18, E19,
    E20, E21, E22, E23, E24>>

------------------------------------------------------------------------------
(***************************************************************************)
(* Three payloads of which one is valid, three origins that redirect to    *)
(* each other, and three handoff challenges.                               *)
(***************************************************************************)
Specified == Card({"offer"}, {"service"}, {"k"}, "specified", 1, Schedule(1, 2, 1, 2))
Ranged == Card({"offer"}, {"service"}, {"k"}, "range", 0, Schedule(1, 2, 1, 2))
Small == ContentDescriptor(1, "d", "d")
Large == ContentDescriptor(2, "e", "none")
MCPayloads ==
  {Payload(Specified, Large, {Small}, 1), Payload(Ranged, Small, {Large}, 1),
   Payload(Specified, Large, {Large}, 1)}

MCRetrieval == Policy({"a", "b", "c"}, "a", 2, 3)
MCSites ==
  [a |-> {Redirect("b"), Body(2, "good")},
   b |-> {Redirect("a"), Redirect("c"), Redirect("x"), Body(2, "bad")},
   c |-> {Redirect("a"), Body(2, "good"), Body(3, "good")}]
MCWanted == [size |-> 2, digest |-> "good"]

H1 == Challenge("h1", "s", "r", 2, 3, 1, {"text"}, 1, 3, 4)
H2 == Challenge("h2", "s", "r", 3, 4, 2, {"text"}, 1, 4, 4)
H3 == Challenge("h3", "s", "r", 2, 3, 1, {"text"}, 1, 4, 2)
MCChallenges == {H1, H2, H3}
MCManifests == {Manifest("p", "text", 1, 2, 2), Manifest("q", "text", 2, 3, 3)}

------------------------------------------------------------------------------
(***************************************************************************)
(* Two traders whose six orders match in the three ways, and evidence      *)
(* entries whose ids are prefixes of each other.                           *)
(***************************************************************************)
Order(owner, action, outcome, role, price, quantity, minFill, partial) ==
  [market |-> "m", owner |-> owner, action |-> action, outcome |-> outcome, role |-> role,
   quantity |-> quantity, minFill |-> minFill, partial |-> partial, price |-> price,
   validAfter |-> 0, validUntil |-> 1, counterparty |-> "anyone"]

O1 == Order("ann", "buy", "yes", "maker", 3, 3, 2, TRUE)
O2 == Order("ben", "buy", "no", "taker", 2, 2, 1, FALSE)
O3 == Order("ben", "buy", "no", "taker", 1, 3, 1, TRUE)
O4 == Order("ann", "sell", "yes", "maker", 2, 2, 1, TRUE)
O5 == Order("ben", "sell", "no", "taker", 1, 2, 1, TRUE)
O6 == Order("ben", "buy", "yes", "taker", 3, 2, 1, TRUE)
Signed(order) == SignPredictionOrder(order, order.owner)
\* Beside the six orders, cells that do not decode: an order changed after it
\* was signed, one signed with a key of another profile, one with data left
\* over, and one that is not canonical.
MCOrderCells ==
  {Signed(o) : o \in {O1, O2, O3, O4, O5, O6}}
    \cup {[Signed(O2) EXCEPT !.order.terms.quantity = 3], SignPredictionOrder(O5, "other"),
          [Signed(O3) EXCEPT !.rest = 1], [Signed(O6) EXCEPT !.order.owner.present = TRUE]}

MCSourceIDs == {<<1>>, <<1, 1>>}
MCContentDigests == {<<0>>, <<1>>}

------------------------------------------------------------------------------
(***************************************************************************)
(* A two-party agreement whose payment a wallet authorizes by two          *)
(* predicates, a second version of it, and a draft whose obligations wait  *)
(* for each other.                                                         *)
(***************************************************************************)
Alice == AgreementAuthoritySubject("agent", "alice", "")
BobWallet == AgreementAuthoritySubject("wallet", "w", "bob")

Delivery == AgreementObligation(1, "alice", "bob", {}, 0, {1})
Payment(beneficiary, predicates) ==
  AgreementObligation(2, "bob", beneficiary, {1}, 5, predicates)

FirstVersion ==
  AgentAgreementBody(1, NoBody, {"alice", "bob"}, {Delivery, Payment("alice", {2, 3})},
    {AgreementAuthorizationPredicate(1, Alice, {1}, "agent-signature", 0, 3),
     AgreementAuthorizationPredicate(2, BobWallet, {2}, "authority-signature", 0, 4),
     AgreementAuthorizationPredicate(3, BobWallet, {2}, "authority-signature", 2, 4)}, 1, 4)
SecondVersion ==
  [FirstVersion EXCEPT !.version = 2, !.predecessor = PrepareAgreementTargets(FirstVersion),
                       !.obligations = {Delivery, Payment("", {2})}]
Circular ==
  [FirstVersion EXCEPT !.obligations = {[Delivery EXCEPT !.depends = {2}], Payment("", {2})}]
MCDrafts == {FirstVersion, SecondVersion, Circular}

------------------------------------------------------------------------------
VARIABLE part

\* One chain for the components that do not look at it.
Unfunded == [status |-> [e \in Escrows |-> "awaiting"], agent |-> TRUE, capability |-> TRUE,
             code |-> h1]

commerceVars ==
  <<agreementVars, settlementVars, search, outcomeVars, contentVars, marketVars, manifest,
    vars>>

CommerceInit ==
  /\ part \in {"agreement", "billing", "portfolio", "outcome", "cohort", "intent",
               "retrieval", "handoff", "market", "evidence", "gate"}
  /\ AgreementInit /\ SettlementInit /\ EngagementInit /\ OutcomeInit /\ ContentInit
  /\ MarketInit /\ EvidenceInit /\ Init
  /\ part = "gate" \/ chain = <<Unfunded>>

CommerceNext ==
  /\ UNCHANGED part
  /\ \/ /\ part = "agreement" /\ AgreementNext
        /\ UNCHANGED <<settlementVars, search, outcomeVars, contentVars, marketVars,
                       manifest, vars>>
     \/ /\ part = "billing" /\ SettlementNext
        /\ UNCHANGED <<agreementVars, search, outcomeVars, contentVars, marketVars,
                       manifest, vars>>
     \/ /\ part = "portfolio" /\ EngagementNext
        /\ UNCHANGED <<agreementVars, settlementVars, outcomeVars, contentVars, marketVars,
                       manifest, vars>>
     \/ /\ part = "outcome" /\ OutcomeNext
        /\ UNCHANGED <<agreementVars, settlementVars, search, contentVars, marketVars,
                       manifest, vars>>
     \/ /\ part = "cohort" /\ CohortNext
        /\ UNCHANGED <<agreementVars, settlementVars, search, contentVars, marketVars,
                       manifest, vars>>
     \/ /\ part = "intent" /\ IntentNext
        /\ UNCHANGED <<agreementVars, settlementVars, search, outcomeVars, marketVars,
                       manifest, vars>>
     \/ /\ part = "retrieval" /\ RetrievalNext
        /\ UNCHANGED <<agreementVars, settlementVars, search, outcomeVars, marketVars,
                       manifest, vars>>
     \/ /\ part = "handoff" /\ HandoffNext
        /\ UNCHANGED <<agreementVars, settlementVars, search, outcomeVars, marketVars,
                       manifest, vars>>
     \/ /\ part = "market" /\ MarketNext
        /\ UNCHANGED <<agreementVars, settlementVars, search, outcomeVars, contentVars,
                       manifest, vars>>
     \/ /\ part = "evidence" /\ EvidenceNext
        /\ UNCHANGED <<agreementVars, settlementVars, search, outcomeVars, contentVars, marketVars,
                       vars>>
     \/ /\ part = "gate" /\ Next
        /\ UNCHANGED <<agreementVars, settlementVars, search, outcomeVars, contentVars, marketVars,
                       manifest>>

CommerceSpec == CommerceInit /\ [][CommerceNext]_<<part, commerceVars>>
===============================================================================
