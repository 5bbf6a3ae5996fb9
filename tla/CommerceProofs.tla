--------------------------- MODULE CommerceProofs ---------------------------
(***************************************************************************)
(* Proofs about the documents of pkg/agentcommerce, for every set of       *)
(* documents, amounts and times and every bound: Agreement, whatever       *)
(* bodies circulate and however the evidence travels; Settlement, whatever *)
(* is billed and reported; IntentHandoff, whatever origins answer and      *)
(* whatever is handed over.                                                *)
(***************************************************************************)
EXTENDS Agreement, Settlement, IntentHandoff, TLAPS

-----------------------------------------------------------------------------
(* Whoever owes agreed. *)

\* What AuthorizedByObligors says of one promotion, given the acceptances.
Authorized(r, signed) ==
  \A o \in r.body.obligations :
    \E p \in r.body.predicates, a \in signed :
      /\ p.id \in o.predicates /\ Represents(p.subject, o.obligor)
      /\ a.digest = r.body /\ a.subject = p.subject
      /\ \A q \in r.body.predicates :
           q.subject = p.subject /\ q.profile = p.profile => q.id \in a.predicates
      /\ r.at < a.expires /\ a.key = r.keys[p.subject]

\* Evidence that passes the check of a body carries an acceptance of that body,
\* for the whole group of predicates, that is current now.
LEMMA EvidenceIsAcceptance ==
  ASSUME NEW body, NEW e, NEW now, EvidenceFits(body, e, now)
  PROVE  /\ e.evidence \in acceptances
         /\ e.evidence.digest = body /\ e.evidence.subject = e.subject
         /\ \A q \in body.predicates :
              q.subject = e.subject /\ q.profile = e.profile => q.id \in e.evidence.predicates
         /\ now < e.evidence.expires /\ e.evidence.key = subjectKey[e.subject]
<1>1. VerifySignedAgreementAcceptance(e.evidence, e, now)
  BY DEF EvidenceFits, VerifyAgreementEvidence, AgentSignatureEvidenceVerifier,
         AuthoritySignatureEvidenceVerifier
<1>2. \A q \in body.predicates :
        q.subject = e.subject /\ q.profile = e.profile => q.id \in e.predicates
  BY DEF EvidenceFits, Group, Ids
<1> QED
  BY <1>1, <1>2, Zenon DEF VerifySignedAgreementAcceptance, EvidenceFits

\* A complete set of evidence authorizes every obligation of its body.
LEMMA CompleteAuthorizes ==
  ASSUME NEW body, NEW evidence, NEW now,
         ValidateAgreementEvidenceSet(body, evidence, now, TRUE)
  PROVE  Authorized([body |-> body, at |-> now, keys |-> subjectKey], acceptances)
<1> SUFFICES ASSUME NEW o \in body.obligations
             PROVE  \E p \in body.predicates, a \in acceptances :
                      /\ p.id \in o.predicates /\ Represents(p.subject, o.obligor)
                      /\ a.digest = body /\ a.subject = p.subject
                      /\ \A q \in body.predicates :
                           q.subject = p.subject /\ q.profile = p.profile => q.id \in a.predicates
                      /\ now < a.expires /\ a.key = subjectKey[p.subject]
  BY DEF Authorized
<1>1. PICK p \in body.predicates : p.id \in o.predicates /\ Represents(p.subject, o.obligor)
  BY DEF ValidateAgreementEvidenceSet, ValidateAgreementBody, ValidateCore
<1>2. PICK e \in evidence : e.subject = p.subject /\ e.profile = p.profile
  <2>1. <<p.subject, p.profile>> \in Groups(body)
    BY DEF Groups
  <2> QED
    BY <2>1 DEF ValidateAgreementEvidenceSet
<1>3. EvidenceFits(body, e, now)
  BY DEF ValidateAgreementEvidenceSet
<1> QED
  BY <1>1, <1>2, <1>3, EvidenceIsAcceptance

\* Acceptances are never withdrawn, so what was authorized stays so.
LEMMA StepAuthorized ==
  ASSUME AuthorizedByObligors, [AgreementNext]_agreementVars
  PROVE  AuthorizedByObligors'
<1>1. AuthorizedByObligors <=> \A r \in promoted : Authorized(r, acceptances)
  BY DEF AuthorizedByObligors, Authorized
<1>2. (\A r \in promoted : Authorized(r, acceptances))' => AuthorizedByObligors'
  BY DEF AuthorizedByObligors, Authorized
<1>3. ASSUME acceptances \subseteq acceptances', promoted' = promoted
      PROVE  (\A r \in promoted : Authorized(r, acceptances))'
  BY <1>1, <1>3, Zenon DEF Authorized
<1>4. ASSUME NEW body \in bodies, Promote(body)
      PROVE  (\A r \in promoted : Authorized(r, acceptances))'
  <2>1. Authorized([body |-> body, at |-> agreementTime, keys |-> subjectKey], acceptances)
    BY <1>4, CompleteAuthorizes, Zenon DEF Promote
  <2>2. /\ promoted' = promoted \cup
              {[body |-> body, at |-> agreementTime, keys |-> subjectKey]}
        /\ acceptances' = acceptances
    BY <1>4, Zenon DEF Promote
  <2> QED
    BY <1>1, <2>1, <2>2, Zenon
<1>5. \/ acceptances \subseteq acceptances' /\ promoted' = promoted
      \/ \E body \in bodies : Promote(body)
  BY ZenonT(30) DEF AgreementNext, agreementVars, Propose, Accept, Receive, RotateKey, AgreementTick
<1> QED
  BY <1>2, <1>3, <1>4, <1>5, Zenon

\* Whoever owes something under a promoted agreement agreed to it
\* (validateAgreementEvidenceSet), for every value of the constants.
THEOREM ObligorsAuthorized == AgreementSpec => []AuthorizedByObligors
<1>1. AgreementInit => AuthorizedByObligors
  BY DEF AgreementInit, AuthorizedByObligors
<1> QED
  BY <1>1, StepAuthorized, PTL DEF AgreementSpec

-----------------------------------------------------------------------------
(* The ledger moves forward. *)

\* A ledger entry has the fields of SettlementObligationState.
StateFields ==
  {"obligation", "state", "paid", "outstanding", "applied", "refs", "revision"}
IsState(s) == s = [f \in StateFields |-> s[f]]

\* Each instance has its entry, which is a state.
LedgerInv ==
  /\ DOMAIN ledger = DOMAIN instances
  /\ \A n \in DOMAIN ledger : IsState(ledger[n])

\* What a call may do to an entry.
Advances(s, t) ==
  /\ s.applied \subseteq t.applied
  /\ s.refs \subseteq t.refs
  /\ s.state \in Terminal => t = s

\* A payment, applied, repeated or refused, only advances an entry.
LEMMA PaymentAdvances ==
  ASSUME NEW s, IsState(s), NEW o, NEW digest, NEW amount, NEW now
  PROVE  /\ IsState(ApplyPayment(s, o, digest, amount, now))
         /\ Advances(s, ApplyPayment(s, o, digest, amount, now))
<1> DEFINE total == AddAmounts(s.paid, amount)
           left == SubtractAmounts(o.amount, total)
           t == [s EXCEPT !.applied = @ \cup {digest}, !.refs = @ \cup {digest},
                          !.paid = total, !.outstanding = left, !.revision = @ + 1,
                          !.state = IF AmountIsZero(left) THEN "paid" ELSE "partially_paid"]
<1>1. Credited(s, o, digest, amount) = t
  BY DEF Credited
<1> HIDE DEF total, left
<1>2. DOMAIN s = StateFields
  BY DEF IsState
<1>3. t.applied = s.applied \cup {digest} /\ t.refs = s.refs \cup {digest}
  BY <1>2, Zenon DEF StateFields
<1>4. IsState(t)
  BY <1>2, Zenon DEF IsState
<1> HIDE DEF t
<1>5. CASE ApplyPayment(s, o, digest, amount, now) = s
  BY <1>5, Zenon DEF Advances
<1>6. CASE ApplyPayment(s, o, digest, amount, now) = t /\ s.state \notin Terminal
  BY <1>3, <1>6, <1>4, Zenon DEF Advances
<1> QED
  BY <1>1, <1>5, <1>6, Zenon DEF ApplyPayment

\* So does a transition other than payment.
LEMMA ResolutionAdvances ==
  ASSUME NEW s, IsState(s), NEW o, NEW target, NEW digest, NEW now
  PROVE  /\ IsState(ResolveSettlementState(s, o, target, digest, now))
         /\ Advances(s, ResolveSettlementState(s, o, target, digest, now))
<1> DEFINE t == [s EXCEPT !.state = target, !.revision = @ + 1, !.refs = @ \cup {digest}]
<1>1. DOMAIN s = StateFields
  BY DEF IsState
<1>2. t.applied = s.applied /\ t.refs = s.refs \cup {digest}
  BY <1>1, Zenon DEF StateFields
<1>3. IsState(t)
  BY <1>1, Zenon DEF IsState
<1>4. ASSUME ResolutionAllowed(s, o, target, now)
      PROVE  s.state \notin Terminal
  BY <1>4, Zenon DEF ResolutionAllowed, Terminal
<1> HIDE DEF t
<1>5. CASE ResolveSettlementState(s, o, target, digest, now) = s
  BY <1>5 DEF Advances
<1>6. CASE ResolveSettlementState(s, o, target, digest, now) = t /\ s.state \notin Terminal
  BY <1>2, <1>3, <1>6, Zenon DEF Advances
<1> QED
  BY <1>4, <1>5, <1>6, Zenon DEF ResolveSettlementState, t

\* A step that changes one entry by such a call advances the ledger.
LEMMA EntryAdvances ==
  ASSUME LedgerInv, NEW n \in DOMAIN ledger, NEW t,
         IsState(t), Advances(ledger[n], t),
         ledger' = [ledger EXCEPT ![n] = t], UNCHANGED instances
  PROVE  LedgerInv' /\ \A m \in DOMAIN ledger : Advances(ledger[m], ledger'[m])
<1>1. DOMAIN ledger' = DOMAIN ledger
  OBVIOUS
<1>2. \A m \in DOMAIN ledger : ledger'[m] = IF m = n THEN t ELSE ledger[m]
  OBVIOUS
<1>3. \A m \in DOMAIN ledger : IsState(ledger'[m])
  BY <1>2, Zenon DEF LedgerInv
<1>4. \A m \in DOMAIN ledger : Advances(ledger[m], ledger'[m])
  BY <1>2, Zenon DEF Advances
<1> QED
  BY <1>1, <1>3, <1>4, Zenon DEF LedgerInv

\* Every step keeps the invariant and advances every entry.
LEMMA StepAdvances ==
  ASSUME LedgerInv, [SettlementNext]_settlementVars
  PROVE  LedgerInv' /\ \A m \in DOMAIN ledger : Advances(ledger[m], ledger'[m])
<1>1. ASSUME NEW t \in Billable, Materialize(t)
      PROVE  LedgerInv' /\ DOMAIN ledger = {}
  <2> DEFINE made == MaterializeSettlementObligations(t)
  <2> HIDE DEF made
  <2>1. instances = << >> /\ instances' = made
        /\ ledger' = [n \in DOMAIN made |-> NewSettlementState(made[n])]
    BY <1>1, Zenon DEF Materialize, made
  <2>2. \A o : IsState(NewSettlementState(o))
    BY Zenon DEF IsState, StateFields, NewSettlementState
  <2> QED
    BY <2>1, <2>2 DEF LedgerInv
<1>2. ASSUME NEW n \in DOMAIN instances, NEW r, NEW a, DeliverEvidence(n, r, a)
      PROVE  LedgerInv' /\ \A m \in DOMAIN ledger : Advances(ledger[m], ledger'[m])
  BY <1>2, PaymentAdvances, EntryAdvances, Zenon DEF DeliverEvidence, LedgerInv
<1>3. ASSUME NEW n \in DOMAIN instances, NEW amount, NEW digest, ReportPayment(n, amount, digest)
      PROVE  LedgerInv' /\ \A m \in DOMAIN ledger : Advances(ledger[m], ledger'[m])
  BY <1>3, PaymentAdvances, EntryAdvances, Zenon DEF ReportPayment, LedgerInv
<1>4. ASSUME NEW n \in DOMAIN instances, NEW target, NEW digest, ResolveInstance(n, target, digest)
      PROVE  LedgerInv' /\ \A m \in DOMAIN ledger : Advances(ledger[m], ledger'[m])
  BY <1>4, ResolutionAdvances, EntryAdvances, Zenon DEF ResolveInstance, LedgerInv
<1>5. ASSUME UNCHANGED <<instances, ledger>>
      PROVE  LedgerInv' /\ \A m \in DOMAIN ledger : Advances(ledger[m], ledger'[m])
  BY <1>5, Zenon DEF LedgerInv, Advances
<1> QED
  BY <1>1, <1>2, <1>3, <1>4, <1>5, Zenon
  DEF SettlementNext, settlementVars, RequestPayment, AttestTransfer, BillingTick

\* LedgerAdvances, whatever is billed, requested, attested and reported.
THEOREM LedgerMovesForward == SettlementSpec => LedgerAdvances
<1>1. SettlementInit => LedgerInv
  BY DEF SettlementInit, LedgerInv
<1>2. LedgerInv /\ [SettlementNext]_settlementVars => LedgerInv'
  BY StepAdvances, Zenon
<1>3. LedgerInv /\ [SettlementNext]_settlementVars =>
        [\A n \in DOMAIN ledger :
           /\ ledger[n].applied \subseteq ledger'[n].applied
           /\ ledger[n].refs \subseteq ledger'[n].refs
           /\ ledger[n].state \in Terminal => ledger'[n] = ledger[n]]_settlementVars
  BY StepAdvances, Zenon DEF Advances
<1> QED
  BY <1>1, <1>2, <1>3, PTL DEF SettlementSpec, LedgerAdvances

-----------------------------------------------------------------------------
(* How a deal's content travels. *)

\* The issuer's keys come into force one after the other, the last one at most
\* a moment from now.
KeyInv ==
  /\ intentTime \in Nat
  /\ keyStarts \in Seq(Nat) /\ Len(keyStarts) >= 1
  /\ \/ keyStarts[Len(keyStarts)] <= intentTime
     \/ /\ keyStarts[Len(keyStarts)] = intentTime + 1 /\ Len(keyStarts) > 1
        /\ keyStarts[Len(keyStarts) - 1] <= intentTime

Revised == [body : [revision : Nat, predecessor : Nat, created : Nat, expires : Int, payload : Payloads],
            key : Nat]

\* A revision verifies at its issuance.
RevisionFits(r) ==
  /\ r.body.created <= intentTime /\ ValidateIntentBody(r.body, r.body.created)
  /\ r.key \in DOMAIN keyStarts /\ AuthorizeIntentKey(r.key, r.body.created)

RevisionInv ==
  /\ revisions \in Seq(Revised)
  /\ \A n \in DOMAIN revisions :
       RevisionFits(revisions[n]) /\ revisions[n].body.predecessor = n - 1

\* The header is set only on the way to the credential's origin.
HopInv == hop.header => hop.at = Retrieval.credential

\* A message was sealed for a challenge that was signed before.
SealInv ==
  \A s \in sealed : s.challenge \in Challenges /\ s.manifest \in Manifests
                    /\ s.challenge.issued <= intentTime

ContentInv ==
  KeyInv /\ RevisionInv /\ HopInv /\ CredentialStaysHome /\ SealInv /\ OpenedIsAccountable

\* A sequence is a function on an interval.
LEMMA SeqFields ==
  ASSUME NEW S, NEW q \in Seq(S)
  PROVE  /\ Len(q) \in Nat /\ q \in [1 .. Len(q) -> S] /\ DOMAIN q = 1 .. Len(q)
  BY SMT, Zenon

\* A sequence and one more element.
LEMMA Extended ==
  ASSUME NEW S, NEW q \in Seq(S), NEW e \in S, NEW k, k = Len(q)
  PROVE  /\ k \in Nat /\ DOMAIN q = 1 .. k /\ DOMAIN Append(q, e) = 1 .. k + 1
         /\ Append(q, e) \in Seq(S) /\ Len(Append(q, e)) = k + 1
         /\ \A i \in 1 .. k : Append(q, e)[i] = q[i]
         /\ Append(q, e)[k + 1] = e
  BY SMT, Zenon

\* The issuer always has a key in force.
LEMMA KeyInForce ==
  ASSUME KeyInv
  PROVE  IssuerKey \in DOMAIN keyStarts /\ AuthorizeIntentKey(IssuerKey, intentTime)
<1> DEFINE k == Len(keyStarts)
<1>1. k \in Nat /\ DOMAIN keyStarts = 1 .. k /\ k >= 1 /\ intentTime \in Nat
  BY SeqFields, Zenon DEF KeyInv
<1>2. \E key \in DOMAIN keyStarts : AuthorizeIntentKey(key, intentTime)
  <2>1. CASE keyStarts[k] <= intentTime
    <3>1. k \in DOMAIN keyStarts /\ AuthorizeIntentKey(k, intentTime)
      BY <1>1, <2>1 DEF AuthorizeIntentKey
    <3> QED
      BY <3>1, Zenon
  <2>2. CASE keyStarts[k] = intentTime + 1 /\ k > 1 /\ keyStarts[k - 1] <= intentTime
    <3>1. k - 1 \in DOMAIN keyStarts /\ AuthorizeIntentKey(k - 1, intentTime)
      BY <1>1, <2>2 DEF AuthorizeIntentKey
    <3> QED
      BY <3>1, Zenon
  <2> QED
    BY <2>1, <2>2, Zenon DEF KeyInv
<1> QED
  BY <1>2, Zenon DEF IssuerKey

\* What a step does to the clock and to the issuer's keys.
ContentNext == IntentNext \/ RetrievalNext \/ HandoffNext
Quiet == UNCHANGED <<intentTime, keyStarts>>

\* Every step is a tick, a rotation, or leaves both alone.
LEMMA ContentKinds ==
  ASSUME [ContentNext]_contentVars
  PROVE  \/ Quiet
         \/ IntentTick /\ UNCHANGED <<retrievalVars, handoffVars>>
         \/ RotateIssuerKey /\ UNCHANGED <<retrievalVars, handoffVars>>
  BY Zenon DEF ContentNext, IntentNext, RetrievalNext, HandoffNext, contentVars, intentVars, Quiet,
     SignIntent, SignIntentWithdrawal, PresentWithdrawal

\* Every step keeps the keys in order.
LEMMA KeyStep ==
  ASSUME KeyInv, [ContentNext]_contentVars
  PROVE  KeyInv'
<1> DEFINE k == Len(keyStarts)
<1>1. k \in Nat /\ DOMAIN keyStarts = 1 .. k /\ k >= 1 /\ intentTime \in Nat
  BY SeqFields, Zenon DEF KeyInv
<1>2. \A i \in 1 .. k : keyStarts[i] \in Nat
  BY <1>1, SeqFields, Zenon DEF KeyInv
<1>3. CASE Quiet
  BY <1>3, Zenon DEF Quiet, KeyInv
<1>4. CASE IntentTick
  <2>1. intentTime' = intentTime + 1 /\ keyStarts' = keyStarts
    BY <1>4, Zenon DEF IntentTick
  <2>2. k \in 1 .. k
    BY <1>1
  <2>3. keyStarts[k] <= intentTime + 1
    BY <1>1, <1>2, <2>2 DEF KeyInv
  <2> QED
    BY <1>1, <2>1, <2>3 DEF KeyInv
<1>5. CASE RotateIssuerKey
  <2>1. /\ intentTime' = intentTime /\ keyStarts' = Append(keyStarts, intentTime + 1)
        /\ keyStarts[k] <= intentTime /\ keyStarts \in Seq(Nat)
    BY <1>5, Zenon DEF RotateIssuerKey, Last, KeyInv
  <2>2. /\ keyStarts' \in Seq(Nat) /\ Len(keyStarts') = k + 1
        /\ keyStarts'[k] = keyStarts[k] /\ keyStarts'[k + 1] = intentTime + 1
    BY <1>1, <2>1, Extended
  <2> QED
    BY <1>1, <2>1, <2>2 DEF KeyInv
<1> QED
  BY <1>3, <1>4, <1>5, ContentKinds, Zenon

\* A revision that verified at its issuance still does, whatever the clock and
\* the issuer's keys do.
LEMMA RevisionStays ==
  ASSUME KeyInv, [ContentNext]_contentVars, NEW r \in Revised, RevisionFits(r)
  PROVE  RevisionFits(r)'
<1> DEFINE k == Len(keyStarts)
           t == r.body.created
<1>1. /\ t \in Nat /\ r.key \in Nat /\ intentTime \in Nat
      /\ k \in Nat /\ DOMAIN keyStarts = 1 .. k
  BY SeqFields, Zenon DEF Revised, KeyInv
<1>2. /\ t <= intentTime /\ ValidateIntentBody(r.body, t) /\ r.key \in 1 .. k
      /\ keyStarts[r.key] <= t /\ (r.key < k => t < keyStarts[r.key + 1])
  BY <1>1, Zenon DEF RevisionFits, AuthorizeIntentKey
<1>3. CASE Quiet
  BY <1>3, Zenon DEF Quiet, RevisionFits, AuthorizeIntentKey
<1>4. CASE IntentTick
  <2>1. intentTime' = intentTime + 1 /\ keyStarts' = keyStarts
    BY <1>4, Zenon DEF IntentTick
  <2>2. t <= intentTime'
    BY <1>1, <1>2, <2>1
  <2> QED
    BY <1>1, <1>2, <2>1, <2>2, Zenon DEF RevisionFits, AuthorizeIntentKey
<1>5. CASE RotateIssuerKey
  <2>1. /\ intentTime' = intentTime /\ keyStarts' = Append(keyStarts, intentTime + 1)
        /\ keyStarts \in Seq(Nat)
    BY <1>5, Zenon DEF RotateIssuerKey, KeyInv
  <2>2. /\ DOMAIN keyStarts' = 1 .. k + 1 /\ Len(keyStarts') = k + 1
        /\ \A i \in 1 .. k : keyStarts'[i] = keyStarts[i]
        /\ keyStarts'[k + 1] = intentTime + 1
    BY <1>1, <2>1, Extended
  <2>3. ASSUME r.key < k + 1 PROVE t < keyStarts'[r.key + 1]
    <3>1. CASE r.key < k
      BY <1>1, <1>2, <2>2, <3>1
    <3>2. CASE r.key = k
      BY <1>1, <1>2, <2>2, <3>2
    <3> QED
      BY <1>1, <1>2, <3>1, <3>2
  <2>4. r.key \in DOMAIN keyStarts' /\ keyStarts'[r.key] <= t
    BY <1>1, <1>2, <2>2
  <2> QED
    BY <1>2, <2>1, <2>2, <2>3, <2>4, Zenon DEF RevisionFits, AuthorizeIntentKey
<1> QED
  BY <1>3, <1>4, <1>5, ContentKinds, Zenon

\* Every step keeps the history of revisions.
LEMMA RevisionStep ==
  ASSUME KeyInv, RevisionInv, [ContentNext]_contentVars
  PROVE  RevisionInv'
<1>1. /\ Len(revisions) \in Nat /\ DOMAIN revisions = 1 .. Len(revisions)
      /\ \A n \in DOMAIN revisions : revisions[n] \in Revised
  BY SeqFields, Zenon DEF RevisionInv
<1>2. ASSUME NEW n \in DOMAIN revisions, NEW r, r = revisions[n]
      PROVE  RevisionFits(r)' /\ r.body.predecessor = n - 1
  BY <1>1, <1>2, RevisionStays, Zenon DEF RevisionInv
<1>3. CASE UNCHANGED revisions
  BY <1>2, <1>3, Zenon DEF RevisionInv
<1>4. ASSUME NEW payload \in Payloads, NEW life \in IntentLives, SignIntent(payload, life)
      PROVE  RevisionInv'
  <2>1. PICK k, r : /\ k = Len(revisions)
                    /\ r = [body |-> IntentBody(k + 1, k, intentTime, intentTime + life, payload),
                            key |-> IssuerKey]
    BY Zenon
  <2>2. /\ revisions' = Append(revisions, r) /\ ValidateIntentBody(r.body, intentTime)
        /\ UNCHANGED <<intentTime, keyStarts>>
    BY <1>4, <2>1, Zenon DEF SignIntent
  <2>3. IssuerKey \in DOMAIN keyStarts /\ AuthorizeIntentKey(IssuerKey, intentTime)
    BY KeyInForce, Zenon
  <2>4. intentTime \in Nat /\ life \in Nat /\ IssuerKey \in Nat
    BY <2>3, SeqFields, ContentAssumption DEF KeyInv
  <2>5. /\ r \in Revised /\ r.body.created = intentTime /\ r.key = IssuerKey
        /\ r.body.predecessor = k
    BY <1>1, <2>1, <2>4 DEF IntentBody, Revised
  <2>6. RevisionFits(r)
    BY <2>2, <2>3, <2>4, <2>5 DEF RevisionFits
  <2>7. RevisionFits(r)'
    BY <2>5, <2>6, RevisionStays, Zenon
  <2>8. /\ k \in Nat /\ DOMAIN revisions = 1 .. k /\ DOMAIN revisions' = 1 .. k + 1
        /\ revisions' \in Seq(Revised)
        /\ \A i \in 1 .. k : revisions'[i] = revisions[i]
        /\ revisions'[k + 1] = r
    BY <2>1, <2>2, <2>5, Extended DEF RevisionInv
  <2>9. ASSUME NEW n \in 1 .. k + 1, NEW q, q = revisions'[n]
        PROVE  RevisionFits(q)' /\ q.body.predecessor = n - 1
    <3>1. CASE n \in 1 .. k
      BY <1>2, <2>8, <2>9, <3>1, Zenon
    <3>2. CASE n = k + 1
      BY <2>5, <2>7, <2>8, <2>9, <3>2
    <3> QED
      BY <2>8, <3>1, <3>2
  <2> QED
    BY <2>8, <2>9, Zenon DEF RevisionInv
<1> QED
  BY <1>3, <1>4, Zenon DEF ContentNext, IntentNext, RetrievalNext, HandoffNext, contentVars, intentVars,
     SignIntentWithdrawal, PresentWithdrawal, RotateIssuerKey, IntentTick

\* Every step keeps the credential at home.
LEMMA HopStep ==
  ASSUME HopInv, CredentialStaysHome, [ContentNext]_contentVars
  PROVE  HopInv' /\ CredentialStaysHome'
<1>1. CASE UNCHANGED retrievalVars
  BY <1>1, Zenon DEF retrievalVars, HopInv, CredentialStaysHome
<1>2. ASSUME NEW origin, StartFetch(origin)
      PROVE  HopInv' /\ CredentialStaysHome'
  BY <1>2, Zenon DEF StartFetch, HopInv, CredentialStaysHome
<1>3. ASSUME NEW answer, NEW public \in BOOLEAN, Answered(answer, public)
      PROVE  HopInv' /\ CredentialStaysHome'
  <2>1. HopInv'
    <3>1. \/ hop' = Idle
          \/ hop' = [at |-> answer.to, header |-> HeaderAfterRedirect(answer.to),
                     redirects |-> hop.redirects + 1]
      BY <1>3, Zenon DEF Answered
    <3>2. CASE hop' = Idle
      BY <3>2, Zenon DEF HopInv, Idle
    <3>3. CASE hop' = [at |-> answer.to, header |-> HeaderAfterRedirect(answer.to),
                       redirects |-> hop.redirects + 1]
      BY <3>3, ZenonT(30) DEF HopInv, HeaderAfterRedirect
    <3> QED
      BY <3>1, <3>2, <3>3, Zenon
  <2>2. CredentialStaysHome'
    <3>1. shown' = shown \/ (hop.header /\ shown' = shown \cup {hop.at})
      BY <1>3, Zenon DEF Answered
    <3>2. shown' \subseteq {Retrieval.credential}
      BY <3>1, Zenon DEF HopInv, CredentialStaysHome
    <3>3. \A body \in fetched' : [size |-> body.size, digest |-> body.digest] = WantedDigest
      BY <1>3, Zenon DEF Answered, CredentialStaysHome
    <3> QED
      BY <3>2, <3>3, Zenon DEF CredentialStaysHome
  <2> QED
    BY <2>1, <2>2, Zenon
<1> QED
  BY <1>1, <1>2, <1>3, Zenon DEF ContentNext, IntentNext, RetrievalNext, HandoffNext, contentVars

\* Every step keeps what was sealed and what was opened accountable.
LEMMA SealStep ==
  ASSUME KeyInv, SealInv, OpenedIsAccountable, [ContentNext]_contentVars
  PROVE  SealInv' /\ OpenedIsAccountable'
<1>1. intentTime \in Nat /\ intentTime' \in Nat /\ intentTime <= intentTime'
  <2>1. intentTime' = intentTime \/ intentTime' = intentTime + 1
    BY ContentKinds, Zenon DEF Quiet, IntentTick, RotateIssuerKey
  <2> QED
    BY <2>1 DEF KeyInv
<1>2. \A s \in sealed : /\ s.challenge \in Challenges /\ s.manifest \in Manifests
                        /\ s.challenge.issued <= intentTime'
  BY <1>1, ContentAssumption DEF SealInv
<1>3. CASE UNCHANGED handoffVars
  <2>1. sealed' = sealed /\ opened' = opened
    BY <1>3, Zenon DEF handoffVars
  <2> QED
    BY <1>2, <2>1, Zenon DEF SealInv, OpenedIsAccountable
<1>4. ASSUME NEW c \in Challenges, NEW m \in Manifests, NEW action, SealPrivateContent(c, m, action),
             UNCHANGED intentVars
      PROVE  SealInv' /\ OpenedIsAccountable'
  <2>1. PICK s : /\ sealed' = sealed \cup {s} /\ s.challenge = c /\ s.manifest = m
    <3> DEFINE s == [challenge |-> c, action |-> action, manifest |-> m, expires |-> c.expires,
                     ciphertext |-> [aad |-> PrivateHandoffAAD(c, m, action),
                                     plaintext |-> m.content, bytes |-> m.plain + 1]]
    <3>1. sealed' = sealed \cup {s}
      BY <1>4, Zenon DEF SealPrivateContent
    <3>2. s.challenge = c /\ s.manifest = m
      BY Zenon
    <3> QED
      BY <3>1, <3>2, Zenon
  <2>2. c.issued <= intentTime' /\ opened' = opened
    BY <1>4, Zenon DEF SealPrivateContent, intentVars
  <2> QED
    BY <1>2, <2>1, <2>2, Zenon DEF SealInv, OpenedIsAccountable
<1>5. ASSUME NEW c \in Challenges, NEW a \in sealed, NEW b \in sealed, ReceivePrivateContent(c, a, b)
      PROVE  SealInv' /\ OpenedIsAccountable'
  <2>1. PICK r : r = AcceptedRecord(c, a, intentTime)
    BY Zenon
  <2>2. /\ opened' = opened \cup {r} /\ sealed' = sealed
        /\ OpenPrivateContent(c, a, b.ciphertext, intentTime)
    BY <1>5, <2>1, Zenon DEF ReceivePrivateContent
  <2>3. /\ a.challenge = c /\ c.issued > 0 /\ c.deleteBy >= c.expires /\ intentTime < c.expires
        /\ a.manifest.plain \in 1 .. c.plain
    BY <2>2, Zenon DEF OpenPrivateContent, ValidateHandoffChallenge, ValidateManifest
  <2>4. /\ r.challenge = c.id /\ r.content = a.manifest.content /\ r.action = a.action
        /\ r.plain = a.manifest.plain /\ r.acceptedAt = intentTime /\ r.deleteBy = c.deleteBy
    BY <2>1, Zenon DEF AcceptedRecord
  <2>5. c.issued <= intentTime /\ c.issued \in Int /\ c.expires \in Int /\ c.deleteBy \in Int
    BY <2>3, ContentAssumption, Zenon DEF SealInv
  <2>6. ValidateAcceptedPrivateContent(r)
    BY <1>1, <2>3, <2>4, <2>5 DEF ValidateAcceptedPrivateContent
  <2>7. \E s \in sealed : /\ s.challenge.id = r.challenge
                          /\ s.manifest.content = r.content /\ s.action = r.action
    BY <2>3, <2>4, Zenon
  <2>8. OpenedIsAccountable'
    BY <2>2, <2>6, <2>7, Zenon DEF OpenedIsAccountable
  <2> QED
    BY <1>2, <2>2, <2>8, Zenon DEF SealInv
<1> QED
  BY <1>3, <1>4, <1>5, ZenonT(30) DEF ContentNext, IntentNext, RetrievalNext, HandoffNext,
     contentVars

\* Content starts within its bounds.
LEMMA ContentStarts == ContentInit => ContentInv
<1> SUFFICES ASSUME ContentInit PROVE ContentInv
  BY Zenon
<1>1. KeyInv
  <2>1. intentTime = 0 /\ keyStarts = <<0>>
    BY Zenon DEF ContentInit
  <2> QED
    BY <2>1 DEF KeyInv
<1>2. RevisionInv
  BY DEF ContentInit, RevisionInv
<1>3. HopInv /\ CredentialStaysHome /\ SealInv /\ OpenedIsAccountable
  BY Zenon DEF ContentInit, HopInv, CredentialStaysHome, SealInv, OpenedIsAccountable, Idle
<1> QED
  BY <1>1, <1>2, <1>3, Zenon DEF ContentInv

\* Every step keeps the invariant.
LEMMA ContentStep == ContentInv /\ [ContentNext]_contentVars => ContentInv'
  BY KeyStep, RevisionStep, HopStep, SealStep, Zenon DEF ContentInv

\* Content moves only where it may: along any chain of redirects the owner's
\* credential reaches its own origin only, and what a receiver opens was sealed
\* for its challenge and can be acknowledged (retrieval.go, handoff.go).
THEOREM HandoffContained == ContentSpec => []HandoffIsContained
<1>1. ContentInv => HandoffIsContained
  BY Zenon DEF ContentInv, HandoffIsContained
<1> QED
  BY <1>1, ContentStarts, ContentStep, PTL DEF ContentSpec, ContentNext

\* Behind every discoverable revision stands a history that verifies, whatever
\* expired, was withdrawn or was rotated since (verifyIntent, intent.go).
THEOREM HistoryVerifies == ContentSpec => []HistoryStaysVerifiable
<1>1. ContentInv => HistoryStaysVerifiable
  <2> SUFFICES ASSUME ContentInv, NEW n \in DOMAIN revisions, NEW m \in 1 .. (n - 1)
               PROVE  /\ VerifyIntent(revisions[m], intentTime, TRUE)
                      /\ revisions[m + 1].body.predecessor = m
    BY Zenon DEF HistoryStaysVerifiable
  <2>1. m \in DOMAIN revisions /\ m + 1 \in DOMAIN revisions /\ m \in Int
    BY SeqFields DEF ContentInv, RevisionInv
  <2>2. revisions[m] \in Revised /\ intentTime \in Nat
    BY <2>1, SeqFields, Zenon DEF ContentInv, RevisionInv, KeyInv
  <2>3. revisions[m].body.created <= intentTime + IntentSkew
    <3>1. revisions[m].body.created \in Nat
      BY <2>2, Zenon DEF Revised
    <3>2. revisions[m].body.created <= intentTime
      BY <2>1, Zenon DEF ContentInv, RevisionInv, RevisionFits
    <3> QED
      BY <2>2, <3>1, <3>2, ContentAssumption
  <2>4. VerifyIntent(revisions[m], intentTime, TRUE)
    BY <2>1, <2>3, Zenon DEF ContentInv, RevisionInv, RevisionFits, VerifyIntent
  <2>5. revisions[m + 1].body.predecessor = m
    BY <2>1 DEF ContentInv, RevisionInv
  <2> QED
    BY <2>4, <2>5, Zenon
<1> QED
  BY <1>1, ContentStarts, ContentStep, PTL DEF ContentSpec, ContentNext
=============================================================================
