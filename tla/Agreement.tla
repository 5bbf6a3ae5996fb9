----------------------------- MODULE Agreement -----------------------------
(***************************************************************************)
(* Agreements (pkg/agentcommerce/agreement.go, agreement_profiles.go).     *)
(* A body lists obligations and the authorization predicates that bind     *)
(* them; each predicate commits to a target made of the body's core, the   *)
(* whole predicate policy and its own id. Subjects sign acceptances of a   *)
(* group of predicates. Evidence gathers in a negotiation inbox under the  *)
(* partial check and the body is promoted under the complete one, while    *)
(* time passes, keys rotate and later versions are proposed.               *)
(* A digest is the value it is the digest of; sorted unique lists are      *)
(* sets; ids of predicates and obligations are numbers.                    *)
(***************************************************************************)
EXTENDS Integers, FiniteSets

CONSTANTS Drafts,            \* bodies agents propose, without their targets
          AcceptanceExpiries,
          MaxAcceptances, MaxKey, MaxAgreementTime

VARIABLES
  bodies,       \* prepared bodies in circulation
  subjectKey,   \* the key the resolver authorizes for each subject now
  acceptances,  \* signed acceptances
  inbox,        \* body -> evidence collected under the partial check
  promoted,     \* bodies that passed the complete check, with the moment's facts
  agreementTime

agreementVars == <<bodies, subjectKey, acceptances, inbox, promoted, agreementTime>>

------------------------------------------------------------------------------
(* Documents.                                                               *)
AgreementAuthoritySubject(kind, identifier, represented) ==
  [kind |-> kind, identifier |-> identifier, represented |-> represented]

AgreementAuthorizationPredicate(id, subject, obligations, profile, from, expires) ==
  [id |-> id, subject |-> subject, obligations |-> obligations, profile |-> profile,
   from |-> from, expires |-> expires]

AgreementObligation(id, obligor, beneficiary, depends, value, predicates) ==
  [id |-> id, obligor |-> obligor, beneficiary |-> beneficiary, depends |-> depends,
   value |-> value, predicates |-> predicates]

NoBody == [version |-> 0]
NoTargets == [id \in {} |-> NoBody]

AgentAgreementBody(version, predecessor, participants, obligations, predicates, from, expires) ==
  [id |-> "agreement", version |-> version, predecessor |-> predecessor, network |-> "net",
   participants |-> participants, obligations |-> obligations, predicates |-> predicates,
   from |-> from, expires |-> expires, targets |-> NoTargets]

AgreementCore(body) == [body EXCEPT !.predicates = {}, !.targets = NoTargets]
AgreementPolicy(predicates) == predicates

------------------------------------------------------------------------------
(* Validation of a body.                                                    *)
ValidAuthoritySubject(s) ==
  /\ s.kind \in {"agent", "wallet", "custody_principal", "key_owner", "data_owner",
                 "capability_owner"}
  /\ (s.kind = "agent") <=> (s.represented = "")

SubjectKindFits(p) ==
  CASE p.profile = "agent-signature" -> p.subject.kind = "agent"
    [] p.profile = "authority-signature" -> p.subject.kind # "agent"
    [] p.profile = "paid-demand-quote" -> p.subject.kind \in {"agent", "wallet"}
    [] OTHER -> TRUE

Represents(subject, agent) ==
  IF subject.kind = "agent" THEN subject.identifier = agent ELSE subject.represented = agent

\* agreementHasCycle: its search is Engagement!Cycle.
AgreementHasCycle(obligations) ==
  LET ids == {o.id : o \in obligations}
      before[k \in 0 .. Cardinality(ids)] ==
        IF k = 0 THEN [i \in ids |-> (CHOOSE o \in obligations : o.id = i).depends]
        ELSE [i \in ids |-> before[k - 1][i] \cup UNION {before[k - 1][j] : j \in before[k - 1][i]}] IN
  \E i \in ids : i \in before[Cardinality(ids)][i]

ValidateCore(body) ==
  LET ids == {o.id : o \in body.obligations} IN
  /\ body.from # 0 /\ body.expires > body.from
  /\ body.version # 0 /\ (body.version = 1) <=> (body.predecessor = NoBody)
  /\ Cardinality(body.participants) >= 2 /\ body.predicates # {} /\ body.obligations # {}
  /\ \A p \in body.predicates :
       /\ ValidAuthoritySubject(p.subject) /\ SubjectKindFits(p)
       /\ p.obligations # {} /\ p.obligations \subseteq ids
       /\ p.expires # 0 /\ p.from <= p.expires
  /\ \A o \in body.obligations :
       /\ o.obligor \in body.participants /\ o.beneficiary \in body.participants \cup {""}
       /\ o.predicates # {}
       /\ \A i \in o.predicates : \E p \in body.predicates : p.id = i /\ o.id \in p.obligations
       /\ \E p \in body.predicates : p.id \in o.predicates /\ Represents(p.subject, o.obligor)
       /\ o.depends \subseteq ids \ {o.id}
  /\ ~ AgreementHasCycle(body.obligations)

PrepareAgreementTargets(body) ==
  [body EXCEPT !.targets = [i \in {p.id : p \in body.predicates} |->
     [core |-> AgreementCore(body), policy |-> AgreementPolicy(body.predicates), id |-> i]]]

\* Targets are recomputed, never taken from the body.
ValidateAgreementBody(body) ==
  ValidateCore(body) /\ body.targets = PrepareAgreementTargets(body).targets

ValidateAgreementSuccessor(predecessor, successor) ==
  /\ ValidateAgreementBody(predecessor) /\ ValidateAgreementBody(successor)
  /\ successor.id = predecessor.id /\ successor.version = predecessor.version + 1
  /\ successor.predecessor = predecessor /\ successor.network = predecessor.network

------------------------------------------------------------------------------
(* Acceptances and evidence.                                                *)
Group(body, subject, profile) ==
  {p \in body.predicates : p.subject = subject /\ p.profile = profile}
Ids(predicates) == {p.id : p \in predicates}
Groups(body) == {<<p.subject, p.profile>> : p \in body.predicates}

SignAgreementAcceptance(body, subject, ids, expires) ==
  [digest |-> body, subject |-> subject, predicates |-> ids,
   targets |-> [i \in ids |-> body.targets[i]], expires |-> expires, key |-> subjectKey[subject]]

Evidence(body, acceptance, profile) ==
  [digest |-> body, subject |-> acceptance.subject, predicates |-> acceptance.predicates,
   profile |-> profile, targets |-> acceptance.targets, evidence |-> acceptance]

\* AgentSignatureEvidence and AuthoritySignatureEvidence refuse anything but
\* one complete group of the body.
AgentSignatureEvidence(body, acceptance) ==
  LET group == Group(body, acceptance.subject, "agent-signature") IN
  /\ acceptance.digest = body
  /\ group # {} /\ Ids(group) = acceptance.predicates
  /\ \A p \in group : body.targets[p.id] = acceptance.targets[p.id]

AuthoritySignatureEvidence(body, acceptance) ==
  LET group == Group(body, acceptance.subject, "authority-signature") IN
  /\ acceptance.digest = body
  /\ group # {} /\ Ids(group) = acceptance.predicates
  /\ \A p \in group : body.targets[p.id] = acceptance.targets[p.id]

\* What both acceptance verifiers compare, then the key and the signature.
VerifySignedAgreementAcceptance(acceptance, e, now) ==
  /\ acceptance.digest = e.digest /\ acceptance.subject = e.subject
  /\ acceptance.predicates = e.predicates /\ acceptance.targets = e.targets
  /\ now < acceptance.expires
  /\ acceptance.key = subjectKey[acceptance.subject] /\ acceptance \in acceptances

AgentSignatureEvidenceVerifier(e, now) ==
  e.subject.kind = "agent" /\ VerifySignedAgreementAcceptance(e.evidence, e, now)

AuthoritySignatureEvidenceVerifier(e, now) ==
  VerifySignedAgreementAcceptance(e.evidence, e, now)

VerifyAgreementEvidence(e, now) ==
  CASE e.profile = "agent-signature" -> AgentSignatureEvidenceVerifier(e, now)
    [] e.profile = "authority-signature" -> AuthoritySignatureEvidenceVerifier(e, now)
    [] OTHER -> FALSE

EvidenceFits(body, e, now) ==
  LET group == Group(body, e.subject, e.profile) IN
  /\ e.digest = body /\ e.predicates # {} /\ Ids(group) = e.predicates
  /\ \A p \in group : body.targets[p.id] = e.targets[p.id] /\ e.evidence.expires <= p.expires
  /\ e.evidence.expires <= body.expires
  /\ VerifyAgreementEvidence(e, now)

\* Evidence of another version of the agreement counts as well.
AnyVersion(body, evidence, now, requireComplete) ==
  /\ ValidateAgreementBody(body) /\ body.from <= now /\ now < body.expires
  /\ \A e \in evidence : VerifyAgreementEvidence(e, now)
  /\ requireComplete => Groups(body) = {<<e.subject, e.profile>> : e \in evidence}

ValidateAgreementEvidenceSet(body, evidence, now, requireComplete) ==
  /\ ValidateAgreementBody(body) /\ body.from <= now /\ now < body.expires
  /\ \A p \in body.predicates : p.from <= now /\ now < p.expires
  /\ \A e \in evidence : EvidenceFits(body, e, now)
  /\ \A d, e \in evidence : d.subject = e.subject /\ d.profile = e.profile => d = e
  /\ requireComplete => Groups(body) = {<<e.subject, e.profile>> : e \in evidence}

------------------------------------------------------------------------------
Subjects == {p.subject : p \in UNION {d.predicates : d \in Drafts}}

AgreementInit ==
  /\ bodies = {} /\ acceptances = {} /\ promoted = {} /\ agreementTime = 1
  /\ subjectKey = [s \in Subjects |-> 1] /\ inbox = [b \in {} |-> {}]

\* A draft circulates once its targets are prepared; a later version only
\* beside the exact body it replaces.
Propose(draft) ==
  LET body == PrepareAgreementTargets(draft) IN
  /\ ValidateCore(draft) /\ body \notin bodies
  /\ draft.version > 1 => \E p \in bodies : ValidateAgreementSuccessor(p, body)
  /\ bodies' = bodies \cup {body}
  /\ inbox' = [b \in bodies' |-> IF b = body THEN {} ELSE inbox[b]]
  /\ UNCHANGED <<subjectKey, acceptances, promoted, agreementTime>>

Accept(body, subject, ids, expires) ==
  /\ Cardinality(acceptances) < MaxAcceptances
  /\ ids # {} /\ ids \subseteq {p.id : p \in {q \in body.predicates : q.subject = subject}}
  /\ acceptances' = acceptances \cup {SignAgreementAcceptance(body, subject, ids, expires)}
  /\ UNCHANGED <<bodies, subjectKey, inbox, promoted, agreementTime>>

\* Evidence built for one body arrives in the inbox of any body. A newer
\* acceptance of a group replaces the older one before the check.
Receive(body, built, acceptance, profile) ==
  LET e == Evidence(built, acceptance, profile)
      kept == {d \in inbox[body] : d.subject # e.subject \/ d.profile # e.profile} IN
  /\ IF profile = "agent-signature" THEN AgentSignatureEvidence(built, acceptance)
     ELSE AuthoritySignatureEvidence(built, acceptance)
  /\ ValidateAgreementEvidenceSet(body, kept \cup {e}, agreementTime, FALSE)
  /\ inbox' = [inbox EXCEPT ![body] = kept \cup {e}]
  /\ UNCHANGED <<bodies, subjectKey, acceptances, promoted, agreementTime>>

Promote(body) ==
  /\ ValidateAgreementEvidenceSet(body, inbox[body], agreementTime, TRUE)
  /\ promoted' = promoted \cup {[body |-> body, at |-> agreementTime, keys |-> subjectKey]}
  /\ UNCHANGED <<bodies, subjectKey, acceptances, inbox, agreementTime>>

RotateKey(subject) ==
  /\ subjectKey[subject] < MaxKey
  /\ subjectKey' = [subjectKey EXCEPT ![subject] = @ + 1]
  /\ UNCHANGED <<bodies, acceptances, inbox, promoted, agreementTime>>

AgreementTick ==
  /\ agreementTime < MaxAgreementTime /\ agreementTime' = agreementTime + 1
  /\ UNCHANGED <<bodies, subjectKey, acceptances, inbox, promoted>>

AgreementNext ==
  \/ \E draft \in Drafts : Propose(draft)
  \/ \E body \in bodies, subject \in Subjects, expires \in AcceptanceExpiries :
       \E ids \in SUBSET Ids(body.predicates) : Accept(body, subject, ids, expires)
  \/ \E body, built \in bodies, acceptance \in acceptances,
        profile \in {"agent-signature", "authority-signature"} :
       Receive(body, built, acceptance, profile)
  \/ \E body \in bodies : Promote(body)
  \/ \E subject \in Subjects : RotateKey(subject)
  \/ AgreementTick

AgreementSpec == AgreementInit /\ [][AgreementNext]_agreementVars

------------------------------------------------------------------------------
\* Whoever owes something under a promoted agreement agreed to it: each
\* obligation has a predicate of its obligor, or of a subject representing
\* them, whose subject signed exactly this body, for every predicate it holds
\* there under that profile, with a key that was theirs at the promotion and
\* an acceptance that had not expired.
AuthorizedByObligors ==
  \A r \in promoted : \A o \in r.body.obligations :
    \E p \in r.body.predicates, a \in acceptances :
      /\ p.id \in o.predicates /\ Represents(p.subject, o.obligor)
      /\ a.digest = r.body /\ a.subject = p.subject
      /\ \A q \in r.body.predicates :
           q.subject = p.subject /\ q.profile = p.profile => q.id \in a.predicates
      /\ r.at < a.expires /\ a.key = r.keys[p.subject]
=============================================================================
