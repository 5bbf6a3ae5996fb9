------------------------- MODULE RelayProviderProofs -------------------------
(***************************************************************************)
(* Proofs about RelayProvider, for every quote, number of processes and    *)
(* payments, deadlines and bound.                                          *)
(***************************************************************************)
EXTENDS RelayProvider, TLAPS

------------------------------------------------------------------------------
(* The inductive invariant. *)

\* What RestoreRecord asks of a record, without the two clauses that a stored
\* record may break.
OutcomeFits(r) ==
  IF r.state # "terminal" THEN r.outcome = NoOutcome
  ELSE /\ r.outcome # NoOutcome /\ r.evidence # {}
       /\ IsSponsorshipOnly(r.outcome) => Mode # "relay_exact" /\ r.transfer
       /\ r.outcome = Outcome("sponsorship_only", "corroborated") =>
            SponsorClass = "corroborated" \/ RelayClass = "corroborated"
       /\ r.outcome.what = "success" =>
            r.outcome.by = IF SelectedTerminalUsesCorroboration(r.transfer)
                           THEN "corroborated" ELSE "finalized"

StateFits(r) ==
  \/ Mode = "sponsor_only" /\ r.state = "submitted" /\ r.transfer
  \/ ValidRelayModeState(r.state, r.outcome, r.transfer, r.observed # 0,
                         r.sponsorshipAbsent, r.transactionAbsent)

RecordInv(r) ==
  /\ r \in Records
  /\ r.state = "none" => r = NoRecord
  /\ r.state # "none" =>
       /\ r.revision # 0 /\ ValidSponsorshipSnapshot(r)
       /\ r.settled => r.state = "terminal" /\ r.transfer
       /\ OutcomeFits(r) /\ StateFits(r)

\* The bytes may be out while the journal holds r.
MayBeOut(r) ==
  \/ r.state \in {"submitted", "accepted", "terminal"}
  \/ r.state = "prepared" /\ r.sponsorshipAbsent

\* What the journal never takes back of a record r once it holds s.
Follows(r, s) ==
  /\ r.revision <= s.revision /\ (r.revision = s.revision => r = s)
  /\ r.handle \in {None, s.handle}
  /\ r.transfer => s.transfer
  /\ r.sponsorshipAbsent => s.sponsorshipAbsent
  /\ MayBeOut(r) => MayBeOut(s)

Labels == {"idle", "sponsor", "ensure", "query", "apply", "observed", "terminate", "ready",
           "submit", "send", "accept", "reject", "chain", "chained"}
Answers == [from : {"none", "submit", "attempted", "observed", "chain"},
            is : {"none", "observed", "transfer", "absent", "both absent", "finalized",
                  "corroborated", "accepted", "submitted", "safe", "rejected"},
            value : 0 .. MaxObservation]

ProviderType ==
  /\ terms \in Terms
  /\ pc \in [Servers -> Labels] /\ answer \in [Servers -> Answers]
  /\ mine \in [Servers -> Records]
  /\ clock \in Nat /\ serving \subseteq Servers
  /\ topup \in {"none", "sent", "seen", "final"}
  /\ transaction \in {"none", "sent", "seen", "final"}

\* Where a call stands, given the record r it works on and the answer a it got.
Fits(label, r, a) ==
  /\ label \in {"sponsor", "reject"} => r.state = "prepared"
  /\ label \in {"ready", "submit"} => r.state = "prepared" \/ r.transfer \/ r.observed # 0
  /\ label \in {"sponsor", "ensure", "query", "apply", "observed"} => Mode # "relay_exact"
  /\ label = "observed" => Mode = "sponsor_only"
  /\ label \in {"ensure", "query", "apply"} => r.handle # None
  /\ label \in {"query", "apply"} => a.from \in {"submit", "attempted", "observed"}
  /\ label \in {"chain", "chained", "send", "accept"} => MayBeOut(r)
  /\ label \in {"query", "apply"} /\ a.from = "observed" => MayBeOut(r)
  /\ label = "apply" =>
       /\ a.is \in {"observed", "transfer", "absent", "both absent"}
       /\ a.is = "observed" => /\ SponsorClass = "corroborated" /\ ~r.sponsorshipAbsent
                               /\ a.value # 0
       /\ a.is = "transfer" => topup = "final"
       /\ a.is \in {"absent", "both absent"} => TopUpAbsent
  /\ label = "chained" /\ a.is = "corroborated" => RelayClass = "corroborated"

CallFits(p) == Fits(pc[p], mine[p], answer[p])

\* What a record says of the top-up is so on the chain.
ChainFits ==
  /\ record.transfer => topup = "final"
  /\ record.sponsorshipAbsent => TopUpAbsent
  /\ paid \subseteq {record.handle}
  /\ record.handle = None => paid = {} /\ topup = "none"

ProviderInv ==
  /\ ProviderType /\ ChainFits
  /\ RecordInv(record) /\ \A p \in Servers : RecordInv(mine[p]) /\ Follows(mine[p], record)
  /\ \A p \in Servers : CallFits(p)
  /\ released \in BOOLEAN /\ written \in BOOLEAN
  /\ released => ReleasesExposure(record)
  /\ written => MayBeOut(record)

------------------------------------------------------------------------------
(* The journal's methods keep a record restorable. *)

\* The fields of a record.
LEMMA RecordFields ==
  ASSUME NEW r \in Records
  PROVE  /\ r.state \in States /\ r.revision \in Nat /\ r.attempted \in BOOLEAN
         /\ r.handle \in Handles \cup {None} /\ r.transfer \in BOOLEAN
         /\ r.observed \in 0 .. MaxObservation /\ r.superseded \in BOOLEAN
         /\ r.sponsorshipAbsent \in BOOLEAN /\ r.transactionAbsent \in BOOLEAN
         /\ r.promoted \in BOOLEAN /\ r.reference \in {"none", "transaction", "topup"}
         /\ r.evidence \subseteq {"topup", "topup absence", "transaction", "transaction absence"}
         /\ r.outcome \in Outcomes /\ r.settled \in BOOLEAN
  BY Zenon DEF Records

\* The numbers of a record that satisfies the invariant.
LEMMA InvFields ==
  ASSUME NEW r, RecordInv(r)
  PROVE  /\ r \in Records /\ r.revision \in Nat /\ r.revision + 1 \in Nat
         /\ r.attempted \in BOOLEAN /\ r.observed \in Nat /\ 0 \in 0 .. MaxObservation
<1>1. r \in Records
  BY Zenon DEF RecordInv
<1>2. r.revision \in Nat /\ r.attempted \in BOOLEAN /\ r.observed \in 0 .. MaxObservation
  BY <1>1, RecordFields, Zenon
<1> QED
  BY <1>1, <1>2, RecordAssumption

\* A call that stores nothing new.
LEMMA FollowsSelf ==
  ASSUME NEW r, RecordInv(r)
  PROVE  Follows(r, r)
<1>1. r.revision \in Nat
  BY InvFields, Zenon
<1> QED
  BY <1>1 DEF Follows

\* BeginSubmission moves a record from PREPARED to SUBMITTED.
LEMMA BeginKeeps ==
  ASSUME terms \in Terms, NEW r, RecordInv(r), NEW revision, NEW h \in Handles, NEW timely,
         CanBeginSponsorship(r, revision, h, timely)
  PROVE  /\ RecordInv(BeginSponsorship(r, h)) /\ Follows(r, BeginSponsorship(r, h))
         /\ BeginSponsorship(r, h).handle = h
         /\ BeginSponsorship(r, h).transfer = r.transfer
         /\ BeginSponsorship(r, h).sponsorshipAbsent = r.sponsorshipAbsent
<1>0. r \in Records /\ r.revision \in Nat /\ r.revision + 1 \in Nat
  BY InvFields, Zenon
<1>1. CASE r.attempted
  <2>1. BeginSponsorship(r, h) = r
    BY <1>1, Zenon DEF BeginSponsorship
  <2> QED
    BY <1>1, <2>1, FollowsSelf, Zenon DEF CanBeginSponsorship
<1>2. CASE ~r.attempted
  <2> DEFINE s == BeginSponsorship(r, h)
  <2>1. s = [r EXCEPT !.attempted = TRUE, !.handle = h, !.revision = r.revision + 1]
    BY <1>2 DEF BeginSponsorship
  <2>2. s \in Records
    <3> HIDE DEF s
    <3> QED
      BY <1>0, <2>1, Zenon DEF Records
  <2>3. /\ s.state = r.state /\ s.revision = r.revision + 1 /\ s.attempted = TRUE
        /\ s.handle = h /\ s.transfer = r.transfer /\ s.observed = r.observed
        /\ s.superseded = r.superseded /\ s.sponsorshipAbsent = r.sponsorshipAbsent
        /\ s.transactionAbsent = r.transactionAbsent /\ s.promoted = r.promoted
        /\ s.reference = r.reference /\ s.evidence = r.evidence /\ s.outcome = r.outcome
        /\ s.settled = r.settled
    BY <1>0, <2>1, Zenon DEF Records
  <2> HIDE DEF s
  <2>4. /\ r.state = "prepared" /\ Mode # "relay_exact" /\ ~r.transfer
        /\ ~r.sponsorshipAbsent /\ ~r.transactionAbsent /\ ValidSponsorshipSnapshot(r)
        /\ OutcomeFits(r) /\ StateFits(r) /\ ~r.settled
    BY DEF CanBeginSponsorship, RecordInv
  <2>5. ~r.promoted /\ r.handle = None /\ r.observed = 0 /\ ~r.superseded
    BY <1>2, <2>4 DEF ValidSponsorshipSnapshot, ValidSponsorshipAbsenceRecord,
       ValidRelayAbsenceStateShape
  <2>6. ValidSponsorshipSnapshot(s)
    BY <2>3, <2>4, <2>5, RecordAssumption DEF ValidSponsorshipSnapshot
  <2>7. OutcomeFits(s) /\ StateFits(s)
    BY <2>3, <2>4 DEF OutcomeFits, StateFits
  <2>8. Follows(r, s)
    BY <1>0, <2>3, <2>4, <2>5 DEF Follows, MayBeOut
  <2> QED
    BY <1>0, <2>2, <2>3, <2>4, <2>6, <2>7, <2>8 DEF RecordInv, s
<1> QED
  BY <1>1, <1>2

\* ObserveCheckpoint adds a checkpoint.
LEMMA ObserveKeeps ==
  ASSUME terms \in Terms, NEW r, RecordInv(r), NEW revision, NEW handle, handle # None,
         NEW c \in 1 .. MaxObservation, CanRecordObservation(r, revision, handle, c),
         SponsorClass = "corroborated", r.revision = revision => ~r.sponsorshipAbsent
  PROVE  /\ RecordInv(RecordObservation(r, c)) /\ Follows(r, RecordObservation(r, c))
         /\ RecordObservation(r, c).observed = c
         /\ RecordObservation(r, c).transfer = r.transfer
         /\ RecordObservation(r, c).sponsorshipAbsent = r.sponsorshipAbsent
<1>0. /\ r \in Records /\ r.revision \in Nat /\ r.revision + 1 \in Nat
      /\ r.observed \in Nat /\ c \in 0 .. MaxObservation /\ c # 0
  BY InvFields, RecordAssumption
<1>1. CASE r.observed = c
  <2>1. RecordObservation(r, c) = r
    BY <1>1, Zenon DEF RecordObservation
  <2> QED
    BY <1>1, <2>1, FollowsSelf, Zenon
<1>2. CASE r.observed # c
  <2> DEFINE s == RecordObservation(r, c)
  <2>1. s = [r EXCEPT !.observed = c, !.revision = r.revision + 1]
    BY <1>2 DEF RecordObservation
  <2>2. s \in Records
    <3> HIDE DEF s
    <3> QED
      BY <1>0, <2>1, Zenon DEF Records
  <2>3. /\ s.state = r.state /\ s.revision = r.revision + 1 /\ s.attempted = r.attempted
        /\ s.handle = r.handle /\ s.transfer = r.transfer /\ s.observed = c
        /\ s.superseded = r.superseded /\ s.sponsorshipAbsent = r.sponsorshipAbsent
        /\ s.transactionAbsent = r.transactionAbsent /\ s.promoted = r.promoted
        /\ s.reference = r.reference /\ s.evidence = r.evidence /\ s.outcome = r.outcome
        /\ s.settled = r.settled
    BY <1>0, <2>1, Zenon DEF Records
  <2> HIDE DEF s
  <2>4. /\ r.state \in Open /\ Mode # "relay_exact" /\ ~r.transfer /\ r.handle # None
        /\ r.observed = 0 => r.attempted
        /\ ~r.sponsorshipAbsent
    BY <1>2 DEF CanRecordObservation
  <2>5. /\ ValidSponsorshipSnapshot(r) /\ OutcomeFits(r) /\ StateFits(r)
        /\ r.settled => r.state = "terminal"
    BY <2>4 DEF RecordInv, Open
  <2>6. r.attempted
    BY <2>4, <2>5 DEF ValidSponsorshipSnapshot
  <2>7. ~r.transactionAbsent /\ ~r.promoted /\ ~r.superseded /\ r.outcome = NoOutcome
    BY <2>4, <2>5 DEF ValidSponsorshipSnapshot, ValidSponsorshipAbsenceRecord,
       ValidRelayAbsenceStateShape, OutcomeFits, Open
  <2>8. ValidSponsorshipSnapshot(s)
    BY <1>0, <2>3, <2>4, <2>6, <2>7 DEF ValidSponsorshipSnapshot
  <2>9. OutcomeFits(s)
    BY <2>3, <2>4, <2>7 DEF OutcomeFits, Open
  <2>10. StateFits(s)
    BY <1>0, <2>3, <2>4, <2>5, <2>7 DEF StateFits, ValidRelayModeState, Open
  <2>11. Follows(r, s)
    BY <1>0, <2>3, <2>4 DEF Follows, MayBeOut
  <2> QED
    BY <1>0, <2>2, <2>3, <2>4, <2>5, <2>8, <2>9, <2>10, <2>11 DEF RecordInv, s, Open
<1> QED
  BY <1>1, <1>2

\* A sponsorship transfer is recorded.
LEMMA SponsorKeeps ==
  ASSUME terms \in Terms, NEW r, RecordInv(r), NEW revision, NEW handle, handle # None,
         CanRecordSponsorship(r, revision, handle), ~r.sponsorshipAbsent
  PROVE  /\ RecordInv(RecordSponsorship(r)) /\ Follows(r, RecordSponsorship(r))
         /\ RecordSponsorship(r).transfer
         /\ RecordSponsorship(r).sponsorshipAbsent = r.sponsorshipAbsent
<1>0. /\ r \in Records /\ r.revision \in Nat /\ r.revision + 1 \in Nat
      /\ r.attempted \in BOOLEAN /\ 0 \in 0 .. MaxObservation
  BY InvFields, Zenon
<1>1. CASE r.transfer
  <2>1. RecordSponsorship(r) = r
    BY <1>1, Zenon DEF RecordSponsorship
  <2> QED
    BY <1>1, <2>1, FollowsSelf, Zenon
<1>2. CASE ~r.transfer
  <2> DEFINE s == RecordSponsorship(r)
             attempted == r.attempted /\ Mode = "sponsor_and_relay"
  <2>1. s = [r EXCEPT !.transfer = TRUE, !.observed = 0, !.attempted = attempted,
                      !.evidence = {"topup"}, !.revision = r.revision + 1]
    BY <1>2 DEF RecordSponsorship
  <2>a. attempted \in BOOLEAN
    OBVIOUS
  <2> HIDE DEF attempted
  <2>2. s \in Records
    <3> HIDE DEF s
    <3> QED
      BY <1>0, <2>1, <2>a, Zenon DEF Records
  <2>3. /\ s.state = r.state /\ s.revision = r.revision + 1 /\ s.attempted = attempted
        /\ s.handle = r.handle /\ s.transfer = TRUE /\ s.observed = 0
        /\ s.superseded = r.superseded /\ s.sponsorshipAbsent = r.sponsorshipAbsent
        /\ s.transactionAbsent = r.transactionAbsent /\ s.promoted = r.promoted
        /\ s.reference = r.reference /\ s.evidence = {"topup"} /\ s.outcome = r.outcome
        /\ s.settled = r.settled
    BY <1>0, <2>1, <2>a, Zenon DEF Records
  <2> HIDE DEF s
  <2>4. /\ r.state \in Open /\ Mode # "relay_exact" /\ r.handle # None /\ r.attempted
    BY <1>2 DEF CanRecordSponsorship
  <2>5. /\ ValidSponsorshipSnapshot(r) /\ OutcomeFits(r) /\ StateFits(r)
        /\ r.settled => r.state = "terminal"
    BY <2>4 DEF RecordInv, Open
  <2>7. ~r.transactionAbsent /\ ~r.promoted /\ ~r.superseded /\ r.outcome = NoOutcome
    BY <2>4, <2>5 DEF ValidSponsorshipSnapshot, ValidSponsorshipAbsenceRecord,
       ValidRelayAbsenceStateShape, OutcomeFits, Open
  <2>6. attempted <=> Mode = "sponsor_and_relay"
    BY <2>4 DEF attempted
  <2>8. ValidSponsorshipSnapshot(s)
    BY <1>0, <2>3, <2>4, <2>6, <2>7 DEF ValidSponsorshipSnapshot, Open
  <2>9. OutcomeFits(s)
    BY <2>3, <2>4, <2>7 DEF OutcomeFits, Open
  <2>10. StateFits(s)
    BY <1>0, <2>3, <2>4, <2>5, <2>7 DEF StateFits, ValidRelayModeState, Open
  <2>11. Follows(r, s)
    BY <1>0, <2>3, <2>4 DEF Follows, MayBeOut
  <2> QED
    BY <1>0, <2>2, <2>3, <2>4, <2>5, <2>8, <2>9, <2>10, <2>11 DEF RecordInv, s, Open
<1> QED
  BY <1>1, <1>2

\* s has the transfer of r, and the top-up's absence is as given.
SameTopUp(r, s, absent) == s.transfer = r.transfer /\ s.sponsorshipAbsent = absent
InState(r, state) == r.state = state

\* The proven absence of the top-up is recorded.
LEMMA AbsenceKeeps ==
  ASSUME terms \in Terms, NEW r, RecordInv(r), NEW revision, NEW outcome \in Outcomes,
         NEW ta \in BOOLEAN, NEW xa \in BOOLEAN, CanRecordAbsence(r, revision, outcome, ta, xa)
  PROVE  /\ RecordInv(RecordAbsence(r, outcome, ta, xa))
         /\ Follows(r, RecordAbsence(r, outcome, ta, xa))
         /\ SameTopUp(r, RecordAbsence(r, outcome, ta, xa), ta)
<1>0. /\ r \in Records /\ r.revision \in Nat /\ r.revision + 1 \in Nat
      /\ r.attempted \in BOOLEAN /\ 0 \in 0 .. MaxObservation
  BY InvFields, Zenon
<1>1. CASE IsReplay(r, outcome, ta, xa)
  <2>1. RecordAbsence(r, outcome, ta, xa) = r
    BY <1>1, Zenon DEF RecordAbsence
  <2> QED
    BY <1>1, <2>1, FollowsSelf, Zenon DEF IsReplay, SameTopUp
<1>2. CASE ~IsReplay(r, outcome, ta, xa)
  <2> DEFINE s == RecordAbsence(r, outcome, ta, xa)
             terminal == Mode = "sponsor_only" \/ xa
             promotion == IsPromotion(r, outcome, ta, xa)
             superseded == r.superseded \/ (ta /\ r.observed # 0)
             observed == IF ta THEN 0 ELSE r.observed
             attempted == r.attempted /\ ~terminal
             promoted == r.promoted \/ promotion
             state == IF terminal THEN "terminal" ELSE r.state
             reference == IF ~terminal THEN r.reference
                          ELSE IF r.transfer THEN "topup" ELSE "none"
             evidence == r.evidence \cup AbsenceEvidence(ta, xa)
  <2>1. s = [r EXCEPT !.superseded = superseded, !.observed = observed,
                      !.attempted = attempted, !.sponsorshipAbsent = ta,
                      !.transactionAbsent = xa, !.promoted = promoted, !.state = state,
                      !.reference = reference, !.evidence = evidence, !.outcome = outcome,
                      !.revision = r.revision + 1]
    BY <1>2, Zenon DEF RecordAbsence
  <2>2. /\ superseded \in BOOLEAN /\ attempted \in BOOLEAN /\ promoted \in BOOLEAN
        /\ observed \in 0 .. MaxObservation
        /\ state \in States /\ reference \in {"none", "transaction", "topup"}
        /\ evidence \in SUBSET {"topup", "topup absence", "transaction", "transaction absence"}
    <3>1. /\ superseded \in BOOLEAN /\ attempted \in BOOLEAN /\ promoted \in BOOLEAN
      BY Zenon
    <3>2. observed \in 0 .. MaxObservation /\ state \in States
          /\ reference \in {"none", "transaction", "topup"}
      BY <1>0, RecordFields, Zenon DEF States
    <3>3. evidence \in SUBSET {"topup", "topup absence", "transaction", "transaction absence"}
      BY <1>0, RecordFields, Zenon DEF AbsenceEvidence
    <3> QED
      BY <3>1, <3>2, <3>3, Zenon
  <2> HIDE DEF s, terminal, promotion, superseded, observed, attempted, promoted, state,
                  reference, evidence
  <2>3. s \in Records
    <3> DEFINE t == [r EXCEPT !.superseded = superseded, !.observed = observed,
                              !.attempted = attempted, !.sponsorshipAbsent = ta,
                              !.transactionAbsent = xa, !.promoted = promoted]
    <3>1. t \in Records
      BY <1>0, <2>2, Zenon DEF Records
    <3>2. s = [t EXCEPT !.state = state, !.reference = reference, !.evidence = evidence,
                        !.outcome = outcome, !.revision = r.revision + 1]
      BY <2>1, Zenon
    <3> HIDE DEF t
    <3> QED
      BY <1>0, <2>2, <3>1, <3>2, Zenon DEF Records
  <2>4. /\ s.state = state /\ s.revision = r.revision + 1 /\ s.attempted = attempted
        /\ s.handle = r.handle /\ s.transfer = r.transfer /\ s.observed = observed
        /\ s.superseded = superseded /\ s.sponsorshipAbsent = ta /\ s.transactionAbsent = xa
        /\ s.promoted = promoted /\ s.reference = reference /\ s.evidence = evidence
        /\ s.outcome = outcome /\ s.settled = r.settled
    BY <1>0, <2>1, <2>2, Zenon DEF Records

  <2>5. /\ r.state \in Open /\ r.handle # None /\ Mode # "relay_exact"
        /\ ValidRelayAbsenceOutcomeAssurance(outcome, ta, xa, r.transfer)
        /\ HasAbsence(r) => promotion
        /\ \/ /\ ta /\ ~r.transfer /\ (r.attempted \/ promotion)
              /\ IF Mode = "sponsor_only" THEN ~xa /\ IsAbsence(outcome)
                 ELSE IF xa THEN IsAbsence(outcome) ELSE outcome = NoOutcome
           \/ /\ Mode = "sponsor_and_relay" /\ ~ta /\ xa
              /\ r.transfer /\ r.attempted /\ IsSponsorshipOnly(outcome)
    BY <1>2, Zenon DEF CanRecordAbsence, promotion
  <2>6. /\ ValidSponsorshipSnapshot(r) /\ OutcomeFits(r) /\ StateFits(r)
        /\ r.outcome = NoOutcome /\ ~r.settled
    BY <2>5, Zenon DEF RecordInv, OutcomeFits, Open
  <2>7. /\ ~r.transactionAbsent /\ ~r.promoted
        /\ r.sponsorshipAbsent => Mode = "sponsor_and_relay" /\ ~r.transfer
        /\ r.superseded => r.sponsorshipAbsent
    BY <2>5, <2>6 DEF ValidSponsorshipSnapshot, ValidSponsorshipAbsenceRecord,
       ValidRelayAbsenceStateShape, Open
  <2>8. promotion => ta /\ xa /\ Mode = "sponsor_and_relay"
    BY DEF promotion, IsPromotion
  <2>9. AbsenceEvidence(ta, xa) \subseteq s.evidence /\ (ta \/ xa => s.evidence # {})
    BY <2>4, Zenon DEF evidence, AbsenceEvidence
  <2>10. Mode = "sponsor_only" \/ Mode = "sponsor_and_relay"
    BY <2>5 DEF Terms, Mode, Modes
  <2>11. CASE ta /\ (Mode = "sponsor_only" \/ xa)
    <3>1. /\ ~r.transfer /\ IsAbsence(outcome) /\ (Mode = "sponsor_only" => ~xa)
          /\ outcome # NoOutcome
      BY <2>5, <2>10, <2>11 DEF IsAbsence, NoOutcome
    <3>2. /\ s.state = "terminal" /\ s.reference = "none" /\ s.observed = 0 /\ ~s.attempted
          /\ s.promoted => xa
      BY <2>4, <2>7, <2>8, <2>11, <3>1, Zenon DEF terminal, state, reference, observed, attempted, promoted
    <3>3. ValidSponsorshipAbsenceRecord(s)
      BY <2>4, <2>5, <2>9, <2>10, <2>11, <3>1, <3>2, Zenon
      DEF ValidSponsorshipAbsenceRecord, ValidRelayAbsenceStateShape
    <3>4. ValidSponsorshipSnapshot(s)
      BY <2>4, <2>5, <2>9, <2>11, <3>1, <3>2, <3>3 DEF ValidSponsorshipSnapshot
    <3>5. OutcomeFits(s)
      BY <2>4, <2>9, <2>11, <3>1, <3>2 DEF OutcomeFits, IsAbsence, IsSponsorshipOnly, Outcome
    <3>6. StateFits(s)
      BY <2>4, <2>5, <2>10, <2>11, <3>1, <3>2 DEF StateFits, ValidRelayModeState
    <3>7. Follows(r, s)
      BY <1>0, <2>4, <2>11, <3>1, <3>2 DEF Follows, MayBeOut
    <3> QED
      BY <1>0, <2>3, <2>4, <2>6, <3>2, <3>4, <3>5, <3>6, <3>7 DEF RecordInv, s, SameTopUp
  <2>12. CASE ta /\ Mode = "sponsor_and_relay" /\ ~xa
    <3>1. ~r.transfer /\ outcome = NoOutcome /\ r.attempted
      BY <2>5, <2>8, <2>12
    <3>2. /\ s.state = r.state /\ s.observed = 0 /\ s.attempted /\ ~s.promoted
      BY <2>4, <2>7, <2>8, <2>12, <3>1, Zenon DEF terminal, state, observed, attempted, promoted
    <3>3. ValidSponsorshipAbsenceRecord(s)
      BY <2>4, <2>5, <2>9, <2>12, <3>1, <3>2, Zenon
      DEF ValidSponsorshipAbsenceRecord, ValidRelayAbsenceStateShape, Open
    <3>4. ValidSponsorshipSnapshot(s)
      BY <2>4, <2>5, <2>9, <2>12, <3>1, <3>2, <3>3 DEF ValidSponsorshipSnapshot, Open
    <3>5. OutcomeFits(s)
      BY <2>4, <2>5, <3>1, <3>2 DEF OutcomeFits, Open
    <3>6. StateFits(s)
      BY <2>4, <2>5, <2>12, <3>1, <3>2 DEF StateFits, ValidRelayModeState, Open
    <3>7. Follows(r, s)
      BY <1>0, <2>4, <2>12, <3>1, <3>2 DEF Follows, MayBeOut
    <3> QED
      BY <1>0, <2>3, <2>4, <2>5, <2>6, <3>2, <3>4, <3>5, <3>6, <3>7 DEF RecordInv, s, Open, SameTopUp
  <2>13. CASE ~ta
    <3>1. /\ xa /\ Mode = "sponsor_and_relay" /\ r.transfer /\ IsSponsorshipOnly(outcome)
          /\ ~r.sponsorshipAbsent /\ ~r.superseded /\ outcome # NoOutcome
          /\ outcome.by = "corroborated" => SponsorClass = "corroborated" \/ RelayClass = "corroborated"
      BY <2>5, <2>7, <2>13 DEF IsSponsorshipOnly, NoOutcome, ValidRelayAbsenceOutcomeAssurance,
         Terms, SponsorClass, RelayClass, Classes
    <3>2. /\ s.state = "terminal" /\ s.reference = "topup" /\ ~s.attempted /\ ~s.promoted
          /\ ~s.superseded /\ s.observed = r.observed
      BY <2>4, <2>7, <2>8, <2>13, <3>1
      DEF terminal, state, reference, attempted, promoted, superseded, observed
    <3>8. r.observed = 0
      BY <2>6, <3>1 DEF ValidSponsorshipSnapshot
    <3>3. ValidSponsorshipAbsenceRecord(s)
      BY <2>4, <2>5, <2>9, <2>13, <3>1, <3>2, Zenon
      DEF ValidSponsorshipAbsenceRecord, ValidRelayAbsenceStateShape
    <3>4. ValidSponsorshipSnapshot(s)
      BY <2>4, <2>5, <2>9, <2>13, <3>1, <3>2, <3>3, <3>8 DEF ValidSponsorshipSnapshot
    <3>5. OutcomeFits(s)
      BY <2>4, <2>9, <3>1, <3>2 DEF OutcomeFits, IsSponsorshipOnly, Outcome
    <3>6. StateFits(s)
      BY <2>4, <2>13, <3>1, <3>2, <3>8 DEF StateFits, ValidRelayModeState
    <3>7. Follows(r, s)
      BY <1>0, <2>4, <3>1, <3>2 DEF Follows, MayBeOut
    <3> QED
      BY <1>0, <2>3, <2>4, <2>6, <3>2, <3>4, <3>5, <3>6, <3>7 DEF RecordInv, s, SameTopUp
  <2> QED
    BY <2>10, <2>11, <2>12, <2>13
<1> QED
  BY <1>1, <1>2

\* A write makes the revision larger.
LEMMA NextRevision ==
  ASSUME NEW n \in Nat
  PROVE  n <= n + 1 /\ n # n + 1 /\ n + 1 # 0
  OBVIOUS

\* What the calls in service.go ask Transition for, of a record r they hold.
Apt(r, target, reference, evidence, outcome) ==
  /\ target \in {"submitted", "accepted", "rejected", "terminal"}
  /\ reference \in {"none", "transaction", "topup"}
  /\ evidence \in SUBSET {"topup", "topup absence", "transaction", "transaction absence"}
  /\ outcome \in Outcomes
  /\ target = "rejected" => r.state \notin {"submitted", "accepted"}
  /\ r.evidence \subseteq evidence \/ target = "rejected"
       \/ (target = "submitted" /\ Mode = "sponsor_only")
  /\ outcome.what = "relay_only" =>
       /\ reference # "none"
       /\ outcome.by = IF SponsorClass = "validator" /\ RelayClass = "validator"
                       THEN "finalized" ELSE "corroborated"
  /\ outcome.what = "success" =>
       outcome.by = IF SelectedTerminalUsesCorroboration(r.transfer)
                    THEN "corroborated" ELSE "finalized"
  /\ outcome = Outcome("sponsorship_only", "corroborated") =>
       SponsorClass = "corroborated" \/ RelayClass = "corroborated"

\* Transition to a state that the record may take.
LEMMA TransitionKeeps ==
  ASSUME terms \in Terms, NEW r, RecordInv(r), NEW revision, NEW target, NEW reference,
         NEW evidence, NEW outcome, Apt(r, target, reference, evidence, outcome),
         CanTransition(r, revision, target, evidence, outcome)
  PROVE  /\ RecordInv(Transition(r, target, reference, evidence, outcome))
         /\ Follows(r, Transition(r, target, reference, evidence, outcome))
         /\ InState(Transition(r, target, reference, evidence, outcome), target)
         /\ SameTopUp(r, Transition(r, target, reference, evidence, outcome),
                      r.sponsorshipAbsent)
<1> DEFINE s == Transition(r, target, reference, evidence, outcome)
           attempted == r.attempted /\ target # "terminal"
<1>a. /\ target \in {"submitted", "accepted", "rejected", "terminal"}
      /\ reference \in {"none", "transaction", "topup"}
      /\ evidence \in SUBSET {"topup", "topup absence", "transaction", "transaction absence"}
      /\ outcome \in Outcomes
  BY Zenon DEF Apt
<1>b. target = "rejected" => r.state = "prepared"
  BY Zenon DEF Apt, CanTransition, ValidRelayTransition
<1>c. r.evidence \subseteq evidence \/ target = "rejected"
        \/ (target = "submitted" /\ Mode = "sponsor_only")
  BY Zenon DEF Apt
<1>d. outcome.what = "relay_only" =>
        /\ reference # "none"
        /\ outcome.by = IF SponsorClass = "validator" /\ RelayClass = "validator"
                        THEN "finalized" ELSE "corroborated"
  BY Zenon DEF Apt
<1>e. /\ outcome.what = "success" =>
           outcome.by = IF SelectedTerminalUsesCorroboration(r.transfer)
                        THEN "corroborated" ELSE "finalized"
      /\ outcome = Outcome("sponsorship_only", "corroborated") =>
           SponsorClass = "corroborated" \/ RelayClass = "corroborated"
  BY Zenon DEF Apt
<1> USE <1>a
<1>0. /\ r \in Records /\ r.revision \in Nat /\ r.revision + 1 \in Nat
      /\ r.attempted \in BOOLEAN /\ r.observed \in Nat
  BY InvFields, Zenon
<1>1. s = [r EXCEPT !.state = target, !.revision = r.revision + 1, !.reference = reference,
                    !.evidence = evidence, !.outcome = outcome, !.attempted = attempted]
  BY Zenon DEF Transition
<1>2. attempted \in BOOLEAN /\ target \in States
  BY Zenon DEF States
<1> HIDE DEF s, attempted
<1>3. s \in Records
  BY <1>0, <1>1, <1>2, Zenon DEF Records
<1>4. /\ s.state = target /\ s.revision = r.revision + 1 /\ s.attempted = attempted
      /\ s.handle = r.handle /\ s.transfer = r.transfer /\ s.observed = r.observed
      /\ s.superseded = r.superseded /\ s.sponsorshipAbsent = r.sponsorshipAbsent
      /\ s.transactionAbsent = r.transactionAbsent /\ s.promoted = r.promoted
      /\ s.reference = reference /\ s.evidence = evidence
      /\ s.outcome = outcome /\ s.settled = r.settled
  BY <1>0, <1>1, <1>2, Zenon DEF Records
<1>5. /\ r.state \in Open
      /\ r.attempted =>
           \/ target = "terminal" /\ PendingAbsence(r) /\ IsRelayOnly(outcome)
           \/ Mode = "sponsor_and_relay" /\ r.transfer
           \/ r.observed # 0 /\ target \in {"submitted", "accepted"}
      /\ IF target = "terminal" THEN outcome # NoOutcome /\ evidence # {}
         ELSE outcome = NoOutcome
      /\ ValidRelayModeState(target, outcome, r.transfer, r.observed # 0,
                             r.sponsorshipAbsent, r.transactionAbsent)
  BY Zenon DEF CanTransition, ValidRelayTransition, Open
<1>6. /\ ValidSponsorshipSnapshot(r) /\ StateFits(r) /\ r.outcome = NoOutcome /\ ~r.settled
  BY <1>5, Zenon DEF RecordInv, OutcomeFits, Open
<1>7. /\ ~r.transactionAbsent /\ ~r.promoted
      /\ r.sponsorshipAbsent =>
           /\ Mode = "sponsor_and_relay" /\ ~r.transfer /\ r.attempted /\ r.observed = 0
           /\ r.handle # None /\ "topup absence" \in r.evidence
      /\ r.transfer => r.evidence # {} /\ r.observed = 0
      /\ r.transfer /\ r.attempted => Mode = "sponsor_and_relay"
      /\ r.observed # 0 => r.attempted
  <2>1. /\ r.transfer => r.evidence # {} /\ r.observed = 0
        /\ r.transfer /\ r.attempted => Mode = "sponsor_and_relay"
        /\ r.observed # 0 => r.attempted
    BY <1>6, Zenon DEF ValidSponsorshipSnapshot
  <2>2. ~r.transactionAbsent /\ ~r.promoted
    BY <1>5, <1>6, Zenon DEF ValidSponsorshipSnapshot, ValidSponsorshipAbsenceRecord,
       ValidRelayAbsenceStateShape, Open
  <2>3. r.sponsorshipAbsent =>
           /\ Mode = "sponsor_and_relay" /\ ~r.transfer /\ r.attempted
           /\ r.handle # None /\ "topup absence" \in r.evidence
    BY <1>5, <1>6, <2>2, Zenon DEF ValidSponsorshipSnapshot, ValidSponsorshipAbsenceRecord,
       ValidRelayAbsenceStateShape, AbsenceEvidence, Open
  <2>4. r.sponsorshipAbsent => r.observed = 0
    BY <1>5, <1>6, <2>3, Zenon DEF StateFits, ValidRelayModeState, Open
  <2> QED
    BY <2>1, <2>2, <2>3, <2>4, Zenon
<1>8. Mode = "relay_exact" \/ Mode = "sponsor_only" \/ Mode = "sponsor_and_relay"
  BY Zenon DEF Terms, Mode, Modes
<1>9. /\ target = "rejected" => ~r.transfer /\ ~r.sponsorshipAbsent /\ r.observed = 0
      /\ r.observed # 0 => target \in {"submitted", "accepted"}
      /\ target = "submitted" /\ Mode = "sponsor_only" => ~r.transfer /\ ~r.sponsorshipAbsent
      /\ target = "terminal" /\ r.sponsorshipAbsent => IsRelayOnly(outcome)
      /\ IsSponsorshipOnly(outcome) => Mode # "relay_exact" /\ r.transfer
  <2>1. target = "rejected" => ~r.transfer /\ ~r.sponsorshipAbsent /\ r.observed = 0
    BY <1>5, <1>7, <1>8, Zenon DEF ValidRelayModeState
  <2>2. r.observed # 0 => target \in {"submitted", "accepted"}
    BY <1>5, <1>7, Zenon DEF PendingAbsence
  <2>3. target = "submitted" /\ Mode = "sponsor_only" => ~r.transfer /\ ~r.sponsorshipAbsent
    BY <1>5, <1>7, Zenon DEF ValidRelayModeState
  <2>4. target = "terminal" /\ r.sponsorshipAbsent => IsRelayOnly(outcome)
    BY <1>5, <1>7, Zenon DEF ValidRelayModeState
  <2>5. IsSponsorshipOnly(outcome) => Mode # "relay_exact" /\ r.transfer
    <3>1. CASE target # "terminal"
      <4>1. outcome = NoOutcome
        BY <1>5, <3>1, Zenon
      <4>2. ~IsSponsorshipOnly(NoOutcome)
        BY Zenon DEF IsSponsorshipOnly, NoOutcome
      <4> QED
        BY <4>1, <4>2, Zenon
    <3>2. CASE target = "terminal"
      BY <1>5, <1>7, <1>8, <3>2, Zenon DEF ValidRelayModeState, IsSponsorshipOnly, IsAbsence, IsRelayOnly
    <3> QED
      BY <3>1, <3>2, Zenon
  <2> QED
    BY <2>1, <2>2, <2>3, <2>4, <2>5, Zenon
<1>10. /\ r.transfer => evidence # {}
       /\ r.sponsorshipAbsent => "topup absence" \in evidence
  BY <1>c, <1>7, <1>9, Zenon
<1>11. ValidSponsorshipSnapshot(s)
  <2>1. r.sponsorshipAbsent => ValidSponsorshipAbsenceRecord(s)
    <3> SUFFICES ASSUME r.sponsorshipAbsent PROVE ValidSponsorshipAbsenceRecord(s)
      BY Zenon
    <3>1. ValidRelayAbsenceStateShape(s)
      BY <1>d, <1>4, <1>5, <1>7, <1>9, Zenon DEF ValidRelayAbsenceStateShape, Open, IsRelayOnly
    <3>2. ValidRelayAbsenceOutcomeAssurance(s.outcome, s.sponsorshipAbsent,
                                            s.transactionAbsent, s.transfer)
      BY <1>d, <1>4, <1>5, <1>7, <1>9, Zenon DEF ValidRelayAbsenceOutcomeAssurance, IsRelayOnly
    <3> QED
      BY <1>4, <1>7, <1>10, <3>1, <3>2, Zenon DEF ValidSponsorshipAbsenceRecord, AbsenceEvidence
  <2>2. CASE target = "terminal"
    BY <1>4, <1>5, <1>6, <1>7, <1>9, <1>10, <2>1, <2>2, Zenon DEF ValidSponsorshipSnapshot, attempted, PendingAbsence
  <2>3. CASE target # "terminal"
    BY <1>4, <1>5, <1>6, <1>7, <1>9, <1>10, <2>1, <2>3, Zenon
    DEF ValidSponsorshipSnapshot, attempted, PendingAbsence, Open
  <2> QED
    BY <2>2, <2>3, Zenon
<1>12. OutcomeFits(s)
  BY <1>e, <1>4, <1>5, <1>9, Zenon DEF OutcomeFits
<1>13. StateFits(s)
  BY <1>4, <1>5, Zenon DEF StateFits
<1>14. Follows(r, s)
  <2>1. MayBeOut(r) => MayBeOut(s)
    BY <1>b, <1>4, <1>5, <1>9, Zenon DEF MayBeOut, Open
  <2>2. r.revision <= s.revision /\ r.revision # s.revision
    BY <1>0, <1>4, NextRevision, Zenon
  <2> QED
    BY <1>4, <2>1, <2>2, Zenon DEF Follows
<1>15. s.revision # 0
  BY <1>0, <1>4, NextRevision, Zenon
<1>16. s.state # "none"
  BY <1>4, Zenon
<1> QED
  BY <1>3, <1>4, <1>6, <1>11, <1>12, <1>13, <1>14, <1>15, <1>16, Zenon DEF RecordInv, s, SameTopUp, InState

\* The release of the exposure is recorded.
LEMMA ReleaseKeeps ==
  ASSUME terms \in Terms, NEW r, RecordInv(r), CanReleaseExposure(r, r.revision), ~r.settled
  PROVE  /\ RecordInv(ReleaseExposure(r)) /\ Follows(r, ReleaseExposure(r))
         /\ ReleaseExposure(r).handle = r.handle /\ ReleaseExposure(r).transfer = r.transfer
         /\ ReleaseExposure(r).sponsorshipAbsent = r.sponsorshipAbsent
<1> DEFINE s == ReleaseExposure(r)
<1>0. r \in Records /\ r.revision \in Nat /\ r.revision + 1 \in Nat
  BY InvFields, Zenon
<1>1. s = [r EXCEPT !.settled = TRUE, !.revision = r.revision + 1]
  BY DEF ReleaseExposure
<1> HIDE DEF s
<1>2. s \in Records
  BY <1>0, <1>1, Zenon DEF Records
<1>3. /\ s.state = r.state /\ s.revision = r.revision + 1 /\ s.attempted = r.attempted
      /\ s.handle = r.handle /\ s.transfer = r.transfer /\ s.observed = r.observed
      /\ s.superseded = r.superseded /\ s.sponsorshipAbsent = r.sponsorshipAbsent
      /\ s.transactionAbsent = r.transactionAbsent /\ s.promoted = r.promoted
      /\ s.reference = r.reference /\ s.evidence = r.evidence
      /\ s.outcome = r.outcome /\ s.settled = TRUE
  BY <1>0, <1>1, Zenon DEF Records
<1>4. /\ r.state = "terminal" /\ r.transfer
      /\ ValidSponsorshipSnapshot(r) /\ OutcomeFits(r) /\ StateFits(r)
  BY DEF CanReleaseExposure, RecordInv
<1>5. ValidSponsorshipSnapshot(s)
  BY <1>3, <1>4, Zenon DEF ValidSponsorshipSnapshot, ValidSponsorshipAbsenceRecord,
     ValidRelayAbsenceStateShape
<1>6. OutcomeFits(s) /\ StateFits(s)
  BY <1>3, <1>4, Zenon DEF OutcomeFits, StateFits
<1>7. Follows(r, s)
  BY <1>0, <1>3, <1>4 DEF Follows, MayBeOut
<1> QED
  BY <1>0, <1>2, <1>3, <1>4, <1>5, <1>6, <1>7 DEF RecordInv, s

\* Following is transitive: what a call read stays behind the journal.
LEMMA FollowsTrans ==
  ASSUME NEW r, NEW s, NEW t, RecordInv(r), RecordInv(s), RecordInv(t),
         Follows(r, s), Follows(s, t)
  PROVE  Follows(r, t)
<1>1. r.revision \in Nat /\ s.revision \in Nat /\ t.revision \in Nat
  BY InvFields, Zenon
<1> QED
  BY <1>1 DEF Follows

------------------------------------------------------------------------------
(* One step keeps the invariant. *)

\* The terms of the quote never change, so a record stays what it is.
LEMMA RecordStands ==
  ASSUME NEW r, terms' = terms, RecordInv(r)
  PROVE  RecordInv(r)'
  BY DEF RecordInv, OutcomeFits, StateFits, ValidSponsorshipSnapshot, ValidRelayModeState,
     ValidSponsorshipAbsenceRecord, ValidRelayAbsenceStateShape,
     ValidRelayAbsenceOutcomeAssurance, SelectedTerminalUsesCorroboration,
     Mode, SponsorClass, RelayClass

\* Final is final, and a payment that can no longer be included stays out.
LEMMA FitsStands ==
  ASSUME NEW label, NEW r, NEW a, terms' = terms, Fits(label, r, a),
         topup = "final" => topup' = "final", TopUpAbsent => TopUpAbsent'
  PROVE  Fits(label, r, a)'
  BY Zenon DEF Fits, Mode, SponsorClass, RelayClass

\* A call goes on, whatever it does to the journal and the chain, with a record that follows the journal's.
LEMMA StepKeeps ==
  ASSUME ProviderInv, NEW p \in Servers, NEW label \in Labels, NEW r, NEW a \in Answers,
         Go(p, label, r, a), UNCHANGED <<terms, serving>>,
         clock' \in Nat, topup' \in {"none", "sent", "seen", "final"},
         transaction' \in {"none", "sent", "seen", "final"},
         topup = "final" => topup' = "final", TopUpAbsent => TopUpAbsent',
         NEW new, record' = new, RecordInv(new), Follows(record, new),
         RecordInv(r), Follows(r, new), Fits(label, r, a)',
         released' \in BOOLEAN, released' => ReleasesExposure(new),
         written' \in BOOLEAN, written' => MayBeOut(new),
         new.transfer => topup' = "final", new.sponsorshipAbsent => TopUpAbsent',
         paid' \subseteq {new.handle}, new.handle = None => paid' = {} /\ topup' = "none"
  PROVE  ProviderInv'
<1>1. ProviderType'
  <2>1. r \in Records
    BY InvFields, Zenon
  <2> QED
    BY <2>1 DEF ProviderInv, ProviderType, Go
<1>2. ChainFits'
  BY Zenon DEF ChainFits
<1>3. RecordInv(record)'
  BY RecordStands, Zenon
<1>4. ASSUME NEW q \in Servers
      PROVE  (RecordInv(mine[q]) /\ Follows(mine[q], record) /\ CallFits(q))'
  <2>1. CASE q = p
    <3>1. pc'[q] = label /\ mine'[q] = r /\ answer'[q] = a
      BY <2>1 DEF Go, ProviderInv, ProviderType
    <3>2. RecordInv(r)'
      BY RecordStands, Zenon
    <3> QED
      BY <3>1, <3>2, Zenon DEF CallFits
  <2>2. CASE q # p
    <3>1. pc'[q] = pc[q] /\ mine'[q] = mine[q] /\ answer'[q] = answer[q]
      BY <2>2 DEF Go, ProviderInv, ProviderType
    <3>2. PICK l, m, b : l = pc[q] /\ m = mine[q] /\ b = answer[q]
      OBVIOUS
    <3>3. RecordInv(m) /\ Follows(m, record) /\ Fits(l, m, b)
      BY <3>2, Zenon DEF ProviderInv, CallFits
    <3>4. RecordInv(m)' /\ Fits(l, m, b)'
      BY <3>3, RecordStands, FitsStands, Zenon
    <3>5. Follows(m, new)
      BY <3>3, FollowsTrans, Zenon DEF ProviderInv
    <3> QED
      BY <3>1, <3>2, <3>4, <3>5, Zenon DEF CallFits
  <2> QED
    BY <2>1, <2>2
<1> QED
  BY <1>1, <1>2, <1>3, <1>4, Zenon DEF ProviderInv

\* The record of an action that was not admitted yet.
LEMMA NothingYet ==
  /\ RecordInv(NoRecord) /\ NoRecord.state = "none" /\ NoAnswer \in Answers
  /\ NoRecord.handle = None /\ ~NoRecord.transfer /\ ~NoRecord.sponsorshipAbsent
  /\ \A r : RecordInv(r) => Follows(NoRecord, r)
  /\ \A r, a : Fits("idle", r, a)
<1>1. NoRecord \in Records
  <2>1. 0 \in 0 .. MaxObservation
    BY RecordAssumption
  <2> QED
    BY <2>1 DEF NoRecord, Records, States, Outcomes
<1>2. RecordInv(NoRecord)
  BY <1>1 DEF RecordInv, NoRecord
<1>3. NoAnswer \in Answers
  BY RecordAssumption DEF NoAnswer, Answers
<1>4. ASSUME NEW r, RecordInv(r) PROVE Follows(NoRecord, r)
  <2>1. r.revision \in Nat /\ r \in Records
    BY <1>4, InvFields, Zenon
  <2>2. CASE r.revision = 0
    BY <1>4, <2>1, <2>2 DEF Follows, NoRecord, MayBeOut, RecordInv
  <2>3. CASE r.revision # 0
    BY <2>1, <2>3 DEF Follows, NoRecord, MayBeOut
  <2> QED
    BY <2>2, <2>3
<1>5. \A r, a : Fits("idle", r, a)
  BY DEF Fits
<1> QED
  BY <1>2, <1>3, <1>4, <1>5, Zenon DEF NoRecord

\* A call goes on without writing.
LEMMA GoKeeps ==
  ASSUME ProviderInv, NEW p \in Servers, NEW label \in Labels, NEW r, NEW a \in Answers,
         Go(p, label, r, a),
         UNCHANGED <<terms, serving, record, released, chain, paid, written, clock>>,
         RecordInv(r), Follows(r, record), Fits(label, r, a)
  PROVE  ProviderInv'
<1>1. PICK new : new = record
  OBVIOUS
<1>2. /\ RecordInv(new) /\ Follows(record, new) /\ Follows(r, new) /\ record' = new
  BY <1>1, FollowsSelf, Zenon DEF ProviderInv
<1>3. Fits(label, r, a)' /\ (TopUpAbsent => TopUpAbsent')
  BY FitsStands DEF chain, TopUpAbsent
<1>4. /\ clock' \in Nat /\ topup' \in {"none", "sent", "seen", "final"}
      /\ transaction' \in {"none", "sent", "seen", "final"}
      /\ topup = "final" => topup' = "final"
      /\ released' \in BOOLEAN /\ (released' => ReleasesExposure(new))
      /\ written' \in BOOLEAN /\ (written' => MayBeOut(new))
      /\ new.transfer => topup' = "final"
      /\ paid' \subseteq {new.handle} /\ (new.handle = None => paid' = {} /\ topup' = "none")
  BY <1>1 DEF ProviderInv, ProviderType, ChainFits, chain
<1>5. new.sponsorshipAbsent => TopUpAbsent'
  BY <1>1, <1>3, Zenon DEF ProviderInv, ChainFits
<1> QED
  BY <1>2, <1>3, <1>4, <1>5, StepKeeps, Zenon

\* A call returns.
LEMMA ReturnKeeps ==
  ASSUME ProviderInv, NEW p \in Servers, Return(p),
         UNCHANGED <<terms, serving, record, released, chain, paid, written, clock>>
  PROVE  ProviderInv'
<1>1. "idle" \in Labels
  BY DEF Labels
<1> QED
  BY <1>1, NothingYet, GoKeeps, Zenon DEF ProviderInv, Return

\* What a write must establish of the record it stores.
Sound(new) ==
  /\ RecordInv(new) /\ Follows(record, new)
  /\ ReleasesExposure(record) => ReleasesExposure(new)
  /\ new.transfer => topup = "final"
  /\ new.sponsorshipAbsent => TopUpAbsent

\* A write of the journal, whatever call makes it.
LEMMA WriteKeeps ==
  ASSUME ProviderInv, NEW p \in Servers, NEW can, NEW new, NEW label \in Labels,
         Write(p, can, new, label),
         UNCHANGED <<terms, serving, chain, paid, written, clock>>,
         can => Sound(new) /\ Fits(label, new, NoAnswer)
  PROVE  ProviderInv'
<1>1. CASE ~can
  BY <1>1, ReturnKeeps, Zenon DEF Write
<1>2. CASE can
  <2> DEFINE l == IF label = "idle" THEN "idle" ELSE label
             r == IF label = "idle" THEN NoRecord ELSE new
  <2>1. Go(p, l, r, NoAnswer) /\ record' = new /\ l \in Labels
        /\ released' = (released \/ ReleasesExposure(new))
    BY <1>2, Zenon DEF Write, Return
  <2>2. RecordInv(new) /\ Follows(record, new)
    BY <1>2, Zenon DEF Sound
  <2>3. RecordInv(r) /\ Follows(r, new) /\ Fits(l, r, NoAnswer)
    BY <1>2, <2>2, NothingYet, FollowsSelf, Zenon
  <2> HIDE DEF l, r
  <2>4. Fits(l, r, NoAnswer)' /\ (TopUpAbsent => TopUpAbsent')
    BY <2>3, FitsStands DEF chain, TopUpAbsent
  <2>5. /\ clock' \in Nat /\ topup' \in {"none", "sent", "seen", "final"}
        /\ transaction' \in {"none", "sent", "seen", "final"}
        /\ topup = "final" => topup' = "final"
        /\ written' \in BOOLEAN /\ paid' = paid /\ topup' = topup
    BY DEF ProviderInv, ProviderType, chain
  <2>6. released' \in BOOLEAN /\ (released' => ReleasesExposure(new))
    BY <1>2, <2>1, Zenon DEF ProviderInv, Sound
  <2>7. written' => MayBeOut(new)
    BY <2>2, Zenon DEF ProviderInv, Follows
  <2>8. new.transfer => topup' = "final"
    BY <1>2, <2>5, Zenon DEF Sound
  <2>9. new.sponsorshipAbsent => TopUpAbsent'
    BY <1>2, <2>4, Zenon DEF Sound
  <2>10. paid' \subseteq {new.handle} /\ (new.handle = None => paid' = {} /\ topup' = "none")
    <3>1. /\ paid \subseteq {record.handle} /\ (record.handle = None => paid = {} /\ topup = "none")
          /\ record.handle \in {None, new.handle}
      BY <2>2, Zenon DEF ProviderInv, ChainFits, Follows
    <3> QED
      BY <2>5, <3>1
  <2> QED
    BY <2>1, <2>2, <2>3, <2>4, <2>5, <2>6, <2>7, <2>8, <2>9, <2>10, NothingYet, StepKeeps, Zenon
<1> QED
  BY <1>1, <1>2

\* A call whose revision is still current works on the journal's own record.
LEMMA Current ==
  ASSUME ProviderInv, NEW p \in Servers, mine[p].revision = record.revision
  PROVE  mine[p] = record
  BY Zenon DEF ProviderInv, Follows

\* A call goes on to the network only when it has just recorded that it does.
GoesOn(label, target) ==
  label \in {"idle", "send"} /\ (label = "send" => target = "submitted")

\* A call that writes a transition.
LEMMA TransitionStep ==
  ASSUME ProviderInv, NEW p \in Servers, NEW target, NEW reference, NEW evidence, NEW outcome,
         NEW label, GoesOn(label, target),
         Apt(mine[p], target, reference, evidence, outcome),
         TransitionTo(p, target, reference, evidence, outcome, label),
         UNCHANGED <<terms, serving, chain, paid, written, clock>>
  PROVE  ProviderInv'
<1> DEFINE can == CanTransition(record, mine[p].revision, target, evidence, outcome)
           new == Transition(record, target, reference, evidence, outcome)
<1>1. ASSUME can PROVE Sound(new) /\ Fits(label, new, NoAnswer)
  <2>1. record.revision = mine[p].revision /\ ValidRelayTransition(record.state, target)
    BY <1>1, Zenon DEF CanTransition
  <2>2. mine[p] = record
    BY <2>1, Current, Zenon
  <2>3. record.state \in Open
    BY <2>1 DEF ValidRelayTransition, Open
  <2>4. terms \in Terms /\ RecordInv(record) /\ ChainFits
    BY Zenon DEF ProviderInv, ProviderType
  <2>5. /\ RecordInv(new) /\ Follows(record, new) /\ InState(new, target)
        /\ SameTopUp(record, new, record.sponsorshipAbsent)
    <3>1. /\ CanTransition(record, record.revision, target, evidence, outcome)
          /\ Apt(record, target, reference, evidence, outcome)
      BY <1>1, <2>1, <2>2, Zenon
    <3> QED
      BY <2>4, <3>1, TransitionKeeps, Zenon
  <2> HIDE DEF new
  <2>6. ~ReleasesExposure(record)
    BY <2>3 DEF ReleasesExposure, Open, Closed
  <2>7. Sound(new)
    BY <2>4, <2>5, <2>6, Zenon DEF Sound, ChainFits, SameTopUp
  <2>8. Fits(label, new, NoAnswer)
    BY <2>5, Zenon DEF Fits, MayBeOut, InState, GoesOn
  <2> QED
    BY <2>7, <2>8
<1>2. label \in Labels
  BY DEF Labels, GoesOn
<1> QED
  BY <1>1, <1>2, WriteKeeps, Zenon DEF TransitionTo

\* A call in hand: its record, and where it stands.
LEMMA InHand ==
  ASSUME ProviderInv, NEW p \in Servers
  PROVE  /\ RecordInv(mine[p]) /\ Follows(mine[p], record) /\ RecordInv(record)
         /\ Fits(pc[p], mine[p], answer[p]) /\ Follows(record, record)
         /\ answer[p] \in Answers /\ terms \in Terms
<1>1. answer[p] \in Answers /\ terms \in Terms
  BY Zenon DEF ProviderInv, ProviderType
<1> QED
  BY <1>1, FollowsSelf, Zenon DEF ProviderInv, CallFits

\* A payment that was begun has an identity, and a mode that pays.
LEMMA PaymentKnown ==
  ASSUME NEW r, RecordInv(r), r.state # "none", r.attempted \/ r.transfer \/ r.sponsorshipAbsent
  PROVE  Mode # "relay_exact" /\ r.handle # None
  BY DEF RecordInv, ValidSponsorshipSnapshot

\* A question to the sponsor carries its asker and no answer.
LEMMA AskFields ==
  ASSUME NEW asker \in {"submit", "attempted", "observed"}
  PROVE  Ask(asker) \in Answers /\ Ask(asker).from = asker
<1>1. Ask(asker) = [from |-> asker, is |-> "none", value |-> 0]
  BY DEF Ask, NoAnswer
<1>2. 0 \in 0 .. MaxObservation
  BY RecordAssumption
<1> QED
  BY <1>1, <1>2 DEF Answers

\* Submit of an action the journal does not have.
LEMMA AdmitKeeps ==
  ASSUME ProviderInv, NEW p \in Servers, Admit(p), UNCHANGED <<terms, serving>>
  PROVE  ProviderInv'
<1> DEFINE new == NewPreparedRecord
<1>0. /\ record = NoRecord /\ record' = new /\ Go(p, AfterAdmission, new, NoAnswer)
      /\ UNCHANGED <<released, chain, paid, written, clock>>
  BY Zenon DEF Admit
<1>1. NoRecord \in Records
  BY NothingYet, InvFields, Zenon
<1>2. new \in Records
  BY <1>1, Zenon DEF NewPreparedRecord, Records, States
<1>3. /\ new.state = "prepared" /\ new.revision = 1 /\ ~new.attempted /\ new.handle = None
      /\ ~new.transfer /\ new.observed = 0 /\ ~new.superseded /\ ~new.sponsorshipAbsent
      /\ ~new.transactionAbsent /\ ~new.promoted /\ new.evidence = {}
      /\ new.outcome = NoOutcome /\ ~new.settled
  BY DEF NewPreparedRecord, NoRecord
<1>4. terms \in Terms
  BY Zenon DEF ProviderInv, ProviderType
<1> HIDE DEF new
<1>5. ValidSponsorshipSnapshot(new) /\ OutcomeFits(new)
  BY <1>3 DEF ValidSponsorshipSnapshot, OutcomeFits
<1>6. StateFits(new)
  BY <1>3, <1>4 DEF StateFits, ValidRelayModeState, IsSponsorshipOnly, NoOutcome
<1>7. RecordInv(new)
  BY <1>2, <1>3, <1>5, <1>6 DEF RecordInv
<1>8. Follows(record, new) /\ Follows(new, new)
  BY <1>0, <1>7, NothingYet, FollowsSelf, Zenon
<1>9. AfterAdmission \in Labels /\ Fits(AfterAdmission, new, NoAnswer)
  BY <1>3 DEF AfterAdmission, Labels, Fits
<1>10. PICK label : label = AfterAdmission
  OBVIOUS
<1>11. Fits(label, new, NoAnswer)' /\ (TopUpAbsent => TopUpAbsent')
  BY <1>0, <1>9, <1>10, FitsStands, Zenon DEF chain, TopUpAbsent
<1>12. ~released /\ ~written
  BY <1>0, NothingYet DEF ProviderInv, ReleasesExposure, Closed, MayBeOut
<1>13. /\ clock' \in Nat /\ topup' \in {"none", "sent", "seen", "final"}
       /\ transaction' \in {"none", "sent", "seen", "final"}
       /\ topup = "final" => topup' = "final"
       /\ released' \in BOOLEAN /\ ~released' /\ written' \in BOOLEAN /\ ~written'
  BY <1>0, <1>12 DEF ProviderInv, ProviderType, chain
<1>14. paid' = {} /\ topup' = "none"
  BY <1>0, NothingYet DEF ProviderInv, ChainFits, chain
<1> QED
  BY <1>0, <1>3, <1>7, <1>8, <1>9, <1>10, <1>11, <1>13, <1>14, NothingYet, StepKeeps, ZenonT(30)

\* Submit of an action that is still PREPARED.
LEMMA SubmitAgainKeeps ==
  ASSUME ProviderInv, NEW p \in Servers, SubmitAgain(p), UNCHANGED <<terms, serving>>
  PROVE  ProviderInv'
<1>1. record.state = "prepared" /\ UNCHANGED <<record, released, chain, paid, written, clock>>
  BY Zenon DEF SubmitAgain
<1>2. CASE record.attempted /\ Go(p, "query", record, Ask("attempted"))
  <2>1. Mode # "relay_exact" /\ record.handle # None
    BY <1>1, <1>2, PaymentKnown, InHand
  <2>2. "query" \in Labels /\ Ask("attempted") \in Answers
        /\ Fits("query", record, Ask("attempted"))
    BY <2>1, AskFields DEF Labels, Fits
  <2> QED
    BY <1>1, <1>2, <2>2, InHand, GoKeeps, Zenon
<1>3. CASE Go(p, AfterAdmission, record, NoAnswer)
  <2>1. AfterAdmission \in Labels /\ Fits(AfterAdmission, record, NoAnswer)
    BY <1>1 DEF AfterAdmission, Labels, Fits
  <2> QED
    BY <1>1, <1>3, <2>1, NothingYet, InHand, GoKeeps, Zenon
<1> QED
  BY <1>2, <1>3, Zenon DEF SubmitAgain

\* Resolve of an open action begins.
LEMMA ResolveKeeps ==
  ASSUME ProviderInv, NEW p \in Servers, Resolve(p), UNCHANGED <<terms, serving>>
  PROVE  ProviderInv'
<1>1. record.state \in Open /\ UNCHANGED <<record, released, chain, paid, written, clock>>
  BY Zenon DEF Resolve
<1>2. \/ Go(p, "terminate", record, NoAnswer)
      \/ record.attempted /\ Go(p, "query", record, Ask("attempted"))
      \/ record.state = "prepared" /\ Go(p, "reject", record, NoAnswer)
      \/ MayBeOut(record) /\ record.attempted /\ Go(p, "query", record, Ask("observed"))
      \/ MayBeOut(record) /\ Go(p, "chain", record, NoAnswer)
  BY DEF Resolve, MayBeOut, Open
<1>3. {"terminate", "query", "reject", "chain"} \subseteq Labels
  BY DEF Labels
<1>4. record.attempted => Mode # "relay_exact" /\ record.handle # None
  BY <1>1, PaymentKnown, InHand DEF Open
<1>5. Fits("terminate", record, NoAnswer)
  BY DEF Fits
<1>6. record.attempted => Fits("query", record, Ask("attempted"))
  BY <1>4, AskFields DEF Fits
<1>7. record.state = "prepared" => Fits("reject", record, NoAnswer)
  BY DEF Fits
<1>8. MayBeOut(record) /\ record.attempted => Fits("query", record, Ask("observed"))
  BY <1>4, AskFields DEF Fits
<1>9. MayBeOut(record) => Fits("chain", record, NoAnswer)
  BY DEF Fits
<1>10. Ask("attempted") \in Answers /\ Ask("observed") \in Answers /\ NoAnswer \in Answers
  BY AskFields, NothingYet
<1>11. \A label \in Labels, a \in Answers :
         Go(p, label, record, a) /\ Fits(label, record, a) => ProviderInv'
  BY <1>1, InHand, GoKeeps, Zenon
<1> QED
  BY <1>2, <1>3, <1>5, <1>6, <1>7, <1>8, <1>9, <1>10, <1>11, Zenon

\* The components of a pair.
LEMMA PairFields ==
  ASSUME NEW x, NEW y, NEW pair, pair = <<x, y>>
  PROVE  pair[1] = x /\ pair[2] = y
  OBVIOUS

\* The answer about the finalized transfer arrives.
LEMMA ResolveFinalizedKeeps ==
  ASSUME ProviderInv, NEW p \in Servers, ResolveFinalized(p), UNCHANGED <<terms, serving>>
  PROVE  ProviderInv'
<1>1. pc[p] = "query" /\ UNCHANGED <<record, released, chain, paid, written, clock>>
  BY Zenon DEF ResolveFinalized
<1>2. /\ Mode # "relay_exact" /\ mine[p].handle # None
      /\ answer[p].from \in {"submit", "attempted", "observed"}
      /\ answer[p].from = "observed" => MayBeOut(mine[p])
  BY <1>1, InHand, Zenon DEF Fits
<1>3. PICK res \in Resolutions :
        IF res[1] = "unknown"
        THEN IF answer[p].from = "observed" /\ Mode = "sponsor_and_relay"
             THEN Go(p, "chain", mine[p], NoAnswer)
             ELSE Return(p)
        ELSE Go(p, "apply", mine[p],
                [from |-> answer[p].from, is |-> res[1], value |-> res[2]])
  BY Zenon DEF ResolveFinalized
<1>4. CASE Return(p)
  BY <1>1, <1>4, ReturnKeeps, Zenon
<1>5. CASE answer[p].from = "observed" /\ Go(p, "chain", mine[p], NoAnswer)
  <2>1. "chain" \in Labels /\ Fits("chain", mine[p], NoAnswer)
    BY <1>2, <1>5 DEF Labels, Fits
  <2> QED
    BY <1>1, <1>5, <2>1, InHand, NothingYet, GoKeeps, Zenon
<1>6. CASE /\ res[1] # "unknown"
           /\ Go(p, "apply", mine[p], [from |-> answer[p].from, is |-> res[1], value |-> res[2]])
  <2> DEFINE a == [from |-> answer[p].from, is |-> res[1], value |-> res[2]]
  <2>1. /\ res[1] \in {"observed", "transfer", "absent", "both absent"}
        /\ res[2] \in 0 .. MaxObservation
        /\ res[1] = "observed" => /\ SponsorClass = "corroborated" /\ topup \in {"seen", "final"}
                                  /\ res[2] # 0
        /\ res[1] = "transfer" => topup = "final"
        /\ res[1] \in {"absent", "both absent"} => TopUpAbsent
    <3>1. \/ res = <<"unknown", 0>>
          \/ /\ SponsorClass = "corroborated" /\ topup \in {"seen", "final"}
             /\ res \in {"observed"} \X (1 .. MaxObservation)
          \/ topup = "final" /\ res = <<"transfer", 0>>
          \/ TopUpAbsent /\ (res = <<"absent", 0>> \/ res = <<"both absent", 0>>)
      BY Zenon DEF Resolutions
    <3>2. res \in {"observed"} \X (1 .. MaxObservation) =>
            res[1] = "observed" /\ res[2] \in 0 .. MaxObservation /\ res[2] # 0
      BY RecordAssumption
    <3>3. 0 \in 0 .. MaxObservation
      BY RecordAssumption
    <3>4. res[1] # "unknown"
      BY <1>6, Zenon
    <3>5. /\ res = <<"unknown", 0>> => res[1] = "unknown"
          /\ res = <<"transfer", 0>> => res[1] = "transfer" /\ res[2] = 0
          /\ res = <<"absent", 0>> => res[1] = "absent" /\ res[2] = 0
          /\ res = <<"both absent", 0>> => res[1] = "both absent" /\ res[2] = 0
      BY PairFields, Zenon
    <3> QED
      BY <3>1, <3>2, <3>3, <3>4, <3>5, Zenon
  <2>2. a \in Answers /\ a.from = answer[p].from /\ a.is = res[1] /\ a.value = res[2]
    BY <1>2, <2>1, Zenon DEF Answers
  <2>3. topup \in {"seen", "final"} => ~mine[p].sponsorshipAbsent
    BY InHand, Zenon DEF ProviderInv, ChainFits, TopUpAbsent, Follows
  <2> HIDE DEF a
  <2>4. "apply" \in Labels /\ Fits("apply", mine[p], a)
    BY <1>2, <2>1, <2>2, <2>3, Zenon DEF Labels, Fits
  <2> QED
    BY <1>1, <1>6, <2>2, <2>4, InHand, GoKeeps, Zenon DEF a
<1> QED
  BY <1>3, <1>4, <1>5, <1>6, Zenon

\* Resolve asks the chain.
LEMMA QueryChainKeeps ==
  ASSUME ProviderInv, NEW p \in Servers, QueryChain(p), UNCHANGED <<terms, serving>>
  PROVE  ProviderInv'
<1>1. pc[p] = "chain" /\ UNCHANGED <<record, released, chain, paid, written, clock>>
  BY Zenon DEF QueryChain
<1>2. PICK b \in {"none"} \cup ChainResolutions :
        IF b = "none" THEN Return(p)
        ELSE Go(p, "chained", mine[p], [from |-> "chain", is |-> b, value |-> 0])
  <2>1. \E b \in IF Mode = "sponsor_only" THEN {"none"} ELSE ChainResolutions :
        IF b = "none" THEN Return(p)
        ELSE Go(p, "chained", mine[p], [from |-> "chain", is |-> b, value |-> 0])
    BY Zenon DEF QueryChain
  <2> QED
    BY <2>1, Zenon
<1>3. CASE Return(p)
  BY <1>1, <1>3, ReturnKeeps, Zenon
<1>4. CASE b # "none" /\ Go(p, "chained", mine[p], [from |-> "chain", is |-> b, value |-> 0])
  <2> DEFINE a == [from |-> "chain", is |-> b, value |-> 0]
  <2>1. /\ b \in {"finalized", "corroborated", "accepted", "submitted", "safe", "rejected", "absent"}
        /\ b = "corroborated" => RelayClass # "validator"
    BY <1>4 DEF ChainResolutions, By
  <2>2. RelayClass \in Classes
    BY InHand DEF RelayClass, Terms
  <2>3. 0 \in 0 .. MaxObservation
    BY RecordAssumption
  <2>4. a \in Answers /\ a.is = b
    BY <2>1, <2>3, Zenon DEF Answers
  <2>5. MayBeOut(mine[p])
    BY <1>1, InHand, Zenon DEF Fits
  <2> HIDE DEF a
  <2>6. "chained" \in Labels /\ Fits("chained", mine[p], a)
    BY <2>1, <2>2, <2>4, <2>5 DEF Labels, Fits, Classes
  <2> QED
    BY <1>1, <1>4, <2>4, <2>6, InHand, GoKeeps, Zenon DEF a
<1> QED
  BY <1>2, <1>3, <1>4, Zenon

\* The exact transaction is broadcast again.
LEMMA RebroadcastKeeps ==
  ASSUME ProviderInv, NEW p \in Servers, ResolveRebroadcast(p), UNCHANGED <<terms, serving>>
  PROVE  ProviderInv'
<1>1. pc[p] = "chained" /\ UNCHANGED <<record, released, chain, paid, written, clock>>
  BY Zenon DEF ResolveRebroadcast
<1>2. "send" \in Labels /\ Fits("send", mine[p], NoAnswer)
  BY <1>1, InHand, Zenon DEF Labels, Fits
<1>3. Go(p, "send", mine[p], NoAnswer) \/ Return(p)
  BY Zenon DEF ResolveRebroadcast
<1> QED
  BY <1>1, <1>2, <1>3, InHand, NothingYet, GoKeeps, ReturnKeeps, Zenon

\* The absence of the top-up is proven and recorded.
LEMMA AbsenceStep ==
  ASSUME ProviderInv, NEW p \in Servers, NEW outcome \in Outcomes, NEW ta \in BOOLEAN,
         NEW xa \in BOOLEAN, NEW label \in {"idle", "chain"},
         Write(p, CanRecordAbsence(record, mine[p].revision, outcome, ta, xa),
               RecordAbsence(record, outcome, ta, xa), label),
         UNCHANGED <<terms, serving, chain, paid, written, clock>>,
         ta => TopUpAbsent, label = "chain" => MayBeOut(mine[p])
  PROVE  ProviderInv'
<1> DEFINE can == CanRecordAbsence(record, mine[p].revision, outcome, ta, xa)
           new == RecordAbsence(record, outcome, ta, xa)
<1>1. ASSUME can PROVE Sound(new) /\ Fits(label, new, NoAnswer)
  <2>1. RecordInv(new) /\ Follows(record, new) /\ SameTopUp(record, new, ta)
    BY <1>1, InHand, AbsenceKeeps, Zenon
  <2>2. ReleasesExposure(record) => ReleasesExposure(new)
    <3>1. CASE IsReplay(record, outcome, ta, xa)
      BY <3>1, Zenon DEF RecordAbsence
    <3>2. CASE ~IsReplay(record, outcome, ta, xa)
      <4>1. record.state \in Open
        BY <1>1, <3>2, Zenon DEF CanRecordAbsence
      <4> QED
        BY <4>1 DEF ReleasesExposure, Open, Closed
    <3> QED
      BY <3>1, <3>2
  <2> HIDE DEF new
  <2>3. Sound(new)
    BY <2>1, <2>2, Zenon DEF Sound, SameTopUp, ProviderInv, ChainFits
  <2>4. label = "chain" => MayBeOut(new)
    BY <2>1, InHand, Zenon DEF Follows
  <2>5. Fits(label, new, NoAnswer)
    BY <2>4, Zenon DEF Fits
  <2> QED
    BY <2>3, <2>5
<1>2. label \in Labels
  BY DEF Labels
<1> QED
  BY <1>1, <1>2, WriteKeeps, Zenon

\* RejectPrepared, and a terminal transition to the top-up alone.
LEMMA RejectKeeps ==
  ASSUME ProviderInv, NEW p \in Servers,
         mine[p].state \notin {"submitted", "accepted"},
         RejectPrepared(p) \/ TransitionTo(p, "rejected", "none", {}, NoOutcome, "idle"),
         UNCHANGED <<terms, serving, chain, paid, written, clock>>
  PROVE  ProviderInv'
<1>1. mine[p] \in Records
  BY InHand, InvFields, Zenon
<1>2. mine[p].evidence \in SUBSET {"topup", "topup absence", "transaction", "transaction absence"}
  BY <1>1, RecordFields, Zenon
<1>3. /\ NoOutcome \in Outcomes /\ NoOutcome.what = "none"
      /\ NoOutcome # Outcome("sponsorship_only", "corroborated")
  BY DEF NoOutcome, Outcomes, Outcome
<1>4. ASSUME NEW evidence \in SUBSET {"topup", "topup absence", "transaction", "transaction absence"}
      PROVE  Apt(mine[p], "rejected", "none", evidence, NoOutcome)
  BY <1>3, Zenon DEF Apt
<1> QED
  BY <1>2, <1>4, TransitionStep, Zenon DEF RejectPrepared, GoesOn

\* An action that only sponsors turns terminal with the outcome of its evidence.
LEMMA SponsorshipOnlyKeeps ==
  ASSUME ProviderInv, NEW p \in Servers,
         TransitionTo(p, "terminal", "topup", mine[p].evidence,
                      SponsorshipOnlyOutcomeForEvidence, "idle"),
         UNCHANGED <<terms, serving, chain, paid, written, clock>>
  PROVE  ProviderInv'
<1> DEFINE outcome == SponsorshipOnlyOutcomeForEvidence
<1>1. mine[p] \in Records
  BY InHand, InvFields, Zenon
<1>2. mine[p].evidence \in SUBSET {"topup", "topup absence", "transaction", "transaction absence"}
  BY <1>1, RecordFields, Zenon
<1>3. /\ outcome \in Outcomes /\ outcome.what = "sponsorship_only"
      /\ outcome.by = "corroborated" => SponsorClass = "corroborated"
  BY DEF SponsorshipOnlyOutcomeForEvidence, Outcomes, Outcome
<1> HIDE DEF outcome
<1>4. outcome = Outcome("sponsorship_only", "corroborated") => SponsorClass = "corroborated"
  BY <1>3 DEF Outcome
<1>5. Apt(mine[p], "terminal", "topup", mine[p].evidence, outcome)
  BY <1>2, <1>3, <1>4, Zenon DEF Apt
<1> QED
  BY <1>5, TransitionStep DEF outcome, GoesOn

\* terminalizeSponsorshipOnly writes, or returns.
LEMMA TerminalizeKeeps ==
  ASSUME ProviderInv, NEW p \in Servers, TerminalizeSponsorshipOnly(p),
         UNCHANGED <<terms, serving, chain, paid, written, clock>>
  PROVE  ProviderInv'
  BY SponsorshipOnlyKeeps, ReturnKeeps, Zenon DEF TerminalizeSponsorshipOnly

\* The top-up is handed to the sponsor.
LEMMA SubmitSponsorshipKeeps ==
  ASSUME ProviderInv, NEW p \in Servers, SubmitSponsorship(p), UNCHANGED <<terms, serving>>
  PROVE  ProviderInv'
<1>1. pc[p] = "sponsor" /\ UNCHANGED <<chain, paid, written, clock>>
  BY Zenon DEF SubmitSponsorship
<1>2. mine[p].state = "prepared" /\ Mode # "relay_exact"
  BY <1>1, InHand, Zenon DEF Fits
<1>3. \/ /\ mine[p].observed # 0 /\ UNCHANGED <<record, released>>
         /\ Go(p, IF Mode = "sponsor_only" THEN "observed" ELSE "ready", mine[p], NoAnswer)
      \/ RejectPrepared(p)
      \/ /\ mine[p].attempted /\ UNCHANGED <<record, released>>
         /\ Go(p, "ensure", mine[p], NoAnswer)
      \/ \E h \in Handles :
           Write(p, CanBeginSponsorship(record, mine[p].revision, h, clock + Margin < TopUpUntil),
                 BeginSponsorship(record, h), "ensure")
      \/ /\ UNCHANGED <<record, released>>
         /\ Go(p, IF Mode = "sponsor_only" THEN "terminate" ELSE "ready", mine[p], NoAnswer)
  BY DEF SubmitSponsorship
<1>4. CASE RejectPrepared(p)
  BY <1>1, <1>2, <1>4, RejectKeeps
<1>5. ASSUME NEW h \in Handles,
             Write(p, CanBeginSponsorship(record, mine[p].revision, h, clock + Margin < TopUpUntil),
                   BeginSponsorship(record, h), "ensure")
      PROVE  ProviderInv'
  <2> DEFINE can == CanBeginSponsorship(record, mine[p].revision, h, clock + Margin < TopUpUntil)
             new == BeginSponsorship(record, h)
  <2>1. ASSUME can PROVE Sound(new) /\ Fits("ensure", new, NoAnswer)
    <3>1. /\ RecordInv(new) /\ Follows(record, new) /\ new.transfer = record.transfer
          /\ new.sponsorshipAbsent = record.sponsorshipAbsent /\ new.handle = h
      BY <2>1, InHand, BeginKeeps
    <3>2. ~ReleasesExposure(record)
      BY <2>1 DEF CanBeginSponsorship, ReleasesExposure, Closed
    <3> HIDE DEF new
    <3>3. Sound(new)
      BY <3>1, <3>2, Zenon DEF Sound, ProviderInv, ChainFits
    <3>4. Fits("ensure", new, NoAnswer)
      BY <1>2, <3>1, RecordAssumption DEF Fits
    <3> QED
      BY <3>3, <3>4, Zenon
  <2>2. "ensure" \in Labels
    BY DEF Labels
  <2> QED
    BY <1>1, <1>5, <2>1, <2>2, WriteKeeps, Zenon
<1>6. ASSUME NEW label \in {"observed", "ready", "ensure", "terminate"},
             Go(p, label, mine[p], NoAnswer), UNCHANGED <<record, released>>,
             label = "observed" => Mode = "sponsor_only",
             label = "ensure" => mine[p].attempted
      PROVE  ProviderInv'
  <2>1. label = "ensure" => mine[p].handle # None
    BY <1>2, <1>6, InHand, PaymentKnown, Zenon
  <2>2. label \in Labels /\ Fits(label, mine[p], NoAnswer)
    BY <1>2, <1>6, <2>1, Zenon DEF Labels, Fits
  <2> QED
    BY <1>1, <1>6, <2>2, InHand, NothingYet, GoKeeps, Zenon
<1> QED
  BY <1>3, <1>4, <1>5, <1>6

\* The sponsor is asked to pay under the handle of the record.
LEMMA EnsureKeeps ==
  ASSUME ProviderInv, NEW p \in Servers, EnsureFinalized(p), UNCHANGED <<terms, serving>>
  PROVE  ProviderInv'
<1>1. /\ pc[p] = "ensure" /\ paid' = paid \cup {mine[p].handle}
      /\ topup' = IF topup = "none" /\ clock < TopUpUntil THEN "sent" ELSE topup
      /\ Go(p, "query", mine[p], Ask("submit"))
      /\ UNCHANGED <<record, released, transaction, reorgs, written, clock>>
  BY Zenon DEF EnsureFinalized
<1>2. Mode # "relay_exact" /\ mine[p].handle # None
  BY <1>1, InHand, Zenon DEF Fits
<1>3. PICK new : new = record
  OBVIOUS
<1>4. /\ RecordInv(new) /\ Follows(record, new) /\ Follows(mine[p], new) /\ record' = new
      /\ RecordInv(mine[p])
  BY <1>1, <1>3, InHand, Zenon
<1>5. new.handle = mine[p].handle
  BY <1>2, <1>4, Zenon DEF Follows
<1>6. /\ clock' \in Nat /\ topup' \in {"none", "sent", "seen", "final"}
      /\ transaction' \in {"none", "sent", "seen", "final"}
      /\ topup = "final" => topup' = "final"
      /\ TopUpAbsent => TopUpAbsent'
  BY <1>1, ProviderAssumption DEF ProviderInv, ProviderType, TopUpAbsent
<1>7. Fits("query", mine[p], Ask("submit")) /\ Ask("submit") \in Answers /\ "query" \in Labels
  BY <1>2, AskFields DEF Fits, Labels
<1>8. PICK r, a : r = mine[p] /\ a = Ask("submit")
  OBVIOUS
<1>9. Fits("query", r, a)'
  BY <1>6, <1>7, <1>8, FitsStands, Zenon
<1>10. /\ released' \in BOOLEAN /\ (released' => ReleasesExposure(new))
       /\ written' \in BOOLEAN /\ (written' => MayBeOut(new))
  BY <1>1, <1>3, Zenon DEF ProviderInv
<1>11. (new.transfer => topup' = "final") /\ (new.sponsorshipAbsent => TopUpAbsent')
  BY <1>3, <1>6, Zenon DEF ProviderInv, ChainFits
<1>12. paid' \subseteq {new.handle}
  BY <1>1, <1>3, <1>5 DEF ProviderInv, ChainFits
<1> QED
  BY <1>1, <1>2, <1>4, <1>5, <1>6, <1>7, <1>8, <1>9, <1>10, <1>11, <1>12, StepKeeps, Zenon

\* An observation other than none is numbered from one.
LEMMA FirstCheckpoint ==
  ASSUME NEW n \in 0 .. MaxObservation, n # 0
  PROVE  n \in 1 .. MaxObservation
  BY RecordAssumption

\* The sponsor answers that it observes its transfer.
LEMMA ApplyObservedKeeps ==
  ASSUME ProviderInv, NEW p \in Servers, pc[p] = "apply", answer[p].is = "observed",
         NEW label \in {"ready", "observed", "idle", "chain"},
         label = "observed" => Mode = "sponsor_only",
         label = "chain" => answer[p].from = "observed",
         Write(p, CanRecordObservation(record, mine[p].revision, mine[p].handle, answer[p].value),
               RecordObservation(record, answer[p].value), label),
         UNCHANGED <<terms, serving, chain, paid, written, clock>>
  PROVE  ProviderInv'
<1> DEFINE can == CanRecordObservation(record, mine[p].revision, mine[p].handle, answer[p].value)
           new == RecordObservation(record, answer[p].value)
<1>1. /\ Mode # "relay_exact" /\ mine[p].handle # None /\ SponsorClass = "corroborated"
      /\ ~mine[p].sponsorshipAbsent /\ answer[p].value # 0
      /\ answer[p].from = "observed" => MayBeOut(mine[p])
  BY InHand, Zenon DEF Fits
<1>2. answer[p].value \in 1 .. MaxObservation
  <2>1. answer[p].value \in 0 .. MaxObservation
    BY InHand, Zenon DEF Answers
  <2> QED
    BY <1>1, <2>1, FirstCheckpoint, Zenon
<1>3. ASSUME can PROVE Sound(new) /\ Fits(label, new, NoAnswer)
  <2>1. record.revision = mine[p].revision => ~record.sponsorshipAbsent
    BY <1>1, Current, Zenon
  <2>2. /\ RecordInv(new) /\ Follows(record, new) /\ new.transfer = record.transfer
        /\ new.sponsorshipAbsent = record.sponsorshipAbsent /\ new.observed = answer[p].value
    BY <1>1, <1>2, <1>3, <2>1, InHand, ObserveKeeps, Zenon
  <2>3. ~ReleasesExposure(record)
    BY <1>3, Zenon DEF CanRecordObservation, ReleasesExposure, Closed, Open
  <2> HIDE DEF new
  <2>4. Sound(new)
    BY <2>2, <2>3, Zenon DEF Sound, ProviderInv, ChainFits
  <2>5. label = "chain" => MayBeOut(new)
    BY <1>1, <2>2, InHand, Zenon DEF Follows
  <2>6. Fits(label, new, NoAnswer)
    BY <1>1, <2>2, <2>5, Zenon DEF Fits
  <2> QED
    BY <2>4, <2>6, Zenon
<1>4. label \in Labels
  BY DEF Labels
<1> QED
  BY <1>3, <1>4, WriteKeeps, Zenon

\* The sponsor answers with a finalized transfer.
LEMMA ApplyTransferKeeps ==
  ASSUME ProviderInv, NEW p \in Servers, pc[p] = "apply", answer[p].is = "transfer",
         NEW label \in {"ready", "terminate", "chain"},
         label = "chain" => answer[p].from = "observed",
         Write(p, CanRecordSponsorship(record, mine[p].revision, mine[p].handle),
               RecordSponsorship(record), label),
         UNCHANGED <<terms, serving, chain, paid, written, clock>>
  PROVE  ProviderInv'
<1> DEFINE can == CanRecordSponsorship(record, mine[p].revision, mine[p].handle)
           new == RecordSponsorship(record)
<1>1. /\ Mode # "relay_exact" /\ mine[p].handle # None /\ topup = "final"
      /\ answer[p].from = "observed" => MayBeOut(mine[p])
  BY InHand, Zenon DEF Fits
<1>2. ~record.sponsorshipAbsent
  BY <1>1, Zenon DEF ProviderInv, ChainFits, TopUpAbsent
<1>3. ASSUME can PROVE Sound(new) /\ Fits(label, new, NoAnswer)
  <2>2. /\ RecordInv(new) /\ Follows(record, new) /\ new.transfer
        /\ new.sponsorshipAbsent = record.sponsorshipAbsent
    BY <1>1, <1>2, <1>3, InHand, SponsorKeeps, Zenon
  <2>3. ~ReleasesExposure(record)
    BY <1>3, Zenon DEF CanRecordSponsorship, ReleasesExposure, Closed, Open
  <2> HIDE DEF new
  <2>4. Sound(new)
    BY <1>1, <1>2, <2>2, <2>3, Zenon DEF Sound
  <2>5. label = "chain" => MayBeOut(new)
    BY <1>1, <2>2, InHand, Zenon DEF Follows
  <2>6. Fits(label, new, NoAnswer)
    BY <1>1, <2>2, <2>5, Zenon DEF Fits
  <2> QED
    BY <2>4, <2>6, Zenon
<1>4. label \in Labels
  BY DEF Labels
<1> QED
  BY <1>3, <1>4, WriteKeeps, Zenon

\* The outcomes the calls name are outcomes.
LEMMA OutcomeFields ==
  ASSUME NEW what \in {"success", "sponsorship_only", "relay_only", "absence"},
         NEW by \in {"finalized", "corroborated"}
  PROVE  Outcome(what, by) \in Outcomes /\ Outcome(what, by).what = what /\ Outcome(what, by).by = by
  BY DEF Outcome, Outcomes

\* What the sponsor answered is applied.
LEMMA ApplyKeeps ==
  ASSUME ProviderInv, NEW p \in Servers, ApplyResolution(p), UNCHANGED <<terms, serving>>
  PROVE  ProviderInv'
<1> DEFINE from == answer[p].from
           goOn(submit, attempted, sponsorOnly) ==
             CASE from = "submit" -> IF Mode = "sponsor_only" THEN sponsorOnly ELSE submit
               [] from = "attempted" -> attempted
               [] OTHER -> IF Mode = "sponsor_only" THEN attempted ELSE "chain"
           both == answer[p].is = "both absent"
           outcome == IF Mode = "sponsor_and_relay" /\ ~both THEN NoOutcome
                      ELSE Outcome("absence", By(SponsorClass = "validator" /\ (both => AllValidator)))
<1>1. pc[p] = "apply" /\ UNCHANGED <<chain, paid, written, clock>>
  BY Zenon DEF ApplyResolution
<1>2. /\ from \in {"submit", "attempted", "observed"}
      /\ answer[p].is \in {"observed", "transfer", "absent", "both absent"}
      /\ answer[p].is \in {"absent", "both absent"} => TopUpAbsent
      /\ from = "observed" => MayBeOut(mine[p])
  BY <1>1, InHand, Zenon DEF Fits
<1>3. \/ /\ answer[p].is = "observed"
         /\ Write(p, CanRecordObservation(record, mine[p].revision, mine[p].handle, answer[p].value),
                  RecordObservation(record, answer[p].value), goOn("ready", "idle", "observed"))
      \/ /\ answer[p].is = "transfer"
         /\ Write(p, CanRecordSponsorship(record, mine[p].revision, mine[p].handle),
                  RecordSponsorship(record), goOn("ready", "terminate", "terminate"))
      \/ /\ answer[p].is \notin {"observed", "transfer"}
         /\ Write(p, CanRecordAbsence(record, mine[p].revision, outcome, TRUE, both),
                  RecordAbsence(record, outcome, TRUE, both), goOn("idle", "idle", "idle"))
  BY Zenon DEF ApplyResolution
<1>4. /\ goOn("ready", "idle", "observed") \in {"ready", "observed", "idle", "chain"}
      /\ goOn("ready", "idle", "observed") = "observed" => Mode = "sponsor_only"
      /\ goOn("ready", "idle", "observed") = "chain" => from = "observed"
      /\ goOn("ready", "terminate", "terminate") \in {"ready", "terminate", "chain"}
      /\ goOn("ready", "terminate", "terminate") = "chain" => from = "observed"
      /\ goOn("idle", "idle", "idle") \in {"idle", "chain"}
      /\ goOn("idle", "idle", "idle") = "chain" => from = "observed"
  BY <1>2, Zenon
<1>5. outcome \in Outcomes /\ both \in BOOLEAN
  <2>1. By(SponsorClass = "validator" /\ (both => AllValidator)) \in {"finalized", "corroborated"}
    BY DEF By
  <2> QED
    BY <2>1, OutcomeFields, Zenon DEF Outcomes
<1> HIDE DEF goOn, outcome, both
<1>6. CASE answer[p].is = "observed"
  BY <1>1, <1>3, <1>4, <1>6, ApplyObservedKeeps, Zenon
<1>7. CASE answer[p].is = "transfer"
  BY <1>1, <1>3, <1>4, <1>7, ApplyTransferKeeps, Zenon
<1>8. CASE answer[p].is \notin {"observed", "transfer"}
  BY <1>1, <1>2, <1>3, <1>4, <1>5, <1>8, AbsenceStep, Zenon
<1> QED
  BY <1>6, <1>7, <1>8

\* The evidence of the record a call holds.
LEMMA HeldEvidence ==
  ASSUME ProviderInv, NEW p \in Servers
  PROVE  mine[p].evidence \in SUBSET {"topup", "topup absence", "transaction", "transaction absence"}
<1>1. mine[p] \in Records
  BY InHand, InvFields, Zenon
<1> QED
  BY <1>1, RecordFields, Zenon

\* A transition to a state that is not final.
LEMMA TentativeKeeps ==
  ASSUME ProviderInv, NEW p \in Servers, NEW target \in {"submitted", "accepted"},
         NEW reference \in {"none", "transaction"}, NEW label \in {"idle", "send"},
         label = "send" => target = "submitted",
         NEW evidence \in {mine[p].evidence, {}},
         evidence = mine[p].evidence \/ (target = "submitted" /\ Mode = "sponsor_only"),
         TransitionTo(p, target, reference, evidence, NoOutcome, label),
         UNCHANGED <<terms, serving, chain, paid, written, clock>>
  PROVE  ProviderInv'
<1>1. /\ NoOutcome \in Outcomes /\ NoOutcome.what = "none"
      /\ NoOutcome # Outcome("sponsorship_only", "corroborated")
  BY Zenon DEF NoOutcome, Outcomes, Outcome
<1>2. Apt(mine[p], target, reference, evidence, NoOutcome)
  BY <1>1, HeldEvidence, Zenon DEF Apt
<1>3. GoesOn(label, target)
  BY DEF GoesOn
<1> QED
  BY <1>2, <1>3, TransitionStep, Zenon

\* The other calls to Transition on behalf of Submit.
LEMMA SubmitKeeps ==
  ASSUME ProviderInv, NEW p \in Servers, UNCHANGED <<terms, serving>>,
         \/ SubmitObserved(p) \/ SubmitTerminal(p) \/ SubmitReady(p) \/ SubmitSubmitted(p)
         \/ SubmitAccepted(p) \/ ResolveRejected(p)
  PROVE  ProviderInv'
<1>1. CASE SubmitObserved(p)
  <2>1. Mode = "sponsor_only"
    BY <1>1, InHand, Zenon DEF SubmitObserved, Fits
  <2> QED
    BY <1>1, <2>1, TentativeKeeps, Zenon DEF SubmitObserved
<1>2. CASE SubmitTerminal(p)
  BY <1>2, SponsorshipOnlyKeeps, Zenon DEF SubmitTerminal
<1>3. CASE SubmitReady(p)
  <2>1. "submit" \in Labels /\ Fits("submit", mine[p], NoAnswer)
    BY <1>3, InHand, Zenon DEF SubmitReady, Labels, Fits
  <2>2. \/ Go(p, "submit", mine[p], NoAnswer) /\ UNCHANGED <<record, released>>
        \/ TerminalizeSponsorshipOnly(p)
    BY <1>3, Zenon DEF SubmitReady
  <2>3. UNCHANGED <<chain, paid, written, clock>>
    BY <1>3, Zenon DEF SubmitReady
  <2>4. CASE Go(p, "submit", mine[p], NoAnswer) /\ UNCHANGED <<record, released>>
    BY <2>1, <2>3, <2>4, InHand, NothingYet, GoKeeps, Zenon
  <2>5. CASE TerminalizeSponsorshipOnly(p)
    BY <2>3, <2>5, TerminalizeKeeps
  <2> QED
    BY <2>2, <2>4, <2>5
<1>4. CASE SubmitSubmitted(p)
  <2>1. mine[p].state = "prepared" \/ mine[p].transfer \/ mine[p].observed # 0
    BY <1>4, InHand, Zenon DEF SubmitSubmitted, Fits
  <2>2. UNCHANGED <<chain, paid, written, clock>>
    BY <1>4, Zenon DEF SubmitSubmitted
  <2>3. CASE TransitionTo(p, "submitted", "none", mine[p].evidence, NoOutcome, "send")
    BY <2>2, <2>3, TentativeKeeps
  <2>4. CASE TerminalizeSponsorshipOnly(p)
    BY <2>2, <2>4, TerminalizeKeeps
  <2>5. CASE Return(p) /\ UNCHANGED <<record, released>>
    BY <2>2, <2>5, ReturnKeeps, Zenon
  <2>6. CASE RejectPrepared(p) /\ mine[p].state = "prepared"
    BY <2>2, <2>6, RejectKeeps, Zenon
  <2> QED
    BY <1>4, <2>1, <2>3, <2>4, <2>5, <2>6, Zenon DEF SubmitSubmitted
<1>5. CASE SubmitAccepted(p)
  BY <1>5, TentativeKeeps, Zenon DEF SubmitAccepted
<1>6. CASE ResolveRejected(p)
  <2>1. mine[p].state = "prepared"
    BY <1>6, InHand, Zenon DEF ResolveRejected, Fits
  <2> QED
    BY <1>6, <2>1, RejectKeeps DEF ResolveRejected
<1> QED
  BY <1>1, <1>2, <1>3, <1>4, <1>5, <1>6

\* The exact transaction is submitted.
LEMMA SubmitExactKeeps ==
  ASSUME ProviderInv, NEW p \in Servers, SubmitExact(p), UNCHANGED <<terms, serving>>
  PROVE  ProviderInv'
<1>1. /\ pc[p] = "send" /\ written' = TRUE
      /\ Return(p) \/ Go(p, "accept", mine[p], NoAnswer)
      /\ UNCHANGED <<record, released, topup, reorgs, paid, clock>>
  BY Zenon DEF SubmitExact
<1>2. MayBeOut(mine[p]) /\ MayBeOut(record)
  BY <1>1, InHand, Zenon DEF Fits, Follows
<1>3. PICK new : new = record
  OBVIOUS
<1>4. /\ RecordInv(new) /\ Follows(record, new) /\ Follows(mine[p], new) /\ record' = new
      /\ RecordInv(mine[p]) /\ MayBeOut(new)
  BY <1>1, <1>2, <1>3, InHand, Zenon
<1>5. /\ clock' \in Nat /\ topup' \in {"none", "sent", "seen", "final"} /\ topup' = topup
      /\ transaction' \in {"none", "sent", "seen", "final"}
      /\ written' \in BOOLEAN
  BY <1>1 DEF ProviderInv, ProviderType, SubmitExact
<1>6. TopUpAbsent => TopUpAbsent'
  BY <1>1 DEF TopUpAbsent
<1>7. released' \in BOOLEAN /\ (released' => ReleasesExposure(new))
  BY <1>1, <1>3, Zenon DEF ProviderInv
<1>8. /\ (new.transfer => topup' = "final") /\ (new.sponsorshipAbsent => TopUpAbsent')
      /\ paid' \subseteq {new.handle} /\ (new.handle = None => paid' = {} /\ topup' = "none")
  BY <1>1, <1>3, <1>5, <1>6, Zenon DEF ProviderInv, ChainFits
<1>9. ASSUME NEW label \in Labels, NEW r, Go(p, label, r, NoAnswer), RecordInv(r),
             Follows(r, new), Fits(label, r, NoAnswer)
      PROVE  ProviderInv'
  <2>1. Fits(label, r, NoAnswer)'
    BY <1>5, <1>6, <1>9, FitsStands, Zenon
  <2> QED
    BY <1>4, <1>5, <1>6, <1>7, <1>8, <1>9, <2>1, NothingYet, StepKeeps, Zenon
<1>10. {"idle", "accept"} \subseteq Labels /\ Fits("accept", mine[p], NoAnswer)
  BY <1>2 DEF Labels, Fits
<1> QED
  BY <1>1, <1>4, <1>9, <1>10, NothingYet, Zenon DEF Return

\* Resolve of a transaction the chain does not have.
LEMMA ResolveAbsentKeeps ==
  ASSUME ProviderInv, NEW p \in Servers, ResolveAbsent(p), UNCHANGED <<terms, serving>>
  PROVE  ProviderInv'
<1> DEFINE dual == Outcome("absence", By(AllValidator))
           only == Outcome("sponsorship_only", By(AllValidator))
           none == RelayOutcomeForSelectedEvidence("absence", "finalized", FALSE)
<1>1. UNCHANGED <<chain, paid, written, clock>>
  BY Zenon DEF ResolveAbsent
<1>2. \/ Return(p) /\ UNCHANGED <<record, released>>
      \/ /\ mine[p].sponsorshipAbsent
         /\ Write(p, CanRecordAbsence(record, mine[p].revision, dual, TRUE, TRUE),
                  RecordAbsence(record, dual, TRUE, TRUE), "idle")
      \/ Write(p, CanRecordAbsence(record, mine[p].revision, only, FALSE, TRUE),
               RecordAbsence(record, only, FALSE, TRUE), "idle")
      \/ TransitionTo(p, "terminal", "none", Merge(mine[p], "transaction absence"), none, "idle")
  BY Zenon DEF ResolveAbsent
<1>3. By(AllValidator) \in {"finalized", "corroborated"}
  BY DEF By
<1>4. /\ dual \in Outcomes /\ only \in Outcomes /\ none \in Outcomes /\ none.what = "absence"
      /\ none # Outcome("sponsorship_only", "corroborated")
  <2>1. dual \in Outcomes /\ only \in Outcomes
    BY <1>3, OutcomeFields
  <2>2. none \in Outcomes /\ none.what = "absence"
    BY OutcomeFields, Zenon DEF RelayOutcomeForSelectedEvidence
  <2> HIDE DEF none
  <2>3. none # Outcome("sponsorship_only", "corroborated")
    BY <2>2 DEF Outcome
  <2> QED
    BY <2>1, <2>2, <2>3
<1> HIDE DEF dual, only, none
<1>5. mine[p].sponsorshipAbsent => TopUpAbsent
  BY InHand, Zenon DEF ProviderInv, ChainFits, Follows
<1>6. Apt(mine[p], "terminal", "none", Merge(mine[p], "transaction absence"), none)
  BY <1>4, HeldEvidence, Zenon DEF Apt, Merge
<1>7. CASE Return(p) /\ UNCHANGED <<record, released>>
  BY <1>1, <1>7, ReturnKeeps, Zenon
<1>8. CASE /\ mine[p].sponsorshipAbsent
           /\ Write(p, CanRecordAbsence(record, mine[p].revision, dual, TRUE, TRUE),
                    RecordAbsence(record, dual, TRUE, TRUE), "idle")
  BY <1>1, <1>4, <1>5, <1>8, AbsenceStep, Zenon
<1>9. CASE Write(p, CanRecordAbsence(record, mine[p].revision, only, FALSE, TRUE),
                 RecordAbsence(record, only, FALSE, TRUE), "idle")
  BY <1>1, <1>4, <1>9, AbsenceStep, Zenon
<1>10. CASE TransitionTo(p, "terminal", "none", Merge(mine[p], "transaction absence"), none, "idle")
  BY <1>1, <1>6, <1>10, TransitionStep, Zenon DEF GoesOn
<1> QED
  BY <1>2, <1>7, <1>8, <1>9, <1>10, Zenon

\* Resolve of a transaction that succeeded.
LEMMA ResolveSuccessKeeps ==
  ASSUME ProviderInv, NEW p \in Servers, ResolveSuccess(p), UNCHANGED <<terms, serving>>
  PROVE  ProviderInv'
<1> DEFINE r == mine[p]
           by == answer[p].is
           outcome == CASE r.sponsorshipAbsent /\ ~r.transfer ->
                             Outcome("relay_only", By(AllValidator))
                        [] r.transfer /\ by = "corroborated" -> Outcome("success", by)
                        [] OTHER -> RelayOutcomeForSelectedEvidence("success", by, r.transfer)
<1>1. /\ pc[p] = "chained" /\ by \in {"finalized", "corroborated"}
      /\ UNCHANGED <<chain, paid, written, clock>>
  BY Zenon DEF ResolveSuccess
<1>2. \/ Return(p) /\ UNCHANGED <<record, released>>
      \/ TransitionTo(p, "terminal", "transaction", Merge(r, "transaction"), outcome, "idle")
  BY Zenon DEF ResolveSuccess
<1>3. by = "corroborated" => RelayClass = "corroborated"
  BY <1>1, InHand, Zenon DEF Fits
<1>4. PICK what \in {"relay_only", "success"}, as \in {"finalized", "corroborated"} :
        /\ outcome = Outcome(what, as)
        /\ what = "relay_only" => as = IF AllValidator THEN "finalized" ELSE "corroborated"
        /\ what = "success" => as = IF SelectedTerminalUsesCorroboration(r.transfer)
                                    THEN "corroborated" ELSE "finalized"
  <2>1. CASE r.sponsorshipAbsent /\ ~r.transfer
    <3>1. outcome = Outcome("relay_only", By(AllValidator))
      BY <2>1
    <3>2. By(AllValidator) = IF AllValidator THEN "finalized" ELSE "corroborated"
      BY DEF By
    <3> QED
      BY <3>1, <3>2
  <2>2. CASE r.transfer /\ by = "corroborated" /\ ~r.sponsorshipAbsent
    <3>1. outcome = Outcome("success", "corroborated") /\ SelectedTerminalUsesCorroboration(r.transfer)
      BY <1>3, <2>2 DEF SelectedTerminalUsesCorroboration
    <3> QED
      BY <3>1
  <2>3. CASE /\ ~(r.sponsorshipAbsent /\ ~r.transfer)
             /\ ~(r.transfer /\ by = "corroborated")
    <3>1. outcome = Outcome("success", IF SelectedTerminalUsesCorroboration(r.transfer)
                                       THEN "corroborated" ELSE by)
      BY <2>3 DEF RelayOutcomeForSelectedEvidence
    <3>2. by = "corroborated" => SelectedTerminalUsesCorroboration(r.transfer)
      BY <1>3 DEF SelectedTerminalUsesCorroboration
    <3>3. outcome = Outcome("success", IF SelectedTerminalUsesCorroboration(r.transfer)
                                       THEN "corroborated" ELSE "finalized")
      BY <1>1, <3>1, <3>2
    <3> QED
      BY <3>3
  <2>4. r.sponsorshipAbsent => ~r.transfer
    BY <1>1, InHand, Zenon DEF RecordInv, ValidSponsorshipSnapshot, Fits, MayBeOut
  <2> QED
    BY <2>1, <2>2, <2>3, <2>4
<1> HIDE DEF outcome
<1>5. /\ outcome \in Outcomes /\ outcome.what = what /\ outcome.by = as
      /\ outcome # Outcome("sponsorship_only", "corroborated")
  <2>1. outcome \in Outcomes /\ outcome.what = what /\ outcome.by = as
    BY <1>4, OutcomeFields, Zenon
  <2> QED
    BY <2>1 DEF Outcome
<1>6. Apt(r, "terminal", "transaction", Merge(r, "transaction"), outcome)
  BY <1>4, <1>5, HeldEvidence, Zenon DEF Apt, Merge, AllValidator
<1>7. CASE Return(p) /\ UNCHANGED <<record, released>>
  BY <1>1, <1>7, ReturnKeeps, Zenon
<1>8. CASE TransitionTo(p, "terminal", "transaction", Merge(r, "transaction"), outcome, "idle")
  BY <1>1, <1>6, <1>8, TransitionStep, Zenon DEF GoesOn
<1> QED
  BY <1>2, <1>7, <1>8

\* Resolve of a transaction that is not final.
LEMMA ResolveTentativeKeeps ==
  ASSUME ProviderInv, NEW p \in Servers, ResolveTentative(p), UNCHANGED <<terms, serving>>
  PROVE  ProviderInv'
<1> DEFINE state == answer[p].is
           reference == IF state = "accepted" THEN "transaction" ELSE "none"
<1>1. state \in {"accepted", "submitted", "rejected"} /\ UNCHANGED <<chain, paid, written, clock>>
  BY Zenon DEF ResolveTentative
<1>2. \/ Return(p) /\ UNCHANGED <<record, released>>
      \/ /\ ~(state = "rejected" /\ mine[p].state \in {"submitted", "accepted"})
         /\ TransitionTo(p, state, reference, mine[p].evidence, NoOutcome, "idle")
  BY Zenon DEF ResolveTentative
<1>3. CASE Return(p) /\ UNCHANGED <<record, released>>
  BY <1>1, <1>3, ReturnKeeps, Zenon
<1>4. CASE /\ ~(state = "rejected" /\ mine[p].state \in {"submitted", "accepted"})
           /\ TransitionTo(p, state, reference, mine[p].evidence, NoOutcome, "idle")
  <2>1. CASE state = "rejected"
    BY <1>1, <1>4, <2>1, RejectKeeps, Zenon DEF RejectPrepared
  <2>2. CASE state \in {"accepted", "submitted"}
    <3>1. reference \in {"none", "transaction"}
      OBVIOUS
    <3> HIDE DEF reference
    <3> QED
      BY <1>1, <1>4, <2>2, <3>1, TentativeKeeps
  <2> QED
    BY <1>1, <2>1, <2>2, Zenon
<1> QED
  BY <1>2, <1>3, <1>4

\* A step that no call takes.
LEMMA IdleKeeps ==
  ASSUME ProviderInv, UNCHANGED <<terms, serving, local, paid, written>>,
         clock' \in Nat, topup' \in {"none", "sent", "seen", "final"},
         transaction' \in {"none", "sent", "seen", "final"},
         topup = "final" => topup' = "final", TopUpAbsent => TopUpAbsent',
         topup = "none" => topup' = "none",
         NEW new, record' = new, RecordInv(new), Follows(record, new),
         new.handle = record.handle, new.transfer = record.transfer,
         new.sponsorshipAbsent = record.sponsorshipAbsent,
         released' \in BOOLEAN, released' => ReleasesExposure(new)
  PROVE  ProviderInv'
<1>1. ProviderType'
  BY Zenon DEF ProviderInv, ProviderType, local
<1>2. ChainFits'
  BY DEF ProviderInv, ChainFits
<1>3. RecordInv(record)'
  BY RecordStands, Zenon
<1>4. ASSUME NEW q \in Servers
      PROVE  (RecordInv(mine[q]) /\ Follows(mine[q], record) /\ CallFits(q))'
  <2>1. pc'[q] = pc[q] /\ mine'[q] = mine[q] /\ answer'[q] = answer[q]
    BY DEF local
  <2>2. PICK l, m, b : l = pc[q] /\ m = mine[q] /\ b = answer[q]
    OBVIOUS
  <2>3. RecordInv(m) /\ Follows(m, record) /\ Fits(l, m, b)
    BY <2>2, Zenon DEF ProviderInv, CallFits
  <2>4. RecordInv(m)' /\ Fits(l, m, b)'
    BY <2>3, RecordStands, FitsStands, Zenon
  <2>5. Follows(m, new)
    BY <2>3, FollowsTrans, Zenon DEF ProviderInv
  <2> QED
    BY <2>1, <2>2, <2>4, <2>5, Zenon DEF CallFits
<1>5. written' \in BOOLEAN /\ (written' => MayBeOut(record)')
  BY Zenon DEF ProviderInv, Follows
<1> QED
  BY <1>1, <1>2, <1>3, <1>4, <1>5, Zenon DEF ProviderInv

\* The exposure of an action is released.
LEMMA SettleKeeps ==
  ASSUME ProviderInv, Settle, UNCHANGED <<terms, serving>>
  PROVE  ProviderInv'
<1> DEFINE new == ReleaseExposure(record)
<1>1. /\ CanReleaseExposure(record, record.revision) /\ ~record.settled /\ record' = new
      /\ released' = (released \/ ReleasesExposure(record'))
      /\ UNCHANGED <<local, chain, paid, written, clock>>
  BY Zenon DEF Settle
<1>2. terms \in Terms /\ RecordInv(record) /\ released \in BOOLEAN
  BY Zenon DEF ProviderInv, ProviderType
<1>3. /\ RecordInv(new) /\ Follows(record, new) /\ new.handle = record.handle
      /\ new.transfer = record.transfer /\ new.sponsorshipAbsent = record.sponsorshipAbsent
  BY <1>1, <1>2, ReleaseKeeps
<1>4. ReleasesExposure(new)
  <2>1. record.state = "terminal" /\ record \in Records
    BY <1>1, <1>2 DEF CanReleaseExposure, RecordInv
  <2>2. new = [record EXCEPT !.settled = TRUE, !.revision = record.revision + 1]
    BY <1>1 DEF ReleaseExposure
  <2>3. new.settled /\ new.state = "terminal"
    BY <2>1, <2>2, Zenon DEF Records
  <2> QED
    BY <2>3 DEF ReleasesExposure, Closed
<1> HIDE DEF new
<1>5. /\ clock' \in Nat /\ topup' \in {"none", "sent", "seen", "final"} /\ topup' = topup
      /\ transaction' \in {"none", "sent", "seen", "final"}
      /\ TopUpAbsent => TopUpAbsent'
  BY <1>1 DEF ProviderInv, ProviderType, chain, TopUpAbsent
<1>6. released' \in BOOLEAN
  BY <1>1, <1>2, <1>4, Zenon
<1> QED
  BY <1>1, <1>3, <1>4, <1>5, <1>6, IdleKeeps

\* Blocks, reorganizations and time.
LEMMA ChainKeeps ==
  ASSUME ProviderInv, Include \/ Reorg \/ Tick, UNCHANGED <<terms, serving>>
  PROVE  ProviderInv'
<1>1. UNCHANGED <<record, released, local, paid, written>>
  BY Zenon DEF Include, Reorg, Tick
<1>2. /\ clock' \in Nat /\ topup' \in {"none", "sent", "seen", "final"}
      /\ transaction' \in {"none", "sent", "seen", "final"}
      /\ topup = "final" => topup' = "final"
      /\ topup = "none" => topup' = "none"
      /\ TopUpAbsent => TopUpAbsent'
  BY ProviderAssumption DEF Include, Reorg, Tick, ProviderInv, ProviderType, chain, TopUpAbsent
<1>3. PICK new : new = record
  OBVIOUS
<1>4. RecordInv(new) /\ Follows(record, new) /\ record' = new
  BY <1>1, <1>3, FollowsSelf, Zenon DEF ProviderInv
<1>5. released' \in BOOLEAN /\ (released' => ReleasesExposure(new))
  BY <1>1, <1>3, Zenon DEF ProviderInv
<1> QED
  BY <1>1, <1>2, <1>3, <1>4, <1>5, IdleKeeps

\* The invariant holds when the journal is empty.
LEMMA ProviderInit == Init => ProviderInv
<1> SUFFICES ASSUME Init PROVE ProviderInv
  OBVIOUS
<1>1. /\ terms \in Terms /\ serving \subseteq Servers /\ record = NoRecord /\ released = FALSE
      /\ pc = [p \in Servers |-> "idle"] /\ mine = [p \in Servers |-> NoRecord]
      /\ answer = [p \in Servers |-> NoAnswer]
      /\ topup = "none" /\ transaction = "none" /\ paid = {} /\ written = FALSE /\ clock = 0
  BY ProviderAssumption DEF Init
<1>2. NoRecord \in Records
  BY NothingYet, InvFields, Zenon
<1>3. ProviderType
  BY <1>1, <1>2, NothingYet DEF ProviderType, Labels
<1>4. ChainFits
  BY <1>1, NothingYet DEF ChainFits
<1>5. ASSUME NEW p \in Servers PROVE RecordInv(mine[p]) /\ Follows(mine[p], record) /\ CallFits(p)
  <2>1. pc[p] = "idle" /\ mine[p] = NoRecord /\ answer[p] = NoAnswer
    BY <1>1
  <2> QED
    BY <1>1, <2>1, NothingYet, Zenon DEF CallFits
<1> QED
  BY <1>1, <1>3, <1>4, <1>5, NothingYet, Zenon DEF ProviderInv

\* Every step keeps the invariant.
LEMMA ProviderStep == ProviderInv /\ [Next]_vars => ProviderInv'
<1> SUFFICES ASSUME ProviderInv, [Next]_vars PROVE ProviderInv'
  OBVIOUS
<1>1. ASSUME NEW p \in serving, UNCHANGED <<terms, serving>>,
             Admit(p) \/ SubmitAgain(p) \/ Resolve(p) \/ Step(p) \/ Crash(p)
      PROVE  ProviderInv'
  <2>0. p \in Servers
    BY DEF ProviderInv, ProviderType
  <2>1. CASE Admit(p)
    BY <1>1, <2>0, <2>1, AdmitKeeps, Zenon
  <2>2. CASE SubmitAgain(p)
    BY <1>1, <2>0, <2>2, SubmitAgainKeeps, Zenon
  <2>3. CASE Resolve(p)
    BY <1>1, <2>0, <2>3, ResolveKeeps, Zenon
  <2>4. CASE Crash(p)
    BY <1>1, <2>0, <2>4, ReturnKeeps, Zenon DEF Crash
  <2>5. CASE SubmitSponsorship(p)
    BY <1>1, <2>0, <2>5, SubmitSponsorshipKeeps, Zenon
  <2>6. CASE EnsureFinalized(p)
    BY <1>1, <2>0, <2>6, EnsureKeeps, Zenon
  <2>7. CASE ResolveFinalized(p)
    BY <1>1, <2>0, <2>7, ResolveFinalizedKeeps, Zenon
  <2>8. CASE ApplyResolution(p)
    BY <1>1, <2>0, <2>8, ApplyKeeps, Zenon
  <2>9. CASE \/ SubmitObserved(p) \/ SubmitTerminal(p) \/ SubmitReady(p) \/ SubmitSubmitted(p)
             \/ SubmitAccepted(p) \/ ResolveRejected(p)
    BY <1>1, <2>0, <2>9, SubmitKeeps, Zenon
  <2>10. CASE SubmitExact(p)
    BY <1>1, <2>0, <2>10, SubmitExactKeeps, Zenon
  <2>11. CASE QueryChain(p)
    BY <1>1, <2>0, <2>11, QueryChainKeeps, Zenon
  <2>12. CASE ResolveAbsent(p)
    BY <1>1, <2>0, <2>12, ResolveAbsentKeeps, Zenon
  <2>13. CASE ResolveSuccess(p)
    BY <1>1, <2>0, <2>13, ResolveSuccessKeeps, Zenon
  <2>14. CASE ResolveTentative(p)
    BY <1>1, <2>0, <2>14, ResolveTentativeKeeps, Zenon
  <2>15. CASE ResolveRebroadcast(p)
    BY <1>1, <2>0, <2>15, RebroadcastKeeps, Zenon
  <2> QED
    BY <1>1, <2>1, <2>2, <2>3, <2>4, <2>5, <2>6, <2>7, <2>8, <2>9, <2>10, <2>11, <2>12,
       <2>13, <2>14, <2>15, Zenon DEF Step
<1>2. CASE Settle /\ UNCHANGED <<terms, serving>>
  BY <1>2, SettleKeeps, Zenon
<1>3. CASE (Include \/ Reorg \/ Tick) /\ UNCHANGED <<terms, serving>>
  BY <1>3, ChainKeeps, Zenon
<1>4. CASE UNCHANGED vars
  <2>1. PICK new : new = record
    OBVIOUS
  <2>2. /\ UNCHANGED <<terms, serving, record, released, local, topup, transaction, paid,
                       written, clock>>
    BY <1>4 DEF vars, moving, chain
  <2>3. RecordInv(new) /\ Follows(record, new) /\ record' = new
    BY <2>1, <2>2, FollowsSelf, Zenon DEF ProviderInv
  <2>4. /\ clock' \in Nat /\ topup' \in {"none", "sent", "seen", "final"} /\ topup' = topup
        /\ transaction' \in {"none", "sent", "seen", "final"}
        /\ TopUpAbsent => TopUpAbsent'
    BY <2>2 DEF ProviderInv, ProviderType, TopUpAbsent
  <2>5. released' \in BOOLEAN /\ (released' => ReleasesExposure(new))
    BY <2>1, <2>2, Zenon DEF ProviderInv
  <2> QED
    BY <2>1, <2>2, <2>3, <2>4, <2>5, IdleKeeps
<1> QED
  BY <1>1, <1>2, <1>3, <1>4, Zenon DEF Next

------------------------------------------------------------------------------
(* What the invariant gives. *)

\* While a released record is not settled nothing was paid, or the payment is
\* proven absent.
LEMMA ReleasedIsAbsent ==
  ASSUME NEW r, RecordInv(r), ReleasesExposure(r), ~r.settled, r.handle # None
  PROVE  r.sponsorshipAbsent
<1>1. r.state \in Closed /\ ~r.transfer
  BY DEF ReleasesExposure
<1>2. ValidSponsorshipSnapshot(r)
  BY <1>1 DEF RecordInv, Closed
<1>3. r.attempted => r.sponsorshipAbsent
  BY <1>1, <1>2, Zenon DEF ValidSponsorshipSnapshot, Closed, Open
<1>4. r.transactionAbsent \/ r.promoted => r.sponsorshipAbsent
  BY <1>1, <1>2, Zenon DEF ValidSponsorshipSnapshot, ValidSponsorshipAbsenceRecord,
     ValidRelayAbsenceStateShape, Closed, Open
<1> QED
  BY <1>1, <1>2, <1>3, <1>4, Zenon DEF ValidSponsorshipSnapshot

\* Whatever payments the processor proposes to calls that race, retry or die,
\* Submit tells it to make one; a quote's exposure is released only when no
\* top-up can happen any more or the transfer was settled; and SUBMITTED is
\* persisted before the first network write (service.go, state.go). For every
\* quote, number of processes, set of payments, deadline and bound.
THEOREM EffectsAreAccounted == Spec => []EffectsAccounted
<1>1. ProviderInv => EffectsAccounted
  <2> SUFFICES ASSUME ProviderInv PROVE EffectsAccounted
    OBVIOUS
  <2>1. OneTopUp
    <3>1. paid \subseteq {record.handle}
      BY Zenon DEF ProviderInv, ChainFits
    <3> QED
      BY <3>1, Zenon DEF OneTopUp
  <2>2. ExposureCovered
    BY ReleasedIsAbsent, Zenon DEF ProviderInv, ChainFits, ExposureCovered, TopUpAbsent
  <2>3. SubmittedBeforeWrite
    BY Zenon DEF ProviderInv, MayBeOut, SubmittedBeforeWrite
  <2> QED
    BY <2>1, <2>2, <2>3 DEF EffectsAccounted
<1> QED
  BY <1>1, ProviderInit, ProviderStep, PTL DEF Spec

\* RestoreRecord accepts every record the journal stores, whatever call wrote
\* it and whatever process died after it, except the two kinds Restorable
\* names (state.go, service.go).
THEOREM EveryRecordRestorable == Spec => []Restorable
<1>1. ProviderInv => Restorable
  <2> SUFFICES ASSUME ProviderInv, record.state # "none" PROVE Restorable
    BY DEF Restorable
  <2>1. /\ record \in Records /\ ValidSponsorshipSnapshot(record)
        /\ record.settled => record.state = "terminal" /\ record.transfer
        /\ OutcomeFits(record) /\ StateFits(record)
    BY Zenon DEF ProviderInv, RecordInv
  <2>2. SponsorClass \in Classes
    BY Zenon DEF ProviderInv, ProviderType, Terms, SponsorClass
  <2>3. \/ ValidOutcomeSnapshot(record)
        \/ /\ record.outcome = Outcome("sponsorship_only", "corroborated")
           /\ SponsorClass = "validator" /\ RelayClass = "corroborated"
    BY <2>1, <2>2 DEF OutcomeFits, ValidOutcomeSnapshot, Classes
  <2> QED
    BY <2>1, <2>3, Zenon DEF Restorable, RestoreRecordAccepts, StateFits
<1> QED
  BY <1>1, ProviderInit, ProviderStep, PTL DEF Spec

=============================================================================
