------------------------ MODULE RelayAdmissionProofs ------------------------
(***************************************************************************)
(* ExposureBounded for every set of servers, requests, actions and agents, *)
(* every policy, and every delay of a call.                                *)
(***************************************************************************)
EXTENDS RelayAdmission, SequenceTheorems, SumTheorems

QuoteCalls == [op : {"quote"}, now : Nat, quote : SignedQuotes]
AdmitCalls == [op : {"admit"}, now : Nat, quote : SignedQuotes, action : Actions]

TypeOK ==
  /\ reservations \in [Requests -> QuoteReservations \cup {None}]
  /\ records \in [Actions -> AdmittedRecords \cup {None}]
  /\ quoteAdmissions \in [Buckets -> Seq(Nat)]
  /\ calls \in [Servers -> QuoteCalls \cup AdmitCalls \cup {NoCall}]
  /\ signed \subseteq SignedQuotes
  /\ commits \in Seq([at : Nat, of : Agents])
  /\ clock \in Nat

\* A call is late by no more than MaxDelay.
CallsAreCurrent ==
  /\ 0 < clock
  /\ \A p \in Servers : calls[p] # NoCall =>
       0 < calls[p].now /\ calls[p].now <= clock /\ clock <= calls[p].now + MaxDelay

CallInv == TypeOK /\ CallsAreCurrent

-----------------------------------------------------------------------------
(* What is left of a queue of times. *)

\* Min of a set of numbers belongs to the set, and is below the others.
LEMMA MinInSet ==
  ASSUME NEW S \in SUBSET Nat, S # {}
  PROVE  Min(S) \in S /\ \A j \in S : Min(S) <= j
<1> DEFINE R == OpToRel(<, Nat)
<1>1. PICK x \in S : \A y \in S : ~(<<y, x>> \in R)
  <2>1. IsWellFoundedOn(R, Nat)
    BY NatLessThanWellFounded
  <2> HIDE DEF R
  <2> QED
    BY <2>1, WFMin, Zenon
<1>2. \A y \in S : ~(y < x)
  BY <1>1, Zenon DEF OpToRel
<1>3. \A y \in S : x <= y
  BY <1>2
<1> QED
  BY <1>3, Zenon DEF Min

\* Pruning drops times from the front, and only those the cutoff has reached.
LEMMA Pruned ==
  ASSUME NEW s \in Seq(Nat), NEW cut \in Nat
  PROVE  /\ PruneRelayAdmissionTimes(s, cut) \in Seq(Nat)
         /\ \E d \in 0 .. Len(s) :
              /\ Len(PruneRelayAdmissionTimes(s, cut)) = Len(s) - d
              /\ \A i \in 1 .. Len(s) - d : PruneRelayAdmissionTimes(s, cut)[i] = s[i + d]
              /\ \A i \in 1 .. d : s[i] <= cut
<1> DEFINE late == {i \in DOMAIN s : s[i] > cut}
<1>0. Len(s) \in Nat /\ DOMAIN s = 1 .. Len(s) /\ \A i \in 1 .. Len(s) : s[i] \in Nat
  OBVIOUS
<1>1. CASE late = {}
  <2>1. PruneRelayAdmissionTimes(s, cut) = << >>
    BY <1>1 DEF PruneRelayAdmissionTimes
  <2>2. \A i \in 1 .. Len(s) : s[i] <= cut
    BY <1>0, <1>1
  <2> DEFINE d == Len(s)
  <2>3. /\ d \in 0 .. Len(s) /\ Len(<< >>) = Len(s) - d
        /\ \A i \in 1 .. Len(s) - d : << >>[i] = s[i + d]
        /\ \A i \in 1 .. d : s[i] <= cut
    BY <1>0, <2>2
  <2> HIDE DEF d
  <2> QED
    BY <2>1, <2>3
<1>2. CASE late # {}
  <2>1. PruneRelayAdmissionTimes(s, cut) = SubSeq(s, Min(late), Len(s))
    BY <1>2, Zenon DEF PruneRelayAdmissionTimes
  <2>2. late \in SUBSET Nat /\ late \subseteq 1 .. Len(s)
    BY <1>0
  <2>3. Min(late) \in late /\ \A j \in late : Min(late) <= j
    <3> HIDE DEF late
    <3> QED
      BY <1>2, <2>2, MinInSet
  <2>4. PICK m \in 1 .. Len(s) : m = Min(late)
    BY <2>2, <2>3, Zenon
  <2>5. \A i \in 1 .. m - 1 : s[i] <= cut
    <3> SUFFICES ASSUME NEW i \in 1 .. m - 1 PROVE s[i] <= cut
      OBVIOUS
    <3>1. i \in 1 .. Len(s) /\ ~(m <= i)
      BY <1>0, <2>4
    <3>2. i \notin late
      BY <2>3, <2>4, <3>1, Zenon
    <3>3. ~(s[i] > cut) /\ s[i] \in Nat
      BY <1>0, <3>1, <3>2, Zenon
    <3> QED
      BY <3>3
  <2> HIDE DEF late
  <2>6. /\ SubSeq(s, m, Len(s)) \in Seq(Nat) /\ Len(SubSeq(s, m, Len(s))) = Len(s) - (m - 1)
        /\ \A i \in 1 .. Len(s) - (m - 1) : SubSeq(s, m, Len(s))[i] = s[i + (m - 1)]
    <3>1. m \in Int /\ Len(s) \in Int /\ \A i \in m .. Len(s) : s[i] \in Nat
      BY <1>0
    <3>2. /\ SubSeq(s, m, Len(s)) \in Seq(Nat)
          /\ Len(SubSeq(s, m, Len(s))) = IF m <= Len(s) THEN Len(s) - m + 1 ELSE 0
          /\ \A i \in 1 .. Len(s) - m + 1 : SubSeq(s, m, Len(s))[i] = s[m + i - 1]
      BY <3>1, SubSeqProperties
    <3>3. Len(s) - m + 1 = Len(s) - (m - 1) /\ \A i \in Nat : m + i - 1 = i + (m - 1)
      BY <1>0
    <3>4. \A i \in 1 .. Len(s) - (m - 1) : SubSeq(s, m, Len(s))[i] = s[i + (m - 1)]
      BY <1>0, <3>2, <3>3
    <3> QED
      BY <1>0, <3>2, <3>4
  <2> DEFINE d == m - 1
  <2>7. /\ d \in 0 .. Len(s)
        /\ Len(PruneRelayAdmissionTimes(s, cut)) = Len(s) - d
        /\ \A i \in 1 .. Len(s) - d : PruneRelayAdmissionTimes(s, cut)[i] = s[i + d]
        /\ \A i \in 1 .. d : s[i] <= cut
    <3>1. d \in 0 .. Len(s)
      BY <1>0, <2>4
    <3>2. PruneRelayAdmissionTimes(s, cut) = SubSeq(s, m, Len(s))
      BY <2>1, <2>4, Zenon
    <3> QED
      BY <2>5, <2>6, <3>1, <3>2, Zenon
  <2> HIDE DEF d
  <2> QED
    BY <2>1, <2>4, <2>6, <2>7, Zenon
<1> QED
  BY <1>1, <1>2

-----------------------------------------------------------------------------
(* What a step does to the journal. *)

Cutoff(now) ==
  IF now > QuoteRequestWindowSeconds THEN now - QuoteRequestWindowSeconds ELSE 0
KeptTimes(b, now) == PruneRelayAdmissionTimes(quoteAdmissions[b], Cutoff(now))
BucketsOf(q) == {"global", Requester[q]}

\* The reservations of r that are neither consumed nor needed may be dropped.
Dropped(old, new) ==
  /\ new \in [Requests -> QuoteReservations \cup {None}]
  /\ \A r \in Requests : new[r] = old[r] \/ (new[r] = None /\ old[r] # None /\ ~old[r].consumed)

Prunes(q, now) ==
  quoteAdmissions' = [b \in Buckets |-> IF b \in BucketsOf(q) THEN KeptTimes(b, now)
                                        ELSE quoteAdmissions[b]]

\* A call dated now makes a reservation for q.
Reserves(q, now) ==
  LET held == ReleaseExpiredUnconsumed(now) IN
  /\ held[q] = None /\ (Amount[q] = 0 \/ CanReserveExposure(held, q))
  /\ Len(KeptTimes("global", now)) < MaximumQuoteRequestsPerWindow
  /\ Len(KeptTimes(Requester[q], now)) < MaximumQuoteRequestsPerRequesterWindow
  /\ \E new \in QuoteReservations :
       ~new.consumed /\ ~new.released /\ reservations' = [held EXCEPT ![q] = new]
  /\ quoteAdmissions' = [b \in Buckets |->
       IF b \in BucketsOf(q) THEN Append(KeptTimes(b, now), now) ELSE quoteAdmissions[b]]
  /\ commits' = Append(commits, [at |-> clock, of |-> Requester[q]])

\* The admission of a for the reserved quote of q.
Admits(q, quote, a) ==
  /\ records[a] = None /\ reservations[q] # None /\ ~reservations[q].consumed
  /\ ActiveExecutions(Agents) < MaximumActiveExecutions
  /\ ActiveExecutions({Requester[q]}) < MaximumActivePerRequester
  /\ records' = [records EXCEPT ![a] =
       [quote |-> quote, open |-> TRUE, transfer |-> FALSE, settled |-> FALSE]]
  /\ reservations' = [reservations EXCEPT ![q] =
       [quote |-> quote, consumed |-> TRUE, released |-> FALSE, action |-> a]]

\* Record a advances to m, and its reservation is released when it may be.
Advances(a, m) ==
  /\ records[a] # None /\ m \in AdmittedRecords /\ m.quote = records[a].quote
  /\ AtRisk(a) /\ ~m.open
  /\ records' = [records EXCEPT ![a] = m]
  /\ ReleaseRecordExposure(a, m)

\* The journal's lock orders these; a step is one of them.
Drops == /\ Dropped(reservations, reservations')
         /\ UNCHANGED <<records, quoteAdmissions, commits>>
Dated(now) == now \in Nat /\ 0 < now /\ now <= clock /\ clock <= now + MaxDelay
Refuses(q, now) ==
  /\ Dropped(reservations, reservations') /\ Prunes(q, now) /\ UNCHANGED <<records, commits>>

Waiting == UNCHANGED <<reservations, records, quoteAdmissions, commits>> /\ clock' \in Nat /\ clock' >= clock
Dropping == Drops /\ UNCHANGED clock
Refusing == /\ \E q \in Requests, now \in Nat : Dated(now) /\ Refuses(q, now)
            /\ UNCHANGED clock
Reserving == /\ \E q \in Requests, now \in Nat : Dated(now) /\ Reserves(q, now)
             /\ UNCHANGED <<records, clock>>
Admitting == /\ \E q \in Requests, quote \in SignedQuotes, a \in Actions :
                  quote.request = q /\ Admits(q, quote, a)
             /\ UNCHANGED <<quoteAdmissions, commits, clock>>
Advancing == /\ \E a \in Actions : \E m : Advances(a, m)
             /\ UNCHANGED <<quoteAdmissions, commits, clock>>

\* Dropping the expired reservations leaves a typed map.
LEMMA HeldType ==
  ASSUME TypeOK, NEW now
  PROVE  /\ ReleaseExpiredUnconsumed(now) \in [Requests -> QuoteReservations \cup {None}]
         /\ Dropped(reservations, ReleaseExpiredUnconsumed(now))
BY Zenon DEF TypeOK, ReleaseExpiredUnconsumed, Dropped

\* A pruned queue is a sequence of times.
LEMMA KeptType ==
  ASSUME TypeOK, NEW b \in Buckets, NEW now \in Nat
  PROVE  KeptTimes(b, now) \in Seq(Nat) /\ Cutoff(now) \in Nat
<1>1. quoteAdmissions[b] \in Seq(Nat) /\ Cutoff(now) \in Nat
  BY AdmissionAssumption DEF TypeOK, Cutoff
<1> QED
  BY <1>1, Pruned DEF KeptTimes

\* What a call carries is typed.
LEMMA CallTypes ==
  ASSUME TypeOK, NEW p \in Servers
  PROVE  /\ calls[p].op = "quote" =>
              /\ calls[p] # NoCall /\ calls[p].now \in Nat /\ calls[p].quote \in SignedQuotes
              /\ calls[p].quote.request \in Requests
         /\ calls[p].op = "admit" =>
              /\ calls[p] # NoCall /\ calls[p].now \in Nat /\ calls[p].quote \in SignedQuotes
              /\ calls[p].quote.request \in Requests /\ calls[p].action \in Actions
<1>1. NoCall.op = "none"
  BY DEF NoCall
<1>2. calls[p] \in QuoteCalls \cup AdmitCalls \cup {NoCall}
  BY DEF TypeOK
<1>3. CASE calls[p] \in QuoteCalls
  BY <1>1, <1>3 DEF QuoteCalls, SignedQuotes
<1>4. CASE calls[p] \in AdmitCalls
  BY <1>1, <1>4 DEF AdmitCalls, SignedQuotes
<1>5. CASE calls[p] = NoCall
  BY <1>1, <1>5
<1> QED
  BY <1>2, <1>3, <1>4, <1>5

\* ReserveQuote drops reservations, refuses after pruning, or reserves.
LEMMA ReserveEffects ==
  ASSUME CallInv, NEW p \in Servers, ReserveQuote(p)
  PROVE  /\ Drops \/ \E q \in Requests, now \in Nat :
                       Dated(now) /\ (Refuses(q, now) \/ (Reserves(q, now) /\ UNCHANGED records))
         /\ Return(p) /\ UNCHANGED clock /\ signed' \subseteq SignedQuotes
<1> DEFINE call == calls[p]
           q == call.quote.request
           now == call.now
           held == ReleaseExpiredUnconsumed(now)
           new == [quote |-> call.quote, consumed |-> FALSE, released |-> FALSE, action |-> None]
<1>1. call.op = "quote" /\ Return(p) /\ UNCHANGED <<records, clock>>
  BY Zenon DEF ReserveQuote
<1>2. q \in Requests /\ call.quote \in SignedQuotes /\ now \in Nat /\ Dated(now)
  BY <1>1, CallTypes DEF CallInv, CallsAreCurrent, Dated
<1>3. /\ held \in [Requests -> QuoteReservations \cup {None}] /\ Dropped(reservations, held)
  BY HeldType, Zenon DEF CallInv
<1>4. \/ /\ held[q] # None /\ reservations' = held
         /\ signed' = IF held[q].quote.expires > call.now
                      THEN signed \cup {held[q].quote} ELSE signed
         /\ UNCHANGED <<quoteAdmissions, commits>>
      \/ reservations' = held /\ UNCHANGED <<quoteAdmissions, signed, commits>>
      \/ /\ held[q] = None /\ (~(Amount[q] > 0) \/ CanReserveExposure(held, q))
         /\ IF \/ Len(KeptTimes("global", now)) >= MaximumQuoteRequestsPerWindow
               \/ Len(KeptTimes(Requester[q], now)) >= MaximumQuoteRequestsPerRequesterWindow
            THEN reservations' = held /\ Prunes(q, now) /\ UNCHANGED <<signed, commits>>
            ELSE /\ reservations' = [held EXCEPT ![q] = new]
                 /\ quoteAdmissions' = [b \in Buckets |->
                      IF b \in BucketsOf(q) THEN Append(KeptTimes(b, now), now) ELSE quoteAdmissions[b]]
                 /\ signed' = signed \cup {call.quote}
                 /\ commits' = Append(commits, [at |-> clock, of |-> Requester[q]])
  BY Zenon DEF ReserveQuote, KeptTimes, Cutoff, Prunes, BucketsOf
<1>5. ASSUME held[q] # None PROVE held[q].quote \in SignedQuotes
  BY <1>2, <1>3, <1>5, Zenon DEF QuoteReservations
<1>6. signed' \subseteq SignedQuotes
  BY <1>2, <1>4, <1>5, Zenon DEF CallInv, TypeOK
<1>7. /\ Len(KeptTimes("global", now)) \in Nat /\ Len(KeptTimes(Requester[q], now)) \in Nat
      /\ MaximumQuoteRequestsPerWindow \in Nat /\ MaximumQuoteRequestsPerRequesterWindow \in Nat
      /\ Amount[q] \in Nat
  <2>1. "global" \in Buckets /\ Requester[q] \in Buckets
    BY <1>2, AdmissionAssumption DEF Buckets
  <2>2. KeptTimes("global", now) \in Seq(Nat) /\ KeptTimes(Requester[q], now) \in Seq(Nat)
    BY <1>2, <2>1, KeptType, Zenon DEF CallInv
  <2> HIDE DEF q, now
  <2>3. Len(KeptTimes("global", now)) \in Nat /\ Len(KeptTimes(Requester[q], now)) \in Nat
    BY <2>2
  <2>4. /\ MaximumQuoteRequestsPerWindow \in Nat /\ MaximumQuoteRequestsPerRequesterWindow \in Nat
        /\ Amount[q] \in Nat
    BY <1>2, AdmissionAssumption, Zenon
  <2> QED
    BY <2>3, <2>4, Zenon
<1>8. new \in QuoteReservations /\ ~new.consumed /\ ~new.released
  BY <1>2 DEF QuoteReservations
<1> HIDE DEF held, new, q, now, call
<1>9. CASE reservations' = held /\ UNCHANGED <<quoteAdmissions, commits>>
  BY <1>1, <1>3, <1>6, <1>9 DEF Drops
<1>10. CASE reservations' = held /\ Prunes(q, now) /\ UNCHANGED <<signed, commits>>
  BY <1>1, <1>2, <1>3, <1>6, <1>10 DEF Refuses
<1>11. CASE /\ held[q] = None /\ (~(Amount[q] > 0) \/ CanReserveExposure(held, q))
            /\ ~(Len(KeptTimes("global", now)) >= MaximumQuoteRequestsPerWindow)
            /\ ~(Len(KeptTimes(Requester[q], now)) >= MaximumQuoteRequestsPerRequesterWindow)
            /\ reservations' = [held EXCEPT ![q] = new]
            /\ quoteAdmissions' = [b \in Buckets |->
                 IF b \in BucketsOf(q) THEN Append(KeptTimes(b, now), now) ELSE quoteAdmissions[b]]
            /\ commits' = Append(commits, [at |-> clock, of |-> Requester[q]])
  <2>1. /\ Amount[q] = 0 \/ CanReserveExposure(held, q)
        /\ Len(KeptTimes("global", now)) < MaximumQuoteRequestsPerWindow
        /\ Len(KeptTimes(Requester[q], now)) < MaximumQuoteRequestsPerRequesterWindow
    BY <1>7, <1>11
  <2>2. Reserves(q, now)
    BY <1>8, <1>11, <2>1, ZenonT(30) DEF Reserves, held
  <2> QED
    BY <1>1, <1>2, <1>6, <2>2, Zenon
<1> QED
  BY <1>4, <1>9, <1>10, <1>11, Zenon

\* Admit drops a reservation or admits the action.
LEMMA AdmitEffects ==
  ASSUME CallInv, NEW p \in Servers, Admit(p)
  PROVE  /\ \/ Drops
            \/ /\ \E q \in Requests, quote \in SignedQuotes, a \in Actions :
                    quote.request = q /\ Admits(q, quote, a)
               /\ UNCHANGED <<quoteAdmissions, commits>>
         /\ Return(p) /\ UNCHANGED <<clock, signed>>
<1> DEFINE call == calls[p]
           q == call.quote.request
           reservation == reservations[q]
<1>1. call.op = "admit" /\ Return(p) /\ UNCHANGED <<quoteAdmissions, commits, clock, signed>>
  BY DEF Admit
<1>2. q \in Requests /\ call.quote \in SignedQuotes /\ call.action \in Actions
  BY <1>1, CallTypes DEF CallInv
<1>3. \/ /\ reservation # None /\ UNCHANGED records
         /\ reservations' = [reservations EXCEPT ![q] = IF reservation.consumed THEN reservation ELSE None]
      \/ UNCHANGED <<reservations, records>>
      \/ /\ records[call.action] = None /\ reservation # None /\ ~reservation.consumed
         /\ ~(ActiveExecutions(Agents) >= MaximumActiveExecutions)
         /\ ~(ActiveExecutions({Requester[q]}) >= MaximumActivePerRequester)
         /\ records' = [records EXCEPT ![call.action] =
               [quote |-> call.quote, open |-> TRUE, transfer |-> FALSE, settled |-> FALSE]]
         /\ reservations' = [reservations EXCEPT ![q] =
               [quote |-> call.quote, consumed |-> TRUE, released |-> FALSE, action |-> call.action]]
  BY Zenon DEF Admit
<1>4. CASE /\ reservation # None /\ UNCHANGED records
           /\ reservations' = [reservations EXCEPT ![q] = IF reservation.consumed THEN reservation ELSE None]
  <2>1. Dropped(reservations, reservations')
    BY <1>4, Zenon DEF CallInv, TypeOK, Dropped
  <2> QED
    BY <1>1, <1>4, <2>1 DEF Drops
<1>5. CASE UNCHANGED <<reservations, records>>
  <2>1. reservations' \in [Requests -> QuoteReservations \cup {None}]
    BY <1>5 DEF CallInv, TypeOK
  <2> QED
    BY <1>1, <1>5, <2>1, Zenon DEF Drops, Dropped
<1>6. CASE /\ records[call.action] = None /\ reservation # None /\ ~reservation.consumed
           /\ ~(ActiveExecutions(Agents) >= MaximumActiveExecutions)
           /\ ~(ActiveExecutions({Requester[q]}) >= MaximumActivePerRequester)
           /\ records' = [records EXCEPT ![call.action] =
               [quote |-> call.quote, open |-> TRUE, transfer |-> FALSE, settled |-> FALSE]]
           /\ reservations' = [reservations EXCEPT ![q] =
               [quote |-> call.quote, consumed |-> TRUE, released |-> FALSE, action |-> call.action]]
  <2>1. \A agents : ActiveExecutions(agents) \in Nat
    <3> SUFFICES ASSUME NEW agents PROVE ActiveExecutions(agents) \in Nat
      OBVIOUS
    <3> DEFINE active == {a \in Actions : /\ records[a] # None /\ records[a].open
                                           /\ Requester[records[a].quote.request] \in agents}
    <3>1. active \subseteq Actions
      OBVIOUS
    <3>2. IsFiniteSet(active)
      <4> HIDE DEF active
      <4> QED
        BY <3>1, FS_Subset, AdmissionAssumption
    <3>3. Cardinality(active) \in Nat
      <4> HIDE DEF active
      <4> QED
        BY <3>2, FS_CardinalityType, Zenon
    <3> QED
      BY <3>3 DEF ActiveExecutions
  <2>2. /\ ActiveExecutions(Agents) < MaximumActiveExecutions
        /\ ActiveExecutions({Requester[q]}) < MaximumActivePerRequester
    BY <1>6, <2>1, AdmissionAssumption
  <2>3. Admits(q, call.quote, call.action)
    BY <1>6, <2>2, Zenon DEF Admits
  <2> QED
    BY <1>1, <1>2, <2>3, Zenon
<1> QED
  BY <1>1, <1>3, <1>4, <1>5, <1>6, Zenon

\* Close and the settlement of a transfer advance a record at risk.
LEMMA AdvanceEffects ==
  ASSUME TypeOK, NEW a \in Actions,
         (\E transfer \in BOOLEAN : Close(a, transfer)) \/ ReleaseSponsorshipExposure(a)
  PROVE  Advancing /\ UNCHANGED <<calls, signed>>
<1>1. records[a] # None /\ UNCHANGED <<quoteAdmissions, calls, signed, commits, clock>>
  BY DEF Close, ReleaseSponsorshipExposure
<1>2. records[a] \in AdmittedRecords
  BY <1>1 DEF TypeOK
<1>3. ASSUME NEW transfer \in BOOLEAN, Close(a, transfer)
      PROVE  \E m : Advances(a, m)
  <2> DEFINE m == [records[a] EXCEPT !.open = FALSE, !.transfer = transfer]
  <2>1. records' = [records EXCEPT ![a] = m] /\ records'[a] = m
    BY <1>3, Zenon DEF Close, TypeOK
  <2>2. m \in AdmittedRecords /\ m.quote = records[a].quote /\ m.open = FALSE
    BY <1>2, Zenon DEF AdmittedRecords
  <2>3. AtRisk(a) /\ ReleaseRecordExposure(a, records'[a])
    BY <1>3 DEF AtRisk, Close
  <2> HIDE DEF m
  <2> QED
    BY <1>1, <2>1, <2>2, <2>3, ZenonT(30) DEF Advances
<1>4. ASSUME ReleaseSponsorshipExposure(a)
      PROVE  \E m : Advances(a, m)
  <2> DEFINE m == [records[a] EXCEPT !.settled = TRUE]
  <2>1. records' = [records EXCEPT ![a] = m] /\ records'[a] = m
    BY <1>4 DEF ReleaseSponsorshipExposure, TypeOK
  <2>2. m \in AdmittedRecords /\ m.quote = records[a].quote /\ m.open = records[a].open
    BY <1>2, Zenon DEF AdmittedRecords
  <2>3. AtRisk(a) /\ ~records[a].open /\ ReleaseRecordExposure(a, records'[a])
    BY <1>4 DEF AtRisk, ReleaseSponsorshipExposure
  <2> HIDE DEF m
  <2> QED
    BY <1>1, <2>1, <2>2, <2>3, Zenon DEF Advances
<1> QED
  BY <1>1, <1>3, <1>4, Zenon DEF Advancing

\* Every step is one of these, and keeps calls and their times well formed.
LEMMA Steps ==
  ASSUME CallInv, [Next]_vars
  PROVE  /\ Waiting \/ Dropping \/ Refusing \/ Reserving \/ Admitting \/ Advancing
         /\ calls' \in [Servers -> QuoteCalls \cup AdmitCalls \cup {NoCall}]
         /\ signed' \subseteq SignedQuotes
         /\ CallsAreCurrent' /\ clock' \in Nat
<1>0. TypeOK /\ CallsAreCurrent /\ clock \in Nat
  BY DEF CallInv, TypeOK
<1>1. ASSUME NEW p \in Servers, Return(p), clock' = clock
      PROVE  /\ calls' \in [Servers -> QuoteCalls \cup AdmitCalls \cup {NoCall}]
             /\ CallsAreCurrent'
  <2>1. calls' \in [Servers -> QuoteCalls \cup AdmitCalls \cup {NoCall}]
    BY <1>0, <1>1, Zenon DEF Return, TypeOK
  <2>2. \A x \in Servers : calls'[x] # NoCall => calls'[x] = calls[x]
    BY <1>0, <1>1, Zenon DEF Return, TypeOK
  <2> QED
    BY <1>0, <1>1, <2>1, <2>2, Zenon DEF CallsAreCurrent
<1>2. ASSUME NEW p \in Servers, NEW call, call \in QuoteCalls \cup AdmitCalls, call.now = clock,
             calls' = [calls EXCEPT ![p] = call], clock' = clock, 0 < clock
      PROVE  /\ calls' \in [Servers -> QuoteCalls \cup AdmitCalls \cup {NoCall}]
             /\ CallsAreCurrent'
  <2>1. calls' \in [Servers -> QuoteCalls \cup AdmitCalls \cup {NoCall}]
    BY <1>0, <1>2, Zenon DEF TypeOK
  <2>2. calls'[p] = call /\ \A x \in Servers : x # p => calls'[x] = calls[x]
    BY <1>0, <1>2, Zenon DEF TypeOK
  <2>3. clock <= clock /\ clock <= clock + MaxDelay
    BY <1>0, AdmissionAssumption
  <2> QED
    BY <1>0, <1>2, <2>1, <2>2, <2>3, Zenon DEF CallsAreCurrent
<1>3. ASSUME NEW p \in Servers, NEW r \in Requests, Quote(p, r)
      PROVE  /\ Waiting /\ calls' \in [Servers -> QuoteCalls \cup AdmitCalls \cup {NoCall}]
             /\ CallsAreCurrent' /\ UNCHANGED <<clock, signed>>
  <2> DEFINE call == [op |-> "quote", now |-> clock,
                      quote |-> [request |-> r, expires |-> clock + QuoteLife]]
  <2>1. /\ calls' = [calls EXCEPT ![p] = call]
        /\ UNCHANGED <<reservations, records, quoteAdmissions, signed, commits, clock>>
    BY <1>3 DEF Quote
  <2>2. clock + QuoteLife \in Nat
    BY <1>0, AdmissionAssumption
  <2>3. call \in QuoteCalls /\ call.now = clock
    BY <1>0, <2>2 DEF QuoteCalls, SignedQuotes
  <2> HIDE DEF call
  <2>4. /\ calls' \in [Servers -> QuoteCalls \cup AdmitCalls \cup {NoCall}]
        /\ CallsAreCurrent'
    BY <1>0, <1>2, <2>1, <2>3, Zenon DEF CallsAreCurrent
  <2> QED
    BY <1>0, <2>1, <2>4 DEF Waiting
<1>4. ASSUME NEW p \in Servers, NEW q \in signed, NEW a \in Actions, Submit(p, q, a)
      PROVE  /\ Waiting /\ calls' \in [Servers -> QuoteCalls \cup AdmitCalls \cup {NoCall}]
             /\ CallsAreCurrent' /\ UNCHANGED <<clock, signed>>
  <2> DEFINE call == [op |-> "admit", quote |-> q, action |-> a, now |-> clock]
  <2>1. /\ calls' = [calls EXCEPT ![p] = call]
        /\ UNCHANGED <<reservations, records, quoteAdmissions, signed, commits, clock>>
    BY <1>4 DEF Submit
  <2>2. call \in AdmitCalls /\ call.now = clock
    BY <1>0 DEF AdmitCalls, TypeOK
  <2> HIDE DEF call
  <2>3. /\ calls' \in [Servers -> QuoteCalls \cup AdmitCalls \cup {NoCall}]
        /\ CallsAreCurrent'
    BY <1>0, <1>2, <2>1, <2>2, Zenon DEF CallsAreCurrent
  <2> QED
    BY <1>0, <2>1, <2>3 DEF Waiting
<1>5. ASSUME NEW p \in Servers, Fail(p)
      PROVE  Waiting /\ Return(p) /\ UNCHANGED <<clock, signed>>
  BY <1>0, <1>5 DEF Fail, Waiting
<1>6. ASSUME Tick
      PROVE  Waiting /\ CallsAreCurrent' /\ clock' \in Nat /\ UNCHANGED <<calls, signed>>
  <2>1. /\ clock' = clock + 1 /\ \A p \in Servers : calls[p] # NoCall => clock' <= calls[p].now + MaxDelay
        /\ UNCHANGED <<reservations, records, quoteAdmissions, calls, signed, commits>>
    BY <1>6 DEF Tick
  <2>2. \A p \in Servers : calls[p] # NoCall => calls[p].now \in Nat
    <3>1. \A x \in QuoteCalls \cup AdmitCalls : x.now \in Nat
      BY DEF QuoteCalls, AdmitCalls
    <3> QED
      BY <1>0, <3>1, Zenon DEF TypeOK
  <2>3. CallsAreCurrent'
    BY <1>0, <2>1, <2>2 DEF CallsAreCurrent
  <2> QED
    BY <1>0, <2>1, <2>3 DEF Waiting
<1>7. ASSUME UNCHANGED vars
      PROVE  Waiting /\ CallsAreCurrent' /\ UNCHANGED <<calls, signed, clock>>
  BY <1>0, <1>7 DEF vars, Waiting, CallsAreCurrent
<1>8. signed \subseteq SignedQuotes /\ calls \in [Servers -> QuoteCalls \cup AdmitCalls \cup {NoCall}]
  BY <1>0 DEF TypeOK
<1>9. ASSUME NEW p \in Servers, ReserveQuote(p)
      PROVE  /\ Dropping \/ Refusing \/ Reserving
             /\ Return(p) /\ UNCHANGED clock /\ signed' \subseteq SignedQuotes
  BY <1>9, ReserveEffects, Zenon DEF Dropping, Refusing, Reserving
<1>10. ASSUME NEW p \in Servers, Admit(p)
       PROVE  (Dropping \/ Admitting) /\ Return(p) /\ UNCHANGED <<clock, signed>>
  BY <1>10, AdmitEffects, Zenon DEF Dropping, Admitting
<1>11. ASSUME NEW a \in Actions,
              (\E transfer \in BOOLEAN : Close(a, transfer)) \/ ReleaseSponsorshipExposure(a)
       PROVE  Advancing /\ UNCHANGED <<calls, signed, clock>>
  BY <1>0, <1>11, AdvanceEffects, Zenon DEF Advancing
<1>12. ASSUME UNCHANGED <<calls, clock>> PROVE CallsAreCurrent'
  BY <1>0, <1>12, Zenon DEF CallsAreCurrent
<1>13. CASE \E p \in Servers : ReserveQuote(p) \/ Admit(p) \/ Fail(p)
  BY <1>0, <1>1, <1>5, <1>8, <1>9, <1>10, <1>13, Zenon
<1>14. CASE \E p \in Servers : (\E r \in Requests : Quote(p, r)) \/ (\E q \in signed, a \in Actions : Submit(p, q, a))
  BY <1>0, <1>3, <1>4, <1>8, <1>14, Zenon
<1>15. CASE \E a \in Actions : (\E transfer \in BOOLEAN : Close(a, transfer)) \/ ReleaseSponsorshipExposure(a)
  BY <1>0, <1>8, <1>11, <1>12, <1>15, Zenon
<1>16. CASE Tick \/ UNCHANGED vars
  BY <1>0, <1>6, <1>7, <1>8, <1>16, Zenon
<1> QED
  BY <1>13, <1>14, <1>15, <1>16, Zenon DEF Next

-----------------------------------------------------------------------------
(* The value at risk. *)

JournalType ==
  /\ reservations \in [Requests -> QuoteReservations \cup {None}]
  /\ records \in [Actions -> AdmittedRecords \cup {None}]

\* The reservation of an admitted quote stays, consumed by its one action, and
\* is released only when the action is no longer at risk.
Bound ==
  \A a \in Actions : records[a] # None =>
    LET v == reservations[records[a].quote.request] IN
    /\ v # None /\ v.consumed /\ v.action = a /\ v.quote = records[a].quote
    /\ v.released => ~AtRisk(a)

OfferedStay == \A r \in Requests : reservations[r] # None /\ reservations[r].released => reservations[r].consumed

Unreleased(held) == {r \in Requests : held[r] # None /\ ~held[r].released}
Outstanding == SumFunctionOnSet(Amount, Unreleased(reservations)) <= MaximumOutstandingAtomic

OpenActions == {a \in Actions : records[a] # None /\ records[a].open}
OpenOf(agent) == {a \in OpenActions : Requester[records[a].quote.request] = agent}
OpenBounded ==
  /\ Cardinality(OpenActions) <= MaximumActiveExecutions
  /\ \A agent \in Agents : Cardinality(OpenOf(agent)) <= MaximumActivePerRequester

ValueInv == JournalType /\ Bound /\ OfferedStay /\ Outstanding /\ OpenBounded

\* Amounts are integers, and the sums over requests are finite.
LEMMA AmountType == Amount \in [Requests -> Int] /\ IsFiniteSet(Requests) /\ IsFiniteSet(Actions)
BY AdmissionAssumption

\* The sum of what is outstanding is a number, and falls with its set.
LEMMA OutstandingFalls ==
  ASSUME NEW T \in SUBSET Requests, NEW U \in SUBSET T
  PROVE  /\ SumFunctionOnSet(Amount, T) \in Nat /\ SumFunctionOnSet(Amount, U) \in Nat
         /\ SumFunctionOnSet(Amount, U) <= SumFunctionOnSet(Amount, T)
<1>1. Amount \in [Requests -> Nat] /\ IsFiniteSet(Requests) /\ T \in SUBSET T
  BY AdmissionAssumption
<1>2. SumFunctionOnSet(Amount, T) \in Nat
  BY <1>1, SumMonotone, Zenon
<1> QED
  BY <1>1, <1>2, SumMonotone, Zenon

\* No reservation and no record is None.
LEMMA NoneIsNoRecord ==
  /\ \A v \in QuoteReservations : v # None /\ v.quote \in SignedQuotes /\ v.quote.request \in Requests
  /\ \A m \in AdmittedRecords : m # None /\ m.quote \in SignedQuotes /\ m.quote.request \in Requests
BY AdmissionAssumption DEF QuoteReservations, AdmittedRecords, SignedQuotes

\* Dropping a reservation that no action consumed keeps the invariant.
LEMMA ValueDrops ==
  ASSUME ValueInv, Dropped(reservations, reservations'), UNCHANGED records
  PROVE  ValueInv'
<1>1. JournalType'
  BY DEF ValueInv, JournalType, Dropped
<1>2. Bound'
  <2> SUFFICES ASSUME NEW a \in Actions, records[a] # None
               PROVE  LET v == reservations'[records[a].quote.request] IN
                      /\ v # None /\ v.consumed /\ v.action = a /\ v.quote = records[a].quote
                      /\ v.released => ~AtRisk(a)
    BY Zenon DEF Bound, AtRisk
  <2>1. records[a].quote.request \in Requests
    BY NoneIsNoRecord DEF ValueInv, JournalType
  <2>2. reservations'[records[a].quote.request] = reservations[records[a].quote.request]
    BY <2>1, Zenon DEF ValueInv, Bound, Dropped
  <2> QED
    BY <2>2, Zenon DEF ValueInv, Bound
<1>3. OfferedStay'
  BY Zenon DEF ValueInv, OfferedStay, Dropped
<1>4. Outstanding'
  <2>1. Unreleased(reservations') \subseteq Unreleased(reservations) /\ Unreleased(reservations) \subseteq Requests
    BY Zenon DEF Unreleased, Dropped
  <2>2. SumFunctionOnSet(Amount, Unreleased(reservations)) <= MaximumOutstandingAtomic
    BY DEF ValueInv, Outstanding
  <2>3. SumFunctionOnSet(Amount, Unreleased(reservations')) <= MaximumOutstandingAtomic
    BY <2>1, <2>2, OutstandingFalls, AdmissionAssumption
  <2> QED
    BY <2>3 DEF Outstanding
<1>5. OpenBounded'
  BY Zenon DEF ValueInv, OpenBounded, OpenActions, OpenOf
<1> QED
  BY <1>1, <1>2, <1>3, <1>4, <1>5, Zenon DEF ValueInv

\* A reservation is made only when the exposure has room for it.
LEMMA ValueReserves ==
  ASSUME ValueInv, TypeOK, NEW q \in Requests, NEW now, Reserves(q, now), UNCHANGED records
  PROVE  ValueInv'
<1> DEFINE held == ReleaseExpiredUnconsumed(now)
<1>1. held[q] = None /\ (Amount[q] = 0 \/ CanReserveExposure(held, q))
  BY DEF Reserves
<1>2. PICK new \in QuoteReservations :
        ~new.consumed /\ ~new.released /\ reservations' = [held EXCEPT ![q] = new]
  BY Zenon DEF Reserves
<1>3. held \in [Requests -> QuoteReservations \cup {None}] /\ Dropped(reservations, held)
  BY HeldType
<1> HIDE DEF held
<1>4. /\ reservations' \in [Requests -> QuoteReservations \cup {None}]
      /\ reservations'[q] = new /\ \A r \in Requests : r # q => reservations'[r] = held[r]
  BY <1>2, <1>3
<1>5. new # None
  BY NoneIsNoRecord
<1>6. JournalType'
  BY <1>4 DEF ValueInv, JournalType
<1>7. Bound'
  <2> SUFFICES ASSUME NEW a \in Actions, records[a] # None
               PROVE  LET v == reservations'[records[a].quote.request] IN
                      /\ v # None /\ v.consumed /\ v.action = a /\ v.quote = records[a].quote
                      /\ v.released => ~AtRisk(a)
    BY Zenon DEF Bound, AtRisk
  <2>1. records[a].quote.request \in Requests
    BY NoneIsNoRecord DEF ValueInv, JournalType
  <2>2. held[records[a].quote.request] = reservations[records[a].quote.request]
    BY <1>3, <2>1, Zenon DEF ValueInv, Bound, Dropped
  <2>3. records[a].quote.request # q
    BY <1>1, <2>2, Zenon DEF ValueInv, Bound
  <2> QED
    BY <1>4, <2>1, <2>2, <2>3, Zenon DEF ValueInv, Bound
<1>8. OfferedStay'
  BY <1>2, <1>3, <1>4, Zenon DEF ValueInv, OfferedStay, Dropped
<1>9. Outstanding'
  <2>1. /\ Unreleased(reservations') = Unreleased(held) \cup {q} /\ q \in Requests \ Unreleased(held)
        /\ Unreleased(held) \subseteq Unreleased(reservations)
        /\ Unreleased(held) \in SUBSET Requests /\ Unreleased(reservations) \in SUBSET Requests
    <3>1. \A r \in Requests : (reservations'[r] # None /\ ~reservations'[r].released)
                                <=> ((held[r] # None /\ ~held[r].released) \/ r = q)
      BY <1>2, <1>4, <1>5, Zenon
    <3>2. Unreleased(reservations') = Unreleased(held) \cup {q}
      BY <3>1, Zenon DEF Unreleased
    <3>3. q \notin Unreleased(held) /\ Unreleased(held) \subseteq Unreleased(reservations)
      BY <1>1, <1>3, Zenon DEF Unreleased, Dropped
    <3>4. Unreleased(held) \in SUBSET Requests /\ Unreleased(reservations) \in SUBSET Requests
      BY Zenon DEF Unreleased
    <3> QED
      BY <3>2, <3>3, <3>4, Zenon
  <2>2. SumFunctionOnSet(Amount, Unreleased(held) \cup {q}) = Amount[q] + SumFunctionOnSet(Amount, Unreleased(held))
    BY <2>1, AmountType, SumAdd
  <2>3. /\ SumFunctionOnSet(Amount, Unreleased(held)) \in Nat
        /\ SumFunctionOnSet(Amount, Unreleased(held)) <= MaximumOutstandingAtomic
    <3>1. SumFunctionOnSet(Amount, Unreleased(reservations)) <= MaximumOutstandingAtomic
      BY Zenon DEF ValueInv, Outstanding
    <3> QED
      BY <2>1, <3>1, OutstandingFalls, AdmissionAssumption
  <2>4. Amount[q] = 0 \/ SumFunctionOnSet(Amount, Unreleased(held)) + Amount[q] <= MaximumOutstandingAtomic
    BY <1>1, Zenon DEF CanReserveExposure, Unreleased
  <2>5. SumFunctionOnSet(Amount, Unreleased(held) \cup {q}) <= MaximumOutstandingAtomic
    BY <2>2, <2>3, <2>4, AdmissionAssumption
  <2> QED
    BY <2>1, <2>5, Zenon DEF Outstanding
<1>10. OpenBounded'
  BY Zenon DEF ValueInv, OpenBounded, OpenActions, OpenOf
<1> QED
  BY <1>6, <1>7, <1>8, <1>9, <1>10, Zenon DEF ValueInv

\* An admission moves its quote from the offered to the consumed.
LEMMA ValueAdmits ==
  ASSUME ValueInv, NEW q \in Requests, NEW quote \in SignedQuotes, NEW a \in Actions,
         quote.request = q, Admits(q, quote, a)
  PROVE  ValueInv'
<1> DEFINE m == [quote |-> quote, open |-> TRUE, transfer |-> FALSE, settled |-> FALSE]
           v == [quote |-> quote, consumed |-> TRUE, released |-> FALSE, action |-> a]
<1>1. /\ records[a] = None /\ reservations[q] # None /\ ~reservations[q].consumed
      /\ records' = [records EXCEPT ![a] = m] /\ reservations' = [reservations EXCEPT ![q] = v]
  BY DEF Admits
<1>2. /\ m \in AdmittedRecords /\ m.quote = quote /\ m.open /\ m # None
      /\ v \in QuoteReservations /\ v.quote = quote /\ v.consumed /\ ~v.released /\ v.action = a /\ v # None
  <2>1. m \in AdmittedRecords /\ v \in QuoteReservations
    BY DEF AdmittedRecords, QuoteReservations
  <2> QED
    BY <2>1, NoneIsNoRecord, Zenon
<1> HIDE DEF m, v
<1>3. JournalType'
  BY <1>1, <1>2, Zenon DEF ValueInv, JournalType
<1>4. /\ records'[a] = m /\ \A b \in Actions : b # a => records'[b] = records[b]
      /\ reservations'[q] = v /\ \A r \in Requests : r # q => reservations'[r] = reservations[r]
  BY <1>1 DEF ValueInv, JournalType
<1>5. ASSUME NEW b \in Actions, records[b] # None
      PROVE  /\ records[b].quote.request \in Requests /\ records[b].quote.request # q /\ b # a
  <2>1. records[b].quote.request \in Requests
    BY <1>5, NoneIsNoRecord, Zenon DEF ValueInv, JournalType
  <2> QED
    BY <1>1, <1>5, <2>1, Zenon DEF ValueInv, Bound
<1>6. Bound'
  <2> SUFFICES ASSUME NEW b \in Actions, records'[b] # None
               PROVE  LET w == reservations'[records'[b].quote.request] IN
                      /\ w # None /\ w.consumed /\ w.action = b /\ w.quote = records'[b].quote
                      /\ w.released => ~AtRisk(b)'
    BY Zenon DEF Bound
  <2>1. CASE b = a
    BY <1>2, <1>4, <2>1, Zenon
  <2>2. CASE b # a
    <3>1. records'[b] = records[b] /\ records[b] # None
      BY <1>4, <2>2
    <3>2. reservations'[records'[b].quote.request] = reservations[records[b].quote.request]
      BY <1>4, <1>5, <3>1, Zenon
    <3> QED
      BY <3>1, <3>2, Zenon DEF ValueInv, Bound, AtRisk
  <2> QED
    BY <2>1, <2>2, Zenon
<1>7. OfferedStay'
  BY <1>2, <1>4, Zenon DEF ValueInv, OfferedStay
<1>8. Outstanding'
  <2>1. ~reservations[q].released
    BY <1>1, Zenon DEF ValueInv, OfferedStay
  <2>2. \A r \in Requests : (reservations'[r] # None /\ ~reservations'[r].released)
                              <=> (reservations[r] # None /\ ~reservations[r].released)
    <3> SUFFICES ASSUME NEW r \in Requests
                 PROVE  (reservations'[r] # None /\ ~reservations'[r].released)
                          <=> (reservations[r] # None /\ ~reservations[r].released)
      BY Zenon
    <3>1. CASE r # q
      BY <1>4, <3>1, Zenon
    <3>2. CASE r = q
      BY <1>1, <1>2, <1>4, <2>1, <3>2
    <3> QED
      BY <3>1, <3>2, Zenon
  <2>3. Unreleased(reservations') = Unreleased(reservations)
    BY <2>2, Zenon DEF Unreleased
  <2> QED
    BY <2>3, Zenon DEF ValueInv, Outstanding
<1>9. OpenBounded'
  <2>1. \A b \in Actions : (records'[b] # None /\ records'[b].open) <=> ((records[b] # None /\ records[b].open) \/ b = a)
    <3> SUFFICES ASSUME NEW b \in Actions
                 PROVE  (records'[b] # None /\ records'[b].open) <=> ((records[b] # None /\ records[b].open) \/ b = a)
      OBVIOUS
    <3>1. CASE b # a
      BY <1>4, <3>1, Zenon
    <3>2. CASE b = a
      BY <1>2, <1>4, <3>2, Zenon
    <3> QED
      BY <3>1, <3>2, Zenon
  <2>2. OpenActions' = OpenActions \cup {a} /\ a \notin OpenActions /\ OpenActions \subseteq Actions
    <3>1. OpenActions' = OpenActions \cup {a}
      BY <2>1, Zenon DEF OpenActions
    <3> QED
      BY <1>1, <3>1, Zenon DEF OpenActions
  <2>3. \A b \in OpenActions : /\ Requester[records[b].quote.request] \in Agents
                                /\ records'[b].quote.request = records[b].quote.request
    <3> SUFFICES ASSUME NEW b \in OpenActions
                 PROVE  /\ Requester[records[b].quote.request] \in Agents
                        /\ records'[b].quote.request = records[b].quote.request
      OBVIOUS
    <3>1. b \in Actions /\ records[b] # None /\ b # a
      BY <2>2, Zenon DEF OpenActions
    <3> QED
      BY <1>4, <1>5, <3>1, AdmissionAssumption, Zenon
  <2>4. ActiveExecutions(Agents) = Cardinality(OpenActions)
    <3>1. {b \in Actions : /\ records[b] # None /\ records[b].open
                           /\ Requester[records[b].quote.request] \in Agents} = OpenActions
      BY <2>3, Zenon DEF OpenActions
    <3> QED
      BY <3>1, Zenon DEF ActiveExecutions
  <2>5. ActiveExecutions({Requester[q]}) = Cardinality(OpenOf(Requester[q]))
    <3>1. {b \in Actions : /\ records[b] # None /\ records[b].open
                           /\ Requester[records[b].quote.request] \in {Requester[q]}} = OpenOf(Requester[q])
      BY Zenon DEF OpenActions, OpenOf
    <3> QED
      BY <3>1, Zenon DEF ActiveExecutions
  <2>6. IsFiniteSet(OpenActions) /\ \A agent : IsFiniteSet(OpenOf(agent))
    <3>1. \A agent : OpenOf(agent) \subseteq OpenActions
      BY Zenon DEF OpenOf
    <3> QED
      BY <2>2, <3>1, FS_Subset, AdmissionAssumption, Zenon
  <2>7. Cardinality(OpenActions)' <= MaximumActiveExecutions
    <3>1. Cardinality(OpenActions \cup {a}) = Cardinality(OpenActions) + 1 /\ Cardinality(OpenActions) \in Nat
      BY <2>2, <2>6, FS_AddElement, FS_CardinalityType, Zenon
    <3>2. Cardinality(OpenActions) < MaximumActiveExecutions
      BY <2>4, Zenon DEF Admits
    <3>3. Cardinality(OpenActions \cup {a}) <= MaximumActiveExecutions
      BY <3>1, <3>2, AdmissionAssumption
    <3> QED
      BY <2>2, <3>3, Zenon
  <2>8. ASSUME NEW agent \in Agents
        PROVE  Cardinality(OpenOf(agent))' <= MaximumActivePerRequester
    <3>1. records'[a].quote.request = q
      BY <1>2, <1>4, Zenon
    <3>2. CASE agent # Requester[q]
      <4>1. OpenOf(agent)' = OpenOf(agent)
        BY <2>2, <2>3, <3>1, <3>2, Zenon DEF OpenOf
      <4> QED
        BY <4>1, Zenon DEF ValueInv, OpenBounded
    <3>3. CASE agent = Requester[q]
      <4>1. OpenOf(agent)' = OpenOf(agent) \cup {a} /\ a \notin OpenOf(agent)
        BY <2>2, <2>3, <3>1, <3>3, Zenon DEF OpenOf
      <4>2. /\ Cardinality(OpenOf(agent) \cup {a}) = Cardinality(OpenOf(agent)) + 1
            /\ Cardinality(OpenOf(agent)) \in Nat
        BY <2>6, <4>1, FS_AddElement, FS_CardinalityType, Zenon
      <4>3. Cardinality(OpenOf(agent)) < MaximumActivePerRequester
        BY <2>5, <3>3, Zenon DEF Admits
      <4>4. Cardinality(OpenOf(agent) \cup {a}) <= MaximumActivePerRequester
        BY <4>2, <4>3, AdmissionAssumption
      <4> QED
        BY <4>1, <4>4, Zenon
    <3> QED
      BY <3>2, <3>3, Zenon
  <2> QED
    BY <2>7, <2>8, Zenon DEF OpenBounded
<1> QED
  BY <1>3, <1>6, <1>7, <1>8, <1>9, Zenon DEF ValueInv

\* A record that advances takes at most its own amount out of the exposure.
LEMMA ValueAdvances ==
  ASSUME ValueInv, NEW a \in Actions, NEW m, Advances(a, m)
  PROVE  ValueInv'
<1> DEFINE q == records[a].quote.request
           v == reservations[q]
           w == [v EXCEPT !.released = TRUE]
<1>1. /\ records[a] # None /\ m \in AdmittedRecords /\ m.quote = records[a].quote
      /\ AtRisk(a) /\ ~m.open /\ records' = [records EXCEPT ![a] = m]
      /\ ReleaseRecordExposure(a, m)
  BY DEF Advances
<1>2. /\ v # None /\ v.consumed /\ v.action = a /\ v.quote = records[a].quote /\ ~v.released
  BY <1>1, Zenon DEF ValueInv, Bound
<1>3. q \in Requests /\ v \in QuoteReservations
  <2>1. q \in Requests
    BY <1>1, NoneIsNoRecord, Zenon DEF ValueInv, JournalType
  <2> QED
    BY <1>2, <2>1, Zenon DEF ValueInv, JournalType
<1>4. /\ w \in QuoteReservations /\ w.quote = v.quote /\ w.consumed /\ w.action = a /\ w.released /\ w # None
  <2>1. w \in QuoteReservations /\ w.quote = v.quote /\ w.consumed = v.consumed /\ w.action = v.action /\ w.released
    BY <1>3, Zenon DEF QuoteReservations
  <2> HIDE DEF w, v
  <2> QED
    BY <1>2, <2>1, NoneIsNoRecord, Zenon
<1>5. records' \in [Actions -> AdmittedRecords \cup {None}]
      /\ records'[a] = m /\ \A b \in Actions : b # a => records'[b] = records[b]
  BY <1>1, Zenon DEF ValueInv, JournalType
<1>6. \/ (m.transfer => m.settled) /\ reservations' = [reservations EXCEPT ![q] = w]
      \/ reservations' = reservations
  <2>1. m.quote.request = q
    BY <1>1
  <2>2. \/ (m.transfer => m.settled) /\ reservations' = [reservations EXCEPT ![q].released = TRUE]
        \/ reservations' = reservations
    BY <1>1, <2>1, Zenon DEF ReleaseRecordExposure
  <2> QED
    BY <2>2
<1> HIDE DEF w
<1>7. /\ reservations' \in [Requests -> QuoteReservations \cup {None}]
      /\ \A r \in Requests : r # q => reservations'[r] = reservations[r]
      /\ reservations'[q] = v \/ (reservations'[q] = w /\ (m.transfer => m.settled))
  BY <1>3, <1>4, <1>6, Zenon DEF ValueInv, JournalType
<1> HIDE DEF v
<1>8. JournalType'
  BY <1>5, <1>7, Zenon DEF JournalType
<1>9. ASSUME NEW b \in Actions, records[b] # None, b # a
      PROVE  records[b].quote.request \in Requests /\ records[b].quote.request # q
  <2>1. records[b].quote.request \in Requests
    BY <1>9, NoneIsNoRecord, Zenon DEF ValueInv, JournalType
  <2>2. reservations[records[b].quote.request].action = b
    BY <1>9, Zenon DEF ValueInv, Bound
  <2> QED
    BY <1>2, <1>9, <2>1, <2>2, Zenon DEF v
<1>10. Bound'
  <2> SUFFICES ASSUME NEW b \in Actions, records'[b] # None
               PROVE  LET x == reservations'[records'[b].quote.request] IN
                      /\ x # None /\ x.consumed /\ x.action = b /\ x.quote = records'[b].quote
                      /\ x.released => ~AtRisk(b)'
    BY ZenonT(30) DEF Bound
  <2>1. CASE b = a
    <3>1. records'[b].quote.request = q /\ records'[b].quote = records[a].quote
      BY <1>1, <1>5, <2>1, Zenon
    <3>2. CASE reservations'[q] = v
      BY <1>2, <2>1, <3>1, <3>2, Zenon
    <3>3. CASE reservations'[q] = w /\ (m.transfer => m.settled)
      <4>1. ~AtRisk(b)'
        BY <1>1, <1>5, <2>1, <3>3, Zenon DEF AtRisk
      <4> QED
        BY <1>2, <1>4, <2>1, <3>1, <3>3, <4>1, Zenon
    <3> QED
      BY <1>7, <3>2, <3>3, Zenon
  <2>2. CASE b # a
    <3>1. records'[b] = records[b] /\ records[b] # None
      BY <1>5, <2>2
    <3>2. reservations'[records'[b].quote.request] = reservations[records[b].quote.request]
      BY <1>7, <1>9, <2>2, <3>1, Zenon
    <3> QED
      BY <3>1, <3>2, Zenon DEF ValueInv, Bound, AtRisk
  <2> QED
    BY <2>1, <2>2, Zenon
<1>11. OfferedStay'
  <2> SUFFICES ASSUME NEW r \in Requests, reservations'[r] # None, reservations'[r].released
               PROVE  reservations'[r].consumed
    BY Zenon DEF OfferedStay
  <2>1. CASE r = q
    BY <1>2, <1>4, <1>7, <2>1, Zenon
  <2>2. CASE r # q
    BY <1>7, <2>2, Zenon DEF ValueInv, OfferedStay
  <2> QED
    BY <2>1, <2>2, Zenon
<1>12. Outstanding'
  <2>1. Unreleased(reservations') \subseteq Unreleased(reservations) /\ Unreleased(reservations) \subseteq Requests
    <3> SUFFICES ASSUME NEW r \in Unreleased(reservations') PROVE r \in Unreleased(reservations)
      BY DEF Unreleased
    <3>1. r \in Requests /\ reservations'[r] # None /\ ~reservations'[r].released
      BY Zenon DEF Unreleased
    <3>2. r # q => reservations'[r] = reservations[r]
      BY <1>7, <3>1, Zenon
    <3>3. r = q => reservations[r] # None /\ ~reservations[r].released
      BY <1>2 DEF v
    <3> QED
      BY <3>1, <3>2, <3>3, Zenon DEF Unreleased
  <2>2. SumFunctionOnSet(Amount, Unreleased(reservations)) <= MaximumOutstandingAtomic
    BY Zenon DEF ValueInv, Outstanding
  <2>3. SumFunctionOnSet(Amount, Unreleased(reservations')) <= MaximumOutstandingAtomic
    BY <2>1, <2>2, OutstandingFalls, AdmissionAssumption
  <2> QED
    BY <2>3, Zenon DEF Outstanding
<1>13. OpenBounded'
  <2>1. OpenActions' \subseteq OpenActions /\ OpenActions \subseteq Actions
    <3>1. \A b \in Actions : records'[b] # None /\ records'[b].open => records[b] # None /\ records[b].open
      BY <1>1, <1>5, Zenon
    <3> QED
      BY <3>1, Zenon DEF OpenActions
  <2>2. \A agent : OpenOf(agent)' \subseteq OpenOf(agent) /\ OpenOf(agent) \subseteq Actions
    <3> SUFFICES ASSUME NEW agent, NEW b \in OpenOf(agent)' PROVE b \in OpenOf(agent)
      BY <2>1, Zenon DEF OpenOf
    <3>1. b \in OpenActions' /\ Requester[records'[b].quote.request] = agent
      BY Zenon DEF OpenOf
    <3>2. b \in Actions /\ b \in OpenActions
      BY <2>1, <3>1, Zenon
    <3>3. records'[b].quote = records[b].quote
      BY <1>1, <1>5, <3>2, Zenon
    <3> QED
      BY <3>1, <3>2, <3>3, Zenon DEF OpenOf
  <2>3. \A T \in SUBSET Actions : \A U \in SUBSET T :
          Cardinality(T) \in Nat /\ Cardinality(U) \in Nat /\ Cardinality(U) <= Cardinality(T)
    BY FS_Subset, FS_CardinalityType, AdmissionAssumption, Zenon
  <2>4. Cardinality(OpenActions)' <= MaximumActiveExecutions
    BY <2>1, <2>3, AdmissionAssumption DEF ValueInv, OpenBounded
  <2>5. \A agent \in Agents : Cardinality(OpenOf(agent))' <= MaximumActivePerRequester
    BY <2>2, <2>3, AdmissionAssumption DEF ValueInv, OpenBounded
  <2> QED
    BY <2>4, <2>5, Zenon DEF OpenBounded
<1> QED
  BY <1>8, <1>10, <1>11, <1>12, <1>13, Zenon DEF ValueInv

\* The invariant bounds what is really at risk: every action at risk has a
\* reservation of its own that is not released, and so has every offer.
LEMMA ValueIsBounded == ValueInv => ValueAtRiskBounded
<1> SUFFICES ASSUME ValueInv PROVE ValueAtRiskBounded
  OBVIOUS
<1> DEFINE exposed == {a \in Actions : AtRisk(a)}
           offered == {r \in Requests : /\ reservations[r] # None /\ ~reservations[r].consumed
                                         /\ reservations[r].quote.expires > clock}
           of == [a \in exposed |-> records[a].quote.request]
           image == {of[a] : a \in exposed}
<1>1. ASSUME NEW a \in Actions, records[a] # None
      PROVE  /\ records[a].quote.request \in Requests
             /\ reservations[records[a].quote.request] # None
             /\ reservations[records[a].quote.request].consumed
             /\ reservations[records[a].quote.request].action = a
             /\ reservations[records[a].quote.request].quote = records[a].quote
             /\ AtRisk(a) => ~reservations[records[a].quote.request].released
  <2>1. records[a].quote.request \in Requests
    BY <1>1, NoneIsNoRecord DEF ValueInv, JournalType
  <2> QED
    BY <1>1, <2>1, Zenon DEF ValueInv, Bound
<1>2. AdmittedOnce
  <2>1. \A a, b \in {x \in Actions : records[x] # None} : records[a].quote = records[b].quote => a = b
    BY <1>1
  <2>2. \A a \in Actions : AtRisk(a) => records[a] # None
    BY DEF AtRisk
  <2> QED
    BY <1>1, <2>1, <2>2, Zenon DEF AdmittedOnce
<1>3. \A a \in exposed : /\ a \in Actions /\ records[a] # None /\ of[a] = records[a].quote.request
                           /\ of[a] \in Requests /\ of[a] \in Unreleased(reservations)
                           /\ reservations[of[a]].consumed /\ reservations[of[a]].action = a
  <2> SUFFICES ASSUME NEW a \in Actions, AtRisk(a)
               PROVE  /\ records[a] # None
                      /\ records[a].quote.request \in Requests
                      /\ records[a].quote.request \in Unreleased(reservations)
                      /\ reservations[records[a].quote.request].consumed
                      /\ reservations[records[a].quote.request].action = a
    OBVIOUS
  <2>1. records[a] # None
    BY DEF AtRisk
  <2> QED
    BY <1>1, <2>1, Zenon DEF Unreleased
<1>4. offered \subseteq Unreleased(reservations) /\ \A r \in offered : ~reservations[r].consumed
  BY Zenon DEF ValueInv, OfferedStay, Unreleased
<1>5. of \in [exposed -> Requests] /\ \A a, b \in exposed : of[a] = of[b] => a = b
  <2>1. of = [a \in exposed |-> of[a]]
    OBVIOUS
  <2> HIDE DEF of, exposed
  <2> QED
    BY <1>3, <2>1
<1>6. IsFiniteSet(exposed)
  <2>1. exposed \subseteq Actions
    OBVIOUS
  <2> HIDE DEF exposed
  <2> QED
    BY <2>1, FS_Subset, AdmissionAssumption, Zenon
<1>7. [a \in exposed |-> Amount[records[a].quote.request]] = [a \in exposed |-> Amount[of[a]]]
  OBVIOUS
<1>8. image \subseteq Unreleased(reservations) /\ image \cap offered = {}
  <2> HIDE DEF of, exposed, offered
  <2> QED
    BY <1>3, <1>4
<1>9. Unreleased(reservations) \in SUBSET Requests
  BY Zenon DEF Unreleased
<1>10. SumFunctionOnSet([a \in exposed |-> Amount[of[a]]], exposed) = SumFunctionOnSet(Amount, image)
  <2> HIDE DEF of, exposed
  <2> QED
    BY <1>5, <1>6, AmountType, SumImage
<1> HIDE DEF of, exposed, offered, image
<1>11. SumFunctionOnSet(Amount, image \cup offered) = SumFunctionOnSet(Amount, image) + SumFunctionOnSet(Amount, offered)
  BY <1>4, <1>8, <1>9, AmountType, SumUnion
<1>12. image \cup offered \in SUBSET Unreleased(reservations)
  BY <1>4, <1>8, Zenon
<1>13. SumFunctionOnSet(Amount, image \cup offered) <= MaximumOutstandingAtomic
  <2>1. SumFunctionOnSet(Amount, Unreleased(reservations)) <= MaximumOutstandingAtomic
    BY Zenon DEF ValueInv, Outstanding
  <2> QED
    BY <1>9, <1>12, <2>1, OutstandingFalls, AdmissionAssumption
<1>14. SumFunctionOnSet([a \in exposed |-> Amount[records[a].quote.request]], exposed)
         + SumFunctionOnSet(Amount, offered) <= MaximumOutstandingAtomic
  BY <1>7, <1>10, <1>11, <1>13, Zenon
<1> USE DEF exposed, offered
<1> QED
  BY <1>2, <1>14, Zenon DEF ValueAtRiskBounded, ValueInv, OpenBounded, OpenActions, OpenOf

-----------------------------------------------------------------------------
(* The rate of reservations. *)

AgentsOf(b) == IF b = "global" THEN Agents ELSE {b}
Limit(b) == IF b = "global" THEN MaximumQuoteRequestsPerWindow
            ELSE MaximumQuoteRequestsPerRequesterWindow

\* The times of a queue that a call of time t or later may have left.
Late(times, t) == {k \in DOMAIN times : times[k] > t - MaxDelay}
\* The reservations made after t, and those of them within the span.
Since(b, t) == {i \in DOMAIN commits : commits[i].of \in AgentsOf(b) /\ commits[i].at > t}
Within(b, t) ==
  {i \in DOMAIN commits :
     /\ commits[i].of \in AgentsOf(b)
     /\ commits[i].at > t /\ commits[i].at <= t + QuoteRequestWindowSeconds - MaxDelay}

\* A queue still holds a time for every reservation that a span ending now or
\* later may count.
QueueCounts ==
  \A b \in Buckets, t \in Nat :
    clock <= t + QuoteRequestWindowSeconds - MaxDelay =>
      Cardinality(Since(b, t)) <= Cardinality(Late(quoteAdmissions[b], t))
SpansBounded == \A b \in Buckets, t \in Nat : Cardinality(Within(b, t)) <= Limit(b)
TimesPositive == \A b \in Buckets : \A k \in DOMAIN quoteAdmissions[b] : quoteAdmissions[b][k] > 0

RateType ==
  /\ quoteAdmissions \in [Buckets -> Seq(Nat)]
  /\ commits \in Seq([at : Nat, of : Agents]) /\ clock \in Nat
RateInv == RateType /\ QueueCounts /\ SpansBounded /\ TimesPositive

\* Indices of a sequence make finite sets.
LEMMA IndicesFinite ==
  ASSUME NEW S, NEW s \in Seq(S), NEW T, T \subseteq DOMAIN s
  PROVE  IsFiniteSet(T) /\ Cardinality(T) \in Nat /\ Cardinality(T) <= Len(s)
<1>1. DOMAIN s = 1 .. Len(s) /\ Len(s) \in Nat
  OBVIOUS
<1>2. IsFiniteSet(1 .. Len(s)) /\ Cardinality(1 .. Len(s)) = Len(s)
  <2>1. /\ IsFiniteSet(1 .. Len(s))
        /\ Cardinality(1 .. Len(s)) = IF 1 > Len(s) THEN 0 ELSE Len(s) - 1 + 1
    BY <1>1, FS_Interval
  <2> QED
    BY <1>1, <2>1
<1> QED
  BY <1>1, <1>2, FS_Subset, FS_CardinalityType

\* What the code prunes for a call dated now is not needed by any span that
\* this call can still count for.
LEMMA QueueKept ==
  ASSUME NEW s \in Seq(Nat), \A k \in DOMAIN s : s[k] > 0, NEW now \in Nat, NEW t \in Nat,
         now <= t + QuoteRequestWindowSeconds - MaxDelay,
         NEW u, u = PruneRelayAdmissionTimes(s, Cutoff(now))
  PROVE  Cardinality(Late(s, t)) <= Cardinality(Late(u, t))
<1>0. QuoteRequestWindowSeconds \in Nat /\ MaxDelay \in Nat
  BY AdmissionAssumption
<1>1. Cutoff(now) \in Nat /\ (Cutoff(now) = 0 \/ Cutoff(now) <= t - MaxDelay)
  BY <1>0 DEF Cutoff
<1>2. /\ u \in Seq(Nat)
      /\ \E d \in 0 .. Len(s) :
           /\ Len(u) = Len(s) - d
           /\ \A i \in 1 .. Len(s) - d : u[i] = s[i + d]
           /\ \A i \in 1 .. d : s[i] <= Cutoff(now)
  BY <1>1, Pruned, Zenon
<1>3. PICK d \in 0 .. Len(s) : /\ Len(u) = Len(s) - d
                               /\ \A i \in 1 .. Len(s) - d : u[i] = s[i + d]
                               /\ \A i \in 1 .. d : s[i] <= Cutoff(now)
  BY <1>2, Zenon
<1>4. DOMAIN s = 1 .. Len(s) /\ DOMAIN u = 1 .. Len(u) /\ Len(s) \in Nat /\ \A k \in 1 .. Len(s) : s[k] \in Nat
  BY <1>2
<1>5. ASSUME NEW k \in Late(s, t) PROVE k - d \in Late(u, t) /\ k \in Nat
  <2>1. k \in 1 .. Len(s) /\ s[k] > t - MaxDelay /\ s[k] > 0
    BY <1>4, Zenon DEF Late
  <2>2. s[k] > Cutoff(now)
    BY <1>0, <1>1, <1>4, <2>1
  <2>3. k > d
    BY <1>1, <1>3, <1>4, <2>1, <2>2
  <2>4. k - d \in 1 .. Len(s) - d /\ k - d \in 1 .. Len(u) /\ (k - d) + d = k
    BY <1>3, <1>4, <2>1, <2>3
  <2>5. u[k - d] = s[k]
    BY <1>3, <2>4, Zenon
  <2> QED
    BY <1>4, <2>1, <2>4, <2>5 DEF Late
<1> DEFINE shift == [k \in Late(s, t) |-> k - d]
<1>6. shift \in Injection(Late(s, t), Late(u, t))
  <2>1. shift \in [Late(s, t) -> Late(u, t)]
    BY <1>5, Zenon
  <2>2. \A j, k \in Late(s, t) : shift[j] = shift[k] => j = k
    BY <1>5
  <2> QED
    BY <2>1, <2>2, Zenon DEF Injection, IsInjective
<1>7. IsFiniteSet(Late(u, t))
  <2>1. Late(u, t) \subseteq DOMAIN u
    BY DEF Late
  <2> QED
    BY <1>2, <2>1, IndicesFinite, Zenon
<1> HIDE DEF shift
<1> QED
  BY <1>6, <1>7, FS_Injection

\* Pruned times are positive, and their number bounds the late ones.
LEMMA QueueSound ==
  ASSUME NEW s \in Seq(Nat), \A k \in DOMAIN s : s[k] > 0, NEW now \in Nat,
         NEW u, u = PruneRelayAdmissionTimes(s, Cutoff(now))
  PROVE  /\ u \in Seq(Nat) /\ \A k \in DOMAIN u : u[k] > 0
         /\ \A t : Cardinality(Late(u, t)) \in Nat /\ Cardinality(Late(u, t)) <= Len(u)
                    /\ IsFiniteSet(Late(u, t))
<1>1. Cutoff(now) \in Nat
  BY AdmissionAssumption DEF Cutoff
<1>2. /\ u \in Seq(Nat)
      /\ \E d \in 0 .. Len(s) :
           /\ Len(u) = Len(s) - d
           /\ \A i \in 1 .. Len(s) - d : u[i] = s[i + d]
           /\ \A i \in 1 .. d : s[i] <= Cutoff(now)
  BY <1>1, Pruned, Zenon
<1>3. PICK d \in 0 .. Len(s) : Len(u) = Len(s) - d /\ \A i \in 1 .. Len(s) - d : u[i] = s[i + d]
  BY <1>2, Zenon
<1>4. DOMAIN s = 1 .. Len(s) /\ DOMAIN u = 1 .. Len(u) /\ Len(s) \in Nat
  BY <1>2
<1>5. \A k \in DOMAIN u : u[k] > 0
  <2> SUFFICES ASSUME NEW k \in DOMAIN u PROVE u[k] > 0
    OBVIOUS
  <2>1. k \in 1 .. Len(s) - d /\ k + d \in DOMAIN s
    BY <1>3, <1>4
  <2> QED
    BY <1>3, <2>1, Zenon
<1>6. \A t : Late(u, t) \subseteq DOMAIN u
  BY DEF Late
<1> QED
  BY <1>2, <1>5, <1>6, IndicesFinite, Zenon

\* A time that is appended adds itself to the late ones it belongs to.
LEMMA AppendLate ==
  ASSUME NEW u \in Seq(Nat), NEW now \in Nat, NEW t \in Nat
  PROVE  /\ Cardinality(Late(Append(u, now), t)) >= Cardinality(Late(u, t))
         /\ now > t - MaxDelay => Cardinality(Late(Append(u, now), t)) = Cardinality(Late(u, t)) + 1
<1>1. /\ Append(u, now) \in Seq(Nat) /\ Len(Append(u, now)) = Len(u) + 1
      /\ DOMAIN u = 1 .. Len(u) /\ DOMAIN Append(u, now) = 1 .. Len(u) + 1 /\ Len(u) \in Nat
      /\ \A i \in 1 .. Len(u) : Append(u, now)[i] = u[i]
      /\ Append(u, now)[Len(u) + 1] = now
  OBVIOUS
<1>2. /\ IsFiniteSet(Late(u, t)) /\ Cardinality(Late(u, t)) \in Nat
      /\ IsFiniteSet(Late(Append(u, now), t)) /\ Cardinality(Late(Append(u, now), t)) \in Nat
  <2>1. Late(u, t) \subseteq DOMAIN u /\ Late(Append(u, now), t) \subseteq DOMAIN Append(u, now)
    BY DEF Late
  <2> QED
    BY <1>1, <2>1, IndicesFinite, Zenon
<1>3. Late(u, t) \subseteq Late(Append(u, now), t) /\ Len(u) + 1 \notin Late(u, t)
  BY <1>1 DEF Late
<1>4. ASSUME now > t - MaxDelay PROVE Late(Append(u, now), t) = Late(u, t) \cup {Len(u) + 1}
  <2>1. \A k \in 1 .. Len(u) + 1 : k \in 1 .. Len(u) \/ k = Len(u) + 1
    BY <1>1
  <2>2. Len(u) + 1 \in 1 .. Len(u) + 1
    BY <1>1
  <2> QED
    BY <1>1, <1>3, <1>4, <2>1, <2>2, Zenon DEF Late
<1>5. Cardinality(Late(u, t)) <= Cardinality(Late(Append(u, now), t))
  BY <1>2, <1>3, FS_Subset, Zenon
<1>6. ASSUME now > t - MaxDelay
      PROVE  Cardinality(Late(Append(u, now), t)) = Cardinality(Late(u, t)) + 1
  BY <1>2, <1>3, <1>4, <1>6, FS_AddElement, Zenon
<1> QED
  BY <1>2, <1>5, <1>6, Zenon

\* The time of a call is close to the clock's.
LEMMA DatedTimes ==
  ASSUME NEW now \in Nat, Dated(now), clock \in Nat, NEW t \in Nat
  PROVE  /\ clock <= t + QuoteRequestWindowSeconds - MaxDelay
              => now <= t + QuoteRequestWindowSeconds - MaxDelay
         /\ clock > t => now > t - MaxDelay
<1>1. QuoteRequestWindowSeconds \in Nat /\ MaxDelay \in Nat
  BY AdmissionAssumption, Zenon
<1>2. now <= clock /\ clock <= now + MaxDelay
  BY Zenon DEF Dated
<1> QED
  BY <1>1, <1>2

\* The counted reservations are finite in number.
LEMMA SinceFinite ==
  ASSUME RateType, NEW b, NEW t
  PROVE  /\ IsFiniteSet(Since(b, t)) /\ Cardinality(Since(b, t)) \in Nat
         /\ IsFiniteSet(Within(b, t)) /\ Cardinality(Within(b, t)) \in Nat
         /\ Within(b, t) \subseteq Since(b, t)
<1>1. Since(b, t) \subseteq DOMAIN commits
  BY Zenon DEF Since
<1>2. Within(b, t) \subseteq DOMAIN commits
  BY Zenon DEF Within
<1>3. Within(b, t) \subseteq Since(b, t)
  BY Zenon DEF Within, Since
<1> QED
  BY <1>1, <1>2, <1>3, IndicesFinite, Zenon DEF RateType

\* A new reservation is counted in the spans it falls in, once.
LEMMA AppendCommit ==
  ASSUME RateType, NEW of \in Agents, commits' = Append(commits, [at |-> clock, of |-> of]),
         NEW b, NEW t \in Nat
  PROVE  /\ commits' \in Seq([at : Nat, of : Agents])
         /\ Cardinality(Since(b, t)') <= Cardinality(Since(b, t)) + 1
         /\ Cardinality(Within(b, t)') <= Cardinality(Since(b, t)) + 1
         /\ ~(of \in AgentsOf(b) /\ clock > t) => Since(b, t)' = Since(b, t)
         /\ ~(/\ of \in AgentsOf(b) /\ clock > t
              /\ clock <= t + QuoteRequestWindowSeconds - MaxDelay)
              => Within(b, t)' = Within(b, t)
<1> DEFINE n == Len(commits) + 1
           new == [at |-> clock, of |-> of]
<1>1. new \in [at : Nat, of : Agents] /\ new.at = clock /\ new.of = of
  BY DEF RateType
<1>2. commits \in Seq([at : Nat, of : Agents]) /\ commits' = Append(commits, new)
  BY DEF RateType
<1> HIDE DEF new
<1>3. /\ commits' \in Seq([at : Nat, of : Agents]) /\ Len(commits) \in Nat
      /\ DOMAIN commits = 1 .. Len(commits) /\ DOMAIN commits' = 1 .. n
      /\ \A i \in 1 .. Len(commits) : commits'[i] = commits[i]
      /\ commits'[n] = new
  BY <1>1, <1>2
<1>4. /\ DOMAIN commits' = DOMAIN commits \cup {n} /\ n \notin DOMAIN commits
      /\ \A i \in DOMAIN commits : commits'[i] = commits[i]
  BY <1>3
<1> HIDE DEF n
<1>5. Since(b, t)' = {i \in DOMAIN commits' : commits'[i].of \in AgentsOf(b) /\ commits'[i].at > t}
  BY Zenon DEF Since, AgentsOf
<1>6. Within(b, t)' =
        {i \in DOMAIN commits' :
           /\ commits'[i].of \in AgentsOf(b)
           /\ commits'[i].at > t /\ commits'[i].at <= t + QuoteRequestWindowSeconds - MaxDelay}
  BY Zenon DEF Within, AgentsOf
<1>7. Since(b, t)' \subseteq Since(b, t) \cup {n} /\ Since(b, t) \subseteq Since(b, t)'
  BY <1>4, <1>5, Zenon DEF Since
<1>8. Within(b, t) \subseteq Within(b, t)' /\ Within(b, t)' \subseteq Within(b, t) \cup {n}
  BY <1>4, <1>6, Zenon DEF Within
<1>9. ASSUME ~(of \in AgentsOf(b) /\ clock > t) PROVE Since(b, t)' = Since(b, t)
  <2>1. n \notin Since(b, t)'
    BY <1>1, <1>3, <1>5, <1>9, Zenon
  <2> QED
    BY <1>7, <2>1, Zenon
<1>10. ASSUME ~(/\ of \in AgentsOf(b) /\ clock > t
                /\ clock <= t + QuoteRequestWindowSeconds - MaxDelay)
       PROVE  Within(b, t)' = Within(b, t)
  <2>1. n \notin Within(b, t)'
    BY <1>1, <1>3, <1>6, <1>10, Zenon
  <2> QED
    BY <1>8, <2>1, Zenon
<1>11. /\ IsFiniteSet(Since(b, t) \cup {n}) /\ Cardinality(Since(b, t)) \in Nat
       /\ Cardinality(Since(b, t) \cup {n}) \in Nat
       /\ Cardinality(Since(b, t) \cup {n}) <= Cardinality(Since(b, t)) + 1
  <2>1. IsFiniteSet(Since(b, t)) /\ Cardinality(Since(b, t)) \in Nat
    BY SinceFinite, Zenon
  <2> QED
    <3>1. /\ IsFiniteSet(Since(b, t) \cup {n})
          /\ Cardinality(Since(b, t) \cup {n}) =
               IF n \in Since(b, t) THEN Cardinality(Since(b, t)) ELSE Cardinality(Since(b, t)) + 1
      BY <2>1, FS_AddElement, Zenon
    <3>2. Cardinality(Since(b, t) \cup {n}) \in Nat
      BY <3>1, FS_CardinalityType, Zenon
    <3> QED
      BY <2>1, <3>1, <3>2
<1>12. Cardinality(Since(b, t)') <= Cardinality(Since(b, t)) + 1
  <2>1. Cardinality(Since(b, t)') <= Cardinality(Since(b, t) \cup {n}) /\ Cardinality(Since(b, t)') \in Nat
    BY <1>7, <1>11, FS_Subset, FS_CardinalityType, Zenon
  <2> QED
    BY <1>11, <2>1
<1>13. Cardinality(Within(b, t)') <= Cardinality(Since(b, t)) + 1
  <2>1. Within(b, t)' \subseteq Since(b, t) \cup {n}
    <3>1. Within(b, t) \subseteq Since(b, t)
      BY SinceFinite, Zenon
    <3> QED
      BY <1>8, <3>1, Zenon
  <2>2. Cardinality(Within(b, t)') <= Cardinality(Since(b, t) \cup {n}) /\ Cardinality(Within(b, t)') \in Nat
    BY <1>11, <2>1, FS_Subset, FS_CardinalityType, Zenon
  <2> QED
    BY <1>11, <2>2
<1> QED
  BY <1>3, <1>9, <1>10, <1>12, <1>13, Zenon

\* A step that makes no reservation and leaves the queues alone.
LEMMA RateStays ==
  ASSUME RateInv, UNCHANGED <<commits, quoteAdmissions>>, clock' \in Nat, clock' >= clock
  PROVE  RateInv'
<1>1. RateType'
  BY DEF RateInv, RateType
<1>2. \A b, t : Since(b, t)' = Since(b, t) /\ Within(b, t)' = Within(b, t)
  BY Zenon DEF Since, Within, AgentsOf
<1>3. QueueCounts'
  <2> SUFFICES ASSUME NEW b \in Buckets, NEW t \in Nat,
                      clock' <= t + QuoteRequestWindowSeconds - MaxDelay
               PROVE  Cardinality(Since(b, t)') <= Cardinality(Late(quoteAdmissions[b], t))
    BY Zenon DEF QueueCounts, Late, Buckets
  <2>1. QuoteRequestWindowSeconds \in Nat /\ MaxDelay \in Nat
    BY AdmissionAssumption, Zenon
  <2>2. clock \in Nat
    BY Zenon DEF RateInv, RateType
  <2>3. clock <= t + QuoteRequestWindowSeconds - MaxDelay
    BY <2>1, <2>2
  <2> QED
    BY <1>2, <2>3, Zenon DEF RateInv, QueueCounts
<1>4. SpansBounded'
  BY <1>2, Zenon DEF RateInv, SpansBounded, Limit, Buckets
<1>5. TimesPositive'
  BY Zenon DEF RateInv, TimesPositive, Buckets
<1> QED
  BY <1>1, <1>3, <1>4, <1>5, Zenon DEF RateInv

\* A refused call prunes the queues of its buckets.
LEMMA RateRefuses ==
  ASSUME RateInv, NEW q \in Requests, NEW now \in Nat, Dated(now), Prunes(q, now),
         UNCHANGED <<commits, clock>>
  PROVE  RateInv'
<1>0. RateType /\ \A b \in Buckets : quoteAdmissions[b] \in Seq(Nat)
  BY DEF RateInv, RateType
<1>1. \A b \in Buckets : quoteAdmissions'[b] = IF b \in BucketsOf(q) THEN KeptTimes(b, now)
                                               ELSE quoteAdmissions[b]
  BY Zenon DEF Prunes
<1>2. \A b, t : Since(b, t)' = Since(b, t) /\ Within(b, t)' = Within(b, t)
  BY Zenon DEF Since, Within, AgentsOf
<1>3. ASSUME NEW b \in Buckets
      PROVE  KeptTimes(b, now) \in Seq(Nat) /\ \A k \in DOMAIN KeptTimes(b, now) : KeptTimes(b, now)[k] > 0
  BY <1>0, QueueSound, Zenon DEF KeptTimes, RateInv, TimesPositive
<1>4. RateType'
  <2>1. quoteAdmissions' \in [Buckets -> Seq(Nat)]
    BY <1>0, <1>3, Zenon DEF Prunes
  <2> QED
    BY <1>0, <2>1, Zenon DEF RateType, Buckets
<1>5. TimesPositive'
  <2> SUFFICES ASSUME NEW b \in Buckets, NEW k \in DOMAIN quoteAdmissions'[b]
               PROVE  quoteAdmissions'[b][k] > 0
    BY Zenon DEF TimesPositive, Buckets
  <2>1. CASE b \in BucketsOf(q)
    BY <1>1, <1>3, <2>1, Zenon
  <2>2. CASE b \notin BucketsOf(q)
    <3>1. quoteAdmissions'[b] = quoteAdmissions[b]
      BY <1>1, <2>2, Zenon
    <3> QED
      BY <3>1, Zenon DEF RateInv, TimesPositive
  <2> QED
    BY <2>1, <2>2, Zenon
<1>6. SpansBounded'
  BY <1>2, Zenon DEF RateInv, SpansBounded, Limit, Buckets
<1>7. QueueCounts'
  <2> SUFFICES ASSUME NEW b \in Buckets, NEW t \in Nat,
                      clock <= t + QuoteRequestWindowSeconds - MaxDelay
               PROVE  Cardinality(Since(b, t)') <= Cardinality(Late(quoteAdmissions'[b], t))
    BY Zenon DEF QueueCounts, Late, Buckets
  <2>1. Cardinality(Since(b, t)) <= Cardinality(Late(quoteAdmissions[b], t))
    BY Zenon DEF RateInv, QueueCounts
  <2>2. CASE b \in BucketsOf(q)
    <3>1. now <= t + QuoteRequestWindowSeconds - MaxDelay
      BY <1>0, DatedTimes, Zenon DEF RateType
    <3>2. Cardinality(Late(quoteAdmissions[b], t)) <= Cardinality(Late(KeptTimes(b, now), t))
      BY <1>0, <3>1, QueueKept, Zenon DEF KeptTimes, RateInv, TimesPositive
    <3>3. Cardinality(Late(KeptTimes(b, now), t)) \in Nat
      BY <1>0, QueueSound, Zenon DEF KeptTimes, RateInv, TimesPositive
    <3>4. Cardinality(Late(quoteAdmissions[b], t)) \in Nat
      <4>1. Late(quoteAdmissions[b], t) \subseteq DOMAIN quoteAdmissions[b]
        BY Zenon DEF Late
      <4> QED
        BY <1>0, <4>1, IndicesFinite, Zenon
    <3>5. Cardinality(Since(b, t)) \in Nat
      BY <1>0, SinceFinite, Zenon
    <3>6. Cardinality(Since(b, t)) <= Cardinality(Late(KeptTimes(b, now), t))
      BY <2>1, <3>2, <3>3, <3>4, <3>5
    <3>7. quoteAdmissions'[b] = KeptTimes(b, now)
      BY <1>1, <2>2, Zenon
    <3> QED
      BY <1>2, <3>6, <3>7, Zenon
  <2>3. CASE b \notin BucketsOf(q)
    <3>1. quoteAdmissions'[b] = quoteAdmissions[b]
      BY <1>1, <2>3, Zenon
    <3> QED
      BY <1>2, <2>1, <3>1, Zenon
  <2> QED
    BY <2>2, <2>3, Zenon
<1> QED
  BY <1>4, <1>5, <1>6, <1>7, Zenon DEF RateInv

\* A reservation is made when the queues of its buckets have room.
LEMMA RateReserves ==
  ASSUME RateInv, NEW q \in Requests, NEW now \in Nat, Dated(now), Reserves(q, now), UNCHANGED clock
  PROVE  RateInv'
<1>0. RateType /\ \A b \in Buckets : quoteAdmissions[b] \in Seq(Nat)
  BY DEF RateInv, RateType
<1>1. \A b \in Buckets : quoteAdmissions'[b] = IF b \in BucketsOf(q) THEN Append(KeptTimes(b, now), now)
                                               ELSE quoteAdmissions[b]
  BY Zenon DEF Reserves
<1>2. Requester[q] \in Agents /\ commits' = Append(commits, [at |-> clock, of |-> Requester[q]])
  BY AdmissionAssumption, Zenon DEF Reserves
<1>3. ASSUME NEW b \in Buckets
      PROVE  /\ KeptTimes(b, now) \in Seq(Nat)
             /\ \A k \in DOMAIN KeptTimes(b, now) : KeptTimes(b, now)[k] > 0
             /\ \A t : /\ Cardinality(Late(KeptTimes(b, now), t)) \in Nat
                       /\ Cardinality(Late(KeptTimes(b, now), t)) <= Len(KeptTimes(b, now))
  BY <1>0, QueueSound, Zenon DEF KeptTimes, RateInv, TimesPositive
<1>4. ASSUME NEW b \in Buckets
      PROVE  /\ Append(KeptTimes(b, now), now) \in Seq(Nat)
             /\ \A k \in DOMAIN Append(KeptTimes(b, now), now) : Append(KeptTimes(b, now), now)[k] > 0
  <2>1. PICK u \in Seq(Nat) : u = KeptTimes(b, now)
    BY <1>3, Zenon
  <2>2. \A k \in DOMAIN u : u[k] > 0
    BY <1>3, <2>1, Zenon
  <2>3. Append(u, now) \in Seq(Nat) /\ \A k \in DOMAIN Append(u, now) : Append(u, now)[k] > 0
    BY <2>2 DEF Dated
  <2> QED
    BY <2>1, <2>3, Zenon
<1>5. RateType'
  <2>1. quoteAdmissions' \in [Buckets -> Seq(Nat)]
    BY <1>0, <1>4, Zenon DEF Reserves
  <2>2. commits' \in Seq([at : Nat, of : Agents])
    <3>1. [at |-> clock, of |-> Requester[q]] \in [at : Nat, of : Agents]
      BY <1>0, <1>2, Zenon DEF RateType
    <3>2. commits \in Seq([at : Nat, of : Agents])
      BY <1>0 DEF RateType
    <3> QED
      BY <1>2, <3>1, <3>2, AppendProperties, Zenon
  <2> QED
    BY <1>0, <2>1, <2>2, Zenon DEF RateType, Buckets
<1>6. TimesPositive'
  <2> SUFFICES ASSUME NEW b \in Buckets, NEW k \in DOMAIN quoteAdmissions'[b]
               PROVE  quoteAdmissions'[b][k] > 0
    BY Zenon DEF TimesPositive, Buckets
  <2>1. CASE b \in BucketsOf(q)
    <3>1. quoteAdmissions'[b] = Append(KeptTimes(b, now), now)
      BY <1>1, <2>1, Zenon
    <3> QED
      BY <1>4, <3>1, Zenon
  <2>2. CASE b \notin BucketsOf(q)
    <3>1. quoteAdmissions'[b] = quoteAdmissions[b]
      BY <1>1, <2>2, Zenon
    <3> QED
      BY <3>1, Zenon DEF RateInv, TimesPositive
  <2> QED
    BY <2>1, <2>2, Zenon
<1>7. ASSUME NEW b \in Buckets, NEW t \in Nat, clock <= t + QuoteRequestWindowSeconds - MaxDelay
      PROVE  /\ Cardinality(Since(b, t)) \in Nat
             /\ Cardinality(Since(b, t)) <= Cardinality(Late(KeptTimes(b, now), t))
  <2>1. Cardinality(Since(b, t)) <= Cardinality(Late(quoteAdmissions[b], t))
    BY <1>7, Zenon DEF RateInv, QueueCounts
  <2>2. now <= t + QuoteRequestWindowSeconds - MaxDelay
    BY <1>0, <1>7, DatedTimes, Zenon DEF RateType
  <2>3. Cardinality(Late(quoteAdmissions[b], t)) <= Cardinality(Late(KeptTimes(b, now), t))
    BY <1>0, <2>2, QueueKept, Zenon DEF KeptTimes, RateInv, TimesPositive
  <2>4. Late(quoteAdmissions[b], t) \subseteq DOMAIN quoteAdmissions[b]
    BY Zenon DEF Late
  <2>5. Cardinality(Late(quoteAdmissions[b], t)) \in Nat
    BY <1>0, <2>4, IndicesFinite, Zenon
  <2>6. Cardinality(Since(b, t)) \in Nat
    BY <1>0, SinceFinite, Zenon
  <2> QED
    BY <1>3, <2>1, <2>3, <2>5, <2>6
<1>8. ASSUME NEW b \in Buckets, b \notin BucketsOf(q) PROVE Requester[q] \notin AgentsOf(b)
  BY <1>8 DEF BucketsOf, AgentsOf
<1>9. QueueCounts'
  <2> SUFFICES ASSUME NEW b \in Buckets, NEW t \in Nat,
                      clock <= t + QuoteRequestWindowSeconds - MaxDelay
               PROVE  Cardinality(Since(b, t)') <= Cardinality(Late(quoteAdmissions'[b], t))
    BY Zenon DEF QueueCounts, Late, Buckets
  <2>1. CASE b \in BucketsOf(q)
    <3> DEFINE u == KeptTimes(b, now)
    <3>1. quoteAdmissions'[b] = Append(u, now) /\ u \in Seq(Nat)
      BY <1>1, <1>3, <2>1, Zenon
    <3>2. /\ Cardinality(Since(b, t)) \in Nat /\ Cardinality(Late(u, t)) \in Nat
          /\ Cardinality(Since(b, t)) <= Cardinality(Late(u, t))
      BY <1>3, <1>7, Zenon
    <3> HIDE DEF u
    <3>3. /\ Cardinality(Late(Append(u, now), t)) >= Cardinality(Late(u, t))
          /\ now > t - MaxDelay => Cardinality(Late(Append(u, now), t)) = Cardinality(Late(u, t)) + 1
      BY <3>1, AppendLate, Zenon
    <3>4. Cardinality(Late(Append(u, now), t)) \in Nat
      <4>1. Late(Append(u, now), t) \subseteq DOMAIN Append(u, now)
        BY Zenon DEF Late
      <4>2. Append(u, now) \in Seq(Nat)
        BY <3>1
      <4> QED
        BY <4>1, <4>2, IndicesFinite, Zenon
    <3>5. CASE clock > t
      <4>1. now > t - MaxDelay
        BY <1>0, <3>5, DatedTimes, Zenon DEF RateType
      <4>2. Cardinality(Since(b, t)') <= Cardinality(Since(b, t)) + 1 /\ Cardinality(Since(b, t)') \in Nat
        <5>1. Cardinality(Since(b, t)') <= Cardinality(Since(b, t)) + 1
          BY <1>0, <1>2, AppendCommit, Zenon
        <5>2. Cardinality(Since(b, t)') \in Nat
          <6>1. Since(b, t)' \subseteq DOMAIN commits'
            BY Zenon DEF Since
          <6> QED
            BY <1>5, <6>1, IndicesFinite, Zenon DEF RateType
        <5> QED
          BY <5>1, <5>2, Zenon
      <4>3. Cardinality(Since(b, t)') <= Cardinality(Late(Append(u, now), t))
        BY <3>2, <3>3, <3>4, <4>1, <4>2
      <4> QED
        BY <3>1, <4>3, Zenon
    <3>6. CASE ~(clock > t)
      <4>1. Since(b, t)' = Since(b, t)
        BY <1>0, <1>2, <3>6, AppendCommit, Zenon
      <4>2. Cardinality(Since(b, t)) <= Cardinality(Late(Append(u, now), t))
        BY <3>2, <3>3, <3>4
      <4> QED
        BY <3>1, <4>1, <4>2, Zenon
    <3> QED
      BY <3>5, <3>6, Zenon
  <2>2. CASE b \notin BucketsOf(q)
    <3>1. quoteAdmissions'[b] = quoteAdmissions[b]
      BY <1>1, <2>2, Zenon
    <3>2. Since(b, t)' = Since(b, t)
      BY <1>0, <1>2, <1>8, <2>2, AppendCommit, Zenon
    <3> QED
      BY <3>1, <3>2, Zenon DEF RateInv, QueueCounts
  <2> QED
    BY <2>1, <2>2, Zenon
<1>10. SpansBounded'
  <2> SUFFICES ASSUME NEW b \in Buckets, NEW t \in Nat
               PROVE  Cardinality(Within(b, t)') <= Limit(b)
    BY Zenon DEF SpansBounded, Limit, Buckets
  <2>1. CASE b \in BucketsOf(q) /\ clock <= t + QuoteRequestWindowSeconds - MaxDelay
    <3>1. Cardinality(Within(b, t)') <= Cardinality(Since(b, t)) + 1
      BY <1>0, <1>2, AppendCommit, Zenon
    <3>2. /\ Cardinality(Since(b, t)) \in Nat
          /\ Cardinality(Since(b, t)) <= Cardinality(Late(KeptTimes(b, now), t))
      BY <1>7, <2>1, Zenon
    <3>3. /\ Cardinality(Late(KeptTimes(b, now), t)) \in Nat /\ Len(KeptTimes(b, now)) \in Nat
          /\ Cardinality(Late(KeptTimes(b, now), t)) <= Len(KeptTimes(b, now))
      <4>1. KeptTimes(b, now) \in Seq(Nat)
        BY <1>3, Zenon
      <4> QED
        BY <1>3, <4>1, LenProperties, Zenon
    <3>4. Len(KeptTimes(b, now)) < Limit(b) /\ Limit(b) \in Nat
      <4>1. CASE b = "global"
        BY <4>1, AdmissionAssumption, Zenon DEF Reserves, Limit
      <4>2. CASE b # "global"
        <5>1. b = Requester[q]
          BY <2>1, <4>2, Zenon DEF BucketsOf
        <5> QED
          BY <4>2, <5>1, AdmissionAssumption, Zenon DEF Reserves, Limit
      <4> QED
        BY <4>1, <4>2, Zenon
    <3>5. Cardinality(Within(b, t)') \in Nat
      <4>1. Within(b, t)' \subseteq DOMAIN commits'
        BY Zenon DEF Within
      <4> QED
        BY <1>5, <4>1, IndicesFinite, Zenon DEF RateType
    <3> QED
      BY <3>1, <3>2, <3>3, <3>4, <3>5
  <2>2. CASE ~(b \in BucketsOf(q) /\ clock <= t + QuoteRequestWindowSeconds - MaxDelay)
    <3>1. Within(b, t)' = Within(b, t)
      BY <1>0, <1>2, <1>8, <2>2, AppendCommit, Zenon
    <3> QED
      BY <3>1, Zenon DEF RateInv, SpansBounded
  <2> QED
    BY <2>1, <2>2, Zenon
<1> QED
  BY <1>5, <1>6, <1>9, <1>10, Zenon DEF RateInv

\* The invariant bounds the rate of reservations.
LEMMA RateIsBounded ==
  ASSUME RateInv
  PROVE  RateBounded
<1> SUFFICES ASSUME NEW t \in Times
             PROVE  /\ Cardinality(Within("global", t)) <= MaximumQuoteRequestsPerWindow
                    /\ \A agent \in Agents :
                         Cardinality(Within(agent, t)) <= MaximumQuoteRequestsPerRequesterWindow
  <2>1. ASSUME NEW agent \in Agents PROVE AgentsOf(agent) = {agent}
    BY <2>1, AdmissionAssumption, Zenon DEF AgentsOf
  <2>2. AgentsOf("global") = Agents
    BY Zenon DEF AgentsOf
  <2> QED
    BY <2>1, <2>2, Zenon DEF RateBounded, Within
<1>1. t \in Nat
  BY AdmissionAssumption DEF Times
<1>2. Limit("global") = MaximumQuoteRequestsPerWindow /\ "global" \in Buckets
  BY Zenon DEF Limit, Buckets
<1>3. \A agent \in Agents : /\ Limit(agent) = MaximumQuoteRequestsPerRequesterWindow
                            /\ agent \in Buckets
  BY AdmissionAssumption DEF Limit, Buckets
<1> QED
  BY <1>1, <1>2, <1>3, Zenon DEF RateInv, SpansBounded

-----------------------------------------------------------------------------
(* The two halves together. *)

AdmissionInv == CallInv /\ ValueInv /\ RateInv

\* A step that leaves the journal alone keeps its half of the invariant.
LEMMA ValueStays ==
  ASSUME ValueInv, UNCHANGED <<reservations, records>>
  PROVE  ValueInv'
<1>1. JournalType' /\ OfferedStay'
  BY Zenon DEF ValueInv, JournalType, OfferedStay
<1>2. Bound'
  BY Zenon DEF ValueInv, Bound, AtRisk
<1>3. Unreleased(reservations)' = Unreleased(reservations)
  BY Zenon DEF Unreleased
<1>4. Outstanding'
  BY <1>3, Zenon DEF ValueInv, Outstanding
<1>5. OpenActions' = OpenActions
  BY Zenon DEF OpenActions
<1>6. \A agent : OpenOf(agent)' = OpenOf(agent)
  BY <1>5, Zenon DEF OpenOf
<1>7. OpenBounded'
  BY <1>5, <1>6, Zenon DEF ValueInv, OpenBounded
<1> QED
  BY <1>1, <1>2, <1>4, <1>7, Zenon DEF ValueInv

\* The initial state satisfies the invariant.
LEMMA AdmissionInit ==
  ASSUME Init
  PROVE  AdmissionInv
<1>1. /\ reservations = [r \in Requests |-> None] /\ records = [a \in Actions |-> None]
      /\ quoteAdmissions = [b \in Buckets |-> << >>] /\ calls = [p \in Servers |-> NoCall]
      /\ signed = {} /\ commits = << >> /\ clock = 1
  BY Zenon DEF Init
<1>2. << >> \in Seq(Nat) /\ << >> \in Seq([at : Nat, of : Agents]) /\ DOMAIN << >> = {} /\ clock \in Nat
  BY <1>1
<1>3. quoteAdmissions \in [Buckets -> Seq(Nat)] /\ commits \in Seq([at : Nat, of : Agents])
  BY <1>1, <1>2, Zenon
<1>4. CallInv
  <2>1. CallsAreCurrent
    BY <1>1 DEF CallsAreCurrent
  <2>2. /\ reservations \in [Requests -> QuoteReservations \cup {None}]
        /\ records \in [Actions -> AdmittedRecords \cup {None}]
        /\ calls \in [Servers -> QuoteCalls \cup AdmitCalls \cup {NoCall}]
        /\ signed \subseteq SignedQuotes
    BY <1>1, Zenon
  <2> QED
    BY <1>2, <1>3, <2>1, <2>2, Zenon DEF CallInv, TypeOK
<1>5. ValueInv
  <2>1. (\A a \in Actions : records[a] = None) /\ (\A r \in Requests : reservations[r] = None)
    BY <1>1, Zenon
  <2>2. JournalType /\ Bound /\ OfferedStay
    BY <1>4, <2>1, Zenon DEF CallInv, TypeOK, JournalType, Bound, OfferedStay
  <2>3. Outstanding
    <3>1. Unreleased(reservations) = {}
      BY <2>1, Zenon DEF Unreleased
    <3>2. SumFunctionOnSet(Amount, Unreleased(reservations)) = 0
      BY <3>1, AmountType, SumEmpty, Zenon
    <3> QED
      BY <3>2, AdmissionAssumption DEF Outstanding
  <2>4. OpenBounded
    <3>1. OpenActions = {}
      BY <2>1, Zenon DEF OpenActions
    <3>2. \A agent : OpenOf(agent) = {}
      BY <3>1, Zenon DEF OpenOf
    <3>3. Cardinality({}) = 0
      BY FS_EmptySet, Zenon
    <3>4. 0 <= MaximumActiveExecutions /\ 0 <= MaximumActivePerRequester
      BY AdmissionAssumption
    <3>5. Cardinality(OpenActions) <= MaximumActiveExecutions
      BY <3>1, <3>3, <3>4, Zenon
    <3> QED
      BY <3>2, <3>3, <3>4, <3>5, Zenon DEF OpenBounded
  <2> QED
    BY <2>2, <2>3, <2>4, Zenon DEF ValueInv
<1>6. RateInv
  <2>1. \A b, t : Since(b, t) = {} /\ Within(b, t) = {}
    BY <1>1, <1>2, Zenon DEF Since, Within
  <2>2. Cardinality({}) = 0
    BY FS_EmptySet
  <2>3. ASSUME NEW b \in Buckets PROVE quoteAdmissions[b] = << >> /\ \A t : Late(quoteAdmissions[b], t) = {}
    <3>1. quoteAdmissions[b] = << >>
      BY <1>1, Zenon
    <3> QED
      BY <1>2, <3>1, Zenon DEF Late
  <2>4. QueueCounts
    <3> SUFFICES ASSUME NEW b \in Buckets, NEW t \in Nat
                 PROVE  Cardinality(Since(b, t)) <= Cardinality(Late(quoteAdmissions[b], t))
      BY Zenon DEF QueueCounts
    <3>1. Since(b, t) = {} /\ Late(quoteAdmissions[b], t) = {}
      BY <2>1, <2>3, Zenon
    <3> QED
      BY <2>2, <3>1
  <2>5. SpansBounded
    <3>1. MaximumQuoteRequestsPerWindow \in Nat /\ MaximumQuoteRequestsPerRequesterWindow \in Nat
      BY AdmissionAssumption, Zenon
    <3>2. 0 <= MaximumQuoteRequestsPerWindow /\ 0 <= MaximumQuoteRequestsPerRequesterWindow
      BY <3>1
    <3>3. \A b : 0 <= Limit(b)
      BY <3>2, Zenon DEF Limit
    <3> QED
      BY <2>1, <2>2, <3>3, Zenon DEF SpansBounded
  <2>6. TimesPositive
    <3> SUFFICES ASSUME NEW b \in Buckets, NEW k \in DOMAIN quoteAdmissions[b] PROVE FALSE
      BY Zenon DEF TimesPositive
    <3>1. quoteAdmissions[b] = << >>
      BY <2>3
    <3> QED
      BY <1>2, <3>1, Zenon
  <2> QED
    BY <1>2, <1>3, <2>4, <2>5, <2>6, Zenon DEF RateInv, RateType
<1> QED
  BY <1>4, <1>5, <1>6, Zenon DEF AdmissionInv

\* Every step keeps the invariant.
LEMMA AdmissionStep ==
  ASSUME AdmissionInv, [Next]_vars
  PROVE  AdmissionInv'
<1>0. CallInv /\ TypeOK /\ ValueInv /\ RateInv /\ clock \in Nat
  BY Zenon DEF AdmissionInv, CallInv, TypeOK
<1>1. /\ Waiting \/ Dropping \/ Refusing \/ Reserving \/ Admitting \/ Advancing
      /\ calls' \in [Servers -> QuoteCalls \cup AdmitCalls \cup {NoCall}]
      /\ signed' \subseteq SignedQuotes
      /\ CallsAreCurrent' /\ clock' \in Nat
  BY <1>0, Steps, Zenon
<1>2. ASSUME UNCHANGED clock PROVE clock' >= clock
  BY <1>0, <1>2
<1>3. ValueInv' /\ RateInv'
  <2>1. CASE Waiting
    BY <1>0, <2>1, ValueStays, RateStays, Zenon DEF Waiting
  <2>2. CASE Dropping
    BY <1>0, <1>1, <1>2, <2>2, ValueDrops, RateStays, Zenon DEF Dropping, Drops
  <2>3. CASE Refusing
    BY <1>0, <2>3, ValueDrops, RateRefuses, Zenon DEF Refusing, Refuses
  <2>4. CASE Reserving
    BY <1>0, <2>4, ValueReserves, RateReserves, Zenon DEF Reserving
  <2>5. CASE Admitting
    BY <1>0, <1>1, <1>2, <2>5, ValueAdmits, RateStays, Zenon DEF Admitting
  <2>6. CASE Advancing
    BY <1>0, <1>1, <1>2, <2>6, ValueAdvances, RateStays, Zenon DEF Advancing
  <2> QED
    BY <1>1, <2>1, <2>2, <2>3, <2>4, <2>5, <2>6, Zenon
<1>4. TypeOK'
  BY <1>1, <1>3, Zenon DEF TypeOK, ValueInv, JournalType, RateInv, RateType
<1> QED
  BY <1>1, <1>3, <1>4, Zenon DEF AdmissionInv, CallInv

\* What the provider admits stays within its policy, for every number of
\* servers, requests and actions, every policy and every delay of a call: the
\* sponsorship of the actions at risk and of the quotes that can still be
\* admitted is at most MaximumOutstandingAtomic, no more actions are open than
\* the profile allows, a quote is admitted once, and the queues of Quote's rate
\* limit, which see late times in any order, still bound the reservations made
\* in every span.
THEOREM AdmissionBounded == Spec => []ExposureBounded
<1>1. Init => AdmissionInv
  BY AdmissionInit
<1>2. AdmissionInv /\ [Next]_vars => AdmissionInv'
  BY AdmissionStep
<1>3. AdmissionInv => ExposureBounded
  BY ValueIsBounded, RateIsBounded, Zenon DEF AdmissionInv, ExposureBounded
<1> QED
  BY <1>1, <1>2, <1>3, PTL DEF Spec

=============================================================================
