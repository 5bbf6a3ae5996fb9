---------------------------- MODULE RelayAdmission ----------------------------
(***************************************************************************)
(* The quote reservations of the agent relay journal                       *)
(* (pkg/agentrelay/state.go): Quote reserves exposure for a signed quote,  *)
(* Submit's admission consumes the reservation, and the exposure stays     *)
(* reserved until the action is closed without a transfer or the transfer  *)
(* is settled. A call reads the clock before it waits for external         *)
(* services and for the journal's lock, so the times the journal sees are  *)
(* late by up to MaxDelay and not in order.                                *)
(*                                                                         *)
(* What happens to an admitted record is RelayProvider; here it is open,   *)
(* closed or settled. There is one asset, and a request of amount 0 asks   *)
(* for no sponsorship.                                                     *)
(***************************************************************************)
EXTENDS Integers, Sequences, FiniteSetsExt

CONSTANTS Servers, Requests, Actions, Agents, None,
          Requester,  \* the agent that signed a request
          Amount,     \* the sponsorship it asks for
          MaximumOutstandingAtomic, MaximumPerRequestAtomic,
          MaximumQuoteReservations,
          MaximumActiveExecutions, MaximumActivePerRequester,
          QuoteRequestWindowSeconds,
          MaximumQuoteRequestsPerWindow, MaximumQuoteRequestsPerRequesterWindow,
          QuoteLife,  \* the policy's quotes expire this much later
          MaxDelay, MaxTime

SignedQuotes == [request : Requests, expires : Nat]
\* quoteReservation, and what is kept of a record.
QuoteReservations ==
  [quote : SignedQuotes, consumed : BOOLEAN, released : BOOLEAN, action : Actions \cup {None}]
AdmittedRecords ==
  [quote : SignedQuotes, open : BOOLEAN, transfer : BOOLEAN, settled : BOOLEAN]

ASSUME AdmissionAssumption ==
  /\ IsFiniteSet(Requests) /\ IsFiniteSet(Actions)
  /\ Requester \in [Requests -> Agents] /\ Amount \in [Requests -> Nat]
  /\ None \notin Requests \cup Actions \cup QuoteReservations \cup AdmittedRecords
  /\ "global" \notin Agents
  /\ {MaximumOutstandingAtomic, MaximumPerRequestAtomic, MaximumQuoteReservations,
      MaximumActiveExecutions, MaximumActivePerRequester, QuoteRequestWindowSeconds,
      MaximumQuoteRequestsPerWindow, MaximumQuoteRequestsPerRequesterWindow,
      QuoteLife, MaxDelay, MaxTime} \subseteq Nat
  /\ QuoteLife > 0

VARIABLES
  reservations,     \* quoteReservations: per request a reservation or None
  records,          \* per stable action id a record or None
  quoteAdmissions,  \* times of admitted quote requests, per bucket
  calls,            \* per server the call it works on
  signed,           \* the quotes given to requesters
  commits,          \* when each new reservation was made, for RateBounded
  clock

vars == <<reservations, records, quoteAdmissions, calls, signed, commits, clock>>

Times == 0 .. MaxTime
Buckets == Agents \cup {"global"}
NoCall == [op |-> "none"]

Init ==
  /\ reservations = [r \in Requests |-> None]
  /\ records = [a \in Actions |-> None]
  /\ quoteAdmissions = [b \in Buckets |-> <<>>]
  /\ calls = [p \in Servers |-> NoCall]
  /\ signed = {} /\ commits = <<>> /\ clock = 1  \* no call is made at time 0

------------------------------------------------------------------------------

ReleaseExpiredUnconsumed(now) ==
  [r \in Requests |->
     IF /\ reservations[r] # None /\ ~reservations[r].consumed
        /\ reservations[r].quote.expires <= now
     THEN None ELSE reservations[r]]

\* activeQuoteReservationsLocked
ActiveQuoteReservations(held) ==
  Cardinality({r \in Requests : held[r] # None /\ ~held[r].consumed})

\* Mutant: what actions consumed is not counted.
CanReserveUnconsumed(held, request) ==
  SumFunctionOnSet(Amount, {r \in Requests : held[r] # None /\ ~held[r].consumed})
    + Amount[request] <= MaximumOutstandingAtomic

CanReserveExposure(held, request) ==
  LET unreleased == {r \in Requests : held[r] # None /\ ~held[r].released} IN
  /\ Amount[request] <= MaximumPerRequestAtomic
  /\ SumFunctionOnSet(Amount, unreleased) + Amount[request]
       <= MaximumOutstandingAtomic

\* activeExecutionsLocked for a set of requesters
ActiveExecutions(agents) ==
  Cardinality({a \in Actions : /\ records[a] # None /\ records[a].open
                               /\ Requester[records[a].quote.request] \in agents})

\* pruneRelayAdmissionTimes drops the times at the front that are not later
\* than the cutoff.
PruneRelayAdmissionTimes(times, cutoff) ==
  LET late == {i \in DOMAIN times : times[i] > cutoff} IN
  IF late = {} THEN <<>> ELSE SubSeq(times, Min(late), Len(times))

------------------------------------------------------------------------------
(***************************************************************************)
(* Calls.                                                                  *)
(***************************************************************************)
Return(p) == calls' = [calls EXCEPT ![p] = NoCall]

\* Quote reads the clock, and the policy's quote is signed for that time.
Quote(p, request) ==
  /\ calls[p] = NoCall
  /\ calls' = [calls EXCEPT ![p] =
       [op |-> "quote", now |-> clock,
        quote |-> [request |-> request, expires |-> clock + QuoteLife]]]
  /\ UNCHANGED <<reservations, records, quoteAdmissions, signed, commits, clock>>

ReserveQuote(p) ==
  LET call == calls[p]
      request == call.quote.request
      held == ReleaseExpiredUnconsumed(call.now)
      cutoff == IF call.now > QuoteRequestWindowSeconds
                THEN call.now - QuoteRequestWindowSeconds ELSE 0
      buckets == {"global", Requester[request]}
      kept(b) == PruneRelayAdmissionTimes(quoteAdmissions[b], cutoff)
      new == [quote |-> call.quote, consumed |-> FALSE, released |-> FALSE, action |-> None]
  IN
  /\ call.op = "quote"
  /\ CASE held[request] # None ->
            /\ reservations' = held
            /\ signed' = IF held[request].quote.expires > call.now
                         THEN signed \cup {held[request].quote} ELSE signed
            /\ UNCHANGED <<quoteAdmissions, commits>>
       [] \/ held[request] = None /\ ActiveQuoteReservations(held) >= MaximumQuoteReservations
          \/ held[request] = None /\ Amount[request] > 0 /\ ~CanReserveExposure(held, request) ->
            reservations' = held /\ UNCHANGED <<quoteAdmissions, signed, commits>>
       [] OTHER ->
            IF \/ Len(kept("global")) >= MaximumQuoteRequestsPerWindow
               \/ Len(kept(Requester[request])) >= MaximumQuoteRequestsPerRequesterWindow
            THEN /\ reservations' = held
                 /\ quoteAdmissions' = [b \in Buckets |-> IF b \in buckets THEN kept(b)
                                                          ELSE quoteAdmissions[b]]
                 /\ UNCHANGED <<signed, commits>>
            ELSE /\ reservations' = [held EXCEPT ![request] = new]
                 /\ quoteAdmissions' = [b \in Buckets |->
                      IF b \in buckets THEN Append(kept(b), call.now) ELSE quoteAdmissions[b]]
                 /\ signed' = signed \cup {call.quote}
                 /\ commits' = Append(commits, [at |-> clock, of |-> Requester[request]])
  /\ Return(p)
  /\ UNCHANGED <<records, clock>>

\* Submit reads the clock again before it asks the admission authority.
Submit(p, quote, action) ==
  /\ calls[p] = NoCall /\ quote \in signed
  /\ calls' = [calls EXCEPT ![p] = [op |-> "admit", quote |-> quote, action |-> action,
                                    now |-> clock]]
  /\ UNCHANGED <<reservations, records, quoteAdmissions, signed, commits, clock>>

Admit(p) ==
  LET call == calls[p]
      request == call.quote.request
      reservation == reservations[request]
      refused ==
        \/ records[call.action] # None
        \/ reservation = None
        \/ reservation.quote # call.quote
        \/ reservation.consumed
        \/ ActiveExecutions(Agents) >= MaximumActiveExecutions
        \/ ActiveExecutions({Requester[request]}) >= MaximumActivePerRequester
  IN
  /\ call.op = "admit"
  /\ IF /\ records[call.action] = None /\ reservation # None
        /\ reservation.quote = call.quote /\ call.quote.expires <= call.now
     THEN /\ reservations' = [reservations EXCEPT ![request] =
                                IF reservation.consumed THEN reservation ELSE None]
          /\ UNCHANGED records
     ELSE IF refused THEN UNCHANGED <<reservations, records>>
     ELSE /\ records' = [records EXCEPT ![call.action] =
               [quote |-> call.quote, open |-> TRUE, transfer |-> FALSE, settled |-> FALSE]]
          /\ reservations' = [reservations EXCEPT ![request] =
               [quote |-> call.quote, consumed |-> TRUE, released |-> FALSE,
                action |-> call.action]]
  /\ Return(p)
  /\ UNCHANGED <<quoteAdmissions, signed, commits, clock>>

\* The call dies or fails before it reaches the journal.
Fail(p) ==
  /\ calls[p] # NoCall /\ Return(p)
  /\ UNCHANGED <<reservations, records, quoteAdmissions, signed, commits, clock>>

------------------------------------------------------------------------------
(***************************************************************************)
(* What becomes of an admitted action.                                     *)
(***************************************************************************)
ReleaseRecordExposure(action, record) ==
  LET request == record.quote.request IN
  reservations' =
    IF /\ reservations[request] # None /\ reservations[request].consumed
       /\ reservations[request].action = action
       /\ record.transfer => record.settled
    THEN [reservations EXCEPT ![request].released = TRUE]
    ELSE reservations

Close(action, transfer) ==
  /\ records[action] # None /\ records[action].open
  /\ transfer => Amount[records[action].quote.request] > 0
  /\ records' = [records EXCEPT ![action].open = FALSE, ![action].transfer = transfer]
  /\ ReleaseRecordExposure(action, records'[action])
  /\ UNCHANGED <<quoteAdmissions, calls, signed, commits, clock>>

ReleaseSponsorshipExposure(action) ==
  /\ records[action] # None /\ ~records[action].open
  /\ records[action].transfer /\ ~records[action].settled
  /\ records' = [records EXCEPT ![action].settled = TRUE]
  /\ ReleaseRecordExposure(action, records'[action])
  /\ UNCHANGED <<quoteAdmissions, calls, signed, commits, clock>>

Tick ==
  /\ clock < MaxTime /\ clock' = clock + 1
  /\ \A p \in Servers : calls[p] # NoCall => clock' <= calls[p].now + MaxDelay
  /\ UNCHANGED <<reservations, records, quoteAdmissions, calls, signed, commits>>

Next ==
  \/ \E p \in Servers :
       \/ \E r \in Requests : Quote(p, r)
       \/ \E q \in signed, a \in Actions : Submit(p, q, a)
       \/ ReserveQuote(p) \/ Admit(p) \/ Fail(p)
  \/ \E a \in Actions : \/ \E transfer \in BOOLEAN : Close(a, transfer)
                        \/ ReleaseSponsorshipExposure(a)
  \/ Tick

Spec == Init /\ [][Next]_vars

------------------------------------------------------------------------------
(***************************************************************************)
(* Properties.                                                             *)
(***************************************************************************)
\* What the provider may still have to pay for, and what it paid and was not
\* reimbursed for.
AtRisk(action) ==
  /\ records[action] # None
  /\ records[action].open \/ (records[action].transfer /\ ~records[action].settled)

\* A signed quote is admitted for one action only, and an action at risk has
\* the reservation of its own quote, consumed by it and not released.
AdmittedOnce ==
  /\ \A a, b \in {x \in Actions : records[x] # None} :
       records[a].quote = records[b].quote => a = b
  /\ \A a \in Actions : AtRisk(a) =>
       LET reservation == reservations[records[a].quote.request] IN
       /\ reservation # None /\ reservation.quote = records[a].quote
       /\ reservation.consumed /\ reservation.action = a /\ ~reservation.released

\* MaximumOutstandingAtomic bounds the value really at risk: the sponsorship
\* of every admitted action that is open or was paid and not settled,
\* together with every quote that could still be admitted. Expired
\* reservations are dropped, but never those of an action. And no more actions
\* are open at once than the profile allows, in all and for one requester.
ValueAtRiskBounded ==
  LET open == {a \in Actions : records[a] # None /\ records[a].open}
      exposed == {a \in Actions : AtRisk(a)}
      offered == {r \in Requests : /\ reservations[r] # None /\ ~reservations[r].consumed
                                   /\ reservations[r].quote.expires > clock}
  IN /\ AdmittedOnce
     /\ SumFunctionOnSet([a \in exposed |-> Amount[records[a].quote.request]], exposed)
          + SumFunctionOnSet(Amount, offered) <= MaximumOutstandingAtomic
     /\ Cardinality(open) <= MaximumActiveExecutions
     /\ \A agent \in Agents :
          Cardinality({a \in open : Requester[records[a].quote.request] = agent})
            <= MaximumActivePerRequester

\* The quote rate holds although calls reach the journal late and out of
\* order: in any span shorter than the window by the delay of a call, no
\* more reservations are made than the window allows, in all and for one
\* requester.
RateBounded ==
  \A t \in Times :
    LET within(agents) ==
          {i \in DOMAIN commits :
             /\ commits[i].of \in agents
             /\ commits[i].at > t /\ commits[i].at <= t + QuoteRequestWindowSeconds - MaxDelay}
    IN /\ Cardinality(within(Agents)) <= MaximumQuoteRequestsPerWindow
       /\ \A agent \in Agents :
            Cardinality(within({agent})) <= MaximumQuoteRequestsPerRequesterWindow

\* What the provider admits stays within its policy: the value at risk, the
\* open actions and the rate of reservations.
ExposureBounded == ValueAtRiskBounded /\ RateBounded
==============================================================================
