----------------------------- MODULE BuyerFunding -----------------------------
(***************************************************************************)
(* Buyer.FundPurchase (pkg/buyersdk/buyer.go) over the budget journal      *)
(* (journal.go). Several buyer processes share one wallet and one journal  *)
(* directory. Each runs FundPurchase one step at a time: a finalized read, *)
(* a journal file operation or a call of the funding sender. The escrow    *)
(* and the wallet transfer on chain are external.                          *)
(***************************************************************************)
EXTENDS Integers, FiniteSets, Functions

CONSTANTS Buyers, Keys, Purchases,
          Asset, Amount,      \* what purchase p is paid in, and how much of it
          Deadline,           \* funding deadline of the escrows
          Window, MaxPurchases, MaxTotal,
          MaxTime, None

ASSUME BuyerAssumption ==
  /\ IsFiniteSet(Purchases)
  /\ Amount \in [Purchases -> Nat \ {0}]
  /\ Asset \in [Purchases -> {Asset[p] : p \in Purchases}]
  /\ Window \in Nat /\ MaxTime \in Nat /\ Deadline \in Nat
  /\ MaxPurchases \in Nat \ {0} /\ MaxTotal \in Nat
  /\ None \notin Purchases /\ None \notin Buyers

\* BudgetLimits.permits: every single purchase fits the limits.
ASSUME PermitsAssumption == \A p \in Purchases : Amount[p] <= MaxTotal

VARIABLES
  record,    \* purchase-*.json files
  request,   \* request-*.json files: the purchase a key was used for
  lock,      \* holder of .buyer-budget.lock between two writes, or None
  pc, job,   \* where each buyer is in FundPurchase, and for what
  now,       \* b.now() as read before begin takes the lock
  clock,
  escrow,    \* finalized status of each escrow
  flight,    \* transfers on their way to each escrow
  sent,      \* calls of BroadcastStablecoinFunding for each purchase
  returned   \* purchases some call returned as funded

journal == <<record, request, lock>>
local == <<pc, job, now>>
ledger == <<escrow, flight>>
vars == <<journal, local, clock, ledger, sent, returned>>

NoRecord == [phase |-> "absent", claimed |-> 0]
NoJob == [key |-> None, purchase |-> None]
Mine(b) == job[b].purchase

Goto(b, l) == pc' = [pc EXCEPT ![b] = l]
SetPhase(b, f) == record' = [record EXCEPT ![Mine(b)].phase = f]

Return(b) ==
  /\ Goto(b, "idle")
  /\ job' = [job EXCEPT ![b] = NoJob]
  /\ now' = [now EXCEPT ![b] = 0]

Success(b) == returned' = returned \cup {Mine(b)}

-----------------------------------------------------------------------------
Init ==
  /\ record = [p \in Purchases |-> NoRecord]
  /\ request = [k \in Keys |-> None]
  /\ lock = None
  /\ pc = [b \in Buyers |-> "idle"]
  /\ job = [b \in Buyers |-> NoJob]
  /\ now = [b \in Buyers |-> 0]
  /\ clock = 0
  /\ escrow = [p \in Purchases |-> "awaiting"]
  /\ flight = [p \in Purchases |-> 0]
  /\ sent = [p \in Purchases |-> 0]
  /\ returned = {}

\* FundPurchase up to begin: revalidatePurchase checks the deadline and reads
\* the finalized escrow. A funded one is returned as it is.
FundPurchase(b, k, p) ==
  /\ pc[b] = "idle"
  /\ clock < Deadline
  /\ \/ /\ escrow[p] = "funded"
        /\ returned' = returned \cup {p}
        /\ UNCHANGED local
     \/ /\ escrow[p] = "awaiting"
        /\ job' = [job EXCEPT ![b] = [key |-> k, purchase |-> p]]
        /\ now' = [now EXCEPT ![b] = clock]
        /\ Goto(b, "begin")
        /\ UNCHANGED returned
  /\ UNCHANGED <<journal, clock, ledger, sent>>

\* MUTANT: claims of the present second are left out.
CountedEarlier(b) ==
  {p \in Purchases : /\ record[p].phase # "absent"
                     /\ record[p].claimed >= now[b] - Window
                     /\ record[p].claimed < now[b]
                     /\ Asset[p] = Asset[Mine(b)]}

\* enforce: claims on the same asset that are not before the cutoff.
Counted(b) ==
  {p \in Purchases : /\ record[p].phase # "absent"
                     /\ record[p].claimed >= now[b] - Window
                     /\ Asset[p] = Asset[Mine(b)]}

Total(S) == SumFunctionOnSet(Amount, S)

Enforce(b) ==
  /\ Cardinality(Counted(b)) < MaxPurchases
  /\ Total(Counted(b)) + Amount[Mine(b)] <= MaxTotal

BeginRefuses(b) ==
  \/ request[job[b].key] \notin {None, Mine(b)}
  \/ (record[Mine(b)].phase = "absent" /\ ~Enforce(b))

\* begin up to the purchase file. The lock is kept for the request file.
BeginRecord(b) ==
  /\ pc[b] = "begin"
  /\ lock = None
  /\ \/ /\ BeginRefuses(b)
        /\ Return(b)
        /\ UNCHANGED <<record, lock>>
     \/ /\ ~BeginRefuses(b)
        /\ record' = IF record[Mine(b)].phase # "absent" THEN record ELSE
                     [record EXCEPT ![Mine(b)] =
                        [phase |-> "prepared", claimed |-> now[b]]]
        /\ lock' = b
        /\ Goto(b, "request")
        /\ UNCHANGED <<job, now>>
  /\ UNCHANGED <<request, clock, ledger, sent, returned>>

\* MUTANT: only a complete record sends the caller to the chain.
BeginRequestRetries(b) ==
  /\ pc[b] = "request"
  /\ request' = [request EXCEPT ![job[b].key] = Mine(b)]
  /\ lock' = None
  /\ IF record[Mine(b)].phase = "complete"
     THEN Goto(b, "resolve") /\ UNCHANGED record
     ELSE SetPhase(b, "prepared") /\ Goto(b, "prepare")
  /\ UNCHANGED <<job, now, clock, ledger, sent, returned>>

\* The request file, and the caller goes on by the phase of the record.
BeginRequest(b) ==
  /\ pc[b] = "request"
  /\ request' = [request EXCEPT ![job[b].key] = Mine(b)]
  /\ lock' = None
  /\ Goto(b, IF record[Mine(b)].phase = "prepared" THEN "prepare" ELSE "resolve")
  /\ UNCHANGED <<record, job, now, clock, ledger, sent, returned>>

\* MUTANT: a recorded broadcast is reported as funding.
ResolveTrusting(b) ==
  /\ pc[b] = "resolve"
  /\ Success(b)
  /\ Return(b)
  /\ UNCHANGED <<journal, clock, ledger, sent>>

\* A record that is already leased: read the escrow and never send again. The
\* phase begin returned decides whether complete is called.
Resolve(b) ==
  /\ pc[b] = "resolve"
  /\ \/ /\ escrow[Mine(b)] = "funded"
        /\ Success(b)
        /\ \/ Goto(b, "settle") /\ UNCHANGED <<job, now>>
           \/ record[Mine(b)].phase = "complete" /\ Return(b)
     \/ Return(b) /\ UNCHANGED returned
  /\ UNCHANGED <<journal, clock, ledger, sent>>

\* PrepareStablecoinFunding builds and signs the message, or fails.
Prepare(b) ==
  /\ pc[b] = "prepare"
  /\ Goto(b, "acquire")
  /\ UNCHANGED <<journal, job, now, clock, ledger, sent, returned>>

PrepareFails(b) ==
  /\ pc[b] = "prepare"
  /\ Return(b)
  /\ UNCHANGED <<journal, clock, ledger, sent, returned>>

Acquire(b) ==
  /\ pc[b] = "acquire" /\ lock = None
  /\ \/ /\ record[Mine(b)].phase = "prepared"
        /\ SetPhase(b, "broadcasting")
        /\ Goto(b, "broadcast")
        /\ UNCHANGED <<job, now>>
     \/ /\ record[Mine(b)].phase # "prepared"
        /\ Return(b)
        /\ UNCHANGED record
  /\ UNCHANGED <<request, lock, clock, ledger, sent, returned>>

\* BroadcastStablecoinFunding: submitted, or an error that says nothing about
\* whether the message is out.
Broadcast(b) ==
  /\ pc[b] = "broadcast"
  /\ sent' = [sent EXCEPT ![Mine(b)] = @ + 1]
  /\ flight' = [flight EXCEPT ![Mine(b)] = @ + 1]
  /\ Goto(b, "complete")
  /\ UNCHANGED <<journal, job, now, clock, escrow, returned>>

BroadcastFails(b) ==
  /\ pc[b] = "broadcast"
  /\ sent' = [sent EXCEPT ![Mine(b)] = @ + 1]
  /\ \E n \in {0, 1} : flight' = [flight EXCEPT ![Mine(b)] = @ + n]
  /\ Return(b)
  /\ UNCHANGED <<journal, clock, escrow, returned>>

\* journal.complete after the broadcast or after a resolved record.
Complete(b) ==
  /\ pc[b] \in {"complete", "settle"} /\ lock = None
  /\ record' = IF record[Mine(b)].phase \in {"broadcasting", "complete"}
               THEN [record EXCEPT ![Mine(b)].phase = "complete"] ELSE record
  /\ IF pc[b] = "complete" /\ record[Mine(b)].phase \in {"broadcasting", "complete"}
     THEN Goto(b, "wait") /\ UNCHANGED <<job, now>>
     ELSE Return(b)
  /\ UNCHANGED <<request, lock, clock, ledger, sent, returned>>

\* waitFunded: funded, another status, an error or the finality timeout.
WaitFunded(b) ==
  /\ pc[b] = "wait"
  /\ \/ escrow[Mine(b)] = "funded" /\ Success(b)
     \/ UNCHANGED returned
  /\ Return(b)
  /\ UNCHANGED <<journal, clock, ledger, sent>>

\* MUTANT: the lock file stays locked.
CrashKeepsLock(b) ==
  /\ pc[b] # "idle"
  /\ Return(b)
  /\ UNCHANGED <<journal, clock, ledger, sent, returned>>

Crash(b) ==
  /\ pc[b] # "idle"
  /\ Return(b)
  /\ lock' = IF lock = b THEN None ELSE lock
  /\ UNCHANGED <<record, request, clock, ledger, sent, returned>>

-----------------------------------------------------------------------------
(* The escrow contract and the network.                                    *)

\* A transfer arrives. It funds an escrow that still waits for it, and goes
\* back to the buyer otherwise.
Arrive(p) ==
  /\ flight[p] > 0
  /\ flight' = [flight EXCEPT ![p] = @ - 1]
  /\ escrow' = IF escrow[p] = "awaiting" /\ clock <= Deadline
               THEN [escrow EXCEPT ![p] = "funded"] ELSE escrow
  /\ UNCHANGED <<journal, local, clock, sent, returned>>

\* A message that no block takes before it expires.
Drop(p) ==
  /\ flight[p] > 0
  /\ flight' = [flight EXCEPT ![p] = @ - 1]
  /\ UNCHANGED <<journal, local, clock, escrow, sent, returned>>

\* The provider is paid or the buyer refunded.
Close(p) ==
  /\ escrow[p] = "funded"
  /\ escrow' = [escrow EXCEPT ![p] = "closed"]
  /\ UNCHANGED <<journal, local, clock, flight, sent, returned>>

Tick ==
  /\ clock < MaxTime
  /\ clock' = clock + 1
  /\ UNCHANGED <<journal, local, ledger, sent, returned>>

Step(b) ==
  \/ BeginRecord(b) \/ BeginRequest(b) \/ Resolve(b)
  \/ Prepare(b) \/ PrepareFails(b) \/ Acquire(b)
  \/ Broadcast(b) \/ BroadcastFails(b) \/ Complete(b) \/ WaitFunded(b)

Next ==
  \/ \E b \in Buyers, k \in Keys, p \in Purchases : FundPurchase(b, k, p)
  \/ \E b \in Buyers : Step(b) \/ Crash(b)
  \/ \E p \in Purchases : Arrive(p) \/ Drop(p) \/ Close(p)
  \/ Tick

Spec == Init /\ [][Next]_vars

\* A caller that keeps asking for a purchase until it is no longer prepared; the
\* sender does not fail for ever, flock serves its waiters in turn, and waiters
\* do not die again and again.
RetrySpec ==
  /\ Spec
  /\ <>[][\A b \in Buyers : pc[b] = "acquire" => ~Crash(b)]_vars
  /\ \A b \in Buyers :
       /\ WF_vars(Step(b))
       /\ SF_vars(BeginRecord(b)) /\ SF_vars(BeginRequest(b))
       /\ SF_vars(Prepare(b)) /\ SF_vars(Acquire(b)) /\ SF_vars(Complete(b))
       /\ \A p \in Purchases, k \in Keys : SF_vars(FundPurchase(b, k, p))

-----------------------------------------------------------------------------
\* "Success is returned only after finalized escrow state contains the exact
\* funded amount": never because the journal says complete.
SuccessIsFunded == \A p \in returned : escrow[p] \in {"funded", "closed"}

\* The purchases claimed within any window of claim times respect the limits of
\* their asset, although the time is read before the lock and stale in it.
InWindow(t, x) == {p \in Purchases : /\ record[p].phase # "absent"
                                    /\ record[p].claimed \in t .. (t + Window)
                                    /\ Asset[p] = x}

BudgetRespected ==
  \A t \in 0 .. MaxTime, p \in Purchases :
    /\ Cardinality(InWindow(t, Asset[p])) <= MaxPurchases
    /\ Total(InWindow(t, Asset[p])) <= MaxTotal

\* docs/buyer-sdk.md: "A crash in `prepared` is safely recoverable". A purchase
\* that a caller keeps asking for does not stay prepared for ever, wherever the
\* processes that worked on it died.
PreparedRecovers ==
  \A p \in Purchases : record[p].phase = "prepared" ~> record[p].phase # "prepared"

-----------------------------------------------------------------------------
\* The budget journal implements PayOnce too, with a purchase as its own claim.
Abstract == INSTANCE PayOnce WITH
  Subjects <- Purchases, Claims <- Purchases,
  owner <- [p \in Purchases |-> IF record[p].phase = "absent" THEN None ELSE p],
  paid <- sent,
  settled <- [p \in Purchases |-> record[p].phase = "complete"]

\* Each purchase is claimed once, paid for at most once and settled for good.
ImplementsPayOnce == Abstract!Spec
=============================================================================
