------------------------- MODULE RelayAuthorization -------------------------
(***************************************************************************)
(* How an agent's writer gets a provider to start the side effects of one  *)
(* relay execution: writer leases and authorized actions                   *)
(* (pkg/agentcommerce/authority.go), side-effect admission receipts and    *)
(* provider failover (pkg/agentrelay/admission.go), and the verification   *)
(* a provider makes of the request it is sent (validation.go).             *)
(*                                                                         *)
(* The Action Authority that grants leases, rotates its key and persists   *)
(* receipts is external: it is modelled from the interface comments of     *)
(* admission.go. A digest is what it commits to; a signature is the key    *)
(* that made it. The owner, the principal, the policy and the mandate are  *)
(* one each.                                                               *)
(***************************************************************************)
EXTENDS Integers, Sequences, FiniteSets, FiniteSetsExt

CONSTANTS Executions,        \* sequence of execution requests clients prepare
          LeaseLife,         \* how long the authority leases the writer role
          MaxStartDelay,     \* MaxRelayAdmissionStartDelay
          MaxAttempts,       \* MaxRelayRouteAttempts
          Skew,              \* MaxIntentClockSkew
          MaxLeases, MaxKeys, MaxReceipts, MaxAsked, MaxAuthTime   \* bounds

VARIABLES authTime, leases, keys, authorized, asked, receipts, held, started
authVars == <<authTime, leases, keys, authorized, asked, receipts, held, started>>

\* Times are times of the Unix epoch.
ASSUME AuthAssumption ==
  /\ LeaseLife \in Nat /\ MaxStartDelay \in Nat /\ MaxAttempts \in Nat /\ Skew \in Nat
  /\ \A n \in DOMAIN Executions :
       LET x == Executions[n]
       IN /\ x.expires \in Nat /\ x.created \in Nat /\ x.quoteFrom \in Nat
          /\ x.windows \in SUBSET Nat

------------------------------------------------------------------------------
(***************************************************************************)
(* Documents. An execution request names the underlying action by its      *)
(* stable identifier and exact request, and the transaction that performs  *)
(* it; `windows` are the ends of its agreement, quote and transaction.     *)
(***************************************************************************)
RelayExecutionRequest(stable, exact, transaction, mode, assurance, provider,
                      created, expires, quoteFrom, windows) ==
  [stable |-> stable, exact |-> exact, transaction |-> transaction, mode |-> mode,
   assurance |-> assurance, provider |-> provider, created |-> created,
   expires |-> expires, quoteFrom |-> quoteFrom, windows |-> windows]

WriterFence(issued, expires, key) == [issued |-> issued, expires |-> expires, key |-> key]

AuthorizedAction(stable, exact, generation, expires, key) ==
  [stable |-> stable, exact |-> exact, generation |-> generation,
   expires |-> expires, key |-> key]

Generation == Len(leases)
Fence(action) == leases[action.generation]

ValidateWriterFenceBody(fence) == fence.issued >= 0 /\ fence.expires > fence.issued

RelaySideEffectStages(mode) ==
  CASE mode = "relay_exact" -> {"broadcast"}
    [] mode = "sponsor_only" -> {"sponsorship"}
    [] mode = "sponsor_and_relay" -> {"broadcast", "sponsorship"}

\* The authority's key directory: a key counts from its introduction to the
\* second of its successor's.
AuthorizeFenceKey(key, at) ==
  keys[key] <= at /\ (key < Len(keys) => at <= keys[key + 1])

ConfirmCurrentWriterFence(action) == action.generation = Generation

VerifyWriterFenceAtAuthorityTime(fence, validityAt, authorityAt) ==
  /\ ValidateWriterFenceBody(fence)
  /\ validityAt < fence.expires /\ validityAt >= fence.issued - Skew
  /\ authorityAt < fence.expires /\ authorityAt >= fence.issued - Skew
  /\ AuthorizeFenceKey(fence.key, authorityAt)

\* The validity windows are those of validityAt; the authority's key is the
\* one it had at authorityAt.
VerifyAuthorizedActionAtAuthorityTime(action, x, validityAt, authorityAt) ==
  /\ action.expires <= Fence(action).expires /\ validityAt < action.expires
  /\ VerifyWriterFenceAtAuthorityTime(Fence(action), validityAt, authorityAt)
  /\ action.key = Fence(action).key /\ AuthorizeFenceKey(action.key, authorityAt)
  /\ action.stable = x.stable /\ action.exact = x.exact

VerifyAuthorizedAction(action, x) ==
  VerifyAuthorizedActionAtAuthorityTime(action, x, authTime, authTime)

------------------------------------------------------------------------------
(***************************************************************************)
(* Admission. A descriptor is an execution, the action that authorizes it  *)
(* and its place in the route: the attempt, and the receipt before it.     *)
(***************************************************************************)
Descriptor(n, action, attempt, predecessor) ==
  [n |-> n, action |-> action, attempt |-> attempt, predecessor |-> predecessor]

StartCap(d) ==
  Min({Executions[d.n].expires, d.action.expires, Fence(d.action).expires}
        \cup Executions[d.n].windows)

ValidateRelayAdmissionRoute(d) ==
  d.attempt \in 1 .. MaxAttempts /\ (d.attempt = 1) = (d.predecessor = 0)

FailoverEligible(x) == x.mode = "relay_exact" /\ x.assurance = "autonomous"

\* Mutant: a successor route is not limited to relay-only executions.
TransitionOfAnyMode(r, d) ==
  LET was == Executions[r.d.n]  x == Executions[d.n]
  IN /\ r.d.attempt < MaxAttempts /\ d.attempt = r.d.attempt + 1
     /\ d.predecessor \in DOMAIN receipts /\ receipts[d.predecessor] = r
     /\ x.transaction = was.transaction /\ x.assurance = was.assurance
     /\ x.stable = was.stable /\ x.exact = was.exact
     /\ x.provider # was.provider

\* ValidateRelaySideEffectAdmissionRouteTransition: d may follow receipt r.
RouteTransition(r, d) ==
  LET was == Executions[r.d.n]  x == Executions[d.n]
  IN /\ FailoverEligible(was) /\ FailoverEligible(x)
     /\ r.d.attempt < MaxAttempts /\ d.attempt = r.d.attempt + 1
     /\ d.predecessor \in DOMAIN receipts /\ receipts[d.predecessor] = r
     /\ x.transaction = was.transaction /\ x.assurance = was.assurance
     /\ x.stable = was.stable /\ x.exact = was.exact
     /\ x.provider # was.provider

ValidateDescriptor(d) ==
  /\ ValidateRelayAdmissionRoute(d)
  /\ StartCap(d) > 0 /\ StartCap(d) <= d.action.expires
  /\ VerifyAuthorizedAction(d.action, Executions[d.n])

BuildReceiptBody(d, start) ==
  [d |-> d, issued |-> authTime, until |-> start, key |-> Fence(d.action).key]

ValidateReceiptBody(r) ==
  /\ ValidateRelayAdmissionRoute(r.d)
  /\ r.until > r.issued /\ r.until - r.issued <= MaxStartDelay

\* VerifyRelaySideEffectAdmissionReceiptForDescriptor. The receipt's own
\* descriptor is compared with the request's field by field; here they are
\* the same document.
VerifyReceipt(r, now) ==
  LET fence == Fence(r.d.action)  x == Executions[r.d.n]
  IN /\ ValidateReceiptBody(r)
     /\ r.key = fence.key /\ r.key = r.d.action.key
     /\ r.issued <= now /\ now < r.until
     /\ r.issued >= fence.issued /\ r.issued >= x.created
     /\ r.until <= StartCap(r.d)

------------------------------------------------------------------------------
(***************************************************************************)
(* Verification of the execution request, before admission by the client   *)
(* and before the start by the provider.                                   *)
(***************************************************************************)
CoreShape(x) == x.expires > x.created /\ \A w \in x.windows : x.expires <= w

VerifyCoreAtAuthorityTime(n, action, now, authorityAt) ==
  LET x == Executions[n]
  IN /\ CoreShape(x)
     /\ x.quoteFrom <= now /\ now < x.expires
     /\ x.created <= now + Skew /\ x.created >= x.quoteFrom
     /\ x.expires <= action.expires /\ x.expires <= Fence(action).expires
     /\ VerifyAuthorizedActionAtAuthorityTime(action, x, now, authorityAt)

VerifyForAdmission(n, action) ==
  /\ VerifyCoreAtAuthorityTime(n, action, authTime, authTime)
  /\ ConfirmCurrentWriterFence(action)

\* Mutant: the authority's key is looked up as of now.
VerifyAtPresentKey(r) ==
  /\ VerifyReceipt(r, authTime)
  /\ VerifyCoreAtAuthorityTime(r.d.n, r.d.action, authTime, authTime)

VerifyRelayExecutionRequest(r) ==
  /\ VerifyReceipt(r, authTime)
  /\ VerifyCoreAtAuthorityTime(r.d.n, r.d.action, authTime, r.issued)

------------------------------------------------------------------------------
(***************************************************************************)
(* Actions.                                                                *)
(***************************************************************************)
AuthInit ==
  /\ authTime = 0 /\ keys = <<0>>
  /\ leases = <<WriterFence(0, LeaseLife, 1)>>
  /\ authorized = {} /\ asked = {} /\ receipts = <<>> /\ held = {} /\ started = {}

\* The authority installs another writer, or renews the lease.
SignWriterFence ==
  /\ Generation < MaxLeases
  /\ leases' = Append(leases, WriterFence(authTime, authTime + LeaseLife, Len(keys)))
  /\ UNCHANGED <<authTime, keys, authorized, asked, receipts, held, started>>

RotateAuthorityKey ==
  /\ Len(keys) < MaxKeys
  /\ keys' = Append(keys, authTime)
  /\ UNCHANGED <<authTime, leases, authorized, asked, receipts, held, started>>

\* BuildAuthorizedAction and SignAuthorizedAction: neither looks at whether
\* the writer's lease is the current one.
SignAuthorizedAction(n, generation) ==
  LET x == Executions[n]
      action == AuthorizedAction(x.stable, x.exact, generation,
                                 leases[generation].expires, Len(keys))
  IN /\ authorized' = authorized \cup {action}
     /\ UNCHANGED <<authTime, leases, keys, asked, receipts, held, started>>

\* The client's preflight, then the request to the authority: for a first
\* route, or for the one after a receipt it holds.
AskAdmission(n, action, predecessor) ==
  LET d == Descriptor(n, action,
             IF predecessor = 0 THEN 1 ELSE receipts[predecessor].d.attempt + 1, predecessor)
  IN /\ Cardinality(asked) < MaxAsked /\ VerifyForAdmission(n, action)
     /\ predecessor # 0 => RouteTransition(receipts[predecessor], d)
     /\ asked' = asked \cup {d}
     /\ UNCHANGED <<authTime, leases, keys, authorized, receipts, held, started>>

\* The authority's binding index: the last receipt of a stable action.
RouteHead(d) ==
  LET same == {i \in DOMAIN receipts :
                 Executions[receipts[i].d.n].stable = Executions[d.n].stable}
  IN IF same = {} THEN 0 ELSE Max(same)

\* AdmitRelaySideEffects, whenever the request arrives: a descriptor that has
\* a receipt keeps it; a new one extends its action's route, from the writer
\* that is current when the receipt is persisted, under that lease's key.
AdmitRelaySideEffects(d) ==
  /\ ValidateDescriptor(d)
  /\ \A i \in DOMAIN receipts : receipts[i].d # d
  /\ IF RouteHead(d) = 0 THEN d.attempt = 1 ELSE RouteTransition(receipts[RouteHead(d)], d)
  /\ ConfirmCurrentWriterFence(d.action) /\ Len(receipts) < MaxReceipts
  /\ LET r == BuildReceiptBody(d, Min({StartCap(d), authTime + MaxStartDelay}))
     IN ValidateReceiptBody(r) /\ receipts' = Append(receipts, r)
  /\ UNCHANGED <<authTime, leases, keys, authorized, asked, held, started>>

\* The answer arrives, or a later ResolveRelaySideEffectAdmission returns
\* the receipt that was persisted.
ResolveAdmission(i) ==
  /\ i \notin held /\ held' = held \cup {i}
  /\ UNCHANGED <<authTime, leases, keys, authorized, asked, receipts, started>>

\* The provider verifies the submitted request and starts its stages. The
\* writer's lease need not be current any more.
Start(i) ==
  /\ VerifyRelayExecutionRequest(receipts[i])
  /\ \A s \in started : s.receipt # i
  /\ started' = started \cup {[receipt |-> i, at |-> authTime]}
  /\ UNCHANGED <<authTime, leases, keys, authorized, asked, receipts, held>>

AuthTick ==
  /\ authTime < MaxAuthTime /\ authTime' = authTime + 1
  /\ UNCHANGED <<leases, keys, authorized, asked, receipts, held, started>>

AuthNext ==
  \/ SignWriterFence \/ RotateAuthorityKey \/ AuthTick
  \/ \E n \in DOMAIN Executions, g \in DOMAIN leases : SignAuthorizedAction(n, g)
  \/ \E n \in DOMAIN Executions, action \in authorized, p \in held \cup {0} :
       AskAdmission(n, action, p)
  \/ \E d \in asked : AdmitRelaySideEffects(d)
  \/ \E i \in DOMAIN receipts : ResolveAdmission(i)
  \/ \E i \in held : Start(i)

AuthSpec == AuthInit /\ [][AuthNext]_authVars

------------------------------------------------------------------------------
(***************************************************************************)
(* Properties.                                                             *)
(***************************************************************************)
\* "A second Provider route could duplicate a top-up payment" (admission.go):
\* whatever takeovers, retries, lost answers and failovers happen, at most
\* one execution of a stable action ever starts when one of them sponsors,
\* executions of the same action only ever broadcast one transaction, and a
\* route never follows one of the same provider.
OneEffectPerAction ==
  \A s, t \in started :
    LET x == Executions[receipts[s.receipt].d.n]
        y == Executions[receipts[t.receipt].d.n]
    IN s # t /\ x.stable = y.stable =>
         /\ "sponsorship" \notin RelaySideEffectStages(x.mode)
         /\ x.transaction = y.transaction
         /\ receipts[t.receipt].d.predecessor = s.receipt => x.provider # y.provider

\* "An already-issued action can drain after a legitimate key rotation"
\* (authority.go): as long as its start window is open, a receipt the client
\* holds can be started, whatever takeovers and rotations came after it. (A
\* receipt issued before its execution's creation time, which the clock skew
\* allows, never can.)
ReceiptsDrain ==
  \A i \in held :
    LET r == receipts[i]
    IN authTime < r.until /\ r.issued >= Executions[r.d.n].created =>
         VerifyRelayExecutionRequest(r)

\* A start is inside every window the parties signed, and at most the start
\* delay after an instant at which its writer held the lease under a key the
\* authority used then: no provider begins on behalf of a writer that lost
\* its lease longer ago than that.
StartsFollowCurrentWriter ==
  \A s \in started :
    LET r == receipts[s.receipt]  g == r.d.action.generation
    IN /\ \A w \in Executions[r.d.n].windows : s.at < w
       /\ s.at < leases[g].expires
       /\ g < Generation => s.at < leases[g + 1].issued + MaxStartDelay

\* The starts of an action exclude each other and follow the current writer,
\* and the receipts that are held can be started.
StartsFollowReceipts == OneEffectPerAction /\ StartsFollowCurrentWriter /\ ReceiptsDrain
==============================================================================
