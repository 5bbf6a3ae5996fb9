-------------------------- MODULE AuthorityProofs --------------------------
(***************************************************************************)
(* Proofs about who may act: RelayAuthorization, for every sequence of     *)
(* execution requests, whatever leases, keys and receipts follow each      *)
(* other; and AgentPacket, for any number of handlers, any nonces and      *)
(* payloads, any TTL and lifetime, and any clock.                          *)
(***************************************************************************)
EXTENDS RelayAuthorization, AgentPacket, WellFoundedInduction, TLAPS

\* Leases, actions, descriptors and receipts as the authority makes them.
Leased == [issued : Nat, expires : Nat, key : Nat]
Granted ==
  [stable : {Executions[n].stable : n \in DOMAIN Executions},
   exact : {Executions[n].exact : n \in DOMAIN Executions},
   generation : Nat, expires : Nat, key : Nat]
Described == [n : DOMAIN Executions, action : Granted, attempt : Int, predecessor : Int]
Issued == [d : Described, issued : Nat, until : Nat, key : Nat]

AuthType ==
  /\ authTime \in Nat
  /\ keys \in Seq(Nat) /\ Len(keys) >= 1
  /\ leases \in Seq(Leased) /\ Len(leases) >= 1
  /\ \A g \in DOMAIN leases : leases[g].issued <= authTime /\ leases[g].key \in DOMAIN keys
  /\ authorized \in SUBSET Granted /\ \A a \in authorized : a.generation \in DOMAIN leases
  /\ asked \in SUBSET Described /\ \A d \in asked : d.action \in authorized
  /\ receipts \in Seq(Issued) /\ \A i \in DOMAIN receipts : receipts[i].d \in asked
  /\ held \in SUBSET DOMAIN receipts
  /\ \A s \in started : s.receipt \in held /\ s.at \in Nat

\* What the client's preflight established of a descriptor it asked with.
AskFits(d) ==
  LET x == Executions[d.n]
  IN /\ CoreShape(x) /\ x.quoteFrom <= authTime
     /\ x.created <= authTime + Skew /\ x.created >= x.quoteFrom
     /\ x.expires <= d.action.expires /\ x.expires <= Fence(d.action).expires

\* What the authority established when it persisted a receipt: its writer was
\* the current one, and is replaced no earlier.
ReceiptFits(r) ==
  LET fence == Fence(r.d.action)  g == r.d.action.generation
  IN /\ r.issued <= authTime /\ ValidateReceiptBody(r)
     /\ r.key = fence.key /\ r.issued >= fence.issued
     /\ r.until <= StartCap(r.d)
     /\ VerifyAuthorizedActionAtAuthorityTime(r.d.action, Executions[r.d.n], r.issued, r.issued)
     /\ g + 1 \in DOMAIN leases => r.issued <= leases[g + 1].issued

Execution(i) == Executions[receipts[i].d.n]

\* The receipts of one action are one route.
RouteInv ==
  /\ \A i, j \in DOMAIN receipts : i # j /\ Execution(i).stable = Execution(j).stable =>
       FailoverEligible(Execution(i)) /\ Execution(i).transaction = Execution(j).transaction
  /\ \A j \in DOMAIN receipts :
       LET p == receipts[j].d.predecessor
       IN p # 0 => p \in DOMAIN receipts /\ Execution(p).provider # Execution(j).provider

StartInv ==
  /\ \A s \in started : s.at < receipts[s.receipt].until
  /\ \A s, t \in started : s.receipt = t.receipt => s = t

AuthInv ==
  /\ AuthType /\ RouteInv /\ StartInv
  /\ \A d \in asked : AskFits(d)
  /\ \A i \in DOMAIN receipts : ReceiptFits(receipts[i])

\* What a step does to the authority's time, leases and keys: they grow.
Grows ==
  /\ authTime <= authTime'
  /\ \A g \in DOMAIN leases : g \in DOMAIN leases' /\ leases'[g] = leases[g]
  /\ \A g \in DOMAIN leases' \ DOMAIN leases : authTime <= leases'[g].issued
  /\ Len(keys) <= Len(keys') /\ \A k \in DOMAIN keys : keys'[k] = keys[k]
  /\ \A k \in DOMAIN keys' \ DOMAIN keys : authTime <= keys'[k]

\* A sequence is a function on an interval.
LEMMA SeqFields ==
  ASSUME NEW S, NEW q \in Seq(S)
  PROVE  /\ Len(q) \in Nat /\ q \in [1 .. Len(q) -> S] /\ DOMAIN q = 1 .. Len(q)
  BY SMT

\* A sequence and one more element.
LEMMA Extended ==
  ASSUME NEW S, NEW q \in Seq(S), NEW e \in S
  PROVE  /\ Append(q, e) \in Seq(S) /\ Len(Append(q, e)) = Len(q) + 1
         /\ \A i \in 1 .. Len(q) : Append(q, e)[i] = q[i]
         /\ Append(q, e)[Len(q) + 1] = e
  BY SMT

\* A set of numbers has a least element, which Min gives.
LEMMA MinLeast ==
  ASSUME NEW S \in SUBSET Nat, S # {}
  PROVE  Min(S) \in S /\ \A y \in S : Min(S) <= y
<1> DEFINE R == OpToRel(<, Nat)
<1>1. PICK x \in S : \A y \in S : ~(<<y, x>> \in R)
  <2>1. IsWellFoundedOn(R, Nat)
    BY NatLessThanWellFounded
  <2> HIDE DEF R
  <2> QED
    BY <2>1, WFMin, Zenon
<1>2. \A y \in S : ~(y < x)
  BY <1>1, Zenon DEF OpToRel
<1>3. \A y \in S : x <= y
  BY <1>2
<1> QED
  BY <1>3, Zenon DEF Min

\* Max of a bounded set of numbers belongs to the set.
LEMMA MaxInSet ==
  ASSUME NEW c \in Nat, NEW S \in SUBSET (1 .. c), S # {}
  PROVE  Max(S) \in S
<1> DEFINE T == {c - i : i \in S}
<1>1. T \in SUBSET Nat /\ T # {}
  <2>1. \A i \in S : c - i \in Nat
    OBVIOUS
  <2>2. \A t \in T : t \in Nat
    BY <2>1
  <2>3. PICK i : i \in S
    OBVIOUS
  <2>4. c - i \in T
    BY <2>3
  <2> QED
    BY <2>2, <2>4
<1>2. Min(T) \in T /\ \A y \in T : Min(T) <= y
  <2> HIDE DEF T
  <2> QED
    BY <1>1, MinLeast
<1>3. PICK i \in S : Min(T) = c - i
  BY <1>2, Zenon
<1>4. \A j \in S : i >= j
  <2> SUFFICES ASSUME NEW j \in S PROVE i >= j
    OBVIOUS
  <2>1. c - i <= c - j
    BY <1>2, <1>3, Zenon
  <2> QED
    BY <2>1
<1> QED
  BY <1>4, Zenon DEF Max

\* The fields of leases, keys, descriptors and receipts.
LEMMA AuthFields ==
  ASSUME AuthType
  PROVE  /\ Len(leases) \in Nat /\ DOMAIN leases = 1 .. Len(leases)
         /\ \A g \in DOMAIN leases :
              leases[g].issued \in Nat /\ leases[g].expires \in Nat /\ leases[g].key \in Nat
         /\ \A g \in DOMAIN leases : leases[g].key \in DOMAIN keys
         /\ Len(keys) \in Nat /\ DOMAIN keys = 1 .. Len(keys)
         /\ \A k \in DOMAIN keys : keys[k] \in Nat
         /\ Len(receipts) \in Nat /\ DOMAIN receipts = 1 .. Len(receipts)
         /\ \A i \in DOMAIN receipts :
              /\ receipts[i].issued \in Nat /\ receipts[i].until \in Nat
              /\ receipts[i].d \in Described /\ receipts[i] \in Issued
              /\ receipts[i].d.action.generation \in DOMAIN leases
<1>1. /\ Len(leases) \in Nat /\ DOMAIN leases = 1 .. Len(leases)
      /\ \A g \in DOMAIN leases : leases[g] \in Leased
  BY SeqFields, Zenon DEF AuthType
<1>2. /\ Len(keys) \in Nat /\ DOMAIN keys = 1 .. Len(keys)
      /\ \A k \in DOMAIN keys : keys[k] \in Nat
  BY SeqFields, Zenon DEF AuthType
<1>3. /\ Len(receipts) \in Nat /\ DOMAIN receipts = 1 .. Len(receipts)
      /\ \A i \in DOMAIN receipts : receipts[i] \in Issued
  BY SeqFields, Zenon DEF AuthType
<1>4. \A g \in DOMAIN leases :
        leases[g].issued \in Nat /\ leases[g].expires \in Nat /\ leases[g].key \in Nat
  BY <1>1 DEF Leased
<1>5. \A i \in DOMAIN receipts :
        receipts[i].issued \in Nat /\ receipts[i].until \in Nat /\ receipts[i].d \in Described
  BY <1>3 DEF Issued
<1>6. \A i \in DOMAIN receipts : receipts[i].d.action.generation \in DOMAIN leases
  BY Zenon DEF AuthType
<1>7. \A g \in DOMAIN leases : leases[g].key \in DOMAIN keys
  BY Zenon DEF AuthType
<1> QED
  BY <1>1, <1>2, <1>3, <1>4, <1>5, <1>6, <1>7, Zenon

\* The fields of a descriptor.
LEMMA DescriptorFields ==
  ASSUME NEW d \in Described
  PROVE  /\ d.n \in DOMAIN Executions /\ d.action \in Granted
         /\ d.attempt \in Int /\ d.predecessor \in Int
         /\ d.action.generation \in Nat /\ d.action.expires \in Nat /\ d.action.key \in Nat
<1>1. d.n \in DOMAIN Executions /\ d.action \in Granted /\ d.attempt \in Int /\ d.predecessor \in Int
  BY DEF Described
<1> QED
  BY <1>1 DEF Granted

\* The cap of a start is below every window that was signed.
LEMMA CapBounds ==
  ASSUME AuthType, NEW d \in Described, d.action.generation \in DOMAIN leases
  PROVE  /\ StartCap(d) \in Nat
         /\ StartCap(d) <= Executions[d.n].expires
         /\ StartCap(d) <= d.action.expires /\ StartCap(d) <= Fence(d.action).expires
         /\ \A w \in Executions[d.n].windows : StartCap(d) <= w
<1> DEFINE S == {Executions[d.n].expires, d.action.expires, Fence(d.action).expires}
                  \cup Executions[d.n].windows
<1>1. Fence(d.action).expires \in Nat /\ d.action.expires \in Nat
  BY AuthFields, DescriptorFields, Zenon DEF Fence
<1>2. Executions[d.n].expires \in Nat /\ Executions[d.n].windows \in SUBSET Nat
  BY AuthAssumption, DescriptorFields, Zenon
<1>3. S \in SUBSET Nat /\ S # {}
  BY <1>1, <1>2
<1>4. StartCap(d) = Min(S)
  BY DEF StartCap
<1>5. Min(S) \in S /\ \A y \in S : Min(S) <= y
  <2> HIDE DEF S
  <2> QED
    BY <1>3, MinLeast
<1> QED
  BY <1>1, <1>2, <1>4, <1>5, Zenon

\* The receipt the authority builds for a descriptor.
LEMMA NewReceipt ==
  ASSUME AuthType, NEW d \in asked
  PROVE  LET r == BuildReceiptBody(d, Min({StartCap(d), authTime + MaxStartDelay}))
         IN /\ r \in Issued /\ r.d = d /\ r.issued = authTime
            /\ r.key = Fence(d.action).key /\ r.until <= StartCap(d)
<1> DEFINE S == {StartCap(d), authTime + MaxStartDelay}
<1>1. d \in Described /\ d.action.generation \in DOMAIN leases /\ authTime \in Nat
  BY DEF AuthType
<1>2. StartCap(d) \in Nat
  BY <1>1, CapBounds
<1>3. S \in SUBSET Nat /\ S # {}
  BY <1>1, <1>2, AuthAssumption
<1>4. Min(S) \in Nat /\ Min(S) <= StartCap(d)
  <2>1. StartCap(d) \in S
    OBVIOUS
  <2> HIDE DEF S
  <2> QED
    BY <1>3, <2>1, MinLeast, Zenon
<1>5. Fence(d.action).key \in Nat
  BY <1>1, AuthFields, Zenon DEF Fence
<1> HIDE DEF S
<1> QED
  BY <1>1, <1>4, <1>5 DEF BuildReceiptBody, Issued, S

\* No step takes time, a lease or a key back.
LEMMA StepGrows ==
  ASSUME AuthType, [AuthNext]_authVars
  PROVE  Grows
<1> USE AuthFields
<1>1. CASE SignWriterFence
  <2> DEFINE f == WriterFence(authTime, authTime + LeaseLife, Len(keys))
  <2>0. authTime \in Nat /\ authTime + LeaseLife \in Nat /\ Len(keys) \in Nat
    BY AuthAssumption DEF AuthType
  <2>1. f \in Leased /\ f.issued = authTime
    BY <2>0 DEF WriterFence, Leased
  <2>2. /\ leases' = Append(leases, f) /\ leases \in Seq(Leased)
        /\ UNCHANGED <<authTime, keys>>
    BY <1>1 DEF SignWriterFence, AuthType
  <2> HIDE DEF f
  <2>3. /\ Len(leases') = Len(leases) + 1 /\ DOMAIN leases' = 1 .. Len(leases')
        /\ \A g \in 1 .. Len(leases) : leases'[g] = leases[g]
        /\ leases'[Len(leases) + 1] = f
    BY <2>1, <2>2, Extended, SeqFields
  <2>4. \A g \in DOMAIN leases : g \in DOMAIN leases' /\ leases'[g] = leases[g]
    BY <2>3
  <2>5. \A g \in DOMAIN leases' \ DOMAIN leases : leases'[g].issued = authTime
    BY <2>1, <2>3
  <2>6. authTime \in Nat
    BY DEF AuthType
  <2> QED
    BY <2>2, <2>4, <2>5, <2>6 DEF Grows
<1>2. CASE RotateAuthorityKey
  <2>1. /\ keys' = Append(keys, authTime) /\ keys \in Seq(Nat) /\ authTime \in Nat
        /\ UNCHANGED <<authTime, leases>>
    BY <1>2 DEF RotateAuthorityKey, AuthType
  <2>2. /\ Len(keys') = Len(keys) + 1 /\ DOMAIN keys' = 1 .. Len(keys')
        /\ \A k \in 1 .. Len(keys) : keys'[k] = keys[k]
        /\ keys'[Len(keys) + 1] = authTime
    BY <2>1, Extended, SeqFields
  <2>3. \A k \in DOMAIN keys : keys'[k] = keys[k]
    BY <2>2
  <2>4. \A k \in DOMAIN keys' \ DOMAIN keys : keys'[k] = authTime
    BY <2>2
  <2> QED
    BY <2>1, <2>2, <2>3, <2>4 DEF Grows
<1>3. CASE AuthTick
  BY <1>3 DEF AuthTick, AuthType, Grows
<1>4. CASE UNCHANGED <<authTime, leases, keys>>
  BY <1>4 DEF AuthType, Grows
<1> QED
  BY <1>1, <1>2, <1>3, <1>4, Zenon DEF AuthNext, authVars, SignAuthorizedAction, AskAdmission,
     AdmitRelaySideEffects, ResolveAdmission, Start

\* Every step keeps the types.
LEMMA TypeStep ==
  ASSUME AuthType, [AuthNext]_authVars
  PROVE  AuthType'
<1> USE AuthFields
<1>1. CASE SignWriterFence
  <2> DEFINE f == WriterFence(authTime, authTime + LeaseLife, Len(keys))
  <2>1. f \in Leased /\ f.issued = authTime /\ f.key \in DOMAIN keys
    BY AuthAssumption DEF WriterFence, Leased, AuthType
  <2>2. /\ leases' = Append(leases, f) /\ leases \in Seq(Leased)
        /\ UNCHANGED <<authTime, keys, authorized, asked, receipts, held, started>>
    BY <1>1 DEF SignWriterFence, AuthType
  <2> HIDE DEF f
  <2>3. /\ leases' \in Seq(Leased)
        /\ Len(leases') = Len(leases) + 1 /\ DOMAIN leases' = 1 .. Len(leases')
        /\ \A g \in 1 .. Len(leases) : leases'[g] = leases[g]
        /\ leases'[Len(leases) + 1] = f
    BY <2>1, <2>2, Extended, SeqFields
  <2>4. \A g \in DOMAIN leases' : leases'[g].issued <= authTime /\ leases'[g].key \in DOMAIN keys
    <3>1. /\ authTime \in Nat
          /\ \A g \in DOMAIN leases : leases[g].issued <= authTime /\ leases[g].key \in DOMAIN keys
      BY DEF AuthType
    <3> QED
      BY <2>1, <2>3, <3>1
  <2>5. DOMAIN leases \subseteq DOMAIN leases' /\ Len(leases') >= 1
    BY <2>3
  <2> QED
    BY <2>2, <2>3, <2>4, <2>5, Zenon DEF AuthType
<1>2. CASE RotateAuthorityKey
  <2>1. /\ keys' = Append(keys, authTime) /\ keys \in Seq(Nat) /\ authTime \in Nat
        /\ UNCHANGED <<authTime, leases, authorized, asked, receipts, held, started>>
    BY <1>2 DEF RotateAuthorityKey, AuthType
  <2>2. keys' \in Seq(Nat) /\ Len(keys') = Len(keys) + 1 /\ DOMAIN keys' = 1 .. Len(keys')
    BY <2>1, Extended, SeqFields
  <2>3. DOMAIN keys \subseteq DOMAIN keys' /\ Len(keys') >= 1
    BY <2>2
  <2> QED
    BY <2>1, <2>2, <2>3 DEF AuthType
<1>3. CASE AuthTick
  <2>1. /\ authTime' = authTime + 1 /\ authTime \in Nat
        /\ UNCHANGED <<leases, keys, authorized, asked, receipts, held, started>>
    BY <1>3 DEF AuthTick, AuthType
  <2>2. \A g \in DOMAIN leases : leases[g].issued <= authTime' /\ leases[g].key \in DOMAIN keys
    <3>1. leases \in Seq(Leased)
      BY Zenon DEF AuthType
    <3>2. \A g \in DOMAIN leases : leases[g].issued \in Nat
      BY <3>1 DEF Leased
    <3>3. \A g \in DOMAIN leases : leases[g].issued <= authTime /\ leases[g].key \in DOMAIN keys
      BY Zenon DEF AuthType
    <3>4. \A n \in Nat : n <= authTime => n <= authTime'
      BY <2>1
    <3> QED
      BY <3>2, <3>3, <3>4, Zenon
  <2> QED
    BY <2>1, <2>2 DEF AuthType
<1>4. ASSUME NEW n \in DOMAIN Executions, NEW g \in DOMAIN leases, SignAuthorizedAction(n, g)
      PROVE  AuthType'
  <2> DEFINE a == AuthorizedAction(Executions[n].stable, Executions[n].exact, g,
                                   leases[g].expires, Len(keys))
  <2>1. a \in Granted /\ a.generation = g
    BY DEF AuthorizedAction, Granted
  <2>2. /\ authorized' = authorized \cup {a}
        /\ UNCHANGED <<authTime, leases, keys, asked, receipts, held, started>>
    BY <1>4, Zenon DEF SignAuthorizedAction
  <2> HIDE DEF a
  <2> QED
    BY <2>1, <2>2, Zenon DEF AuthType
<1>5. ASSUME NEW n \in DOMAIN Executions, NEW action \in authorized, NEW p \in held \cup {0},
             AskAdmission(n, action, p)
      PROVE  AuthType'
  <2> DEFINE d == Descriptor(n, action, IF p = 0 THEN 1 ELSE receipts[p].d.attempt + 1, p)
  <2>1. /\ action \in Granted /\ p \in Int
        /\ p # 0 => p \in DOMAIN receipts /\ receipts[p].d \in Described
    <3>1. authorized \in SUBSET Granted /\ held \in SUBSET DOMAIN receipts
      BY Zenon DEF AuthType
    <3>2. p # 0 => p \in DOMAIN receipts
      BY <3>1
    <3>3. p \in Int
      BY <3>2
    <3> QED
      BY <3>1, <3>2, <3>3
  <2>2. d \in Described /\ d.action = action
    <3>1. (IF p = 0 THEN 1 ELSE receipts[p].d.attempt + 1) \in Int
      BY <2>1, DescriptorFields
    <3> QED
      BY <2>1, <3>1 DEF Descriptor, Described
  <2>3. /\ asked' = asked \cup {d}
        /\ UNCHANGED <<authTime, leases, keys, authorized, receipts, held, started>>
    BY <1>5 DEF AskAdmission
  <2> HIDE DEF d
  <2> QED
    BY <2>2, <2>3, Zenon DEF AuthType
<1>6. ASSUME NEW d \in asked, AdmitRelaySideEffects(d)
      PROVE  AuthType'
  <2> DEFINE r == BuildReceiptBody(d, Min({StartCap(d), authTime + MaxStartDelay}))
  <2>1. r \in Issued /\ r.d = d
    BY NewReceipt, Zenon DEF AuthType
  <2>2. /\ receipts' = Append(receipts, r) /\ receipts \in Seq(Issued)
        /\ UNCHANGED <<authTime, leases, keys, authorized, asked, held, started>>
    BY <1>6 DEF AdmitRelaySideEffects, AuthType
  <2> HIDE DEF r
  <2>3. /\ receipts' \in Seq(Issued)
        /\ Len(receipts') = Len(receipts) + 1 /\ DOMAIN receipts' = 1 .. Len(receipts')
        /\ \A i \in 1 .. Len(receipts) : receipts'[i] = receipts[i]
        /\ receipts'[Len(receipts) + 1] = r
    BY <2>1, <2>2, Extended, SeqFields
  <2>4. \A i \in DOMAIN receipts' : receipts'[i].d \in asked
    <3>1. \A i \in DOMAIN receipts : receipts[i].d \in asked
      BY DEF AuthType
    <3> QED
      BY <2>1, <2>3, <3>1
  <2>5. DOMAIN receipts \subseteq DOMAIN receipts'
    BY <2>3
  <2> QED
    BY <2>2, <2>3, <2>4, <2>5, Zenon DEF AuthType
<1>7. ASSUME NEW i \in DOMAIN receipts, ResolveAdmission(i)
      PROVE  AuthType'
  BY <1>7, Zenon DEF ResolveAdmission, AuthType
<1>8. ASSUME NEW i \in held, Start(i)
      PROVE  AuthType'
  BY <1>8 DEF Start, AuthType
<1>9. CASE UNCHANGED authVars
  BY <1>9 DEF authVars, AuthType
<1> QED
  BY <1>1, <1>2, <1>3, <1>4, <1>5, <1>6, <1>7, <1>8, <1>9, Zenon DEF AuthNext

\* An authority key that counted at a past time still counts at that time.
LEMMA KeyStays ==
  ASSUME AuthType, AuthType', Grows, NEW k \in DOMAIN keys, NEW t \in Nat, t <= authTime,
         AuthorizeFenceKey(k, t)
  PROVE  AuthorizeFenceKey(k, t)'
<1>1. /\ Len(keys) \in Nat /\ DOMAIN keys = 1 .. Len(keys)
      /\ Len(keys') \in Nat /\ DOMAIN keys' = 1 .. Len(keys')
      /\ \A j \in DOMAIN keys' : keys'[j] \in Nat
  BY SeqFields, Zenon DEF AuthType
<1>2. /\ authTime \in Nat /\ keys'[k] = keys[k] /\ \A j \in DOMAIN keys : keys'[j] = keys[j]
      /\ \A j \in DOMAIN keys' \ DOMAIN keys : authTime <= keys'[j]
  BY Zenon DEF Grows, AuthType
<1>3. keys[k] <= t /\ (k < Len(keys) => t <= keys[k + 1])
  BY DEF AuthorizeFenceKey
<1>4. ASSUME k < Len(keys')  PROVE t <= keys'[k + 1]
  <2>1. CASE k < Len(keys)
    <3>1. k + 1 \in DOMAIN keys
      BY <1>1, <2>1
    <3> QED
      BY <1>2, <1>3, <2>1, <3>1
  <2>2. CASE ~(k < Len(keys))
    <3>1. k + 1 \in DOMAIN keys' \ DOMAIN keys
      BY <1>1, <1>4, <2>2
    <3> QED
      BY <1>1, <1>2, <3>1
  <2> QED
    BY <2>1, <2>2
<1> QED
  BY <1>2, <1>3, <1>4 DEF AuthorizeFenceKey

\* What the preflight established stays.
LEMMA AskStays ==
  ASSUME AuthType, AuthType', Grows, NEW d \in asked, AskFits(d)
  PROVE  AskFits(d)'
<1>1. d \in Described /\ d.action.generation \in DOMAIN leases
  BY DEF AuthType
<1>2. Fence(d.action)' = Fence(d.action)
  BY <1>1 DEF Grows, Fence
<1>3. /\ Executions[d.n].quoteFrom \in Nat /\ Executions[d.n].created \in Nat
      /\ authTime \in Nat /\ authTime' \in Nat /\ authTime <= authTime' /\ Skew \in Nat
  BY <1>1, DescriptorFields, AuthAssumption, Zenon DEF AuthType, Grows
<1>4. /\ CoreShape(Executions[d.n]) /\ Executions[d.n].quoteFrom <= authTime
      /\ Executions[d.n].created <= authTime + Skew
      /\ Executions[d.n].created >= Executions[d.n].quoteFrom
      /\ Executions[d.n].expires <= d.action.expires
      /\ Executions[d.n].expires <= Fence(d.action).expires
  BY DEF AskFits
<1>5. /\ Executions[d.n].quoteFrom <= authTime'
      /\ Executions[d.n].created <= authTime' + Skew
  BY <1>3, <1>4
<1> QED
  BY <1>2, <1>4, <1>5 DEF AskFits

\* What the authority established of a receipt stays, whatever leases and keys
\* follow.
LEMMA ReceiptStays ==
  ASSUME AuthType, AuthType', Grows, NEW r \in Issued, r.d \in asked, ReceiptFits(r)
  PROVE  ReceiptFits(r)'
<1> DEFINE a == r.d.action
           g == r.d.action.generation
<1>1. r.d \in Described /\ g \in DOMAIN leases /\ r.issued \in Nat /\ g \in Nat
  BY DescriptorFields, Zenon DEF AuthType, Issued
<1>2. Fence(a)' = Fence(a) /\ leases'[g] = leases[g]
  BY <1>1 DEF Grows, Fence
<1>3. StartCap(r.d)' = StartCap(r.d)
  BY <1>2 DEF StartCap
<1>4. r.issued <= authTime /\ r.issued <= authTime'
  <2>1. r.issued <= authTime
    BY Zenon DEF ReceiptFits
  <2>2. authTime \in Nat /\ authTime' \in Nat /\ authTime <= authTime'
    BY DEF AuthType, Grows
  <2> QED
    BY <1>1, <2>1, <2>2
<1>5. VerifyAuthorizedActionAtAuthorityTime(a, Executions[r.d.n], r.issued, r.issued)
  BY Zenon DEF ReceiptFits
<1>6. Fence(a).key \in DOMAIN keys /\ a.key = Fence(a).key
  BY <1>1, <1>5, AuthFields, Zenon DEF Fence, VerifyAuthorizedActionAtAuthorityTime
<1>7. AuthorizeFenceKey(a.key, r.issued)'
  BY <1>1, <1>4, <1>5, <1>6, KeyStays DEF VerifyAuthorizedActionAtAuthorityTime
<1>8. VerifyAuthorizedActionAtAuthorityTime(a, Executions[r.d.n], r.issued, r.issued)'
  BY <1>2, <1>5, <1>6, <1>7, Zenon DEF VerifyAuthorizedActionAtAuthorityTime,
     VerifyWriterFenceAtAuthorityTime, ValidateWriterFenceBody
<1>9. ASSUME g + 1 \in DOMAIN leases'  PROVE r.issued <= leases'[g + 1].issued
  <2>1. CASE g + 1 \in DOMAIN leases
    BY <2>1 DEF Grows, ReceiptFits
  <2>2. CASE g + 1 \notin DOMAIN leases
    <3>1. authTime <= leases'[g + 1].issued
      BY <1>9, <2>2 DEF Grows
    <3>2. leases'[g + 1] \in Leased
      BY <1>9, SeqFields, Zenon DEF AuthType
    <3>3. leases'[g + 1].issued \in Nat /\ authTime \in Nat
      BY <3>2, Zenon DEF Leased, AuthType
    <3> QED
      BY <1>1, <1>4, <3>1, <3>3
  <2> QED
    BY <2>1, <2>2, Zenon
<1> QED
  BY <1>2, <1>3, <1>4, <1>8, <1>9, Zenon DEF ReceiptFits, ValidateReceiptBody, ValidateRelayAdmissionRoute

\* A receipt fits when it is persisted.
LEMMA AdmittedFits ==
  ASSUME AuthType, NEW d \in asked, AdmitRelaySideEffects(d)
  PROVE  LET r == BuildReceiptBody(d, Min({StartCap(d), authTime + MaxStartDelay}))
         IN ReceiptFits(r)
<1> DEFINE r == BuildReceiptBody(d, Min({StartCap(d), authTime + MaxStartDelay}))
<1>1. /\ r \in Issued /\ r.d = d /\ r.issued = authTime
      /\ r.key = Fence(d.action).key /\ r.until <= StartCap(d)
  BY NewReceipt, Zenon
<1>2. /\ ValidateReceiptBody(r) /\ ConfirmCurrentWriterFence(d.action)
      /\ VerifyAuthorizedAction(d.action, Executions[d.n])
  BY Zenon DEF AdmitRelaySideEffects, ValidateDescriptor
<1> HIDE DEF r
<1>3. d \in Described /\ d.action.generation \in DOMAIN leases /\ authTime \in Nat
  BY DEF AuthType
<1>4. Fence(d.action).issued <= authTime
  BY <1>3 DEF AuthType, Fence
<1>5. d.action.generation + 1 \notin DOMAIN leases
  BY <1>2, <1>3, AuthFields DEF ConfirmCurrentWriterFence, Generation
<1>6. r.issued <= authTime /\ r.issued >= Fence(d.action).issued
  BY <1>1, <1>3, <1>4, AuthFields DEF Fence
<1> QED
  BY <1>1, <1>2, <1>5, <1>6, Zenon DEF ReceiptFits, VerifyAuthorizedAction, r

\* A receipt whose start window is open can be started.
LEMMA Drains ==
  ASSUME AuthType, NEW i \in DOMAIN receipts, AskFits(receipts[i].d), ReceiptFits(receipts[i]),
         authTime < receipts[i].until,
         receipts[i].issued >= Executions[receipts[i].d.n].created
  PROVE  VerifyRelayExecutionRequest(receipts[i])
<1> DEFINE r == receipts[i]
           d == r.d
           x == Executions[r.d.n]
           fence == Fence(r.d.action)
<1>1. /\ d \in Described /\ d.action.generation \in DOMAIN leases
      /\ r.issued \in Nat /\ r.until \in Nat /\ authTime \in Nat
  BY AuthFields, Zenon DEF AuthType
<1>2. /\ fence.issued \in Nat /\ fence.expires \in Nat /\ Skew \in Nat
      /\ x.created \in Nat /\ x.expires \in Nat /\ d.action.expires \in Nat
  BY <1>1, AuthFields, DescriptorFields, AuthAssumption, Zenon DEF Fence
<1>3. /\ StartCap(d) \in Nat /\ StartCap(d) <= x.expires
      /\ StartCap(d) <= d.action.expires /\ StartCap(d) <= fence.expires
  BY <1>1, CapBounds, Zenon
<1>4. /\ r.issued <= authTime /\ ValidateReceiptBody(r)
      /\ r.key = fence.key /\ r.issued >= fence.issued /\ r.until <= StartCap(d)
      /\ VerifyAuthorizedActionAtAuthorityTime(d.action, x, r.issued, r.issued)
  BY DEF ReceiptFits
<1>5. /\ d.action.expires <= fence.expires /\ d.action.key = fence.key
      /\ ValidateWriterFenceBody(fence)
      /\ AuthorizeFenceKey(fence.key, r.issued) /\ AuthorizeFenceKey(d.action.key, r.issued)
      /\ d.action.stable = x.stable /\ d.action.exact = x.exact
  BY <1>4, Zenon DEF VerifyAuthorizedActionAtAuthorityTime, VerifyWriterFenceAtAuthorityTime
<1>6. VerifyReceipt(r, authTime)
  BY <1>4, <1>5, Zenon DEF VerifyReceipt
<1>7. /\ authTime < x.expires /\ authTime < d.action.expires /\ authTime < fence.expires
      /\ authTime >= fence.issued - Skew
      /\ r.issued < fence.expires /\ r.issued >= fence.issued - Skew
  <2> HIDE DEF r, d, x, fence
  <2>1. authTime < r.until
    BY DEF r
  <2> QED
    BY <1>1, <1>2, <1>3, <1>4, <2>1
<1>8. VerifyAuthorizedActionAtAuthorityTime(d.action, x, authTime, r.issued)
  BY <1>5, <1>7, Zenon DEF VerifyAuthorizedActionAtAuthorityTime, VerifyWriterFenceAtAuthorityTime
<1>9. VerifyCoreAtAuthorityTime(r.d.n, d.action, authTime, r.issued)
  BY <1>7, <1>8, Zenon DEF VerifyCoreAtAuthorityTime, AskFits
<1> QED
  BY <1>6, <1>9, Zenon DEF VerifyRelayExecutionRequest

\* The descriptor the authority admits continues the route of its action.
LEMMA RouteStep ==
  ASSUME AuthType, RouteInv, NEW d \in asked, AdmitRelaySideEffects(d)
  PROVE  /\ \A i \in DOMAIN receipts : Execution(i).stable = Executions[d.n].stable =>
              /\ FailoverEligible(Execution(i)) /\ FailoverEligible(Executions[d.n])
              /\ Execution(i).transaction = Executions[d.n].transaction
         /\ d.predecessor # 0 =>
              d.predecessor \in DOMAIN receipts
              /\ Execution(d.predecessor).provider # Executions[d.n].provider
<1> DEFINE same == {i \in DOMAIN receipts : Execution(i).stable = Executions[d.n].stable}
<1>1. DOMAIN receipts = 1 .. Len(receipts) /\ Len(receipts) \in Nat
  BY AuthFields
<1>2. RouteHead(d) = IF same = {} THEN 0 ELSE Max(same)
  BY DEF RouteHead, Execution
<1>3. CASE same = {}
  <2>1. d.attempt = 1 /\ d.predecessor = 0
    BY <1>2, <1>3, Zenon DEF AdmitRelaySideEffects, ValidateDescriptor, ValidateRelayAdmissionRoute
  <2> QED
    BY <1>3, <2>1, Zenon
<1>4. CASE same # {}
  <2> DEFINE h == RouteHead(d)
  <2>1. h \in same
    <3>1. same \in SUBSET (1 .. Len(receipts))
      BY <1>1
    <3> HIDE DEF same
    <3> QED
      BY <1>1, <1>2, <1>4, <3>1, MaxInSet, Zenon
  <2>2. h \in DOMAIN receipts /\ h # 0 /\ Execution(h).stable = Executions[d.n].stable
    BY <1>1, <2>1
  <2>3. RouteTransition(receipts[h], d)
    BY <2>2, Zenon DEF AdmitRelaySideEffects
  <2> HIDE DEF h
  <2>4. /\ FailoverEligible(Execution(h)) /\ FailoverEligible(Executions[d.n])
        /\ Execution(h).transaction = Executions[d.n].transaction
        /\ Execution(h).provider # Executions[d.n].provider
        /\ d.predecessor \in DOMAIN receipts /\ receipts[d.predecessor] = receipts[h]
    BY <2>3, Zenon DEF RouteTransition, Execution
  <2>5. \A i \in same :
          FailoverEligible(Execution(i)) /\ Execution(i).transaction = Executions[d.n].transaction
    BY SMTT(20), <2>2, <2>4 DEF RouteInv
  <2> QED
    BY <2>4, <2>5 DEF Execution
<1> QED
  BY <1>3, <1>4

\* Routes and starts are about the receipts and what was started.
LEMMA RoutesStand ==
  ASSUME RouteInv, UNCHANGED receipts
  PROVE  RouteInv'
  BY DEF RouteInv, Execution

\* What was started stays as it was admitted.
LEMMA StartsStand ==
  ASSUME StartInv, UNCHANGED <<receipts, started>>
  PROVE  StartInv'
  BY Zenon DEF StartInv

\* Every step keeps the invariant.
LEMMA AuthStep ==
  ASSUME AuthInv, [AuthNext]_authVars
  PROVE  AuthInv'
<1> USE DEF AuthInv
<1>1. AuthType' /\ Grows
  BY TypeStep, StepGrows
<1>2. \A d \in asked : AskFits(d)'
  BY <1>1, AskStays
<1>3. ASSUME NEW i \in DOMAIN receipts, NEW r, r = receipts[i]
      PROVE  ReceiptFits(r)'
  <2>1. r \in Issued
    BY <1>3, AuthFields, Zenon
  <2>2. r.d \in asked
    BY <1>3, Zenon DEF AuthType
  <2>3. ReceiptFits(r)
    BY <1>3, Zenon
  <2> QED
    BY <1>1, <2>1, <2>2, <2>3, ReceiptStays, Zenon
<1>4. CASE UNCHANGED <<asked, receipts, started>>
  <2>1. RouteInv' /\ StartInv'
    <3> HIDE DEF AuthInv
    <3>1. RouteInv /\ StartInv
      BY Zenon DEF AuthInv
    <3> QED
      BY <1>4, <3>1, RoutesStand, StartsStand, Zenon
  <2>2. (\A d \in asked : AskFits(d))'
    BY <1>2, <1>4
  <2>3. (\A i \in DOMAIN receipts : ReceiptFits(receipts[i]))'
    BY <1>3, <1>4
  <2> QED
    BY <1>1, <2>1, <2>2, <2>3
<1>5. ASSUME NEW n \in DOMAIN Executions, NEW action \in authorized, NEW p \in held \cup {0},
             AskAdmission(n, action, p)
      PROVE  AuthInv'
  <2>0. PICK d : d = Descriptor(n, action, IF p = 0 THEN 1 ELSE receipts[p].d.attempt + 1, p)
    BY Zenon
  <2>1. /\ asked' = asked \cup {d} /\ VerifyForAdmission(n, action)
        /\ UNCHANGED <<authTime, leases, keys, authorized, receipts, held, started>>
    BY <1>5, <2>0, Zenon DEF AskAdmission
  <2>2. d.n = n /\ d.action = action
    BY <2>0, Zenon DEF Descriptor
  <2>3. AskFits(d)
    BY <2>1, <2>2, Zenon DEF VerifyForAdmission, VerifyCoreAtAuthorityTime, AskFits
  <2>4. AskFits(d)'
    BY <2>1, <2>3 DEF AskFits, Fence
  <2>5. RouteInv' /\ StartInv'
    <3> HIDE DEF AuthInv
    <3>1. RouteInv /\ StartInv
      BY Zenon DEF AuthInv
    <3> QED
      BY <2>1, <3>1, RoutesStand, StartsStand, Zenon
  <2>6. (\A e \in asked : AskFits(e))'
    BY <1>2, <2>1, <2>4
  <2>7. (\A i \in DOMAIN receipts : ReceiptFits(receipts[i]))'
    BY <1>3, <2>1
  <2> QED
    BY <1>1, <2>5, <2>6, <2>7
<1>6. ASSUME NEW d \in asked, AdmitRelaySideEffects(d)
      PROVE  AuthInv'
  <2>0. PICK r, k : /\ r = BuildReceiptBody(d, Min({StartCap(d), authTime + MaxStartDelay}))
                    /\ k = Len(receipts)
    BY Zenon
  <2>1. r \in Issued /\ r.d = d
    BY <2>0, NewReceipt
  <2>2. ReceiptFits(r)
    BY <1>6, <2>0, AdmittedFits, Zenon
  <2>3. /\ receipts' = Append(receipts, r) /\ receipts \in Seq(Issued)
        /\ UNCHANGED <<authTime, leases, keys, authorized, asked, held, started>>
    BY <1>6, <2>0 DEF AdmitRelaySideEffects, AuthType
  <2>4. ReceiptFits(r)'
    BY <1>1, <2>1, <2>2, ReceiptStays, Zenon
  <2>5. /\ k \in Nat /\ DOMAIN receipts = 1 .. k /\ DOMAIN receipts' = 1 .. k + 1
        /\ \A i \in 1 .. k : receipts'[i] = receipts[i]
        /\ receipts'[k + 1] = r
    BY <2>0, <2>1, <2>3, Extended, SeqFields
  <2>6. (\A i \in DOMAIN receipts : ReceiptFits(receipts[i]))'
    BY <1>3, <2>4, <2>5
  <2>7. RouteInv'
    <3>1. /\ \A i \in 1 .. k : Execution(i)' = Execution(i)
          /\ Execution(k + 1)' = Executions[d.n]
      BY <2>1, <2>5 DEF Execution
    <3> DEFINE x == [i \in 1 .. k + 1 |-> Execution(i)']
    <3>2. /\ \A i \in 1 .. k : x[i] = Execution(i)
          /\ x[k + 1] = Executions[d.n]
      BY <2>5, <3>1
    <3>3. /\ \A i \in 1 .. k : Execution(i).stable = Executions[d.n].stable =>
               /\ FailoverEligible(Execution(i)) /\ FailoverEligible(Executions[d.n])
               /\ Execution(i).transaction = Executions[d.n].transaction
          /\ d.predecessor # 0 =>
               d.predecessor \in 1 .. k
               /\ Execution(d.predecessor).provider # Executions[d.n].provider
      BY <1>6, <2>5, RouteStep, Zenon
    <3> HIDE DEF x
    <3>4. ASSUME NEW i \in 1 .. k + 1, NEW j \in 1 .. k + 1, i # j, x[i].stable = x[j].stable
          PROVE  FailoverEligible(x[i]) /\ x[i].transaction = x[j].transaction
      <4>1. CASE i \in 1 .. k /\ j \in 1 .. k
        BY <2>5, <3>2, <3>4, <4>1 DEF RouteInv
      <4>2. CASE i \in 1 .. k /\ j = k + 1
        BY <3>2, <3>3, <3>4, <4>2, Zenon
      <4>3. CASE i = k + 1 /\ j \in 1 .. k
        BY <3>2, <3>3, <3>4, <4>3, Zenon
      <4> QED
        BY <2>5, <3>4, <4>1, <4>2, <4>3
    <3>5. ASSUME NEW j \in 1 .. k + 1, NEW p, p = receipts'[j].d.predecessor, p # 0
          PROVE  p \in 1 .. k /\ x[p].provider # x[j].provider
      <4>1. CASE j \in 1 .. k
        <5>1. p = receipts[j].d.predecessor
          BY <2>5, <3>5, <4>1, Zenon
        <5>2. p \in 1 .. k /\ Execution(p).provider # Execution(j).provider
          BY <2>5, <3>5, <4>1, <5>1, Zenon DEF RouteInv
        <5> QED
          BY <3>2, <4>1, <5>2
      <4>2. CASE j = k + 1
        <5>1. p = d.predecessor
          BY <2>1, <2>5, <3>5, <4>2, Zenon
        <5> QED
          BY <3>2, <3>3, <3>5, <4>2, <5>1, Zenon
      <4> QED
        BY <2>5, <4>1, <4>2
    <3>6. \A p \in 1 .. k : p \in 1 .. k + 1
      BY <2>5
    <3>7. \A i \in 1 .. k + 1 : Execution(i)' = x[i]
      BY DEF x
    <3> QED
      BY SMTT(20), <2>5, <3>4, <3>5, <3>6, <3>7 DEF RouteInv
  <2>8. StartInv'
    <3>1. \A s \in started : s.receipt \in 1 .. k
      BY <2>5 DEF AuthType
    <3> QED
      BY <2>3, <2>5, <3>1, Zenon DEF StartInv
  <2>9. (\A e \in asked : AskFits(e))'
    BY <1>2, <2>3
  <2> QED
    BY <1>1, <2>6, <2>7, <2>8, <2>9
<1>7. ASSUME NEW i \in held, Start(i)
      PROVE  AuthInv'
  <2>1. /\ authTime < receipts[i].until /\ \A s \in started : s.receipt # i
        /\ started' = started \cup {[receipt |-> i, at |-> authTime]}
        /\ UNCHANGED <<asked, receipts>>
    <3> HIDE DEF AuthInv
    <3> QED
      BY <1>7 DEF Start, VerifyRelayExecutionRequest, VerifyReceipt
  <2>2. RouteInv'
    <3> HIDE DEF AuthInv
    <3>1. RouteInv
      BY Zenon DEF AuthInv
    <3> QED
      BY <2>1, <3>1, RoutesStand, Zenon
  <2>3. StartInv'
    BY <2>1 DEF StartInv
  <2>4. (\A d \in asked : AskFits(d))'
    BY <1>2, <2>1, Zenon
  <2>5. (\A j \in DOMAIN receipts : ReceiptFits(receipts[j]))'
    BY <1>3, <2>1
  <2> QED
    BY <1>1, <2>2, <2>3, <2>4, <2>5, Zenon
<1> QED
  BY <1>4, <1>5, <1>6, <1>7 DEF AuthNext, authVars, SignWriterFence, RotateAuthorityKey, AuthTick,
     SignAuthorizedAction, ResolveAdmission

\* The invariant holds at the start.
LEMMA AuthStarts == AuthInit => AuthInv
<1> SUFFICES ASSUME AuthInit PROVE AuthInv
  OBVIOUS
<1> DEFINE f == WriterFence(0, LeaseLife, 1)
<1>1. f \in Leased /\ f.issued = 0 /\ f.key = 1
  BY AuthAssumption DEF WriterFence, Leased
<1>2. leases = <<f>> /\ keys = <<0>>
  BY Zenon DEF AuthInit
<1> HIDE DEF f
<1>3. AuthType
  BY <1>1, <1>2, AuthAssumption DEF AuthInit, AuthType
<1>4. RouteInv /\ StartInv /\ asked = {} /\ DOMAIN receipts = {}
  BY DEF AuthInit, RouteInv, StartInv
<1> QED
  BY <1>3, <1>4 DEF AuthInv

\* Starts follow receipts: whatever takeovers, retries, lost answers,
\* failovers and key rotations happen, the starts of one action that sponsor
\* exclude every other, all broadcast one transaction, each follows the writer
\* that was current when its receipt was persisted, and a receipt that is held
\* can be started while its window is open (admission.go, authority.go).
THEOREM StartsSound == AuthSpec => []StartsFollowReceipts
<1>1. AuthInv => StartsFollowReceipts
  <2> SUFFICES ASSUME AuthInv PROVE StartsFollowReceipts
    BY Zenon
  <2> USE DEF AuthInv
  <2>1. OneEffectPerAction
    <3> SUFFICES ASSUME NEW s \in started, NEW t \in started, s # t,
                        Execution(s.receipt).stable = Execution(t.receipt).stable
                 PROVE  /\ "sponsorship" \notin RelaySideEffectStages(Execution(s.receipt).mode)
                        /\ Execution(s.receipt).transaction = Execution(t.receipt).transaction
                        /\ receipts[t.receipt].d.predecessor = s.receipt =>
                             Execution(s.receipt).provider # Execution(t.receipt).provider
      BY Zenon DEF OneEffectPerAction, Execution
    <3>1. s.receipt \in DOMAIN receipts /\ t.receipt \in DOMAIN receipts /\ s.receipt # t.receipt
      BY Zenon DEF StartInv, AuthType
    <3>2. /\ FailoverEligible(Execution(s.receipt))
          /\ Execution(s.receipt).transaction = Execution(t.receipt).transaction
      BY <3>1 DEF RouteInv
    <3>3. "sponsorship" \notin RelaySideEffectStages(Execution(s.receipt).mode)
      BY <3>2, Zenon DEF FailoverEligible, RelaySideEffectStages
    <3>4. s.receipt # 0
      BY <3>1, AuthFields
    <3> QED
      BY <3>1, <3>2, <3>3, <3>4 DEF RouteInv
  <2>2. StartsFollowCurrentWriter
    <3> SUFFICES ASSUME NEW s \in started
                 PROVE  LET r == receipts[s.receipt]  g == r.d.action.generation
                        IN /\ \A w \in Executions[r.d.n].windows : s.at < w
                           /\ s.at < leases[g].expires
                           /\ g < Generation => s.at < leases[g + 1].issued + MaxStartDelay
      BY Zenon DEF StartsFollowCurrentWriter
    <3> DEFINE i == s.receipt
               r == receipts[i]
               g == r.d.action.generation
    <3>1. i \in DOMAIN receipts /\ s.at \in Nat /\ s.at < r.until
      BY Zenon DEF StartInv, AuthType
    <3>2. /\ r.d \in Described /\ g \in DOMAIN leases /\ r.until \in Nat /\ r.issued \in Nat
          /\ Executions[r.d.n].windows \in SUBSET Nat /\ MaxStartDelay \in Nat
      BY <3>1, AuthFields, DescriptorFields, AuthAssumption, Zenon
    <3>3. /\ StartCap(r.d) \in Nat /\ StartCap(r.d) <= leases[g].expires
          /\ \A w \in Executions[r.d.n].windows : StartCap(r.d) <= w
      BY <3>2, CapBounds DEF Fence
    <3>4. /\ r.until <= StartCap(r.d) /\ r.until - r.issued <= MaxStartDelay
          /\ g + 1 \in DOMAIN leases => r.issued <= leases[g + 1].issued
      BY <3>1, Zenon DEF ReceiptFits, ValidateReceiptBody
    <3>5. /\ DOMAIN leases = 1 .. Len(leases) /\ Len(leases) \in Nat
          /\ \A h \in DOMAIN leases : leases[h].issued \in Nat /\ leases[h].expires \in Nat
      BY AuthFields, Zenon
    <3> HIDE DEF r, i, g
    <3>6. \A w \in Executions[r.d.n].windows : s.at < w
      BY <3>1, <3>2, <3>3, <3>4
    <3>7. s.at < leases[g].expires
      BY <3>1, <3>2, <3>3, <3>4, <3>5
    <3>8. ASSUME g < Generation PROVE s.at < leases[g + 1].issued + MaxStartDelay
      <4>1. g + 1 \in DOMAIN leases
        BY <3>2, <3>5, <3>8 DEF Generation
      <4> QED
        BY <3>1, <3>2, <3>4, <3>5, <4>1
    <3> QED
      BY <3>6, <3>7, <3>8, ZenonT(30) DEF r, i, g
  <2>3. ReceiptsDrain
    <3>1. \A i \in held : i \in DOMAIN receipts /\ receipts[i].d \in asked
      BY DEF AuthType
    <3> QED
      BY <3>1, Drains, Zenon DEF ReceiptsDrain
  <2> QED
    BY <2>1, <2>2, <2>3 DEF StartsFollowReceipts
<1> QED
  BY <1>1, AuthStarts, AuthStep, PTL DEF AuthSpec

-----------------------------------------------------------------------------
(* Packets and contact cards. *)

Preimages == [nonce : Nonces, payload : Payloads, key : Nat]
Packets == [nonce : Nonces, payload : Payloads, key : Nat,
            signature : [by : Nat, over : Preimages]]
Stages == {"sender", "recipient", "claim", "receive"}
InProgress == [at : Stages, packet : Packets, now : Nat, live : BOOLEAN]
Posted == [at : {"open", "failed", "accepted"}, packet : Packets]
AgentState == [found : BOOLEAN, tombstoned : BOOLEAN, key : Nat]
Admissions == [packet : Packets, arrived : Nat, claimed : Nat]
Cards == [key : Nat, network : Networks, expires : Nat,
          signature : [by : Nat, over : [key : Nat, network : Networks, expires : Nat]]]

PacketType ==
  /\ packetTime \in 0 .. MaxPacketTime
  /\ agents \in [sender : AgentState, recipient : AgentState]
  /\ authority \in [0 .. MaxPacketTime -> SUBSET Nat]
  /\ Live("sender") => agents.sender.key \in authority[packetTime]
  /\ handler \in [Handlers -> InProgress \cup {NoRequest}]
  /\ post \in Posted \cup {NoRequest}
  /\ \A k \in DOMAIN seen : seen[k] \in Nat
  /\ accepted \in Seq(Admissions)
  /\ cards \in SUBSET [card : Cards, signed : Nat]

\* What the network carries was signed by its sender.
WireInv == \A w \in wire : \E n \in Nonces, q \in Payloads, k \in Nat : w = EncodeJSON(Sign(n, q, k))

\* A packet that arrived is one that was sent, but for its payload.
CameFrom(p) == \E w \in wire, x \in Payloads : p = [w.fields EXCEPT !.payload = x]

\* It was sent as it is, and its key was in force at some time since.
InForce(key, from, to) == \E t \in from .. to : key \in authority[t]
Vouched(p, from, to) == EncodeJSON(p) \in wire /\ InForce(p.key, from, to)

\* A request in progress; one of them is the caller's.
RequestFits(r) ==
  /\ r.now <= packetTime /\ CameFrom(r.packet)
  /\ r.at # "sender" => Vouched(r.packet, r.now, packetTime)
  /\ r.live => post.at = "open" /\ post.packet = r.packet
Busy(h) == handler[h].at # "idle"
HandlerInv ==
  /\ \A h \in Handlers : Busy(h) => RequestFits(handler[h])
  /\ \A g, h \in Handlers : Busy(g) /\ Busy(h) /\ handler[g].live /\ handler[h].live => g = h

\* The guard remembers what it accepted, or the TTL has passed.
Remembered(a) ==
  \/ PacketKey(a.packet) \in DOMAIN seen /\ seen[PacketKey(a.packet)] >= a.arrived
  \/ packetTime > a.arrived + PacketTTL
AdmissionFits(a) ==
  /\ a.arrived <= a.claimed /\ a.claimed <= packetTime
  /\ Vouched(a.packet, a.arrived, a.claimed)
  /\ Remembered(a)
Spaced(i, j) ==
  i < j /\ PacketKey(accepted[i].packet) = PacketKey(accepted[j].packet) =>
    accepted[j].claimed > accepted[i].arrived + PacketTTL
GuardInv ==
  /\ \A i \in DOMAIN accepted : AdmissionFits(accepted[i])
  /\ \A i, j \in DOMAIN accepted : Spaced(i, j)

PostInv == post.at = "accepted" => post.packet \in received

\* A card is as it was signed, and expires within its lifetime.
CardFits(issued) ==
  /\ issued.card.signature.over = ContactBytes(issued.card)
  /\ issued.card.expires <= issued.signed + CardLifetime
CardInv ==
  /\ \A issued \in cards : CardFits(issued)
  /\ \A c \in contacts : \E issued \in cards :
       c.card = issued.card /\ c.at < issued.signed + CardLifetime

PacketInv == PacketType /\ WireInv /\ HandlerInv /\ GuardInv /\ PostInv /\ CardInv

-----------------------------------------------------------------------------
(* What stands when the wire, the clock and the keys in force only grow. *)

KeepsAll ==
  /\ wire \subseteq wire' /\ packetTime' \in 0 .. MaxPacketTime /\ packetTime <= packetTime'
  /\ \A t \in 0 .. packetTime : authority[t] \subseteq authority'[t]

\* A step that leaves the wire, the clock and the keys alone.
LEMMA KeepsStill ==
  ASSUME PacketType, UNCHANGED <<packetTime, authority>>, wire \subseteq wire'
  PROVE  KeepsAll
<1>1. packetTime \in 0 .. MaxPacketTime
  BY Zenon DEF PacketType
<1>2. packetTime <= packetTime
  BY <1>1, PacketAssumption
<1> QED
  BY <1>1, <1>2, Zenon DEF KeepsAll

\* A key that was in force at some time between two times was so for good.
LEMMA InForceStands ==
  ASSUME PacketType, KeepsAll, NEW key, NEW from \in Nat, NEW to \in Nat, NEW later \in Nat,
         to <= packetTime, to <= later, InForce(key, from, to)
  PROVE  InForce(key, from, later)'
<1>1. PICK t \in from .. to : key \in authority[t]
  BY Zenon DEF InForce
<1>2. t \in 0 .. packetTime /\ t \in from .. later
  BY PacketAssumption DEF PacketType
<1>3. key \in authority'[t]
  BY <1>1, <1>2, Zenon DEF KeepsAll
<1> QED
  BY <1>2, <1>3, Zenon DEF InForce

\* A packet whose signature is over its own fields was sent as it is.
LEMMA Unaltered ==
  ASSUME WireInv, NEW p, CameFrom(p), p.signature.over = SigningBytes(p)
  PROVE  EncodeJSON(p) \in wire
<1>1. PICK w \in wire, x \in Payloads : p = [w.fields EXCEPT !.payload = x]
  BY Zenon DEF CameFrom
<1>2. PICK n \in Nonces, q \in Payloads, k \in Nat : w = EncodeJSON(Sign(n, q, k))
  BY Zenon DEF WireInv
<1>3. w.fields = Sign(n, q, k)
  BY <1>2 DEF EncodeJSON
<1>4. p = [nonce |-> n, payload |-> x, key |-> k,
           signature |-> [by |-> k, over |-> [nonce |-> n, payload |-> q, key |-> k]]]
  BY <1>1, <1>3 DEF Sign, SigningBytes
<1>5. x = q
  BY <1>4, Zenon DEF SigningBytes
<1>6. p = Sign(n, q, k)
  BY <1>4, <1>5 DEF Sign, SigningBytes
<1> QED
  BY <1>2, <1>6

\* What was sent is a packet.
LEMMA SentPackets ==
  ASSUME WireInv, NEW w \in wire
  PROVE  w.fields \in Packets /\ w = EncodeJSON(w.fields)
<1>1. PICK n \in Nonces, q \in Payloads, k \in Nat : w = EncodeJSON(Sign(n, q, k))
  BY Zenon DEF WireInv
<1>2. w.fields = Sign(n, q, k)
  BY <1>1, Zenon DEF EncodeJSON
<1>3. Sign(n, q, k) \in Packets
  BY DEF Sign, SigningBytes, Packets, Preimages
<1> QED
  BY <1>1, <1>2, <1>3

\* The requests that a step leaves alone stay fit, if the caller's does.
LEMMA RequestStands ==
  ASSUME PacketType, KeepsAll, NEW r \in InProgress, RequestFits(r),
         r.live => (post.at = "open" /\ post.packet = r.packet)'
  PROVE  RequestFits(r)'
<1>1. r.now \in Nat /\ r.now <= packetTime /\ packetTime \in Nat
  BY PacketAssumption DEF InProgress, RequestFits, PacketType
<1>2. r.now <= packetTime' /\ packetTime' \in Nat /\ packetTime <= packetTime'
  BY <1>1, PacketAssumption DEF KeepsAll
<1>3. CameFrom(r.packet)'
  BY Zenon DEF RequestFits, CameFrom, KeepsAll
<1>4. r.at # "sender" => Vouched(r.packet, r.now, packetTime)'
  <2> SUFFICES ASSUME r.at # "sender" PROVE Vouched(r.packet, r.now, packetTime)'
    OBVIOUS
  <2>1. EncodeJSON(r.packet) \in wire' /\ InForce(r.packet.key, r.now, packetTime)
    BY Zenon DEF RequestFits, Vouched, KeepsAll
  <2>2. packetTime <= packetTime
    BY <1>1
  <2>3. PICK later \in Nat : later = packetTime'
    BY <1>2
  <2>4. InForce(r.packet.key, r.now, later)'
    BY <1>1, <1>2, <2>1, <2>2, <2>3, InForceStands, Zenon
  <2> QED
    BY <2>1, <2>3, <2>4, Zenon DEF Vouched
<1> QED
  BY <1>2, <1>3, <1>4, Zenon DEF RequestFits

\* What the guard accepted stays vouched for and remembered while it keeps
\* its memory.
LEMMA AdmissionStands ==
  ASSUME PacketType, KeepsAll, NEW a \in Admissions, AdmissionFits(a),
         Remembered(a) => Remembered(a)'
  PROVE  AdmissionFits(a)'
<1>1. /\ a.arrived \in Nat /\ a.claimed \in Nat /\ packetTime \in Nat /\ packetTime' \in Nat
      /\ packetTime <= packetTime'
  BY PacketAssumption DEF Admissions, PacketType, KeepsAll
<1>2. a.arrived <= a.claimed /\ a.claimed <= packetTime /\ a.claimed <= packetTime'
  BY <1>1 DEF AdmissionFits
<1>3. EncodeJSON(a.packet) \in wire' /\ InForce(a.packet.key, a.arrived, a.claimed)
  BY Zenon DEF AdmissionFits, Vouched, KeepsAll
<1>4. a.claimed <= a.claimed
  BY <1>1
<1>5. InForce(a.packet.key, a.arrived, a.claimed)'
  BY <1>1, <1>2, <1>3, <1>4, InForceStands, Zenon
<1> QED
  BY <1>2, <1>3, <1>5, Zenon DEF AdmissionFits, Vouched

\* Time alone takes nothing from the guard's memory.
LEMMA RememberedStands ==
  ASSUME PacketType, KeepsAll, NEW a \in Admissions, Remembered(a), UNCHANGED seen
  PROVE  Remembered(a)'
<1>1. a.arrived \in Nat /\ packetTime \in Nat /\ packetTime' \in Nat /\ packetTime <= packetTime'
  BY PacketAssumption DEF Admissions, PacketType, KeepsAll
<1>2. packetTime > a.arrived + PacketTTL => packetTime' > a.arrived + PacketTTL
  BY <1>1, PacketAssumption
<1> QED
  BY <1>2, Zenon DEF Remembered

\* A step that leaves the guard alone keeps what is known of it.
LEMMA GuardStands ==
  ASSUME PacketType, KeepsAll, GuardInv, UNCHANGED <<seen, accepted>>
  PROVE  GuardInv'
<1>1. \A i \in DOMAIN accepted : accepted[i] \in Admissions
  BY DEF PacketType
<1>2. \A i \in DOMAIN accepted : AdmissionFits(accepted[i])'
  <2> SUFFICES ASSUME NEW i \in DOMAIN accepted PROVE AdmissionFits(accepted[i])'
    OBVIOUS
  <2>1. PICK a : a = accepted[i]
    OBVIOUS
  <2>2. a \in Admissions /\ AdmissionFits(a)
    BY <1>1, <2>1, Zenon DEF GuardInv
  <2>3. AdmissionFits(a)'
    BY <2>2, AdmissionStands, RememberedStands, Zenon
  <2>4. a = accepted'[i]
    BY <2>1, Zenon
  <2> QED
    BY <2>3, <2>4, Zenon DEF AdmissionFits, Remembered, Vouched, InForce
<1> QED
  BY <1>2, Zenon DEF GuardInv, Spaced

\* A handler is idle or works on a request.
LEMMA BusyRequest ==
  ASSUME PacketType, NEW h \in Handlers
  PROVE  /\ Busy(h) => handler[h] \in InProgress
         /\ ~Busy(h) => handler[h] = NoRequest
<1>1. handler[h] \in InProgress \cup {NoRequest}
  BY Zenon DEF PacketType
<1>2. NoRequest.at = "idle" /\ \A r \in InProgress : r.at # "idle"
  BY DEF NoRequest, InProgress, Stages
<1> QED
  BY <1>1, <1>2, Zenon DEF Busy

\* The requests and the caller stand when only one request goes on.
LEMMA HandlerStands ==
  ASSUME PacketType, KeepsAll, HandlerInv, UNCHANGED handler,
         \A h \in Handlers : Busy(h) /\ handler[h].live => UNCHANGED post
  PROVE  HandlerInv'
<1>1. ASSUME NEW h \in Handlers, Busy(h) PROVE RequestFits(handler[h])'
  <2>1. PICK r : r = handler[h]
    OBVIOUS
  <2>2. r \in InProgress
    BY <1>1, <2>1, BusyRequest, Zenon
  <2>3. RequestFits(r)
    BY <1>1, <2>1, Zenon DEF HandlerInv
  <2>4. r.live => (post.at = "open" /\ post.packet = r.packet)'
    BY <1>1, <2>1, <2>3, Zenon DEF RequestFits
  <2>5. RequestFits(r)'
    BY <2>2, <2>3, <2>4, RequestStands, Zenon
  <2>6. r = handler'[h]
    BY <2>1, Zenon
  <2> QED
    BY <2>5, <2>6, Zenon
<1> QED
  BY <1>1, Zenon DEF HandlerInv, Busy

\* One request changes and the caller's, if it is another, is left alone.
LEMMA HandlerMoves ==
  ASSUME PacketType, KeepsAll, HandlerInv, NEW h \in Handlers, NEW r,
         handler' = [handler EXCEPT ![h] = r],
         r = NoRequest \/ (r \in InProgress /\ RequestFits(r)'),
         r # NoRequest /\ r.live =>
           \A g \in Handlers : g # h /\ Busy(g) => ~handler[g].live,
         \A g \in Handlers : g # h /\ Busy(g) /\ handler[g].live => UNCHANGED post
  PROVE  HandlerInv' /\ handler' \in [Handlers -> InProgress \cup {NoRequest}]
<1>0. handler \in [Handlers -> InProgress \cup {NoRequest}]
  BY Zenon DEF PacketType
<1>1. handler' \in [Handlers -> InProgress \cup {NoRequest}]
  BY <1>0, Zenon
<1>2. handler'[h] = r /\ \A g \in Handlers : g # h => handler'[g] = handler[g]
  BY <1>0, Zenon
<1>3. NoRequest.at = "idle"
  BY DEF NoRequest
<1>4. Busy(h)' => r # NoRequest
  BY <1>2, <1>3, Zenon DEF Busy
<1>5. \A g \in Handlers : g # h => (Busy(g)' <=> Busy(g))
  BY <1>2, Zenon DEF Busy
<1>6. ASSUME NEW g \in Handlers, Busy(g)' PROVE RequestFits(handler[g])'
  <2>1. CASE g = h
    BY <1>2, <1>4, <1>6, <2>1, Zenon
  <2>2. CASE g # h
    <3>1. PICK q : q = handler[g]
      OBVIOUS
    <3>2. Busy(g) /\ q \in InProgress /\ RequestFits(q)
      BY <1>5, <1>6, <2>2, <3>1, BusyRequest, Zenon DEF HandlerInv
    <3>3. q.live => (post.at = "open" /\ post.packet = q.packet)'
      BY <2>2, <3>1, <3>2, Zenon DEF RequestFits
    <3>4. RequestFits(q)'
      BY <3>2, <3>3, RequestStands, Zenon
    <3>5. q = handler'[g]
      BY <1>2, <2>2, <3>1, Zenon
    <3> QED
      BY <3>4, <3>5, Zenon
  <2> QED
    BY <2>1, <2>2
<1>7. ASSUME NEW f \in Handlers, NEW g \in Handlers, Busy(f)', Busy(g)',
             handler'[f].live, handler'[g].live
      PROVE  f = g
  <2>1. CASE f # h /\ g # h
    BY <1>2, <1>5, <1>7, <2>1, Zenon DEF HandlerInv
  <2>2. CASE f = h /\ g # h
    BY <1>2, <1>4, <1>5, <1>7, <2>2, Zenon
  <2>3. CASE f # h /\ g = h
    BY <1>2, <1>4, <1>5, <1>7, <2>3, Zenon
  <2>4. CASE f = h /\ g = h
    BY <2>4
  <2> QED
    BY <2>1, <2>2, <2>3, <2>4, Zenon
<1> QED
  BY <1>1, <1>6, <1>7, Zenon DEF HandlerInv

-----------------------------------------------------------------------------
(* The steps. *)

\* The sender posts a signed packet.
LEMMA PostStep ==
  ASSUME PacketInv, NEW n \in Nonces, NEW q \in Payloads, NEW k \in Nat, Post(Sign(n, q, k))
  PROVE  PacketInv'
<1>0. /\ post.at # "open" /\ post' = [at |-> "open", packet |-> Sign(n, q, k)]
      /\ wire' = wire \cup {EncodeJSON(Sign(n, q, k))}
      /\ UNCHANGED <<packetTime, agents, authority, handler, seen, accepted, received, cards, contacts>>
  BY Zenon DEF Post
<1>1. PacketType'
  <2>1. Sign(n, q, k) \in Packets
    BY DEF Sign, SigningBytes, Packets, Preimages
  <2>2. post' \in Posted
    BY <1>0, <2>1 DEF Posted
  <2> QED
    BY <1>0, <2>2, Zenon DEF PacketInv, PacketType, Live
<1>2. KeepsAll
  BY <1>0, KeepsStill, Zenon DEF PacketInv
<1>3. WireInv'
  BY <1>0, Zenon DEF PacketInv, WireInv
<1>4. HandlerInv'
  <2>1. \A h \in Handlers : Busy(h) /\ handler[h].live => UNCHANGED post
    BY <1>0, Zenon DEF PacketInv, HandlerInv, RequestFits
  <2> QED
    BY <1>0, <1>2, <2>1, HandlerStands, Zenon DEF PacketInv
<1>5. GuardInv'
  BY <1>0, <1>2, GuardStands, Zenon DEF PacketInv
<1>6. PostInv'
  <2>1. post'.at = "open"
    BY <1>0
  <2> QED
    BY <2>1 DEF PostInv
<1>7. CardInv'
  BY <1>0, Zenon DEF PacketInv, CardInv, CardFits
<1> QED
  BY <1>1, <1>3, <1>4, <1>5, <1>6, <1>7, Zenon DEF PacketInv

\* The caller gives up; a request of its that is in progress answers nobody.
LEMMA PostFailsStep ==
  ASSUME PacketInv, PostFails
  PROVE  PacketInv'
<1>0. /\ post.at = "open" /\ post' = [post EXCEPT !.at = "failed"]
      /\ handler' = [h \in Handlers |-> IF handler[h].at = "idle" THEN NoRequest
                                        ELSE [handler[h] EXCEPT !.live = FALSE]]
      /\ UNCHANGED <<packetTime, agents, authority, wire, seen, accepted, received, cards, contacts>>
  BY Zenon DEF PostFails
<1>a. PacketType /\ HandlerInv
  BY Zenon DEF PacketInv
<1>1. post' \in Posted /\ post'.at = "failed"
  <2>1. post \in Posted
    <3>1. post \in Posted \cup {NoRequest}
      BY <1>a, Zenon DEF PacketType
    <3>2. NoRequest.at = "idle"
      BY DEF NoRequest
    <3> QED
      BY <1>0, <3>1, <3>2
  <2> QED
    BY <1>0, <2>1 DEF Posted
<1>2. ASSUME NEW h \in Handlers, Busy(h)
      PROVE  /\ handler'[h] \in InProgress /\ handler'[h].live = FALSE
             /\ handler'[h].at = handler[h].at /\ handler'[h].packet = handler[h].packet
             /\ handler'[h].now = handler[h].now
  <2>1. handler[h] \in InProgress
    BY <1>2, <1>a, BusyRequest, Zenon
  <2>2. handler'[h] = [handler[h] EXCEPT !.live = FALSE]
    BY <1>0, <1>2, Zenon DEF Busy
  <2>3. PICK r \in InProgress : r = handler[h]
    BY <2>1
  <2>4. [r EXCEPT !.live = FALSE] \in InProgress
    BY Zenon DEF InProgress
  <2>5. /\ [r EXCEPT !.live = FALSE].live = FALSE /\ [r EXCEPT !.live = FALSE].at = r.at
        /\ [r EXCEPT !.live = FALSE].packet = r.packet /\ [r EXCEPT !.live = FALSE].now = r.now
    BY DEF InProgress
  <2> QED
    BY <2>2, <2>3, <2>4, <2>5, Zenon
<1>3. ASSUME NEW h \in Handlers, ~Busy(h) PROVE handler'[h] = NoRequest
  BY <1>0, <1>3, Zenon DEF Busy
<1>4. handler' \in [Handlers -> InProgress \cup {NoRequest}]
  <2>1. \A h \in Handlers : handler'[h] \in InProgress \cup {NoRequest}
    BY <1>2, <1>3, Zenon
  <2>2. handler' = [h \in Handlers |-> handler'[h]]
    BY <1>0, Zenon
  <2> QED
    BY <2>1, <2>2, Zenon
<1>5. \A h \in Handlers : Busy(h)' <=> Busy(h)
  <2>1. NoRequest.at = "idle"
    BY DEF NoRequest
  <2> QED
    BY <1>2, <1>3, <2>1, Zenon DEF Busy
<1>6. PacketType'
  BY <1>0, <1>a, <1>1, <1>4, Zenon DEF PacketType, Live
<1>7. KeepsAll
  BY <1>0, <1>a, KeepsStill, Zenon
<1>8. HandlerInv'
  <2>1. ASSUME NEW h \in Handlers, Busy(h)' PROVE RequestFits(handler[h])' /\ ~handler'[h].live
    <3>1. PICK r : r = handler'[h]
      OBVIOUS
    <3>2. /\ Busy(h) /\ r \in InProgress /\ r.live = FALSE /\ r.at = handler[h].at
          /\ r.packet = handler[h].packet /\ r.now = handler[h].now
      BY <1>2, <1>5, <2>1, <3>1, Zenon
    <3>3. RequestFits(handler[h])
      BY <1>a, <3>2, Zenon DEF HandlerInv
    <3>4. RequestFits(r)
      BY <3>2, <3>3, Zenon DEF RequestFits
    <3>5. RequestFits(r)'
      BY <1>a, <1>7, <3>2, <3>4, RequestStands, Zenon
    <3> QED
      BY <3>1, <3>2, <3>5, Zenon
  <2> QED
    BY <2>1, Zenon DEF HandlerInv
<1>9. WireInv' /\ PostInv' /\ CardInv' /\ GuardInv'
  BY <1>0, <1>1, <1>7, GuardStands, Zenon DEF PacketInv, WireInv, PostInv, CardInv, CardFits
<1> QED
  BY <1>6, <1>8, <1>9, Zenon DEF PacketInv

\* The answer of a request reaches the caller whose request it is.
LEMMA AnswerFits ==
  ASSUME PacketType, HandlerInv, NEW h \in Handlers, Busy(h), NEW status \in {"failed", "accepted"},
         post' = Answered(h, status)
  PROVE  /\ post' \in Posted \cup {NoRequest}
         /\ \A g \in Handlers : g # h /\ Busy(g) /\ handler[g].live => UNCHANGED post
         /\ post' = post \/ (post'.at = status /\ post'.packet = handler[h].packet)
<1>1. post \in Posted \cup {NoRequest}
  BY Zenon DEF PacketType
<1>2. CASE handler[h].live
  <2>1. post.at = "open" /\ post.packet = handler[h].packet
    BY <1>2, Zenon DEF HandlerInv, RequestFits
  <2>2. NoRequest.at = "idle"
    BY DEF NoRequest
  <2>3. post \in Posted
    BY <1>1, <2>1, <2>2
  <2>4. post' = [post EXCEPT !.at = status]
    BY <1>2, Zenon DEF Answered
  <2>5. post' \in Posted /\ post'.at = status /\ post'.packet = post.packet
    BY <2>3, <2>4 DEF Posted
  <2>6. \A g \in Handlers : g # h /\ Busy(g) => ~handler[g].live
    BY <1>2, Zenon DEF HandlerInv
  <2> QED
    BY <2>1, <2>5, <2>6, Zenon
<1>3. CASE ~handler[h].live
  <2>1. post' = post
    BY <1>3, Zenon DEF Answered
  <2> QED
    BY <1>1, <2>1, Zenon
<1> QED
  BY <1>2, <1>3

\* What a request that ends does to the caller and to the other requests.
LEMMA EndStep ==
  ASSUME PacketInv, NEW h \in Handlers, Busy(h), NEW status \in {"failed", "accepted"},
         handler' = [handler EXCEPT ![h] = NoRequest], post' = Answered(h, status),
         UNCHANGED <<packetTime, agents, authority, wire>>
  PROVE  /\ KeepsAll /\ HandlerInv' /\ handler' \in [Handlers -> InProgress \cup {NoRequest}]
         /\ post' \in Posted \cup {NoRequest}
         /\ post' = post \/ (post'.at = status /\ post'.packet = handler[h].packet)
<1>0. PacketType /\ HandlerInv
  BY Zenon DEF PacketInv
<1>1. KeepsAll
  BY <1>0, KeepsStill, Zenon
<1>2. /\ post' \in Posted \cup {NoRequest}
      /\ \A g \in Handlers : g # h /\ Busy(g) /\ handler[g].live => UNCHANGED post
      /\ post' = post \/ (post'.at = status /\ post'.packet = handler[h].packet)
  BY <1>0, AnswerFits, Zenon
<1>3. HandlerInv' /\ handler' \in [Handlers -> InProgress \cup {NoRequest}]
  BY <1>0, <1>1, <1>2, HandlerMoves, Zenon
<1> QED
  BY <1>1, <1>2, <1>3, Zenon

\* Handler answers with an error.
LEMMA RefuseStep ==
  ASSUME PacketInv, NEW h \in Handlers, Busy(h), Refuse(h)
  PROVE  PacketInv'
<1>0. /\ handler' = [handler EXCEPT ![h] = NoRequest] /\ post' = Answered(h, "failed")
      /\ UNCHANGED <<packetTime, agents, authority, wire, seen, accepted, received, cards, contacts>>
  BY Zenon DEF Refuse
<1>1. /\ KeepsAll /\ HandlerInv' /\ handler' \in [Handlers -> InProgress \cup {NoRequest}]
      /\ post' \in Posted \cup {NoRequest}
      /\ post' = post \/ (post'.at = "failed" /\ post'.packet = handler[h].packet)
  BY <1>0, EndStep, Zenon
<1>2. PacketType'
  BY <1>0, <1>1, Zenon DEF PacketInv, PacketType, Live
<1>3. WireInv' /\ CardInv' /\ GuardInv'
  BY <1>0, <1>1, GuardStands, Zenon DEF PacketInv, WireInv, CardInv, CardFits
<1>4. PostInv'
  BY <1>0, <1>1, Zenon DEF PacketInv, PostInv
<1> QED
  BY <1>1, <1>2, <1>3, <1>4, Zenon DEF PacketInv

\* What an arriving body becomes.
LEMMA ArriveStep ==
  ASSUME PacketInv, NEW h \in Handlers, NEW w \in wire, NEW body \in Copies(w), NEW live \in BOOLEAN,
         Arrive(h, body, live)
  PROVE  PacketInv'
<1>b. PICK r : r = [at |-> "sender", packet |-> body.fields, now |-> packetTime, live |-> live]
  BY Zenon
<1>a. PacketType /\ HandlerInv /\ WireInv
  BY Zenon DEF PacketInv
<1>0. /\ live => /\ post.at = "open" /\ body = EncodeJSON(post.packet)
                 /\ \A g \in Handlers : handler[g].at # "idle" => ~handler[g].live
      /\ DecodesJSON(body) /\ handler' = [handler EXCEPT ![h] = r]
      /\ UNCHANGED <<packetTime, agents, authority, wire, post, seen, accepted, received, cards, contacts>>
  BY <1>b, Zenon DEF Arrive
<1>1. w.fields \in Packets /\ w = EncodeJSON(w.fields)
  BY <1>a, SentPackets, Zenon
<1>2. \E x \in Payloads : body.fields = [w.fields EXCEPT !.payload = x]
  <2>1. PICK f \in Packets : f = w.fields
    BY <1>1
  <2>2. w = [schema |-> "packet", trailing |-> FALSE, fields |-> f]
    BY <1>1, <2>1 DEF EncodeJSON
  <2>3. f.payload \in Payloads /\ f = [f EXCEPT !.payload = f.payload]
    BY DEF Packets
  <2>4. CASE body = w \/ body = [w EXCEPT !.trailing = TRUE]
    <3>1. body.fields = f
      BY <2>2, <2>4
    <3> QED
      BY <2>1, <2>3, <3>1, Zenon
  <2>5. ASSUME NEW x \in Payloads, body = [w EXCEPT !.fields.payload = x]
        PROVE  body.fields = [f EXCEPT !.payload = x]
    BY <2>2, <2>5
  <2>6. body = w \/ body = [w EXCEPT !.trailing = TRUE]
           \/ \E x \in Payloads : body = [w EXCEPT !.fields.payload = x]
    BY Zenon DEF Copies
  <2> QED
    BY <2>1, <2>4, <2>5, <2>6, Zenon
<1>3. body.fields \in Packets /\ CameFrom(body.fields)
  <2>1. PICK x \in Payloads : body.fields = [w.fields EXCEPT !.payload = x]
    BY <1>2, Zenon
  <2>2. \A f \in Packets : [f EXCEPT !.payload = x] \in Packets
    BY Zenon DEF Packets
  <2> QED
    BY <1>1, <2>1, <2>2, Zenon DEF CameFrom
<1>4. r \in InProgress /\ r.at = "sender" /\ r.packet = body.fields /\ r.now = packetTime /\ r.live = live
  BY <1>a, <1>b, <1>3, PacketAssumption DEF PacketType, InProgress, Stages
<1>5. live => post.packet = body.fields
  BY <1>0 DEF EncodeJSON
<1>6. RequestFits(r)'
  <2>1. packetTime <= packetTime
    BY <1>a, PacketAssumption DEF PacketType
  <2>2. CameFrom(body.fields)'
    BY <1>0, <1>3, Zenon DEF CameFrom
  <2> QED
    BY <1>0, <1>4, <1>5, <2>1, <2>2, Zenon DEF RequestFits
<1>7. KeepsAll
  BY <1>0, <1>a, KeepsStill, Zenon
<1>8. HandlerInv' /\ handler' \in [Handlers -> InProgress \cup {NoRequest}]
  <2>1. r # NoRequest /\ r.live => \A g \in Handlers : g # h /\ Busy(g) => ~handler[g].live
    BY <1>0, <1>4, Zenon DEF Busy
  <2>2. \A g \in Handlers : g # h /\ Busy(g) /\ handler[g].live => UNCHANGED post
    BY <1>0, Zenon
  <2> QED
    BY <1>0, <1>a, <1>4, <1>6, <1>7, <2>1, <2>2, HandlerMoves, Zenon
<1>9. PacketType' /\ WireInv' /\ CardInv' /\ GuardInv' /\ PostInv'
  <2>1. PacketType'
    BY <1>0, <1>8, Zenon DEF PacketInv, PacketType, Live
  <2> QED
    BY <1>0, <1>7, <2>1, GuardStands, Zenon DEF PacketInv, WireInv, CardInv, CardFits, PostInv
<1> QED
  BY <1>8, <1>9, Zenon DEF PacketInv

\* A request goes on to its next stage.
LEMMA RequestGoesOn ==
  ASSUME PacketInv, NEW h \in Handlers, Busy(h), NEW at \in Stages,
         Vouched(handler[h].packet, handler[h].now, packetTime),
         handler' = [handler EXCEPT ![h].at = at],
         UNCHANGED <<packetTime, authority, wire, post>>
  PROVE  KeepsAll /\ HandlerInv' /\ handler' \in [Handlers -> InProgress \cup {NoRequest}]
<1>a. PacketType /\ HandlerInv
  BY Zenon DEF PacketInv
<1>1. PICK q \in InProgress : q = handler[h]
  BY <1>a, BusyRequest, Zenon
<1>2. PICK r : r = [q EXCEPT !.at = at]
  BY Zenon
<1>3. handler' = [handler EXCEPT ![h] = r]
  BY <1>1, <1>2, Zenon
<1>4. /\ r \in InProgress /\ r.at = at /\ r.packet = q.packet /\ r.now = q.now /\ r.live = q.live
  BY <1>2 DEF InProgress
<1>5. RequestFits(q)
  BY <1>a, <1>1, Zenon DEF HandlerInv
<1>6. RequestFits(r)
  BY <1>1, <1>4, <1>5, Zenon DEF RequestFits
<1>7. KeepsAll
  BY <1>a, KeepsStill, Zenon
<1>8. RequestFits(r)'
  BY <1>a, <1>4, <1>6, <1>7, RequestStands, Zenon DEF RequestFits
<1>9. r # NoRequest /\ r.live => \A g \in Handlers : g # h /\ Busy(g) => ~handler[g].live
  BY <1>a, <1>1, <1>4, Zenon DEF HandlerInv
<1>10. \A g \in Handlers : g # h /\ Busy(g) /\ handler[g].live => UNCHANGED post
  BY Zenon
<1> QED
  BY <1>a, <1>3, <1>4, <1>7, <1>8, <1>9, <1>10, HandlerMoves, Zenon

\* A check of Verify passes.
LEMMA ContinueStep ==
  ASSUME PacketInv, NEW h \in Handlers, Busy(h), NEW at \in Stages,
         Vouched(handler[h].packet, handler[h].now, packetTime), Continue(h, at)
  PROVE  PacketInv'
<1>0. /\ handler' = [handler EXCEPT ![h].at = at]
      /\ UNCHANGED <<packetTime, agents, authority, wire, post, seen, accepted, received, cards, contacts>>
  BY Zenon DEF Continue
<1>1. KeepsAll /\ HandlerInv' /\ handler' \in [Handlers -> InProgress \cup {NoRequest}]
  BY <1>0, RequestGoesOn, Zenon
<1>2. PacketType'
  BY <1>0, <1>1, Zenon DEF PacketInv, PacketType, Live
<1>3. WireInv' /\ CardInv' /\ GuardInv' /\ PostInv'
  BY <1>0, <1>1, GuardStands, Zenon DEF PacketInv, WireInv, CardInv, CardFits, PostInv
<1> QED
  BY <1>1, <1>2, <1>3, Zenon DEF PacketInv

\* The sender's key is in force when it is resolved, which is after the arrival.
LEMMA ResolveSenderStep ==
  ASSUME PacketInv, NEW h \in Handlers, ResolveSender(h)
  PROVE  PacketInv'
<1>0. handler[h].at = "sender"
  BY Zenon DEF ResolveSender
<1>1. Busy(h)
  BY <1>0 DEF Busy
<1>2. CASE Refuse(h)
  BY <1>1, <1>2, RefuseStep, Zenon
<1>3. CASE Authorized(handler[h].packet) /\ Continue(h, "recipient")
  <2>1. PICK q : q = handler[h]
    OBVIOUS
  <2>2. q \in InProgress /\ RequestFits(q)
    BY <1>1, <2>1, BusyRequest, Zenon DEF PacketInv, HandlerInv
  <2>3. EncodeJSON(q.packet) \in wire
    BY <1>3, <2>1, <2>2, Unaltered, Zenon DEF PacketInv, RequestFits, Authorized
  <2>4. q.packet.key \in authority[packetTime]
    BY <1>3, <2>1, Zenon DEF PacketInv, PacketType, Authorized
  <2>5. packetTime \in q.now .. packetTime
    <3>1. q.now \in Nat /\ q.now <= packetTime /\ packetTime \in 0 .. MaxPacketTime
      BY <2>2 DEF InProgress, RequestFits, PacketInv, PacketType
    <3> QED
      BY <3>1, PacketAssumption
  <2>6. Vouched(q.packet, q.now, packetTime)
    BY <2>3, <2>4, <2>5, Zenon DEF Vouched, InForce
  <2>7. "recipient" \in Stages
    BY DEF Stages
  <2> QED
    BY <1>1, <1>3, <2>1, <2>6, <2>7, ContinueStep, Zenon
<1> QED
  BY <1>2, <1>3, Zenon DEF ResolveSender

\* The recipient is resolved after the sender.
LEMMA ResolveRecipientStep ==
  ASSUME PacketInv, NEW h \in Handlers, ResolveRecipient(h)
  PROVE  PacketInv'
<1>0. handler[h].at = "recipient"
  BY Zenon DEF ResolveRecipient
<1>1. Busy(h) /\ handler[h].at # "sender" /\ "claim" \in Stages
  BY <1>0 DEF Busy, Stages
<1>2. CASE Refuse(h)
  BY <1>1, <1>2, RefuseStep, Zenon
<1>3. CASE Continue(h, "claim")
  <2>1. Vouched(handler[h].packet, handler[h].now, packetTime)
    BY <1>1, Zenon DEF PacketInv, HandlerInv, RequestFits
  <2> QED
    BY <1>1, <1>3, <2>1, ContinueStep, Zenon
<1> QED
  BY <1>2, <1>3, Zenon DEF ResolveRecipient

\* The application takes the packet or fails.
LEMMA ReceiveStep ==
  ASSUME PacketInv, NEW h \in Handlers, Receive(h)
  PROVE  PacketInv'
<1>0. /\ handler[h].at = "receive" /\ handler' = [handler EXCEPT ![h] = NoRequest]
      /\ UNCHANGED <<packetTime, agents, authority, wire, seen, accepted, cards, contacts>>
  BY Zenon DEF Receive
<1>1. Busy(h)
  BY <1>0 DEF Busy
<1>2. ASSUME NEW status \in {"failed", "accepted"}, post' = Answered(h, status),
             received \subseteq received',
             status = "accepted" => handler[h].packet \in received'
      PROVE  PacketInv'
  <2>1. /\ KeepsAll /\ HandlerInv' /\ handler' \in [Handlers -> InProgress \cup {NoRequest}]
        /\ post' \in Posted \cup {NoRequest}
        /\ post' = post \/ (post'.at = status /\ post'.packet = handler[h].packet)
    BY <1>0, <1>1, <1>2, EndStep, Zenon
  <2>2. PacketType'
    BY <1>0, <2>1, Zenon DEF PacketInv, PacketType, Live
  <2>3. WireInv' /\ CardInv' /\ GuardInv'
    BY <1>0, <2>1, GuardStands, Zenon DEF PacketInv, WireInv, CardInv, CardFits
  <2>4. PostInv'
    BY <1>2, <2>1, Zenon DEF PacketInv, PostInv
  <2> QED
    BY <2>1, <2>2, <2>3, <2>4, Zenon DEF PacketInv
<1>3. CASE received' = received \cup {handler[h].packet} /\ post' = Answered(h, "accepted")
  BY <1>2, <1>3, Zenon
<1>4. CASE received' = received /\ post' = Answered(h, "failed")
  <2>1. "failed" # "accepted"
    OBVIOUS
  <2> QED
    BY <1>2, <1>4, <2>1, Zenon
<1> QED
  BY <1>3, <1>4, Zenon DEF Receive

\* What the guard drops is past its TTL: a claim as of the time now keeps, or
\* outlives, the memory of what was accepted.
LEMMA DroppedIsPast ==
  ASSUME PacketType, NEW now \in Nat, now <= packetTime, NEW a \in Admissions, Remembered(a),
         PacketKey(a.packet) \notin Kept(now)
  PROVE  packetTime > a.arrived + PacketTTL
<1>1. a.arrived \in Nat /\ packetTime \in Nat
  BY PacketAssumption DEF Admissions, PacketType
<1>2. CASE PacketKey(a.packet) \in DOMAIN seen /\ seen[PacketKey(a.packet)] >= a.arrived
  <2>1. PICK s : s = seen[PacketKey(a.packet)]
    OBVIOUS
  <2>2. s \in Nat /\ s >= a.arrived
    BY <1>2, <2>1, Zenon DEF PacketType
  <2>3. ~(now - s <= PacketTTL)
    BY <1>2, <2>1, Zenon DEF Kept
  <2> QED
    BY <1>1, <2>2, <2>3, PacketAssumption
<1> QED
  BY <1>2, Zenon DEF Remembered

\* A claim, admitted or not, leaves what was accepted remembered.
LEMMA ClaimRemembers ==
  ASSUME PacketType, NEW now \in Nat, now <= packetTime, NEW a \in Admissions, Remembered(a),
         UNCHANGED packetTime,
         \A k \in Kept(now) : k \in DOMAIN seen' /\ (k \in DOMAIN seen => seen'[k] = seen[k])
  PROVE  Remembered(a)'
<1>1. CASE PacketKey(a.packet) \in Kept(now) /\ PacketKey(a.packet) \in DOMAIN seen
  BY <1>1, Zenon DEF Remembered
<1>2. CASE PacketKey(a.packet) \notin Kept(now)
  BY <1>2, DroppedIsPast, Zenon DEF Remembered
<1>3. Kept(now) \subseteq DOMAIN seen
  BY Zenon DEF Kept
<1> QED
  BY <1>1, <1>2, <1>3, Zenon

\* The guard finds the nonce among those it keeps.
LEMMA ClaimRefused ==
  ASSUME PacketInv, NEW h \in Handlers, Claim(h),
         PacketKey(handler[h].packet) \in Kept(handler[h].now)
  PROVE  PacketInv'
<1>a. PacketType /\ HandlerInv /\ GuardInv
  BY Zenon DEF PacketInv
<1>b. PICK kept : kept = Kept(handler[h].now)
  OBVIOUS
<1>0. /\ handler[h].at = "claim" /\ seen' = [k \in kept |-> seen[k]]
      /\ handler' = [handler EXCEPT ![h] = NoRequest] /\ post' = Answered(h, "failed")
      /\ UNCHANGED <<packetTime, agents, authority, wire, accepted, received, cards, contacts>>
  BY <1>b, Zenon DEF Claim
<1>1. Busy(h)
  BY <1>0 DEF Busy
<1>2. /\ KeepsAll /\ HandlerInv' /\ handler' \in [Handlers -> InProgress \cup {NoRequest}]
      /\ post' \in Posted \cup {NoRequest}
      /\ post' = post \/ (post'.at = "failed" /\ post'.packet = handler[h].packet)
  BY <1>0, <1>1, EndStep, Zenon
<1>3. kept \subseteq DOMAIN seen /\ DOMAIN seen' = kept /\ \A k \in kept : seen'[k] = seen[k]
  BY <1>0, <1>b, Zenon DEF Kept
<1>4. PacketType'
  BY <1>0, <1>2, <1>3, Zenon DEF PacketInv, PacketType, Live
<1>5. GuardInv'
  <2>1. PICK now : now = handler[h].now
    OBVIOUS
  <2>2. now \in Nat /\ now <= packetTime
    <3>1. handler[h] \in InProgress
      BY <1>1, <1>a, BusyRequest, Zenon
    <3>2. handler[h].now <= packetTime
      BY <1>1, <1>a, Zenon DEF HandlerInv, RequestFits
    <3> QED
      BY <2>1, <3>1, <3>2 DEF InProgress
  <2>3. \A k \in Kept(now) : k \in DOMAIN seen' /\ (k \in DOMAIN seen => seen'[k] = seen[k])
    BY <1>b, <1>3, <2>1, Zenon
  <2>4. ASSUME NEW i \in DOMAIN accepted PROVE AdmissionFits(accepted[i])'
    <3>1. PICK a : a = accepted[i]
      OBVIOUS
    <3>2. a \in Admissions
      BY <1>a, <3>1 DEF PacketType
    <3>3. AdmissionFits(a)
      BY <1>a, <3>1, Zenon DEF GuardInv
    <3>4. Remembered(a)'
      BY <1>0, <1>a, <2>2, <2>3, <3>2, <3>3, ClaimRemembers, Zenon DEF AdmissionFits
    <3>5. AdmissionFits(a)'
      BY <1>a, <1>2, <3>2, <3>3, <3>4, AdmissionStands, Zenon
    <3>6. a = accepted'[i]
      BY <1>0, <3>1, Zenon
    <3> QED
      BY <3>5, <3>6, Zenon DEF AdmissionFits, Remembered, Vouched, InForce
  <2> QED
    BY <1>0, <1>a, <2>4, Zenon DEF GuardInv, Spaced
<1>6. WireInv' /\ CardInv' /\ PostInv'
  BY <1>0, <1>2, Zenon DEF PacketInv, WireInv, CardInv, CardFits, PostInv
<1> QED
  BY <1>2, <1>4, <1>5, <1>6, Zenon DEF PacketInv

\* One more admission.
LEMMA OneMore ==
  ASSUME NEW S, NEW q \in Seq(S), NEW e \in S
  PROVE  /\ Append(q, e) \in Seq(S) /\ Len(Append(q, e)) = Len(q) + 1
         /\ Append(q, e)[Len(q) + 1] = e
         /\ \A i \in DOMAIN q : Append(q, e)[i] = q[i]
         /\ DOMAIN Append(q, e) = DOMAIN q \cup {Len(q) + 1}
         /\ Len(q) + 1 \in Nat
         /\ \A i \in DOMAIN q : i \in Nat /\ i < Len(q) + 1
  BY SMT

\* The guard admits a nonce it does not keep: what it admitted of it is past the TTL.
LEMMA ClaimAdmits ==
  ASSUME PacketInv, NEW h \in Handlers, Claim(h),
         PacketKey(handler[h].packet) \notin Kept(handler[h].now)
  PROVE  PacketInv'
<1>a. PacketType /\ HandlerInv /\ GuardInv
  BY Zenon DEF PacketInv
<1>b. PICK r : r = handler[h]
  OBVIOUS
<1>c. PICK kept : kept = Kept(r.now)
  OBVIOUS
<1>d. PICK key : key = PacketKey(r.packet)
  OBVIOUS
<1>e. PICK b : b = [packet |-> r.packet, arrived |-> r.now, claimed |-> packetTime]
  BY Zenon
<1>0. /\ r.at = "claim"
      /\ seen' = [k \in kept \cup {key} |-> IF k = key THEN r.now ELSE seen[k]]
      /\ handler' = [handler EXCEPT ![h].at = "receive"]
      /\ accepted' = Append(accepted, b)
      /\ UNCHANGED <<packetTime, agents, authority, wire, post, received, cards, contacts>>
  BY <1>b, <1>c, <1>d, <1>e, Zenon DEF Claim
<1>1. Busy(h) /\ r.at # "sender" /\ "receive" \in Stages
  BY <1>0, <1>b DEF Busy, Stages
<1>2. r \in InProgress /\ RequestFits(r)
  BY <1>1, <1>a, <1>b, BusyRequest, Zenon DEF HandlerInv
<1>3. Vouched(r.packet, r.now, packetTime) /\ r.now <= packetTime
  BY <1>1, <1>2, Zenon DEF RequestFits
<1>4. r.now \in Nat /\ packetTime \in Nat /\ r.packet \in Packets
  <2>1. \A q \in InProgress : q.now \in Nat /\ q.packet \in Packets
    BY Zenon DEF InProgress
  <2>2. packetTime \in 0 .. MaxPacketTime
    BY <1>a, Zenon DEF PacketType
  <2>3. packetTime \in Nat
    BY <2>2, PacketAssumption
  <2> QED
    BY <1>2, <2>1, <2>3, Zenon
<1>5. b \in Admissions /\ b.packet = r.packet /\ b.arrived = r.now /\ b.claimed = packetTime
  BY <1>4, <1>e, Zenon DEF Admissions
<1>6. KeepsAll /\ HandlerInv' /\ handler' \in [Handlers -> InProgress \cup {NoRequest}]
  BY <1>0, <1>1, <1>3, <1>b, RequestGoesOn, Zenon
<1>7. /\ DOMAIN seen' = kept \cup {key} /\ seen'[key] = r.now /\ key \notin kept
      /\ kept \subseteq DOMAIN seen /\ \A k \in kept : seen'[k] = seen[k]
  BY <1>0, <1>b, <1>c, <1>d, Zenon DEF Kept
<1>8. /\ accepted' \in Seq(Admissions) /\ Len(accepted') = Len(accepted) + 1
      /\ accepted'[Len(accepted) + 1] = b
      /\ \A i \in DOMAIN accepted : accepted'[i] = accepted[i]
      /\ DOMAIN accepted' = DOMAIN accepted \cup {Len(accepted) + 1}
      /\ Len(accepted) + 1 \in Nat
      /\ \A i \in DOMAIN accepted : i \in Nat /\ i < Len(accepted) + 1
  <2>1. accepted \in Seq(Admissions)
    BY <1>a, Zenon DEF PacketType
  <2>2. b \in Admissions /\ accepted' = Append(accepted, b)
    BY <1>0, <1>5, Zenon
  <2>3. /\ Append(accepted, b) \in Seq(Admissions) /\ Len(Append(accepted, b)) = Len(accepted) + 1
        /\ Append(accepted, b)[Len(accepted) + 1] = b
        /\ \A i \in DOMAIN accepted : Append(accepted, b)[i] = accepted[i]
        /\ DOMAIN Append(accepted, b) = DOMAIN accepted \cup {Len(accepted) + 1}
        /\ Len(accepted) + 1 \in Nat
        /\ \A i \in DOMAIN accepted : i \in Nat /\ i < Len(accepted) + 1
    BY <2>1, <2>2, OneMore, Zenon
  <2> QED
    BY <2>2, <2>3, Zenon
<1>9. PacketType'
  <2>1. \A k \in DOMAIN seen' : seen'[k] \in Nat
    BY <1>4, <1>7, <1>a, Zenon DEF PacketType
  <2> QED
    BY <1>0, <1>6, <1>8, <2>1, <1>a, Zenon DEF PacketType, Live
<1>10. \A k \in Kept(r.now) : k \in DOMAIN seen' /\ (k \in DOMAIN seen => seen'[k] = seen[k])
  BY <1>7, <1>c, Zenon
<1>11. ASSUME NEW i \in DOMAIN accepted
       PROVE  /\ AdmissionFits(accepted[i])'
              /\ PacketKey(accepted[i].packet) = key => packetTime > accepted[i].arrived + PacketTTL
  <2>1. PICK a : a = accepted[i]
    OBVIOUS
  <2>2. a \in Admissions
    BY <1>a, <2>1 DEF PacketType
  <2>3. AdmissionFits(a) /\ Remembered(a)
    BY <1>a, <2>1, Zenon DEF GuardInv, AdmissionFits
  <2>4. PacketKey(a.packet) = key => packetTime > a.arrived + PacketTTL
    BY <1>3, <1>4, <1>7, <1>a, <1>c, <2>2, <2>3, DroppedIsPast, Zenon
  <2>5. Remembered(a)'
    BY <1>0, <1>3, <1>4, <1>10, <1>a, <2>2, <2>3, ClaimRemembers, Zenon
  <2>6. AdmissionFits(a)'
    BY <1>a, <1>6, <2>2, <2>3, <2>5, AdmissionStands, Zenon
  <2>7. a = accepted'[i]
    BY <1>8, <2>1, Zenon
  <2> QED
    BY <2>1, <2>4, <2>6, <2>7, Zenon
<1>12. AdmissionFits(b)'
  <2>1. b.arrived <= b.claimed /\ b.claimed <= packetTime'
    BY <1>0, <1>3, <1>4, <1>5
  <2>2. Vouched(b.packet, b.arrived, b.claimed)'
    BY <1>0, <1>3, <1>5, Zenon DEF Vouched, InForce
  <2>3. Remembered(b)'
    <3>1. r.now >= r.now
      BY <1>4
    <3>2. PacketKey(b.packet) = key
      BY <1>5, <1>d, Zenon
    <3>3. key \in DOMAIN seen'
      BY <1>7, Zenon
    <3> QED
      BY <1>5, <1>7, <3>1, <3>2, <3>3, Zenon DEF Remembered
  <2> QED
    BY <2>1, <2>2, <2>3, Zenon DEF AdmissionFits
<1>13. ASSUME NEW i \in DOMAIN accepted', NEW j \in DOMAIN accepted' PROVE Spaced(i, j)'
  <2>1. CASE i \in DOMAIN accepted /\ j \in DOMAIN accepted
    BY <1>8, <1>a, <2>1, Zenon DEF GuardInv, Spaced
  <2>2. CASE i \in DOMAIN accepted /\ j = Len(accepted) + 1
    BY <1>5, <1>8, <1>11, <1>d, <2>2, Zenon DEF Spaced
  <2>3. CASE i = Len(accepted) + 1
    <3>0. \A m, n \in Nat : (m < n => ~(n < m)) /\ ~(n < n)
      OBVIOUS
    <3>1. ~(i < j)
      BY <1>8, <1>13, <2>3, <3>0, Zenon
    <3> QED
      BY <3>1, Zenon DEF Spaced
  <2> QED
    BY <1>8, <1>13, <2>1, <2>2, <2>3, Zenon
<1>14. GuardInv'
  <2>1. ASSUME NEW i \in DOMAIN accepted' PROVE AdmissionFits(accepted[i])'
    BY <1>8, <1>11, <1>12, <2>1, Zenon
  <2> QED
    BY <1>13, <2>1, Zenon DEF GuardInv
<1>15. WireInv' /\ CardInv' /\ PostInv'
  BY <1>0, Zenon DEF PacketInv, WireInv, CardInv, CardFits, PostInv
<1> QED
  BY <1>6, <1>9, <1>14, <1>15, Zenon DEF PacketInv

\* The claim of a nonce.
LEMMA ClaimStep ==
  ASSUME PacketInv, NEW h \in Handlers, Claim(h)
  PROVE  PacketInv'
BY ClaimRefused, ClaimAdmits, Zenon

\* The recipient's process starts anew, with nothing accepted.
LEMMA RestartStep ==
  ASSUME PacketInv, RestartRecipient
  PROVE  PacketInv'
<1>a. PacketType
  BY Zenon DEF PacketInv
<1>0. /\ seen' = << >> /\ accepted' = << >> /\ handler' = [h \in Handlers |-> NoRequest]
      /\ post' = IF post.at = "open" THEN [post EXCEPT !.at = "failed"] ELSE post
      /\ UNCHANGED <<packetTime, agents, authority, wire, received, cards, contacts>>
  BY Zenon DEF RestartRecipient
<1>1. post' \in Posted \cup {NoRequest} /\ (post' = post \/ post'.at = "failed")
  <2>1. post \in Posted \cup {NoRequest}
    BY <1>a, Zenon DEF PacketType
  <2>2. NoRequest.at = "idle"
    BY DEF NoRequest
  <2>3. CASE post.at = "open"
    <3>1. post \in Posted
      BY <2>1, <2>2, <2>3
    <3>2. post' = [post EXCEPT !.at = "failed"]
      BY <1>0, <2>3, Zenon
    <3> QED
      BY <3>1, <3>2 DEF Posted
  <2>4. CASE post.at # "open"
    BY <1>0, <2>1, <2>4, Zenon
  <2> QED
    BY <2>3, <2>4
<1>2. \A h \in Handlers : handler'[h] = NoRequest
  BY <1>0, Zenon
<1>3. PacketType'
  <2>1. handler' \in [Handlers -> InProgress \cup {NoRequest}]
    BY <1>0, Zenon
  <2>2. accepted' \in Seq(Admissions) /\ DOMAIN seen' = {}
    BY <1>0
  <2>3. \A k \in DOMAIN seen' : seen'[k] \in Nat
    BY <2>2, Zenon
  <2> QED
    BY <1>0, <1>1, <1>a, <2>1, <2>2, <2>3, Zenon DEF PacketType, Live
<1>4. HandlerInv'
  <2>1. NoRequest.at = "idle"
    BY DEF NoRequest
  <2>2. \A h \in Handlers : ~Busy(h)'
    BY <1>2, <2>1, Zenon DEF Busy
  <2> QED
    BY <2>2, Zenon DEF HandlerInv
<1>5. GuardInv'
  <2>1. DOMAIN accepted' = {}
    BY <1>0
  <2> QED
    BY <2>1, Zenon DEF GuardInv
<1>6. PostInv' /\ WireInv' /\ CardInv'
  BY <1>0, <1>1, Zenon DEF PacketInv, PostInv, WireInv, CardInv, CardFits
<1> QED
  BY <1>3, <1>4, <1>5, <1>6, Zenon DEF PacketInv

\* The Agents and the clock move on: keys in force are only added to.
LEMMA ChainStep ==
  ASSUME PacketInv, PacketType', KeepsAll,
         UNCHANGED <<wire, post, handler, seen, accepted, received, cards, contacts>>
  PROVE  PacketInv'
<1>1. HandlerInv'
  BY HandlerStands, Zenon DEF PacketInv
<1>2. GuardInv'
  BY GuardStands, Zenon DEF PacketInv
<1>3. WireInv' /\ PostInv' /\ CardInv'
  BY Zenon DEF PacketInv, PostInv, WireInv, CardInv, CardFits
<1> QED
  BY <1>1, <1>2, <1>3, Zenon DEF PacketInv

\* The finalized state of an Agent changes.
LEMMA FinalizeStep ==
  ASSUME PacketInv, NEW a \in {"sender", "recipient"}, NEW state \in AgentState,
         FinalizeAgent(a, state)
  PROVE  PacketInv'
<1>a. PacketType
  BY Zenon DEF PacketInv
<1>0. /\ agents' = [agents EXCEPT ![a] = state]
      /\ authority' = [authority EXCEPT ![packetTime] =
                         IF agents'.sender.tombstoned THEN @ ELSE @ \cup {agents'.sender.key}]
      /\ UNCHANGED <<packetTime, wire, post, handler, seen, accepted, received, cards, contacts>>
  BY Zenon DEF FinalizeAgent
<1>1. agents' \in [sender : AgentState, recipient : AgentState]
  <2>1. agents \in [sender : AgentState, recipient : AgentState]
    BY <1>a, Zenon DEF PacketType
  <2> HIDE DEF AgentState
  <2> QED
    BY <1>0, <2>1
<1>2. agents'.sender \in AgentState
  <2> HIDE DEF AgentState
  <2> QED
    BY <1>1
<1>3. agents'.sender.key \in Nat
  BY <1>2 DEF AgentState
<1>4. packetTime \in 0 .. MaxPacketTime /\ authority \in [0 .. MaxPacketTime -> SUBSET Nat]
  BY <1>a, Zenon DEF PacketType
<1>5. PICK owners : owners = IF agents'.sender.tombstoned THEN authority[packetTime]
                         ELSE authority[packetTime] \cup {agents'.sender.key}
  BY Zenon
<1>6. authority' = [authority EXCEPT ![packetTime] = owners]
  BY <1>0, <1>5, Zenon
<1>7. authority[packetTime] \subseteq owners /\ owners \in SUBSET Nat
  BY <1>3, <1>4, <1>5, Zenon
<1>8. /\ authority' \in [0 .. MaxPacketTime -> SUBSET Nat] /\ authority'[packetTime] = owners
      /\ \A t \in 0 .. MaxPacketTime : authority[t] \subseteq authority'[t]
  BY <1>4, <1>6, <1>7, Zenon
<1>9. Live("sender")' => agents'.sender.key \in authority'[packetTime]
  BY <1>5, <1>8, Zenon DEF Live
<1>10. PacketType'
  BY <1>0, <1>1, <1>8, <1>9, <1>a, Zenon DEF PacketType
<1>11. KeepsAll
  <2>1. packetTime <= packetTime /\ \A t \in 0 .. packetTime : t \in 0 .. MaxPacketTime
    BY <1>4, PacketAssumption
  <2> QED
    BY <1>0, <1>4, <1>8, <2>1, Zenon DEF KeepsAll
<1> QED
  BY <1>0, <1>10, <1>11, ChainStep, Zenon

\* Registration, rotation and tombstone of an Agent.
LEMMA AgentSteps ==
  ASSUME PacketInv, NEW a \in {"sender", "recipient"},
         RegisterAgent(a) \/ RotateAgent(a) \/ TombstoneAgent(a)
  PROVE  PacketInv'
<1>1. PICK s : s = agents[a]
  OBVIOUS
<1>2. s \in AgentState
  <2>1. agents \in [sender : AgentState, recipient : AgentState]
    BY Zenon DEF PacketInv, PacketType
  <2> HIDE DEF AgentState
  <2> QED
    BY <1>1, <2>1
<1>3. /\ [s EXCEPT !.found = TRUE] \in AgentState /\ [s EXCEPT !.key = @ + 1] \in AgentState
      /\ [s EXCEPT !.tombstoned = TRUE] \in AgentState
  <2>1. s.key + 1 \in Nat
    BY <1>2 DEF AgentState
  <2>2. [s EXCEPT !.found = TRUE] \in AgentState /\ [s EXCEPT !.tombstoned = TRUE] \in AgentState
    BY <1>2, Zenon DEF AgentState
  <2>3. \A k \in Nat : [s EXCEPT !.key = k] \in AgentState
    BY <1>2 DEF AgentState
  <2> QED
    BY <2>1, <2>2, <2>3, Zenon
<1>4. CASE RegisterAgent(a)
  BY <1>1, <1>3, <1>4, FinalizeStep, Zenon DEF RegisterAgent
<1>5. CASE RotateAgent(a)
  BY <1>1, <1>3, <1>5, FinalizeStep, Zenon DEF RotateAgent
<1>6. CASE TombstoneAgent(a)
  BY <1>1, <1>3, <1>6, FinalizeStep, Zenon DEF TombstoneAgent
<1> QED
  BY <1>4, <1>5, <1>6

\* Time passes.
LEMMA TickStep ==
  ASSUME PacketInv, PacketTick
  PROVE  PacketInv'
<1>a. PacketType
  BY Zenon DEF PacketInv
<1>0. /\ packetTime < MaxPacketTime /\ packetTime' = packetTime + 1
      /\ UNCHANGED <<agents, wire, post, handler, seen, accepted, received, cards, contacts>>
  BY Zenon DEF PacketTick
<1>b. PICK owners : owners = IF Live("sender") THEN {agents.sender.key} ELSE {}
  BY Zenon
<1>c. authority' = [authority EXCEPT ![packetTime'] = owners]
  BY <1>0, <1>b, Zenon DEF PacketTick
<1>1. packetTime \in 0 .. MaxPacketTime /\ authority \in [0 .. MaxPacketTime -> SUBSET Nat]
  BY <1>a, Zenon DEF PacketType
<1>2. /\ packetTime' \in 0 .. MaxPacketTime /\ packetTime <= packetTime'
      /\ \A t \in 0 .. packetTime : t \in 0 .. MaxPacketTime /\ t # packetTime'
  BY <1>0, <1>1, PacketAssumption
<1>3. agents.sender.key \in Nat
  <2>1. agents \in [sender : AgentState, recipient : AgentState]
    BY <1>a, Zenon DEF PacketType
  <2> QED
    BY <2>1 DEF AgentState
<1>4. owners \in SUBSET Nat
  BY <1>3, <1>b, Zenon
<1>5. /\ authority' \in [0 .. MaxPacketTime -> SUBSET Nat] /\ authority'[packetTime'] = owners
      /\ \A t \in 0 .. MaxPacketTime : t # packetTime' => authority'[t] = authority[t]
  BY <1>1, <1>2, <1>4, <1>c, Zenon
<1>6. Live("sender")' => agents'.sender.key \in authority'[packetTime']
  BY <1>0, <1>5, <1>b, Zenon DEF Live
<1>7. PacketType'
  BY <1>0, <1>2, <1>5, <1>6, <1>a, Zenon DEF PacketType
<1>8. KeepsAll
  BY <1>0, <1>2, <1>5, Zenon DEF KeepsAll
<1> QED
  BY <1>0, <1>7, <1>8, ChainStep, Zenon

\* A contact card is signed, within its lifetime.
LEMMA SignContactStep ==
  ASSUME PacketInv, NEW key \in Nat, NEW network \in Networks, NEW expires \in Nat,
         SignContactAt(key, network, expires)
  PROVE  PacketInv'
<1>a. PacketType /\ CardInv
  BY Zenon DEF PacketInv
<1>b. PICK u : u = [key |-> key, network |-> network, expires |-> expires]
  BY Zenon
<1>c. PICK card : card = [key |-> key, network |-> network, expires |-> expires,
                          signature |-> [by |-> key, over |-> ContactBytes(u)]]
  BY Zenon
<1>d. PICK issued : issued = [card |-> card, signed |-> packetTime]
  BY Zenon
<1>0. /\ cards = {} /\ ValidateContact(u, packetTime) /\ cards' = {issued}
      /\ UNCHANGED <<packetTime, agents, authority, wire, post, handler, seen, accepted, received, contacts>>
  BY <1>b, <1>c, <1>d, Zenon DEF SignContactAt
<1>1. ContactBytes(u) = u
  BY <1>b, Zenon DEF ContactBytes
<1>2. /\ card \in Cards /\ card.signature.over = ContactBytes(card) /\ card.expires = expires
  BY <1>b, <1>c, <1>1 DEF Cards, ContactBytes
<1>3. packetTime \in Nat
  BY <1>a, PacketAssumption DEF PacketType
<1>4. issued \in [card : Cards, signed : Nat] /\ issued.card = card /\ issued.signed = packetTime
  <2> HIDE DEF Cards
  <2> QED
    BY <1>2, <1>3, <1>d
<1>5. expires <= packetTime + CardLifetime
  BY <1>0, <1>b DEF ValidateContact
<1>6. CardFits(issued)
  BY <1>2, <1>4, <1>5, Zenon DEF CardFits
<1>7. CardInv'
  <2>1. contacts = {}
    BY <1>0, <1>a, Zenon DEF CardInv
  <2> QED
    BY <1>0, <1>6, <2>1, Zenon DEF CardInv, CardFits
<1>8. PacketType'
  BY <1>0, <1>4, <1>a, Zenon DEF PacketType, Live
<1>9. KeepsAll
  BY <1>0, <1>a, KeepsStill, Zenon
<1>10. HandlerInv' /\ GuardInv'
  BY <1>0, <1>9, HandlerStands, GuardStands, Zenon DEF PacketInv
<1>11. WireInv' /\ PostInv'
  BY <1>0, Zenon DEF PacketInv, WireInv, PostInv
<1> QED
  BY <1>7, <1>8, <1>10, <1>11, Zenon DEF PacketInv

\* A copy whose signature verifies is the card that was signed.
LEMMA SameCard ==
  ASSUME NEW c \in Cards, c.signature.over = ContactBytes(c), NEW card \in CardCopies(c),
         card.signature.over = ContactBytes(card)
  PROVE  card = c
<1>1. PICK t \in 0 .. MaxPacketTime + CardLifetime : card = [c EXCEPT !.expires = t]
  BY Zenon DEF CardCopies
<1>2. card.signature = c.signature /\ card.expires = t
  <2>1. DOMAIN c = {"key", "network", "expires", "signature"}
    BY Zenon DEF Cards
  <2> QED
    BY <1>1, <2>1
<1>3. ContactBytes(card).expires = t /\ ContactBytes(c).expires = c.expires
  BY <1>2, Zenon DEF ContactBytes
<1>4. t = c.expires
  BY <1>2, <1>3, Zenon
<1> QED
  BY <1>1, <1>4 DEF Cards

\* A peer verifies a card that a rendezvous handed on.
LEMMA VerifyContactStep ==
  ASSUME PacketInv, NEW issued \in cards, NEW card \in CardCopies(issued.card), VerifyContact(card)
  PROVE  PacketInv'
<1>a. PacketType /\ CardInv
  BY Zenon DEF PacketInv
<1>b. PICK c : c = [card |-> card, at |-> packetTime]
  BY Zenon
<1>0. /\ ValidateContact(card, packetTime) /\ card.signature.over = ContactBytes(card)
      /\ contacts' = contacts \cup {c}
      /\ UNCHANGED <<packetTime, agents, authority, wire, post, handler, seen, accepted, received, cards>>
  BY <1>b, Zenon DEF VerifyContact, VerifyContactForNetwork
<1>1. issued.card \in Cards /\ issued.signed \in Nat
  <2>1. issued \in [card : Cards, signed : Nat]
    BY <1>a, Zenon DEF PacketType
  <2> HIDE DEF Cards
  <2> QED
    BY <2>1
<1>2. CardFits(issued)
  BY <1>a, Zenon DEF CardInv
<1>3. card = issued.card
  BY <1>0, <1>1, <1>2, SameCard, Zenon DEF CardFits
<1>4. c.card = issued.card /\ c.at < issued.signed + CardLifetime
  <2>1. packetTime < card.expires
    BY <1>0, Zenon DEF ValidateContact
  <2>2. card.expires <= issued.signed + CardLifetime
    BY <1>2, <1>3, Zenon DEF CardFits
  <2>3. c.card = card /\ c.at = packetTime
    BY <1>b, Zenon
  <2>4. card.expires \in Nat
    BY <1>1, <1>3, Zenon DEF Cards
  <2>5. packetTime \in 0 .. MaxPacketTime
    BY <1>a, Zenon DEF PacketType
  <2>6. packetTime \in Nat
    BY <2>5, PacketAssumption
  <2> QED
    BY <1>1, <1>3, <2>1, <2>2, <2>3, <2>4, <2>6, PacketAssumption
<1>5. CardInv'
  BY <1>0, <1>4, <1>a, Zenon DEF CardInv, CardFits
<1>6. PacketType'
  BY <1>0, <1>a, Zenon DEF PacketType, Live
<1>7. KeepsAll
  BY <1>0, <1>a, KeepsStill, Zenon
<1>8. HandlerInv' /\ GuardInv'
  BY <1>0, <1>7, HandlerStands, GuardStands, Zenon DEF PacketInv
<1>9. WireInv' /\ PostInv'
  BY <1>0, Zenon DEF PacketInv, WireInv, PostInv
<1> QED
  BY <1>5, <1>6, <1>8, <1>9, Zenon DEF PacketInv

\* Nothing was sent.
LEMMA PacketInitial ==
  ASSUME PacketInit
  PROVE  PacketInv
<1>1. packetTime = 0 /\ 0 \in 0 .. MaxPacketTime
  BY PacketAssumption DEF PacketInit
<1>2. agents \in [sender : AgentState, recipient : AgentState] /\ agents.sender.key = 1
  BY Zenon DEF PacketInit, AgentState
<1>3. authority \in [0 .. MaxPacketTime -> SUBSET Nat] /\ authority[0] = {1}
  BY <1>1 DEF PacketInit
<1>4. accepted \in Seq(Admissions) /\ DOMAIN accepted = {} /\ DOMAIN seen = {}
  BY DEF PacketInit
<1>5. NoRequest.at = "idle" /\ "idle" # "accepted"
  BY DEF NoRequest
<1>6. /\ wire = {} /\ post = NoRequest /\ handler = [h \in Handlers |-> NoRequest]
      /\ cards = {} /\ contacts = {}
  BY Zenon DEF PacketInit
<1>7. handler \in [Handlers -> InProgress \cup {NoRequest}] /\ \A h \in Handlers : ~Busy(h)
  BY <1>5, <1>6, Zenon DEF Busy
<1>8. PacketType
  BY <1>1, <1>2, <1>3, <1>4, <1>6, <1>7, Zenon DEF PacketType
<1> QED
  BY <1>4, <1>5, <1>6, <1>7, <1>8, Zenon
  DEF PacketInv, WireInv, HandlerInv, GuardInv, PostInv, CardInv

\* Every step of packets and cards keeps the invariant.
LEMMA PacketSteps ==
  ASSUME PacketInv, PacketNext \/ ContactNext
  PROVE  PacketInv'
<1>0. agents.sender.key \in Nat /\ agents.recipient.key \in Nat
  <2>1. agents \in [sender : AgentState, recipient : AgentState]
    BY Zenon DEF PacketInv, PacketType
  <2> QED
    BY <2>1 DEF AgentState
<1>1. CASE PacketNext
  <2>1. ASSUME NEW n \in Nonces, NEW q \in Payloads, NEW k \in 1 .. agents.sender.key, Post(Sign(n, q, k))
        PROVE  PacketInv'
    <3>1. k \in Nat
      BY <1>0
    <3> QED
      BY <2>1, <3>1, PostStep, Zenon
  <2> QED
    BY <1>1, <2>1, PostFailsStep, ArriveStep, ResolveSenderStep, ResolveRecipientStep, ClaimStep,
       ReceiveStep, RestartStep, AgentSteps, TickStep, Zenon DEF PacketNext
<1>2. CASE ContactNext
  <2>1. ASSUME NEW k \in 1 .. agents.recipient.key, NEW network \in Networks,
               NEW e \in 1 .. MaxPacketTime + CardLifetime, SignContactAt(k, network, e)
        PROVE  PacketInv'
    <3>1. k \in Nat /\ e \in Nat
      BY <1>0, PacketAssumption
    <3> QED
      BY <2>1, <3>1, SignContactStep, Zenon
  <2> QED
    BY <1>2, <2>1, VerifyContactStep, AgentSteps, TickStep, Zenon DEF ContactNext
<1> QED
  BY <1>1, <1>2

\* So does a step of something else.
LEMMA PacketStutters ==
  ASSUME PacketInv, UNCHANGED packetVars
  PROVE  PacketInv'
<1>1. UNCHANGED <<packetTime, agents, authority, wire, post, handler, seen, accepted, received, cards, contacts>>
  BY Zenon DEF packetVars
<1>2. PacketType'
  BY <1>1, Zenon DEF PacketInv, PacketType, Live
<1>3. KeepsAll
  BY <1>1, KeepsStill, Zenon DEF PacketInv
<1> QED
  BY <1>1, <1>2, <1>3, ChainStep, Zenon

\* The traffic of packets and of contact cards between two Agents.
PacketSpec == PacketInit /\ [][PacketNext \/ ContactNext]_packetVars

\* While the recipient's process lives its replay guard accepts a nonce a
\* second time only when more than the TTL has passed since it arrived, what
\* it accepts was signed as it is by a key in force while the request was
\* handled, a Post that reports success was received, and a verified card is
\* one that was signed less than its lifetime ago.
THEOREM PacketsAccountable == PacketSpec => []PacketsAreAccountable
<1>1. PacketInv => PacketsAreAccountable
  BY Zenon DEF PacketInv, GuardInv, Spaced, AdmissionFits, Vouched, InForce, PostInv, CardInv,
     PacketsAreAccountable
<1>2. PacketInv /\ [PacketNext \/ ContactNext]_packetVars => PacketInv'
  BY PacketSteps, PacketStutters, Zenon
<1> QED
  BY <1>1, <1>2, PacketInitial, PTL DEF PacketSpec

=============================================================================
