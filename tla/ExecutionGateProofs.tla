------------------------- MODULE ExecutionGateProofs -------------------------
(***************************************************************************)
(* Proofs about ExecutionGate for any set of gates, escrows, quotes and    *)
(* intents.                                                                *)
(***************************************************************************)
EXTENDS ExecutionGate, WellFoundedInduction, TLAPS

\* Max of a bounded set of numbers belongs to the set.
LEMMA MaxInSet ==
  ASSUME NEW c \in Nat, NEW S \in SUBSET (1 .. c), S # {}
  PROVE  Max(S) \in S
<1> DEFINE T == {c - i : i \in S}
           R == OpToRel(<, Nat)
<1>1. T \in SUBSET Nat /\ T # {}
  <2>1. \A i \in S : c - i \in Nat
    OBVIOUS
  <2>2. \A t \in T : t \in Nat
    BY <2>1
  <2>3. PICK i : i \in S
    OBVIOUS
  <2>4. c - i \in T
    BY <2>3
  <2> QED
    BY <2>2, <2>4
<1>2. PICK x \in T : \A y \in T : ~(<<y, x>> \in R)
  <2> HIDE DEF T
  <2>1. IsWellFoundedOn(R, Nat)
    BY NatLessThanWellFounded
  <2> HIDE DEF R
  <2> QED
    BY <1>1, <2>1, WFMin, Zenon
<1>3. \A y \in T : ~(y < x)
  BY <1>1, <1>2, Zenon DEF OpToRel
<1>4. PICK i \in S : x = c - i
  OBVIOUS
<1>5. \A j \in S : i >= j
  <2> SUFFICES ASSUME NEW j \in S PROVE i >= j
    OBVIOUS
  <2>1. ~(c - j < c - i)
    BY <1>3, <1>4
  <2> QED
    BY <2>1
<1> QED
  BY <1>5, Zenon DEF Max

\* The transaction that last changed an object at checkpoint c is not newer.
LEMMA LastTransactionType ==
  ASSUME TypeOK, NEW o \in Objects, NEW e \in Escrows, NEW c \in 1 .. Len(chain)
  PROVE  LastTransaction(o, e, c) \in 0 .. MaxCheckpoint
<1> DEFINE S == {i \in 1 .. c : i = 1 \/ View(o, e, i) # View(o, e, i - 1)}
<1>1. c \in Nat /\ 1 .. c \subseteq 0 .. MaxCheckpoint
  BY GateAssumption DEF TypeOK
<1>2. 1 \in S /\ S \in SUBSET (1 .. c)
  BY <1>1
<1>3. Max(S) \in S
  <2> HIDE DEF S
  <2> QED
    BY <1>1, <1>2, MaxInSet, Zenon
<1> QED
  BY <1>1, <1>2, <1>3 DEF LastTransaction

\* The evidence of an idle gate is well formed.
LEMMA NoEvidenceType == NoEvidence \in EvidenceSet
<1>1. (CHOOSE c \in CodeHashes : TRUE) \in CodeHashes
  BY GateAssumption
<1> QED
  BY <1>1, GateAssumption DEF NoEvidence, EvidenceSet

\* Ending a call keeps the call's variables in their types.
LEMMA ReturnType ==
  ASSUME TypeOK, NEW g \in Gates, Return(g)
  PROVE  /\ pc' \in [Gates -> Labels]
         /\ request' \in [Gates -> Requests \cup {None}]
         /\ evidence' \in [Gates -> EvidenceSet]
         /\ tip' \in [Gates -> 0 .. MaxCheckpoint]
         /\ \A h \in Gates : pc'[h] # "idle" =>
              /\ h # g /\ pc'[h] = pc[h] /\ request'[h] = request[h]
              /\ evidence'[h] = evidence[h]
<1>1. NoEvidence \in EvidenceSet
  BY NoEvidenceType
<1>2. 0 \in 0 .. MaxCheckpoint
  BY GateAssumption
<1> QED
  BY <1>1, <1>2 DEF TypeOK, Return, Goto, Labels

\* A call that ends keeps TypeOK whatever it returned.
LEMMA GrantedType ==
  ASSUME TypeOK, NEW g \in Gates, Return(g), UNCHANGED <<chain, clock, calls, file>>,
         disk' \in {disk, file},
         granted' \in SUBSET [claim : Claims, tip : 0 .. MaxCheckpoint]
  PROVE  TypeOK'
<1>1. \A h \in Gates : \A o \in ReadBefore[pc'[h]] : evidence'[h].checkpoint[o] > 0
  <2> SUFFICES ASSUME NEW h \in Gates, NEW o \in ReadBefore[pc'[h]]
               PROVE  evidence'[h].checkpoint[o] > 0
    OBVIOUS
  <2>1. pc'[h] # "idle"
    BY DEF ReadBefore
  <2> QED
    BY <2>1, ReturnType DEF TypeOK
<1>2. \A h \in Gates : pc'[h] # "idle" => request'[h] # None
  BY ReturnType DEF TypeOK
<1> QED
  BY <1>1, <1>2, ReturnType DEF TypeOK

\* A call that ends without touching the store keeps TypeOK.
LEMMA ReturnedType ==
  ASSUME TypeOK, NEW g \in Gates, Return(g),
         UNCHANGED <<chain, clock, file, granted, calls>>, disk' \in {disk, file}
  PROVE  TypeOK'
<1>1. granted' \in SUBSET [claim : Claims, tip : 0 .. MaxCheckpoint]
  BY DEF TypeOK
<1> QED
  BY <1>1, GrantedType

\* Finalizing a state, and a tick of the clock, keep the types.
LEMMA ChainType == TypeOK /\ ChainNext => TypeOK'
<1> SUFFICES ASSUME TypeOK, ChainNext PROVE TypeOK'
  OBVIOUS
<1>0. Len(chain) \in Nat /\ Len(chain) >= 1 /\ Current \in Snapshots
  BY DEF TypeOK, Current
<1>1. ASSUME NEW s \in Snapshots, FinalizeBlock(s) PROVE TypeOK'
  <2>1. chain' \in Seq(Snapshots) /\ Len(chain') = Len(chain) + 1
    BY <1>1 DEF FinalizeBlock, TypeOK
  <2>2. Len(chain') \in 1 .. MaxCheckpoint
    BY <1>0, <1>1, <2>1, GateAssumption DEF FinalizeBlock, TypeOK
  <2> QED
    BY <1>1, <2>1, <2>2 DEF FinalizeBlock, TypeOK, local
<1>2. ASSUME NEW e \in Escrows, Fund(e) \/ Release(e) \/ Refund(e) PROVE TypeOK'
  <2>1. \A v \in Statuses : [Current EXCEPT !.status[e] = v] \in Snapshots
    BY <1>0 DEF Snapshots
  <2> QED
    BY <1>1, <1>2, <2>1 DEF Fund, Release, Refund, Statuses
<1>3. CASE Tombstone \/ Revoke \/ UpgradeRegistry
  <2>1. /\ [Current EXCEPT !.agent = FALSE] \in Snapshots
        /\ [Current EXCEPT !.capability = FALSE] \in Snapshots
        /\ \A c \in CodeHashes : [Current EXCEPT !.code = c] \in Snapshots
    BY <1>0, Zenon DEF Snapshots
  <2> QED
    BY <1>1, <1>3, <2>1, Zenon DEF Tombstone, Revoke, UpgradeRegistry
<1>4. CASE Tick
  BY <1>4, GateAssumption DEF Tick, TypeOK, local
<1> QED
  BY <1>2, <1>3, <1>4 DEF ChainNext

\* A read adds one object to the evidence of its call, and moves it on.
LEMMA SawType ==
  ASSUME TypeOK, NEW g \in Gates, pc[g] # "idle", NEW o \in Objects,
         NEW c \in 1 .. Len(chain), NEW l \in Labels \ {"idle"},
         Saw(g, o, c), Goto(g, l), UNCHANGED request,
         ReadBefore[l] \subseteq ReadBefore[pc[g]] \cup {o},
         tip' \in [Gates -> 0 .. MaxCheckpoint],
         UNCHANGED <<chain, clock, file, disk, granted, calls>>
  PROVE  TypeOK'
<1> DEFINE new == [code |-> RegistryHash[g],
                   checkpoint |-> [evidence[g].checkpoint EXCEPT ![o] = c],
                   transaction |-> [evidence[g].transaction EXCEPT
                      ![o] = LastTransaction(o, request[g].escrow, c)]]
<1>1. request[g] \in Requests /\ request[g].escrow \in Escrows
  BY DEF TypeOK, Requests
<1>2. LastTransaction(o, request[g].escrow, c) \in 0 .. MaxCheckpoint
  BY <1>1, LastTransactionType, Zenon
<1>3. c \in 0 .. MaxCheckpoint /\ c > 0
  BY GateAssumption DEF TypeOK
<1>4. new \in EvidenceSet
  BY <1>2, <1>3, GateAssumption, Zenon DEF TypeOK, EvidenceSet
<1>5. evidence' = [evidence EXCEPT ![g] = new] /\ evidence' \in [Gates -> EvidenceSet]
  BY <1>4 DEF Saw, TypeOK
<1>6. pc' = [pc EXCEPT ![g] = l] /\ pc' \in [Gates -> Labels]
  BY DEF Goto, TypeOK
<1>7. \A h \in Gates : \A x \in ReadBefore[pc'[h]] : evidence'[h].checkpoint[x] > 0
  <2> SUFFICES ASSUME NEW h \in Gates, NEW x \in ReadBefore[pc'[h]]
               PROVE  evidence'[h].checkpoint[x] > 0
    OBVIOUS
  <2>1. CASE h # g
    BY <1>5, <1>6, <2>1 DEF TypeOK
  <2>2. CASE h = g
    <3>1. x \in ReadBefore[pc[g]] \/ x = o
      BY <1>6, <2>2, Zenon DEF TypeOK
    <3>2. x \in Objects /\ evidence[g].checkpoint \in [Objects -> 0 .. MaxCheckpoint]
      <4>1. pc[g] \in Labels /\ evidence[g] \in EvidenceSet
        BY DEF TypeOK
      <4>2. ReadBefore[pc[g]] \subseteq Objects
        BY <4>1 DEF ReadBefore, Labels, Objects
      <4> QED
        BY <3>1, <4>1, <4>2, Zenon DEF EvidenceSet
    <3>3. evidence'[g].checkpoint[x] = IF x = o THEN c ELSE evidence[g].checkpoint[x]
      BY <1>5, <3>2, Zenon DEF TypeOK
    <3> QED
      BY <1>3, <2>2, <3>1, <3>3 DEF TypeOK
  <2> QED
    BY <2>1, <2>2
<1> QED
  BY <1>1, <1>5, <1>6, <1>7, Zenon DEF TypeOK

\* Every step of a gate, and a power loss, keep the types.
LEMMA TypeStep == TypeOK /\ [Next]_vars => TypeOK'
<1> SUFFICES ASSUME TypeOK, [Next]_vars PROVE TypeOK'
  OBVIOUS
<1>1. CASE ChainNext
  BY <1>1, ChainType
<1>2. ASSUME NEW g \in Gates, NEW r \in Requests, ClaimExecution(g, r) PROVE TypeOK'
  <2>1. r # None
    BY GateAssumption, Zenon
  <2>2. calls' \in 0 .. MaxCalls
    BY <1>2, GateAssumption DEF ClaimExecution, TypeOK
  <2> QED
    BY <1>2, <2>1, <2>2 DEF ClaimExecution, TypeOK, Goto, Labels, ReadBefore
<1>3. ASSUME NEW g \in Gates,
             ReadFails(g) \/ WriteFails(g) \/ SyncDirFails(g) \/ Crash(g)
      PROVE  TypeOK'
  <2>1. /\ Return(g) /\ UNCHANGED <<chain, clock, file, granted, calls>>
        /\ disk' \in {disk, file}
    BY <1>3 DEF ReadFails, WriteFails, SyncDirFails, Crash, LeaveUnsynced
  <2> QED
    BY <2>1, ReturnedType
<1>4. ASSUME NEW g \in Gates, pc[g] # "idle" PROVE request[g] \in Requests
  BY <1>4 DEF TypeOK
<1>5. ASSUME NEW g \in Gates, ReadEscrow(g) PROVE TypeOK'
  <2>1. PICK c \in 1 .. Len(chain) :
          IF Executable(g, c)
          THEN Saw(g, "escrow", c) /\ Goto(g, "agent") /\ tip' = [tip EXCEPT ![g] = Len(chain)] /\ UNCHANGED request
          ELSE Return(g)
    BY <1>5 DEF ReadEscrow
  <2>2. pc[g] = "escrow" /\ UNCHANGED <<chain, clock, file, disk, granted, calls>>
    BY <1>5 DEF ReadEscrow
  <2>3. CASE Executable(g, c)
    <3>1. tip' \in [Gates -> 0 .. MaxCheckpoint]
      <4>1. Len(chain) \in 0 .. MaxCheckpoint /\ tip \in [Gates -> 0 .. MaxCheckpoint]
        BY GateAssumption DEF TypeOK
      <4> QED
        BY <2>1, <2>3, <4>1
    <3>2. ReadBefore["agent"] \subseteq ReadBefore["escrow"] \cup {"escrow"}
      BY DEF ReadBefore, Objects
    <3> QED
      BY <2>1, <2>2, <2>3, <3>1, <3>2, SawType DEF Labels, Objects
  <2> QED
    BY <2>1, <2>2, <2>3, ReturnedType
<1>6. ASSUME NEW g \in Gates, ReadAgent(g) PROVE TypeOK'
  <2>1. PICK c \in 1 .. Len(chain) :
          IF chain[c].code = RegistryHash[g] /\ chain[c].agent
          THEN Saw(g, "agent", c) /\ Goto(g, "capability") /\ UNCHANGED tip /\ UNCHANGED request
          ELSE Return(g)
    BY <1>6 DEF ReadAgent
  <2>2. pc[g] = "agent" /\ UNCHANGED <<chain, clock, file, disk, granted, calls>>
    BY <1>6 DEF ReadAgent
  <2>3. CASE chain[c].code = RegistryHash[g] /\ chain[c].agent
    <3>1. tip' \in [Gates -> 0 .. MaxCheckpoint]
      BY <2>1, <2>3, GateAssumption DEF TypeOK
    <3>2. ReadBefore["capability"] \subseteq ReadBefore["agent"] \cup {"agent"}
      BY DEF ReadBefore, Objects
    <3> QED
      BY <2>1, <2>2, <2>3, <3>1, <3>2, SawType, Zenon DEF Labels, Objects
  <2> QED
    BY <2>1, <2>2, <2>3, ReturnedType
<1>7. ASSUME NEW g \in Gates, ReadCapability(g) PROVE TypeOK'
  <2>1. PICK c \in 1 .. Len(chain) :
          IF chain[c].code = RegistryHash[g] /\ chain[c].capability
          THEN Saw(g, "capability", c) /\ Goto(g, "claim") /\ UNCHANGED tip /\ UNCHANGED request
          ELSE Return(g)
    BY <1>7 DEF ReadCapability
  <2>2. pc[g] = "capability" /\ UNCHANGED <<chain, clock, file, disk, granted, calls>>
    BY <1>7 DEF ReadCapability
  <2>3. CASE chain[c].code = RegistryHash[g] /\ chain[c].capability
    <3>1. tip' \in [Gates -> 0 .. MaxCheckpoint]
      BY <2>1, <2>3, GateAssumption DEF TypeOK
    <3>2. ReadBefore["claim"] \subseteq ReadBefore["capability"] \cup {"capability"}
      BY Zenon DEF ReadBefore, Objects
    <3> QED
      BY <2>1, <2>2, <2>3, <3>1, <3>2, SawType, Zenon DEF Labels, Objects
  <2> QED
    BY <2>1, <2>2, <2>3, ReturnedType
<1>8. ASSUME NEW g \in Gates, pc[g] \in {"claim", "sync"}
      PROVE  /\ Mine(g) \in Claims /\ KeyOf(g) \in Keys
             /\ [claim |-> Mine(g), tip |-> tip[g]] \in [claim : Claims, tip : 0 .. MaxCheckpoint]
  BY <1>4, <1>8 DEF Mine, KeyOf, Key, Keys, Claims, Requests, TypeOK
<1>9. ASSUME NEW g \in Gates, StoreClaim(g) PROVE TypeOK'
  <2>0. pc[g] = "claim" /\ UNCHANGED <<chain, clock, disk, calls>>
    BY <1>9 DEF StoreClaim
  <2>1. \/ Return(g) /\ UNCHANGED <<file, granted>>
        \/ Grant(g) /\ Return(g) /\ UNCHANGED file
        \/ /\ file' = [file EXCEPT ![KeyOf(g)] = Mine(g)]
           /\ Goto(g, "sync") /\ UNCHANGED <<request, evidence, tip, granted>>
    BY <1>9 DEF StoreClaim
  <2>2. CASE Return(g) /\ UNCHANGED <<file, granted>>
    BY <2>0, <2>2, ReturnedType
  <2>3. CASE Grant(g) /\ Return(g) /\ UNCHANGED file
    <3>1. granted' \in SUBSET [claim : Claims, tip : 0 .. MaxCheckpoint]
      BY <1>8, <2>0, <2>3, Zenon DEF Grant, TypeOK
    <3> QED
      BY <2>0, <2>3, <3>1, GrantedType, Zenon
  <2>4. CASE /\ file' = [file EXCEPT ![KeyOf(g)] = Mine(g)]
             /\ Goto(g, "sync") /\ UNCHANGED <<request, evidence, tip, granted>>
    <3>1. file' \in [Keys -> Claims \cup {NoClaim}]
      BY <1>8, <2>0, <2>4 DEF TypeOK
    <3>2. pc' = [pc EXCEPT ![g] = "sync"] /\ pc' \in [Gates -> Labels]
      BY <2>4, Zenon DEF Goto, TypeOK, Labels
    <3>3. \A h \in Gates : ReadBefore[pc'[h]] = ReadBefore[pc[h]]
      BY <2>0, <3>2 DEF TypeOK, ReadBefore
    <3> QED
      BY <2>0, <2>4, <3>1, <3>2, <3>3, Zenon DEF TypeOK
  <2> QED
    BY <2>1, <2>2, <2>3, <2>4
<1>10. ASSUME NEW g \in Gates, SyncDir(g) PROVE TypeOK'
  <2>1. granted' \in SUBSET [claim : Claims, tip : 0 .. MaxCheckpoint]
    BY <1>8, <1>10 DEF SyncDir, Grant, TypeOK
  <2> QED
    BY <1>10, <2>1, GrantedType, Zenon DEF SyncDir, TypeOK
<1>11. CASE PowerLoss
  <2>1. file' \in [Keys -> Claims \cup {NoClaim}] /\ disk' = file'
    BY <1>11 DEF PowerLoss, TypeOK
  <2>2. NoEvidence \in EvidenceSet /\ 0 \in 0 .. MaxCheckpoint
    BY NoEvidenceType, GateAssumption
  <2>3. \A g \in Gates : pc'[g] = "idle" /\ ReadBefore[pc'[g]] = {}
    BY <1>11 DEF PowerLoss, ReadBefore
  <2> QED
    BY <1>11, <2>1, <2>2, <2>3, Zenon DEF PowerLoss, TypeOK, Labels
<1>12. CASE UNCHANGED vars
  BY <1>12 DEF vars, local, TypeOK
<1> QED
  BY <1>1, <1>2, <1>3, <1>5, <1>6, <1>7, <1>9, <1>10, <1>11, <1>12 DEF Next

-----------------------------------------------------------------------------
(* One intent per purchase. *)

\* The lock has one holder, and what it wrote is the claim file it wrote to.
LockHolder ==
  \A g \in Gates : pc[g] = "sync" =>
    /\ file[KeyOf(g)] = Mine(g)
    /\ \A h \in Gates : pc[h] = "sync" => h = g

\* Every returned claim is bound to its purchase in the claim file.
GrantBound ==
  \A c \in granted : file[Key(c.claim.request)].request = c.claim.request

\* Every returned claim is bound on disk as well, and only the file the lock
\* holder is about to sync differs from the disk.
DiskBound ==
  /\ \A c \in granted : disk[Key(c.claim.request)].request = c.claim.request
  /\ \A k \in Keys : file[k] # disk[k] =>
       \E g \in Gates : pc[g] = "sync" /\ KeyOf(g) = k

\* OneIntentPerPurchase follows from GrantBound, which is not inductive by
\* itself: a power loss needs DiskBound, and DiskBound needs LockHolder.
GateInv == TypeOK /\ LockHolder /\ GrantBound /\ DiskBound

\* The invariant holds initially.
LEMMA InvInit == Init => GateInv
<1> SUFFICES ASSUME Init PROVE GateInv
  OBVIOUS
<1>1. TypeOK
  <2>1. PICK s \in Snapshots : chain = <<s>>
    BY DEF Init
  <2>2. chain \in Seq(Snapshots) /\ Len(chain) = 1
    BY <2>1
  <2>3. \A g \in Gates : ReadBefore[pc[g]] = {}
    BY DEF Init, ReadBefore
  <2>4. 1 \in 1 .. MaxCheckpoint /\ 0 \in 0 .. MaxCheckpoint /\ 0 \in 0 .. MaxCalls
        /\ 0 \in 0 .. MaxTime
    BY GateAssumption
  <2> QED
    BY <2>2, <2>3, <2>4, NoEvidenceType, Zenon DEF Init, TypeOK, Labels
<1> QED
  BY <1>1 DEF Init, GateInv, LockHolder, GrantBound, DiskBound

\* A step outside the store keeps the invariant: it changes no claim and moves
\* no gate into or out of the locked section.
LEMMA OutsideStore ==
  ASSUME GateInv, TypeOK', UNCHANGED <<file, disk, granted>>,
         \A g \in Gates : (pc'[g] = "sync") <=> (pc[g] = "sync"),
         \A g \in Gates : pc[g] = "sync" =>
            request'[g] = request[g] /\ evidence'[g] = evidence[g]
  PROVE  GateInv'
BY DEF GateInv, LockHolder, GrantBound, DiskBound, KeyOf, Mine, Key

\* Every returned claim names a purchase and is a claim.
LEMMA GrantedKeys ==
  ASSUME TypeOK, NEW c \in granted
  PROVE  c.claim \in Claims /\ c.claim.request \in Requests /\ Key(c.claim.request) \in Keys
BY Zenon DEF TypeOK, Claims, Requests, Key, Keys

\* A gate inside the store has a request, and it is for a purchase.
LEMMA MineType ==
  ASSUME TypeOK, NEW g \in Gates, pc[g] \in {"claim", "sync"}
  PROVE  /\ request[g] \in Requests /\ KeyOf(g) \in Keys /\ Mine(g) \in Claims
         /\ Mine(g).request = request[g] /\ Mine(g).evidence = evidence[g]
         /\ Key(Mine(g).request) = KeyOf(g)
BY DEF TypeOK, Claims, Requests, Key, Keys, KeyOf, Mine

\* store.claim keeps the invariant.
LEMMA InvStoreClaim ==
  ASSUME GateInv, TypeOK', NEW g \in Gates, StoreClaim(g)
  PROVE  GateInv'
<1>0. /\ pc[g] = "claim" /\ UNCHANGED <<chain, clock, disk, calls>>
      /\ \A h \in Gates : pc[h] # "sync"
  BY DEF StoreClaim, Locked
<1>1. TypeOK /\ pc \in [Gates -> Labels]
  BY Zenon DEF GateInv, TypeOK
<1>2. KeyOf(g) \in Keys /\ request[g] \in Requests
  BY <1>0, <1>1, MineType
<1> DEFINE old == file[KeyOf(g)]
<1>3. \/ Return(g) /\ UNCHANGED <<file, granted>>
      \/ old = Mine(g) /\ Grant(g) /\ Return(g) /\ UNCHANGED file
      \/ /\ old = NoClaim \/ Admissible(old, request[g], evidence[g])
         /\ file' = [file EXCEPT ![KeyOf(g)] = Mine(g)]
         /\ Goto(g, "sync") /\ UNCHANGED <<request, evidence, tip, granted>>
  BY DEF StoreClaim
<1>4. CASE Return(g) /\ UNCHANGED <<file, granted>>
  <2>1. \A h \in Gates : pc'[h] # "sync"
    BY <1>0, <1>1, <1>4, Zenon DEF Return, Goto
  <2> QED
    BY <1>0, <1>4, <2>1, OutsideStore
<1>5. CASE old = Mine(g) /\ Grant(g) /\ Return(g) /\ UNCHANGED file
  <2>1. \A h \in Gates : pc'[h] # "sync"
    BY <1>0, <1>1, <1>5 DEF Return, Goto
  <2>2. \A c \in granted' : c \in granted \/ c.claim = Mine(g)
    BY <1>5 DEF Grant
  <2>3. GrantBound'
    BY <1>0, <1>1, <1>5, <2>2, MineType, Zenon DEF GateInv, GrantBound
  <2>4. file = disk
    BY <1>0, <1>1 DEF GateInv, DiskBound, TypeOK
  <2>5. DiskBound'
    BY <1>0, <1>5, <2>3, <2>4 DEF DiskBound, GrantBound
  <2> QED
    BY <2>1, <2>3, <2>5 DEF GateInv, LockHolder
<1>6. CASE /\ old = NoClaim \/ Admissible(old, request[g], evidence[g])
           /\ file' = [file EXCEPT ![KeyOf(g)] = Mine(g)]
           /\ Goto(g, "sync") /\ UNCHANGED <<request, evidence, tip, granted>>
  <2>1. pc' = [pc EXCEPT ![g] = "sync"]
    BY <1>6, Zenon DEF Goto
  <2>2. LockHolder'
    BY <1>0, <1>1, <1>2, <1>6, <2>1, Zenon DEF LockHolder, KeyOf, Mine, TypeOK
  <2>3. GrantBound'
    <3> SUFFICES ASSUME NEW c \in granted
                 PROVE  file'[Key(c.claim.request)].request = c.claim.request
      BY <1>6, Zenon DEF GrantBound
    <3>1. file[Key(c.claim.request)].request = c.claim.request
      BY DEF GateInv, GrantBound
    <3>2. c.claim.request \in Requests /\ Key(c.claim.request) \in Keys
      BY <1>1, GrantedKeys, Zenon
    <3>3. CASE Key(c.claim.request) = KeyOf(g)
      <4>1. old # NoClaim
        <5>1. NoClaim.request = None
          BY DEF NoClaim
        <5>2. old.request \in Requests
          BY <3>1, <3>2, <3>3, Zenon
        <5> QED
          BY <5>1, <5>2, GateAssumption, Zenon
      <4>2. old.request = request[g]
        BY <1>6, <4>1 DEF Admissible
      <4> QED
        BY <1>0, <1>1, <1>2, <1>6, <3>1, <3>3, <4>2, MineType, ZenonT(30) DEF TypeOK
    <3>4. CASE Key(c.claim.request) # KeyOf(g)
      BY <1>1, <1>6, <3>1, <3>2, <3>4, Zenon DEF TypeOK
    <3> QED
      BY <3>3, <3>4, Zenon
  <2>4. DiskBound'
    <3>1. \A k \in Keys : file[k] = disk[k]
      BY <1>0, <1>1, Zenon DEF GateInv, DiskBound
    <3>2. \A k \in Keys : file'[k] # disk[k] => k = KeyOf(g)
      BY <1>1, <1>6, <3>1, Zenon DEF TypeOK
    <3>3. pc'[g] = "sync" /\ KeyOf(g)' = KeyOf(g)
      BY <1>1, <1>6, <2>1, Zenon DEF KeyOf
    <3> QED
      BY <1>0, <1>6, <3>2, <3>3 DEF GateInv, DiskBound
  <2> QED
    BY <2>2, <2>3, <2>4, Zenon DEF GateInv
<1> QED
  BY <1>3, <1>4, <1>5, <1>6

\* A successful directory sync keeps the invariant.
LEMMA InvSyncDir ==
  ASSUME GateInv, TypeOK', NEW g \in Gates, SyncDir(g)
  PROVE  GateInv'
<1>1. TypeOK /\ pc \in [Gates -> Labels] /\ pc[g] = "sync"
  BY Zenon DEF GateInv, TypeOK, SyncDir
<1>2. \A h \in Gates : pc'[h] # "sync"
  BY <1>1 DEF GateInv, LockHolder, SyncDir, Return, Goto
<1>3. \A c \in granted' : c \in granted \/ c.claim = Mine(g)
  BY DEF SyncDir, Grant
<1>4. UNCHANGED file /\ disk' = file
  BY DEF SyncDir
<1>5. file[KeyOf(g)] = Mine(g)
  BY <1>1, Zenon DEF GateInv, LockHolder
<1>6. GrantBound'
  BY <1>1, <1>3, <1>4, <1>5, MineType DEF GateInv, GrantBound
<1>7. DiskBound'
  BY <1>4, <1>6, Zenon DEF DiskBound, GrantBound
<1> QED
  BY <1>2, <1>6, <1>7 DEF GateInv, LockHolder

\* A power loss keeps the invariant.
LEMMA InvPowerLoss ==
  ASSUME GateInv, TypeOK', PowerLoss
  PROVE  GateInv'
<1>1. TypeOK /\ \A h \in Gates : pc'[h] # "sync"
  BY Zenon DEF GateInv, PowerLoss
<1>2. /\ UNCHANGED granted /\ disk' = file'
      /\ \A k \in Keys : file'[k] \in {file[k], disk[k]}
  BY DEF PowerLoss
<1>3. GrantBound'
  <2> SUFFICES ASSUME NEW c \in granted
               PROVE  file'[Key(c.claim.request)].request = c.claim.request
    BY <1>2 DEF GrantBound
  <2>1. Key(c.claim.request) \in Keys
    BY <1>1, GrantedKeys
  <2> QED
    BY <1>2, <2>1 DEF GateInv, GrantBound, DiskBound
<1> QED
  BY <1>1, <1>2, <1>3, Zenon DEF GateInv, LockHolder, GrantBound, DiskBound

\* A call that ends early, a failed write or sync, and a crash keep it.
LEMMA InvReturn ==
  ASSUME Writeback, GateInv, TypeOK', NEW g \in Gates,
         ReadFails(g) \/ WriteFails(g) \/ SyncDirFails(g) \/ Crash(g)
  PROVE  GateInv'
<1>1. /\ Return(g) /\ UNCHANGED <<file, granted>>
      /\ disk' = IF pc[g] = "sync" THEN file ELSE disk
  BY Zenon DEF ReadFails, WriteFails, SyncDirFails, Crash, LeaveUnsynced
<1>2. TypeOK /\ pc \in [Gates -> Labels]
  BY Zenon DEF GateInv, TypeOK
<1>3. /\ pc' = [pc EXCEPT ![g] = "idle"]
      /\ \A h \in Gates \ {g} : request'[h] = request[h] /\ evidence'[h] = evidence[h]
  BY <1>1, <1>2, Zenon DEF Return, Goto, TypeOK
<1>4. CASE pc[g] = "sync"
  <2>1. \A h \in Gates : pc'[h] # "sync"
    BY <1>2, <1>3, <1>4, Zenon DEF GateInv, LockHolder
  <2> QED
    BY <1>1, <1>4, <2>1, Zenon DEF GateInv, LockHolder, GrantBound, DiskBound
<1>5. CASE pc[g] # "sync"
  BY <1>1, <1>2, <1>3, <1>5, OutsideStore
<1> QED
  BY <1>4, <1>5

\* The invariant is inductive.
LEMMA InvStep == Writeback /\ GateInv /\ [Next]_vars => GateInv'
<1> SUFFICES ASSUME Writeback, GateInv, [Next]_vars PROVE GateInv'
  BY Zenon
<1>1. TypeOK /\ TypeOK' /\ pc \in [Gates -> Labels]
  BY TypeStep, Zenon DEF GateInv, TypeOK
<1>2. CASE ChainNext
  <2>1. UNCHANGED <<file, disk, granted, pc, request, evidence>>
    BY <1>2, Zenon DEF ChainNext, Fund, Release, Refund, Tombstone, Revoke, UpgradeRegistry,
                FinalizeBlock, Tick, local
  <2> QED
    BY <1>1, <2>1, OutsideStore
<1>3. ASSUME NEW g \in Gates, NEW r \in Requests, ClaimExecution(g, r) PROVE GateInv'
  <2>1. /\ UNCHANGED <<file, disk, granted, evidence>> /\ pc[g] = "idle"
        /\ pc' = [pc EXCEPT ![g] = "escrow"] /\ request' = [request EXCEPT ![g] = r]
    BY <1>3 DEF ClaimExecution, Goto
  <2> QED
    BY <1>1, <2>1, OutsideStore, Zenon DEF TypeOK
<1>4. ASSUME NEW g \in Gates, ReadEscrow(g) \/ ReadAgent(g) \/ ReadCapability(g)
      PROVE  GateInv'
  <2>1. UNCHANGED <<file, disk, granted>> /\ pc[g] # "sync"
    BY <1>4, Zenon DEF ReadEscrow, ReadAgent, ReadCapability
  <2>2. /\ \E l \in Labels \ {"sync"} : pc' = [pc EXCEPT ![g] = l]
        /\ \A h \in Gates \ {g} : request'[h] = request[h] /\ evidence'[h] = evidence[h]
    <3>1. \/ Return(g)
          \/ \E o \in Objects, l \in Labels \ {"sync"}, c \in 1 .. Len(chain) :
               Saw(g, o, c) /\ Goto(g, l) /\ UNCHANGED request
      BY <1>4, Zenon DEF ReadEscrow, ReadAgent, ReadCapability, Objects, Labels
    <3> QED
      BY <1>1, <3>1, Zenon DEF Return, Goto, Saw, TypeOK, Labels
  <2> QED
    BY <1>1, <2>1, <2>2, OutsideStore, Zenon
<1>5. ASSUME NEW g \in Gates, ReadFails(g) \/ WriteFails(g) \/ SyncDirFails(g) \/ Crash(g)
      PROVE  GateInv'
  BY <1>1, <1>5, InvReturn
<1>6. CASE PowerLoss
  BY <1>1, <1>6, InvPowerLoss
<1>7. CASE UNCHANGED vars
  BY <1>1, <1>7, OutsideStore DEF vars, local
<1> QED
  BY <1>1, <1>2, <1>3, <1>4, <1>5, <1>6, <1>7, InvStoreClaim, InvSyncDir DEF Next

\* Every variable of the gates keeps its type, and the store is asked only with
\* evidence of all three objects.
THEOREM GateTypeCorrect == Spec => []TypeOK
<1>1. Init => TypeOK
  BY InvInit DEF GateInv
<1> QED
  BY <1>1, TypeStep, PTL DEF Spec

\* The same funded quote and escrow is claimed by one complete request, for any
\* number of gates that race, crash and retry, and wherever the power fails, as
\* long as what a dead process left unsynced is written back before that.
THEOREM SingleIntent == ASSUME Writeback PROVE Spec => []OneIntentPerPurchase
<1>1. GateInv => OneIntentPerPurchase
  BY DEF GateInv, GrantBound, OneIntentPerPurchase
<1>2. GateInv /\ [Next]_vars => GateInv'
  BY InvStep, Zenon
<1> QED
  BY <1>1, <1>2, InvInit, PTL DEF Spec

-----------------------------------------------------------------------------
(* Claims only advance. *)

\* Evidence never regresses from itself, and not regressing is transitive.
LEMMA KeepsOrder ==
  ASSUME NEW a \in Claims \cup {NoClaim}, NEW b \in Claims \cup {NoClaim},
         NEW c \in Claims \cup {NoClaim}
  PROVE  Keeps(a, a) /\ (Keeps(a, b) /\ Keeps(b, c) => Keeps(a, c))
<1>1. /\ a.evidence \in EvidenceSet /\ b.evidence \in EvidenceSet /\ c.evidence \in EvidenceSet
  BY NoEvidenceType DEF Claims, NoClaim
<1>2. \A o \in Objects : /\ a.evidence.checkpoint[o] \in Int
                         /\ b.evidence.checkpoint[o] \in Int
                         /\ c.evidence.checkpoint[o] \in Int
  BY <1>1, GateAssumption DEF EvidenceSet
<1> QED
  BY <1>2 DEF Keeps, regressed

\* What store.claim writes keeps the claim it found.
LEMMA StoreKeeps ==
  ASSUME TypeOK, NEW g \in Gates, StoreClaim(g), NEW k \in Keys
  PROVE  Keeps(file[k], file'[k])
<1>0. pc[g] = "claim" /\ file[k] \in Claims \cup {NoClaim}
  BY DEF StoreClaim, TypeOK
<1>1. CASE file'[k] = file[k]
  BY <1>0, <1>1, KeepsOrder, Zenon
<1>2. CASE file'[k] # file[k]
  <2>1. /\ file' = [file EXCEPT ![KeyOf(g)] = Mine(g)] /\ k = KeyOf(g)
        /\ file[k] = NoClaim \/ Admissible(file[k], request[g], evidence[g])
    BY <1>2, Zenon DEF StoreClaim, TypeOK
  <2>2. file'[k] = Mine(g)
    BY <2>1, Zenon DEF TypeOK
  <2>3. Mine(g) # NoClaim /\ Mine(g).request = request[g] /\ Mine(g).evidence = evidence[g]
    BY <1>0, MineType, GateAssumption DEF NoClaim
  <2> QED
    BY <2>1, <2>2, <2>3 DEF Keeps, Admissible
<1> QED
  BY <1>1, <1>2

\* Every claim file keeps the claim on disk.
FileAhead == \A k \in Keys : Keeps(disk[k], file[k])

\* What a step does to the files and to the disk.
LEMMA StoreSteps ==
  ASSUME [Next]_vars
  PROVE  \/ UNCHANGED file /\ (disk' = disk \/ disk' = file)
         \/ UNCHANGED disk /\ \E g \in Gates : StoreClaim(g)
         \/ /\ PowerLoss /\ disk' = file'
            /\ \A k \in Keys : file'[k] \in {file[k], disk[k]}
<1>1. CASE ChainNext
  BY <1>1, Zenon DEF ChainNext, Fund, Release, Refund, Tombstone, Revoke, UpgradeRegistry,
              FinalizeBlock, Tick
<1>2. ASSUME NEW g \in Gates, \/ \E r \in Requests : ClaimExecution(g, r)
                             \/ ReadEscrow(g) \/ ReadAgent(g) \/ ReadCapability(g)
                             \/ ReadFails(g) \/ WriteFails(g)
      PROVE  UNCHANGED <<file, disk>>
  BY <1>2, Zenon DEF ClaimExecution, ReadEscrow, ReadAgent, ReadCapability, ReadFails, WriteFails
<1>3. ASSUME NEW g \in Gates, SyncDir(g) \/ SyncDirFails(g) \/ Crash(g)
      PROVE  UNCHANGED file /\ (disk' = disk \/ disk' = file)
  BY <1>3 DEF SyncDir, SyncDirFails, Crash, LeaveUnsynced
<1>4. ASSUME NEW g \in Gates, StoreClaim(g) PROVE UNCHANGED disk
  BY <1>4 DEF StoreClaim
<1>5. CASE PowerLoss
  BY <1>5 DEF PowerLoss
<1>6. CASE UNCHANGED vars
  BY <1>6 DEF vars
<1> QED
  BY <1>1, <1>2, <1>3, <1>4, <1>5, <1>6, Zenon DEF Next

\* A claim on disk is kept by every step, and a claim file by every step but a
\* power loss, without any assumption on when the kernel writes back.
THEOREM ClaimsAdvance == Spec => ClaimAdvances
<1> DEFINE Advance == \A k \in Keys : /\ Keeps(disk[k], disk'[k])
                                      /\ Keeps(file[k], file'[k]) \/ PowerLoss
<1>1. Init => FileAhead
  BY Zenon DEF Init, FileAhead, Keeps
<1>2. TypeOK /\ TypeOK' /\ FileAhead /\ [Next]_vars => FileAhead' /\ Advance
  <2> SUFFICES ASSUME TypeOK, TypeOK', FileAhead, [Next]_vars, NEW k \in Keys
               PROVE  /\ Keeps(disk'[k], file'[k]) /\ Keeps(disk[k], disk'[k])
                      /\ Keeps(file[k], file'[k]) \/ PowerLoss
    BY Zenon DEF FileAhead
  <2>1. /\ {file[k], disk[k], file'[k], disk'[k]} \subseteq Claims \cup {NoClaim}
        /\ Keeps(disk[k], file[k])
    BY DEF TypeOK, FileAhead
  <2>2. CASE UNCHANGED file /\ (disk' = disk \/ disk' = file)
    BY <2>1, <2>2, KeepsOrder, Zenon
  <2>3. CASE UNCHANGED disk /\ \E g \in Gates : StoreClaim(g)
    BY <2>1, <2>3, KeepsOrder, StoreKeeps, Zenon
  <2>4. CASE PowerLoss /\ disk' = file' /\ file'[k] \in {file[k], disk[k]}
    BY <2>1, <2>4, KeepsOrder
  <2> QED
    BY <2>2, <2>3, <2>4, StoreSteps
<1> QED
  BY <1>1, <1>2, GateTypeCorrect, PTL DEF Spec, ClaimAdvances


\* The finalized objects that the evidence v of a request r names.
SawEscrow(r, v) == LET c == v.checkpoint["escrow"] IN
  c \in 1 .. Len(chain) /\ chain[c].status[r.escrow] = "funded"
SawAgent(v) == LET c == v.checkpoint["agent"] IN
  c \in 1 .. Len(chain) /\ chain[c].agent /\ chain[c].code = v.code
SawCapability(v) == LET c == v.checkpoint["capability"] IN
  c \in 1 .. Len(chain) /\ chain[c].capability /\ chain[c].code = v.code

\* The buyer had not been refunded when the chain ended at checkpoint t.
NotRefunded(r, t) == t \in 1 .. Len(chain) /\ chain[t].status[r.escrow] # "refunded"

\* What a call has established by the time it is at a label.
CallBacked(g) ==
  /\ pc[g] \in {"agent", "capability", "claim", "sync"} =>
       SawEscrow(request[g], evidence[g]) /\ NotRefunded(request[g], tip[g])
  /\ pc[g] \in {"capability", "claim", "sync"} =>
       SawAgent(evidence[g]) /\ evidence[g].code = RegistryHash[g]
  /\ pc[g] \in {"claim", "sync"} => SawCapability(evidence[g])

GrantBacked(c) ==
  /\ SawEscrow(c.claim.request, c.claim.evidence) /\ NotRefunded(c.claim.request, c.tip)
  /\ SawAgent(c.claim.evidence) /\ SawCapability(c.claim.evidence)

\* A refund is finalized only once the refund time has passed.
RefundsAreLate ==
  \A i \in 1 .. Len(chain), e \in Escrows :
    chain[i].status[e] = "refunded" => clock >= RefundAvailableAt[e]

\* GrantIsSound speaks of returned claims alone; the evidence of the calls
\* under way and the time of every refund make it inductive.
BackedInv ==
  /\ TypeOK /\ RefundsAreLate
  /\ \A g \in Gates : CallBacked(g)
  /\ \A c \in granted : GrantBacked(c)

\* The finalized checkpoints start with the first, and the clock with zero.
LEMMA ChainFirst ==
  ASSUME BackedInv
  PROVE  /\ TypeOK /\ Len(chain) \in Nat \ {0} /\ clock \in Nat
         /\ chain \in Seq(Snapshots)
<1>1. TypeOK
  BY Zenon DEF BackedInv
<1>2. chain \in Seq(Snapshots) /\ Len(chain) \in 1 .. MaxCheckpoint /\ clock \in 0 .. MaxTime
  BY <1>1, Zenon DEF TypeOK
<1>3. Len(chain) \in Nat \ {0} /\ clock \in Nat
  BY <1>2
<1> QED
  BY <1>1, <1>2, <1>3, Zenon

\* The chain only grows, and what a call saw on it stays there.
LEMMA ChainGrows ==
  ASSUME BackedInv, ChainNext
  PROVE  /\ Len(chain') >= Len(chain) /\ \A i \in 1 .. Len(chain) : chain'[i] = chain[i]
         /\ RefundsAreLate' /\ UNCHANGED <<local, granted>>
<1>0. /\ TypeOK /\ Len(chain) \in Nat \ {0} /\ clock \in Nat /\ chain \in Seq(Snapshots)
  BY ChainFirst, Zenon
<1>1. ASSUME NEW s, FinalizeBlock(s),
             \A e \in Escrows : s.status[e] = "refunded" =>
               Current.status[e] = "refunded" \/ clock >= RefundAvailableAt[e]
      PROVE  /\ Len(chain') >= Len(chain) /\ \A i \in 1 .. Len(chain) : chain'[i] = chain[i]
             /\ RefundsAreLate' /\ UNCHANGED <<local, granted>>
  <2>1. chain' = Append(chain, s) /\ clock' = clock /\ UNCHANGED <<local, granted>>
    BY <1>1, Zenon DEF FinalizeBlock
  <2>2. /\ Len(chain') = Len(chain) + 1 /\ chain'[Len(chain) + 1] = s
        /\ \A i \in 1 .. Len(chain) : chain'[i] = chain[i]
    BY <2>1, <1>0
  <2>3. \A e \in Escrows : s.status[e] = "refunded" => clock >= RefundAvailableAt[e]
    BY <1>0, <1>1 DEF Current, BackedInv, RefundsAreLate
  <2>4. \A i \in 1 .. Len(chain') : i \in 1 .. Len(chain) \/ i = Len(chain) + 1
    BY <1>0, <2>2
  <2>5. RefundsAreLate'
    BY <2>1, <2>2, <2>3, <2>4, Zenon DEF BackedInv, RefundsAreLate
  <2> QED
    BY <1>0, <2>1, <2>2, <2>5
<1>2. Current \in Snapshots
  BY <1>0 DEF Current, TypeOK
<1>3. ASSUME NEW e \in Escrows, Fund(e) \/ Release(e) \/ Refund(e)
      PROVE  /\ Len(chain') >= Len(chain) /\ \A i \in 1 .. Len(chain) : chain'[i] = chain[i]
             /\ RefundsAreLate' /\ UNCHANGED <<local, granted>>
  <2>1. PICK v \in Statuses : /\ FinalizeBlock([Current EXCEPT !.status[e] = v])
                              /\ v = "refunded" => clock >= RefundAvailableAt[e]
    BY <1>3 DEF Fund, Release, Refund, Statuses
  <2>2. \A d \in Escrows : [Current EXCEPT !.status[e] = v].status[d] =
                            IF d = e THEN v ELSE Current.status[d]
    BY <1>2 DEF Snapshots
  <2> QED
    BY <1>1, <2>1, <2>2, Zenon
<1>4. CASE Tombstone \/ Revoke \/ UpgradeRegistry
  <2>1. PICK s : FinalizeBlock(s) /\ s.status = Current.status
    <3>1. /\ [Current EXCEPT !.agent = FALSE].status = Current.status
          /\ [Current EXCEPT !.capability = FALSE].status = Current.status
          /\ \A c \in CodeHashes : [Current EXCEPT !.code = c].status = Current.status
      BY <1>2 DEF Snapshots
    <3> QED
      BY <1>4, <3>1, ZenonT(30) DEF Tombstone, Revoke, UpgradeRegistry
  <2> QED
    BY <1>1, <2>1
<1>5. CASE Tick
  <2>1. chain' = chain /\ clock' = clock + 1 /\ UNCHANGED <<local, granted>>
    BY <1>5 DEF Tick
  <2> QED
    BY <1>0, <2>1, GateAssumption DEF BackedInv, RefundsAreLate
<1> QED
  BY <1>3, <1>4, <1>5, ZenonT(30) DEF ChainNext

\* What the chain and the clock do keeps every claim backed.
LEMMA BackedChain ==
  ASSUME BackedInv, TypeOK', ChainNext
  PROVE  BackedInv'
<1>1. /\ Len(chain') >= Len(chain) /\ \A i \in 1 .. Len(chain) : chain'[i] = chain[i]
      /\ RefundsAreLate' /\ UNCHANGED <<local, granted>>
  BY ChainGrows, Zenon
<1>0. Len(chain) \in Nat /\ Len(chain') \in Nat
  <2>1. Len(chain') \in 1 .. MaxCheckpoint
    BY Zenon DEF TypeOK
  <2>2. Len(chain) \in Nat \ {0}
    BY ChainFirst, Zenon
  <2> QED
    BY <2>1, <2>2
<1>2. \A i \in 1 .. Len(chain) : i \in 1 .. Len(chain') /\ chain'[i] = chain[i]
  BY <1>0, <1>1
<1>3. /\ \A r, v : SawEscrow(r, v) => (v.checkpoint["escrow"] \in 1 .. Len(chain')
                                /\ chain'[v.checkpoint["escrow"]].status[r.escrow] = "funded")
      /\ \A v : SawAgent(v) => (v.checkpoint["agent"] \in 1 .. Len(chain')
                          /\ chain'[v.checkpoint["agent"]].agent
                          /\ chain'[v.checkpoint["agent"]].code = v.code)
      /\ \A v : SawCapability(v) => (v.checkpoint["capability"] \in 1 .. Len(chain')
                               /\ chain'[v.checkpoint["capability"]].capability
                               /\ chain'[v.checkpoint["capability"]].code = v.code)
      /\ \A r, t : NotRefunded(r, t) => (t \in 1 .. Len(chain') /\ chain'[t].status[r.escrow] # "refunded")
  BY <1>2, Zenon DEF SawEscrow, SawAgent, SawCapability, NotRefunded
<1>4. \A g \in Gates : CallBacked(g)'
  <2> SUFFICES ASSUME NEW g \in Gates PROVE CallBacked(g)'
    OBVIOUS
  <2>1. CallBacked(g) /\ UNCHANGED <<pc, request, evidence, tip>>
    BY <1>1 DEF BackedInv, local
  <2> QED
    BY <1>3, <2>1, ZenonT(30) DEF CallBacked, SawEscrow, SawAgent, SawCapability, NotRefunded
<1>5. \A c \in granted' : GrantBacked(c)'
  <2> SUFFICES ASSUME NEW c \in granted PROVE GrantBacked(c)'
    BY <1>1
  <2>1. GrantBacked(c)
    BY DEF BackedInv
  <2> QED
    BY <1>3, <2>1, Zenon DEF GrantBacked, SawEscrow, SawAgent, SawCapability, NotRefunded
<1> QED
  BY <1>1, <1>4, <1>5 DEF BackedInv

\* A step of one gate keeps the invariant when what that gate has established,
\* and each claim it returns, is backed by the chain.
LEMMA BackedGate ==
  ASSUME BackedInv, TypeOK', NEW g \in Gates, UNCHANGED <<chain, clock>>,
         \A h \in Gates : h # g => /\ pc'[h] = pc[h] /\ request'[h] = request[h]
                                  /\ evidence'[h] = evidence[h] /\ tip'[h] = tip[h],
         CallBacked(g)', \A c \in granted' : c \in granted \/ GrantBacked(c)
  PROVE  BackedInv'
<1>1. \A h \in Gates : CallBacked(h)'
  <2> SUFFICES ASSUME NEW h \in Gates, h # g PROVE CallBacked(h)'
    OBVIOUS
  <2>1. /\ CallBacked(h) /\ pc'[h] = pc[h] /\ request'[h] = request[h]
        /\ evidence'[h] = evidence[h] /\ tip'[h] = tip[h]
    BY Zenon DEF BackedInv
  <2> QED
    BY <2>1, ZenonT(30) DEF CallBacked, SawEscrow, SawAgent, SawCapability, NotRefunded
<1>2. \A c \in granted' : GrantBacked(c)'
  <2> SUFFICES ASSUME NEW c \in granted' PROVE GrantBacked(c)'
    OBVIOUS
  <2>1. GrantBacked(c)
    BY Zenon DEF BackedInv
  <2> QED
    BY <2>1, Zenon DEF GrantBacked, SawEscrow, SawAgent, SawCapability, NotRefunded
<1>3. RefundsAreLate'
  BY Zenon DEF BackedInv, RefundsAreLate
<1> QED
  BY <1>1, <1>2, <1>3, Zenon DEF BackedInv

\* A call that ends keeps it: what it returned is its own evidence, or nothing.
LEMMA BackedReturn ==
  ASSUME BackedInv, TypeOK', NEW g \in Gates, UNCHANGED <<chain, clock>>, Return(g),
         granted' = granted \/ (pc[g] \in {"claim", "sync"} /\ Grant(g))
  PROVE  BackedInv'
<1>1. \A h \in Gates : h # g => /\ pc'[h] = pc[h] /\ request'[h] = request[h]
                                 /\ evidence'[h] = evidence[h] /\ tip'[h] = tip[h]
  BY Zenon DEF Return, Goto, BackedInv, TypeOK
<1>2. pc'[g] = "idle"
  BY Zenon DEF Return, Goto, BackedInv, TypeOK
<1>3. CallBacked(g)'
  BY <1>2 DEF CallBacked
<1>4. ASSUME NEW c \in granted', c \notin granted PROVE GrantBacked(c)
  <2>1. c = [claim |-> Mine(g), tip |-> tip[g]] /\ pc[g] \in {"claim", "sync"}
    BY <1>4, Zenon DEF Grant
  <2>2. c.claim.request = request[g] /\ c.claim.evidence = evidence[g] /\ c.tip = tip[g]
    BY <2>1 DEF Mine
  <2>3. CallBacked(g)
    BY Zenon DEF BackedInv
  <2>4. /\ SawEscrow(request[g], evidence[g]) /\ NotRefunded(request[g], tip[g])
        /\ SawAgent(evidence[g]) /\ SawCapability(evidence[g])
    BY <2>1, <2>3 DEF CallBacked
  <2> QED
    BY <2>2, <2>4, Zenon DEF GrantBacked
<1> QED
  BY <1>1, <1>3, <1>4, BackedGate, Zenon

\* A read puts its checkpoint into the evidence and keeps what was there.
LEMMA SawEffects ==
  ASSUME TypeOK, NEW g \in Gates, NEW o \in Objects, NEW c, NEW l, Saw(g, o, c), Goto(g, l)
  PROVE  /\ evidence'[g].code = RegistryHash[g] /\ evidence'[g].checkpoint[o] = c
         /\ \A x \in Objects : x # o => evidence'[g].checkpoint[x] = evidence[g].checkpoint[x]
         /\ pc'[g] = l
         /\ \A h \in Gates : h # g => pc'[h] = pc[h] /\ evidence'[h] = evidence[h]
<1> DEFINE new == [code |-> RegistryHash[g],
                   checkpoint |-> [evidence[g].checkpoint EXCEPT ![o] = c],
                   transaction |-> [evidence[g].transaction EXCEPT
                      ![o] = LastTransaction(o, request[g].escrow, c)]]
<1>1. evidence'[g] = new /\ \A h \in Gates : h # g => evidence'[h] = evidence[h]
  BY Zenon DEF Saw, TypeOK
<1>2. pc'[g] = l /\ \A h \in Gates : h # g => pc'[h] = pc[h]
  BY Zenon DEF Goto, TypeOK
<1>3. new.code = RegistryHash[g] /\ new.checkpoint = [evidence[g].checkpoint EXCEPT ![o] = c]
  BY Zenon
<1>4. evidence[g].checkpoint \in [Objects -> 0 .. MaxCheckpoint]
  BY Zenon DEF TypeOK, EvidenceSet
<1> HIDE DEF new
<1> QED
  BY <1>1, <1>2, <1>3, <1>4, Zenon

\* A gate that reads the escrow backs its call with what it read.
LEMMA BackedEscrow ==
  ASSUME BackedInv, TypeOK', NEW g \in Gates, ReadEscrow(g)
  PROVE  BackedInv'
<1>0. TypeOK /\ pc[g] = "escrow" /\ UNCHANGED <<chain, clock, granted>>
  BY DEF BackedInv, ReadEscrow
<1>1. PICK c \in 1 .. Len(chain) :
        IF Executable(g, c)
        THEN Saw(g, "escrow", c) /\ Goto(g, "agent") /\ tip' = [tip EXCEPT ![g] = Len(chain)] /\ UNCHANGED request
        ELSE Return(g)
  BY DEF ReadEscrow
<1>2. CASE Executable(g, c)
  <2>1. /\ chain[c].status[request[g].escrow] = "funded" /\ RefundAvailableAt[request[g].escrow] > clock
    BY <1>2, Zenon DEF Executable
  <2>2. Len(chain) \in 1 .. Len(chain) /\ request[g].escrow \in Escrows /\ clock \in Nat
    BY <1>0 DEF TypeOK, Requests
  <2>3. chain[Len(chain)].status[request[g].escrow] # "refunded"
    <3>1. chain[Len(chain)].status[request[g].escrow] = "refunded" =>
            RefundAvailableAt[request[g].escrow] <= clock
      BY <2>2, Zenon DEF BackedInv, RefundsAreLate
    <3>2. RefundAvailableAt[request[g].escrow] \in Nat
      BY <2>2, GateAssumption, Zenon
    <3> QED
      BY <2>1, <2>2, <3>1, <3>2
  <2>4. /\ evidence'[g].checkpoint["escrow"] = c /\ pc'[g] = "agent"
        /\ \A h \in Gates : h # g => pc'[h] = pc[h] /\ evidence'[h] = evidence[h]
    BY <1>0, <1>1, <1>2, SawEffects DEF Objects
  <2>5. tip'[g] = Len(chain) /\ \A h \in Gates : h # g => tip'[h] = tip[h]
    BY <1>0, <1>1, <1>2, Zenon DEF TypeOK
  <2>6. CallBacked(g)'
    <3>1. SawEscrow(request[g], evidence[g])' /\ NotRefunded(request[g], tip[g])'
      BY <1>0, <1>1, <1>2, <2>1, <2>2, <2>3, <2>4, <2>5, Zenon DEF SawEscrow, NotRefunded
    <3> QED
      BY <2>4, <3>1 DEF CallBacked
  <2> QED
    BY <1>0, <1>1, <1>2, <2>4, <2>5, <2>6, BackedGate, Zenon
<1> QED
  BY <1>0, <1>1, <1>2, BackedReturn, Zenon

\* A gate that reads the agent keeps its call backed.
LEMMA BackedAgent ==
  ASSUME BackedInv, TypeOK', NEW g \in Gates, ReadAgent(g)
  PROVE  BackedInv'
<1>0. TypeOK /\ pc[g] = "agent" /\ UNCHANGED <<chain, clock, granted>> /\ CallBacked(g)
  BY DEF BackedInv, ReadAgent
<1>1. PICK c \in 1 .. Len(chain) :
        IF chain[c].code = RegistryHash[g] /\ chain[c].agent
        THEN Saw(g, "agent", c) /\ Goto(g, "capability") /\ UNCHANGED <<request, tip>>
        ELSE Return(g)
  BY DEF ReadAgent
<1>2. CASE chain[c].code = RegistryHash[g] /\ chain[c].agent
  <2>1. /\ evidence'[g].code = RegistryHash[g] /\ evidence'[g].checkpoint["agent"] = c
        /\ evidence'[g].checkpoint["escrow"] = evidence[g].checkpoint["escrow"]
        /\ pc'[g] = "capability"
        /\ \A h \in Gates : h # g => pc'[h] = pc[h] /\ evidence'[h] = evidence[h]
    BY <1>0, <1>1, <1>2, SawEffects DEF Objects
  <2>2. SawEscrow(request[g], evidence[g]) /\ NotRefunded(request[g], tip[g])
    BY <1>0, Zenon DEF CallBacked
  <2>3. CallBacked(g)'
    <3>1. SawEscrow(request[g], evidence[g])' /\ NotRefunded(request[g], tip[g])'
      BY <1>0, <1>1, <1>2, <2>1, <2>2, Zenon DEF SawEscrow, NotRefunded
    <3>2. SawAgent(evidence[g])'
      BY <1>0, <1>2, <2>1, Zenon DEF SawAgent
    <3> QED
      BY <2>1, <3>1, <3>2 DEF CallBacked
  <2> QED
    BY <1>0, <1>1, <1>2, <2>1, <2>3, BackedGate, Zenon
<1> QED
  BY <1>0, <1>1, <1>2, BackedReturn, Zenon

\* A gate that reads the capability keeps its call backed.
LEMMA BackedCapability ==
  ASSUME BackedInv, TypeOK', NEW g \in Gates, ReadCapability(g)
  PROVE  BackedInv'
<1>0. TypeOK /\ pc[g] = "capability" /\ UNCHANGED <<chain, clock, granted>> /\ CallBacked(g)
  BY DEF BackedInv, ReadCapability
<1>1. PICK c \in 1 .. Len(chain) :
        IF chain[c].code = RegistryHash[g] /\ chain[c].capability
        THEN Saw(g, "capability", c) /\ Goto(g, "claim") /\ UNCHANGED <<request, tip>>
        ELSE Return(g)
  BY DEF ReadCapability
<1>2. CASE chain[c].code = RegistryHash[g] /\ chain[c].capability
  <2>1. /\ evidence'[g].code = RegistryHash[g] /\ evidence'[g].checkpoint["capability"] = c
        /\ evidence'[g].checkpoint["escrow"] = evidence[g].checkpoint["escrow"]
        /\ evidence'[g].checkpoint["agent"] = evidence[g].checkpoint["agent"]
        /\ pc'[g] = "claim"
        /\ \A h \in Gates : h # g => pc'[h] = pc[h] /\ evidence'[h] = evidence[h]
    BY <1>0, <1>1, <1>2, SawEffects DEF Objects
  <2>2. /\ SawEscrow(request[g], evidence[g]) /\ NotRefunded(request[g], tip[g])
        /\ SawAgent(evidence[g]) /\ evidence[g].code = RegistryHash[g]
    BY <1>0, Zenon DEF CallBacked
  <2>3. CallBacked(g)'
    <3>1. SawEscrow(request[g], evidence[g])' /\ NotRefunded(request[g], tip[g])'
      BY <1>0, <1>1, <1>2, <2>1, <2>2, Zenon DEF SawEscrow, NotRefunded
    <3>2. SawAgent(evidence[g])'
      BY <1>0, <2>1, <2>2, Zenon DEF SawAgent
    <3>3. SawCapability(evidence[g])'
      BY <1>0, <1>2, <2>1, Zenon DEF SawCapability
    <3> QED
      BY <2>1, <3>1, <3>2, <3>3 DEF CallBacked
  <2> QED
    BY <1>0, <1>1, <1>2, <2>1, <2>3, BackedGate, Zenon
<1> QED
  BY <1>0, <1>1, <1>2, BackedReturn, ZenonT(30)

\* The claim store keeps the grants it returns backed.
LEMMA BackedStore ==
  ASSUME BackedInv, TypeOK', NEW g \in Gates, StoreClaim(g)
  PROVE  BackedInv'
<1>0. TypeOK /\ pc[g] = "claim" /\ UNCHANGED <<chain, clock>> /\ CallBacked(g)
  BY DEF BackedInv, StoreClaim
<1>1. \/ Return(g) /\ (granted' = granted \/ Grant(g))
      \/ Goto(g, "sync") /\ UNCHANGED <<request, evidence, tip, granted>>
  BY DEF StoreClaim
<1>2. CASE Goto(g, "sync") /\ UNCHANGED <<request, evidence, tip, granted>>
  <2>1. pc'[g] = "sync" /\ \A h \in Gates : h # g => pc'[h] = pc[h]
    BY <1>0, <1>2, ZenonT(30) DEF Goto, TypeOK
  <2>2. CallBacked(g)'
    BY <1>0, <1>2, <2>1, Zenon DEF CallBacked, SawEscrow, SawAgent, SawCapability, NotRefunded
  <2> QED
    BY <1>0, <1>2, <2>1, <2>2, BackedGate, Zenon
<1> QED
  BY <1>0, <1>1, <1>2, BackedReturn

\* Every step keeps every call and every grant backed.
LEMMA BackedStep == BackedInv /\ [Next]_vars => BackedInv'
<1> SUFFICES ASSUME BackedInv, [Next]_vars PROVE BackedInv'
  OBVIOUS
<1>0. TypeOK /\ TypeOK'
  BY TypeStep DEF BackedInv
<1>1. ASSUME NEW g \in Gates, NEW r \in Requests, ClaimExecution(g, r) PROVE BackedInv'
  <2>1. /\ pc'[g] = "escrow" /\ UNCHANGED <<chain, clock, evidence, tip, granted>>
        /\ \A h \in Gates : h # g => pc'[h] = pc[h] /\ request'[h] = request[h]
    BY <1>0, <1>1, Zenon DEF ClaimExecution, Goto, TypeOK
  <2>2. CallBacked(g)'
    BY <2>1 DEF CallBacked
  <2> QED
    BY <1>0, <2>1, <2>2, BackedGate, Zenon
<1>2. ASSUME NEW g \in Gates,
             ReadFails(g) \/ WriteFails(g) \/ SyncDirFails(g) \/ Crash(g) \/ SyncDir(g)
      PROVE  BackedInv'
  <2>1. /\ Return(g) /\ UNCHANGED <<chain, clock>>
        /\ granted' = granted \/ (pc[g] \in {"claim", "sync"} /\ Grant(g))
    BY <1>2 DEF ReadFails, WriteFails, SyncDirFails, Crash, SyncDir
  <2> QED
    BY <1>0, <2>1, BackedReturn, Zenon
<1>3. CASE PowerLoss
  <2>1. UNCHANGED <<chain, clock, granted>> /\ \A g \in Gates : pc'[g] = "idle"
    BY <1>3, Zenon DEF PowerLoss
  <2>2. \A g \in Gates : CallBacked(g)'
    BY <2>1 DEF CallBacked
  <2>3. RefundsAreLate' /\ \A c \in granted' : GrantBacked(c)'
    BY <2>1, Zenon DEF BackedInv, RefundsAreLate, GrantBacked, SawEscrow, SawAgent, SawCapability,
                       NotRefunded
  <2> QED
    BY <1>0, <2>2, <2>3 DEF BackedInv
<1>4. CASE UNCHANGED vars
  <2>1. UNCHANGED <<chain, clock, granted, pc, request, evidence, tip>>
    BY <1>4 DEF vars, local
  <2> QED
    BY <1>0, <2>1, ZenonT(30) DEF BackedInv, RefundsAreLate, CallBacked, GrantBacked, SawEscrow, SawAgent,
                             SawCapability, NotRefunded
<1> QED
  BY <1>0, <1>1, <1>2, <1>3, <1>4, BackedChain, BackedEscrow, BackedAgent, BackedCapability, BackedStore, Zenon
     DEF Next

\* For any gates, escrows and reads, however late: a returned claim names
\* finalized objects that really gave the provider its authority under one
\* registry code, over an escrow the buyer had not been refunded from when the
\* gate admitted the call (ClaimExecution, resolveNative).
THEOREM GrantSound == Spec => []GrantIsSound
<1>1. Init => BackedInv
  <2> SUFFICES ASSUME Init PROVE BackedInv
    OBVIOUS
  <2>1. TypeOK
    BY InvInit DEF GateInv
  <2>2. RefundsAreLate
    <3>1. PICK s \in Snapshots : chain = <<s>> /\ \A e \in Escrows : s.status[e] \in {"awaiting", "funded"}
      BY DEF Init
    <3>2. \A i \in 1 .. Len(chain) : chain[i] = s
      BY <3>1
    <3> QED
      BY <3>1, <3>2 DEF RefundsAreLate
  <2> QED
    BY <2>1, <2>2 DEF Init, BackedInv, CallBacked
<1>2. BackedInv => GrantIsSound
  BY Zenon DEF BackedInv, GrantBacked, GrantIsSound, GrantWasAuthorized, NotRefundedWhenAdmitted,
               SawEscrow, SawAgent, SawCapability, NotRefunded
<1> QED
  BY <1>1, <1>2, BackedStep, PTL DEF Spec
=============================================================================
