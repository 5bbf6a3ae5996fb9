----------------------------- MODULE BuyerProofs -----------------------------
(***************************************************************************)
(* Proofs about a buyer's processes: the finalized chain state they read   *)
(* (FinalizedRead), for any number of goroutines, processes and endpoints, *)
(* any quorum above the faulty ones and any chain; and the escrows they    *)
(* fund (BuyerFunding), for any number of processes, purchases and request *)
(* keys, any prices and limits, and any clock.                             *)
(***************************************************************************)
EXTENDS BuyerFunding, FinalizedRead, SumTheorems, TLAPS

-----------------------------------------------------------------------------
(* Finalized reads. *)

Stages == {"idle", "consensus", "account", "commit", "write"}

\* The variables the proofs are about; a goroutine inside a read has a process.
ReadType ==
  /\ stage \in [Readers -> Stages]
  /\ host \in [Readers -> Hosts \cup {Nobody}]
  /\ \A g \in Readers : stage[g] # "idle" => host[g] \in Hosts
  /\ seq \in [Readers -> Nat]
  /\ content \in [Readers -> {"none", "true", "forged"}]
  /\ highWater \in [Hosts -> Nat] /\ servedBy \in [Hosts -> Nat]
  /\ file \in Nat /\ served \in Nat
  /\ torn \in BOOLEAN

\* An account read that got its quorum is true.
ReadsAreTrue == \A g \in Readers : stage[g] \in {"commit", "write"} => content[g] = "true"

\* The file lock is held by the one goroutine between Truncate and WriteString,
\* whose block passed the mark of its process; the file is empty meanwhile.
LockHolder ==
  \A g \in Readers : stage[g] = "write" => fileLock = g /\ file = 0 /\ seq[g] >= highWater[host[g]]

\* The mark in the memory of a process is what it served last.
MarkIsServed == \A h \in Hosts : highWater[h] = servedBy[h]

\* The file holds the fence, or the goroutine that is writing it does.
FileFences ==
  torn = FALSE => /\ fileLock = Nobody => file >= served
                  /\ \A g \in Readers : stage[g] = "write" => seq[g] >= served

\* A lock without a writer does not exist.
LockHeld == fileLock = Nobody \/ (fileLock \in Readers /\ stage[fileLock] = "write")

FenceInv == ReadType /\ ReadsAreTrue /\ ServedIsTrue /\ LockHolder /\ MarkIsServed /\ FileFences /\ LockHeld

-----------------------------------------------------------------------------
\* What the end of a call leaves of the goroutines.
LEMMA QuitEffects ==
  ASSUME ReadType, NEW g \in Readers, Quit(g)
  PROVE  /\ stage' \in [Readers -> Stages] /\ host' \in [Readers -> Hosts \cup {Nobody}]
         /\ seq' \in [Readers -> Nat] /\ content' \in [Readers -> {"none", "true", "forged"}]
         /\ stage'[g] = "idle"
         /\ \A q \in Readers : q # g =>
              /\ stage'[q] = stage[q] /\ host'[q] = host[q]
              /\ seq'[q] = seq[q] /\ content'[q] = content[q]
         /\ \A q \in Readers : stage'[q] # "idle" => host'[q] \in Hosts
<1>1. "idle" \in Stages
  BY DEF Stages
<1>2. /\ stage' \in [Readers -> Stages] /\ host' \in [Readers -> Hosts \cup {Nobody}]
      /\ seq' \in [Readers -> Nat] /\ content' \in [Readers -> {"none", "true", "forged"}]
  BY <1>1 DEF Quit, ReadType
<1>3. /\ stage'[g] = "idle"
      /\ \A q \in Readers : q # g =>
           /\ stage'[q] = stage[q] /\ host'[q] = host[q]
           /\ seq'[q] = seq[q] /\ content'[q] = content[q]
  BY Zenon DEF Quit, ReadType
<1> QED
  BY <1>2, <1>3 DEF ReadType

\* A call that ends, or a goroutine that moves to another stage before the
\* commit, without touching the marks.
LEMMA OutsideCommit ==
  ASSUME FenceInv, NEW g \in Readers, stage[g] # "write", stage'[g] # "write",
         stage' \in [Readers -> Stages], host' \in [Readers -> Hosts \cup {Nobody}],
         seq' \in [Readers -> Nat], content' \in [Readers -> {"none", "true", "forged"}],
         \A q \in Readers : stage'[q] # "idle" => host'[q] \in Hosts,
         \A q \in Readers : q # g =>
           /\ stage'[q] = stage[q] /\ host'[q] = host[q]
           /\ seq'[q] = seq[q] /\ content'[q] = content[q],
         stage'[g] = "commit" => content'[g] = "true",
         UNCHANGED <<marks, ghosts, torn>>
  PROVE  FenceInv'
<1>1. UNCHANGED <<highWater, file, fileLock, served, servedBy, contents, torn>>
  BY Zenon DEF marks, ghosts
<1>2. ReadType'
  BY <1>1, Zenon DEF FenceInv, ReadType
<1>3. ReadsAreTrue' /\ ServedIsTrue' /\ MarkIsServed'
  BY <1>1 DEF FenceInv, ReadsAreTrue, ServedIsTrue, MarkIsServed
<1>4. \A q \in Readers : stage'[q] = "write" =>
        q # g /\ stage[q] = "write" /\ seq'[q] = seq[q] /\ host'[q] = host[q]
  BY Zenon
<1>5. LockHolder' /\ FileFences'
  BY <1>1, <1>4, Zenon DEF FenceInv, LockHolder, FileFences
<1>6. LockHeld'
  BY <1>1, Zenon DEF FenceInv, LockHeld
<1> QED
  BY <1>2, <1>3, <1>5, <1>6, Zenon DEF FenceInv

\* Serving state at a block that is not before the marks.
LEMMA ServeStep ==
  ASSUME FenceInv, NEW g \in Readers, Serve(g), stage[g] \in {"commit", "write"},
         file' = seq[g], fileLock' = Nobody, torn' = torn,
         seq[g] >= highWater[host[g]], \A q \in Readers : q # g => stage[q] # "write"
  PROVE  FenceInv' /\ \A h \in Hosts : servedBy'[h] >= servedBy[h]
<1>0. ReadType /\ Quit(g)
  BY DEF FenceInv, Serve
<1>1. /\ stage' \in [Readers -> Stages] /\ host' \in [Readers -> Hosts \cup {Nobody}]
      /\ seq' \in [Readers -> Nat] /\ content' \in [Readers -> {"none", "true", "forged"}]
      /\ stage'[g] = "idle"
      /\ \A q \in Readers : q # g =>
           /\ stage'[q] = stage[q] /\ host'[q] = host[q]
           /\ seq'[q] = seq[q] /\ content'[q] = content[q]
      /\ \A q \in Readers : stage'[q] # "idle" => host'[q] \in Hosts
  BY <1>0, QuitEffects, Zenon
<1>2. PICK h, v : h = host[g] /\ v = seq[g]
  OBVIOUS
<1>3. h \in Hosts /\ v \in Nat /\ v >= highWater[h] /\ content[g] = "true"
  BY <1>0, <1>2 DEF ReadType, FenceInv, ReadsAreTrue
<1>4. /\ highWater' = [highWater EXCEPT ![h] = v] /\ servedBy' = [servedBy EXCEPT ![h] = v]
      /\ served' = v /\ file' = v /\ contents' = contents \cup {content[g]}
  BY <1>2, Zenon DEF Serve
<1>5. ReadType'
  <2>1. highWater' \in [Hosts -> Nat] /\ servedBy' \in [Hosts -> Nat]
    BY <1>0, <1>3, <1>4 DEF ReadType
  <2> QED
    BY <1>0, <1>1, <1>3, <1>4, <2>1, Zenon DEF ReadType
<1>6. \A q \in Readers : stage'[q] # "write"
  BY <1>1
<1>7. ReadsAreTrue'
  BY <1>1 DEF FenceInv, ReadsAreTrue
<1>8. ServedIsTrue'
  BY <1>3, <1>4 DEF FenceInv, ServedIsTrue
<1>9. MarkIsServed' /\ \A k \in Hosts : servedBy'[k] >= servedBy[k]
  BY <1>0, <1>3, <1>4 DEF FenceInv, ReadType, MarkIsServed
<1>10. LockHolder' /\ LockHeld'
  BY <1>6 DEF LockHolder, LockHeld
<1>11. FileFences'
  BY <1>3, <1>4, <1>6 DEF FileFences
<1> QED
  BY <1>5, <1>7, <1>8, <1>9, <1>10, <1>11, Zenon DEF FenceInv
\* What FenceMonotone says of a step.
Fenced == /\ served' >= served \/ torn
          /\ \A h \in Hosts : servedBy'[h] >= servedBy[h] \/ servedBy'[h] = 0

\* A step that serves nothing lowers nothing that was served.
LEMMA SameFence ==
  ASSUME FenceInv, served' = served, servedBy' = servedBy
  PROVE  Fenced
BY DEF FenceInv, ReadType, Fenced

\* Without a lock holder nobody is between Truncate and WriteString.
LEMMA NoWriter ==
  ASSUME FenceInv, fileLock = Nobody, NEW q \in Readers
  PROVE  stage[q] # "write"
BY ReadAssumption DEF FenceInv, LockHolder

\* The lock holder is the only writer.
LEMMA OneWriter ==
  ASSUME FenceInv, NEW g \in Readers, stage[g] = "write", NEW q \in Readers, q # g
  PROVE  stage[q] # "write"
BY Zenon DEF FenceInv, LockHolder

\* BeginRead keeps the invariant.
LEMMA BeginReadStep ==
  ASSUME FenceInv, NEW g \in Readers, NEW h \in Hosts, BeginRead(g, h)
  PROVE  FenceInv' /\ Fenced
<1>1. /\ stage' = [stage EXCEPT ![g] = "consensus"] /\ host' = [host EXCEPT ![g] = h]
      /\ UNCHANGED <<seq, content, marks, ghosts, torn>> /\ stage[g] = "idle"
  BY Zenon DEF BeginRead
<1>2. /\ stage' \in [Readers -> Stages] /\ host' \in [Readers -> Hosts \cup {Nobody}]
      /\ stage'[g] = "consensus" /\ host'[g] = h
      /\ \A q \in Readers : q # g => stage'[q] = stage[q] /\ host'[q] = host[q]
  BY <1>1 DEF FenceInv, ReadType, Stages
<1>3. \A q \in Readers : stage'[q] # "idle" => host'[q] \in Hosts
  BY <1>2, Zenon DEF FenceInv, ReadType
<1>4. FenceInv'
  BY <1>1, <1>2, <1>3, OutsideCommit DEF FenceInv, ReadType
<1> QED
  BY <1>1, <1>4, SameFence, Zenon DEF ghosts

\* The answer of the validators keeps the invariant.
LEMMA ConsensusStep ==
  ASSUME FenceInv, NEW g \in Readers, Consensus(g)
  PROVE  FenceInv' /\ Fenced
<1>1. PICK v \in Blocks : seq' = [seq EXCEPT ![g] = v]
  BY Zenon DEF Consensus
<1>2. /\ stage' = [stage EXCEPT ![g] = "account"] /\ stage[g] = "consensus"
      /\ UNCHANGED <<host, content, marks, ghosts, torn>>
  BY Zenon DEF Consensus
<1>3. /\ stage' \in [Readers -> Stages] /\ seq' \in [Readers -> Nat]
      /\ stage'[g] = "account"
      /\ \A q \in Readers : q # g => stage'[q] = stage[q] /\ seq'[q] = seq[q]
  BY <1>1, <1>2, ReadAssumption DEF FenceInv, ReadType, Stages, Blocks
<1>4. \A q \in Readers : stage'[q] # "idle" => host'[q] \in Hosts
  BY <1>2, <1>3, Zenon DEF FenceInv, ReadType
<1>5. FenceInv'
  BY <1>2, <1>3, <1>4, OutsideCommit, Zenon DEF FenceInv, ReadType
<1> QED
  BY <1>2, <1>5, SameFence, Zenon DEF ghosts

\* A quorum of endpoints has an honest one, so that what it agrees on is true.
LEMMA QuorumIsTrue ==
  ASSUME NEW G, Agree(G)
  PROVE  ~(G \subseteq Faulty)
<1> SUFFICES ASSUME G \subseteq Faulty
             PROVE  FALSE
  OBVIOUS
<1>1. IsFiniteSet(Faulty)
  BY ReadAssumption, FS_Subset, Zenon
<1>2. Cardinality(G) <= Cardinality(Faulty) /\ Cardinality(G) \in Nat /\ Cardinality(Faulty) \in Nat
  BY <1>1, FS_Subset, FS_CardinalityType, Zenon
<1> QED
  BY <1>2, ReadAssumption DEF Agree

\* Reading the account keeps the invariant.
LEMMA AccountStep ==
  ASSUME FenceInv, NEW g \in Readers, Account(g)
  PROVE  FenceInv' /\ Fenced
<1>1. /\ stage' = [stage EXCEPT ![g] = "commit"] /\ stage[g] = "account"
      /\ UNCHANGED <<host, seq, marks, ghosts, torn>>
  BY Zenon DEF Account
<1>2. content' = [content EXCEPT ![g] = "true"]
  <2>1. PICK c \in {"true", "forged"}, G \in SUBSET group[g] :
          Agree(G) /\ (c = "forged" => G \subseteq Faulty) /\ content' = [content EXCEPT ![g] = c]
    BY Zenon DEF Account
  <2>2. c # "forged"
    BY <2>1, QuorumIsTrue, Zenon
  <2> QED
    BY <2>1, <2>2, Zenon
<1>3. /\ stage' \in [Readers -> Stages] /\ content' \in [Readers -> {"none", "true", "forged"}]
      /\ stage'[g] = "commit" /\ content'[g] = "true"
      /\ \A q \in Readers : q # g => stage'[q] = stage[q] /\ content'[q] = content[q]
  BY <1>1, <1>2 DEF FenceInv, ReadType, Stages
<1>4. \A q \in Readers : stage'[q] # "idle" => host'[q] \in Hosts
  BY <1>1, <1>3, Zenon DEF FenceInv, ReadType
<1>5. FenceInv'
  BY <1>1, <1>3, <1>4, OutsideCommit, Zenon DEF FenceInv, ReadType
<1> QED
  BY <1>1, <1>5, SameFence, Zenon DEF ghosts

\* A read that fails keeps the invariant.
LEMMA QuitStep ==
  ASSUME FenceInv, NEW g \in Readers, ReadFails(g) \/ CommitRefused(g)
  PROVE  FenceInv' /\ Fenced
<1>1. Quit(g) /\ UNCHANGED <<marks, ghosts, torn>> /\ stage[g] # "write" /\ ReadType
  BY DEF ReadFails, CommitRefused, FenceInv
<1>2. /\ stage' \in [Readers -> Stages] /\ host' \in [Readers -> Hosts \cup {Nobody}]
      /\ seq' \in [Readers -> Nat] /\ content' \in [Readers -> {"none", "true", "forged"}]
      /\ stage'[g] = "idle"
      /\ \A q \in Readers : q # g =>
           /\ stage'[q] = stage[q] /\ host'[q] = host[q]
           /\ seq'[q] = seq[q] /\ content'[q] = content[q]
      /\ \A q \in Readers : stage'[q] # "idle" => host'[q] \in Hosts
  BY <1>1, QuitEffects, Zenon
<1>3. FenceInv'
  BY <1>1, <1>2, OutsideCommit
<1> QED
  BY <1>1, <1>3, SameFence, Zenon DEF ghosts
\* A commit at the stored height keeps the invariant.
LEMMA CommitSameStep ==
  ASSUME FenceInv, NEW g \in Readers, CommitSame(g)
  PROVE  FenceInv' /\ Fenced
<1>1. /\ stage[g] = "commit" /\ fileLock = Nobody /\ Serve(g) /\ seq[g] >= highWater[host[g]]
      /\ seq[g] = file /\ file' = file /\ fileLock' = fileLock /\ torn' = torn
  BY DEF CommitSame, CommitAllowed
<1>2. \A q \in Readers : q # g => stage[q] # "write"
  BY <1>1, NoWriter, Zenon
<1>3. FenceInv' /\ \A h \in Hosts : servedBy'[h] >= servedBy[h]
  BY <1>1, <1>2, ServeStep, Zenon
<1>4. served' = seq[g] /\ torn \in BOOLEAN
  BY <1>1 DEF Serve, FenceInv, ReadType
<1>5. served' >= served \/ torn
  BY <1>1, <1>4 DEF FenceInv, FileFences
<1> QED
  BY <1>3, <1>5, Zenon DEF Fenced

\* Truncating the file keeps the invariant.
LEMMA TruncateStep ==
  ASSUME FenceInv, NEW g \in Readers, Truncate(g)
  PROVE  FenceInv' /\ Fenced
<1>1. /\ stage[g] = "commit" /\ fileLock = Nobody /\ fileLock' = g /\ file' = 0
      /\ seq[g] >= highWater[host[g]] /\ seq[g] >= file
      /\ stage' = [stage EXCEPT ![g] = "write"]
      /\ UNCHANGED <<host, seq, content, highWater, served, servedBy, contents, torn>>
  BY Zenon DEF Truncate, CommitAllowed, ghosts
<1>2. /\ stage' \in [Readers -> Stages] /\ stage'[g] = "write"
      /\ \A q \in Readers : q # g => stage'[q] = stage[q]
      /\ \A q \in Readers : stage'[q] = "write" => q = g
  <2>1. \A q \in Readers : stage[q] # "write"
    BY <1>1, NoWriter, Zenon
  <2> QED
    BY <1>1, <2>1 DEF FenceInv, ReadType, Stages
<1>3. ReadType'
  <2>1. \A q \in Readers : stage'[q] # "idle" => host'[q] \in Hosts
    BY <1>1, <1>2 DEF FenceInv, ReadType
  <2> QED
    BY <1>1, <1>2, <2>1, Zenon DEF FenceInv, ReadType
<1>4. ReadsAreTrue' /\ ServedIsTrue' /\ MarkIsServed'
  BY <1>1, <1>2 DEF FenceInv, ReadsAreTrue, ServedIsTrue, MarkIsServed
<1>5. LockHolder' /\ LockHeld'
  BY <1>1, <1>2, Zenon DEF LockHolder, LockHeld
<1>6. FileFences'
  <2>1. torn = FALSE => seq[g] >= served
    BY <1>1 DEF FenceInv, ReadType, FileFences
  <2>2. fileLock' # Nobody
    BY <1>1, ReadAssumption, Zenon
  <2> QED
    BY <1>1, <1>2, <2>1, <2>2, Zenon DEF FileFences
<1> QED
  BY <1>1, <1>3, <1>4, <1>5, <1>6, SameFence, Zenon DEF FenceInv

\* Writing the height keeps the invariant.
LEMMA WriteStringStep ==
  ASSUME FenceInv, NEW g \in Readers, WriteString(g)
  PROVE  FenceInv' /\ Fenced
<1>1. stage[g] = "write" /\ Serve(g) /\ file' = seq[g] /\ fileLock' = Nobody /\ torn' = torn
  BY DEF WriteString
<1>2. seq[g] >= highWater[host[g]] /\ \A q \in Readers : q # g => stage[q] # "write"
  BY <1>1, OneWriter, Zenon DEF FenceInv, LockHolder
<1>3. FenceInv' /\ \A h \in Hosts : servedBy'[h] >= servedBy[h]
  BY <1>1, <1>2, ServeStep
<1>4. served' = seq[g] /\ torn \in BOOLEAN
  BY <1>1 DEF Serve, FenceInv, ReadType
<1>5. served' >= served \/ torn
  BY <1>1, <1>4, Zenon DEF FenceInv, FileFences
<1> QED
  BY <1>3, <1>5, Zenon DEF Fenced

\* A failed write keeps the invariant.
LEMMA WriteFailsStep ==
  ASSUME FenceInv, NEW g \in Readers, WriteFails(g)
  PROVE  FenceInv' /\ Fenced
<1>1. /\ stage[g] = "write" /\ file' \in {file, seq[g]} /\ fileLock' = Nobody /\ Quit(g)
      /\ torn' = (torn \/ (served > 0 /\ file' = 0))
      /\ UNCHANGED <<highWater, served, servedBy, contents>> /\ ReadType
  BY Zenon DEF WriteFails, ghosts, FenceInv
<1>2. /\ stage' \in [Readers -> Stages] /\ host' \in [Readers -> Hosts \cup {Nobody}]
      /\ seq' \in [Readers -> Nat] /\ content' \in [Readers -> {"none", "true", "forged"}]
      /\ stage'[g] = "idle"
      /\ \A q \in Readers : q # g =>
           /\ stage'[q] = stage[q] /\ host'[q] = host[q]
           /\ seq'[q] = seq[q] /\ content'[q] = content[q]
      /\ \A q \in Readers : stage'[q] # "idle" => host'[q] \in Hosts
  BY <1>1, QuitEffects, Zenon
<1>3. \A q \in Readers : stage'[q] # "write"
  BY <1>1, <1>2, OneWriter
<1>4. ReadType'
  <2>1. file' \in Nat
    BY <1>1 DEF ReadType
  <2>2. torn' \in BOOLEAN
    BY <1>1, Zenon
  <2> QED
    BY <1>1, <1>2, <2>1, <2>2, Zenon DEF ReadType
<1>5. ReadsAreTrue' /\ ServedIsTrue' /\ MarkIsServed'
  BY <1>1, <1>2 DEF FenceInv, ReadsAreTrue, ServedIsTrue, MarkIsServed
<1>6. LockHolder' /\ LockHeld'
  BY <1>1, <1>3, Zenon DEF LockHolder, LockHeld
<1>7. FileFences'
  <2>1. torn' = FALSE => torn = FALSE /\ ~(served > 0 /\ file' = 0)
    BY <1>1, Zenon DEF ReadType
  <2>2. torn = FALSE => seq[g] >= served
    BY <1>1, Zenon DEF FenceInv, FileFences
  <2>3. file = 0 /\ served \in Nat /\ seq[g] \in Nat
    BY <1>1, Zenon DEF FenceInv, LockHolder, ReadType
  <2>4. torn' = FALSE => file' >= served
    <3>1. CASE file' = file
      BY <2>1, <2>3, <3>1
    <3>2. CASE file' = seq[g]
      BY <2>1, <2>2, <3>2, Zenon
    <3> QED
      BY <1>1, <3>1, <3>2, Zenon
  <2> QED
    BY <1>1, <1>3, <2>4, Zenon DEF FileFences
<1> QED
  BY <1>1, <1>4, <1>5, <1>6, <1>7, SameFence, Zenon DEF FenceInv

\* A crash keeps the invariant.
LEMMA CrashStep ==
  ASSUME FenceInv, NEW h \in Hosts, HostCrash(h)
  PROVE  FenceInv' /\ Fenced
<1>0. ReadType
  BY Zenon DEF FenceInv
<1> DEFINE mine == {g \in Readers : host[g] = h}
<1>1. /\ stage' = [g \in Readers |-> IF g \in mine THEN "idle" ELSE stage[g]]
      /\ host' = [g \in Readers |-> IF g \in mine THEN Nobody ELSE host[g]]
      /\ seq' = [g \in Readers |-> IF g \in mine THEN 0 ELSE seq[g]]
      /\ content' = [g \in Readers |-> IF g \in mine THEN "none" ELSE content[g]]
  BY DEF HostCrash
<1>2. /\ highWater' = [highWater EXCEPT ![h] = 0] /\ servedBy' = [servedBy EXCEPT ![h] = 0]
      /\ fileLock' = IF fileLock \in mine THEN Nobody ELSE fileLock
      /\ torn' = (torn \/ (served > 0 /\ \E g \in mine : stage[g] = "write"))
      /\ UNCHANGED <<file, served, contents>>
  BY Zenon DEF HostCrash
<1>3. ReadType'
  <2>1. /\ stage' \in [Readers -> Stages] /\ host' \in [Readers -> Hosts \cup {Nobody}]
        /\ seq' \in [Readers -> Nat] /\ content' \in [Readers -> {"none", "true", "forged"}]
    <3>1. "idle" \in Stages
      BY DEF Stages
    <3> HIDE DEF mine
    <3> QED
      BY <1>0, <1>1, <3>1, Zenon DEF ReadType
  <2>2. highWater' \in [Hosts -> Nat] /\ servedBy' \in [Hosts -> Nat]
    BY <1>0, <1>2 DEF ReadType
  <2>3. torn' \in BOOLEAN
    BY <1>2, Zenon
  <2>4. \A q \in Readers : stage'[q] # "idle" => host'[q] \in Hosts
    BY <1>0, <1>1, Zenon DEF ReadType
  <2> QED
    BY <1>0, <1>2, <2>1, <2>2, <2>3, <2>4, Zenon DEF ReadType
<1>4. ASSUME NEW q \in Readers, stage'[q] # "idle"
      PROVE  /\ q \notin mine /\ host[q] # h
             /\ stage'[q] = stage[q] /\ host'[q] = host[q] /\ seq'[q] = seq[q] /\ content'[q] = content[q]
  BY <1>1, <1>4, Zenon
<1>5. \A k \in Hosts : /\ k # h => highWater'[k] = highWater[k] /\ servedBy'[k] = servedBy[k]
                       /\ highWater'[h] = 0 /\ servedBy'[h] = 0
  BY <1>0, <1>2, Zenon DEF ReadType
<1>6. ReadsAreTrue' /\ ServedIsTrue'
  BY <1>2, <1>4 DEF FenceInv, ReadsAreTrue, ServedIsTrue
<1>7. MarkIsServed'
  BY <1>5, Zenon DEF FenceInv, MarkIsServed
<1>8. LockHolder'
  <2> SUFFICES ASSUME NEW q \in Readers, stage'[q] = "write"
               PROVE  fileLock' = q /\ file' = 0 /\ seq'[q] >= highWater'[host'[q]]
    BY Zenon DEF LockHolder
  <2>1. stage[q] = "write" /\ q \notin mine /\ host[q] # h /\ host'[q] = host[q] /\ seq'[q] = seq[q]
    BY <1>4, Zenon
  <2>2. fileLock = q /\ file = 0 /\ seq[q] >= highWater[host[q]] /\ host[q] \in Hosts
    BY <2>1 DEF FenceInv, LockHolder, ReadType
  <2>3. highWater'[host[q]] = highWater[host[q]]
    BY <1>5, <2>1, <2>2, Zenon
  <2>4. fileLock' = q /\ file' = 0
    BY <1>2, <2>1, <2>2
  <2> QED
    BY <2>1, <2>2, <2>3, <2>4
<1>9. LockHeld'
  BY <1>1, <1>2, Zenon DEF FenceInv, LockHeld
<1>10. FileFences'
  <2>1. torn' = FALSE => torn = FALSE /\ ~(served > 0 /\ \E g \in mine : stage[g] = "write")
    BY <1>0, <1>2, Zenon DEF ReadType
  <2>2. ASSUME torn' = FALSE, fileLock' = Nobody
        PROVE  file' >= served'
    <3>1. CASE fileLock = Nobody
      BY <1>2, <2>1, <2>2, <3>1, Zenon DEF FenceInv, FileFences
    <3>2. CASE fileLock # Nobody
      <4>1. \E g \in mine : stage[g] = "write"
        BY <1>2, <2>2, <3>2, Zenon DEF FenceInv, LockHeld
      <4>2. ~(served > 0)
        BY <2>1, <2>2, <4>1, Zenon
      <4> QED
        BY <1>0, <1>2, <4>2 DEF ReadType
    <3> QED
      BY <3>1, <3>2, Zenon
  <2>3. ASSUME torn' = FALSE, NEW q \in Readers, stage'[q] = "write"
        PROVE  seq'[q] >= served'
    <3>1. stage[q] = "write" /\ seq'[q] = seq[q]
      BY <1>4, <2>3, Zenon
    <3> QED
      BY <1>2, <2>1, <2>3, <3>1, Zenon DEF FenceInv, FileFences
  <2> QED
    BY <2>2, <2>3, Zenon DEF FileFences
<1>11. Fenced
  BY <1>0, <1>2, <1>5 DEF Fenced, ReadType
<1> QED
  BY <1>3, <1>6, <1>7, <1>8, <1>9, <1>10, <1>11, Zenon DEF FenceInv

\* Every step keeps the invariant, and the fence never falls.
LEMMA FenceStep == FenceInv /\ [ReadNext]_readVars => FenceInv' /\ Fenced
<1> SUFFICES ASSUME FenceInv, [ReadNext]_readVars
             PROVE  FenceInv' /\ Fenced
  OBVIOUS
<1>1. ASSUME (\E n \in Nodes : LearnBlock(n)) \/ UNCHANGED readVars
      PROVE  FenceInv' /\ Fenced
  <2>1. /\ UNCHANGED <<stage, host, seq, content, highWater, file, fileLock>>
        /\ UNCHANGED <<served, servedBy, contents, torn>>
    BY <1>1, Zenon DEF LearnBlock, readVars, reader, marks, ghosts
  <2>2. FenceInv'
    BY <2>1, Zenon DEF FenceInv, ReadType, ReadsAreTrue, ServedIsTrue, LockHolder, MarkIsServed,
                       FileFences, LockHeld
  <2> QED
    BY <2>1, <2>2, SameFence
<1> QED
  BY <1>1, BeginReadStep, ConsensusStep, AccountStep, QuitStep, CommitSameStep, TruncateStep,
     WriteStringStep, WriteFailsStep, CrashStep, Zenon DEF ReadNext

\* The invariant holds in every behaviour.
LEMMA FenceInvariant == ReadSpec => []FenceInv
<1>1. ReadInit => FenceInv
  <2> SUFFICES ASSUME ReadInit
               PROVE  FenceInv
    OBVIOUS
  <2>1. ReadType
    BY Zenon DEF ReadInit, ReadType, Stages
  <2>2. \A g \in Readers : stage[g] = "idle"
    BY DEF ReadInit
  <2> QED
    BY <2>1, <2>2 DEF ReadInit, FenceInv, ReadsAreTrue, ServedIsTrue, LockHolder, MarkIsServed,
                      FileFences, LockHeld
<1> QED
  BY <1>1, FenceStep, PTL DEF ReadSpec

\* A process serves only state an honest endpoint vouches for, with any number
\* of endpoints and any quorum above the faulty ones (quorumRead).
THEOREM ServedTrue == ReadSpec => []ServedIsTrue
BY FenceInvariant, PTL DEF FenceInv

\* The checkpoint file and the marks are the fence checkpoint_store.go claims
\* they are: no interleaving of goroutines, processes and crashes takes what is
\* served back, except after a write of the file that was cut off.
THEOREM FenceHolds == ReadSpec => FenceMonotone
<1>1. FenceInv /\ [ReadNext]_readVars =>
        [/\ served' >= served \/ torn
         /\ \A h \in Hosts : servedBy'[h] >= servedBy[h] \/ servedBy'[h] = 0]_readVars
  BY FenceStep, Zenon DEF Fenced
<1> QED
  BY <1>1, FenceInvariant, PTL DEF ReadSpec, FenceMonotone

-----------------------------------------------------------------------------
(* Funding. *)

Phases == {"absent", "prepared", "broadcasting", "complete"}
Record == [phase : Phases, claimed : Nat]
Labels == {"idle", "begin", "request", "resolve", "prepare", "acquire",
           "broadcast", "complete", "settle", "wait"}
Jobs == [key : Keys \cup {None}, purchase : Purchases \cup {None}]

\* The locals of the buyer processes; one inside FundPurchase has a purchase.
LocalOK ==
  /\ pc \in [Buyers -> Labels]
  /\ job \in [Buyers -> Jobs]
  /\ now \in [Buyers -> Nat]
  /\ \A b \in Buyers : pc[b] # "idle" => Mine(b) \in Purchases

TypeOK ==
  /\ LocalOK
  /\ record \in [Purchases -> Record]
  /\ clock \in Nat
  /\ escrow \in [Purchases -> {"awaiting", "funded", "closed"}]
  /\ sent \in [Purchases -> Nat]
  /\ returned \subseteq Purchases

\* Nobody enters the sender.
NoLease == \A q \in Buyers : pc'[q] = "broadcast" => pc[q] = "broadcast" /\ job'[q] = job[q]

-----------------------------------------------------------------------------
(* Types.                                                                  *)

\* A call that returns holds no lease and changes no other call.
LEMMA ReturnLocal ==
  ASSUME LocalOK, NEW b \in Buyers, Return(b)
  PROVE  LocalOK' /\ NoLease /\ pc'[b] # "broadcast"
<1>1. /\ pc' = [pc EXCEPT ![b] = "idle"] /\ job' = [job EXCEPT ![b] = NoJob]
      /\ now' = [now EXCEPT ![b] = 0]
  BY Zenon DEF Return, Goto
<1>2. NoJob \in Jobs /\ "idle" \in Labels
  BY DEF NoJob, Jobs, Labels
<1>3. pc' \in [Buyers -> Labels] /\ job' \in [Buyers -> Jobs] /\ now' \in [Buyers -> Nat]
  BY <1>1, <1>2 DEF LocalOK
<1>4. pc'[b] = "idle" /\ \A q \in Buyers : q # b => pc'[q] = pc[q] /\ job'[q] = job[q]
  BY <1>1, Zenon DEF LocalOK
<1> QED
  BY <1>3, <1>4 DEF LocalOK, Mine, NoLease

\* A call that moves on keeps the types, and takes a lease only by moving to broadcast.
LEMMA GotoLocal ==
  ASSUME LocalOK, NEW b \in Buyers, pc[b] # "idle", NEW l \in Labels,
         Goto(b, l), UNCHANGED <<job, now>>
  PROVE  LocalOK' /\ pc'[b] = l /\ (l # "broadcast" => NoLease)
<1>1. pc' = [pc EXCEPT ![b] = l] /\ job' = job /\ now' = now
  BY Zenon DEF Goto
<1>2. pc' \in [Buyers -> Labels] /\ pc'[b] = l /\ \A q \in Buyers : q # b => pc'[q] = pc[q]
  BY <1>1 DEF LocalOK
<1> QED
  BY <1>1, <1>2, Zenon DEF LocalOK, Mine, NoLease

\* Moving a record to another phase leaves the rest of it and the others alone.
LEMMA PhaseUpdate ==
  ASSUME record \in [Purchases -> Record], NEW p \in Purchases, NEW f \in Phases,
         NEW new, new = [record EXCEPT ![p].phase = f]
  PROVE  /\ new \in [Purchases -> Record]
         /\ new[p].phase = f /\ new[p].claimed = record[p].claimed
         /\ \A q \in Purchases : q # p => new[q] = record[q]
<1>1. record[p] \in Record
  OBVIOUS
<1>2. new = [record EXCEPT ![p] = [record[p] EXCEPT !.phase = f]]
  OBVIOUS
<1>3. [record[p] EXCEPT !.phase = f] \in Record
  BY <1>1 DEF Record
<1> QED
  BY <1>1, <1>2, <1>3, Zenon DEF Record

-----------------------------------------------------------------------------
(* What the steps do to the journal and to the sender.                     *)

\* begin writes a purchase file.
Claims(b) ==
  /\ record[Mine(b)].phase = "absent"
  /\ Enforce(b)
  /\ record' = [record EXCEPT ![Mine(b)] = [phase |-> "prepared", claimed |-> now[b]]]

\* acquire takes the lease.
Leases(b) ==
  /\ record[Mine(b)].phase = "prepared"
  /\ record' = [record EXCEPT ![Mine(b)].phase = "broadcasting"]

\* complete records the outcome.
Completes(b) ==
  /\ record[Mine(b)].phase \in {"broadcasting", "complete"}
  /\ record' = [record EXCEPT ![Mine(b)].phase = "complete"]

Quiet(b) == NoLease /\ sent' = sent /\ Mine(b) \in Purchases
            /\ (record' = record \/ Claims(b) \/ Completes(b))

Leasing(b) == /\ Mine(b) \in Purchases /\ Leases(b) /\ sent' = sent
              /\ pc' = [pc EXCEPT ![b] = "broadcast"] /\ job' = job

Paying(b) == /\ Mine(b) \in Purchases /\ pc[b] = "broadcast" /\ pc'[b] # "broadcast"
             /\ NoLease /\ record' = record
             /\ sent' = [sent EXCEPT ![Mine(b)] = @ + 1]

\* BeginRecord neither leases nor sends.
LEMMA BeginRecordStep ==
  ASSUME TypeOK, NEW b \in Buyers, BeginRecord(b)
  PROVE  TypeOK' /\ Quiet(b)
<1>1. /\ pc[b] = "begin" /\ UNCHANGED <<clock, escrow, sent, returned>>
      /\ \/ Return(b) /\ record' = record
         \/ /\ Goto(b, "request") /\ UNCHANGED <<job, now>>
            /\ record' = record \/ Claims(b)
  BY Zenon DEF BeginRecord, BeginRefuses, Claims, ledger
<1>2. Mine(b) \in Purchases /\ LocalOK /\ "request" \in Labels
  BY <1>1 DEF TypeOK, LocalOK, Labels
<1>3. LocalOK' /\ NoLease
  BY <1>1, <1>2, ReturnLocal, GotoLocal, Zenon
<1>4. record' \in [Purchases -> Record]
  <2>1. [phase |-> "prepared", claimed |-> now[b]] \in Record
    BY <1>2 DEF LocalOK, Record, Phases
  <2> QED
    BY <1>1, <1>2, <2>1, Zenon DEF TypeOK, Claims
<1> QED
  BY <1>1, <1>2, <1>3, <1>4, Zenon DEF TypeOK, Quiet

\* The steps that write no purchase file and do not enter the sender.
LEMMA ReadingStep ==
  ASSUME TypeOK, NEW b \in Buyers,
         \/ BeginRequest(b) \/ Resolve(b) \/ Prepare(b) \/ PrepareFails(b)
         \/ WaitFunded(b) \/ Crash(b)
  PROVE  TypeOK' /\ Quiet(b)
<1>1. pc[b] # "idle" /\ Mine(b) \in Purchases /\ LocalOK
  BY DEF TypeOK, LocalOK, BeginRequest, Resolve, Prepare, PrepareFails, WaitFunded, Crash
<1>2. UNCHANGED <<record, clock, escrow, sent>> /\ returned' \in {returned, returned \cup {Mine(b)}}
  BY Zenon DEF BeginRequest, Resolve, Prepare, PrepareFails, WaitFunded, Crash, Success, journal, ledger
<1>3. Return(b) \/ (\E l \in Labels \ {"broadcast"} : Goto(b, l) /\ UNCHANGED <<job, now>>)
  <2>1. {"prepare", "resolve", "settle", "acquire"} \subseteq Labels \ {"broadcast"}
    BY DEF Labels
  <2> QED
    BY <2>1 DEF BeginRequest, Resolve, Prepare, PrepareFails, WaitFunded, Crash
<1>4. LocalOK' /\ NoLease
  BY <1>1, <1>3, ReturnLocal, GotoLocal, Zenon
<1> QED
  BY <1>1, <1>2, <1>4, Zenon DEF TypeOK, Quiet

\* Acquire leases a prepared record or takes no part in paying.
LEMMA AcquireStep ==
  ASSUME TypeOK, NEW b \in Buyers, Acquire(b)
  PROVE  TypeOK' /\ (Quiet(b) \/ Leasing(b))
<1>1. /\ pc[b] = "acquire" /\ UNCHANGED <<clock, escrow, sent, returned>>
      /\ \/ Return(b) /\ record' = record
         \/ Goto(b, "broadcast") /\ UNCHANGED <<job, now>> /\ Leases(b)
  BY Zenon DEF Acquire, SetPhase, Leases, ledger
<1>2. Mine(b) \in Purchases /\ LocalOK /\ "broadcast" \in Labels /\ "broadcasting" \in Phases
  BY <1>1, Zenon DEF TypeOK, LocalOK, Labels, Phases
<1>3. LocalOK'
  BY <1>1, <1>2, ReturnLocal, GotoLocal
<1>4. record' \in [Purchases -> Record]
  <2>1. record \in [Purchases -> Record]
    BY DEF TypeOK
  <2> QED
    BY <1>1, <1>2, <2>1, PhaseUpdate, Zenon DEF Leases
<1>5. Quiet(b) \/ Leasing(b)
  BY <1>1, <1>2, ReturnLocal, Zenon DEF Quiet, Leasing, Goto
<1> QED
  BY <1>1, <1>3, <1>4, <1>5, Zenon DEF TypeOK

\* What the sender does keeps the types, and it broadcasts only under a lease.
LEMMA SenderStep ==
  ASSUME TypeOK, NEW b \in Buyers, Broadcast(b) \/ BroadcastFails(b)
  PROVE  TypeOK' /\ Paying(b)
<1>1. /\ pc[b] = "broadcast" /\ UNCHANGED <<record, clock, escrow, returned>>
      /\ sent' = [sent EXCEPT ![Mine(b)] = @ + 1]
      /\ Return(b) \/ (Goto(b, "complete") /\ UNCHANGED <<job, now>>)
  BY DEF Broadcast, BroadcastFails, journal
<1>2. Mine(b) \in Purchases /\ LocalOK /\ "complete" \in Labels
  BY <1>1, Zenon DEF TypeOK, LocalOK, Labels
<1>3. LocalOK' /\ NoLease /\ pc'[b] # "broadcast"
  BY <1>1, <1>2, ReturnLocal, GotoLocal, Zenon
<1>4. sent' \in [Purchases -> Nat]
  BY <1>1, <1>2 DEF TypeOK
<1> QED
  BY <1>1, <1>2, <1>3, <1>4, Zenon DEF TypeOK, Paying

\* Complete neither leases nor sends.
LEMMA CompleteStep ==
  ASSUME TypeOK, NEW b \in Buyers, Complete(b)
  PROVE  TypeOK' /\ Quiet(b)
<1>1. /\ pc[b] # "idle" /\ UNCHANGED <<clock, escrow, sent, returned>>
      /\ record' = record \/ Completes(b)
      /\ Return(b) \/ (Goto(b, "wait") /\ UNCHANGED <<job, now>>)
  BY DEF Complete, Completes, ledger
<1>2. Mine(b) \in Purchases /\ LocalOK /\ "wait" \in Labels /\ "complete" \in Phases
  BY <1>1, Zenon DEF TypeOK, LocalOK, Labels, Phases
<1>3. LocalOK' /\ NoLease
  BY <1>1, <1>2, ReturnLocal, GotoLocal, Zenon
<1>4. record' \in [Purchases -> Record]
  BY <1>1, <1>2, PhaseUpdate, Zenon DEF TypeOK, Completes
<1> QED
  BY <1>1, <1>2, <1>3, <1>4, Zenon DEF TypeOK, Quiet
\* The steps that have nothing to do with the journal.
Idle == NoLease /\ sent' = sent /\ record' = record

\* FundPurchase only begins a call or answers from the record.
LEMMA FundPurchaseStep ==
  ASSUME TypeOK, NEW b \in Buyers, NEW k \in Keys, NEW p \in Purchases, FundPurchase(b, k, p)
  PROVE  TypeOK' /\ Idle
<1>1. /\ UNCHANGED <<record, clock, escrow, sent>>
      /\ \/ returned' = returned \cup {p} /\ UNCHANGED <<pc, job, now>>
         \/ /\ job' = [job EXCEPT ![b] = [key |-> k, purchase |-> p]]
            /\ now' = [now EXCEPT ![b] = clock]
            /\ pc' = [pc EXCEPT ![b] = "begin"]
            /\ returned' = returned
  BY Zenon DEF FundPurchase, Goto, journal, local, ledger
<1>2. CASE returned' = returned \cup {p} /\ UNCHANGED <<pc, job, now>>
  <2>1. LocalOK' /\ NoLease
    BY <1>2, Zenon DEF TypeOK, LocalOK, Mine, NoLease
  <2> QED
    BY <1>1, <1>2, <2>1 DEF TypeOK, Idle
<1>3. CASE /\ job' = [job EXCEPT ![b] = [key |-> k, purchase |-> p]]
           /\ now' = [now EXCEPT ![b] = clock]
           /\ pc' = [pc EXCEPT ![b] = "begin"]
           /\ returned' = returned
  <2>1. [key |-> k, purchase |-> p] \in Jobs /\ "begin" \in Labels
    BY Zenon DEF Jobs, Labels
  <2>2. job' \in [Buyers -> Jobs] /\ pc' \in [Buyers -> Labels] /\ now' \in [Buyers -> Nat]
    BY <1>3, <2>1 DEF TypeOK, LocalOK
  <2>3. /\ job'[b] = [key |-> k, purchase |-> p] /\ pc'[b] = "begin"
        /\ \A q \in Buyers : q # b => pc'[q] = pc[q] /\ job'[q] = job[q]
    BY <1>3, Zenon DEF TypeOK, LocalOK
  <2>4. job'[b].purchase = p
    BY <2>3
  <2>5. LocalOK' /\ NoLease
    BY <2>2, <2>3, <2>4 DEF TypeOK, LocalOK, Mine, NoLease
  <2> QED
    BY <1>1, <1>3, <2>5, Zenon DEF TypeOK, Idle
<1> QED
  BY <1>1, <1>2, <1>3, Zenon

\* The chain and the clock leave the records alone.
LEMMA ChainStep ==
  ASSUME TypeOK,
         (\E p \in Purchases : Arrive(p) \/ Drop(p) \/ Close(p)) \/ Tick \/ UNCHANGED vars
  PROVE  TypeOK' /\ Idle
<1>1. UNCHANGED <<pc, job, now, record, sent, returned>>
  BY Zenon DEF Arrive, Drop, Close, Tick, vars, journal, local
<1>2. LocalOK' /\ NoLease
  BY <1>1, Zenon DEF TypeOK, LocalOK, Mine, NoLease
<1>3. clock' \in Nat
  BY DEF TypeOK, Arrive, Drop, Close, Tick, vars
<1>4. escrow' \in [Purchases -> {"awaiting", "funded", "closed"}]
  BY DEF TypeOK, Arrive, Drop, Close, Tick, vars, ledger
<1> QED
  BY <1>1, <1>2, <1>3, <1>4, Zenon DEF TypeOK, Idle

\* All of them together.
LEMMA Steps ==
  ASSUME TypeOK, [Next]_vars
  PROVE  TypeOK' /\ (Idle \/ \E b \in Buyers : Quiet(b) \/ Leasing(b) \/ Paying(b))
BY BeginRecordStep, ReadingStep, AcquireStep, SenderStep, CompleteStep, FundPurchaseStep,
   ChainStep, Zenon DEF Next, Step

\* The initial state is typed.
LEMMA TypeInit == Init => TypeOK
<1> SUFFICES ASSUME Init
             PROVE  TypeOK
  OBVIOUS
<1>1. NoJob \in Jobs /\ "idle" \in Labels /\ NoRecord \in Record
  BY DEF NoJob, Jobs, Labels, NoRecord, Record, Phases
<1> QED
  BY <1>1 DEF Init, TypeOK, LocalOK

-----------------------------------------------------------------------------
(* One payment for each purchase.                                          *)

\* The process about to call the sender holds a lease that is on disk and was
\* not used yet.
LeaseHeld == \A b \in Buyers : pc[b] = "broadcast" =>
               /\ record[Mine(b)].phase \in {"broadcasting", "complete"}
               /\ sent[Mine(b)] = 0

\* A purchase has one lease holder.
LeaseUnique == \A b, q \in Buyers :
                 pc[b] = "broadcast" /\ pc[q] = "broadcast" /\ Mine(b) = Mine(q) => b = q

\* Nothing was sent before the lease is on disk.
PreparedIsUnsent ==
  \A p \in Purchases : record[p].phase \in {"absent", "prepared"} => sent[p] = 0

\* The inductive invariant: the lease facts exclude a second caller of the
\* sender, and PreparedIsUnsent a lease that is granted after a call.
PayInv == TypeOK /\ LeaseHeld /\ LeaseUnique /\ PreparedIsUnsent

\* The locals of a lease holder do not change while it holds the lease.
LEMMA HolderStays ==
  ASSUME TypeOK, NoLease, NEW q \in Buyers, pc'[q] = "broadcast"
  PROVE  pc[q] = "broadcast" /\ Mine(q)' = Mine(q) /\ Mine(q) \in Purchases
BY Zenon DEF NoLease, Mine, TypeOK, LocalOK

\* What begin and complete do to one record.
LEMMA QuietEffects ==
  ASSUME TypeOK, NEW b \in Buyers, Quiet(b), NEW p \in Purchases
  PROVE  \/ record'[p] = record[p]
         \/ record[p].phase = "absent" /\ record'[p].phase = "prepared"
         \/ /\ record[p].phase \in {"broadcasting", "complete"} /\ record'[p].phase = "complete"
            /\ record'[p].claimed = record[p].claimed
<1>1. Mine(b) \in Purchases /\ record \in [Purchases -> Record] /\ "complete" \in Phases
  BY DEF Quiet, TypeOK, Phases
<1>2. CASE record' = record
  BY <1>2, Zenon
<1>3. CASE Claims(b)
  <2>1. /\ record'[Mine(b)] = [phase |-> "prepared", claimed |-> now[b]]
        /\ record[Mine(b)].phase = "absent"
        /\ p # Mine(b) => record'[p] = record[p]
    BY <1>1, <1>3 DEF Claims
  <2> QED
    BY <2>1
<1>4. CASE Completes(b)
  <2>1. /\ record'[Mine(b)].phase = "complete"
        /\ record'[Mine(b)].claimed = record[Mine(b)].claimed
        /\ \A q \in Purchases : q # Mine(b) => record'[q] = record[q]
    BY <1>1, <1>4, PhaseUpdate DEF Completes
  <2> QED
    BY <1>4, <2>1 DEF Completes
<1> QED
  BY <1>2, <1>3, <1>4, Zenon DEF Quiet
\* Steps that take no lease and use none.
LEMMA QuietStep ==
  ASSUME PayInv, Idle \/ \E b \in Buyers : Quiet(b)
  PROVE  LeaseHeld' /\ LeaseUnique' /\ PreparedIsUnsent'
<1>0. TypeOK /\ NoLease /\ sent' = sent
  BY DEF PayInv, Idle, Quiet
<1>1. ASSUME NEW p \in Purchases
      PROVE  /\ record[p].phase \in {"broadcasting", "complete"} =>
                   record'[p].phase \in {"broadcasting", "complete"}
             /\ record'[p].phase \in {"absent", "prepared"} =>
                   record[p].phase \in {"absent", "prepared"}
  <2>1. CASE record'[p] = record[p]
    BY <2>1
  <2>2. ASSUME NEW b \in Buyers, Quiet(b)
        PROVE  \/ record'[p] = record[p]
               \/ record[p].phase = "absent" /\ record'[p].phase = "prepared"
               \/ record[p].phase \in {"broadcasting", "complete"} /\ record'[p].phase = "complete"
    BY <1>0, <2>2, QuietEffects, Zenon
  <2> QED
    BY <2>1, <2>2, Zenon DEF Idle
<1>2. LeaseHeld'
  BY <1>0, <1>1, HolderStays DEF PayInv, LeaseHeld
<1>3. LeaseUnique'
  BY <1>0, HolderStays, Zenon DEF PayInv, LeaseUnique
<1>4. PreparedIsUnsent'
  BY <1>0, <1>1 DEF PayInv, PreparedIsUnsent
<1> QED
  BY <1>2, <1>3, <1>4, Zenon

\* acquire grants the lease on a prepared record, which nobody holds and nobody
\* has paid for.
LEMMA LeaseStep ==
  ASSUME PayInv, NEW b \in Buyers, Leasing(b)
  PROVE  LeaseHeld' /\ LeaseUnique' /\ PreparedIsUnsent'
<1>0. PICK m : m = Mine(b)
  OBVIOUS
<1>1. /\ m \in Purchases /\ record[m].phase = "prepared" /\ sent[m] = 0 /\ sent' = sent
      /\ record'[m].phase = "broadcasting"
      /\ \A p \in Purchases : p # m => record'[p] = record[p]
  <2>1. record \in [Purchases -> Record] /\ "broadcasting" \in Phases
    BY DEF PayInv, TypeOK, Phases
  <2> QED
    BY <1>0, <2>1, PhaseUpdate DEF Leasing, Leases, PayInv, PreparedIsUnsent
<1>2. /\ \A q \in Buyers : q # b => pc'[q] = pc[q]
      /\ \A q \in Buyers : Mine(q)' = Mine(q)
  BY Zenon DEF Leasing, Mine, PayInv, TypeOK, LocalOK
<1>3. ASSUME NEW q \in Buyers, q # b, pc'[q] = "broadcast"
      PROVE  pc[q] = "broadcast" /\ Mine(q) \in Purchases /\ Mine(q) # m
  BY <1>1, <1>2, <1>3, Zenon DEF PayInv, LeaseHeld, TypeOK, LocalOK
<1>4. LeaseHeld'
  <2> SUFFICES ASSUME NEW q \in Buyers, pc'[q] = "broadcast"
               PROVE  record'[Mine(q)].phase \in {"broadcasting", "complete"} /\ sent[Mine(q)] = 0
    BY <1>1, <1>2, Zenon DEF LeaseHeld
  <2>1. CASE q = b
    BY <1>0, <1>1, <2>1, Zenon
  <2>2. CASE q # b
    BY <1>1, <1>3, <2>2 DEF PayInv, LeaseHeld
  <2> QED
    BY <2>1, <2>2, Zenon
<1>5. LeaseUnique'
  BY <1>0, <1>2, <1>3, Zenon DEF PayInv, LeaseUnique
<1>6. PreparedIsUnsent'
  BY <1>1, Zenon DEF PayInv, PreparedIsUnsent
<1> QED
  BY <1>4, <1>5, <1>6

\* The sender is called by the one lease holder, which then gives up the lease.
LEMMA PayStep ==
  ASSUME PayInv, NEW b \in Buyers, Paying(b)
  PROVE  LeaseHeld' /\ LeaseUnique' /\ PreparedIsUnsent'
<1>0. PICK m : m = Mine(b)
  OBVIOUS
<1>1. /\ m \in Purchases /\ record' = record /\ NoLease /\ TypeOK
      /\ record[m].phase \in {"broadcasting", "complete"}
      /\ \A p \in Purchases : p # m => sent'[p] = sent[p]
  BY <1>0 DEF Paying, PayInv, LeaseHeld, TypeOK
<1>2. ASSUME NEW q \in Buyers, pc'[q] = "broadcast"
      PROVE  pc[q] = "broadcast" /\ Mine(q)' = Mine(q) /\ Mine(q) \in Purchases /\ Mine(q) # m
  <2>1. pc[q] = "broadcast" /\ Mine(q)' = Mine(q) /\ Mine(q) \in Purchases
    BY <1>1, <1>2, HolderStays, Zenon
  <2>2. q # b
    BY <1>2, Zenon DEF Paying
  <2> QED
    BY <1>0, <2>1, <2>2, Zenon DEF Paying, PayInv, LeaseUnique
<1>3. LeaseHeld'
  BY <1>1, <1>2, Zenon DEF PayInv, LeaseHeld
<1>4. LeaseUnique'
  BY <1>2, Zenon DEF PayInv, LeaseUnique
<1>5. PreparedIsUnsent'
  BY <1>1 DEF PayInv, PreparedIsUnsent
<1> QED
  BY <1>3, <1>4, <1>5

\* Every step keeps the invariant.
LEMMA InvStep == PayInv /\ [Next]_vars => PayInv'
BY Steps, QuietStep, LeaseStep, PayStep, Zenon DEF PayInv

\* The invariant holds in every behaviour.
LEMMA PayInvariant == Spec => []PayInv
<1>1. Init => PayInv
  BY TypeInit DEF Init, PayInv, LeaseHeld, LeaseUnique, PreparedIsUnsent
<1> QED
  BY <1>1, InvStep, PTL DEF Spec
-----------------------------------------------------------------------------
(* The refinement of PayOnce.                                              *)

\* The initial states map to initial states of the abstract payment.
LEMMA RefinesInit == Init => Abstract!Init
<1> SUFFICES ASSUME Init
             PROVE  Abstract!Init
  OBVIOUS
<1>1. \A p \in Purchases : record[p].phase = "absent"
  BY Zenon DEF Init, NoRecord
<1>2. [p \in Purchases |-> IF record[p].phase = "absent" THEN None ELSE p] = [p \in Purchases |-> None]
  BY <1>1
<1>3. [p \in Purchases |-> record[p].phase = "complete"] = [p \in Purchases |-> FALSE]
  BY <1>1, Zenon
<1> QED
  BY <1>2, <1>3, Zenon DEF Init, Abstract!Init

\* A purchase file is PayOnce's Claim, a call of the sender its Pay, a completed
\* record its Settle; taking the lease and everything else is a stutter.
LEMMA RefinesStep == PayInv /\ [Next]_vars => [Abstract!Next]_(Abstract!vars)
<1> SUFFICES ASSUME PayInv, [Next]_vars
             PROVE  Abstract!Next \/ UNCHANGED Abstract!vars
  OBVIOUS
<1>0. TypeOK /\ record \in [Purchases -> Record]
  BY DEF PayInv, TypeOK
<1>1. CASE record' = record /\ sent' = sent
  BY <1>1, Zenon DEF Abstract!vars
<1>2. ASSUME NEW b \in Buyers, Paying(b)
      PROVE  Abstract!Next
  <2>1. /\ Mine(b) \in Purchases /\ sent[Mine(b)] = 0 /\ record[Mine(b)].phase # "absent"
        /\ record' = record /\ sent' = [sent EXCEPT ![Mine(b)] = @ + 1]
    BY <1>2 DEF Paying, PayInv, LeaseHeld
  <2>2. Mine(b) # None
    BY <2>1, BuyerAssumption, Zenon
  <2>3. Abstract!Pay(Mine(b))
    BY <2>1, <2>2 DEF Abstract!Pay
  <2> QED
    BY <2>1, <2>3, Zenon DEF Abstract!Next
<1>3. ASSUME sent' = sent, NEW b \in Buyers, Mine(b) \in Purchases, Claims(b)
      PROVE  Abstract!Next
  <2>1. /\ record[Mine(b)].phase = "absent"
        /\ record'[Mine(b)] = [phase |-> "prepared", claimed |-> now[b]]
        /\ \A p \in Purchases : p # Mine(b) => record'[p] = record[p]
    BY <1>0, <1>3, Zenon DEF Claims
  <2>2. record'[Mine(b)].phase = "prepared"
    BY <2>1
  <2>3. Abstract!Claim(Mine(b), Mine(b))
    BY <1>3, <2>1, <2>2, Zenon DEF Abstract!Claim
  <2> QED
    BY <1>3, <2>3, Zenon DEF Abstract!Next, Abstract!Claim
<1>4. ASSUME NEW b \in Buyers, Leasing(b)
      PROVE  UNCHANGED Abstract!vars
  <2>1. /\ record[Mine(b)].phase = "prepared" /\ record'[Mine(b)].phase = "broadcasting"
        /\ \A p \in Purchases : p # Mine(b) => record'[p] = record[p]
        /\ sent' = sent
    BY <1>0, <1>4, PhaseUpdate DEF Leasing, Leases, Phases
  <2> QED
    BY <2>1 DEF Abstract!vars
<1>5. ASSUME sent' = sent, NEW b \in Buyers, Mine(b) \in Purchases, Completes(b)
      PROVE  Abstract!Next
  <2>1. /\ record[Mine(b)].phase # "absent" /\ record'[Mine(b)].phase = "complete"
        /\ \A p \in Purchases : p # Mine(b) => record'[p] = record[p]
    BY <1>0, <1>5, PhaseUpdate DEF Completes, Phases
  <2>2. Mine(b) # None
    BY <1>5, BuyerAssumption, Zenon
  <2>3. Abstract!Settle(Mine(b))
    BY <1>5, <2>1, <2>2, Zenon DEF Abstract!Settle
  <2> QED
    BY <1>5, <2>3, Zenon DEF Abstract!Next, Abstract!Settle
<1> QED
  BY <1>0, <1>1, <1>2, <1>3, <1>4, <1>5, Steps, Zenon DEF Idle, Quiet

\* The buyers and their journal implement PayOnce, for any number of processes
\* and wherever they crash: a purchase is claimed once, FundPurchase calls the
\* sender for it at most once, and a completed record stays so.
THEOREM RefinesPayOnce == Spec => ImplementsPayOnce
BY RefinesInit, RefinesStep, PayInvariant, PTL DEF Spec, ImplementsPayOnce, Abstract!Spec

-----------------------------------------------------------------------------
(* Success.                                                                *)

\* A call reports success only of an escrow it read as funded, and an escrow
\* that was funded is never waiting for funds again.
LEMMA ReturnedSteps ==
  ASSUME TypeOK, [Next]_vars
  PROVE  /\ \A p \in returned' : p \in returned \/ escrow[p] = "funded"
         /\ \A p \in Purchases : escrow[p] \in {"funded", "closed"} =>
                                 escrow'[p] \in {"funded", "closed"}
<1>1. ASSUME NEW b \in Buyers, Step(b) \/ Crash(b)
      PROVE  escrow' = escrow /\ \A p \in returned' : p \in returned \/ escrow[p] = "funded"
  <2>1. escrow' = escrow
    BY <1>1, Zenon DEF Step, BeginRecord, BeginRequest, Resolve, Prepare, PrepareFails, Acquire,
              Broadcast, BroadcastFails, Complete, WaitFunded, Crash, ledger
  <2>2. returned' = returned \/ (escrow[Mine(b)] = "funded" /\ returned' = returned \cup {Mine(b)})
    BY <1>1, Zenon DEF Step, BeginRecord, BeginRequest, Resolve, Prepare, PrepareFails, Acquire,
              Broadcast, BroadcastFails, Complete, WaitFunded, Crash, Success
  <2> QED
    BY <2>1, <2>2
<1>2. ASSUME NEW b \in Buyers, NEW k \in Keys, NEW p \in Purchases, FundPurchase(b, k, p)
      PROVE  escrow' = escrow /\ \A q \in returned' : q \in returned \/ escrow[q] = "funded"
  BY <1>2, Zenon DEF FundPurchase, ledger
<1>3. ASSUME (\E p \in Purchases : Arrive(p) \/ Drop(p) \/ Close(p)) \/ Tick \/ UNCHANGED vars
      PROVE  /\ returned' = returned
             /\ \A p \in Purchases : escrow[p] \in {"funded", "closed"} =>
                                     escrow'[p] \in {"funded", "closed"}
  <2>1. returned' = returned
    BY <1>3, Zenon DEF Arrive, Drop, Close, Tick, vars
  <2>2. \/ escrow' = escrow
        \/ \E p \in Purchases : escrow[p] = "awaiting" /\ escrow' = [escrow EXCEPT ![p] = "funded"]
        \/ \E p \in Purchases : escrow' = [escrow EXCEPT ![p] = "closed"]
    BY <1>3, Zenon DEF Arrive, Drop, Close, Tick, vars, ledger
  <2> QED
    BY <2>1, <2>2 DEF TypeOK
<1> QED
  BY <1>1, <1>2, <1>3, Zenon DEF Next

\* "Success is returned only after finalized escrow state contains the exact
\* funded amount": whatever the journal says and whoever else is at work.
THEOREM SuccessFunded == Spec => []SuccessIsFunded
<1>1. Init => SuccessIsFunded
  BY DEF Init, SuccessIsFunded
<1>2. PayInv /\ SuccessIsFunded /\ [Next]_vars => SuccessIsFunded'
  <2> SUFFICES ASSUME TypeOK, SuccessIsFunded, [Next]_vars, TypeOK', NEW p \in returned'
               PROVE  escrow'[p] \in {"funded", "closed"}
    BY Steps, Zenon DEF PayInv, SuccessIsFunded
  <2>1. p \in Purchases /\ escrow[p] \in {"funded", "closed"}
    BY ReturnedSteps, Zenon DEF TypeOK, SuccessIsFunded
  <2> QED
    BY <2>1, ReturnedSteps, Zenon
<1> QED
  BY <1>1, <1>2, PayInvariant, PTL DEF Spec
-----------------------------------------------------------------------------
(* The budget.                                                             *)

WithinLimits(S) == Cardinality(S) <= MaxPurchases /\ Total(S) <= MaxTotal

\* Counts and sums of a set of purchases, and what one purchase more adds.
LEMMA AddPurchase ==
  ASSUME NEW C \in SUBSET Purchases, NEW D \in SUBSET C, NEW m \in Purchases \ C
  PROVE  /\ Cardinality(D \cup {m}) <= Cardinality(C) + 1
         /\ Total(D \cup {m}) <= Total(C) + Amount[m]
         /\ Cardinality(C) \in Nat /\ Total(C) \in Nat
         /\ Cardinality(D \cup {m}) \in Nat /\ Total(D \cup {m}) \in Nat /\ Amount[m] \in Nat
<1>1. IsFiniteSet(Purchases) /\ IsFiniteSet(C) /\ IsFiniteSet(D)
  BY BuyerAssumption, FS_Subset, Zenon
<1>2. /\ Cardinality(D \cup {m}) = Cardinality(D) + 1 /\ Cardinality(D) <= Cardinality(C)
      /\ Cardinality(C) \in Nat /\ Cardinality(D) \in Nat
  BY <1>1, FS_AddElement, FS_Subset, FS_CardinalityType, Zenon
<1>3. Amount \in [Purchases -> Nat] /\ Amount \in [Purchases -> Int] /\ Amount[m] \in Nat
  BY BuyerAssumption
<1>4. Total(D \cup {m}) = Amount[m] + Total(D)
  BY <1>1, <1>3, SumAdd DEF Total
<1>5. Total(D) \in Nat /\ Total(D) <= Total(C) /\ Total(C) \in Nat
  BY <1>1, <1>3, SumMonotone, Zenon DEF Total
<1> QED
  BY <1>2, <1>3, <1>4, <1>5

\* A claim joins the windows of its asset that hold its time. What else they
\* hold was counted by enforce, since a window that reaches the claim begins no
\* more than Window before it.
LEMMA ClaimStep ==
  ASSUME PayInv, NEW b \in Buyers, Mine(b) \in Purchases, Claims(b),
         NEW t \in 0 .. MaxTime, NEW x, WithinLimits(InWindow(t, x))
  PROVE  WithinLimits(InWindow(t, x))'
<1>a. PICK m, W, P : m = Mine(b) /\ W = InWindow(t, x) /\ P = Counted(b)
  BY Zenon
<1>1. /\ m \in Purchases /\ now[b] \in Nat /\ record[m].phase = "absent"
      /\ record'[m] = [phase |-> "prepared", claimed |-> now[b]]
      /\ \A p \in Purchases : p # m => record'[p] = record[p]
  BY <1>a, Zenon DEF Claims, PayInv, TypeOK, LocalOK
<1>2. record'[m].phase # "absent" /\ record'[m].claimed = now[b]
  <2>1. PICK r, n : r = record'[m] /\ n = now[b]
    OBVIOUS
  <2>2. r = [phase |-> "prepared", claimed |-> n]
    BY <1>1, <2>1, Zenon
  <2>3. r.phase # "absent" /\ r.claimed = n
    BY <2>2
  <2> QED
    BY <2>1, <2>3, Zenon
<1>3. W \in SUBSET Purchases /\ m \notin W /\ P \in SUBSET Purchases /\ m \notin P
  BY <1>a, <1>1, Zenon DEF InWindow, Counted
<1>4. CASE ~(now[b] \in t .. (t + Window) /\ Asset[m] = x)
  <2>1. InWindow(t, x)' = W
    BY <1>a, <1>1, <1>2, <1>4, Zenon DEF InWindow
  <2> QED
    BY <1>a, <2>1, Zenon DEF WithinLimits, Total
<1>5. CASE now[b] \in t .. (t + Window) /\ Asset[m] = x
  <2>1. InWindow(t, x)' = W \cup {m}
    BY <1>a, <1>1, <1>2, <1>5, Zenon DEF InWindow
  <2>2. W \in SUBSET P
    <3> SUFFICES ASSUME NEW p \in W
                 PROVE  p \in P
      OBVIOUS
    <3>1. /\ p \in Purchases /\ record[p].phase # "absent" /\ Asset[p] = x
          /\ record[p].claimed \in t .. (t + Window)
      BY <1>a, Zenon DEF InWindow
    <3>2. now[b] \in Nat /\ Window \in Nat /\ MaxTime \in Nat
      BY <1>1, BuyerAssumption, Zenon
    <3>3. record[p].claimed >= now[b] - Window
      BY <1>5, <3>1, <3>2
    <3> QED
      BY <1>5, <1>a, <3>1, <3>3, Zenon DEF Counted
  <2>3. Cardinality(P) < MaxPurchases /\ Total(P) + Amount[m] <= MaxTotal
    BY <1>a, Zenon DEF Claims, Enforce
  <2>4. /\ Cardinality(W \cup {m}) <= Cardinality(P) + 1
        /\ Total(W \cup {m}) <= Total(P) + Amount[m]
        /\ Cardinality(P) \in Nat /\ Total(P) \in Nat
        /\ Cardinality(W \cup {m}) \in Nat /\ Total(W \cup {m}) \in Nat /\ Amount[m] \in Nat
    BY <1>1, <1>3, <2>2, AddPurchase, Zenon
  <2>5. MaxPurchases \in Nat /\ MaxTotal \in Nat
    BY BuyerAssumption, Zenon
  <2>6. Cardinality(W \cup {m}) <= MaxPurchases /\ Total(W \cup {m}) <= MaxTotal
    BY <2>3, <2>4, <2>5
  <2> QED
    BY <2>1, <2>6, Zenon DEF WithinLimits, Total
<1> QED
  BY <1>4, <1>5, Zenon

\* Any other step leaves every window as it is.
LEMMA NoClaimStep ==
  ASSUME TypeOK, [Next]_vars, ~ \E b \in Buyers : Mine(b) \in Purchases /\ Claims(b), NEW t, NEW x
  PROVE  InWindow(t, x)' = InWindow(t, x)
<1>1. ASSUME NEW p \in Purchases
      PROVE  /\ record'[p].phase = "absent" <=> record[p].phase = "absent"
             /\ record'[p].claimed = record[p].claimed
  <2>0. record \in [Purchases -> Record] /\ {"broadcasting", "complete"} \subseteq Phases
    BY Zenon DEF TypeOK, Phases
  <2>1. CASE record' = record
    BY <2>1
  <2>2. ASSUME NEW b \in Buyers, Mine(b) \in Purchases, Leases(b) \/ Completes(b)
        PROVE  /\ record'[p].phase = "absent" <=> record[p].phase = "absent"
               /\ record'[p].claimed = record[p].claimed
    <3>1. /\ record[Mine(b)].phase # "absent"
          /\ \E f \in {"broadcasting", "complete"} : record' = [record EXCEPT ![Mine(b)].phase = f]
      BY <2>2 DEF Leases, Completes
    <3>2. /\ record'[Mine(b)].phase # "absent"
          /\ record'[Mine(b)].claimed = record[Mine(b)].claimed
          /\ \A q \in Purchases : q # Mine(b) => record'[q] = record[q]
      BY <2>0, <2>2, <3>1, PhaseUpdate, Zenon
    <3> QED
      BY <3>1, <3>2, Zenon
  <2> QED
    BY <2>1, <2>2, Steps, Zenon DEF Idle, Quiet, Leasing, Paying
<1> QED
  BY <1>1, Zenon DEF InWindow

\* The limits of enforce hold of every window of claim times and every asset,
\* for any wallet and any limits, although the time is read before the lock.
THEOREM BudgetKept == Spec => []BudgetRespected
<1>0. BudgetRespected <=> \A t \in 0 .. MaxTime, p \in Purchases : WithinLimits(InWindow(t, Asset[p]))
  BY Zenon DEF BudgetRespected, WithinLimits
<1>1. Init => BudgetRespected
  <2> SUFFICES ASSUME Init, NEW t \in 0 .. MaxTime, NEW p \in Purchases
               PROVE  WithinLimits(InWindow(t, Asset[p]))
    BY <1>0, Zenon
  <2>1. InWindow(t, Asset[p]) = {}
    <3>1. \A q \in Purchases : record[q].phase = "absent"
      BY DEF Init, NoRecord
    <3> QED
      BY <3>1, Zenon DEF InWindow
  <2>2. Total({}) = 0
    <3>1. Amount \in [Purchases -> Int] /\ IsFiniteSet(Purchases)
      BY BuyerAssumption
    <3> QED
      BY <3>1, SumEmpty, Zenon DEF Total
  <2>3. Cardinality({}) = 0 /\ 0 <= MaxPurchases /\ 0 <= MaxTotal
    BY FS_EmptySet, BuyerAssumption
  <2> QED
    BY <2>1, <2>2, <2>3, Zenon DEF WithinLimits
<1>2. PayInv /\ BudgetRespected /\ [Next]_vars => BudgetRespected'
  <2> SUFFICES ASSUME PayInv, BudgetRespected, [Next]_vars, NEW t \in 0 .. MaxTime, NEW p \in Purchases
               PROVE  WithinLimits(InWindow(t, Asset[p]))'
    BY Zenon DEF BudgetRespected, WithinLimits
  <2>0. WithinLimits(InWindow(t, Asset[p])) /\ TypeOK
    BY <1>0, Zenon DEF PayInv
  <2>1. CASE \E b \in Buyers : Mine(b) \in Purchases /\ Claims(b)
    BY <2>0, <2>1, ClaimStep, Zenon
  <2>2. CASE ~ \E b \in Buyers : Mine(b) \in Purchases /\ Claims(b)
    <3>1. InWindow(t, Asset[p])' = InWindow(t, Asset[p])
      BY <2>0, <2>2, NoClaimStep, Zenon
    <3> QED
      BY <2>0, <3>1, Zenon DEF WithinLimits, Total
  <2> QED
    BY <2>1, <2>2, Zenon
<1> QED
  BY <1>1, <1>2, PayInvariant, PTL DEF Spec

=============================================================================
