---------------------------- MODULE FinalizedRead ----------------------------
(***************************************************************************)
(* How a process reads finalized chain state (pkg/toschain): a strict      *)
(* majority of JSON-RPC endpoints must agree on the consensus block        *)
(* (quorum.go), then on the account at that block (native_read.go), then   *)
(* the block number must pass the in-memory high-water mark of the         *)
(* resolver (simplified_native.go, escrow.go, stablecoin.go) and the       *)
(* durable checkpoint file that all processes share (checkpoint_store.go). *)
(*                                                                         *)
(* Readers are goroutines; host[g] is the resolver process g runs in.      *)
(* Endpoints answer at different moments while the chain grows; faulty     *)
(* ones answer anything. A checkpoint write may be cut off between its     *)
(* Truncate and its WriteString; torn records that it happened.            *)
(***************************************************************************)
EXTENDS Integers, FiniteSets

CONSTANTS Readers, Hosts, Nodes, Faulty, ReadQuorum, MaxBlock, Nobody

ASSUME ReadAssumption ==
  /\ IsFiniteSet(Nodes) /\ Faulty \subseteq Nodes
  /\ ReadQuorum \in Nat /\ Cardinality(Faulty) < ReadQuorum
  /\ MaxBlock \in Nat
  /\ Nobody \notin Readers \cup Hosts

\* Adapter.New: the quorum is a strict majority of at least three endpoints.
ASSUME QuorumAssumption ==
  /\ Cardinality(Nodes) >= 3
  /\ 2 * ReadQuorum > Cardinality(Nodes) /\ ReadQuorum <= Cardinality(Nodes)

VARIABLES
  height,     \* height[n]: consensus block of endpoint n
  stage, host, \* where each reader is, and the process it runs in
  start,      \* start[g][n]: height[n] when g's consensus read began
  seq,        \* seq[g]: the block g reads at
  group,      \* group[g]: the endpoints that agreed on seq[g]
  content,    \* content[g]: what the account read returned
  highWater,  \* highWater[h]: the mark in the memory of process h
  file,       \* the number in the checkpoint file, 0 for an empty file
  fileLock,   \* the reader inside checkAndAdvance, or Nobody
  served,     \* last block any process served state from
  servedBy,   \* last block process h served from since it started
  contents,   \* contents of everything served
  torn        \* a checkpoint write was cut off

reader == <<stage, host, start, seq, group, content>>
marks == <<highWater, file, fileLock>>
ghosts == <<served, servedBy, contents>>
readVars == <<height, reader, marks, ghosts, torn>>

Blocks == 1 .. MaxBlock
Zero == [n \in Nodes |-> 0]

ReadInit ==
  /\ height = Zero
  /\ stage = [g \in Readers |-> "idle"]
  /\ host = [g \in Readers |-> Nobody]
  /\ start = [g \in Readers |-> Zero]
  /\ seq = [g \in Readers |-> 0]
  /\ group = [g \in Readers |-> {}]
  /\ content = [g \in Readers |-> "none"]
  /\ highWater = [h \in Hosts |-> 0]
  /\ file = 0
  /\ fileLock = Nobody
  /\ served = 0
  /\ servedBy = [h \in Hosts |-> 0]
  /\ contents = {} /\ torn = FALSE

\* A reader's call ends; its locals are gone.
Quit(g) ==
  /\ stage' = [stage EXCEPT ![g] = "idle"]
  /\ host' = [host EXCEPT ![g] = Nobody]
  /\ start' = [start EXCEPT ![g] = Zero]
  /\ seq' = [seq EXCEPT ![g] = 0]
  /\ group' = [group EXCEPT ![g] = {}]
  /\ content' = [content EXCEPT ![g] = "none"]

\* An honest endpoint learns of another finalized block.
LearnBlock(n) ==
  /\ height[n] < MaxBlock
  /\ height' = [height EXCEPT ![n] = @ + 1]
  /\ UNCHANGED <<reader, marks, ghosts, torn>>

BeginRead(g, h) ==
  /\ stage[g] = "idle"
  /\ stage' = [stage EXCEPT ![g] = "consensus"]
  /\ host' = [host EXCEPT ![g] = h]
  /\ start' = [start EXCEPT ![g] = height]
  /\ UNCHANGED <<height, seq, group, content, marks, ghosts, torn>>

-----------------------------------------------------------------------------
\* What endpoint n may have answered to g's consensus call, which reached it at
\* some moment since the call began.
MayVote(g, n, v) == n \in Faulty \/ v \in start[g][n] .. height[n]

\* MUTANT: half of the endpoints are enough.
AgreeHalf(G) == Cardinality(G) >= Cardinality(Nodes) \div 2

\* quorumRead over the consensus blocks: the endpoints in G gave the same answer
\* v and are enough; the others failed or answered otherwise.
Agree(G) == Cardinality(G) >= ReadQuorum

\* Adapter.consensus, then the first look at the high-water mark.
Consensus(g) ==
  /\ stage[g] = "consensus"
  /\ \E G \in SUBSET Nodes, v \in Blocks :
       /\ Agree(G)
       /\ \A n \in G : MayVote(g, n, v)
       /\ v >= highWater[host[g]]
       /\ seq' = [seq EXCEPT ![g] = v]
       /\ group' = [group EXCEPT ![g] = G]
  /\ start' = [start EXCEPT ![g] = Zero]
  /\ stage' = [stage EXCEPT ![g] = "account"]
  /\ UNCHANGED <<height, host, content, marks, ghosts, torn>>

\* quorumRead over the account at that block, asked only of the endpoints that
\* agreed on it: honest ones know the block and return what it says.
Account(g) ==
  /\ stage[g] = "account"
  /\ \E c \in {"true", "forged"}, G \in SUBSET group[g] :
       /\ Agree(G)
       /\ c = "forged" => G \subseteq Faulty
       /\ content' = [content EXCEPT ![g] = c]
  /\ group' = [group EXCEPT ![g] = {}]
  /\ stage' = [stage EXCEPT ![g] = "commit"]
  /\ UNCHANGED <<height, host, start, seq, marks, ghosts, torn>>

\* No quorum, a stale or future observation time, a regressed block, an account
\* that does not decode, or a cancelled context.
ReadFails(g) ==
  /\ stage[g] \in {"consensus", "account"}
  /\ Quit(g)
  /\ UNCHANGED <<height, marks, ghosts, torn>>

\* State at seq[g] is handed to the caller.
Serve(g) ==
  /\ highWater' = [highWater EXCEPT ![host[g]] = seq[g]]
  /\ served' = seq[g]
  /\ servedBy' = [servedBy EXCEPT ![host[g]] = seq[g]]
  /\ contents' = contents \cup {content[g]}
  /\ Quit(g)

\* MUTANT: the file is not compared, as if a fresh mark were enough.
CommitAllowedMemoryOnly(g) == seq[g] >= highWater[host[g]]

\* commitCheckpoint holds the process's mutex around checkAndAdvance, which
\* holds the file lock. An empty file reads as zero.
CommitAllowed(g) == seq[g] >= highWater[host[g]] /\ seq[g] >= file

CommitRefused(g) ==
  /\ stage[g] = "commit" /\ fileLock = Nobody
  /\ ~CommitAllowed(g)
  /\ Quit(g)
  /\ UNCHANGED <<height, marks, ghosts, torn>>

CommitSame(g) ==
  /\ stage[g] = "commit" /\ fileLock = Nobody
  /\ CommitAllowed(g) /\ seq[g] = file
  /\ Serve(g)
  /\ UNCHANGED <<height, file, fileLock, torn>>

Truncate(g) ==
  /\ stage[g] = "commit" /\ fileLock = Nobody
  /\ CommitAllowed(g) /\ seq[g] # file
  /\ file' = 0
  /\ fileLock' = g
  /\ stage' = [stage EXCEPT ![g] = "write"]
  /\ UNCHANGED <<height, host, start, seq, group, content, highWater, ghosts, torn>>

WriteString(g) ==
  /\ stage[g] = "write"
  /\ file' = seq[g]
  /\ fileLock' = Nobody
  /\ Serve(g)
  /\ UNCHANGED <<height, torn>>

\* WriteString returns an error, for instance because the disk is full, or it
\* succeeds and one of the Sync calls after it fails.
WriteFails(g) ==
  /\ stage[g] = "write"
  /\ file' \in {file, seq[g]}
  /\ torn' = (torn \/ (served > 0 /\ file' = 0))
  /\ fileLock' = Nobody
  /\ Quit(g)
  /\ UNCHANGED <<height, highWater, ghosts>>

\* A process dies with its goroutines and its memory.
HostCrash(h) ==
  LET mine == {g \in Readers : host[g] = h} IN
  /\ stage' = [g \in Readers |-> IF g \in mine THEN "idle" ELSE stage[g]]
  /\ host' = [g \in Readers |-> IF g \in mine THEN Nobody ELSE host[g]]
  /\ start' = [g \in Readers |-> IF g \in mine THEN Zero ELSE start[g]]
  /\ seq' = [g \in Readers |-> IF g \in mine THEN 0 ELSE seq[g]]
  /\ group' = [g \in Readers |-> IF g \in mine THEN {} ELSE group[g]]
  /\ content' = [g \in Readers |-> IF g \in mine THEN "none" ELSE content[g]]
  /\ highWater' = [highWater EXCEPT ![h] = 0]
  /\ servedBy' = [servedBy EXCEPT ![h] = 0]
  /\ fileLock' = IF fileLock \in mine THEN Nobody ELSE fileLock
  /\ torn' = (torn \/ (served > 0 /\ \E g \in mine : stage[g] = "write"))
  /\ UNCHANGED <<height, file, served, contents>>

ReadNext ==
  \/ \E n \in Nodes \ Faulty : LearnBlock(n)
  \/ \E g \in Readers :
       \/ \E h \in Hosts : BeginRead(g, h)
       \/ Consensus(g) \/ Account(g) \/ ReadFails(g)
       \/ CommitRefused(g) \/ CommitSame(g) \/ Truncate(g)
       \/ WriteString(g) \/ WriteFails(g)
  \/ \E h \in Hosts : HostCrash(h)

ReadSpec == ReadInit /\ [][ReadNext]_readVars

-----------------------------------------------------------------------------
\* With fewer faulty endpoints than the quorum, a reader never serves state that
\* no honest endpoint vouches for, although the two quorum reads happen at
\* different moments of a growing chain.
ServedIsTrue == contents \subseteq {"true"}

\* checkpoint_store.go: "a process-independent monotonic finality fence". What
\* is served never goes back, across processes and restarts, unless a write of
\* the checkpoint file was cut off: the empty file reads as no checkpoint.
\* While a process lives, what it serves never goes back even then, whichever
\* of its goroutines finishes first.
FenceMonotone ==
  [][/\ served' >= served \/ torn
     /\ \A h \in Hosts : servedBy'[h] >= servedBy[h] \/ servedBy'[h] = 0]_readVars
=============================================================================
