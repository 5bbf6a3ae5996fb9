------------------------------ MODULE ExactRelay ------------------------------
(***************************************************************************)
(* What became of one signed Agent Account payment that a relay provider   *)
(* submitted (pkg/toschain/agent_relay_resolution.go). A resolver reads    *)
(* the payer's account at the finalized checkpoint, classifies what it     *)
(* sees, reads again at a depth anchor below it, passes the durable        *)
(* checkpoint fence (agent_relay_checkpoint.go), stores one observation    *)
(* per agreeing observer (agent_relay_observation_store.go) and answers.   *)
(* A client verifier does the same against a fence of its own before it    *)
(* accepts the answer (agent_relay_verifier.go).                           *)
(*                                                                         *)
(* The chain is external. Its recent blocks may be replaced, down to the   *)
(* confirmation depth of the finality profile. Endpoint quorums are the    *)
(* subject of FinalizedRead; here an agreed answer is what the chain says  *)
(* at the moment of the read.                                              *)
(***************************************************************************)
EXTENDS Integers, Sequences, FiniteSets, SequencesExt

CONSTANTS
  Resolvers, Verifiers, \* processes of the provider and of the client
  Observers, Domain,    \* endpoints and the operator each one belongs to
  Quorum, MinimumObservers, MinimumOperatorDomains, MinimumConfirmationDepth,
  ReorgWindowSeconds,   \* the finality profile of the quote
  SourceSequence, TransactionValidUntil, CreatedAt, ExpiresAt,
  HistoryLimit,         \* maxGiftHistoryTransactions
  MaxHeight, MaxTime, MaxForks, MaxTransactions,
  Outcomes,             \* what may become of the message, a part of Exact
  MaxAnswers            \* terminal answers after which nobody asks again

ASSUME RelayProfileAssumption ==
  /\ Resolvers \cap Verifiers = {}
  /\ IsFiniteSet(Observers)
  /\ MinimumConfirmationDepth \in Nat \ {0} /\ ReorgWindowSeconds \in Nat
  /\ HistoryLimit \in Nat \ {0}

VARIABLES
  chain,      \* the payer's account after each block, oldest first
  peak,       \* greatest height the chain has had
  forks,      \* replacements so far; names the branch of a block
  now,        \* time of the newest block there has been
  pc, cur, agreed, \* locals of a resolution in progress
  fence,      \* the checkpoint file of the provider and that of the client
  evidence,   \* observation store
  answers,    \* terminal answers of the provider, with their evidence
  accepted    \* outcomes a client verifier accepted

locals == <<pc, cur, agreed>>
chainVars == <<chain, peak, forks, now>>
stores == <<fence, evidence>>
results == <<answers, accepted>>
vars == <<chainVars, locals, stores, results>>

Processes == Resolvers \cup Verifiers
Side(p) == IF p \in Resolvers THEN "provider" ELSE "client"
Sides == {"provider", "client"}
NoBlock == [height |-> 0]

\* validateTOSRelayObservationForProfile
ValidForProfile(G) ==
  /\ Cardinality(G) >= MinimumObservers
  /\ Cardinality({Domain[o] : o \in G}) >= MinimumOperatorDomains

-----------------------------------------------------------------------------
(* The payer's account and the chain.                                      *)

\* What became of the signed message: it failed, it ran without the exact output,
\* it sent the output to a destination that does not credit it, or it paid.
Exact == {"failed", "wrong", "refused", "paid"}
Sent == {"refused", "paid"}
Consuming == Exact \cup {"other"}   \* transactions that use a sequence number

Sequence(b) == Cardinality({i \in DOMAIN b.hist : b.hist[i].kind \in Consuming})
Epoch(b) == Cardinality({i \in DOMAIN b.hist : b.hist[i].kind = "rotate"})
Paid(b) == \E i \in DOMAIN b.hist : b.hist[i].kind = "paid"
OnItsWay(b) ==
  {i \in DOMAIN b.hist : b.hist[i].kind \in Sent /\ ~b.arrived}

Genesis == [height |-> 1, branch |-> 0, time |-> 0, arrived |-> FALSE,
            hist |-> <<[kind |-> "other", time |-> 0, branch |-> 0]>>]

\* One more block: at most one transaction of the payer, which is the signed
\* payment only while its sequence number, controller and expiry allow it, and
\* the arrival of the output at the destination, which takes less than the reorg
\* window.
MayExecute(b, time) ==
  /\ Sequence(b) = SourceSequence /\ Epoch(b) = 0
  /\ time >= CreatedAt /\ time <= TransactionValidUntil

Successors(b, time) ==
  LET next == [b EXCEPT !.height = @ + 1, !.branch = forks, !.time = time]
      blocks == {next} \cup
        {[next EXCEPT !.hist = Append(@, [kind |-> k, time |-> time, branch |-> forks])] :
           k \in {"other", "rotate"} \cup IF MayExecute(b, time) THEN Outcomes ELSE {}}
  IN  blocks \cup {[x EXCEPT !.arrived = TRUE] : x \in {y \in blocks : OnItsWay(y) # {}}}

Grow ==
  /\ Len(chain) < MaxHeight
  /\ \E time \in now .. MaxTime : \E b \in Successors(Last(chain), time) :
       /\ Len(b.hist) <= MaxTransactions
       /\ \A i \in OnItsWay(b) : b.time < b.hist[i].time + ReorgWindowSeconds
       /\ chain' = Append(chain, b)
       /\ now' = time
  /\ peak' = IF Len(chain) + 1 > peak THEN Len(chain) + 1 ELSE peak
  /\ UNCHANGED <<forks, locals, stores, results>>

\* Blocks that have settled are never replaced.
Settled(h) == h + MinimumConfirmationDepth <= peak + 1

Reorg ==
  /\ forks < MaxForks
  /\ \E h \in 1 .. Len(chain) - 1 :
       /\ \A k \in h + 1 .. Len(chain) : ~Settled(k)
       /\ chain' = SubSeq(chain, 1, h)
  /\ forks' = forks + 1
  /\ UNCHANGED <<peak, now, locals, stores, results>>

-----------------------------------------------------------------------------
(* Observing and classifying.                                              *)

\* observeNodeAt with finalizedRelayTransactionHistory, matchRelayExecution and
\* matchRelayCredit: the last HistoryLimit transactions of the payer are seen.
\* shown says whether the destination's own window reaches back far enough.
Window(b) ==
  SubSeq(b.hist, IF Len(b.hist) > HistoryLimit THEN Len(b.hist) - HistoryLimit + 1
                 ELSE 1, Len(b.hist))

Candidate(b, shown) ==
  LET w == Window(b)
      hits == {i \in DOMAIN w : w[i].kind \in Exact}
      hit == IF hits = {} THEN [kind |-> "absent", time |-> 0, branch |-> 0]
             ELSE w[CHOOSE i \in hits : TRUE]
  IN  [found |-> hits # {},
       executed |-> hit.kind \in {"wrong"} \cup Sent,
       exactOutput |-> hit.kind \in Sent,
       creditKnown |-> hits # {} /\ (hit.kind \in Sent => shown),
       credited |-> hit.kind = "paid" /\ shown /\ b.arrived,
       executionTime |-> hit.time, reference |-> <<hit.time, hit.branch>>,
       absenceKnown |-> \/ hits # {} \/ Len(b.hist) <= HistoryLimit
                        \/ w[1].time < CreatedAt,
       epoch |-> Epoch(b),
       sequence |-> Sequence(b),
       lastTime |-> Last(b.hist).time]

OldEnough(t, observed) == t + ReorgWindowSeconds <= observed

\* classifyExactRelayCandidate: a terminal outcome, "safe" for an exact
\* rebroadcast, or "" for no decision.
Classify(c, observed) ==
  CASE c.found ->
         IF ~OldEnough(c.executionTime, observed) THEN ""
         ELSE IF c.executed /\ c.exactOutput /\ c.credited THEN "success"
         ELSE IF ~c.executed \/ ~c.exactOutput \/ (c.creditKnown /\ ~c.credited)
           THEN "invalidated" ELSE ""
    [] ~c.found /\ ~c.absenceKnown -> ""
    [] ~c.found /\ c.absenceKnown /\ (c.epoch # 0 \/ c.sequence > SourceSequence) ->
         IF c.lastTime # 0 /\ OldEnough(c.lastTime, observed)
           THEN "invalidated" ELSE ""
    [] OTHER ->
         IF c.sequence < SourceSequence THEN ""
         ELSE IF OldEnough(TransactionValidUntil, observed) THEN "expired"
         ELSE IF observed < ExpiresAt /\ observed < TransactionValidUntil
           THEN "safe" ELSE ""

\* sameRelayTerminalCandidate
SameTerminal(c, a, outcome) ==
  CASE outcome = "success" ->
         /\ c.found /\ a.found /\ c.credited /\ a.credited
         /\ c.reference = a.reference
    [] outcome = "invalidated" /\ (c.found \/ a.found) ->
         /\ c.found = a.found /\ c.executed = a.executed /\ c.reference = a.reference
         /\ c.exactOutput = a.exactOutput /\ c.credited = a.credited
    [] outcome = "invalidated" ->
         c.epoch = a.epoch /\ c.sequence = a.sequence
    [] outcome = "expired" ->
         /\ ~c.found /\ ~a.found /\ c.absenceKnown /\ a.absenceKnown
         /\ c.epoch = a.epoch /\ c.sequence = a.sequence
    [] OTHER -> FALSE

-----------------------------------------------------------------------------
(* A resolution.                                                           *)

Init ==
  /\ chain = <<Genesis>> /\ peak = 1 /\ forks = 0 /\ now = 0
  /\ pc = [p \in Processes |-> "idle"]
  /\ cur = [p \in Processes |-> NoBlock]
  /\ agreed = [p \in Processes |-> {}]
  /\ fence = [s \in Sides |-> <<0, 0>>]
  /\ evidence = {}
  /\ answers = {} /\ accepted = {}

Finish(p) ==
  /\ pc' = [pc EXCEPT ![p] = "idle"]
  /\ cur' = [cur EXCEPT ![p] = NoBlock]
  /\ agreed' = [agreed EXCEPT ![p] = {}]

\* An endpoint error, a lost quorum, a disagreement, a cancelled context or the
\* death of the process.
Abort(p) ==
  /\ pc[p] # "idle"
  /\ Finish(p)
  /\ UNCHANGED <<chainVars, stores, results>>

\* What is left of an observation once it is decided.
Decided(height, branch, outcome, reference) ==
  [height |-> height, branch |-> branch, outcome |-> outcome, reference |-> reference]

\* observeExactAgentNativeSendRequest at the finalized checkpoint. No decision
\* ends the call with an error, and so does "safe" for a verifier, which is
\* called with an answer of the provider.
Observe(p) ==
  LET b == Last(chain) IN
  /\ pc[p] = "idle"
  /\ Cardinality(IF p \in Resolvers THEN answers ELSE accepted) < MaxAnswers
  /\ p \in Verifiers => answers # {}
  /\ \E shown \in BOOLEAN :
       LET c == Candidate(b, shown)
           o == Classify(c, b.time)
       IN  /\ o # "" /\ (o = "safe" => p \in Resolvers)
           /\ o # "safe" => b.height >= MinimumConfirmationDepth
           /\ cur' = [cur EXCEPT ![p] =
                        IF o = "safe" THEN Decided(b.height, b.branch, o, c.reference)
                        ELSE [height |-> b.height, branch |-> b.branch,
                              time |-> b.time, candidate |-> c, outcome |-> o]]
           /\ pc' = [pc EXCEPT ![p] = IF o = "safe" THEN "fence" ELSE "anchor"]
  /\ UNCHANGED <<chainVars, agreed, stores, results>>

\* MUTANT: one confirmation too few.
AnchorHeightShallow(p) == cur[p].height - MinimumConfirmationDepth + 2

AnchorHeight(p) == cur[p].height - MinimumConfirmationDepth + 1

\* VerifyRelayFinality compares its own observation with the signed evidence.
Agrees(p) ==
  \E a \in answers :
    /\ a.outcome = cur[p].outcome
    /\ a.outcome = "success" => /\ cur[p].height >= a.height
                               /\ cur[p].candidate.reference = a.reference

\* The same observers at the depth anchor, read later than the checkpoint.
ReadAnchor(p) ==
  LET h == AnchorHeight(p) IN
  /\ pc[p] = "anchor"
  /\ h <= Len(chain)
  /\ \E shown \in BOOLEAN, G \in SUBSET Observers :
       LET a == Candidate(chain[h], shown) IN
       /\ Classify(a, cur[p].time) = cur[p].outcome
       /\ SameTerminal(cur[p].candidate, a, cur[p].outcome)
       /\ Cardinality(G) >= Quorum
       /\ agreed' = [agreed EXCEPT ![p] = G]
       /\ p \in Verifiers => ValidForProfile(G) /\ Agrees(p)
  /\ cur' = [cur EXCEPT ![p] = Decided(@.height, @.branch, @.outcome, @.candidate.reference)]
  /\ pc' = [pc EXCEPT ![p] = "fence"]
  /\ UNCHANGED <<chainVars, stores, results>>

\* MUTANT: the file is written without looking at it.
FenceAllowsAll(p) == TRUE

\* checkAndAdvance under the lock of the fence file: temporary file and rename.
FenceAllows(p) ==
  LET f == fence[Side(p)] IN
  cur[p].height > f[1] \/ <<cur[p].height, cur[p].branch>> = f

Advance(p) == fence' = [fence EXCEPT ![Side(p)] = <<cur[p].height, cur[p].branch>>]

\* The fence is passed and the resolution says: send the same bytes again.
PassSafe(p) ==
  /\ pc[p] = "fence" /\ cur[p].outcome = "safe"
  /\ FenceAllows(p) /\ Advance(p)
  /\ Finish(p)
  /\ UNCHANGED <<chainVars, evidence, answers, accepted>>

PassTerminal(p) ==
  /\ p \in Resolvers
  /\ pc[p] = "fence" /\ cur[p].outcome # "safe"
  /\ FenceAllows(p) /\ Advance(p)
  /\ ValidForProfile(agreed[p])
  /\ pc' = [pc EXCEPT ![p] = "store"]
  /\ UNCHANGED <<chainVars, cur, agreed, evidence, answers, accepted>>

\* The rename is done and a later step fails: the directory sync, or a profile
\* that the observers do not meet.
PassAndFail(p) ==
  /\ pc[p] = "fence"
  /\ FenceAllows(p) /\ Advance(p)
  /\ Finish(p)
  /\ UNCHANGED <<chainVars, evidence, answers, accepted>>

PassVerified(p) ==
  /\ p \in Verifiers /\ pc[p] = "fence"
  /\ FenceAllows(p) /\ Advance(p)
  /\ accepted' = accepted \cup {cur[p].outcome}
  /\ Finish(p)
  /\ UNCHANGED <<chainVars, evidence, answers>>

Reference(p, o) == <<o, cur[p].height, cur[p].branch, cur[p].outcome>>

Missing(p) == {o \in agreed[p] : Reference(p, o) \notin evidence}

\* tosRelayObservationStore.put, once per agreeing observer in their order; one
\* that is stored already is left alone.
Put(p) ==
  /\ pc[p] = "store" /\ Missing(p) # {}
  /\ evidence' = evidence \cup {Reference(p, CHOOSE o \in Missing(p) : TRUE)}
  /\ UNCHANGED <<chainVars, locals, fence, results>>

AllStored(p) == Missing(p) = {}

Answer(p) ==
  /\ pc[p] = "store" /\ AllStored(p)
  /\ answers' = answers \cup {[outcome |-> cur[p].outcome, height |-> cur[p].height,
                               reference |-> cur[p].reference,
                               refs |-> {Reference(p, o) : o \in agreed[p]}]}
  /\ Finish(p)
  /\ UNCHANGED <<chainVars, stores, accepted>>

Next ==
  \/ Grow \/ Reorg
  \/ \E p \in Processes :
       \/ Observe(p) \/ ReadAnchor(p) \/ PassSafe(p) \/ PassTerminal(p)
       \/ PassAndFail(p) \/ PassVerified(p) \/ Put(p) \/ Answer(p) \/ Abort(p)

Spec == Init /\ [][Next]_vars

-----------------------------------------------------------------------------
\* What ResolveExactRelay reports as terminal stays true of the chain for ever:
\* a success is never replaced, and a payment reported as expired or
\* invalidated is never made afterwards, although recent blocks may still be
\* replaced and the checkpoint and its anchor are read at different moments.
\* The same holds of what VerifyRelayFinality accepts against its own fence.
TerminalIsFinal ==
  \A o \in accepted \cup {a.outcome : a \in answers} : (o = "success") = Paid(Last(chain))

\* Once any provider process has answered with a terminal outcome, no process
\* behind the same fence tells the provider to send the bytes again, however
\* old its own observation is. One made on a branch that was replaced since may
\* have a higher sequence and pass; the chain refuses the bytes then.
OnChain(c) == c.height <= Len(chain) /\ chain[c.height].branch = c.branch

NoRebroadcastAfterTerminal ==
  [][(\E p \in Resolvers : PassSafe(p) /\ OnChain(cur[p])) => answers = {}]_vars

\* Every evidence reference in an answer can be fetched from the observation
\* store, and the answer rests on enough observers.
EvidenceRetrievable ==
  \A a \in answers : a.refs \subseteq evidence /\ Cardinality(a.refs) >= MinimumObservers

\* An answer stands: it stays true, its evidence can be fetched, and it ends
\* the rebroadcasts.
AnswersStand ==
  [](TerminalIsFinal /\ EvidenceRetrievable) /\ NoRebroadcastAfterTerminal
=============================================================================
