# tos-protocol specifications

TLA+ specifications of the Go module in `src/`: what it does when several
processes share a journal, when one of them dies between two steps, when the
chain moves between two reads, and when a message is lost or arrives late.
TLC checks the specifications on small instances; TLAPS proves some of the
properties for every value of the constants.

```
tlc -workers 2 -config NativeRelay.cfg MCNativeRelay     # one run
tlapm NativeRelayProofs.tla                              # one proof module
```

`PROJECT.json` lists the components, the runs, the source lines each
definition translates, one mutant for each checked property, the hazards of
the code and the theorems.

## The system

The repository is the boundary between service agents and finalized state of
the TOS chain. Nothing in it is a long-running replicated service. Its
difficulty is elsewhere: independent processes (relayers, buyers, gates,
resolvers, relay servers) share an owner-private directory or a revisioned
journal, spend real money through an external sender whose errors are
ambiguous, and read a chain through endpoints that lag.

| part | state it keeps | operations | what makes it hard |
|---|---|---|---|
| Native relayer, `pkg/nativecore/relay.go`, `relay_journal.go` | slot and request files, a lock file | `submit`: Lookup, Begin, AcquireBroadcastLease, send, Complete; read-only resolution | crash between files, two leases, sender that fails after sending, time read before the lock |
| Buyer, `pkg/buyersdk` | purchase and request files, a lock file | `FundPurchase`: begin, prepare, acquire, broadcast, complete, waitFunded | the same, and success must come from the escrow |
| Finalized reads, `pkg/toschain/quorum.go`, `native_read.go`, `checkpoint_store.go` | in-memory high-water mark, checkpoint file | consensus read, account read, commit | endpoints that move on between the two reads, goroutines that commit out of order, torn writes |
| Exact relay outcome, `pkg/toschain/agent_relay_*.go` | fence file, observation store | `ResolveExactRelay`, `VerifyRelayFinality` | replaced blocks, bounded history, stale observers |
| Execution gate, `pkg/executiongate` | claim files | `ClaimExecution`, `ClaimPaidDemandExecution` | three reads before one claim, power loss between link and sync |
| Agent relay, `pkg/agentrelay` | records, quote reservations, rate buckets | `Quote`, `Submit`, `Resolve` | retries, two payments with separate finality, absence proofs, exposure limits |
| Coverage guarantor, `pkg/agentguarantor` | offer, coverage, claim, payout and collateral records held by the caller | transitions and the verifiers between them | long legal sequences, deadlines, evidence of another record's older state |
| Prediction market model, `pkg/predictionmarket/model.go` | balances, positions, fills | deposit, split, merge, match, finalize, claim | conservation of backing, overflow |
| Gift, `pkg/agentgift` | none (transition tables) | sender and recipient transitions, resolution | refund racing a claim |
| Agreements, intents, outcomes, billing, `pkg/agentcommerce` | none kept; billing and schedule values | validation, signing, ApplyPayment, ResolveSettlementState | duplicate or partial payments |
| Catalog, packets, discovery, clients, RPC, codecs, commands | little or none | transport and conversion | a full replay guard; otherwise I/O |

The parts meet in four places. The relayer, the buyer and the gate all use
finalized reads. A buyer's funded escrow is what the gate checks. The relay
server sends the client's bytes and asks the exact-relay resolver what became
of them. The guarantor and commerce documents bind agreements that the buyer
and the relay carry.

## Modules

| module | models | extends |
|---|---|---|
| `PayOnce` | abstract specification of a payment journal | |
| `NativeRelay`, `MCNativeRelay`, `NativeRelayProofs` | Native relayer over its file journal | refines `PayOnce` |
| `BuyerFunding`, `MCBuyerFunding` | FundPurchase over the budget journal | refines `PayOnce` |
| `FinalizedRead`, `MCFinalizedRead` | endpoint quorum, high-water mark, checkpoint file | |
| `ExactRelay`, `MCExactRelay` | outcome of one exact payment, for the provider and its client | |
| `ExecutionGate`, `MCExecutionGate`, `ExecutionGateProofs` | execution claims | |
| `RelayRecord` | every journal method on one relay record, and RestoreRecord | |
| `RelayProvider`, `MCRelayProvider` | Submit and Resolve of one action by several servers | `RelayRecord` |
| `RelayAdmission`, `MCRelayAdmission` | reservations, admission, exposure, active and rate limits | |
| `GuarantorCoverage` | one coverage of the guarantor: offer, reservation, claims, decisions, payout, release | |

### How state and actions correspond

A process is a program counter and the locals its function still needs. A step
is one file operation, one journal call, one chain read or one call of an
external service, with everything the code does around it. Between two steps
any other process runs, and a process may die; its file lock goes with it.

**NativeRelay.** `slot[s]` is the `slot-*.json` file of a state slot with its
action, claim time, funding and phase (absent, prepared, broadcasting,
complete); `request[k]` is the alias file of an idempotency key. `Submit`,
`Lookup`, `BeginSlot`, `BeginAlias`, `AcquireBroadcastLease`, `Send`, `Complete` and the
read-only resolution are the steps of `Relayer.submit`. The sender reports
failure with or without having sent. A foreign relayer may also bring an action
on chain. A key answered from a slot that exists already records no alias.

**BuyerFunding.** The same shape over `purchase-*.json` and `request-*.json`,
with `escrow` and `flight` as the chain. A transfer may arrive, get lost, or
come too late; an escrow may close.

**FinalizedRead.** `height[n]` is what endpoint `n` calls final. A reader takes
a block number on which a quorum agrees, reads the account at that block from
the endpoints that agreed, then passes the process's mark and the shared file.
Faulty endpoints answer anything. The write of the file is Truncate and
WriteString, and may be cut off in between.

**ExactRelay.** `chain` is the payer's account after each block, with branch
names so that a replaced block is told from its replacement. A resolver
observes at the checkpoint, classifies (success, failed, expired, invalidated,
safe to send again), observes at the depth anchor, passes the fence, stores one
observation per observer, and answers. A verifier of the client does the same
against its own fence before it accepts.

**ExecutionGate.** `file` is the claim directory as processes see it, `disk` what
a power loss leaves of it. A gate reads escrow, agent and capability, each at a
checkpoint of its own, then claims under the lock: link for a new claim, rename
for newer evidence, then syncDir.

**RelayRecord and RelayProvider.** A journal method is a pair of operators: its
checks and the record it stores; `RestoreRecordAccepts` is the validation of a
snapshot. A server works on the record it last got back and writes with that
record's revision. The processor, the broadcaster and the chain are external.
`Crash` also stands for an error of an external service that ends the call.

**RelayAdmission.** One action per request for the journal: a call reads the
clock, waits for external services and the lock, and reaches the journal up to
`MaxDelay` later. What happens to an admitted record is reduced to open, closed
or settled.

**GuarantorCoverage.** The package has the transitions of the records
(`state.go`) and a verifier for the receipt of each step; who stores the records
is outside. An action is a step whose receipt verifies, on the record it names:
`coverage` is the CoverageRecord, `claims[n]` the claim with admission sequence
`n` and its application token, `reserve` and `cumulative` the two aggregates that
the receipts hand on, `portfolio` the reservation of the offer. `window` is the
deadline that runs for a claim, with the second of the deadline itself kept
apart, because challenge and close, or successor decision and fallback, are both
admitted in it. The claims share the coverage revision, so each step is atomic.
How the payouts ended is read at closure, from the evidence in the terminal set.

### Assumptions about what is not in `src/`

- *ExactRelay:* a settled block is never replaced; the output arrives in less
  than the reorg window; whether the destination credits it is decided with the
  execution; a failed message uses up its sequence number; the payment executes
  no earlier than `CreatedAt`; a new block carries the current time; a controller
  rotation takes the authority away for good.
- *RelayProvider:* the processor returns the same evidence for a final transfer;
  the client's bytes reach the network only through this provider; the
  broadcaster's labels agree with the selected evidence class; a top-up lands only
  before `TopUpUntil`.
- *ExecutionGate:* `Writeback` says that what a dead process left unsynced is
  written back before the power fails. `gate_claims` assumes it, `gate_lost` does
  not.
- *GuarantorCoverage:* the authority carries a claim's round counters from one
  receipt to the next, copies a decision's deadlines into its receipt, and
  releases a reservation once. The verifiers see one receipt and leave that to it.

## Runs

| run | instance | question |
|---|---|---|
| `native_relay` | 2 relayers, 2 keys, 2 nonce variants of a slot and a successor, 2 fundings, limits that two claims can exceed | is each slot paid for at most once, do limits hold, is the journal a `PayOnce`? |
| `buyer_funding` | 2 buyers, 2 keys, 2 purchases that exceed the window's limit together | the same for transfers; does success mean a funded escrow? |
| `buyer_retry` | 2 buyers, 1 purchase, crashes | does a retried purchase leave `prepared`? |
| `finalized_read` | 2 goroutines in 1 or 2 processes, 3 endpoints, 1 faulty, 3 blocks | is only agreed, final state served, and does it never go back? |
| `exact_relay` | 2 provider processes, 1 client, 2 observers, depth 3, 4 blocks, 1 replacement | do terminal answers stay true, is their evidence stored, is nothing sent again? |
| `gate_claims` | 2 gates with old and new registry code, 2 intents, 4 calls, crash, failed sync, power loss | is a purchase granted to one intent, on true authority, durably? |
| `gate_lost` | the same without `Writeback` | (violation) one intent although an unsynced claim is lost |
| `relay_provider` | every mode, 1 or 2 servers, 2 payment handles, 1 replaced block | one payment, true outcomes, restorable records, exposure held |
| `relay_live` | relay_exact and combined, 1 server that dies again and again | is every admitted action concluded? |
| `relay_collapse` | combined, 2 servers | (violation) the outcome with two concurrent Submits |
| `relay_admission` | 3 requests of 2 agents, 2 servers, late calls | value at risk, open actions and quote rate within limits |
| `guarantor_coverage` | 2 claims of up to the whole maximum of 2, 1 challenge and 1 response each, 2 rounds in all, every deadline | is the exposure conserved, does the reserve cover every pending approval, does every claim end? |

Bounds. Two processes are enough for every race in the code, because each race
is between a step and one competing step on the same file, record or lease; three
requests are needed in `relay_admission` for one that fits with neither of two
that fit together. Two claims that may each take the whole maximum are enough in
`guarantor_coverage` for the aggregate to be exceeded; two rounds allow a
challenge followed by a revision. Clocks run one past the last deadline or window that matters.
Depth 3 in `exact_relay` is the smallest in which an anchor can be read after
the block above it was replaced; four blocks leave room for the payment, its
arrival and the anchor. `MaxCalls = 4` in the gate lets each gate fail once and
retry once. `MaxTime`, `MaxHeight`, `MaxForks`, `MaxRevision`, `MaxReorgs`,
`MaxCalls`, `MaxCheckpoint`, `MaxTransactions`, `MaxAnswers`, `MaxObservation`,
`MaxClaims`, `MaxRounds` are
bounds of the model only. Symmetry is used for interchangeable processes, keys
and handles in runs without liveness.

Deadlock is checked in `native_relay` and `finalized_read`, where somebody can
always call again. The others stop for good at a bound or when every escrow or
action is closed.

Fairness. `buyer_retry` assumes that a caller keeps asking, that the sender does
not fail for ever, that flock serves its waiters in turn, and that waiters for the
lease do not die again and again; a crash loop exactly there keeps a purchase
prepared for ever, and nothing in the code can prevent it. `relay_live` assumes that
time passes, that a block holding a payment becomes final, that Resolve is called
again and again (clients poll it; the provider has no worker of its own), that a
step reached again and again is sometimes taken before the process dies, and that
an external service with a decisive answer gives it some time.
`guarantor_coverage` assumes that deadlines pass and that the decision-admission
authority, which only materializes what a deadline allows, records the fallback
and the close of a challenge. Nobody has to decide, respond or challenge.

## What the code does differently from what it says

Two disagreements have a run of their own.

- `gate_lost`: `store.go:61` returns an existing claim with equal evidence without
  syncing the directory. If the process that linked it died before `syncDir`, a
  power loss can free a purchase that was granted.
- `relay_collapse`: `RecordSponsorship` is idempotent and returns the current
  record, also one that another Submit has already moved to SUBMITTED. The second
  Submit can then close a combined action as sponsorship-only while the bytes
  are out.

Others are exceptions written into a property, next to its comment:

- `Restorable`: a sponsor-only record that died between its transfer and the
  terminal transition is not accepted by RestoreRecord (`state.go:1237`), and
  Resolve does not conclude it (`service.go:768`), which is why `relay_live` leaves that
  mode out. A sponsorship-only outcome that is corroborated only through the
  transaction's class is stored and not accepted (`state.go:338`).
- `SubmittedBeforeWrite`: Resolve of a PREPARED action whose top-up is absent may
  write before SUBMITTED (`service.go:874`, against the comment at 654).
- `TerminalIsTrue`: not for two concurrent Submits of a combined
  action (`Contended`).
- `NoRebroadcastAfterTerminal`: an observation of a block that was replaced since
  may have a higher sequence, pass the fence and call a resend safe. The chain
  refuses those bytes.
- `FenceMonotone`: a checkpoint write that is cut off leaves an empty file, which
  reads as no checkpoint (`checkpoint_store.go:65`).
- `Concludes` of the guarantor: for terms whose fallback subjects are the decision
  authority's. Otherwise a fallback decision is admitted, and no later step can
  prove it, because the proof is verified with the decision authority's subjects
  (`decision_admission_proof.go:107`); `fallback.go:89` says that the claim is
  not left open for ever. And for the deny-zero rule: admission holds only
  the pending reserve to the maximum (`decision.go:389`), not reserve and applied
  approvals together, and the benefit rule has no answer once their sum exceeds it
  (`claim.go:302`).
- `ReserveCovers` of the guarantor is an inequality: a claim revised while a
  challenge is pending leaves the reserve of its replaced token behind. A claim
  can be revised once, as ReviseAdmittedClaim keeps the digest of the first body
  (`state.go:389`). An approval whose challenge closes after the terminal
  resolution deadline cannot be applied (`claim.go:559`), so a late recovery can
  deny and not pay.

## Proofs

| theorem | states |
|---|---|
| `NativeRelayProofs!TypeCorrect` | type correctness of the relayer |
| `NativeRelayProofs!SingleBroadcast` | the sender is called at most once per slot |
| `NativeRelayProofs!PreparedRecoverable` | a prepared slot was never sent |
| `ExecutionGateProofs!GateTypeCorrect` | type correctness of the gates |
| `ExecutionGateProofs!SingleIntent` | one intent per purchase, if `Writeback` |
| `ExecutionGateProofs!ClaimsAdvance` | a claim is never lost, rebound or taken back, except a file by a power loss |

They hold for any number of processes, keys, slots, escrows, any clock bound and
any limits that satisfy the named assumptions (`RelayAssumption`,
`LimitsAssumption`, `GateAssumption`).

*SingleBroadcast.* "At most one call per slot" is not inductive: nothing in it
forbids a second relayer to stand before the sender. `PayInv` adds that a relayer
before the sender holds a lease that is on disk and unused (`LeaseHeld`), that
no two stand there for one slot (`LeaseUnique`), and that a slot that is absent
or prepared has never been sent (`PreparedIsUnsent`). Taking the lease is the only step
that makes a lease holder; it needs a prepared slot, so by `PreparedIsUnsent` no
earlier send, and by `LeaseHeld` no other holder. A crash only removes holders.

*SingleIntent.* It follows from `GrantBound` (what was returned is bound in the
claim file), which a power loss can break. `DiskBound` adds that it is bound on
disk, and that file and disk differ only where the lock holder is about to sync;
`LockHolder` says there is at most one such gate and that the file is its own.

Left to TLC: liveness (`PreparedRecovers`, both `Concludes`), which the prover cannot
treat under fairness; sums over sets (`BudgetRespected`, `ExposureBounded`,
`ReserveCovers`), whose
folds would need induction over data; and the refinements of `PayOnce`, not proved
yet.

## Not modelled

`PROJECT.json` names every part with the reason. In short: codecs, cell
builders, digests, signatures and validators of single documents are pure and
appear as checks that hold or fail; transports and commands are I/O; the parts in
the plan below are missing.

## Plan

1. The rest of the coverage guarantor: an offer before it is issued, the collateral
   machine, the resolving states of the transition tables, revision-ingress
   epochs; and a proof that the exposure is conserved.
2. Prediction market reference model, with conservation of backing as invariant
   and theorem.
3. Native registry transitions (`preflightTargetTransition`), then the relayer over
   them instead of over abstract slots.
4. Paid-demand buyer over the V2 escrow, composed with the gate: a granted
   execution of a funded escrow can be settled or refunded, not both.
5. Billing obligations, gift transitions, the catalog store and the replay guard.
6. Proofs: the rest of the Native journal (`AnswersAreEarned`, the refinement of
   `PayOnce`), `SuccessIsFunded` and the refinement of `PayOnce` for the buyer,
   `AdmittedOnce` of the admission, `ServedIsTrue` of the reads (two quorums
   intersect in an honest endpoint).
