---------------------------- MODULE ExecutionGate ----------------------------
(***************************************************************************)
(* The provider's execution gate (pkg/executiongate). ClaimExecution and   *)
(* ClaimPaidDemandExecution read three finalized objects one after the     *)
(* other (the escrow, the provider's Agent, its Capability) and then bind  *)
(* the purchase to one execution intent in a claim file, under a file      *)
(* lock. Gates of several processes share the claim directory. A finalized *)
(* read may lag behind the chain. The chain is external.                   *)
(*                                                                         *)
(* disk is what survives a power loss: a link or a rename is certain to be *)
(* on disk only after syncDir. Writeback says that the power never fails   *)
(* before the kernel has written back what a process left unsynced.        *)
(***************************************************************************)
EXTENDS Integers, Sequences, FiniteSetsExt

CONSTANTS Gates, Escrows, Quotes, Executions, Works, CodeHashes,
          QuoteOf,            \* the quote an escrow's state commits to
          RefundAvailableAt,
          ExecutionDeadline,  \* of a schema 1 escrow: its RefundAvailableAt
          RegistryHash,       \* registry code hash a gate is configured with
          Committed,          \* works a gate's agreement commits to
          MaxCheckpoint, MaxTime, MaxCalls, Writeback, None

Objects == {"escrow", "agent", "capability"}
Requests == [escrow : Escrows, quote : Quotes, execution : Executions, work : Works]
Statuses == {"awaiting", "funded", "released", "refunded"}
Snapshots == [status : [Escrows -> Statuses], agent : BOOLEAN,
              capability : BOOLEAN, code : CodeHashes]
EvidenceSet == [code : CodeHashes, checkpoint : [Objects -> 0 .. MaxCheckpoint],
             transaction : [Objects -> 0 .. MaxCheckpoint]]
Keys == Quotes \X Escrows
Claims == [request : Requests, evidence : EvidenceSet]
Labels == {"idle", "escrow", "agent", "capability", "claim", "sync"}
NoEvidence == [code |-> CHOOSE c \in CodeHashes : TRUE,
               checkpoint |-> [o \in Objects |-> 0],
               transaction |-> [o \in Objects |-> 0]]
\* No claim file.
NoClaim == [request |-> None, evidence |-> NoEvidence]

ASSUME GateAssumption ==
  /\ QuoteOf \in [Escrows -> Quotes]
  /\ RefundAvailableAt \in [Escrows -> Nat] /\ ExecutionDeadline \in [Escrows -> Nat]
  /\ \A e \in Escrows : ExecutionDeadline[e] <= RefundAvailableAt[e]
  /\ RegistryHash \in [Gates -> CodeHashes] /\ Committed \in [Gates -> SUBSET Works]
  /\ MaxCheckpoint \in Nat \ {0} /\ MaxTime \in Nat /\ MaxCalls \in Nat
  /\ Writeback \in BOOLEAN
  /\ None \notin Requests /\ CodeHashes # {}

VARIABLES
  chain,     \* finalized states, one per checkpoint
  clock,
  pc, request, evidence,  \* the call each gate is serving
  tip,       \* checkpoint of the chain when the call read the clock
  file,      \* claim-*.json as every process sees them
  disk,      \* claim-*.json as a power loss leaves them
  granted,   \* claims the gates returned
  calls

local == <<pc, request, evidence, tip>>
vars == <<chain, clock, local, file, disk, granted, calls>>

Key(r) == <<r.quote, r.escrow>>
KeyOf(g) == Key(request[g])
Goto(g, l) == pc' = [pc EXCEPT ![g] = l]
Return(g) ==
  /\ Goto(g, "idle")
  /\ request' = [request EXCEPT ![g] = None]
  /\ evidence' = [evidence EXCEPT ![g] = NoEvidence]
  /\ tip' = [tip EXCEPT ![g] = 0]

-----------------------------------------------------------------------------
(* The chain. *)

Current == chain[Len(chain)]

View(o, e, c) == CASE o = "escrow" -> chain[c].status[e]
                   [] o = "agent" -> chain[c].agent
                   [] o = "capability" -> chain[c].capability

\* The transaction that last changed an object, named by its checkpoint.
LastTransaction(o, e, c) ==
  Max({i \in 1 .. c : i = 1 \/ View(o, e, i) # View(o, e, i - 1)})

FinalizeBlock(s) ==
  /\ Len(chain) < MaxCheckpoint
  /\ s # Current
  /\ chain' = Append(chain, s)
  /\ UNCHANGED <<clock, local, file, disk, granted, calls>>

Fund(e) ==
  /\ Current.status[e] = "awaiting"
  /\ FinalizeBlock([Current EXCEPT !.status[e] = "funded"])

\* The provider's receipt releases the price, or the buyer takes it back.
Release(e) ==
  /\ Current.status[e] = "funded"
  /\ \E d \in granted : d.claim.request.escrow = e
  /\ FinalizeBlock([Current EXCEPT !.status[e] = "released"])

Refund(e) ==
  /\ Current.status[e] = "funded" /\ clock >= RefundAvailableAt[e]
  /\ FinalizeBlock([Current EXCEPT !.status[e] = "refunded"])

Tombstone == FinalizeBlock([Current EXCEPT !.agent = FALSE])
\* The version is revoked, or the capability transferred or tombstoned.
Revoke == FinalizeBlock([Current EXCEPT !.capability = FALSE])
UpgradeRegistry == \E c \in CodeHashes : FinalizeBlock([Current EXCEPT !.code = c])

Tick ==
  /\ clock < MaxTime /\ clock' = clock + 1
  /\ UNCHANGED <<chain, local, file, disk, granted, calls>>

-----------------------------------------------------------------------------
(* ClaimExecution and ClaimPaidDemandExecution, up to the store. *)

ClaimExecution(g, r) ==
  /\ pc[g] = "idle" /\ calls < MaxCalls
  /\ calls' = calls + 1
  /\ request' = [request EXCEPT ![g] = r]
  /\ Goto(g, "escrow")
  /\ UNCHANGED <<chain, clock, evidence, tip, file, disk, granted>>

\* A finalized read of object o at checkpoint c becomes part of the evidence.
Saw(g, o, c) == evidence' = [evidence EXCEPT ![g] =
  [code |-> RegistryHash[g],
   checkpoint |-> [evidence[g].checkpoint EXCEPT ![o] = c],
   transaction |-> [evidence[g].transaction EXCEPT
                      ![o] = LastTransaction(o, request[g].escrow, c)]]]

\* The clock is read after the escrow, which may be an older finalized state.
Executable(g, c) ==
  LET r == request[g] IN
  /\ chain[c].status[r.escrow] = "funded"
  /\ QuoteOf[r.escrow] = r.quote
  /\ ExecutionDeadline[r.escrow] > clock /\ RefundAvailableAt[r.escrow] > clock
  /\ r.work \in Committed[g]

ReadEscrow(g) ==
  /\ pc[g] = "escrow"
  /\ \E c \in 1 .. Len(chain) :
       IF Executable(g, c)
       THEN /\ Saw(g, "escrow", c) /\ Goto(g, "agent")
            /\ tip' = [tip EXCEPT ![g] = Len(chain)]
            /\ UNCHANGED request
       ELSE Return(g)
  /\ UNCHANGED <<chain, clock, file, disk, granted, calls>>

\* resolveNative accepts only state under the configured registry code.
ReadAgent(g) ==
  /\ pc[g] = "agent"
  /\ \E c \in 1 .. Len(chain) :
       IF chain[c].code = RegistryHash[g] /\ chain[c].agent
       THEN /\ Saw(g, "agent", c) /\ Goto(g, "capability")
            /\ UNCHANGED <<request, tip>>
       ELSE Return(g)
  /\ UNCHANGED <<chain, clock, file, disk, granted, calls>>

ReadCapabilityUnchecked(g) ==
  /\ pc[g] = "capability"
  /\ \E c \in 1 .. Len(chain) :
       IF chain[c].code = RegistryHash[g]
       THEN /\ Saw(g, "capability", c) /\ Goto(g, "claim")
            /\ UNCHANGED <<request, tip>>
       ELSE Return(g)
  /\ UNCHANGED <<chain, clock, file, disk, granted, calls>>
ReadCapability(g) ==
  /\ pc[g] = "capability"
  /\ \E c \in 1 .. Len(chain) :
       IF chain[c].code = RegistryHash[g] /\ chain[c].capability
       THEN /\ Saw(g, "capability", c) /\ Goto(g, "claim")
            /\ UNCHANGED <<request, tip>>
       ELSE Return(g)
  /\ UNCHANGED <<chain, clock, file, disk, granted, calls>>

\* A resolver fails, or the call's context is done.
ReadFails(g) ==
  /\ pc[g] \in {"escrow", "agent", "capability"}
  /\ Return(g)
  /\ UNCHANGED <<chain, clock, file, disk, granted, calls>>

-----------------------------------------------------------------------------
(* store.claim, under .execution-gate.lock. *)

\* Who holds the lock between the link or rename and the end of syncDir.
Locked == \E g \in Gates : pc[g] = "sync"

sameAuthority(a, b) == a.code = b.code
regressed(old, new) == \E o \in Objects : new.checkpoint[o] < old.checkpoint[o]
sameObservation(old, new) ==
  \A o \in Objects : old.checkpoint[o] = new.checkpoint[o]
                       => old.transaction[o] = new.transaction[o]

AdmissibleAnyIntent(old, r, new) ==
  /\ sameAuthority(old.evidence, new) /\ ~regressed(old.evidence, new)
  /\ sameObservation(old.evidence, new)
AdmissibleAnyCheckpoint(old, r, new) ==
  /\ old.request = r /\ sameAuthority(old.evidence, new)
  /\ sameObservation(old.evidence, new)
Admissible(old, r, new) ==
  /\ old.request = r
  /\ sameAuthority(old.evidence, new) /\ ~regressed(old.evidence, new)
  /\ sameObservation(old.evidence, new)

Mine(g) == [request |-> request[g], evidence |-> evidence[g]]
Grant(g) == granted' = granted \cup {[claim |-> Mine(g), tip |-> tip[g]]}

StoreClaim(g) ==
  /\ pc[g] = "claim" /\ ~Locked
  /\ LET old == file[KeyOf(g)] IN
     CASE old # NoClaim /\ ~Admissible(old, request[g], evidence[g]) ->
            Return(g) /\ UNCHANGED <<file, granted>>
       [] old = Mine(g) -> Grant(g) /\ Return(g) /\ UNCHANGED file
       [] OTHER -> /\ file' = [file EXCEPT ![KeyOf(g)] = Mine(g)]
                   /\ Goto(g, "sync")
                   /\ UNCHANGED <<request, evidence, tip, granted>>
  /\ UNCHANGED <<chain, clock, disk, calls>>

SyncDir(g) ==
  /\ pc[g] = "sync"
  /\ disk' = file
  /\ Grant(g) /\ Return(g)
  /\ UNCHANGED <<chain, clock, file, calls>>

\* The temporary file cannot be written, linked or renamed.
WriteFails(g) ==
  /\ pc[g] = "claim" /\ ~Locked
  /\ Return(g)
  /\ UNCHANGED <<chain, clock, file, disk, granted, calls>>

\* A call ends with the claim file linked and the directory not synced.
LeaveUnsynced(g) == disk' = IF Writeback /\ pc[g] = "sync" THEN file ELSE disk

SyncDirFails(g) ==
  /\ pc[g] = "sync"
  /\ LeaveUnsynced(g)
  /\ Return(g)
  /\ UNCHANGED <<chain, clock, file, granted, calls>>

\* The process dies; the kernel releases its lock.
Crash(g) ==
  /\ pc[g] # "idle"
  /\ LeaveUnsynced(g)
  /\ Return(g)
  /\ UNCHANGED <<chain, clock, file, granted, calls>>

\* Every process dies, and each file is as old or as new as the disk has it.
PowerLoss ==
  /\ \E kept \in SUBSET {k \in Keys : file[k] # disk[k]} :
       /\ file' = [k \in Keys |-> IF k \in kept THEN file[k] ELSE disk[k]]
       /\ disk' = file'
  /\ pc' = [g \in Gates |-> "idle"]
  /\ request' = [g \in Gates |-> None]
  /\ evidence' = [g \in Gates |-> NoEvidence]
  /\ tip' = [g \in Gates |-> 0]
  /\ UNCHANGED <<chain, clock, granted, calls>>

-----------------------------------------------------------------------------
Init ==
  /\ chain \in {<<s>> : s \in {t \in Snapshots :
                    /\ \A e \in Escrows : t.status[e] \in {"awaiting", "funded"}
                    /\ t.agent /\ t.capability}}
  /\ clock = 0
  /\ pc = [g \in Gates |-> "idle"]
  /\ request = [g \in Gates |-> None]
  /\ evidence = [g \in Gates |-> NoEvidence]
  /\ tip = [g \in Gates |-> 0]
  /\ file = [k \in Keys |-> NoClaim] /\ disk = [k \in Keys |-> NoClaim]
  /\ granted = {} /\ calls = 0

ChainNext ==
  \/ \E e \in Escrows : Fund(e) \/ Release(e) \/ Refund(e)
  \/ Tombstone \/ Revoke \/ UpgradeRegistry \/ Tick

Next ==
  \/ ChainNext
  \/ \E g \in Gates :
       \/ \E r \in Requests : ClaimExecution(g, r)
       \/ ReadEscrow(g) \/ ReadAgent(g) \/ ReadCapability(g) \/ ReadFails(g)
       \/ StoreClaim(g) \/ SyncDir(g) \/ WriteFails(g) \/ SyncDirFails(g)
       \/ Crash(g)
  \/ PowerLoss

Spec == Init /\ [][Next]_vars
-----------------------------------------------------------------------------
(* Properties. *)

\* The objects a call has read by the time it is at a label.
ReadBefore == [idle |-> {}, escrow |-> {}, agent |-> {"escrow"},
               capability |-> {"escrow", "agent"}, claim |-> Objects, sync |-> Objects]

\* Every variable keeps its type, and the store is asked only with evidence of
\* all three objects (validEvidence).
TypeOK ==
  /\ chain \in Seq(Snapshots) /\ Len(chain) \in 1 .. MaxCheckpoint
  /\ clock \in 0 .. MaxTime
  /\ pc \in [Gates -> Labels]
  /\ request \in [Gates -> Requests \cup {None}]
  /\ \A g \in Gates : pc[g] # "idle" => request[g] # None
  /\ evidence \in [Gates -> EvidenceSet]
  /\ \A g \in Gates : \A o \in ReadBefore[pc[g]] : evidence[g].checkpoint[o] > 0
  /\ tip \in [Gates -> 0 .. MaxCheckpoint]
  /\ file \in [Keys -> Claims \cup {NoClaim}] /\ disk \in [Keys -> Claims \cup {NoClaim}]
  /\ granted \subseteq [claim : Claims, tip : 0 .. MaxCheckpoint]
  /\ calls \in 0 .. MaxCalls

\* gate.go:83: the same funded Quote and escrow may be claimed by exactly one
\* complete request, whichever gates race, crash and retry.
OneIntentPerPurchase ==
  \A c, d \in granted :
    Key(c.claim.request) = Key(d.claim.request) => c.claim.request = d.claim.request

Keeps(old, new) ==
  old # NoClaim => /\ new # NoClaim /\ new.request = old.request
                   /\ ~regressed(old.evidence, new.evidence)

\* A claim on disk never disappears, is never bound to another request, and its
\* evidence never goes back to an older checkpoint; nor does a claim file,
\* unless the power fails (store.claim).
ClaimAdvances ==
  [][\A k \in Keys : /\ Keeps(disk[k], disk'[k])
                     /\ Keeps(file[k], file'[k]) \/ PowerLoss]_vars

\* The finalized objects named by the evidence of a returned claim really gave
\* the provider its authority at those checkpoints, under one registry code.
GrantWasAuthorized ==
  \A c \in granted :
    LET at == c.claim.evidence.checkpoint IN
    /\ chain[at["escrow"]].status[c.claim.request.escrow] = "funded"
    /\ chain[at["agent"]].agent /\ chain[at["capability"]].capability
    /\ chain[at["agent"]].code = c.claim.evidence.code
    /\ chain[at["capability"]].code = c.claim.evidence.code

\* However old the escrow state a gate read is, the buyer had not been refunded
\* when the gate admitted the call: it compares the clock with the refund time
\* (ClaimExecution, RefundAvailableAt).
NotRefundedWhenAdmitted ==
  \A c \in granted : chain[c.tip].status[c.claim.request.escrow] # "refunded"

\* A returned claim rests on authority the provider had, over money the buyer
\* had not taken back.
GrantIsSound == GrantWasAuthorized /\ NotRefundedWhenAdmitted
=============================================================================
