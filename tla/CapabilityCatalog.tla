-------------------------- MODULE CapabilityCatalog --------------------------
(***************************************************************************)
(* The catalog a gateway keeps of Capabilities it has heard of             *)
(* (pkg/capabilitycatalog): a directory with one entry per Capability, its *)
(* fence, and the manifests by digest, shared by several processes under a *)
(* file lock.  A Capability is read again from finalized state before it   *)
(* is admitted or shown.  Readers walk the catalog page by page, with the  *)
(* last Capability of a page as the token for the next one.                *)
(*                                                                         *)
(* The chain and its resolvers are external: there is one finalized state  *)
(* per checkpoint, and a resolver may be behind.  A checkpoint stands for  *)
(* the hash of the state there, a manifest for its bytes and its digest.   *)
(***************************************************************************)
EXTENDS Integers, Sequences, FiniteSets, FiniteSetsExt

CONSTANTS CatalogProcesses,
          Uses,           \* what each process is asked for: "publish", "list", "search"
          Capabilities,   \* IDs, a set of positive numbers: pages are in their order
          Manifests,
          Version,        \* the version each manifest says it is of
          MaxEntries, PageSize,
          MaxHistoryLength  \* bound on the checkpoints

VARIABLES states,     \* the finalized states, by checkpoint
          entries,    \* the fence of each Capability, 0 without an entry
          manifests,  \* the stored manifests
          calls       \* what each process is doing

catalogVars == <<states, entries, manifests, calls>>

Absent == [found |-> FALSE]
Idle == [op |-> "idle"]
Versions == {Version[m] : m \in Manifests}
Known == {c \in Capabilities : entries[c] # 0}
-----------------------------------------------------------------------------
(* The store.                                                              *)

\* A plausible slip: the fence is only compared when a page is read.
NeverRollsBack(c, checkpoint) == FALSE

\* A state is older than the one the entry was made from.
RollsBack(c, checkpoint) == checkpoint < entries[c]

HasRoom(c) == entries[c] # 0 \/ Cardinality(Known) < MaxEntries

AdmitsObservation(c, checkpoint) == HasRoom(c) /\ ~RollsBack(c, checkpoint)

\* The manifest is written before the entry; the process may stop in between.
Publish(p) ==
  LET call == calls[p]
  IN  /\ call.op = "publish"
      /\ IF AdmitsObservation(call.capability, call.read)
         THEN /\ manifests' = manifests \cup {call.manifest}
              /\ entries' \in {entries, [entries EXCEPT ![call.capability] = call.read]}
         ELSE UNCHANGED <<manifests, entries>>
      /\ calls' = [calls EXCEPT ![p] = Idle]
      /\ UNCHANGED states
-----------------------------------------------------------------------------
(* Publication.                                                            *)

\* An active version of the state commits to the manifest.
Linked(state, m) ==
  /\ state.found /\ ~state.tombstoned
  /\ Version[m] \in DOMAIN state.versions
  /\ state.versions[Version[m]].manifest = m /\ ~state.versions[Version[m]].revoked

\* A resolver answers with the state at some finalized checkpoint.
PublishManifest(p) ==
  \E c \in Capabilities, m \in Manifests, checkpoint \in DOMAIN states :
    /\ calls[p] = Idle /\ "publish" \in Uses[p]
    /\ Linked(states[checkpoint][c], m)
    /\ calls' = [calls EXCEPT ![p] = [op |-> "publish", capability |-> c, manifest |-> m,
                                      read |-> checkpoint]]
    /\ UNCHANGED <<states, entries, manifests>>
-----------------------------------------------------------------------------
(* Walks through the catalog.                                              *)

Remaining(call) == {c \in Capabilities : call.fence[c] # 0 /\ c > call.after}

\* A page of List holds as many entries, one of Search as many results.
PageEnds(call) ==
  \/ Remaining(call) = {}
  \/ PageSize = IF call.op = "list" THEN call.scanned ELSE call.hits

NewPage(call) == [call EXCEPT !.fence = entries, !.scanned = 0, !.hits = 0]

StartWalk(p) ==
  \E op \in {"list", "search"} :
    /\ calls[p] = Idle /\ op \in Uses[p]
    /\ calls' = [calls EXCEPT ![p] =
          [op |-> op, start |-> Known, fence |-> entries, after |-> 0,
           scanned |-> 0, hits |-> 0, read |-> 0, visited |-> {}, shown |-> {}]]
    /\ UNCHANGED <<states, entries, manifests>>

\* The next entry of the snapshot is read again.  An answer that is missing
\* or behind the snapshot's fence ends the call with an error.
ResolveEntry(p) ==
  LET call == calls[p]
      c == Min(Remaining(call))
  IN  /\ call.op \in {"list", "search"} /\ call.read = 0 /\ ~PageEnds(call)
      /\ \E checkpoint \in DOMAIN states :
           calls' = [calls EXCEPT ![p] =
             IF ~states[checkpoint][c].found \/ checkpoint < call.fence[c] THEN Idle
             ELSE [call EXCEPT !.read = checkpoint]]
      /\ UNCHANGED <<states, entries, manifests>>

\* The versions a search can show: not revoked, with a manifest in the store.
Offered(state) ==
  {v \in DOMAIN state.versions : ~state.versions[v].revoked /\ state.versions[v].manifest \in manifests}

\* A manifest stored for one version and committed to under another is an error.
Conflicts(state) == \E v \in Offered(state) : Version[state.versions[v].manifest] # v

\* The best match, whatever the query: any of them, or none.
SearchResult(state) == {{}} \cup {{v} : v \in Offered(state)}

\* The fence moves up under the lock, or another process has moved it past
\* what was read and the call fails; then the entry is shown.
ObserveEntry(p) ==
  LET call == calls[p]
      c == Min(Remaining(call))
      state == states[call.read][c]
      advanced(results) ==
        [call EXCEPT !.after = c, !.read = 0, !.scanned = @ + 1, !.visited = @ \cup {c},
                     !.hits = @ + Cardinality(results),
                     !.shown = @ \cup {[capability |-> c, at |-> call.read, version |-> v] : v \in results}]
  IN  /\ call.op \in {"list", "search"} /\ call.read # 0
      /\ UNCHANGED <<states, manifests>>
      /\ IF ~AdmitsObservation(c, call.read)
         THEN calls' = [calls EXCEPT ![p] = Idle] /\ UNCHANGED entries
         ELSE /\ entries' = [entries EXCEPT ![c] = call.read]
              /\ IF call.op = "search" /\ ~state.tombstoned /\ Conflicts(state)
                 THEN calls' = [calls EXCEPT ![p] = Idle]
                 ELSE \E results \in IF state.tombstoned THEN {{}}
                                     ELSE IF call.op = "list" THEN {{"any"}} ELSE SearchResult(state) :
                        calls' = [calls EXCEPT ![p] = advanced(results)]

\* The reader asks for the page after the token, or has seen the last one.
NextPage(p) ==
  LET call == calls[p]
  IN  /\ call.op \in {"list", "search"} /\ call.read = 0 /\ PageEnds(call)
      /\ calls' = [calls EXCEPT ![p] = IF Remaining(call) # {} THEN NewPage(call) ELSE Idle]
      /\ UNCHANGED <<states, entries, manifests>>

\* A process that stops forgets its call; the files stay.
StopProcess(p) ==
  /\ calls[p] # Idle /\ calls' = [calls EXCEPT ![p] = Idle]
  /\ UNCHANGED <<states, entries, manifests>>
-----------------------------------------------------------------------------
(* The chain: one Capability changes per checkpoint.                       *)

Changes(state) ==
  IF ~state.found
  THEN [found : {TRUE}, tombstoned : {FALSE},
        versions : UNION {[{v} -> [manifest : Manifests, revoked : {FALSE}]] : v \in Versions}]
  ELSE IF state.tombstoned THEN {}
  ELSE {[state EXCEPT !.tombstoned = TRUE]}
       \cup {[state EXCEPT !.versions[v].revoked = TRUE] : v \in DOMAIN state.versions}

Checkpoint ==
  /\ Len(states) < MaxHistoryLength
  /\ \E c \in Capabilities : \E state \in Changes(states[Len(states)][c]) :
       states' = Append(states, [states[Len(states)] EXCEPT ![c] = state])
  /\ UNCHANGED <<entries, manifests, calls>>

CatalogInit ==
  /\ states \in {<<h>> : h \in [Capabilities -> {Absent} \cup
                   {s \in Changes(Absent) : \A v \in DOMAIN s.versions : Version[s.versions[v].manifest] = v}]}
  /\ entries = [c \in Capabilities |-> 0] /\ manifests = {}
  /\ calls = [p \in CatalogProcesses |-> Idle]

CatalogNext ==
  \/ \E p \in CatalogProcesses : \/ PublishManifest(p) \/ Publish(p) \/ StartWalk(p)
                          \/ ResolveEntry(p) \/ ObserveEntry(p) \/ NextPage(p) \/ StopProcess(p)
  \/ Checkpoint
-----------------------------------------------------------------------------
\* The catalog is not an authority, but what it holds and shows is true
\* (PublishManifest, List, Search and the file store under them, in several
\* processes).  Every stored manifest was committed to by an active version of
\* a finalized Capability; there are no more entries than configured, and a
\* fence never goes back.  A walk that ends has visited every Capability that
\* was in the catalog when it began, whatever was published meanwhile, and
\* shows each of them once; a tombstoned one, or a revoked version, is never
\* shown; and what was shown to anybody is fenced, and nothing behind the fence
\* of its page is shown, so nobody is shown an older state than others saw
\* before they asked.
CatalogIsSound ==
  /\ [](/\ Cardinality(Known) =< MaxEntries
        /\ \A m \in manifests :
             \E checkpoint \in DOMAIN states, c \in Capabilities : Linked(states[checkpoint][c], m)
        /\ \A p \in CatalogProcesses :
             LET call == calls[p]
             IN  call.op \in {"list", "search"} =>
                   /\ Remaining(call) = {} => call.start \subseteq call.visited
                   /\ \A r, s \in call.shown : r.capability = s.capability => r = s
                   /\ \A r \in call.shown :
                        LET state == states[r.at][r.capability]
                        IN  /\ r.at =< entries[r.capability]
                            /\ ~state.tombstoned
                            /\ call.op = "search" => Linked(state, state.versions[r.version].manifest)
                   /\ call.read # 0 => call.read >= call.fence[Min(Remaining(call))])
  /\ [][\A c \in Capabilities : entries'[c] >= entries[c]]_catalogVars
=============================================================================
