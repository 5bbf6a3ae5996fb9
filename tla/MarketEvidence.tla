--------------------------- MODULE MarketEvidence ---------------------------
(***************************************************************************)
(* The evidence manifests of a prediction market's resolution statements   *)
(* (pkg/predictionmarket/evidence.go). A manifest's entries are sorted and *)
(* stored in a balanced tree of cells; its hash is what oracles sign, so a *)
(* set of entries must have one cell only. A manifest is built from a list *)
(* of entries in any order, travels (and may arrive regrouped, reordered   *)
(* or miscounted), and is decoded.                                         *)
(***************************************************************************)
EXTENDS Integers, Sequences, SequencesExt

CONSTANTS Kinds,              \* SourceKind
          SourceIDs,          \* canonical source ids: non-empty sequences of letters > 0
          ContentDigests,            \* content digests: sequences of bytes, all of one length
          MaxEvidenceEntries

VARIABLES manifest  \* [stage, entries, cell]: the list, its cell, what was decoded

EvidenceEntry == [kind : Kinds, id : SourceIDs, digest : ContentDigests]
EvidenceLists == UNION {[1 .. n -> EvidenceEntry] : n \in 1 .. MaxEvidenceEntries + 1}
NoEntries == << >>
NoCell == [count |-> 0]

\* evidenceSortKey: the byte after the id is left 0, and no id holds a 0.
EvidenceSortKey(e) == <<e.kind>> \o e.id \o <<0>> \o e.digest

\* bytes.Compare(s, t) < 0
BytesBefore(s, t) ==
  \/ IsStrictPrefix(s, t)
  \/ \E i \in 1 .. Len(s) : /\ i <= Len(t) /\ s[i] < t[i]
                            /\ SubSeq(s, 1, i - 1) = SubSeq(t, 1, i - 1)

UnsortedEntries(list) ==
  IF Len(list) \notin 1 .. MaxEvidenceEntries \/ Cardinality(ToSet(list)) < Len(list)
  THEN NoEntries ELSE list

CanonicalEvidenceEntries(list) ==
  LET sorted == SortSeq(list, LAMBDA d, e : BytesBefore(EvidenceSortKey(d), EvidenceSortKey(e))) IN
  IF \/ Len(list) \notin 1 .. MaxEvidenceEntries
     \/ \E i \in 2 .. Len(list) : EvidenceSortKey(sorted[i - 1]) = EvidenceSortKey(sorted[i])
  THEN NoEntries ELSE sorted

RECURSIVE BuildEvidenceTree(_)
BuildEvidenceTree(list) ==
  LET middle == Len(list) \div 2 IN
  IF Len(list) = 1 THEN [count |-> 1, leaf |-> list]
  ELSE [count |-> Len(list),
        left |-> BuildEvidenceTree(SubSeq(list, 1, middle)),
        right |-> BuildEvidenceTree(SubSeq(list, middle + 1, Len(list)))]

RECURSIVE DecodeEvidenceTree(_, _)
DecodeEvidenceTree(tree, expected) ==
  LET middle == expected \div 2
      left == DecodeEvidenceTree(tree.left, middle)
      right == DecodeEvidenceTree(tree.right, expected - middle) IN
  CASE expected < 1 \/ expected > MaxEvidenceEntries \/ tree.count # expected -> NoEntries
    [] "leaf" \in DOMAIN tree -> IF expected = 1 THEN tree.leaf ELSE NoEntries
    [] expected = 1 \/ left = NoEntries \/ right = NoEntries -> NoEntries
    [] OTHER -> left \o right

BuildPredictionEvidenceManifestCell(list) ==
  LET entries == CanonicalEvidenceEntries(list) IN
  IF entries = NoEntries THEN NoCell
  ELSE [count |-> Len(entries), tree |-> BuildEvidenceTree(entries)]

\* DecodePredictionEvidenceManifestV1: the header, the tree, the order of the
\* entries, and the rebuilt cell.
DecodePredictionEvidenceManifest(cell) ==
  LET entries == DecodeEvidenceTree(cell.tree, cell.count)
      canonical == CanonicalEvidenceEntries(entries) IN
  IF \/ cell.count \notin 1 .. MaxEvidenceEntries \/ entries = NoEntries
     \/ canonical = NoEntries
     \/ \E i \in 1 .. Len(entries) : EvidenceSortKey(entries[i]) # EvidenceSortKey(canonical[i])
     \/ BuildPredictionEvidenceManifestCell(entries) # cell
  THEN NoEntries ELSE entries

------------------------------------------------------------------------------
EvidenceInit ==
  manifest = [stage |-> "none", entries |-> NoEntries, cell |-> NoCell, decoded |-> NoEntries]

BuildManifest(list) ==
  /\ manifest.stage = "none"
  /\ manifest' = [manifest EXCEPT !.stage = "sent", !.entries = list,
                                  !.cell = BuildPredictionEvidenceManifestCell(list)]

LeafCell(e) == [count |-> 1, leaf |-> <<e>>]
PairCell(l, r) == [count |-> l.count + r.count, left |-> l, right |-> r]
\* Cells of the same entries with another grouping, order or count.
OtherCells(cell) ==
  LET e == DecodeEvidenceTree(cell.tree, cell.count)
      permuted == {[i \in DOMAIN e |-> e[p[i]]] : p \in Permutations(DOMAIN e)} IN
  {[cell EXCEPT !.count = @ + 1]}
    \cup {[cell EXCEPT !.tree = BuildEvidenceTree(f)] : f \in permuted}
    \cup {[cell EXCEPT !.tree = PairCell(PairCell(LeafCell(f[1]), LeafCell(f[2])), LeafCell(f[3]))] :
            f \in {f \in permuted : Len(f) = 3}}

ManifestArrives ==
  /\ manifest.stage = "sent" /\ manifest.cell # NoCell
  /\ \E cell \in {manifest.cell} \cup OtherCells(manifest.cell) :
       manifest' = [manifest EXCEPT !.stage = "decoded", !.cell = cell,
                                    !.decoded = DecodePredictionEvidenceManifest(cell)]

EvidenceNext == (\E list \in EvidenceLists : BuildManifest(list)) \/ ManifestArrives

\* A list without duplicates gets a cell whatever its order, that cell
\* decodes to the same entries, and no other cell of these entries decodes:
\* the manifest hash identifies the set of entries.
OneCellPerManifest ==
  LET m == manifest
      distinct == Cardinality(ToSet(m.entries)) = Len(m.entries) IN
  /\ m.stage = "sent" =>
       (m.cell # NoCell <=> distinct /\ Len(m.entries) <= MaxEvidenceEntries)
  /\ m.stage = "decoded" =>
       /\ m.decoded # NoEntries <=> m.cell = BuildPredictionEvidenceManifestCell(m.entries)
       /\ m.decoded # NoEntries => ToSet(m.decoded) = ToSet(m.entries)
=============================================================================
