----------------------------- MODULE Engagement -----------------------------
(***************************************************************************)
(* The dependencies of a portfolio (pkg/agentcommerce/schedule.go):        *)
(* ValidatePortfolioDependencies searches the blocking edges between the   *)
(* obligations of several agreements for a cycle, starting from the nodes  *)
(* in the order of a Go map, which is any order.                           *)
(***************************************************************************)
EXTENDS Integers, FiniteSetsExt

CONSTANT Obligated   \* obligations of the portfolio's agreements

VARIABLE search      \* the dependency graph and the progress of the search

------------------------------------------------------------------------------
(* The search for a cycle among the blocking edges. edges[n] is the list of *)
(* the nodes n blocks; a call of cycle(n) is its stack of open nodes.       *)
NoSearch == [edges |-> << >>, visited |-> {}, todo |-> {}, verdict |-> "none"]

\* The nodes of a call's stack are marked for good, not only while open.
RECURSIVE NeverUnmarked(_, _, _)
NeverUnmarked(edges, node, marks) ==
  IF node \in marks.visiting THEN [marks EXCEPT !.cycle = TRUE]
  ELSE FoldSet(LAMBDA next, m : IF m.cycle THEN m ELSE NeverUnmarked(edges, next, m),
               [marks EXCEPT !.visiting = @ \cup {node}], edges[node])

RECURSIVE Cycle(_, _, _)
Cycle(edges, node, marks) ==
  LET inside == FoldSet(LAMBDA next, m : IF m.cycle THEN m ELSE Cycle(edges, next, m),
                        [marks EXCEPT !.visiting = @ \cup {node}], edges[node]) IN
  CASE node \in marks.visiting -> [marks EXCEPT !.cycle = TRUE]
    [] node \in marks.visited -> marks
    [] inside.cycle -> inside
    [] OTHER -> [inside EXCEPT !.visiting = @ \ {node}, !.visited = @ \cup {node}]

\* Edges of class "informational" are not among them; the nodes without an
\* edge are no keys of the map.
ReceiveDependencies(edges) ==
  LET keys == {n \in Obligated : edges[n] # {}} IN
  /\ search = NoSearch
  /\ search' = [edges |-> edges, visited |-> {}, todo |-> keys,
                verdict |-> IF keys = {} THEN "accepted" ELSE "none"]

SearchFrom(node) ==
  LET marks == Cycle(search.edges, node,
                     [visiting |-> {}, visited |-> search.visited, cycle |-> FALSE]) IN
  /\ search.verdict = "none" /\ node \in search.todo
  /\ search' = [search EXCEPT
       !.visited = marks.visited, !.todo = @ \ {node},
       !.verdict = CASE marks.cycle -> "cycle"
                     [] search.todo = {node} -> "accepted"
                     [] OTHER -> "none"]

------------------------------------------------------------------------------
EngagementInit == search = NoSearch

EngagementNext ==
  \/ \E edges \in [Obligated -> SUBSET Obligated] : ReceiveDependencies(edges)
  \/ \E node \in Obligated : SearchFrom(node)

------------------------------------------------------------------------------
Reachable(edges, n) ==
  LET steps[k \in 0 .. Cardinality(Obligated)] ==
        IF k = 0 THEN edges[n] ELSE steps[k - 1] \cup UNION {edges[m] : m \in steps[k - 1]} IN
  steps[Cardinality(Obligated)]

\* In whatever order the map yields the nodes, the search accepts exactly
\* the portfolios without a blocking cycle.
CycleFoundIfAny ==
  search.verdict # "none" =>
    (search.verdict = "cycle") <=> \E n \in Obligated : n \in Reachable(search.edges, n)
=============================================================================
