---------------------------- MODULE GraphBuilder ----------------------------
(***************************************************************************)
(* buildExecutionGraph() of packages/core/src/graph/graph-builder.ts: in   *)
(* which order the nodes of a run are drawn, one below the other, and what *)
(* connects them.  `rows` is a function: the store gives its rows in the   *)
(* order of their indices, which are numbers.                              *)
(***************************************************************************)
EXTENDS Naturals, Sequences, FiniteSets, FiniteSetsExt, SequencesExt

Roots(rows)       == {i \in DOMAIN rows : rows[i].parent = 0}
Children(rows, i) == {j \in DOMAIN rows : rows[j].parent = rows[i].id}

(* What dfs() may visit next: a child of the innermost call that has one   *)
(* left (the calls after it have returned), or else a root.                *)
ToVisit(rows, visited) ==
  LET Left(S) == S \ ToSet(visited)
      calling == {k \in DOMAIN visited : Left(Children(rows, visited[k])) # {}}
  IN  IF calling = {} THEN Left(Roots(rows))
                      ELSE Left(Children(rows, visited[Max(calling)]))

Visit(rows, visited) ==
  IF ToVisit(rows, visited) = {} THEN visited
  ELSE Append(visited, Min(ToVisit(rows, visited)))

(* The nodes dfs() visits from the roots: no more than there are.          *)
Visited(rows) ==
  LET after[visits \in Nat] ==
        IF visits = 0 THEN <<>> ELSE Visit(rows, after[visits - 1])
  IN  after[Cardinality(DOMAIN rows)]

(* Mutant: what no root leads to is not drawn.                             *)
PlacesOfTheRoots(rows) ==
  LET visited == Visited(rows)
  IN  [i \in ToSet(visited) |-> CHOOSE k \in DOMAIN visited : visited[k] = i]

(* How far down each node is drawn, as it comes in orderedIds.  Nodes that *)
(* no root leads to (they hang from one that was not persisted) come last. *)
Places(rows) ==
  LET visited == Visited(rows)
      rest    == DOMAIN rows \ ToSet(visited)
  IN  [i \in DOMAIN rows |->
         IF i \in rest THEN Len(visited) + Cardinality({j \in rest : j <= i})
                       ELSE CHOOSE k \in DOMAIN visited : visited[k] = i]

(* Who is connected: the parent, if it is there, and the child.            *)
Edges(rows) ==
  {e \in (DOMAIN rows) \X (DOMAIN rows) : rows[e[2]].parent = rows[e[1]].id}
=============================================================================
