----------------------------- MODULE AgentRecord -----------------------------
(***************************************************************************)
(* The record a run of AgentLoop leaves in the store: its log, ingested    *)
(* when run() has returned (session-runner.ts, bin.ts), and the checkpoint *)
(* lookups the recover route and the node-state endpoint make on it.       *)
(***************************************************************************)
EXTENDS AgentLoop

Ingest == INSTANCE TraceIngestor
Lookup == INSTANCE CheckpointLookup
Graph  == INSTANCE GraphBuilder

Persisted   == pc = "returned"
Nodes       == Ingest!NodeRows(trace)
Checkpoints == Ingest!CheckpointRows(trace)
Branches    == Ingest!BranchRows(trace)

InMemory(n) == Lookup!InMemoryNearest(Nodes, Checkpoints, n.branch, n.id)
Postgres(n) == Lookup!PostgresNearest(Nodes, Checkpoints, n.branch, n.id)

-----------------------------------------------------------------------------
\* The graph of a run that completed is one tree: node ids are not shared, a
\* single node has no parent, and every other hangs from a node that was
\* persisted before it.  (Merging start and end must not leave phantoms.)
GraphIsTree ==
  (Persisted /\ status = "completed") =>
    /\ \A m, n \in Nodes : m.id = n.id => m = n
    /\ \A n \in Nodes : n.parent = 0 <=> n.id = 1
    /\ \A n \in Nodes : n.parent # 0 =>
         \E m \in Nodes : m.id = n.parent /\ m.id < n.id

\* The branch rows are the lineage of the run: one row per branch, every branch
\* but the root was forked from an earlier branch, at a persisted denial on
\* that branch, and every node and checkpoint lies on a branch that has a row.
LineageRows ==
  Persisted =>
    /\ \A b, c \in Branches : b.id = c.id => b = c
    /\ \A b \in Branches : b.parent = 0 \/
         /\ \E p \in Branches : p.id = b.parent /\ p.id < b.id
         /\ \E n \in Nodes : n.id = b.forkNode /\ n.branch = b.parent
                             /\ n.type = "policy_deny"
    /\ {n.branch : n \in Nodes} = {b.id : b \in Branches}

\* The lookup finds the nearest checkpoint: when the branch has a checkpoint at
\* or before the node, the result is the latest of those; and the two stores
\* answer every lookup alike, although their walks pass through different nodes.
LookupIsNearest ==
  Persisted => \A n \in Nodes :
    LET before == {c \in Checkpoints : c.branch = n.branch /\ c.node <= n.id}
        found  == InMemory(n)
    IN  /\ before # {} => found = Lookup!Latest(before)
        /\ found = Postgres(n)

(* Nodes are drawn one to a line, and each below the one it hangs from.    *)
DrawnDownward(rows) ==
  LET place == Graph!Places(rows)
  IN  /\ DOMAIN place = DOMAIN rows
      /\ \A i, j \in DOMAIN rows : place[i] = place[j] => i = j
      /\ \A e \in Graph!Edges(rows) : place[e[1]] < place[e[2]]

\* The graph page draws every node of the run on a line of its own and below the
\* node it hangs from, also those whose parent is a call that never ended and has
\* no row, in whichever order the store gives the rows (Postgres promises none):
\* in the order they were inserted, and from the last to the first.
GraphIsDrawnDownward ==
  Persisted =>
    LET rows      == Ingest!InsertedRows(trace)
        backwards == [i \in {Len(trace) - j : j \in DOMAIN rows} |-> rows[Len(trace) - i]]
    IN  DrawnDownward(rows) /\ DrawnDownward(backwards)
=============================================================================
