-------------------------- MODULE CheckpointLookup --------------------------
(***************************************************************************)
(* findNearestCheckpointBeforeNode() of packages/db, in its two versions:  *)
(* in-memory-store.ts and postgres-store.ts.  Both walk from a node along  *)
(* parentNodeId to the first node that has a checkpoint on the branch and  *)
(* fall back on the branch's latest checkpoint; they differ in the nodes   *)
(* the walk may pass through.  The result is a set of at most one row.     *)
(***************************************************************************)
EXTENDS Naturals, FiniteSets

OnBranch(rows, b) == {r \in rows : r.branch = b}

ParentOf(rows) ==
  [n \in {r.id : r \in rows} |-> (CHOOSE r \in rows : r.id = n).parent]

Latest(checkpoints) ==
  {c \in checkpoints : \A d \in checkpoints : d.createdAt <= c.createdAt}

(* The first node with a checkpoint the cursor comes to, 0 when there is   *)
(* none: the walk ends where the parent is null or unknown.  The `seen` set *)
(* ends a walk round a cycle, that is after as many steps as there are     *)
(* nodes.                                                                  *)
FirstMet(start, parentOf, checkpointed) ==
  LET walk[steps \in Nat] ==
        [cursor \in Nat |->
           IF cursor \in checkpointed THEN cursor
           ELSE IF steps = 0 \/ cursor \notin DOMAIN parentOf THEN 0
           ELSE walk[steps - 1][parentOf[cursor]]]
  IN walk[Cardinality(DOMAIN parentOf)][start]

(* The checkpoint of the node the walk met, or else the branch's latest.   *)
AtOrLatest(met, checkpoints) ==
  IF met = 0 THEN Latest(checkpoints)
             ELSE Latest({c \in checkpoints : c.node = met})

(* in-memory-store.ts: the walk goes through the nodes of every branch; a  *)
(* node the store does not have ends it before its checkpoint is looked up.*)
InMemoryNearest(nodes, checkpoints, b, node) ==
  LET ours  == OnBranch(checkpoints, b)
      known == {c.node : c \in ours} \cap {r.id : r \in nodes}
  IN AtOrLatest(FirstMet(node, ParentOf(nodes), known), ours)

(* Mutant: the walk starts at the parent.                                  *)
PostgresNearestFromParent(nodes, checkpoints, b, node) ==
  LET ours   == OnBranch(checkpoints, b)
      parent == ParentOf(OnBranch(nodes, b))
  IN AtOrLatest(FirstMet(parent[node], parent, {c.node : c \in ours}), ours)

(* postgres-store.ts: the walk knows the parents of the branch's own nodes *)
(* only, and looks for a checkpoint wherever it gets.                      *)
PostgresNearest(nodes, checkpoints, b, node) ==
  LET ours == OnBranch(checkpoints, b)
  IN AtOrLatest(FirstMet(node, ParentOf(OnBranch(nodes, b)),
                         {c.node : c \in ours}), ours)
=============================================================================
