---------------------------- MODULE TraceIngestor ----------------------------
(***************************************************************************)
(* ingestTrackerEvents() of packages/tracing/src/trace-ingestor.ts: what a *)
(* log of RuntimeTracker events becomes in the store.  Every operator is a *)
(* function of the log; rows are records, a missing reference is 0.        *)
(***************************************************************************)
EXTENDS Naturals, Sequences

CallStarts == {"model_call_start", "tool_call_start"}
CallEnds   == {"model_call_end", "tool_call_end"}

Row(event) ==
  [id |-> event.node, parent |-> event.parent, branch |-> event.branch,
   type |-> event.type]

(* pendingCalls when event i is read: the start events whose nodeId was    *)
(* not set again, nor deleted by an end event, since.                      *)
PendingCalls(log, i) ==
  {s \in 1..(i - 1) :
     /\ log[s].type \in CallStarts
     /\ \A e \in (s + 1)..(i - 1) :
          log[e].type \in CallStarts \cup CallEnds => log[e].node # log[s].node}

(* The rows event i adds.  Starts and ends merge into one node, made from  *)
(* the start event when the call ends; run_end makes none, every other     *)
(* event makes one.                                                        *)
RowsOf(log, i) ==
  IF log[i].type \in CallStarts \cup {"run_end"} THEN {}
  ELSE IF log[i].type \in CallEnds
  THEN {Row(log[s]) : s \in {p \in PendingCalls(log, i) : log[p].node = log[i].node}}
  ELSE {Row(log[i])}

(* As a set, and as a function of the event that inserts them.            *)
NodeRows(log)     == UNION {RowsOf(log, i) : i \in DOMAIN log}
InsertedRows(log) ==
  [i \in {j \in DOMAIN log : RowsOf(log, j) # {}} |-> CHOOSE row \in RowsOf(log, i) : TRUE]

(* createdAt is the position of the event.                                 *)
CheckpointRows(log) ==
  {[node |-> log[i].node, branch |-> log[i].branch, createdAt |-> i] :
     i \in {j \in DOMAIN log : log[j].type = "checkpoint"}}

(* One row for the root branch and one per fork; a fork's row names the    *)
(* branch and the node it was forked from.  Its status is always running.  *)
BranchRows(log) ==
  {[id |-> log[i].branch, parent |-> log[i].from, forkNode |-> log[i].parent] :
     i \in {j \in DOMAIN log : log[j].type \in {"run_start", "branch_start"}}}
=============================================================================
