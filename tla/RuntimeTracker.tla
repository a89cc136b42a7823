--------------------------- MODULE RuntimeTracker ---------------------------
(***************************************************************************)
(* The tracker of packages/nemoclaw/src/runtime-hooks.ts: the in-memory    *)
(* event log of a session.  One action per operation; the modules that     *)
(* record a session (AgentLoop, Bridge) instantiate this one with their    *)
(* own log.                                                                *)
(*                                                                         *)
(* Node identifiers are fresh in the code (randomUUID); here a node is     *)
(* named by the position of the first event that carries it, so the fresh  *)
(* identifier is the next position, and 0 stands for null.                 *)
(***************************************************************************)
EXTENDS Naturals, Sequences

VARIABLES
  trace,   \* TrackerEvent[], in the order of emission
  branch   \* branchId: the branch events are recorded on; 0 before startRun

StartTypes == {"model_call_start", "tool_call_start"}
EndTypes   == {"model_call_end", "tool_call_end"}
PlainTypes == {"run_start", "branch_start", "policy_allow", "policy_deny",
               "memory_update", "checkpoint", "validation", "run_end"}
EventTypes == StartTypes \cup EndTypes \cup PlainTypes

SnapshotKinds == {"manual", "pre_tool", "post_tool", "pre_restore", "final"}
Attributes    == SnapshotKinds \cup {"completed", "failed", "pass", ""}

(* attr: the kind of a checkpoint, the status of a validation or of the    *)
(* end; from: parentBranchId of a branch_start.                            *)
Event == [type : EventTypes, node : Nat, parent : Nat, branch : Nat,
          attr : Attributes, from : Nat]

(* The identifier nextNodeId() returns, and the tracker's lastNodeId.      *)
FreshNode == Len(trace) + 1
LastNode  == IF trace = <<>> THEN 0 ELSE trace[Len(trace)].node

(* emit(): the event is stamped with the tracker's branch and appended; it *)
(* thereby becomes the last node.                                          *)
Emit(type, node, parent, attr, from) ==
  trace' = Append(trace, [type |-> type, node |-> node, parent |-> parent,
                          branch |-> branch', attr |-> attr, from |-> from])

(* startRun(): the log of a fresh run, on its root branch.                 *)
Started ==
  /\ branch = 1
  /\ trace = <<[type |-> "run_start", node |-> 1, parent |-> 0, branch |-> 1,
                attr |-> "", from |-> 0]>>

(* Mutant: the fork is recorded but later events stay on the old branch.   *)
BranchOffWithoutMoving(new, parentBranch, forkNode) ==
  /\ UNCHANGED branch
  /\ Emit("branch_start", FreshNode, forkNode, "", parentBranch)

(* branchOff(): the log moves to the new branch, whose first event hangs   *)
(* from the node the branch was forked at.                                 *)
BranchOff(new, parentBranch, forkNode) ==
  /\ branch' = new
  /\ Emit("branch_start", FreshNode, forkNode, "", parentBranch)

(* beforeModelCall() and beforeToolCall(): a new node under the last one.  *)
BeforeCall(type) ==
  /\ UNCHANGED branch
  /\ Emit(type, FreshNode, LastNode, "", 0)

(* Mutant: the end event is given a node of its own.                       *)
AfterCallOnFreshNode(type, call) ==
  /\ UNCHANGED branch
  /\ Emit(type, FreshNode, call, "", 0)

(* afterModelCall() and afterToolCall(): the end event carries the node of *)
(* the call it ends, as its node and as its parent.                        *)
AfterCall(type, call) ==
  /\ UNCHANGED branch
  /\ Emit(type, call, call, "", 0)

(* recordPolicyDecision(), createCheckpoint(), validate(), captureMemory():*)
(* a new node under the last one.                                          *)
Note(type, attr) ==
  /\ UNCHANGED branch
  /\ Emit(type, FreshNode, LastNode, attr, 0)

EndRun(status) == Note("run_end", status)
=============================================================================
