----------------------------- MODULE BridgeProofs -----------------------------
(***************************************************************************)
(* Proofs about Bridge, for every budget of recoveries and any number of   *)
(* faults.                                                                 *)
(***************************************************************************)
EXTENDS Bridge, TLAPS

-----------------------------------------------------------------------------
(***************************************************************************)
(* The inductive invariant: there is one sandbox for each attempt; a turn  *)
(* that has not ended has the baseline before it; and a run is only left   *)
(* as completed behind a validation.                                       *)
(***************************************************************************)

BeforeTheTurn == {"loop", "pre_invoke", "invoke", "turn"}
Leaving       == {"final", "end", "returned"}
Inside        == BeforeTheTurn \cup {"tool", "tool_end", "judge", "post_invoke",
                                     "validate", "pre_restore", "fork"}

TypeOK ==
  /\ trace \in Seq(Tracker!Event) /\ branch \in Nat
  /\ pc \in Inside \cup Leaving \cup {"baseline"}
  /\ attempt \in Nat /\ recoveriesUsed \in Nat
  /\ finalStatus \in {"completed", "failed"}
  /\ faults \in Nat

OneSandboxPerAttempt ==
  /\ current = attempt /\ recoveriesUsed = attempt /\ attempt <= MaxRecoveries
  /\ DOMAIN sandboxes = 0..attempt
  /\ sandboxes = [s \in DOMAIN sandboxes |-> sandboxes[s]]
  /\ pc = "fork" \/ pc = "pre_restore" => recoveriesUsed < MaxRecoveries

BaselineBeforeTurn == pc \in BeforeTheTurn => sandboxes[current] = lastGood

Closing == {"checkpoint", "run_end"}

(* The branch the run is on has a pass, and no turn after it.              *)
Passed == \E v \in DOMAIN trace :
            /\ trace[v].type = "validation" /\ trace[v].branch = branch
            /\ \A e \in (v + 1)..Len(trace) : trace[e].type \in Closing

PassedWhenLeaving ==
  (pc \in Leaving /\ finalStatus = "completed") => Passed

IInv == TypeOK /\ OneSandboxPerAttempt /\ BaselineBeforeTurn /\ PassedWhenLeaving

-----------------------------------------------------------------------------
(***************************************************************************)
(* The log.                                                                *)
(***************************************************************************)

(* A step leaves the log alone or appends one event to it.                 *)
Appends(types) ==
  /\ branch' \in Nat
  /\ \E e \in Tracker!Event : /\ trace' = Append(trace, e)
                              /\ e.branch = branch' /\ e.type \in types

LEMMA NodesTyped ==
  ASSUME TypeOK
  PROVE  Tracker!FreshNode \in Nat /\ Tracker!LastNode \in Nat
<1>1. CASE trace = <<>>
  BY <1>1 DEF Tracker!FreshNode, Tracker!LastNode
<1>2. CASE trace # <<>>
  <2>1. Len(trace) \in DOMAIN trace /\ trace \in Seq(Tracker!Event)
    BY <1>2 DEF TypeOK
  <2>2. trace[Len(trace)] \in Tracker!Event
    BY <2>1
  <2>3. QED
    BY <1>2, <2>1, <2>2 DEF Tracker!FreshNode, Tracker!LastNode, Tracker!Event
<1>3. QED
  BY <1>1, <1>2

LEMMA EmitAppends ==
  ASSUME TypeOK, NEW type \in Tracker!EventTypes, NEW node \in Nat,
         NEW parent \in Nat, NEW attr \in Tracker!Attributes, NEW from \in Nat,
         branch' \in Nat,
         Tracker!Emit(type, node, parent, attr, from)
  PROVE  Appends({type})
<1> DEFINE e == [type |-> type, node |-> node, parent |-> parent,
                 branch |-> branch', attr |-> attr, from |-> from]
<1>1. e \in Tracker!Event /\ e.branch = branch' /\ e.type \in {type}
  BY DEF Tracker!Event
<1>2. trace' = Append(trace, e)
  BY DEF Tracker!Emit
<1> HIDE DEF e
<1>3. QED
  BY <1>1, <1>2 DEF Appends

LEMMA NoteAppends ==
  ASSUME TypeOK, NEW type \in Tracker!EventTypes, NEW attr \in Tracker!Attributes,
         Tracker!Note(type, attr)
  PROVE  Appends({type}) /\ branch' = branch
<1>1. branch' = branch /\ branch' \in Nat
  BY DEF Tracker!Note, TypeOK
<1>2. Tracker!Emit(type, Tracker!FreshNode, Tracker!LastNode, attr, 0)
  BY DEF Tracker!Note
<1>3. QED
  BY <1>1, <1>2, NodesTyped, EmitAppends

(* What is appended keeps the log a log, and a pass passed if it closes.   *)
LEMMA AppendsKeeps ==
  ASSUME TypeOK, NEW types, Appends(types)
  PROVE  /\ trace' \in Seq(Tracker!Event) /\ branch' \in Nat
         /\ types = {"validation"} => Passed'
         /\ branch' = branch /\ types \subseteq Closing /\ Passed => Passed'
<1>1. PICK e \in Tracker!Event : /\ trace' = Append(trace, e)
                                 /\ e.branch = branch' /\ e.type \in types
  BY DEF Appends
<1>2. /\ trace \in Seq(Tracker!Event) /\ trace' \in Seq(Tracker!Event)
      /\ Len(trace') = Len(trace) + 1 /\ Len(trace) \in Nat
      /\ DOMAIN trace = 1..Len(trace) /\ DOMAIN trace' = 1..Len(trace')
      /\ trace'[Len(trace) + 1] = e
      /\ \A i \in 1..Len(trace) : trace'[i] = trace[i]
  BY <1>1 DEF TypeOK
<1>3. ASSUME types = {"validation"} PROVE Passed'
  <2> DEFINE v == Len(trace')
  <2>1. v \in DOMAIN trace' /\ trace'[v] = e /\ (v + 1)..Len(trace') = {}
    BY <1>2
  <2>2. QED
    BY <1>1, <1>3, <2>1 DEF Passed
<1>4. ASSUME branch' = branch, types \subseteq Closing, Passed PROVE Passed'
  <2>1. PICK v \in DOMAIN trace :
          /\ trace[v].type = "validation" /\ trace[v].branch = branch
          /\ \A k \in (v + 1)..Len(trace) : trace[k].type \in Closing
    BY <1>4 DEF Passed
  <2>2. v \in DOMAIN trace' /\ trace'[v] = trace[v]
    BY <1>2
  <2>3. ASSUME NEW k \in (v + 1)..Len(trace') PROVE trace'[k].type \in Closing
    <3>1. CASE k = Len(trace) + 1
      BY <1>1, <1>2, <1>4, <3>1
    <3>2. CASE k # Len(trace) + 1
      <4>1. k \in (v + 1)..Len(trace) /\ k \in 1..Len(trace)
        BY <1>2, <2>3, <3>2
      <4>2. QED
        BY <1>2, <2>1, <4>1
    <3>3. QED
      BY <3>1, <3>2
  <2>4. QED
    BY <1>4, <2>1, <2>2, <2>3 DEF Passed
<1>5. QED
  BY <1>1, <1>2, <1>3, <1>4 DEF Appends

(* A snapshot appends a checkpoint, or nothing.                            *)
LEMMA SnapshotKeeps ==
  ASSUME TypeOK, NEW kind \in Tracker!SnapshotKinds, Snapshot(kind)
  PROVE  /\ trace' \in Seq(Tracker!Event) /\ branch' = branch /\ branch' \in Nat
         /\ faults' \in Nat /\ (Passed => Passed')
<1>1. CASE Tracker!Note("checkpoint", kind) /\ UNCHANGED faults
  <2>1. "checkpoint" \in Tracker!EventTypes /\ kind \in Tracker!Attributes
    BY DEF Tracker!EventTypes, Tracker!PlainTypes, Tracker!Attributes
  <2>2. Appends({"checkpoint"}) /\ branch' = branch
    BY <1>1, <2>1, NoteAppends
  <2>3. QED
    BY <1>1, <2>2, AppendsKeeps DEF Closing, TypeOK
<1>2. CASE SnapshotFails /\ UNCHANGED trackerVars
  BY <1>2 DEF SnapshotFails, trackerVars, TypeOK, Passed
<1>3. QED
  BY <1>1, <1>2 DEF Snapshot

-----------------------------------------------------------------------------
(***************************************************************************)
(* The steps.                                                              *)
(***************************************************************************)

LEMMA InitIInv == Init => IInv
<1> SUFFICES ASSUME Init PROVE IInv
  OBVIOUS
<1>1. trace \in Seq(Tracker!Event) /\ branch \in Nat
  <2> DEFINE e == [type |-> "run_start", node |-> 1, parent |-> 0, branch |-> 1,
                   attr |-> "", from |-> 0]
  <2>1. e \in Tracker!Event
    BY DEF Tracker!Event, Tracker!EventTypes, Tracker!PlainTypes, Tracker!Attributes
  <2>2. trace = <<e>> /\ branch = 1
    BY DEF Init, Tracker!Started
  <2> HIDE DEF e
  <2>3. QED
    BY <2>1, <2>2
<1>2. TypeOK
  BY <1>1 DEF Init, TypeOK
<1>3. OneSandboxPerAttempt
  BY BridgeAssumption DEF Init, OneSandboxPerAttempt
<1>4. QED
  BY <1>2, <1>3 DEF IInv, Init, BaselineBeforeTurn, BeforeTheTurn,
     PassedWhenLeaving, Leaving

(* The part of the invariant that is about the log.                        *)
LEMMA StepLog ==
  ASSUME IInv, [Next]_vars
  PROVE  TypeOK' /\ PassedWhenLeaving'
<1> USE DEF Leaving, Inside, BeforeTheTurn
<1> DEFINE Log == /\ trace' \in Seq(Tracker!Event) /\ branch' \in Nat
<1>0. /\ TypeOK /\ PassedWhenLeaving /\ OneSandboxPerAttempt
      /\ attempt \in Nat /\ recoveriesUsed \in Nat /\ faults \in Nat
      /\ trace \in Seq(Tracker!Event) /\ branch \in Nat
  BY DEF IInv, TypeOK
<1>a. {"run_start", "branch_start", "policy_deny", "checkpoint", "validation",
       "run_end"} \cup {"model_call_start", "tool_call_start",
                        "model_call_end", "tool_call_end"} \subseteq Tracker!EventTypes
      /\ {"pass", "completed", "failed", ""} \cup Tracker!SnapshotKinds
           \subseteq Tracker!Attributes
      /\ {"manual", "pre_tool", "post_tool", "pre_restore", "final"}
           \subseteq Tracker!SnapshotKinds
  BY DEF Tracker!EventTypes, Tracker!PlainTypes, Tracker!StartTypes,
         Tracker!EndTypes, Tracker!Attributes, Tracker!SnapshotKinds
<1>b. ASSUME NEW type \in {"policy_deny", "checkpoint", "validation", "run_end"},
             NEW attr \in {"pass", "completed", "failed", ""} \cup Tracker!SnapshotKinds,
             Tracker!Note(type, attr)
      PROVE  /\ Log /\ branch' = branch
             /\ type = "validation" => Passed'
             /\ type \in Closing /\ Passed => Passed'
  <2>1. Appends({type}) /\ branch' = branch
    BY <1>0, <1>a, <1>b, NoteAppends
  <2>2. QED
    BY <1>0, <2>1, AppendsKeeps
<1>c. ASSUME NEW type \in {"model_call_start", "tool_call_start"},
             Tracker!BeforeCall(type)
      PROVE  Log
  <2>1. branch' \in Nat /\ Tracker!Emit(type, Tracker!FreshNode, Tracker!LastNode, "", 0)
    BY <1>0, <1>c DEF Tracker!BeforeCall
  <2>2. Appends({type})
    BY <1>0, <1>a, <2>1, NodesTyped, EmitAppends
  <2>3. QED
    BY <1>0, <2>2, AppendsKeeps
<1>d. ASSUME NEW type \in {"model_call_end", "tool_call_end"},
             Tracker!AfterCall(type, Tracker!LastNode)
      PROVE  Log
  <2>1. branch' \in Nat /\ Tracker!Emit(type, Tracker!LastNode, Tracker!LastNode, "", 0)
    BY <1>0, <1>d DEF Tracker!AfterCall
  <2>2. Appends({type})
    BY <1>0, <1>a, <2>1, NodesTyped, EmitAppends
  <2>3. QED
    BY <1>0, <2>2, AppendsKeeps
<1>e. SnapshotFails => faults' \in Nat
  BY <1>0 DEF SnapshotFails
<1>f. ASSUME UNCHANGED trackerVars PROVE Log /\ (Passed => Passed')
  BY <1>0, <1>f DEF trackerVars, Passed
<1>1. CASE Baseline
  <2>1. CASE Tracker!Note("checkpoint", "manual") /\ pc' = "loop"
             /\ UNCHANGED <<faults, finalStatus>>
    <3>1. Log
      BY <1>a, <1>b, <2>1
    <3>2. QED
      BY <1>0, <1>1, <2>1, <3>1 DEF Baseline, TypeOK, PassedWhenLeaving
  <2>2. CASE SnapshotFails /\ Tracker!EndRun("failed") /\ finalStatus' = "failed"
             /\ pc' = "returned"
    <3>1. Log
      BY <1>b, <2>2 DEF Tracker!EndRun
    <3>2. QED
      BY <1>0, <1>1, <1>e, <2>2, <3>1 DEF Baseline, TypeOK, PassedWhenLeaving
  <2>3. QED
    BY <1>1, <2>1, <2>2 DEF Baseline
<1>2. CASE NextAttempt
  <2>1. pc' \in {"invoke", "pre_invoke"}
    BY <1>0, <1>2, BridgeAssumption DEF NextAttempt, OneSandboxPerAttempt
  <2>2. QED
    BY <1>0, <1>2, <1>f, <2>1 DEF NextAttempt, TypeOK, PassedWhenLeaving, loopVars
<1>3. CASE PreInvokeSnapshot
  <2>1. Log /\ faults' \in Nat
    BY <1>0, <1>3, <1>a, SnapshotKeeps DEF PreInvokeSnapshot
  <2>2. QED
    BY <1>0, <1>3, <2>1 DEF PreInvokeSnapshot, TypeOK, PassedWhenLeaving, loopVars
<1>4. CASE StartTurn
  BY <1>0, <1>4, <1>c DEF StartTurn, TypeOK, PassedWhenLeaving, loopVars
<1>5. ASSUME NEW r \in Result, EndTurn(r) PROVE TypeOK' /\ PassedWhenLeaving'
  BY <1>0, <1>5, <1>d DEF EndTurn, TypeOK, PassedWhenLeaving, loopVars
<1>6. CASE StartTool
  BY <1>0, <1>6, <1>c DEF StartTool, TypeOK, PassedWhenLeaving, loopVars
<1>7. CASE EndTool
  BY <1>0, <1>7, <1>d DEF EndTool, TypeOK, PassedWhenLeaving, loopVars
<1>8. CASE Green
  BY <1>0, <1>8, <1>f DEF Green, TypeOK, PassedWhenLeaving, loopVars
<1>9. CASE PostInvokeSnapshot
  <2>1. Log /\ faults' \in Nat
    BY <1>0, <1>9, <1>a, SnapshotKeeps DEF PostInvokeSnapshot
  <2>2. QED
    BY <1>0, <1>9, <2>1 DEF PostInvokeSnapshot, TypeOK, PassedWhenLeaving, loopVars
<1>10. CASE Validate
  <2>1. Log /\ Passed'
    BY <1>10, <1>b DEF Validate
  <2>2. QED
    BY <1>0, <1>10, <2>1 DEF Validate, TypeOK, PassedWhenLeaving, loopVars
<1>11. CASE GiveUp
  BY <1>0, <1>11, <1>f DEF GiveUp, TypeOK, PassedWhenLeaving
<1>12. CASE ForensicSnapshot
  <2>1. CASE Tracker!Note("policy_deny", "") /\ pc' = "pre_restore" /\ UNCHANGED faults
    <3>1. Log
      BY <1>b, <2>1
    <3>2. QED
      BY <1>0, <1>12, <2>1, <3>1 DEF ForensicSnapshot, TypeOK, PassedWhenLeaving, loopVars
  <2>2. CASE SnapshotFails /\ pc' = "fork" /\ UNCHANGED trackerVars
    BY <1>0, <1>12, <1>e, <1>f, <2>2
       DEF ForensicSnapshot, TypeOK, PassedWhenLeaving, loopVars
  <2>3. QED
    BY <1>12, <2>1, <2>2 DEF ForensicSnapshot
<1>13. CASE RecordForensics
  <2>1. Log
    BY <1>13, <1>a, <1>b DEF RecordForensics
  <2>2. QED
    BY <1>0, <1>13, <2>1 DEF RecordForensics, TypeOK, PassedWhenLeaving, loopVars
<1>14. CASE Fork
  <2>0. Tracker!BranchOff(branch + 1, branch, Tracker!LastNode)
    BY <1>14 DEF Fork
  <2>1. Tracker!Emit("branch_start", Tracker!FreshNode, Tracker!LastNode, "", branch)
    BY <2>0 DEF Tracker!BranchOff
  <2>b. branch' = branch + 1
    BY <2>0 DEF Tracker!BranchOff
  <2>2. Appends({"branch_start"})
    <3>1. branch' \in Nat
      BY <1>0, <2>b
    <3>2. "branch_start" \in Tracker!EventTypes /\ "" \in Tracker!Attributes
      BY <1>a
    <3>3. QED
      BY <1>0, <2>1, <3>1, <3>2, NodesTyped, EmitAppends
  <2>3. Log
    BY <1>0, <2>2, AppendsKeeps
  <2>4. QED
    BY <1>0, <1>14, <2>3 DEF Fork, TypeOK, PassedWhenLeaving
<1>15. CASE ForkFails
  BY <1>0, <1>15, <1>e, <1>f DEF ForkFails, TypeOK, PassedWhenLeaving
<1>16. CASE FinalSnapshot
  <2>1. Log /\ faults' \in Nat /\ (Passed => Passed')
    BY <1>0, <1>16, <1>a, SnapshotKeeps DEF FinalSnapshot
  <2>2. QED
    BY <1>0, <1>16, <2>1 DEF FinalSnapshot, TypeOK, PassedWhenLeaving, loopVars
<1>17. CASE EndRun
  <2>1. Log /\ (Passed => Passed')
    BY <1>0, <1>17, <1>b DEF EndRun, Tracker!EndRun, TypeOK, Closing
  <2>2. QED
    BY <1>0, <1>17, <2>1 DEF EndRun, TypeOK, PassedWhenLeaving, loopVars
<1>18. CASE UNCHANGED vars
  BY <1>0, <1>18, <1>f DEF vars, TypeOK, PassedWhenLeaving, loopVars
<1>19. QED
  BY <1>1, <1>2, <1>3, <1>4, <1>5, <1>6, <1>7, <1>8, <1>9, <1>10, <1>11, <1>12,
     <1>13, <1>14, <1>15, <1>16, <1>17, <1>18 DEF Next, Returned

(* The part that is about the sandboxes.                                   *)
SandboxesKept ==
  \A s \in DOMAIN sandboxes \ {current} :
    s \in DOMAIN sandboxes' /\ sandboxes'[s] = sandboxes[s]

LEMMA StepSandboxes ==
  ASSUME IInv, [Next]_vars
  PROVE  OneSandboxPerAttempt' /\ BaselineBeforeTurn' /\ SandboxesKept
<1> USE DEF SandboxesKept, BeforeTheTurn
<1>0. /\ OneSandboxPerAttempt /\ BaselineBeforeTurn
      /\ attempt \in Nat /\ recoveriesUsed \in Nat
      /\ MaxRecoveries \in Nat
  BY BridgeAssumption DEF IInv, TypeOK
<1>1. CASE Fork
  <2>1. /\ attempt' = attempt + 1 /\ recoveriesUsed' = recoveriesUsed + 1
        /\ current' = attempt + 1 /\ pc = "fork" /\ pc' = "loop" /\ lastGood' = lastGood
        /\ sandboxes' = [s \in DOMAIN sandboxes \cup {attempt + 1} |->
                           IF s = attempt + 1 THEN lastGood ELSE sandboxes[s]]
    BY <1>1 DEF Fork, ForkSandbox, Restored
  <2>2. DOMAIN sandboxes' = 0..attempt' /\ recoveriesUsed < MaxRecoveries
        /\ attempt + 1 \notin DOMAIN sandboxes
    BY <1>0, <2>1 DEF OneSandboxPerAttempt
  <2>3. sandboxes'[current'] = lastGood'
    BY <2>1
  <2>4. OneSandboxPerAttempt'
    BY <1>0, <2>1, <2>2 DEF OneSandboxPerAttempt
  <2>5. SandboxesKept
    BY <2>1, <2>2
  <2>6. QED
    BY <2>1, <2>3, <2>4, <2>5 DEF BaselineBeforeTurn
<1>2. ASSUME NEW r \in Result, EndTurn(r)
      PROVE  OneSandboxPerAttempt' /\ BaselineBeforeTurn' /\ SandboxesKept
  <2>1. /\ DOMAIN sandboxes' = DOMAIN sandboxes
        /\ sandboxes' = [s \in DOMAIN sandboxes' |-> sandboxes'[s]]
        /\ \A s \in DOMAIN sandboxes \ {current} : sandboxes'[s] = sandboxes[s]
    BY <1>0, <1>2 DEF EndTurn, OneSandboxPerAttempt
  <2>2. UNCHANGED loopVars /\ pc' \in {"judge", "tool"}
    BY <1>2 DEF EndTurn
  <2>3. QED
    BY <1>0, <2>1, <2>2 DEF OneSandboxPerAttempt, BaselineBeforeTurn, loopVars
<1>3. ASSUME UNCHANGED <<attempt, recoveriesUsed, current, sandboxes>>,
             pc' \in {"fork", "pre_restore"} => recoveriesUsed < MaxRecoveries,
             pc' \in BeforeTheTurn => lastGood' = sandboxes[current]
      PROVE  OneSandboxPerAttempt' /\ BaselineBeforeTurn' /\ SandboxesKept
  BY <1>0, <1>3 DEF OneSandboxPerAttempt, BaselineBeforeTurn
<1>4. CASE ForensicSnapshot
  <2>1. recoveriesUsed < MaxRecoveries
    <3>1. ~BudgetSpent
      BY <1>4 DEF ForensicSnapshot
    <3>2. QED
      BY <1>0, <3>1 DEF BudgetSpent
  <2>2. UNCHANGED <<attempt, recoveriesUsed, current, sandboxes>>
        /\ pc' \in {"pre_restore", "fork"}
    BY <1>4 DEF ForensicSnapshot, loopVars
  <2>3. QED
    BY <1>3, <2>1, <2>2
<1>5. CASE RecordForensics
  <2>1. recoveriesUsed < MaxRecoveries /\ pc' = "fork"
        /\ UNCHANGED <<attempt, recoveriesUsed, current, sandboxes>>
    BY <1>0, <1>5 DEF RecordForensics, OneSandboxPerAttempt, loopVars
  <2>2. QED
    BY <1>3, <2>1
<1>6. CASE Baseline
  BY <1>3, <1>6 DEF Baseline
<1>7. CASE NextAttempt \/ PreInvokeSnapshot \/ StartTurn
  <2>1. /\ UNCHANGED <<attempt, recoveriesUsed, current, sandboxes, lastGood>>
        /\ pc \in BeforeTheTurn /\ pc' \notin {"fork", "pre_restore"}
    BY <1>7 DEF NextAttempt, PreInvokeSnapshot, StartTurn, loopVars
  <2>2. QED
    BY <1>0, <1>3, <2>1 DEF BaselineBeforeTurn
<1>8. CASE StartTool \/ EndTool \/ Green \/ PostInvokeSnapshot \/ Validate \/ GiveUp
           \/ ForkFails \/ FinalSnapshot \/ EndRun
  <2>1. /\ UNCHANGED <<attempt, recoveriesUsed, current, sandboxes, lastGood>>
        /\ pc' \in {"tool_end", "judge", "post_invoke", "validate", "final", "end",
                    "returned"}
    BY <1>8 DEF StartTool, EndTool, Green, PostInvokeSnapshot, Validate, GiveUp,
                ForkFails, FinalSnapshot, EndRun, loopVars
  <2>2. QED
    BY <1>3, <2>1
<1>9. CASE UNCHANGED vars
  BY <1>0, <1>9 DEF vars, loopVars, OneSandboxPerAttempt, BaselineBeforeTurn
<1>10. QED
  BY <1>1, <1>2, <1>4, <1>5, <1>6, <1>7, <1>8, <1>9 DEF Next, Returned

LEMMA IInvHolds == Spec => []IInv
<1>1. IInv /\ [Next]_vars => IInv'
  BY StepLog, StepSandboxes DEF IInv
<1>2. QED
  BY <1>1, InitIInv, PTL DEF Spec

(* A run of runBridge() that ends as completed has passed its validation   *)
(* on the branch it ended on, with no turn after it.                       *)
THEOREM CompletedIsGreen == Spec => []CompletedMeansGreen
<1>1. IInv => CompletedMeansGreen
  BY DEF IInv, PassedWhenLeaving, Leaving, Passed, Closing, CompletedMeansGreen
<1>2. QED
  BY <1>1, IInvHolds, PTL

(* A turn is started on the baseline, however many turns have failed.      *)
THEOREM CleanTurns == Spec => []TurnsStartClean
<1>1. IInv => TurnsStartClean
  BY DEF IInv, BaselineBeforeTurn, BeforeTheTurn, TurnsStartClean
<1>2. QED
  BY <1>1, IInvHolds, PTL

(* A sandbox that was forked away from is never written again: the next    *)
(* one has a name of its own.                                              *)
THEOREM EvidenceKept == Spec => FailedSandboxesKept
<1>1. IInv /\ [Next]_vars =>
        [\A s \in DOMAIN sandboxes \ {current} :
           s \in DOMAIN sandboxes' /\ sandboxes'[s] = sandboxes[s]]_vars
  BY StepSandboxes DEF SandboxesKept
<1>2. QED
  BY <1>1, IInvHolds, PTL DEF Spec, FailedSandboxesKept
=============================================================================
