------------------------------- MODULE Bridge -------------------------------
(***************************************************************************)
(* The bridge to a real NemoClaw sandbox, runBridge() of                   *)
(* packages/cli/src/openclaw-bridge.ts: it runs whole agent turns in a     *)
(* sandbox, judges each turn by the JSON the agent prints and, when a turn *)
(* failed, restores the baseline snapshot into a sandbox of its own and    *)
(* goes on there, on a recovery branch.                                    *)
(*                                                                         *)
(* Every command is run with spawnSync: a step is the code up to the next  *)
(* command.  The change a turn makes to its sandbox is named by the turn.  *)
(***************************************************************************)
EXTENDS Integers, Sequences

CONSTANTS
  MaxRecoveries,  \* --max-recoveries
  MaxFaults       \* bound: snapshots and restores that fail

ASSUME BridgeAssumption ==
  MaxRecoveries \in Nat /\ MaxFaults \in Nat

VARIABLES
  trace, branch,   \* the tracker's log and branch (RuntimeTracker)
  pc,              \* where runBridge() is
  attempt,         \* the loop counter
  recoveriesUsed,
  finalStatus,
  current,         \* currentSandbox: 0 the user's, k the k-th recovery's
  sandboxes,       \* the content of each sandbox there is
  lastGood,        \* the content of lastGoodSnapshot
  result,          \* what the last turn printed
  faults           \* counts snapshots and restores that failed

trackerVars == <<trace, branch>>
loopVars    == <<attempt, recoveriesUsed, finalStatus, current>>
vars == <<trackerVars, pc, loopVars, sandboxes, lastGood, result, faults>>

Tracker == INSTANCE RuntimeTracker

-----------------------------------------------------------------------------
(***************************************************************************)
(* OpenClawResult, as far as detectFailure() looks at it.  replay: what    *)
(* replayInvalid and the final text tell; "pivoted" when the turn was      *)
(* denied something and its text claims completion.  inference: some       *)
(* attempts were made and none succeeded.                                  *)
(***************************************************************************)
Result == [exitZero  : BOOLEAN,
           replay    : {"valid", "pivoted", "denied"},
           summary   : BOOLEAN,      \* toolSummary counts failures
           tool      : {"none", "ok", "error"},
           inference : BOOLEAN,
           lively    : BOOLEAN]      \* livenessState is absent or one that works

NoResult == [exitZero |-> TRUE, replay |-> "valid", summary |-> FALSE,
             tool |-> "none", inference |-> FALSE, lively |-> TRUE]

(* detectFailure(): a turn that pivoted is green, whatever else it shows.  *)
DetectFailure(r) ==
  \/ ~r.exitZero
  \/ r.replay = "denied"
  \/ /\ r.replay = "valid"
     /\ r.summary \/ r.tool = "error" \/ r.inference \/ ~r.lively

-----------------------------------------------------------------------------
SnapshotFails ==
  /\ faults < MaxFaults
  /\ faults' = faults + 1

(* A snapshot is recorded as a checkpoint, or its failure is logged.       *)
Snapshot(kind) ==
  \/ Tracker!Note("checkpoint", kind) /\ UNCHANGED faults
  \/ SnapshotFails /\ UNCHANGED trackerVars

Init ==
  /\ Tracker!Started
  /\ pc = "baseline"
  /\ attempt = 0 /\ recoveriesUsed = 0 /\ finalStatus = "completed"
  /\ current = 0 /\ sandboxes = [s \in {0} |-> {}]
  /\ lastGood = {} /\ result = NoResult /\ faults = 0

(* Without a baseline snapshot the run ends at once.                       *)
Baseline ==
  /\ pc = "baseline"
  /\ \/ /\ Tracker!Note("checkpoint", "manual")
        /\ lastGood' = sandboxes[current]
        /\ pc' = "loop"
        /\ UNCHANGED <<faults, finalStatus>>
     \/ /\ SnapshotFails
        /\ Tracker!EndRun("failed")
        /\ finalStatus' = "failed"
        /\ pc' = "returned"
        /\ UNCHANGED lastGood
  /\ UNCHANGED <<attempt, recoveriesUsed, current, sandboxes, result>>

(* The head of the loop; the baseline serves the first turn as well.       *)
NextAttempt ==
  /\ pc = "loop"
  /\ pc' = CASE attempt > MaxRecoveries -> "final"
             [] attempt = 0              -> "invoke"
             [] OTHER                    -> "pre_invoke"
  /\ UNCHANGED <<trackerVars, loopVars, sandboxes, lastGood, result, faults>>

PreInvokeSnapshot ==
  /\ pc = "pre_invoke"
  /\ Snapshot("pre_tool")
  /\ pc' = "invoke"
  /\ UNCHANGED <<loopVars, sandboxes, lastGood, result>>

StartTurn ==
  /\ pc = "invoke"
  /\ Tracker!BeforeCall("model_call_start")
  /\ pc' = "turn"
  /\ UNCHANGED <<loopVars, sandboxes, lastGood, result, faults>>

(* Mutant: the turn runs in the user's sandbox.                            *)
EndTurnInUserSandbox(r) ==
  /\ pc = "turn"
  /\ Tracker!AfterCall("model_call_end", Tracker!LastNode)
  /\ result' = r
  /\ \/ sandboxes' = [sandboxes EXCEPT ![0] = @ \cup {attempt + 1}]
     \/ UNCHANGED sandboxes
  /\ pc' = IF r.tool = "none" THEN "judge" ELSE "tool"
  /\ UNCHANGED <<loopVars, lastGood, faults>>

(* The agent has run; it may have changed its sandbox.                     *)
EndTurn(r) ==
  /\ pc = "turn"
  /\ Tracker!AfterCall("model_call_end", Tracker!LastNode)
  /\ result' = r
  /\ \/ sandboxes' = [sandboxes EXCEPT ![current] = @ \cup {attempt + 1}]
     \/ UNCHANGED sandboxes
  /\ pc' = IF r.tool = "none" THEN "judge" ELSE "tool"
  /\ UNCHANGED <<loopVars, lastGood, faults>>

(* The turn's tool calls are recorded after the fact.                      *)
StartTool ==
  /\ pc = "tool"
  /\ Tracker!BeforeCall("tool_call_start")
  /\ pc' = "tool_end"
  /\ UNCHANGED <<loopVars, sandboxes, lastGood, result, faults>>

EndTool ==
  /\ pc = "tool_end"
  /\ Tracker!AfterCall("tool_call_end", Tracker!LastNode)
  /\ pc' = "judge"
  /\ UNCHANGED <<loopVars, sandboxes, lastGood, result, faults>>

Green ==
  /\ pc = "judge"
  /\ ~DetectFailure(result)
  /\ pc' = "post_invoke"
  /\ UNCHANGED <<trackerVars, loopVars, sandboxes, lastGood, result, faults>>

PostInvokeSnapshot ==
  /\ pc = "post_invoke"
  /\ Snapshot("post_tool")
  /\ pc' = "validate"
  /\ UNCHANGED <<loopVars, sandboxes, lastGood, result>>

Validate ==
  /\ pc = "validate"
  /\ Tracker!Note("validation", "pass")
  /\ pc' = "final"
  /\ UNCHANGED <<loopVars, sandboxes, lastGood, result, faults>>

(* Mutant: the budget is compared with one recovery too many.              *)
BudgetSpentTooLate == recoveriesUsed > MaxRecoveries
BudgetSpent == recoveriesUsed >= MaxRecoveries

GiveUp ==
  /\ pc = "judge"
  /\ DetectFailure(result)
  /\ BudgetSpent
  /\ finalStatus' = "failed"
  /\ pc' = "final"
  /\ UNCHANGED <<trackerVars, attempt, recoveriesUsed, current, sandboxes,
                 lastGood, result, faults>>

(* The denial is recorded behind the forensic snapshot: without the        *)
(* snapshot there is no denial in the log either.                          *)
ForensicSnapshot ==
  /\ pc = "judge"
  /\ DetectFailure(result)
  /\ ~BudgetSpent
  /\ \/ /\ Tracker!Note("policy_deny", "")
        /\ pc' = "pre_restore"
        /\ UNCHANGED faults
     \/ SnapshotFails /\ pc' = "fork" /\ UNCHANGED trackerVars
  /\ UNCHANGED <<loopVars, sandboxes, lastGood, result>>

RecordForensics ==
  /\ pc = "pre_restore"
  /\ Tracker!Note("checkpoint", "pre_restore")
  /\ pc' = "fork"
  /\ UNCHANGED <<loopVars, sandboxes, lastGood, result, faults>>

(* The name of a recovery sandbox is made from the loop counter.           *)
ForkSandbox == attempt + 1

(* Mutant: the snapshot that is restored is the one of the failed sandbox. *)
RestoredForensics == sandboxes[current]
Restored == lastGood

(* nemoclaw materialises a sandbox from the baseline; the log moves to a   *)
(* branch that hangs from its last node.                                   *)
Fork ==
  /\ pc = "fork"
  /\ sandboxes' = [s \in DOMAIN sandboxes \cup {ForkSandbox} |->
                     IF s = ForkSandbox THEN Restored ELSE sandboxes[s]]
  /\ Tracker!BranchOff(branch + 1, branch, Tracker!LastNode)
  /\ current' = ForkSandbox
  /\ recoveriesUsed' = recoveriesUsed + 1
  /\ attempt' = attempt + 1
  /\ pc' = "loop"
  /\ result' = NoResult
  /\ UNCHANGED <<finalStatus, lastGood, faults>>

ForkFails ==
  /\ pc = "fork"
  /\ SnapshotFails
  /\ finalStatus' = "failed"
  /\ pc' = "final"
  /\ UNCHANGED <<trackerVars, attempt, recoveriesUsed, current, sandboxes,
                 lastGood, result>>

FinalSnapshot ==
  /\ pc = "final"
  /\ Snapshot("final")
  /\ pc' = "end"
  /\ UNCHANGED <<loopVars, sandboxes, lastGood, result>>

EndRun ==
  /\ pc = "end"
  /\ Tracker!EndRun(finalStatus)
  /\ pc' = "returned"
  /\ UNCHANGED <<loopVars, sandboxes, lastGood, result, faults>>

Returned == pc = "returned" /\ UNCHANGED vars

Next ==
  \/ Baseline \/ NextAttempt \/ PreInvokeSnapshot \/ StartTurn
  \/ \E r \in Result : EndTurn(r)
  \/ StartTool \/ EndTool \/ Green \/ PostInvokeSnapshot \/ Validate
  \/ GiveUp \/ ForensicSnapshot \/ RecordForensics \/ Fork \/ ForkFails
  \/ FinalSnapshot \/ EndRun \/ Returned

Spec     == Init /\ [][Next]_vars
-----------------------------------------------------------------------------
(***************************************************************************)
(* Properties.                                                             *)
(***************************************************************************)

\* "until the run is 'all green' or the recovery budget is exhausted": the log
\* of a run that ends as completed has a pass on its last branch, after the
\* last turn, whichever way the loop is left.
CompletedMeansGreen ==
  (pc = "returned" /\ finalStatus = "completed") =>
    \E v \in DOMAIN trace :
      /\ trace[v].type = "validation" /\ trace[v].branch = branch
      /\ \A e \in (v + 1)..Len(trace) :
           trace[e].type \in {"checkpoint", "run_end"}

\* Every turn starts on the baseline: nothing of a failed turn leaks into the
\* sandbox the next turn is given.
TurnsStartClean == pc = "turn" => sandboxes[current] = lastGood

\* A sandbox that was forked away from is evidence: no later snapshot, restore
\* or turn changes it.
FailedSandboxesKept ==
  [][\A s \in DOMAIN sandboxes \ {current} :
       s \in DOMAIN sandboxes' /\ sandboxes'[s] = sandboxes[s]]_vars
=============================================================================
