------------------------------ MODULE AgentLoop ------------------------------
(***************************************************************************)
(* The autonomous coding loop of packages/nemoclaw/src/agent-loop.ts: it   *)
(* asks the model for tool calls, gates each through the policy,           *)
(* snapshots the sandbox around the mutating ones and, when a call is      *)
(* denied, restores the last snapshot and forks the session onto a         *)
(* recovery branch.                                                        *)
(*                                                                         *)
(* The loop is one asynchronous function; a step of the module is the code *)
(* between two awaits.  A tool call is an identifier; the change a         *)
(* mutating call makes to the sandbox is an effect, named by that          *)
(* identifier, and a sandbox or a snapshot is the set of effects in it.    *)
(***************************************************************************)
EXTENDS Integers, Sequences, FiniteSets

CONSTANTS
  MaxIterations,      \* config.maxIterations: chats the loop may start
  MaxAutoRecoveries,  \* config.maxAutoRecoveries
  Kinds,              \* the kinds of call the model asks for, of CallKinds
  MaxCalls,           \* bound: tool calls the model asks for in a run
  MaxFaults           \* bound: snapshots and extractions that fail in a run

(***************************************************************************)
(* "invalid": arguments that are no JSON, or a tool nobody registered;     *)
(* "null": arguments that are the JSON text null;                          *)
(* "read": file_read actions; "write": file_write and command_execution;   *)
(* "install": one of the latter whose change lies in a directory of        *)
(* SKIP_DIRS (.git, node_modules, ...), which snapshots leave out.         *)
(***************************************************************************)
CallKinds == {"invalid", "null", "read", "write", "install"}
Gated     == {"read", "write", "install"}   \* those the policy decides on
Mutating  == {"write", "install"}

ASSUME LimitsAssumption ==
  /\ MaxIterations \in Nat
  /\ MaxAutoRecoveries \in Nat
  /\ Kinds \subseteq CallKinds
  /\ MaxCalls \in Nat
  /\ MaxFaults \in Nat

VARIABLES
  trace, branch,   \* the session's event log and its branch (RuntimeTracker)
  pc,              \* where run() is
  status,          \* finalStatus
  iter,            \* the loop counter
  recoveries,      \* autoRecoveriesUsed
  rollbackPoint,   \* lastFsCheckpoint, with the content of its artifact
  pending,         \* the calls of the reply that are not handled yet
  asked,           \* the calls in the assistant messages of `messages`
  answered,        \* the calls that have a tool message in `messages`
  sandbox,         \* the effects present in the sandbox
  skipped,         \* the effects that lie in SKIP_DIRS
  done,            \* history: effects of the calls that exited with 0
  damaged,         \* history: an extraction failed half way
  faults,          \* counts snapshots and extractions that failed
  denyNode,        \* denyNodeId of the rollback under way
  nextCall         \* the next fresh call identifier

trackerVars == <<trace, branch>>
chatVars    == <<pending, asked, answered, nextCall>>
diskVars    == <<sandbox, skipped, done, damaged>>
vars == <<trace, branch, pc, status, iter, recoveries, rollbackPoint, pending,
          asked, answered, sandbox, skipped, done, damaged, faults, denyNode,
          nextCall>>

Tracker == INSTANCE RuntimeTracker

-----------------------------------------------------------------------------
(***************************************************************************)
(* Data.                                                                   *)
(***************************************************************************)

Call      == [id : Nat, kind : CallKinds, branch : Nat]

(* FsCheckpoint: the effects in the artifact and the checkpoint event that  *)
(* announced it; node 0 stands for null.                                   *)
Checkpoint   == [content : SUBSET Nat, node : Nat]
NoCheckpoint == [content |-> {}, node |-> 0]

Locations == {"baseline", "chat", "reply", "dispatch", "pre_tool", "execute",
              "running", "post_tool", "pre_restore", "restore", "fork",
              "final", "end", "returned"}

(* The call run() is handling, and the answer it is given.                 *)
Current == Head(pending)

AnswerCurrent ==
  /\ answered' = answered \cup {Current.id}
  /\ pending' = Tail(pending)
  /\ UNCHANGED <<asked, nextCall>>

(* Snapper.snapshot(): what goes into the archive.  SKIP_DIRS are not      *)
(* walked; a walk that finds no file archives the directory as a whole.    *)
Archived == IF sandbox \ skipped = {} THEN sandbox ELSE sandbox \ skipped

(***************************************************************************)
(* snapAndCheckpoint().  When the snapshot succeeds it is recorded as a    *)
(* checkpoint and, unless it is a pre_restore one, becomes the rollback    *)
(* point; when it fails the error is reported and nothing else changes.    *)
(***************************************************************************)
SnapshotTaken(kind) ==
  /\ Tracker!Note("checkpoint", kind)
  /\ rollbackPoint' =
       IF kind = "pre_restore"
       THEN rollbackPoint
       ELSE [content |-> Archived, node |-> Tracker!FreshNode]
  /\ UNCHANGED faults

SnapshotFails ==
  /\ faults < MaxFaults
  /\ faults' = faults + 1
  /\ UNCHANGED <<trackerVars, rollbackPoint>>

SnapAndCheckpoint(kind) == SnapshotTaken(kind) \/ SnapshotFails

-----------------------------------------------------------------------------
(***************************************************************************)
(* The steps of run().                                                     *)
(***************************************************************************)
Init ==
  /\ Tracker!Started
  /\ pc = "baseline" /\ status = "completed" /\ iter = 0 /\ recoveries = 0
  /\ rollbackPoint = NoCheckpoint
  /\ pending = <<>> /\ asked = {} /\ answered = {} /\ nextCall = 1
  /\ sandbox = {} /\ skipped = {} /\ done = {} /\ damaged = FALSE
  /\ faults = 0 /\ denyNode = 0

Baseline ==
  /\ pc = "baseline"
  /\ SnapAndCheckpoint("manual")
  /\ pc' = "chat"
  /\ UNCHANGED <<status, iter, recoveries, denyNode, chatVars, diskVars>>

(* The head of the loop: a chat is started while iterations are left.      *)
StartChat ==
  /\ pc = "chat"
  /\ iter < MaxIterations
  /\ Tracker!BeforeCall("model_call_start")
  /\ pc' = "reply"
  /\ UNCHANGED <<status, iter, recoveries, denyNode, rollbackPoint, chatVars,
                 diskVars, faults>>

(* Mutant: the loop is left only past its last iteration.                  *)
OutOfIterationsTooLate ==
  /\ pc = "chat"
  /\ iter > MaxIterations
  /\ pc' = "final"
  /\ UNCHANGED <<trackerVars, status, iter, recoveries, denyNode,
                 rollbackPoint, chatVars, diskVars, faults>>

OutOfIterations ==
  /\ pc = "chat"
  /\ iter >= MaxIterations
  /\ pc' = "final"
  /\ UNCHANGED <<trackerVars, status, iter, recoveries, denyNode,
                 rollbackPoint, chatVars, diskVars, faults>>

(* The reply arrives with its tool calls; a reply without any ends the     *)
(* loop.                                                                   *)
Reply(kinds) ==
  LET calls == [i \in 1..Len(kinds) |->
                  [id |-> nextCall + i - 1, kind |-> kinds[i],
                   branch |-> branch]]
  IN /\ pc = "reply"
     /\ nextCall + Len(kinds) <= MaxCalls + 1
     /\ Tracker!AfterCall("model_call_end", Tracker!LastNode)
     /\ pending' = calls
     /\ asked' = asked \cup {calls[i] : i \in 1..Len(kinds)}
     /\ nextCall' = nextCall + Len(kinds)
     /\ pc' = IF kinds = <<>> THEN "final" ELSE "dispatch"
     /\ UNCHANGED <<status, iter, recoveries, denyNode, rollbackPoint,
                    answered, diskVars, faults>>

(* The chat function throws (HTTP error, network): the loop is left.       *)
ChatThrows ==
  /\ pc = "reply"
  /\ status' = "failed"
  /\ pc' = "final"
  /\ UNCHANGED <<trackerVars, iter, recoveries, denyNode, rollbackPoint,
                 chatVars, diskVars, faults>>

(* All the calls of the reply are handled: the next iteration.             *)
NextIteration ==
  /\ pc = "dispatch"
  /\ pending = <<>>
  /\ iter' = iter + 1
  /\ pc' = "chat"
  /\ UNCHANGED <<trackerVars, status, recoveries, denyNode, rollbackPoint,
                 chatVars, diskVars, faults>>

(* Unparsable arguments and unknown tools are answered with an error; no   *)
(* policy decision is recorded.                                            *)
RejectCall ==
  /\ pc = "dispatch"
  /\ pending # <<>>
  /\ Current.kind = "invalid"
  /\ AnswerCurrent
  /\ UNCHANGED <<trackerVars, pc, status, iter, recoveries, denyNode,
                 rollbackPoint, diskVars, faults>>

(* resourceFromArgs() throws on null: the catch block ends the loop.        *)
CallThrows ==
  /\ pc = "dispatch"
  /\ pending # <<>>
  /\ Current.kind = "null"
  /\ status' = "failed"
  /\ pc' = "final"
  /\ UNCHANGED <<trackerVars, iter, recoveries, denyNode, rollbackPoint,
                 chatVars, diskVars, faults>>

(* Mutant: no snapshot before a mutating call.                             *)
AllowCallUnguarded ==
  /\ pc = "dispatch"
  /\ pending # <<>>
  /\ Current.kind \in Gated
  /\ Tracker!Note("policy_allow", "")
  /\ pc' = "execute"
  /\ UNCHANGED <<status, iter, recoveries, denyNode, rollbackPoint, chatVars,
                 diskVars, faults>>

(* The policy allows the call.                                             *)
AllowCall ==
  /\ pc = "dispatch"
  /\ pending # <<>>
  /\ Current.kind \in Gated
  /\ Tracker!Note("policy_allow", "")
  /\ pc' = IF Current.kind \in Mutating THEN "pre_tool" ELSE "execute"
  /\ UNCHANGED <<status, iter, recoveries, denyNode, rollbackPoint, chatVars,
                 diskVars, faults>>

(* Mutant: one recovery too many.                                          *)
CanRollBackOnceMore ==
  recoveries <= MaxAutoRecoveries /\ rollbackPoint # NoCheckpoint

(* The policy denies the call and a rollback is possible; the node of the  *)
(* denial is read (getLastNodeId) before the pre_restore checkpoint moves  *)
(* the last node.                                                          *)
CanRollBack == recoveries < MaxAutoRecoveries /\ rollbackPoint # NoCheckpoint

DenyAndRollBack ==
  /\ pc = "dispatch"
  /\ pending # <<>>
  /\ Current.kind \in Gated
  /\ CanRollBack
  /\ Tracker!Note("policy_deny", "")
  /\ denyNode' = Tracker!FreshNode
  /\ pc' = "pre_restore"
  /\ UNCHANGED <<status, iter, recoveries, rollbackPoint, chatVars, diskVars,
                 faults>>

(* The policy denies the call and the budget is used up, or nothing was    *)
(* ever snapshotted: the denial is fed back to the model.                  *)
DenyAndAnswer ==
  /\ pc = "dispatch"
  /\ pending # <<>>
  /\ Current.kind \in Gated
  /\ ~CanRollBack
  /\ Tracker!Note("policy_deny", "")
  /\ AnswerCurrent
  /\ UNCHANGED <<pc, status, iter, recoveries, denyNode, rollbackPoint,
                 diskVars, faults>>

PreToolSnapshot ==
  /\ pc = "pre_tool"
  /\ SnapAndCheckpoint("pre_tool")
  /\ pc' = "execute"
  /\ UNCHANGED <<status, iter, recoveries, denyNode, chatVars, diskVars>>

StartTool ==
  /\ pc = "execute"
  /\ Tracker!BeforeCall("tool_call_start")
  /\ pc' = "running"
  /\ UNCHANGED <<status, iter, recoveries, denyNode, rollbackPoint, chatVars,
                 diskVars, faults>>

MakeChange ==
  /\ sandbox' = sandbox \cup {Current.id}
  /\ skipped' = IF Current.kind = "install" THEN skipped \cup {Current.id}
                                            ELSE skipped

(* ToolWrapper.execute() never throws.  A call that exits with 0 has made  *)
(* its change; one that fails may have made a part of it.                  *)
ToolSucceeds ==
  /\ pc = "running"
  /\ Tracker!AfterCall("tool_call_end", Tracker!LastNode)
  /\ IF Current.kind \in Mutating
     THEN /\ MakeChange
          /\ done' = done \cup {Current.id}
          /\ pc' = "post_tool"
     ELSE /\ UNCHANGED <<sandbox, skipped, done>>
          /\ pc' = "dispatch"
  /\ AnswerCurrent
  /\ UNCHANGED <<status, iter, recoveries, denyNode, rollbackPoint, damaged,
                 faults>>

ToolFails ==
  /\ pc = "running"
  /\ Tracker!AfterCall("tool_call_end", Tracker!LastNode)
  /\ \/ UNCHANGED <<sandbox, skipped>>
     \/ Current.kind \in Mutating /\ MakeChange
  /\ pc' = "dispatch"
  /\ AnswerCurrent
  /\ UNCHANGED <<status, iter, recoveries, denyNode, rollbackPoint, done,
                 damaged, faults>>

(* Mutant: the rollback point is not advanced past an allowed call.        *)
PostToolSnapshotMissing ==
  /\ pc = "post_tool"
  /\ pc' = "dispatch"
  /\ UNCHANGED <<trackerVars, rollbackPoint, faults, status, iter, recoveries,
                 denyNode, chatVars, diskVars>>

PostToolSnapshot ==
  /\ pc = "post_tool"
  /\ SnapAndCheckpoint("post_tool")
  /\ pc' = "dispatch"
  /\ UNCHANGED <<status, iter, recoveries, denyNode, chatVars, diskVars>>

-----------------------------------------------------------------------------
(***************************************************************************)
(* handleAutonomousRollback().                                             *)
(***************************************************************************)

PreRestoreSnapshot ==
  /\ pc = "pre_restore"
  /\ SnapAndCheckpoint("pre_restore")
  /\ pc' = "restore"
  /\ UNCHANGED <<status, iter, recoveries, denyNode, chatVars, diskVars>>

(* Mutant: the recovery starts over from the empty sandbox.                *)
RestoreBaseline ==
  /\ pc = "restore"
  /\ sandbox' = {}
  /\ pc' = "fork"
  /\ UNCHANGED <<trackerVars, status, iter, recoveries, denyNode,
                 rollbackPoint, chatVars, skipped, done, damaged, faults>>

Restore ==
  /\ pc = "restore"
  /\ sandbox' = rollbackPoint.content
  /\ pc' = "fork"
  /\ UNCHANGED <<trackerVars, status, iter, recoveries, denyNode,
                 rollbackPoint, chatVars, skipped, done, damaged, faults>>

(* Snapper.extract() empties the sandbox before it copies: a failure       *)
(* leaves a part of the old tree, or a part of the new one.  The loop      *)
(* stays on its branch and feeds the denial back to the model.             *)
RestoreFails ==
  /\ pc = "restore"
  /\ faults < MaxFaults
  /\ faults' = faults + 1
  /\ sandbox' \in (SUBSET sandbox) \cup (SUBSET rollbackPoint.content)
  /\ damaged' = TRUE
  /\ AnswerCurrent
  /\ pc' = "dispatch"
  /\ UNCHANGED <<trackerVars, status, iter, recoveries, denyNode,
                 rollbackPoint, skipped, done>>

(* Mutant: the fork hangs from whatever node came last.                    *)
ForkAtLastNode ==
  /\ pc = "fork"
  /\ Tracker!BranchOff(branch + 1, branch, Tracker!LastNode)
  /\ recoveries' = recoveries + 1
  /\ pending' = <<>>
  /\ asked' = {}
  /\ answered' = {}
  /\ iter' = iter + 1
  /\ pc' = "chat"
  /\ UNCHANGED <<status, rollbackPoint, denyNode, nextCall, diskVars, faults>>

(* Mutant: the rest of the reply is still handled, on the new branch.      *)
ForkAndGoOn ==
  /\ pc = "fork"
  /\ Tracker!BranchOff(branch + 1, branch, denyNode)
  /\ recoveries' = recoveries + 1
  /\ pending' = Tail(pending)
  /\ asked' = {}
  /\ answered' = {}
  /\ pc' = "dispatch"
  /\ UNCHANGED <<status, iter, rollbackPoint, denyNode, nextCall, diskVars,
                 faults>>

(* forkInto() and the return to run(): the context is reset, the other     *)
(* calls of the reply are dropped and the iteration is used up.  The       *)
(* onBranchFork callback belongs to the consumer; its errors are swallowed.*)
Fork ==
  /\ pc = "fork"
  /\ Tracker!BranchOff(branch + 1, branch, denyNode)
  /\ recoveries' = recoveries + 1
  /\ pending' = <<>>
  /\ asked' = {}
  /\ answered' = {}
  /\ iter' = iter + 1
  /\ pc' = "chat"
  /\ UNCHANGED <<status, rollbackPoint, denyNode, nextCall, diskVars, faults>>

-----------------------------------------------------------------------------
FinalSnapshot ==
  /\ pc = "final"
  /\ SnapAndCheckpoint("final")
  /\ pc' = "end"
  /\ UNCHANGED <<status, iter, recoveries, denyNode, chatVars, diskVars>>

EndSession ==
  /\ pc = "end"
  /\ Tracker!EndRun(status)
  /\ pc' = "returned"
  /\ UNCHANGED <<status, iter, recoveries, denyNode, rollbackPoint, chatVars,
                 diskVars, faults>>

(* The loop has returned; nothing is left to do.                           *)
Returned == pc = "returned" /\ UNCHANGED vars

Replies == UNION {[1..n -> Kinds] : n \in 0..MaxCalls}

Next ==
  \/ Baseline \/ StartChat \/ OutOfIterations \/ ChatThrows
  \/ \E kinds \in Replies : Reply(kinds)
  \/ NextIteration \/ RejectCall \/ CallThrows \/ AllowCall
  \/ DenyAndRollBack \/ DenyAndAnswer
  \/ PreToolSnapshot \/ StartTool \/ ToolSucceeds \/ ToolFails
  \/ PostToolSnapshot
  \/ PreRestoreSnapshot \/ Restore \/ RestoreFails \/ Fork
  \/ FinalSnapshot \/ EndSession
  \/ Returned

Spec     == Init /\ [][Next]_vars
FairSpec == Spec /\ WF_vars(Next)
-----------------------------------------------------------------------------
(***************************************************************************)
(* Properties.                                                             *)
(***************************************************************************)

\* Every variable keeps its type; in particular the loop never starts more
\* chats than maxIterations nor forks more often than maxAutoRecoveries.
TypeOK ==
  /\ trace \in Seq(Tracker!Event)
  /\ branch \in Nat
  /\ pc \in Locations
  /\ status \in {"completed", "failed"}
  /\ iter \in 0..MaxIterations
  /\ recoveries \in 0..MaxAutoRecoveries
  /\ rollbackPoint \in Checkpoint
  /\ pending \in Seq(Call)
  /\ asked \subseteq Call
  /\ answered \subseteq Nat
  /\ sandbox \subseteq Nat
  /\ skipped \subseteq Nat
  /\ done \subseteq Nat
  /\ damaged \in BOOLEAN
  /\ faults \in 0..MaxFaults
  /\ denyNode \in Nat
  /\ nextCall \in Nat

\* "No further actions on the failed branch": once a branch is forked at a
\* denial, the branch it was forked from receives no event any more; between
\* the denial and the fork it receives the pre_restore checkpoint at most.
FailedBranchFrozen ==
  \A f \in DOMAIN trace : trace[f].type = "branch_start" =>
    \A e \in DOMAIN trace :
      (e > trace[f].parent /\ trace[e].branch = trace[trace[f].parent].branch)
      => e < f /\ trace[e].type = "checkpoint" /\ trace[e].attr = "pre_restore"

\* Every recovery branch hangs from the policy_deny that caused it, on the
\* branch that was live then, and the number of forks in the log is the
\* recovery budget that was used.
ForksAtDenials ==
  LET forks == {f \in DOMAIN trace : trace[f].type = "branch_start"}
  IN /\ \A f \in forks :
          LET from == trace[f].parent
          IN /\ from \in 1..(f - 1)
             /\ trace[from].type = "policy_deny"
             /\ trace[from].branch = trace[f].branch - 1
     /\ Cardinality(forks) = recoveries

\* Whenever a chat is started the conversation is one the chat API accepts:
\* each tool call in it has its answer, and every call in it was asked on the
\* branch the chat belongs to (the failed branch's history is discarded).
ConversationOfTheBranch ==
  /\ pc = "chat" => {c.id : c \in asked} = answered
  /\ \A c \in asked : c.branch = branch
  /\ \A i \in DOMAIN pending : pending[i] \in asked

\* While no snapshot or extraction fails, the effects of all the calls that
\* exited with 0 stay in the sandbox through every rollback, except those in
\* the directories the snapshots skip ("prior good work survives").
CompletedWorkSurvives == faults = 0 => done \ skipped \subseteq sandbox

\* Whatever snapshots fail, what the rollback point holds is in the sandbox
\* until an extraction breaks half way.
SavedWorkSurvives == ~damaged => rollbackPoint.content \subseteq sandbox

\* While no snapshot fails, a mutating tool runs with a rollback point that is
\* exactly what can be saved of the sandbox it found: a denial right after it
\* undoes it alone.
RollbackPointFresh ==
  (pc = "running" /\ faults = 0 /\ Current.kind \in Mutating)
  => rollbackPoint.content = Archived

\* run() returns, whatever the model replies, denies and faults occur.
Terminates == <>(pc = "returned")

\* The loop implements RecoverableRun for the work that lies where the
\* snapshots look; the storage is reliable until a snapshot or an extraction
\* fails.
Promise == INSTANCE RecoverableRun
  WITH MaxRecoveries <- MaxAutoRecoveries,
       completed     <- done \ skipped,
       kept          <- (done \ skipped) \cap sandbox,
       generation    <- recoveries,
       outcome       <- IF pc = "returned" THEN status ELSE "running",
       reliable      <- faults = 0

KeepsPromise == Promise!Spec
=============================================================================
