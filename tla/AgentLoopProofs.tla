--------------------------- MODULE AgentLoopProofs ---------------------------
(***************************************************************************)
(* Proofs about AgentLoop, for every number of iterations, recoveries,     *)
(* calls and faults and for every set of call kinds.                       *)
(***************************************************************************)
EXTENDS AgentLoop, FiniteSetTheorems, SequenceTheorems, TLAPS

-----------------------------------------------------------------------------
(***************************************************************************)
(* The inductive invariant: TypeOK, where the loop can be with which       *)
(* budget left, and what the rollback point holds.                         *)
(***************************************************************************)

InIteration == {"reply", "dispatch", "pre_tool", "execute", "running",
                "post_tool", "pre_restore", "restore", "fork"}
RollingBack == {"pre_restore", "restore", "fork"}
OnACall     == {"pre_tool", "execute", "running"} \cup RollingBack

Control ==
  /\ pc \in InIteration => iter < MaxIterations
  /\ pc \in RollingBack => recoveries < MaxAutoRecoveries
  /\ pc \in OnACall => pending # <<>>
  /\ trace # <<>>

Work ==
  /\ ~damaged => rollbackPoint.content \subseteq sandbox
  /\ faults = 0 => ~damaged
  /\ faults = 0 => done \ skipped \subseteq sandbox
  /\ (faults = 0 /\ pc # "post_tool")
       => done \ skipped \subseteq rollbackPoint.content
  /\ (faults = 0 /\ pc \in {"execute", "running"}
        /\ Current.kind \in Mutating)
       => rollbackPoint.content = Archived

IInv == TypeOK /\ Control /\ Work

-----------------------------------------------------------------------------
(* A step leaves the log alone or appends one event to it; the branch      *)
(* stays a number.                                                         *)
LogGrows ==
  \/ UNCHANGED trackerVars
  \/ branch' \in Nat /\ \E e \in Tracker!Event : trace' = Append(trace, e)

(* The tracker's node identifiers are numbers.                             *)
LEMMA NodesTyped ==
  ASSUME trace \in Seq(Tracker!Event)
  PROVE  Tracker!FreshNode \in Nat /\ Tracker!LastNode \in Nat
<1>1. CASE trace = <<>>
  BY <1>1 DEF Tracker!FreshNode, Tracker!LastNode
<1>2. CASE trace # <<>>
  <2>1. Len(trace) \in DOMAIN trace
    BY <1>2
  <2>2. trace[Len(trace)] \in Tracker!Event
    BY <2>1
  <2>3. QED
    BY <1>2, <2>2 DEF Tracker!FreshNode, Tracker!LastNode, Tracker!Event
<1>3. QED
  BY <1>1, <1>2

(* What is emitted is an event, with any of the types and attributes the   *)
(* session uses.                                                           *)
LEMMA EmitGrows ==
  ASSUME NEW type \in Tracker!EventTypes, NEW node \in Nat, NEW parent \in Nat,
         NEW attr \in Tracker!Attributes, NEW from \in Nat, branch' \in Nat,
         Tracker!Emit(type, node, parent, attr, from)
  PROVE  LogGrows
<1> DEFINE e == [type |-> type, node |-> node, parent |-> parent,
                 branch |-> branch', attr |-> attr, from |-> from]
<1>1. e \in Tracker!Event
  BY DEF Tracker!Event
<1>2. trace' = Append(trace, e)
  BY DEF Tracker!Emit
<1> HIDE DEF e
<1>3. QED
  BY <1>1, <1>2 DEF LogGrows

(* The calls of a reply are typed, and so is what is left of them.         *)
LEMMA ReplyTyped ==
  ASSUME NEW kinds \in Replies, nextCall \in Nat, branch \in Nat
  PROVE  LET calls == [i \in 1..Len(kinds) |->
                         [id |-> nextCall + i - 1, kind |-> kinds[i],
                          branch |-> branch]]
         IN /\ Len(kinds) \in Nat
            /\ calls \in Seq(Call)
            /\ {calls[i] : i \in 1..Len(kinds)} \subseteq Call
            /\ kinds # <<>> => calls # <<>>
<1> DEFINE call(i) == [id |-> nextCall + i - 1, kind |-> kinds[i],
                       branch |-> branch]
           calls   == [i \in 1..Len(kinds) |-> call(i)]
<1>1. PICK n \in 0..MaxCalls : kinds \in [1..n -> Kinds]
  BY DEF Replies
<1>2. kinds \in Seq(Kinds) /\ Len(kinds) = n /\ n \in Nat
  BY <1>1, LimitsAssumption
<1>3. \A i \in 1..Len(kinds) : call(i) \in Call
  BY <1>1, <1>2, LimitsAssumption DEF Call
<1> HIDE DEF call
<1>4. calls \in Seq(Call)
  BY <1>2, <1>3
<1>5. kinds # <<>> => calls # <<>>
  BY <1>2
<1>6. QED
  BY <1>2, <1>3, <1>4, <1>5 DEF call

LEMMA InitIInv == Init => IInv
<1> SUFFICES ASSUME Init PROVE IInv
  OBVIOUS
<1> USE DEF Init
<1> DEFINE e == [type |-> "run_start", node |-> 1, parent |-> 0, branch |-> 1,
                 attr |-> "", from |-> 0]
<1>1. e \in Tracker!Event
  BY DEF Tracker!Event, Tracker!EventTypes, Tracker!PlainTypes,
         Tracker!Attributes
<1>2. trace = <<e>> /\ branch = 1
  BY DEF Tracker!Started
<1> HIDE DEF e
<1>3. trace \in Seq(Tracker!Event) /\ trace # <<>>
  BY <1>1, <1>2
<1>4. TypeOK
  <2>1. rollbackPoint \in Checkpoint
    BY DEF Checkpoint, NoCheckpoint
  <2>2. iter \in 0..MaxIterations /\ recoveries \in 0..MaxAutoRecoveries
        /\ faults \in 0..MaxFaults
    BY LimitsAssumption
  <2>3. pending \in Seq(Call)
    OBVIOUS
  <2>4. QED
    BY <1>2, <1>3, <2>1, <2>2, <2>3 DEF TypeOK, Locations
<1>5. Control /\ Work
  BY <1>3 DEF Control, Work, NoCheckpoint, InIteration, RollingBack, OnACall
<1>6. QED
  BY <1>4, <1>5 DEF IInv

(* Every step of the loop appends to the log at most.                      *)
LEMMA StepLogGrows ==
  ASSUME TypeOK, Next
  PROVE  LogGrows
<1> USE DEF Tracker!Note, Tracker!BeforeCall, Tracker!AfterCall,
            Tracker!BranchOff, Tracker!EndRun, SnapAndCheckpoint,
            SnapshotTaken, SnapshotFails
<1>1. /\ {"model_call_start", "tool_call_start", "model_call_end",
          "tool_call_end", "policy_allow", "policy_deny", "checkpoint",
          "branch_start", "run_end"} \subseteq Tracker!EventTypes
      /\ {"", "manual", "pre_tool", "post_tool", "pre_restore", "final",
          "completed", "failed"} \subseteq Tracker!Attributes
  BY DEF Tracker!EventTypes, Tracker!StartTypes, Tracker!EndTypes,
         Tracker!PlainTypes, Tracker!Attributes, Tracker!SnapshotKinds
<1>2. /\ Tracker!LastNode \in Nat /\ Tracker!FreshNode \in Nat
      /\ branch \in Nat /\ denyNode \in Nat
      /\ status \in {"completed", "failed"}
  BY NodesTyped DEF TypeOK
<1>3. ASSUME UNCHANGED trackerVars PROVE LogGrows
  BY <1>3 DEF LogGrows
<1>4. CASE Baseline
  BY <1>1, <1>2, <1>3, <1>4, EmitGrows DEF Baseline
<1>5. CASE StartChat
  BY <1>1, <1>2, <1>5, EmitGrows DEF StartChat
<1>6. CASE \E kinds \in Replies : Reply(kinds)
  BY <1>1, <1>2, <1>6, EmitGrows DEF Reply
<1>7. CASE AllowCall
  BY <1>1, <1>2, <1>7, EmitGrows DEF AllowCall
<1>8. CASE DenyAndRollBack
  BY <1>1, <1>2, <1>8, EmitGrows DEF DenyAndRollBack
<1>9. CASE DenyAndAnswer
  BY <1>1, <1>2, <1>9, EmitGrows DEF DenyAndAnswer
<1>10. CASE PreToolSnapshot
  BY <1>1, <1>2, <1>3, <1>10, EmitGrows DEF PreToolSnapshot
<1>11. CASE StartTool
  BY <1>1, <1>2, <1>11, EmitGrows DEF StartTool
<1>12. CASE ToolSucceeds
  BY <1>1, <1>2, <1>12, EmitGrows DEF ToolSucceeds
<1>13. CASE ToolFails
  BY <1>1, <1>2, <1>13, EmitGrows DEF ToolFails
<1>14. CASE PostToolSnapshot
  BY <1>1, <1>2, <1>3, <1>14, EmitGrows DEF PostToolSnapshot
<1>15. CASE PreRestoreSnapshot
  BY <1>1, <1>2, <1>3, <1>15, EmitGrows DEF PreRestoreSnapshot
<1>16. CASE Fork
  <2>1. branch' = branch + 1
    BY <1>16 DEF Fork
  <2>2. Tracker!Emit("branch_start", Tracker!FreshNode, denyNode, "", branch)
    BY <1>16 DEF Fork
  <2>3. branch' \in Nat
    BY <1>2, <2>1
  <2>4. QED
    BY <1>1, <1>2, <2>2, <2>3, EmitGrows
<1>17. CASE FinalSnapshot
  BY <1>1, <1>2, <1>3, <1>17, EmitGrows DEF FinalSnapshot
<1>18. CASE EndSession
  BY <1>1, <1>2, <1>18, EmitGrows DEF EndSession
<1>19. CASE OutOfIterations \/ ChatThrows \/ NextIteration \/ RejectCall
            \/ CallThrows \/ Restore \/ RestoreFails
  BY <1>3, <1>19 DEF OutOfIterations, ChatThrows, NextIteration, RejectCall,
                     CallThrows, Restore, RestoreFails
<1>20. CASE Returned
  BY <1>3, <1>20 DEF Returned, vars, trackerVars
<1>21. QED
  BY <1>4, <1>5, <1>6, <1>7, <1>8, <1>9, <1>10, <1>11, <1>12, <1>13, <1>14,
     <1>15, <1>16, <1>17, <1>18, <1>19, <1>20 DEF Next

(* Everything but the log, action by action.                               *)
OthersTyped ==
  /\ pc \in Locations
  /\ status \in {"completed", "failed"}
  /\ iter \in 0..MaxIterations
  /\ recoveries \in 0..MaxAutoRecoveries
  /\ rollbackPoint \in Checkpoint
  /\ pending \in Seq(Call)
  /\ asked \subseteq Call
  /\ answered \subseteq Nat
  /\ sandbox \subseteq Nat
  /\ skipped \subseteq Nat
  /\ done \subseteq Nat
  /\ damaged \in BOOLEAN
  /\ faults \in 0..MaxFaults
  /\ denyNode \in Nat
  /\ nextCall \in Nat

(* A snapshot keeps the rollback point and the fault count typed.          *)
LEMMA SnapTyped ==
  ASSUME TypeOK, NEW kind, SnapAndCheckpoint(kind)
  PROVE  rollbackPoint' \in Checkpoint /\ faults' \in 0..MaxFaults
<1>1. Tracker!FreshNode \in Nat
  BY NodesTyped DEF TypeOK
<1>2. CASE SnapshotTaken(kind)
  <2>1. [content |-> Archived, node |-> Tracker!FreshNode]
        \in Checkpoint
    BY <1>1 DEF TypeOK, Checkpoint, Archived
  <2>2. QED
    BY <1>2, <2>1 DEF SnapshotTaken, TypeOK
<1>3. CASE SnapshotFails
  BY <1>3, LimitsAssumption DEF SnapshotFails, TypeOK
<1>4. QED
  BY <1>2, <1>3 DEF SnapAndCheckpoint

(* The call the loop is handling.                                          *)
LEMMA CurrentTyped ==
  ASSUME TypeOK, pending # <<>>
  PROVE  /\ Current \in Call /\ Current.id \in Nat
         /\ Tail(pending) \in Seq(Call)
<1>1. Head(pending) \in Call /\ Tail(pending) \in Seq(Call)
  BY DEF TypeOK
<1>2. QED
  BY <1>1 DEF Current, Call

LEMMA StepOthersTyped ==
  ASSUME IInv, Next
  PROVE  OthersTyped'
<1> USE DEF OthersTyped, Locations, AnswerCurrent, diskVars, chatVars
<1>1. TypeOK /\ Control
  BY DEF IInv
<1>2. OthersTyped
  BY <1>1 DEF TypeOK
<1>3. pending # <<>> => /\ Current.id \in Nat
                        /\ Tail(pending) \in Seq(Call)
  BY <1>1, CurrentTyped
<1>4. \A kind : SnapAndCheckpoint(kind) => /\ rollbackPoint' \in Checkpoint
                                           /\ faults' \in 0..MaxFaults
  BY <1>1, SnapTyped
<1>5. CASE Baseline
  BY <1>2, <1>4, <1>5 DEF Baseline
<1>6. CASE StartChat
  BY <1>2, <1>6 DEF StartChat
<1>7. CASE OutOfIterations
  BY <1>2, <1>7 DEF OutOfIterations
<1>8. CASE \E kinds \in Replies : Reply(kinds)
  <2>1. PICK kinds \in Replies : Reply(kinds)
    BY <1>8
  <2>2. pending' \in Seq(Call) /\ asked' \subseteq Call /\ nextCall' \in Nat
    BY <1>1, <2>1, ReplyTyped DEF Reply, TypeOK
  <2>3. QED
    BY <1>2, <2>1, <2>2 DEF Reply
<1>9. CASE ChatThrows \/ CallThrows
  BY <1>2, <1>9 DEF ChatThrows, CallThrows
<1>10. CASE NextIteration
  BY <1>1, <1>2, <1>10, LimitsAssumption
  DEF NextIteration, Control, InIteration
<1>11. CASE RejectCall
  BY <1>2, <1>3, <1>11 DEF RejectCall
<1>12. CASE AllowCall
  BY <1>2, <1>12 DEF AllowCall
<1>13. CASE DenyAndRollBack
  BY <1>1, <1>2, <1>13, NodesTyped DEF DenyAndRollBack, TypeOK
<1>14. CASE DenyAndAnswer
  BY <1>2, <1>3, <1>14 DEF DenyAndAnswer
<1>15. CASE PreToolSnapshot
  BY <1>2, <1>4, <1>15 DEF PreToolSnapshot
<1>16. CASE StartTool
  BY <1>2, <1>16 DEF StartTool
<1>17. CASE ToolSucceeds
  <2>1. pending # <<>>
    BY <1>1, <1>17 DEF ToolSucceeds, Control, OnACall
  <2>2. QED
    BY <1>2, <1>3, <1>17, <2>1 DEF ToolSucceeds, MakeChange
<1>18. CASE ToolFails
  <2>1. pending # <<>>
    BY <1>1, <1>18 DEF ToolFails, Control, OnACall
  <2>2. QED
    BY <1>2, <1>3, <1>18, <2>1 DEF ToolFails, MakeChange
<1>19. CASE PostToolSnapshot
  BY <1>2, <1>4, <1>19 DEF PostToolSnapshot
<1>20. CASE PreRestoreSnapshot
  BY <1>2, <1>4, <1>20 DEF PreRestoreSnapshot
<1>21. CASE Restore
  BY <1>2, <1>21 DEF Restore, Checkpoint
<1>22. CASE RestoreFails
  <2>1. pending # <<>>
    BY <1>1, <1>22 DEF RestoreFails, Control, OnACall, RollingBack
  <2>2. rollbackPoint.content \subseteq Nat
    BY <1>2 DEF Checkpoint
  <2>3. sandbox' \subseteq Nat
    BY <1>2, <1>22, <2>2 DEF RestoreFails
  <2>4. faults' \in 0..MaxFaults
    BY <1>2, <1>22, LimitsAssumption DEF RestoreFails
  <2>5. pending' \in Seq(Call) /\ answered' \subseteq Nat
    BY <1>2, <1>3, <1>22, <2>1 DEF RestoreFails
  <2>6. /\ UNCHANGED <<status, iter, recoveries, denyNode, rollbackPoint,
                       skipped, done, asked, nextCall>>
        /\ pc' = "dispatch" /\ damaged' = TRUE
    BY <1>22 DEF RestoreFails
  <2>7. QED
    BY <1>2, <2>3, <2>4, <2>5, <2>6
<1>23. CASE Fork
  <2>1. iter + 1 \in 0..MaxIterations
        /\ recoveries + 1 \in 0..MaxAutoRecoveries
    BY <1>1, <1>2, <1>23, LimitsAssumption
    DEF Fork, Control, InIteration, RollingBack
  <2>2. pending' \in Seq(Call) /\ asked' \subseteq Call /\ answered' \subseteq Nat
    BY <1>23 DEF Fork
  <2>3. QED
    BY <1>2, <1>23, <2>1, <2>2 DEF Fork
<1>24. CASE FinalSnapshot
  BY <1>2, <1>4, <1>24 DEF FinalSnapshot
<1>25. CASE EndSession
  BY <1>2, <1>25 DEF EndSession
<1>26. CASE Returned
  BY <1>2, <1>26 DEF Returned, vars
<1>27. QED
  BY <1>5, <1>6, <1>7, <1>8, <1>9, <1>10, <1>11, <1>12, <1>13, <1>14, <1>15,
     <1>16, <1>17, <1>18, <1>19, <1>20, <1>21, <1>22, <1>23, <1>24, <1>25,
     <1>26 DEF Next

LEMMA StepTypeOK ==
  ASSUME IInv, Next
  PROVE  TypeOK' /\ trace' # <<>>
<1>1. LogGrows
  BY StepLogGrows DEF IInv
<1>2. trace' \in Seq(Tracker!Event) /\ trace' # <<>> /\ branch' \in Nat
  <2>1. trace \in Seq(Tracker!Event) /\ trace # <<>> /\ branch \in Nat
    BY DEF IInv, TypeOK, Control
  <2>2. CASE UNCHANGED trackerVars
    BY <2>1, <2>2 DEF trackerVars
  <2>3. ASSUME NEW e \in Tracker!Event, trace' = Append(trace, e)
        PROVE  trace' \in Seq(Tracker!Event) /\ trace' # <<>>
    BY <2>1, <2>3
  <2>4. QED
    BY <1>1, <2>2, <2>3 DEF LogGrows
<1>3. OthersTyped'
  BY StepOthersTyped
<1>4. QED
  BY <1>2, <1>3 DEF OthersTyped, TypeOK

(* Where the loop is, against the budgets and the calls it holds.          *)
LEMMA StepControl ==
  ASSUME IInv, Next
  PROVE  Control'
<1> USE DEF Control, InIteration, RollingBack, OnACall
<1>1. Control /\ trace' # <<>> /\ iter \in Nat /\ recoveries \in Nat
  <2>1. TypeOK /\ Control
    BY DEF IInv
  <2>2. trace' # <<>>
    BY StepTypeOK
  <2>3. iter \in Nat /\ recoveries \in Nat
    BY <2>1, LimitsAssumption DEF TypeOK
  <2>4. QED
    BY <2>1, <2>2, <2>3
<1> USE DEF AnswerCurrent, chatVars
<1>2. CASE Baseline \/ FinalSnapshot \/ PostToolSnapshot
  BY <1>1, <1>2 DEF Baseline, FinalSnapshot, PostToolSnapshot
<1>3. CASE StartChat \/ OutOfIterations \/ ChatThrows \/ CallThrows
  BY <1>1, <1>3 DEF StartChat, OutOfIterations, ChatThrows, CallThrows
<1>4. CASE \E kinds \in Replies : Reply(kinds)
  <2>1. pc = "reply" /\ pc' \in {"final", "dispatch"}
        /\ UNCHANGED <<iter, recoveries>>
    BY <1>4 DEF Reply
  <2>2. QED
    BY <1>1, <2>1
<1>5. CASE NextIteration \/ RejectCall \/ AllowCall
  BY <1>1, <1>5 DEF NextIteration, RejectCall, AllowCall
<1>6. CASE DenyAndRollBack \/ DenyAndAnswer
  BY <1>1, <1>6 DEF DenyAndRollBack, DenyAndAnswer, CanRollBack
<1>7. CASE PreToolSnapshot \/ StartTool
  BY <1>1, <1>7 DEF PreToolSnapshot, StartTool
<1>8. CASE ToolSucceeds
  BY <1>1, <1>8 DEF ToolSucceeds
<1>9. CASE ToolFails
  BY <1>1, <1>9 DEF ToolFails
<1>10. CASE PreRestoreSnapshot \/ Restore
  BY <1>1, <1>10 DEF PreRestoreSnapshot, Restore
<1>11. CASE RestoreFails
  BY <1>1, <1>11 DEF RestoreFails
<1>12. CASE Fork
  BY <1>1, <1>12 DEF Fork
<1>13. CASE EndSession \/ Returned
  BY <1>1, <1>13 DEF EndSession, Returned, vars
<1>14. QED
  BY <1>2, <1>3, <1>4, <1>5, <1>6, <1>7, <1>8, <1>9, <1>10, <1>11, <1>12,
     <1>13 DEF Next

(* What a snapshot does to the work that is saved.                         *)
LEMMA SnapWork ==
  ASSUME IInv, NEW kind, SnapAndCheckpoint(kind), UNCHANGED diskVars
  PROVE  /\ ~damaged => rollbackPoint'.content \subseteq sandbox
         /\ faults' = 0 =>
              /\ faults = 0
              /\ kind # "pre_restore" => rollbackPoint'.content = Archived
              /\ kind = "pre_restore" => rollbackPoint' = rollbackPoint
<1> USE DEF Archived
<1>1. faults \in Nat
  BY LimitsAssumption DEF IInv, TypeOK
<1>2. CASE SnapshotTaken(kind)
  BY <1>2 DEF SnapshotTaken, IInv, Work
<1>3. CASE SnapshotFails
  BY <1>1, <1>3 DEF SnapshotFails, IInv, Work
<1>4. QED
  BY <1>2, <1>3 DEF SnapAndCheckpoint

(* The work that was completed is saved before anything can be undone.     *)
LEMMA StepWork ==
  ASSUME IInv, Next
  PROVE  Work'
<1> USE DEF Work, AnswerCurrent, chatVars, diskVars, Archived
<1>1. TypeOK /\ Control /\ Work /\ faults \in Nat
  BY LimitsAssumption DEF IInv, TypeOK
<1>2. CASE Baseline
  BY <1>1, <1>2, SnapWork DEF Baseline
<1>3. CASE StartChat \/ OutOfIterations \/ ChatThrows \/ CallThrows
           \/ NextIteration
  BY <1>1, <1>3 DEF StartChat, OutOfIterations, ChatThrows, CallThrows,
                    NextIteration
<1>4. CASE \E kinds \in Replies : Reply(kinds)
  <2>1. /\ pc = "reply" /\ pc' \in {"final", "dispatch"}
        /\ UNCHANGED <<rollbackPoint, diskVars, faults>>
    BY <1>4 DEF Reply
  <2>2. QED
    BY <1>1, <2>1
<1>5. CASE RejectCall
  BY <1>1, <1>5 DEF RejectCall
<1>6. CASE AllowCall
  BY <1>1, <1>6 DEF AllowCall, Current
<1>7. CASE DenyAndRollBack \/ DenyAndAnswer
  <2>1. /\ pc = "dispatch" /\ pc' \in {"dispatch", "pre_restore"}
        /\ UNCHANGED <<rollbackPoint, diskVars, faults>>
    BY <1>7 DEF DenyAndRollBack, DenyAndAnswer
  <2>2. QED
    BY <1>1, <2>1
<1>8. CASE PreToolSnapshot
  BY <1>1, <1>8, SnapWork DEF PreToolSnapshot
<1>9. CASE StartTool
  BY <1>1, <1>9 DEF StartTool, Current
<1>10. CASE ToolSucceeds
  BY <1>1, <1>10 DEF ToolSucceeds, MakeChange
<1>11. CASE ToolFails
  BY <1>1, <1>11 DEF ToolFails, MakeChange
<1>12. CASE PostToolSnapshot
  BY <1>1, <1>12, SnapWork DEF PostToolSnapshot
<1>13. CASE PreRestoreSnapshot
  BY <1>1, <1>13, SnapWork DEF PreRestoreSnapshot
<1>14. CASE Restore
  BY <1>1, <1>14 DEF Restore
<1>15. CASE RestoreFails
  BY <1>1, <1>15 DEF RestoreFails
<1>16. CASE Fork
  BY <1>1, <1>16 DEF Fork
<1>17. CASE FinalSnapshot
  BY <1>1, <1>17, SnapWork DEF FinalSnapshot
<1>18. CASE EndSession \/ Returned
  BY <1>1, <1>18 DEF EndSession, Returned, vars
<1>19. QED
  BY <1>2, <1>3, <1>4, <1>5, <1>6, <1>7, <1>8, <1>9, <1>10, <1>11, <1>12,
     <1>13, <1>14, <1>15, <1>16, <1>17, <1>18 DEF Next

-----------------------------------------------------------------------------
(***************************************************************************)
(* The theorems.                                                           *)
(***************************************************************************)

LEMMA IInvInductive == IInv /\ [Next]_vars => IInv'
<1>1. ASSUME IInv, Next PROVE IInv'
  BY <1>1, StepTypeOK, StepControl, StepWork DEF IInv
<1>2. ASSUME IInv, UNCHANGED vars PROVE IInv'
  BY <1>2 DEF IInv, TypeOK, Control, Work, vars, Current, Archived
<1>3. QED
  BY <1>1, <1>2

THEOREM LoopInvariant == Spec => []IInv
<1>1. QED
  BY InitIInv, IInvInductive, PTL DEF Spec

\* The loop keeps every variable typed: it starts at most maxIterations chats
\* and forks at most maxAutoRecoveries times, for all values of both.
THEOREM TypeCorrect == Spec => []TypeOK
<1>1. IInv => TypeOK
  BY DEF IInv
<1>2. QED
  BY <1>1, LoopInvariant, PTL

\* While nothing fails below the loop, work that was completed survives every
\* rollback.
THEOREM CompletedWork == Spec => []CompletedWorkSurvives
<1>1. IInv => CompletedWorkSurvives
  BY DEF IInv, Work, CompletedWorkSurvives
<1>2. QED
  BY <1>1, LoopInvariant, PTL

\* Work that was saved is in the sandbox until an extraction breaks half way.
THEOREM SavedWork == Spec => []SavedWorkSurvives
<1>1. IInv => SavedWorkSurvives
  BY DEF IInv, Work, SavedWorkSurvives
<1>2. QED
  BY <1>1, LoopInvariant, PTL

\* While nothing fails, a mutating tool runs with an exact rollback point.
THEOREM FreshRollbackPoint == Spec => []RollbackPointFresh
<1>1. IInv => RollbackPointFresh
  BY DEF IInv, Work, RollbackPointFresh
<1>2. QED
  BY <1>1, LoopInvariant, PTL

-----------------------------------------------------------------------------
(***************************************************************************)
(* The loop implements RecoverableRun.  A call is handled once: the calls  *)
(* in hand are apart from each other and from those that made an effect.   *)
(***************************************************************************)

Fresh ==
  /\ \A i \in 1..Len(pending) : /\ pending[i].id < nextCall
                                /\ pending[i].id \notin done \cup skipped
  /\ \A i, j \in 1..Len(pending) : i < j => pending[i].id < pending[j].id
  /\ \A id \in done \cup skipped : id < nextCall

LEMMA FirstHandled ==
  ASSUME TypeOK, Fresh, pending # <<>>, pending' = Tail(pending),
         nextCall' = nextCall,
         done' \subseteq done \cup {Current.id},
         skipped' \subseteq skipped \cup {Current.id}
  PROVE  Fresh'
<1>1. PICK n \in Nat : n = Len(pending)
  BY DEF TypeOK
<1>2. /\ Len(Tail(pending)) = n - 1
      /\ \A i \in 1..(n - 1) : Tail(pending)[i] = pending[i + 1]
  BY <1>1, HeadTailProperties DEF TypeOK
<1>3. n > 0 /\ Current = pending[1]
  BY <1>1 DEF TypeOK, Current
<1>4. \A i \in 1..n : pending[i].id \in Nat
  <2> TAKE i \in 1..n
  <2>1. pending[i] \in Call
    BY <1>1 DEF TypeOK
  <2>2. QED
    BY <2>1 DEF Call
<1>5. \A i \in 1..(n - 1) :
        /\ Tail(pending)[i].id < nextCall
        /\ Tail(pending)[i].id \notin done \cup skipped
        /\ Current.id < Tail(pending)[i].id
  <2> TAKE i \in 1..(n - 1)
  <2>1. i + 1 \in 1..n /\ 1 \in 1..n /\ 1 < i + 1
    BY <1>3
  <2>2. Tail(pending)[i] = pending[i + 1]
    BY <1>2
  <2>3. QED
    BY <1>1, <1>3, <2>1, <2>2 DEF Fresh
<1>6. \A i \in 1..(n - 1) : Tail(pending)[i].id \notin done' \cup skipped'
  <2> TAKE i \in 1..(n - 1)
  <2>1. Tail(pending)[i].id # Current.id
    <3>1. i + 1 \in 1..n /\ 1 \in 1..n
      BY <1>3
    <3>2. Tail(pending)[i].id \in Nat /\ Current.id \in Nat
      BY <1>2, <1>3, <1>4, <3>1
    <3>3. Current.id < Tail(pending)[i].id
      BY <1>5
    <3>4. ASSUME NEW a \in Nat, NEW b \in Nat, a < b PROVE a # b
      BY <3>4
    <3>5. QED
      BY <3>2, <3>3, <3>4
  <2>2. QED
    BY <1>5, <2>1
<1>7. \A i, j \in 1..(n - 1) : i < j => Tail(pending)[i].id < Tail(pending)[j].id
  <2> TAKE i, j \in 1..(n - 1)
  <2>1. i + 1 \in 1..n /\ j + 1 \in 1..n /\ (i < j => i + 1 < j + 1)
    OBVIOUS
  <2>2. QED
    BY <1>1, <1>2, <2>1 DEF Fresh
<1>8. \A id \in done' \cup skipped' : id < nextCall
  <2>1. Current.id < nextCall
    BY <1>1, <1>3 DEF Fresh
  <2>2. QED
    BY <2>1 DEF Fresh
<1>9. QED
  BY <1>2, <1>5, <1>6, <1>7, <1>8 DEF Fresh

LEMMA ReplyFresh ==
  ASSUME TypeOK, Fresh, NEW kinds \in Replies, Reply(kinds)
  PROVE  Fresh'
<1>1. PICK n \in Nat : n = Len(kinds)
  BY LimitsAssumption DEF Replies
<1>2. /\ pending' = [i \in 1..n |-> [id |-> nextCall + i - 1, kind |-> kinds[i],
                                     branch |-> branch]]
      /\ nextCall' = nextCall + n
      /\ UNCHANGED <<done, skipped>>
  BY <1>1 DEF Reply, diskVars
<1>3. Len(pending') = n /\ \A i \in 1..n : pending'[i].id = nextCall + i - 1
  BY <1>2
<1>4. nextCall \in Nat /\ done \cup skipped \subseteq Nat
  BY DEF TypeOK
<1>5. \A id \in done \cup skipped : id < nextCall
  BY DEF Fresh
<1>6. QED
  BY <1>2, <1>3, <1>4, <1>5 DEF Fresh

LEMMA FreshInductive == IInv /\ Fresh /\ [Next]_vars => Fresh'
<1> SUFFICES ASSUME IInv, Fresh, [Next]_vars PROVE Fresh'
  OBVIOUS
<1> USE DEF AnswerCurrent, chatVars, diskVars
<1>1. ASSUME UNCHANGED <<pending, nextCall, done, skipped>> PROVE Fresh'
  BY <1>1 DEF Fresh
<1>2. CASE Baseline \/ StartChat \/ OutOfIterations \/ ChatThrows \/ NextIteration
           \/ CallThrows \/ AllowCall \/ DenyAndRollBack
  BY <1>1, <1>2 DEF Baseline, StartChat, OutOfIterations, ChatThrows, NextIteration,
                    CallThrows, AllowCall, DenyAndRollBack
<1>3. CASE PreToolSnapshot \/ StartTool \/ PostToolSnapshot \/ PreRestoreSnapshot
           \/ Restore \/ FinalSnapshot \/ EndSession
  BY <1>1, <1>3 DEF PreToolSnapshot, StartTool, PostToolSnapshot, PreRestoreSnapshot,
                    Restore, FinalSnapshot, EndSession
<1>4. CASE Returned \/ UNCHANGED vars
  BY <1>1, <1>4 DEF Returned, vars
<1>5. CASE RejectCall \/ DenyAndAnswer
  BY <1>5, FirstHandled DEF RejectCall, DenyAndAnswer, IInv
<1>6. CASE ToolSucceeds \/ ToolFails \/ RestoreFails
  <2>1. pending # <<>> /\ pending' = Tail(pending) /\ nextCall' = nextCall
    BY <1>6 DEF ToolSucceeds, ToolFails, RestoreFails, IInv, Control, OnACall, RollingBack
  <2>2. done' \subseteq done \cup {Current.id} /\ skipped' \subseteq skipped \cup {Current.id}
    BY <1>6 DEF ToolSucceeds, ToolFails, RestoreFails, MakeChange
  <2>3. QED
    BY <2>1, <2>2, FirstHandled DEF IInv
<1>7. CASE \E kinds \in Replies : Reply(kinds)
  BY <1>7, ReplyFresh DEF IInv
<1>8. CASE Fork
  <2>1. Len(pending') = 0 /\ UNCHANGED <<nextCall, done, skipped>>
    BY <1>8 DEF Fork
  <2>2. QED
    BY <2>1 DEF Fresh
<1>9. QED
  BY <1>2, <1>3, <1>4, <1>5, <1>6, <1>7, <1>8 DEF Next

(* The steps of the loop as RecoverableRun sees them.                      *)
LEMMA StepKeepsPromise ==
  ASSUME IInv, Fresh, Next
  PROVE  [Promise!Next]_(Promise!absVars)
<1> USE DEF Promise!absVars
<1>1. /\ TypeOK /\ Control /\ Work
      /\ faults \in Nat /\ recoveries \in Nat
      /\ MaxAutoRecoveries \in Nat
  BY LimitsAssumption DEF IInv, TypeOK
<1> USE DEF AnswerCurrent, chatVars, diskVars
(* Only the budget and the counter of failures may change.                 *)
<1>2. ASSUME pc # "returned", pc' # "returned", UNCHANGED <<recoveries, done, skipped, sandbox>>,
             faults' = faults \/ faults' = faults + 1
      PROVE  [Promise!Next]_(Promise!absVars)
  <2>1. CASE faults' = faults
    BY <1>2, <2>1
  <2>2. CASE faults' = faults + 1
    BY <1>1, <1>2, <2>2 DEF Promise!Next, Promise!Damage
  <2>3. QED
    BY <1>2, <2>1, <2>2
<1>3. CASE StartChat \/ OutOfIterations \/ ChatThrows \/ NextIteration \/ RejectCall
           \/ CallThrows \/ AllowCall \/ DenyAndRollBack \/ DenyAndAnswer \/ StartTool
  BY <1>2, <1>3 DEF StartChat, OutOfIterations, ChatThrows, NextIteration, RejectCall,
                    CallThrows, AllowCall, DenyAndRollBack, DenyAndAnswer, StartTool
<1>4. CASE \E kinds \in Replies : Reply(kinds)
  <2>1. /\ pc = "reply" /\ pc' \in {"final", "dispatch"}
        /\ UNCHANGED <<recoveries, done, skipped, sandbox, faults>>
    BY <1>4 DEF Reply
  <2>2. QED
    BY <1>2, <2>1
<1>5. CASE Baseline \/ PreToolSnapshot \/ PostToolSnapshot \/ PreRestoreSnapshot
           \/ FinalSnapshot
  BY <1>2, <1>5 DEF Baseline, PreToolSnapshot, PostToolSnapshot, PreRestoreSnapshot,
                    FinalSnapshot, SnapAndCheckpoint, SnapshotTaken, SnapshotFails
<1>6. ASSUME pending # <<>> PROVE Current.id \notin done \cup skipped
  <2>1. Current = pending[1] /\ 1 \in 1..Len(pending)
    BY <1>1, <1>6 DEF TypeOK, Current
  <2>2. QED
    BY <2>1 DEF Fresh
<1>7. CASE ToolSucceeds \/ ToolFails
  <2>1. /\ pc = "running" /\ pc' \in {"dispatch", "post_tool"}
        /\ UNCHANGED <<recoveries, faults>>
        /\ Current.id \notin done \cup skipped
    BY <1>1, <1>6, <1>7 DEF ToolSucceeds, ToolFails, Control, OnACall
  <2>2. CASE done' = done \cup {Current.id} /\ skipped' = skipped
             /\ sandbox' = sandbox \cup {Current.id}
    <3>1. /\ done' \ skipped' = (done \ skipped) \cup {Current.id}
          /\ (done' \ skipped') \cap sandbox'
               = ((done \ skipped) \cap sandbox) \cup {Current.id}
          /\ Current.id \in (done' \ skipped') \ (done \ skipped)
      BY <2>1, <2>2
    <3>2. Promise!Complete
      BY <2>1, <3>1 DEF Promise!Complete
    <3>3. QED
      BY <3>2 DEF Promise!Next
  <2>3. CASE /\ done' = done \/ (done' = done \cup {Current.id} /\ Current.id \in skipped')
             /\ skipped' = skipped \/ skipped' = skipped \cup {Current.id}
             /\ sandbox' = sandbox \/ sandbox' = sandbox \cup {Current.id}
    <3>1. /\ done' \ skipped' = done \ skipped
          /\ (done' \ skipped') \cap sandbox' = (done \ skipped) \cap sandbox
      BY <2>1, <2>3
    <3>2. QED
      BY <2>1, <3>1
  <2>4. QED
    BY <1>7, <2>2, <2>3 DEF ToolSucceeds, ToolFails, MakeChange
<1>8. CASE Restore
  <2>1. /\ pc = "restore" /\ pc' = "fork" /\ sandbox' = rollbackPoint.content
        /\ UNCHANGED <<recoveries, done, skipped, faults>>
    BY <1>8 DEF Restore
  <2>2. CASE faults = 0
    <3>1. (done \ skipped) \cap sandbox' = (done \ skipped) \cap sandbox
      BY <1>1, <2>1, <2>2 DEF Work
    <3>2. QED
      BY <2>1, <3>1
  <2>3. CASE faults # 0
    BY <2>1, <2>3 DEF Promise!Next, Promise!Damage
  <2>4. QED
    BY <2>2, <2>3
<1>9. CASE RestoreFails
  <2>1. /\ pc = "restore" /\ pc' = "dispatch" /\ faults' = faults + 1
        /\ UNCHANGED <<recoveries, done, skipped>>
    BY <1>9 DEF RestoreFails
  <2>2. QED
    BY <1>1, <2>1 DEF Promise!Next, Promise!Damage
<1>10. CASE Fork
  <2>1. /\ pc = "fork" /\ pc' = "chat" /\ recoveries' = recoveries + 1
        /\ UNCHANGED <<done, skipped, sandbox, faults>>
    BY <1>10 DEF Fork
  <2>2. recoveries < MaxAutoRecoveries
    BY <1>1, <2>1 DEF Control, RollingBack
  <2>3. QED
    BY <2>1, <2>2 DEF Promise!Next, Promise!Recover
<1>11. CASE EndSession
  <2>1. /\ pc = "end" /\ pc' = "returned" /\ status' = status
        /\ UNCHANGED <<recoveries, done, skipped, sandbox, faults>>
    BY <1>11 DEF EndSession
  <2>2. status \in {"completed", "failed"}
    BY <1>1 DEF TypeOK
  <2>3. QED
    BY <2>1, <2>2 DEF Promise!Next, Promise!Finish
<1>12. CASE Returned
  BY <1>12 DEF Returned, vars
<1>13. QED
  BY <1>3, <1>4, <1>5, <1>7, <1>8, <1>9, <1>10, <1>11, <1>12 DEF Next

\* The loop implements RecoverableRun, for all budgets and whatever the model
\* asks for: completed work is kept through every recovery until the storage
\* fails, at most maxAutoRecoveries branches are opened, and the run ends once.
THEOREM Refinement == Spec => KeepsPromise
<1>1. Init => Promise!Init /\ Fresh
  BY DEF Init, Promise!Init, Fresh
<1>2. IInv /\ Fresh /\ [Next]_vars => [Promise!Next]_(Promise!absVars)
  <2>1. ASSUME UNCHANGED vars PROVE UNCHANGED Promise!absVars
    BY <2>1 DEF vars, Promise!absVars
  <2>2. QED
    BY <2>1, StepKeepsPromise
<1>3. QED
  BY <1>1, <1>2, LoopInvariant, FreshInductive, PTL DEF Spec, KeepsPromise, Promise!Spec

-----------------------------------------------------------------------------
(***************************************************************************)
(* The branches in the log.                                                *)
(***************************************************************************)

Forks == {f \in 1..Len(trace) : trace[f].type = "branch_start"}

(* n is a denial on branch b, and only the pre_restore checkpoint follows  *)
(* it, up to the position last.                                            *)
Denied(n, b, last) ==
  /\ n \in 1..last
  /\ trace[n].type = "policy_deny" /\ trace[n].branch = b
  /\ \A e \in 1..last : e > n => /\ trace[e].type = "checkpoint"
                                 /\ trace[e].attr = "pre_restore"

ForkedAtDenial(f) ==
  /\ f > 1 /\ Denied(trace[f].parent, trace[f].branch - 1, f - 1)
  /\ \A e \in 1..Len(trace) : e >= f => trace[e].branch >= trace[f].branch

Lineage ==
  /\ \A e \in 1..Len(trace) : trace[e].branch <= branch
  /\ \A f \in Forks : ForkedAtDenial(f)
  /\ Cardinality(Forks) = recoveries

RollbackHangs == pc \in RollingBack => Denied(denyNode, branch, Len(trace))

(* An event is appended on the branch.                                     *)
Logged(type, attr) ==
  /\ branch' = branch
  /\ \E e \in Tracker!Event : /\ trace' = Append(trace, e)
                              /\ e.type = type /\ e.attr = attr
                              /\ e.branch = branch

LEMMA EmitLogged ==
  ASSUME NEW type \in Tracker!EventTypes, NEW node \in Nat, NEW parent \in Nat,
         NEW attr \in Tracker!Attributes, branch \in Nat, branch' = branch,
         Tracker!Emit(type, node, parent, attr, 0)
  PROVE  Logged(type, attr)
<1> DEFINE e == [type |-> type, node |-> node, parent |-> parent,
                 branch |-> branch', attr |-> attr, from |-> 0]
<1>1. e \in Tracker!Event /\ e.type = type /\ e.attr = attr /\ e.branch = branch
  BY DEF Tracker!Event
<1>2. trace' = Append(trace, e)
  BY DEF Tracker!Emit
<1> HIDE DEF e
<1>3. QED
  BY <1>1, <1>2 DEF Logged

LEMMA AppendedTo ==
  ASSUME trace \in Seq(Tracker!Event), NEW e \in Tracker!Event,
         trace' = Append(trace, e)
  PROVE  /\ Len(trace) \in Nat /\ Len(trace') = Len(trace) + 1
         /\ trace'[Len(trace) + 1] = e
         /\ \A i \in 1..Len(trace) : trace'[i] = trace[i]
         /\ \A i \in 1..Len(trace') : i \in 1..Len(trace) \/ i = Len(trace) + 1
<1>1. /\ Len(trace) \in Nat /\ Len(trace') = Len(trace) + 1
      /\ trace'[Len(trace) + 1] = e
      /\ \A i \in 1..Len(trace) : trace'[i] = trace[i]
  OBVIOUS
<1>2. QED
  BY <1>1

(* A position's past does not change.                                      *)
LEMMA DeniedStays ==
  ASSUME NEW n, NEW b, NEW last \in 0..Len(trace), Denied(n, b, last),
         Len(trace) \in Nat, \A i \in 1..Len(trace) : trace'[i] = trace[i]
  PROVE  /\ n \in 1..last
         /\ trace'[n].type = "policy_deny" /\ trace'[n].branch = b
         /\ \A e \in 1..last : e > n => /\ trace'[e].type = "checkpoint"
                                        /\ trace'[e].attr = "pre_restore"
<1>1. \A i \in 1..last : trace'[i] = trace[i]
  OBVIOUS
<1>2. QED
  BY <1>1 DEF Denied

(* An event after a fork is on the fork's branch or on a later one.        *)
LEMMA ForkStays ==
  ASSUME IInv, Lineage, NEW e \in Tracker!Event, trace' = Append(trace, e),
         e.branch >= branch, NEW f \in Forks
  PROVE  ForkedAtDenial(f)'
<1>1. /\ Len(trace) \in Nat /\ Len(trace') = Len(trace) + 1
      /\ trace'[Len(trace) + 1] = e
      /\ \A i \in 1..Len(trace) : trace'[i] = trace[i]
      /\ \A i \in 1..Len(trace') : i \in 1..Len(trace) \/ i = Len(trace) + 1
  BY AppendedTo DEF IInv, TypeOK
<1>2. f \in 1..Len(trace) /\ trace'[f] = trace[f] /\ f > 1
  BY <1>1 DEF Forks, Lineage, ForkedAtDenial
<1>3. f - 1 \in 0..Len(trace)
  BY <1>1, <1>2
<1>4. Denied(trace[f].parent, trace[f].branch - 1, f - 1)'
  <2>1. Denied(trace[f].parent, trace[f].branch - 1, f - 1)
    BY DEF Lineage, ForkedAtDenial
  <2>2. LET n == trace[f].parent
        IN  /\ n \in 1..(f - 1)
            /\ trace'[n].type = "policy_deny" /\ trace'[n].branch = trace[f].branch - 1
            /\ \A i \in 1..(f - 1) : i > n => /\ trace'[i].type = "checkpoint"
                                              /\ trace'[i].attr = "pre_restore"
    BY <1>1, <1>3, <2>1, DeniedStays
  <2>3. QED
    BY <1>2, <2>2 DEF Denied
<1>5. ASSUME NEW i \in 1..Len(trace'), i >= f
      PROVE  trace'[i].branch >= trace'[f].branch
  <2>1. CASE i \in 1..Len(trace)
    BY <1>1, <1>2, <1>5, <2>1 DEF Lineage, ForkedAtDenial
  <2>2. CASE i = Len(trace) + 1
    <3>1. trace[f].branch <= branch
      BY <1>2 DEF Lineage
    <3>2. trace[f] \in Tracker!Event
      BY <1>2 DEF IInv, TypeOK
    <3>3. trace[f].branch \in Nat /\ e.branch \in Nat /\ branch \in Nat
      BY <3>2 DEF IInv, TypeOK, Tracker!Event
    <3>4. trace'[i].branch = e.branch /\ trace'[f].branch = trace[f].branch
      BY <1>1, <1>2, <2>2
    <3>5. QED
      BY <3>1, <3>3, <3>4
  <2>3. QED
    BY <1>1, <2>1, <2>2
<1>6. QED
  BY <1>2, <1>4, <1>5 DEF ForkedAtDenial

(* Any event but a fork.                                                   *)
LEMMA LoggedKeeps ==
  ASSUME IInv, Lineage, NEW type, NEW attr, Logged(type, attr),
         type # "branch_start", recoveries' = recoveries
  PROVE  Lineage'
<1>1. PICK e \in Tracker!Event : /\ trace' = Append(trace, e)
                                 /\ e.type = type /\ e.attr = attr
                                 /\ e.branch = branch /\ branch' = branch
  BY DEF Logged
<1>2. /\ Len(trace) \in Nat /\ Len(trace') = Len(trace) + 1
      /\ trace'[Len(trace) + 1] = e
      /\ \A i \in 1..Len(trace) : trace'[i] = trace[i]
      /\ \A i \in 1..Len(trace') : i \in 1..Len(trace) \/ i = Len(trace) + 1
  BY <1>1, AppendedTo DEF IInv, TypeOK
<1>3. branch \in Nat /\ e.branch >= branch
  BY <1>1 DEF IInv, TypeOK
<1>4. \A i \in 1..Len(trace') : trace'[i].branch <= branch'
  <2> TAKE i \in 1..Len(trace')
  <2>1. CASE i \in 1..Len(trace)
    BY <1>1, <1>2, <2>1 DEF Lineage
  <2>2. CASE i = Len(trace) + 1
    BY <1>1, <1>2, <1>3, <2>2
  <2>3. QED
    BY <1>2, <2>1, <2>2
<1>5. Forks' = Forks
  <2>1. ASSUME NEW i \in 1..Len(trace'), trace'[i].type = "branch_start"
        PROVE  i \in Forks
    BY <1>1, <1>2, <2>1 DEF Forks
  <2>2. ASSUME NEW i \in Forks
        PROVE  i \in 1..Len(trace') /\ trace'[i].type = "branch_start"
    BY <1>2, <2>2 DEF Forks
  <2>3. QED
    BY <2>1, <2>2 DEF Forks
<1>6. \A f \in Forks : ForkedAtDenial(f)'
  BY <1>1, <1>3, ForkStays
<1>7. QED
  BY <1>4, <1>5, <1>6 DEF Lineage

LEMMA ForksAreFinite ==
  ASSUME trace \in Seq(Tracker!Event)
  PROVE  IsFiniteSet(Forks)
<1>1. Len(trace) \in Nat /\ Forks \subseteq 1..Len(trace)
  BY DEF Forks
<1>2. IsFiniteSet(1..Len(trace))
  BY <1>1, FS_Interval
<1>3. QED
  BY <1>1, <1>2, FS_Subset

(* A fork hangs from the denial and opens the next branch.                 *)
LEMMA ForkKeeps ==
  ASSUME IInv, Lineage, RollbackHangs, Fork
  PROVE  Lineage'
<1> DEFINE e == [type |-> "branch_start", node |-> Tracker!FreshNode,
                 parent |-> denyNode, branch |-> branch', attr |-> "",
                 from |-> branch]
<1>0. PICK new \in Nat : new = Len(trace) + 1
  BY DEF IInv, TypeOK
<1>1. /\ pc = "fork" /\ branch' = branch + 1 /\ recoveries' = recoveries + 1
      /\ trace' = Append(trace, e)
  BY DEF Fork, Tracker!BranchOff, Tracker!Emit
<1>2. branch \in Nat /\ denyNode \in Nat /\ Tracker!FreshNode \in Nat /\ recoveries \in Nat
  BY NodesTyped, LimitsAssumption DEF IInv, TypeOK
<1>3. e \in Tracker!Event /\ e.type = "branch_start" /\ e.branch = branch + 1
      /\ e.parent = denyNode
  <2>1. "branch_start" \in Tracker!EventTypes /\ "" \in Tracker!Attributes
    BY DEF Tracker!EventTypes, Tracker!PlainTypes, Tracker!Attributes
  <2>2. branch' \in Nat
    <3>1. branch' = branch + 1
      BY DEF Fork, Tracker!BranchOff
    <3>2. QED
      BY <1>2, <3>1
  <2>3. e \in Tracker!Event
    BY <1>2, <2>1, <2>2 DEF Tracker!Event
  <2>4. QED
    BY <1>1, <2>3
<1> HIDE DEF e
<1>4. /\ Len(trace) \in Nat /\ Len(trace') = new /\ trace'[new] = e
      /\ \A i \in 1..Len(trace) : trace'[i] = trace[i]
      /\ \A i \in 1..Len(trace') : i \in 1..Len(trace) \/ i = new
  BY <1>0, <1>1, <1>3, AppendedTo DEF IInv, TypeOK
<1>5. \A i \in 1..Len(trace') : trace'[i].branch <= branch'
  <2> TAKE i \in 1..Len(trace')
  <2>1. CASE i \in 1..Len(trace)
    <3>1. trace[i].branch <= branch
      BY <2>1 DEF Lineage
    <3>2. trace[i] \in Tracker!Event
      BY <2>1 DEF IInv, TypeOK
    <3>3. trace[i].branch \in Nat
      BY <3>2 DEF Tracker!Event
    <3>4. QED
      BY <1>1, <1>2, <1>4, <2>1, <3>1, <3>3
  <2>2. CASE i = new
    BY <1>1, <1>2, <1>3, <1>4, <2>2
  <2>3. QED
    BY <1>4, <2>1, <2>2
<1>6. Forks' = Forks \cup {new} /\ new \notin Forks
  <2>1. ASSUME NEW i \in 1..Len(trace'), trace'[i].type = "branch_start"
        PROVE  i \in Forks \cup {new}
    BY <1>4, <2>1 DEF Forks
  <2>2. ASSUME NEW i \in Forks
        PROVE  i \in 1..Len(trace') /\ trace'[i].type = "branch_start"
    BY <1>0, <1>4, <2>2 DEF Forks
  <2>3. new \in 1..Len(trace') /\ trace'[new].type = "branch_start" /\ new \notin Forks
    BY <1>0, <1>3, <1>4 DEF Forks
  <2>4. QED
    BY <2>1, <2>2, <2>3 DEF Forks
<1>7. Cardinality(Forks') = recoveries'
  <2>1. IsFiniteSet(Forks)
    BY ForksAreFinite DEF IInv, TypeOK
  <2>2. Cardinality(Forks \cup {new}) = Cardinality(Forks) + 1
    BY <1>6, <2>1, FS_AddElement
  <2>3. QED
    BY <1>1, <1>6, <2>2 DEF Lineage
<1>8. \A f \in Forks : ForkedAtDenial(f)'
  <2>1. e.branch >= branch
    BY <1>2, <1>3
  <2>2. QED
    BY <1>1, <1>3, <2>1, ForkStays
<1>9. ForkedAtDenial(new)'
  <2>1. Denied(denyNode, branch, Len(trace))
    BY <1>1 DEF RollbackHangs, RollingBack
  <2>2. /\ denyNode \in 1..Len(trace)
        /\ trace'[denyNode].type = "policy_deny" /\ trace'[denyNode].branch = branch
        /\ \A i \in 1..Len(trace) : i > denyNode => /\ trace'[i].type = "checkpoint"
                                                    /\ trace'[i].attr = "pre_restore"
    <3>1. Len(trace) \in 0..Len(trace)
      BY <1>4
    <3>2. QED
      BY <1>4, <2>1, <3>1, DeniedStays
  <2>3. /\ trace'[new].parent = denyNode /\ trace'[new].branch - 1 = branch
        /\ new - 1 = Len(trace) /\ new > 1
    <3>1. trace'[new] = e
      BY <1>0, <1>4
    <3>2. new - 1 = Len(trace)
      BY <1>0, <1>4
    <3>3. new > 1
      BY <2>2, <3>2
    <3>4. trace'[new].parent = denyNode /\ trace'[new].branch - 1 = branch
      BY <1>2, <1>3, <3>1
    <3>5. QED
      BY <3>2, <3>3, <3>4
  <2>4. Denied(trace[new].parent, trace[new].branch - 1, new - 1)'
    BY <2>2, <2>3 DEF Denied
  <2>5. \A i \in 1..Len(trace') : i >= new => trace'[i].branch >= trace'[new].branch
    BY <1>2, <1>3, <1>4
  <2>6. QED
    BY <2>3, <2>4, <2>5 DEF ForkedAtDenial
<1>10. QED
  BY <1>5, <1>6, <1>7, <1>8, <1>9 DEF Lineage

(* What the steps but Fork do to the log.                                  *)
LEMMA StepLogs ==
  ASSUME IInv, Next, ~Fork
  PROVE  /\ recoveries' = recoveries
         /\ \/ UNCHANGED trackerVars
            \/ \E type \in Tracker!EventTypes \ {"branch_start"},
                  attr \in Tracker!Attributes : Logged(type, attr)
<1> USE DEF Tracker!Note, Tracker!BeforeCall, Tracker!AfterCall, Tracker!EndRun,
            SnapAndCheckpoint, SnapshotTaken, SnapshotFails, trackerVars
<1> DEFINE Types == Tracker!EventTypes \ {"branch_start"}
           Goal  == \/ UNCHANGED <<trace, branch>>
                    \/ \E type \in Types, attr \in Tracker!Attributes : Logged(type, attr)
<1>1. /\ {"model_call_start", "tool_call_start", "model_call_end",
          "tool_call_end", "policy_allow", "policy_deny", "checkpoint",
          "run_end"} \subseteq Types
      /\ {"", "manual", "pre_tool", "post_tool", "pre_restore", "final",
          "completed", "failed"} \subseteq Tracker!Attributes
  BY DEF Tracker!EventTypes, Tracker!StartTypes, Tracker!EndTypes,
         Tracker!PlainTypes, Tracker!Attributes, Tracker!SnapshotKinds
<1>2. /\ Tracker!LastNode \in Nat /\ Tracker!FreshNode \in Nat
      /\ branch \in Nat /\ status \in {"completed", "failed"}
  BY NodesTyped DEF IInv, TypeOK
<1>3. ASSUME NEW type \in Types, NEW node \in Nat, NEW parent \in Nat,
             NEW attr \in Tracker!Attributes, branch' = branch,
             Tracker!Emit(type, node, parent, attr, 0)
      PROVE  Goal
  <2>1. Logged(type, attr)
    BY <1>2, <1>3, EmitLogged
  <2>2. QED
    BY <2>1
<1> HIDE DEF Goal, Types
<1>4. CASE Baseline \/ PreToolSnapshot \/ PostToolSnapshot \/ PreRestoreSnapshot
           \/ FinalSnapshot
  <2>1. recoveries' = recoveries
    BY <1>4 DEF Baseline, PreToolSnapshot, PostToolSnapshot, PreRestoreSnapshot,
                FinalSnapshot
  <2>2. PICK kind \in {"manual", "pre_tool", "post_tool", "pre_restore", "final"} :
          SnapAndCheckpoint(kind)
    BY <1>4 DEF Baseline, PreToolSnapshot, PostToolSnapshot, PreRestoreSnapshot,
                FinalSnapshot
  <2>3. CASE SnapshotFails
    BY <2>1, <2>3 DEF Goal, Types
  <2>4. CASE SnapshotTaken(kind)
    <3>1. Goal
      BY <1>1, <1>2, <1>3, <2>2, <2>4
    <3>2. QED
      BY <2>1, <3>1 DEF Goal, Types
  <2>5. QED
    BY <2>2, <2>3, <2>4
<1>5. CASE StartChat \/ StartTool
  <2>1. Goal
    BY <1>1, <1>2, <1>3, <1>5 DEF StartChat, StartTool
  <2>2. QED
    BY <1>5, <2>1 DEF StartChat, StartTool, Goal, Types
<1>6. CASE (\E kinds \in Replies : Reply(kinds)) \/ ToolSucceeds \/ ToolFails
  <2>1. Goal
    BY <1>1, <1>2, <1>3, <1>6 DEF Reply, ToolSucceeds, ToolFails
  <2>2. recoveries' = recoveries
    BY <1>6 DEF Reply, ToolSucceeds, ToolFails
  <2>3. QED
    BY <2>1, <2>2 DEF Goal, Types
<1>7. CASE AllowCall \/ DenyAndRollBack \/ DenyAndAnswer \/ EndSession
  <2>1. Goal
    BY <1>1, <1>2, <1>3, <1>7 DEF AllowCall, DenyAndRollBack, DenyAndAnswer, EndSession
  <2>2. recoveries' = recoveries
    BY <1>7 DEF AllowCall, DenyAndRollBack, DenyAndAnswer, EndSession
  <2>3. QED
    BY <2>1, <2>2 DEF Goal, Types
<1>8. CASE OutOfIterations \/ ChatThrows \/ NextIteration \/ RejectCall
           \/ CallThrows \/ Restore \/ RestoreFails \/ Returned
  BY <1>8 DEF OutOfIterations, ChatThrows, NextIteration, RejectCall,
              CallThrows, Restore, RestoreFails, Returned, vars
<1>9. QED
  BY <1>4, <1>5, <1>6, <1>7, <1>8 DEF Next

(* The denial is the last event before the rollback, and the rollback adds *)
(* its own checkpoint at most.                                             *)
LEMMA StepRollback ==
  ASSUME IInv, Lineage, RollbackHangs, Next
  PROVE  RollbackHangs'
<1> USE DEF RollbackHangs, RollingBack
<1>1. CASE DenyAndRollBack
  <2>1. /\ denyNode' = Tracker!FreshNode /\ branch' = branch
        /\ Tracker!Emit("policy_deny", Tracker!FreshNode, Tracker!LastNode, "", 0)
    BY <1>1 DEF DenyAndRollBack, Tracker!Note
  <2>2. /\ branch \in Nat /\ Tracker!FreshNode \in Nat /\ Tracker!LastNode \in Nat
        /\ "policy_deny" \in Tracker!EventTypes /\ "" \in Tracker!Attributes
    BY NodesTyped DEF IInv, TypeOK, Tracker!EventTypes, Tracker!PlainTypes,
                      Tracker!Attributes
  <2>3. Logged("policy_deny", "")
    BY <2>1, <2>2, EmitLogged
  <2>4. PICK e \in Tracker!Event : trace' = Append(trace, e) /\ e.type = "policy_deny"
                                   /\ e.branch = branch
    BY <2>3 DEF Logged
  <2>5. /\ Len(trace) \in Nat /\ Len(trace') = Len(trace) + 1
        /\ trace'[Len(trace) + 1] = e
    BY <2>4, AppendedTo DEF IInv, TypeOK
  <2>6. denyNode' = Len(trace) + 1
    BY <2>1 DEF Tracker!FreshNode
  <2>7. Denied(denyNode, branch, Len(trace))'
    <3>1. /\ denyNode' \in 1..Len(trace') /\ trace'[denyNode'] = e
          /\ \A i \in 1..Len(trace') : ~(i > denyNode')
      BY <2>5, <2>6
    <3>2. branch' = branch
      BY <2>1
    <3>3. QED
      BY <2>4, <3>1, <3>2 DEF Denied
  <2>8. QED
    BY <2>7
<1>2. CASE PreRestoreSnapshot
  <2>1. Denied(denyNode, branch, Len(trace)) /\ denyNode' = denyNode
    BY <1>2 DEF PreRestoreSnapshot
  <2>2. CASE SnapshotFails
    BY <2>1, <2>2 DEF SnapshotFails, trackerVars, Denied
  <2>3. CASE SnapshotTaken("pre_restore")
    <3>1. /\ branch' = branch
          /\ Tracker!Emit("checkpoint", Tracker!FreshNode, Tracker!LastNode, "pre_restore", 0)
      BY <2>3 DEF SnapshotTaken, Tracker!Note
    <3>2. /\ branch \in Nat /\ Tracker!FreshNode \in Nat /\ Tracker!LastNode \in Nat
          /\ "checkpoint" \in Tracker!EventTypes /\ "pre_restore" \in Tracker!Attributes
      BY NodesTyped DEF IInv, TypeOK, Tracker!EventTypes, Tracker!PlainTypes,
                        Tracker!Attributes, Tracker!SnapshotKinds
    <3>3. Logged("checkpoint", "pre_restore")
      BY <3>1, <3>2, EmitLogged
    <3>4. PICK e \in Tracker!Event :
            trace' = Append(trace, e) /\ e.type = "checkpoint" /\ e.attr = "pre_restore"
      BY <3>3 DEF Logged
    <3>5. /\ Len(trace) \in Nat /\ Len(trace') = Len(trace) + 1
          /\ trace'[Len(trace) + 1] = e
          /\ \A i \in 1..Len(trace) : trace'[i] = trace[i]
          /\ \A i \in 1..Len(trace') : i \in 1..Len(trace) \/ i = Len(trace) + 1
      BY <3>4, AppendedTo DEF IInv, TypeOK
    <3>6. Len(trace) \in 0..Len(trace)
      BY <3>5
    <3>7. /\ denyNode \in 1..Len(trace)
          /\ trace'[denyNode].type = "policy_deny" /\ trace'[denyNode].branch = branch
          /\ \A i \in 1..Len(trace) : i > denyNode => /\ trace'[i].type = "checkpoint"
                                                      /\ trace'[i].attr = "pre_restore"
      BY <2>1, <3>5, <3>6, DeniedStays
    <3>8. \A i \in 1..Len(trace') : i > denyNode => /\ trace'[i].type = "checkpoint"
                                                    /\ trace'[i].attr = "pre_restore"
      BY <3>4, <3>5, <3>7
    <3>9. denyNode \in 1..Len(trace')
      BY <3>5, <3>7
    <3>10. QED
      BY <2>1, <3>1, <3>7, <3>8, <3>9 DEF Denied
  <2>4. QED
    BY <1>2, <2>2, <2>3 DEF PreRestoreSnapshot, SnapAndCheckpoint
<1>3. CASE Restore
  BY <1>3 DEF Restore, trackerVars, Denied
<1>4. CASE ~(DenyAndRollBack \/ PreRestoreSnapshot \/ Restore) /\ ~Returned
  <2>1. pc' \notin RollingBack
    BY <1>4
    DEF Next, Baseline, StartChat, OutOfIterations, ChatThrows, Reply, NextIteration,
        RejectCall, CallThrows, AllowCall, DenyAndAnswer, PreToolSnapshot, StartTool,
        ToolSucceeds, ToolFails, PostToolSnapshot, RestoreFails, Fork, FinalSnapshot,
        EndSession
  <2>2. QED
    BY <2>1
<1>5. CASE Returned
  BY <1>5 DEF Returned, vars
<1>6. QED
  BY <1>1, <1>2, <1>3, <1>4, <1>5

LEMMA LineageHolds == Spec => [](IInv /\ Lineage /\ RollbackHangs)
<1>1. Init => Lineage /\ RollbackHangs
  <2> SUFFICES ASSUME Init PROVE Lineage /\ RollbackHangs
    OBVIOUS
  <2> DEFINE e == [type |-> "run_start", node |-> 1, parent |-> 0, branch |-> 1,
                   attr |-> "", from |-> 0]
  <2>1. e.type = "run_start" /\ e.branch = 1 /\ trace = <<e>> /\ branch = 1
    BY DEF Init, Tracker!Started
  <2> HIDE DEF e
  <2>2. Len(trace) = 1 /\ trace[1] = e
    BY <2>1
  <2>3. Forks = {}
    BY <2>1, <2>2 DEF Forks
  <2>4. Cardinality(Forks) = 0
    BY <2>3, FS_EmptySet
  <2>5. QED
    BY <2>1, <2>2, <2>3, <2>4 DEF Init, Lineage, RollbackHangs, RollingBack
<1>2. ASSUME IInv, Lineage, RollbackHangs, [Next]_vars
      PROVE  Lineage' /\ RollbackHangs'
  <2>1. ASSUME UNCHANGED <<trackerVars, recoveries>> PROVE Lineage'
    BY <1>2, <2>1 DEF Lineage, Forks, ForkedAtDenial, Denied, trackerVars
  <2>2. CASE UNCHANGED vars
    BY <1>2, <2>1, <2>2 DEF vars, trackerVars, RollbackHangs, Denied
  <2>3. CASE Next /\ ~Fork
    <3>1. RollbackHangs'
      BY <1>2, <2>3, StepRollback
    <3>2. CASE UNCHANGED trackerVars
      BY <1>2, <2>1, <2>3, <3>1, <3>2, StepLogs
    <3>3. CASE ~UNCHANGED trackerVars
      <4>1. PICK type \in Tracker!EventTypes \ {"branch_start"},
                 attr \in Tracker!Attributes : Logged(type, attr)
        BY <1>2, <2>3, <3>3, StepLogs
      <4>2. recoveries' = recoveries
        BY <1>2, <2>3, StepLogs
      <4>3. Lineage'
        BY <1>2, <4>1, <4>2, LoggedKeeps
      <4>4. QED
        BY <3>1, <4>3
    <3>4. QED
      BY <3>2, <3>3
  <2>4. CASE Next /\ Fork
    BY <1>2, <2>4, ForkKeeps, StepRollback
  <2>5. QED
    BY <1>2, <2>2, <2>3, <2>4
<1>3. IInv /\ Lineage /\ RollbackHangs /\ [Next]_vars => (IInv /\ Lineage /\ RollbackHangs)'
  BY <1>2, IInvInductive
<1>4. QED
  BY <1>1, <1>3, InitIInv, PTL DEF Spec

\* "No further actions on the failed branch": for all budgets, a branch that was
\* forked at a denial gets no event any more, and between the denial and the
\* fork the pre_restore checkpoint at most.
THEOREM BranchesFreeze == Spec => []FailedBranchFrozen
<1>1. ASSUME IInv, Lineage PROVE FailedBranchFrozen
  <2>0. DOMAIN trace = 1..Len(trace)
    BY <1>1 DEF IInv, TypeOK
  <2> SUFFICES ASSUME NEW f \in 1..Len(trace), trace[f].type = "branch_start",
                      NEW e \in 1..Len(trace), e > trace[f].parent,
                      trace[e].branch = trace[trace[f].parent].branch
               PROVE  e < f /\ trace[e].type = "checkpoint" /\ trace[e].attr = "pre_restore"
    BY <2>0 DEF FailedBranchFrozen
  <2>1. ForkedAtDenial(f)
    BY <1>1 DEF Lineage, Forks
  <2>2. trace[e].branch = trace[f].branch - 1
    BY <2>1 DEF ForkedAtDenial, Denied
  <2>3. trace[e] \in Tracker!Event /\ trace[f] \in Tracker!Event
    BY <1>1 DEF IInv, TypeOK
  <2>4. trace[e].branch \in Nat /\ trace[f].branch \in Nat
    BY <2>3 DEF Tracker!Event
  <2>5. ~(e >= f)
    BY <2>1, <2>2, <2>4 DEF ForkedAtDenial
  <2>6. e < f /\ e \in 1..(f - 1)
    BY <2>5
  <2>7. QED
    BY <2>1, <2>6 DEF ForkedAtDenial, Denied
<1>2. QED
  BY <1>1, LineageHolds, PTL

\* Every recovery branch hangs from the denial that caused it, on the branch
\* that was live then, and there are as many as autoRecoveriesUsed says.
THEOREM ForksHangFromDenials == Spec => []ForksAtDenials
<1>1. ASSUME IInv, Lineage PROVE ForksAtDenials
  <2>1. DOMAIN trace = 1..Len(trace)
    BY <1>1 DEF IInv, TypeOK
  <2>2. {f \in DOMAIN trace : trace[f].type = "branch_start"} = Forks
    BY <2>1 DEF Forks
  <2>3. \A f \in Forks : /\ trace[f].parent \in 1..(f - 1)
                         /\ trace[trace[f].parent].type = "policy_deny"
                         /\ trace[trace[f].parent].branch = trace[f].branch - 1
    BY <1>1 DEF Lineage, ForkedAtDenial, Denied
  <2>4. QED
    BY <1>1, <2>2, <2>3 DEF ForksAtDenials, Lineage
<1>2. QED
  BY <1>1, LineageHolds, PTL

-----------------------------------------------------------------------------
(***************************************************************************)
(* The conversation.  What was asked was answered or is still in hand.     *)
(***************************************************************************)

PendingIds == {pending[i].id : i \in 1..Len(pending)}
AskedIds   == {c.id : c \in asked}

Conversation ==
  /\ \A c \in asked : c.branch = branch
  /\ \A i \in 1..Len(pending) : pending[i] \in asked
  /\ AskedIds = answered \cup PendingIds
  /\ pc \in {"baseline", "chat", "reply"} => pending = <<>>

LEMMA AnswerKeeps ==
  ASSUME IInv, Conversation, pending # <<>>, AnswerCurrent, branch' = branch,
         pc' \notin {"baseline", "chat", "reply"}
  PROVE  Conversation'
<1>1. /\ answered' = answered \cup {Current.id} /\ pending' = Tail(pending)
      /\ asked' = asked
  BY DEF AnswerCurrent
<1>2. PICK n \in Nat : n = Len(pending)
  BY DEF IInv, TypeOK
<1>3. n > 0 /\ Current = pending[1]
  BY <1>2 DEF IInv, TypeOK, Current
<1>4. Len(pending') = n - 1 /\ \A i \in 1..(n - 1) : pending'[i] = pending[i + 1]
  BY <1>1, <1>2, HeadTailProperties DEF IInv, TypeOK
<1>5. \A i \in 1..n : i = 1 \/ (i - 1 \in 1..(n - 1) /\ (i - 1) + 1 = i)
  OBVIOUS
<1>6. \A i \in 1..(n - 1) : i + 1 \in 1..n
  OBVIOUS
<1>7. \A i \in 1..Len(pending') : pending'[i] \in asked'
  BY <1>1, <1>2, <1>4, <1>6 DEF Conversation
<1>8. PendingIds = {Current.id} \cup PendingIds'
  <2>1. ASSUME NEW i \in 1..n PROVE pending[i].id \in {Current.id} \cup PendingIds'
    <3>1. CASE i = 1
      BY <1>3, <3>1
    <3>2. CASE i # 1
      <4>1. i - 1 \in 1..Len(pending') /\ pending'[i - 1] = pending[i]
        BY <1>4, <1>5, <3>2
      <4>2. QED
        BY <4>1 DEF PendingIds
    <3>3. QED
      BY <3>1, <3>2
  <2>2. ASSUME NEW i \in 1..Len(pending') PROVE pending'[i].id \in PendingIds
    BY <1>2, <1>4, <1>6, <2>2 DEF PendingIds
  <2>3. Current.id \in PendingIds
    <3>1. 1 \in 1..Len(pending)
      BY <1>2, <1>3
    <3>2. QED
      BY <1>3, <3>1 DEF PendingIds
  <2>4. PendingIds \subseteq {Current.id} \cup PendingIds'
    BY <1>2, <2>1 DEF PendingIds
  <2>5. PendingIds' \subseteq PendingIds
    BY <2>2 DEF PendingIds
  <2>6. QED
    BY <2>3, <2>4, <2>5
<1>9. AskedIds' = answered' \cup PendingIds'
  BY <1>1, <1>8 DEF Conversation, AskedIds
<1>10. QED
  BY <1>1, <1>7, <1>9 DEF Conversation

LEMMA ReplyConverses ==
  ASSUME IInv, Conversation, NEW kinds \in Replies, Reply(kinds)
  PROVE  Conversation'
<1>1. PICK n \in Nat : n = Len(kinds)
  BY LimitsAssumption DEF Replies
<1> DEFINE call(i) == [id |-> nextCall + i - 1, kind |-> kinds[i], branch |-> branch]
<1>2. /\ pc = "reply" /\ pc' \in {"final", "dispatch"}
      /\ pending' = [i \in 1..n |-> call(i)]
      /\ asked' = asked \cup {call(i) : i \in 1..n}
      /\ answered' = answered
  BY <1>1 DEF Reply
<1>3. branch' = branch
  BY DEF Reply, Tracker!AfterCall
<1>4. \A i \in 1..n : call(i).branch = branch
  OBVIOUS
<1> HIDE DEF call
<1>5. Len(pending') = n /\ \A i \in 1..n : pending'[i] = call(i)
  BY <1>2
<1>6. pending = <<>> /\ Len(pending) = 0 /\ PendingIds = {}
  <2>1. pending = <<>>
    BY <1>2 DEF Conversation
  <2>2. QED
    BY <2>1 DEF PendingIds
<1>7. PendingIds' = {call(i).id : i \in 1..n}
  BY <1>5 DEF PendingIds
<1>8. AskedIds' = AskedIds \cup {call(i).id : i \in 1..n}
  BY <1>2 DEF AskedIds
<1>9. QED
  BY <1>2, <1>3, <1>4, <1>5, <1>6, <1>7, <1>8 DEF Conversation

LEMMA ConversationHolds == Spec => []Conversation
<1> USE DEF AnswerCurrent, chatVars
<1>1. ASSUME Init PROVE Conversation
  <2>1. pending = <<>> /\ Len(pending) = 0 /\ asked = {} /\ answered = {}
    BY <1>1 DEF Init
  <2>2. QED
    BY <2>1 DEF Conversation, AskedIds, PendingIds
<1>2. ASSUME IInv, Conversation, [Next]_vars PROVE Conversation'
  <2>1. ASSUME UNCHANGED <<pending, asked, answered, branch>>,
               pc' \in {"baseline", "chat", "reply"} => pending = <<>>
        PROVE  Conversation'
    BY <1>2, <2>1 DEF Conversation, AskedIds, PendingIds
  <2>2. CASE Baseline \/ PreToolSnapshot \/ PostToolSnapshot \/ PreRestoreSnapshot
             \/ FinalSnapshot
    BY <1>2, <2>1, <2>2
    DEF Baseline, PreToolSnapshot, PostToolSnapshot, PreRestoreSnapshot, FinalSnapshot,
        SnapAndCheckpoint, SnapshotTaken, SnapshotFails, trackerVars, Tracker!Note,
        Conversation
  <2>3. CASE StartChat \/ OutOfIterations \/ ChatThrows \/ NextIteration \/ CallThrows
    BY <1>2, <2>1, <2>3
    DEF StartChat, OutOfIterations, ChatThrows, NextIteration, CallThrows, trackerVars,
        Tracker!BeforeCall, Conversation
  <2>4. CASE AllowCall \/ DenyAndRollBack \/ StartTool \/ Restore \/ EndSession
    BY <1>2, <2>1, <2>4
    DEF AllowCall, DenyAndRollBack, StartTool, Restore, EndSession, trackerVars,
        Tracker!Note, Tracker!BeforeCall, Tracker!EndRun
  <2>5. CASE Returned \/ UNCHANGED vars
    BY <1>2, <2>5 DEF Returned, vars, Conversation, AskedIds, PendingIds
  <2>6. CASE RejectCall \/ DenyAndAnswer
    BY <1>2, <2>6, AnswerKeeps DEF RejectCall, DenyAndAnswer, trackerVars, Tracker!Note
  <2>7. CASE ToolSucceeds \/ ToolFails \/ RestoreFails
    <3>1. pending # <<>>
      BY <1>2, <2>7 DEF ToolSucceeds, ToolFails, RestoreFails, IInv, Control, OnACall,
                        RollingBack
    <3>2. /\ AnswerCurrent /\ branch' = branch
          /\ pc' \in {"dispatch", "post_tool"}
      BY <2>7 DEF ToolSucceeds, ToolFails, RestoreFails, trackerVars, Tracker!AfterCall
    <3>3. QED
      BY <1>2, <3>1, <3>2, AnswerKeeps
  <2>8. CASE \E kinds \in Replies : Reply(kinds)
    BY <1>2, <2>8, ReplyConverses
  <2>9. CASE Fork
    <3>1. pending' = <<>> /\ Len(pending') = 0 /\ asked' = {} /\ answered' = {}
      BY <2>9 DEF Fork
    <3>2. QED
      BY <3>1 DEF Conversation, AskedIds, PendingIds
  <2>10. QED
    BY <1>2, <2>2, <2>3, <2>4, <2>5, <2>6, <2>7, <2>8, <2>9 DEF Next
<1>3. QED
  BY <1>1, <1>2, LoopInvariant, PTL DEF Spec

\* A chat is started with a conversation the API accepts: every call in it has
\* its answer and was asked on the branch that is live; no call of the branch
\* that failed is left.
THEOREM ConversationsFit == Spec => []ConversationOfTheBranch
<1>1. ASSUME IInv, Conversation PROVE ConversationOfTheBranch
  <2>1. DOMAIN pending = 1..Len(pending)
    BY <1>1 DEF IInv, TypeOK
  <2>2. pc = "chat" => AskedIds = answered
    <3>1. pending = <<>> => PendingIds = {}
      BY DEF PendingIds
    <3>2. QED
      BY <1>1, <3>1 DEF Conversation
  <2>3. QED
    BY <1>1, <2>1, <2>2 DEF ConversationOfTheBranch, Conversation, AskedIds
<1>2. QED
  BY <1>1, LoopInvariant, ConversationHolds, PTL

-----------------------------------------------------------------------------
(***************************************************************************)
(* The loop does not go in circles: a step goes forward in the iteration,  *)
(* or starts the next one.                                                 *)
(***************************************************************************)

Asking  == {"baseline", "chat", "reply"}
Leaving == {"final", "end", "returned"}

(* An iteration asks for a reply and handles its calls; then run() is left.*)
Stage(l) == IF l \in Asking THEN 1 ELSE IF l \in Leaving THEN 3 ELSE 2

(* How far each stage, and the handling of one call, has got.              *)
Place(l) ==
  IF l \in {"baseline", "post_tool", "final"} THEN 1
  ELSE IF l \in {"chat", "dispatch", "end"} THEN 2
  ELSE IF l \in {"reply", "pre_tool", "pre_restore", "returned"} THEN 3
  ELSE IF l \in {"execute", "restore"} THEN 4 ELSE 5

GoesOn ==
  \/ iter' > iter
  \/ /\ iter' = iter
     /\ \/ Stage(pc') > Stage(pc)
        \/ /\ Stage(pc') = Stage(pc)
           /\ \/ Len(pending') < Len(pending)
              \/ Len(pending') = Len(pending) /\ Place(pc') > Place(pc)

LEMMA AnswerShortens ==
  ASSUME TypeOK, pending # <<>>, AnswerCurrent
  PROVE  Len(pending') < Len(pending)
<1>1. pending \in Seq(Call)
  BY DEF TypeOK
<1>2. Len(Tail(pending)) = Len(pending) - 1 /\ Len(pending) \in Nat
  BY <1>1
<1>3. QED
  BY <1>2 DEF AnswerCurrent

LEMMA StepGoesOn ==
  ASSUME IInv, Next
  PROVE  GoesOn \/ UNCHANGED vars
<1>1. TypeOK /\ iter \in Nat
  BY DEF IInv, TypeOK
<1>2. CASE \/ Baseline \/ StartChat \/ AllowCall \/ DenyAndRollBack \/ PreToolSnapshot
           \/ StartTool \/ PostToolSnapshot \/ PreRestoreSnapshot \/ Restore
           \/ FinalSnapshot \/ EndSession
  <2>1. iter' = iter /\ pending' = pending
    BY <1>2
    DEF Baseline, StartChat, AllowCall, DenyAndRollBack, PreToolSnapshot, StartTool,
        PostToolSnapshot, PreRestoreSnapshot, Restore, FinalSnapshot, EndSession, chatVars
  <2>2. \/ pc = "baseline" /\ pc' = "chat"
        \/ pc = "post_tool" /\ pc' = "dispatch"
        \/ pc = "chat" /\ pc' = "reply"
        \/ pc = "dispatch" /\ pc' \in {"pre_tool", "execute", "pre_restore"}
        \/ pc = "pre_tool" /\ pc' = "execute"
        \/ pc = "execute" /\ pc' = "running"
        \/ pc = "pre_restore" /\ pc' = "restore"
        \/ pc = "restore" /\ pc' = "fork"
        \/ pc = "final" /\ pc' = "end"
        \/ pc = "end" /\ pc' = "returned"
    BY <1>2
    DEF Baseline, StartChat, AllowCall, DenyAndRollBack, PreToolSnapshot, StartTool,
        PostToolSnapshot, PreRestoreSnapshot, Restore, FinalSnapshot, EndSession
  <2>3. Stage(pc') = Stage(pc)
    BY <2>2 DEF Stage, Asking, Leaving
  <2>4. Place(pc') > Place(pc)
    BY <2>2 DEF Place
  <2>5. QED
    BY <2>1, <2>3, <2>4 DEF GoesOn
<1>3. CASE OutOfIterations \/ ChatThrows \/ CallThrows \/ \E kinds \in Replies : Reply(kinds)
  <2>1. iter' = iter /\ Stage(pc') > Stage(pc)
    BY <1>3 DEF OutOfIterations, ChatThrows, CallThrows, Reply, Stage, Asking, Leaving
  <2>2. QED
    BY <2>1 DEF GoesOn
<1>4. CASE RejectCall \/ DenyAndAnswer \/ ToolSucceeds \/ ToolFails \/ RestoreFails
  <2>1. pending # <<>>
    BY <1>4 DEF RejectCall, DenyAndAnswer, ToolSucceeds, ToolFails, RestoreFails, IInv,
                Control, OnACall, RollingBack
  <2>2. AnswerCurrent /\ iter' = iter
    BY <1>4 DEF RejectCall, DenyAndAnswer, ToolSucceeds, ToolFails, RestoreFails
  <2>3. Stage(pc') = Stage(pc)
    BY <1>4 DEF RejectCall, DenyAndAnswer, ToolSucceeds, ToolFails, RestoreFails, Stage,
                Asking, Leaving
  <2>4. QED
    BY <1>1, <2>1, <2>2, <2>3, AnswerShortens DEF GoesOn
<1>5. CASE NextIteration \/ Fork
  BY <1>1, <1>5 DEF NextIteration, Fork, GoesOn
<1>6. CASE Returned
  BY <1>6 DEF Returned
<1>7. QED
  BY <1>2, <1>3, <1>4, <1>5, <1>6 DEF Next

\* run() cannot go on for ever, whatever the model replies, the policy decides and
\* fails: every step starts the next of at most maxIterations iterations, or takes
\* this one nearer to its end, by a call of the reply or by a step of that call.
\* A rollback uses its iteration up.  Together with the fairness that FairSpec assumes
\* and the absence of deadlock, which TLC checks, this is why the loop terminates.
THEOREM IterationsGoForward == Spec => [][iter' <= MaxIterations /\ GoesOn]_vars
<1>1. IInv /\ IInv' /\ [Next]_vars => [iter' <= MaxIterations /\ GoesOn]_vars
  <2>1. SUFFICES ASSUME IInv, IInv', Next, ~UNCHANGED vars
                 PROVE  iter' <= MaxIterations /\ GoesOn
    OBVIOUS
  <2>2. iter' \in 0..MaxIterations
    BY <2>1 DEF IInv, TypeOK
  <2>3. QED
    BY <2>1, <2>2, StepGoesOn, LimitsAssumption DEF LimitsAssumption
<1>2. QED
  BY <1>1, LoopInvariant, PTL DEF Spec
=============================================================================
