--------------------------- MODULE RecoverableRun ---------------------------
(***************************************************************************)
(* What the autonomous loop promises to whoever started the run, without   *)
(* chats, calls, snapshots or a log: as long as the storage below it is    *)
(* reliable, work that was done and allowed stays in the sandbox whatever  *)
(* is undone around it; at most MaxRecoveries times is the run moved to a  *)
(* recovery branch, reliable storage or not, and it ends once.             *)
(***************************************************************************)
EXTENDS Naturals

CONSTANT MaxRecoveries

VARIABLES
  completed,   \* the pieces of work completed so far
  kept,        \* those of them that are in the sandbox
  generation,  \* recovery branches opened so far
  outcome,     \* "running", then how the run ended
  reliable     \* no snapshot or extraction has failed

absVars == <<completed, kept, generation, outcome, reliable>>

Init ==
  /\ completed = {} /\ kept = {}
  /\ generation = 0 /\ outcome = "running" /\ reliable = TRUE

(* One more piece of work is completed.                                    *)
Complete ==
  /\ outcome = "running"
  /\ \E piece \in completed' \ completed :
       /\ completed' = completed \cup {piece}
       /\ kept' = kept \cup {piece}
  /\ UNCHANGED <<generation, outcome, reliable>>

(* A denied action is rolled back: the run moves to a new branch.  What is *)
(* kept does not change.                                                   *)
Recover ==
  /\ outcome = "running"
  /\ generation < MaxRecoveries
  /\ generation' = generation + 1
  /\ UNCHANGED <<completed, kept, outcome, reliable>>

(* The storage fails, or has failed: work may be lost, or come back.       *)
Damage ==
  /\ outcome = "running"
  /\ reliable' = FALSE
  /\ kept' \in SUBSET completed
  /\ UNCHANGED <<completed, generation, outcome>>

Finish ==
  /\ outcome = "running"
  /\ outcome' \in {"completed", "failed"}
  /\ UNCHANGED <<completed, kept, generation, reliable>>

Next == Complete \/ Recover \/ Damage \/ Finish

Spec == Init /\ [][Next]_absVars
=============================================================================
