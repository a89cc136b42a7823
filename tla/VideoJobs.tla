------------------------------ MODULE VideoJobs ------------------------------
(***************************************************************************)
(* The video worker: apps/worker/src polls the store for pending jobs,     *)
(* which handleCreateVideo() of the web app inserts, and turns each into a *)
(* storyboard of the nodes its run has.  Nobody claims a job: during a     *)
(* redeploy two workers poll one Postgres.                                 *)
(*                                                                         *)
(* An await of a worker may throw, and a worker may be killed and be       *)
(* started again; a call whose answer was lost may have been carried out.  *)
(***************************************************************************)
EXTENDS Naturals, Sequences, FiniteSets, SequencesExt

CONSTANTS
  Workers,    \* processes of apps/worker
  Jobs,       \* ids of video jobs
  Orphans,    \* jobs that were inserted without a run, as the tests do
  MaxNodes,   \* bound: node rows of the run
  MaxFaults   \* bound: calls that throw and workers that are killed

ASSUME JobsAssumption ==
  /\ IsFiniteSet(Jobs) /\ Orphans \subseteq Jobs
  /\ MaxNodes \in Nat /\ MaxFaults \in Nat

VARIABLES
  job,        \* the row of each job; scenes: outputVideoRef, empty for null
  nodes,      \* node rows of the run
  at,         \* the await each worker is at
  batch,      \* pending jobs its tick has listed and not handled yet
  read,       \* nodes it has read for the first of them
  stopping,   \* shuttingDown
  faults,
  promised    \* history: the node rows there were when a job was created

workerVars == <<at, batch, read>>
videoVars == <<job, nodes, workerVars, stopping, faults, promised>>

NoJob     == [status |-> "none", scenes |-> {}]
Pending   == {j \in Jobs : job[j].status = "pending"}
Settled   == {"completed", "failed"}

VideoInit ==
  /\ job = [j \in Jobs |-> NoJob]
  /\ nodes = 0
  /\ at = [w \in Workers |-> "sleep"]
  /\ batch = [w \in Workers |-> <<>>]
  /\ read = [w \in Workers |-> 0]
  /\ stopping = [w \in Workers |-> FALSE]
  /\ faults = 0
  /\ promised = [j \in Jobs |-> 0]

Fault == faults < MaxFaults /\ faults' = faults + 1

-----------------------------------------------------------------------------
(***************************************************************************)
(* The web app.                                                            *)
(***************************************************************************)

CreateVideo(j) ==
  /\ job[j].status = "none"
  /\ job' = [job EXCEPT ![j].status = "pending"]
  /\ promised' = [promised EXCEPT ![j] = nodes]
  /\ UNCHANGED <<nodes, workerVars, stopping, faults>>

(* A session persists a node of the run.                                   *)
PersistNode ==
  /\ nodes < MaxNodes
  /\ nodes' = nodes + 1
  /\ UNCHANGED <<job, workerVars, stopping, faults, promised>>

-----------------------------------------------------------------------------
(***************************************************************************)
(* A tick of a worker.                                                     *)
(***************************************************************************)

(* Mutant: an update that keeps the reference it is not given.             *)
PutKeepingRef(j, status, scenes) ==
  job' = [job EXCEPT ![j] = [status |-> status, scenes |-> scenes \cup @.scenes]]

(* setVideoJob(): status and reference are updated in one statement.       *)
Put(j, status, scenes) ==
  job' = [job EXCEPT ![j] = [status |-> status, scenes |-> scenes]]

(* The job in hand is done: the next one, or the end of the tick.          *)
NextJob(w) ==
  /\ batch' = [batch EXCEPT ![w] = Tail(@)]
  /\ read' = [read EXCEPT ![w] = 0]
  /\ at' = [at EXCEPT ![w] = IF Len(batch[w]) = 1 THEN "sleep" ELSE "lookup"]

(* Mutant: nothing catches it, and nobody starts the worker again.         *)
TickFailsForGood(w) ==
  /\ at' = [at EXCEPT ![w] = "exited"]
  /\ batch' = [batch EXCEPT ![w] = <<>>]
  /\ read' = [read EXCEPT ![w] = 0]

(* What is thrown past the loop ends the tick; main() catches and sleeps.  *)
TickFails(w) ==
  /\ at' = [at EXCEPT ![w] = "sleep"]
  /\ batch' = [batch EXCEPT ![w] = <<>>]
  /\ read' = [read EXCEPT ![w] = 0]

(* Mutant: the flag is looked at when a tick ends, not before the next.    *)
TickOnceMore(w) ==
  /\ at[w] = "sleep"
  /\ at' = [at EXCEPT ![w] = "list"]
  /\ UNCHANGED <<job, nodes, batch, read, stopping, faults, promised>>

(* The loop goes on, and listPendingVideoJobs() is called ...              *)
Tick(w) ==
  /\ at[w] = "sleep"
  /\ ~stopping[w]
  /\ at' = [at EXCEPT ![w] = "list"]
  /\ UNCHANGED <<job, nodes, batch, read, stopping, faults, promised>>

(* ... which answers in any order, also a worker that has been told to     *)
(* stop meanwhile.  A tick that finds nothing is over.                     *)
ListPending(w) ==
  /\ at[w] = "list"
  /\ \E order \in SetToSeqs(Pending) : batch' = [batch EXCEPT ![w] = order]
  /\ at' = [at EXCEPT ![w] = IF Pending = {} THEN "sleep" ELSE "lookup"]
  /\ UNCHANGED <<job, nodes, read, stopping, faults, promised>>

ListThrows(w) ==
  /\ at[w] = "list"
  /\ Fault
  /\ TickFails(w)
  /\ UNCHANGED <<job, nodes, stopping, promised>>

(* Mutant: a run without nodes is taken for a missing one.                 *)
LookUpNonEmpty(w) ==
  /\ at[w] = "lookup"
  /\ at' = [at EXCEPT ![w] = IF Head(batch[w]) \in Orphans \/ nodes = 0
                             THEN "fail" ELSE "nodes"]
  /\ UNCHANGED <<job, nodes, batch, read, stopping, faults, promised>>

(* getRun().                                                               *)
LookUp(w) ==
  /\ at[w] = "lookup"
  /\ at' = [at EXCEPT ![w] = IF Head(batch[w]) \in Orphans THEN "fail"
                                                           ELSE "nodes"]
  /\ UNCHANGED <<job, nodes, batch, read, stopping, faults, promised>>

(* getRun() is outside the try block.                                      *)
LookUpThrows(w) ==
  /\ at[w] = "lookup"
  /\ Fault
  /\ TickFails(w)
  /\ UNCHANGED <<job, nodes, stopping, promised>>

(* getRunNodes(); the storyboard has one scene for each.                   *)
ReadNodes(w) ==
  /\ at[w] = "nodes"
  /\ read' = [read EXCEPT ![w] = nodes]
  /\ at' = [at EXCEPT ![w] = "complete"]
  /\ UNCHANGED <<job, nodes, batch, stopping, faults, promised>>

ReadNodesThrows(w) ==
  /\ at[w] = "nodes"
  /\ Fault
  /\ at' = [at EXCEPT ![w] = "fail"]
  /\ UNCHANGED <<job, nodes, batch, read, stopping, promised>>

Complete(w) ==
  /\ at[w] = "complete"
  /\ Put(Head(batch[w]), "completed", {read[w]})
  /\ NextJob(w)
  /\ UNCHANGED <<nodes, stopping, faults, promised>>

(* The update, or only its answer, is lost.                                *)
CompleteThrows(w) ==
  /\ at[w] = "complete"
  /\ Fault
  /\ Put(Head(batch[w]), "completed", {read[w]}) \/ UNCHANGED job
  /\ at' = [at EXCEPT ![w] = "fail"]
  /\ UNCHANGED <<nodes, batch, read, stopping, promised>>

(* The copy of the job that was listed is written back as failed.          *)
Fail(w) ==
  /\ at[w] = "fail"
  /\ Put(Head(batch[w]), "failed", {})
  /\ NextJob(w)
  /\ UNCHANGED <<nodes, stopping, faults, promised>>

FailThrows(w) ==
  /\ at[w] = "fail"
  /\ Fault
  /\ Put(Head(batch[w]), "failed", {}) \/ UNCHANGED job
  /\ TickFails(w)
  /\ UNCHANGED <<nodes, stopping, promised>>

-----------------------------------------------------------------------------
(***************************************************************************)
(* The process of a worker.                                                *)
(***************************************************************************)

(* SIGTERM, while another worker stays: a redeploy.                        *)
Stop(w) ==
  /\ \E v \in Workers \ {w} : ~stopping[v]
  /\ ~stopping[w]
  /\ stopping' = [stopping EXCEPT ![w] = TRUE]
  /\ UNCHANGED <<job, nodes, workerVars, faults, promised>>

Exit(w) ==
  /\ at[w] = "sleep"
  /\ stopping[w]
  /\ at' = [at EXCEPT ![w] = "exited"]
  /\ UNCHANGED <<job, nodes, batch, read, stopping, faults, promised>>

(* The process is killed, perhaps with an update on the wire.  Unless it   *)
(* had been told to stop, docker-compose.prod.yml starts it again.         *)
Crash(w) ==
  /\ at[w] # "exited"
  /\ Fault
  /\ \/ UNCHANGED job
     \/ at[w] = "complete" /\ Put(Head(batch[w]), "completed", {read[w]})
     \/ at[w] = "fail" /\ Put(Head(batch[w]), "failed", {})
  /\ at' = [at EXCEPT ![w] = IF stopping[w] THEN "exited" ELSE "sleep"]
  /\ batch' = [batch EXCEPT ![w] = <<>>]
  /\ read' = [read EXCEPT ![w] = 0]
  /\ UNCHANGED <<nodes, stopping, promised>>

WorkerStep(w) == \/ Tick(w) \/ ListPending(w) \/ LookUp(w) \/ ReadNodes(w)
                 \/ Complete(w) \/ Fail(w) \/ Exit(w)
Trouble(w)    == \/ ListThrows(w) \/ LookUpThrows(w) \/ ReadNodesThrows(w)
                 \/ CompleteThrows(w) \/ FailThrows(w) \/ Crash(w)

VideoNext ==
  \/ \E j \in Jobs : CreateVideo(j)
  \/ PersistNode
  \/ \E w \in Workers : WorkerStep(w) \/ Trouble(w) \/ Stop(w)

VideoSpec == VideoInit /\ [][VideoNext]_videoVars

(* The timers of the workers fire and their calls settle.                  *)
FairVideoSpec == VideoSpec /\ \A w \in Workers : WF_videoVars(WorkerStep(w))

-----------------------------------------------------------------------------
(***************************************************************************)
(* Properties.                                                             *)
(***************************************************************************)

TypeOK ==
  /\ job \in [Jobs -> [status : {"none", "pending"} \cup Settled,
                       scenes : {{}} \cup {{n} : n \in 0..MaxNodes}]]
  /\ nodes \in 0..MaxNodes
  /\ at \in [Workers -> {"sleep", "list", "lookup", "nodes", "complete", "fail",
                         "exited"}]
  /\ batch \in [Workers -> Seq(Jobs)]
  /\ read \in [Workers -> 0..MaxNodes]
  /\ stopping \in [Workers -> BOOLEAN]
  /\ faults \in 0..MaxFaults
  /\ promised \in [Jobs -> 0..MaxNodes]

\* Whichever worker writes a job last, with however old a copy of it, the row
\* has a storyboard exactly when it says completed, and the storyboard has every
\* node the run had when the video was asked for.
RowsAreWhole ==
  \A j \in Jobs : /\ job[j].status = "completed" <=> job[j].scenes # {}
                  /\ \A n \in job[j].scenes : promised[j] <= n

\* Two workers that handle one job do not make it fail: as long as no call has
\* thrown, a job that failed is one without a run.
FailuresHaveACause ==
  \A j \in Jobs : job[j].status = "failed" => j \in Orphans \/ faults > 0

\* Draining: a worker that was told to stop calls for no more jobs; it takes the
\* answer that is under way, finishes what it has listed, in that order, and
\* exits.
Drains ==
  /\ [][\A w \in Workers : stopping[w] =>
          /\ at'[w] = "list" => at[w] = "list"
          /\ IsSuffix(batch'[w], batch[w]) \/ at[w] = "list"]_videoVars
  /\ \A w \in Workers : stopping[w] ~> at[w] = "exited"

\* Every video that was asked for is made or given up, whatever fails (finitely
\* often), also when the worker that had listed it stops, dies or gives up its
\* tick because of another job.
JobsAreSettled ==
  \A j \in Jobs : job[j].status = "pending" ~> job[j].status \in Settled
=============================================================================
