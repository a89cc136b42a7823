------------------------------ MODULE RunStore ------------------------------
(***************************************************************************)
(* The rows of one run, and everybody who writes them: the session that    *)
(* runs it (apps/web/src/lib/session-runner.ts), the recover route and the *)
(* recovery sessions it starts (api/runs/[runId]/recover/route.ts), and    *)
(* the fix-and-rerun and branches endpoints (api/handlers.ts).             *)
(*                                                                         *)
(* Each of them is an asynchronous function, and a step is one call of the *)
(* store (packages/db).  Between the calls the others run.  A branch is    *)
(* represented by one node on it, the one a fork hangs from, and named by  *)
(* a number; the root is 1 and 0 stands for null.                          *)
(***************************************************************************)
EXTENDS Naturals, Sequences, SequencesExt

CONSTANTS
  Requests,    \* requests that recover, fix and rerun, or create a branch
  MaxForks     \* bound: autonomous forks of all sessions together

ASSUME MaxForksAssumption == MaxForks \in Nat

First    == "first"                \* the session the start route created
Sessions == {First} \cup Requests

VARIABLES
  backend,   \* "memory" (InMemoryStore) or "postgres" (PostgresStore)
  runRow,    \* the run has its row
  rows,      \* the branch rows: a function from branch names
  nodes,     \* the branches whose nodes are persisted
  pc,        \* where each session or request is
  job,       \* the branch change it is making: what failed and what is new
  own,       \* the branches of its log, in order: [id, parent]
  left,      \* those of them it still has to persist
  forks,     \* autonomous forks so far
  nextId,    \* the next fresh branch name
  requested  \* history: branches a request has marked failed

storeVars == <<backend, runRow, rows, nodes>>
vars == <<storeVars, pc, job, own, left, forks, nextId, requested>>

NoJob == [kind |-> "none", failed |-> 0, new |-> 0]
Current(s) == own[s][Len(own[s])].id

Init ==
  /\ backend \in {"memory", "postgres"}
  /\ runRow = FALSE /\ rows = <<>> /\ nodes = {}
  /\ pc   = [s \in Sessions |-> IF s = First THEN "looping" ELSE "idle"]
  /\ job  = [s \in Sessions |-> NoJob]
  /\ own  = [s \in Sessions |->
               IF s = First THEN <<[id |-> 1, parent |-> 0]>> ELSE <<>>]
  /\ left = [s \in Sessions |-> <<>>]
  /\ forks = 0 /\ nextId = 2 /\ requested = {}

(* setBranch(): an upsert; Postgres updates nothing but the status of a    *)
(* row it has, the memory store replaces it.                               *)
Put(b, parent, status) ==
  [x \in DOMAIN rows \cup {b} |->
     IF x # b THEN rows[x]
     ELSE IF b \in DOMAIN rows /\ backend = "postgres"
          THEN [rows[b] EXCEPT !.status = status]
          ELSE [parent |-> parent, status |-> status]]

(* Postgres refuses a row whose run has none (foreign key on runs.id).     *)
Refused == backend = "postgres" /\ ~runRow

-----------------------------------------------------------------------------
(***************************************************************************)
(* What starts a branch.                                                   *)
(***************************************************************************)

(* The loop forks and calls onBranchFork.                                  *)
Fork(s) ==
  /\ pc[s] = "looping"
  /\ forks < MaxForks
  /\ forks' = forks + 1
  /\ nextId' = nextId + 1
  /\ job' = [job EXCEPT ![s] = [kind |-> "fork", failed |-> Current(s),
                                new |-> nextId]]
  /\ own' = [own EXCEPT ![s] = Append(@, [id |-> nextId,
                                          parent |-> Current(s)])]
  /\ pc' = [pc EXCEPT ![s] = "read"]
  /\ UNCHANGED <<storeVars, left, requested>>

(* The recover route finds the run and the node a user names.              *)
Recover(r, b) ==
  /\ pc[r] = "idle"
  /\ runRow /\ b \in nodes
  /\ nextId' = nextId + 1
  /\ job' = [job EXCEPT ![r] = [kind |-> "recover", failed |-> b,
                                new |-> nextId]]
  /\ pc' = [pc EXCEPT ![r] = "insert"]
  /\ UNCHANGED <<storeVars, own, left, forks, requested>>

(* Fix and rerun looks for the node but not for the run; a node the store  *)
(* does not have (b = 0) gives a branch without a parent.                  *)
FixAndRerun(r, b) ==
  /\ pc[r] = "idle"
  /\ b \in nodes \cup {0}
  /\ nextId' = nextId + 1
  /\ job' = [job EXCEPT ![r] = [kind |-> "fix", failed |-> b, new |-> nextId]]
  /\ pc' = [pc EXCEPT ![r] = "read"]
  /\ UNCHANGED <<storeVars, own, left, forks, requested>>

(* The branches endpoint adds a branch under the root.                     *)
CreateBranch(r) ==
  /\ pc[r] = "idle"
  /\ runRow
  /\ rows' = Put(nextId, 1, "running")
  /\ nextId' = nextId + 1
  /\ pc' = [pc EXCEPT ![r] = "done"]
  /\ UNCHANGED <<backend, runRow, nodes, job, own, left, forks, requested>>

-----------------------------------------------------------------------------
(***************************************************************************)
(* The branch change.  A fork and a fix mark the failed branch and insert  *)
(* the new one; the recover route does it the other way round.             *)
(***************************************************************************)
AfterMark(s) == IF job[s].kind = "recover" THEN "looping" ELSE "insert"

(* A recovery session begins with the log of its branch.                   *)
Begin(s) ==
  IF job[s].kind = "recover"
  THEN own' = [own EXCEPT ![s] = <<[id |-> job[s].new,
                                    parent |-> job[s].failed]>>]
  ELSE UNCHANGED own

(* getBranch(): without a row, or with one that is failed already, there   *)
(* is nothing to mark.                                                     *)
ReadFailed(s) ==
  /\ pc[s] = "read"
  /\ IF job[s].failed \in DOMAIN rows /\ rows[job[s].failed].status # "failed"
     THEN pc' = [pc EXCEPT ![s] = "mark"] /\ UNCHANGED own
     ELSE pc' = [pc EXCEPT ![s] = AfterMark(s)] /\ Begin(s)
  /\ UNCHANGED <<storeVars, job, left, forks, nextId, requested>>

(* The copy that was read is written back as failed.  A row changes in its *)
(* status alone, so the copy is the row.                                   *)
MarkFailed(s) ==
  /\ pc[s] = "mark"
  /\ rows' = Put(job[s].failed, rows[job[s].failed].parent, "failed")
  /\ requested' = IF job[s].kind = "fork" THEN requested
                  ELSE requested \cup {job[s].failed}
  /\ pc' = [pc EXCEPT ![s] = AfterMark(s)]
  /\ Begin(s)
  /\ UNCHANGED <<backend, runRow, nodes, job, left, forks, nextId>>

AfterInsert(s) ==
  CASE job[s].kind = "fork"    -> "looping"
    [] job[s].kind = "fix"     -> "done"
    [] job[s].kind = "recover" -> "read"

(* Mutant: the new branch is put under the root, as the branches endpoint  *)
(* does.                                                                   *)
InsertUnderRoot(s) ==
  /\ pc[s] = "insert"
  /\ ~Refused
  /\ rows' = Put(job[s].new, 1, "running")
  /\ pc' = [pc EXCEPT ![s] = AfterInsert(s)]
  /\ UNCHANGED <<backend, runRow, nodes, job, own, left, forks, nextId, requested>>

InsertNew(s) ==
  /\ pc[s] = "insert"
  /\ ~Refused
  /\ rows' = Put(job[s].new, job[s].failed, "running")
  /\ pc' = [pc EXCEPT ![s] = AfterInsert(s)]
  /\ UNCHANGED <<backend, runRow, nodes, job, own, left, forks, nextId, requested>>

(* The insert is refused; the loop swallows what onBranchFork throws.      *)
InsertRefused(s) ==
  /\ pc[s] = "insert"
  /\ Refused
  /\ pc' = [pc EXCEPT ![s] = IF job[s].kind = "fork" THEN "looping"
                                                     ELSE "failed"]
  /\ UNCHANGED <<storeVars, job, own, left, forks, nextId, requested>>

-----------------------------------------------------------------------------
(***************************************************************************)
(* The end of a session: its log is ingested and written, the run first,   *)
(* then the branches, then the nodes.                                      *)
(***************************************************************************)
LoopReturns(s) ==
  /\ pc[s] = "looping"
  /\ pc' = [pc EXCEPT ![s] = IF s = First THEN "persist_run"
                                          ELSE "persist_branches"]
  /\ left' = [left EXCEPT ![s] = own[s]]
  /\ UNCHANGED <<storeVars, job, own, forks, nextId, requested>>

PersistRun(s) ==
  /\ pc[s] = "persist_run"
  /\ runRow' = TRUE
  /\ pc' = [pc EXCEPT ![s] = "persist_branches"]
  /\ UNCHANGED <<backend, rows, nodes, job, own, left, forks, nextId, requested>>

(* Mutant: the nodes go first.                                             *)
PersistBranchAfterNode(s) ==
  /\ pc[s] = "persist_branches"
  /\ nodes' = nodes \cup {b.id : b \in Range(own[s])}
  /\ rows' = Put(Head(left[s]).id, Head(left[s]).parent, "running")
  /\ left' = [left EXCEPT ![s] = IF Len(@) = 1 THEN own[s] ELSE Tail(@)]
  /\ pc' = [pc EXCEPT ![s] = IF Len(left[s]) = 1 THEN "persist_nodes" ELSE @]
  /\ UNCHANGED <<backend, runRow, job, own, forks, nextId, requested>>

(* The status of an ingested branch is always running.                     *)
PersistBranch(s) ==
  /\ pc[s] = "persist_branches"
  /\ rows' = Put(Head(left[s]).id, Head(left[s]).parent, "running")
  /\ left' = [left EXCEPT ![s] = IF Len(@) = 1 THEN own[s] ELSE Tail(@)]
  /\ pc' = [pc EXCEPT ![s] = IF Len(left[s]) = 1 THEN "persist_nodes" ELSE @]
  /\ UNCHANGED <<backend, runRow, nodes, job, own, forks, nextId, requested>>

PersistNode(s) ==
  /\ pc[s] = "persist_nodes"
  /\ nodes' = nodes \cup {Head(left[s]).id}
  /\ left' = [left EXCEPT ![s] = Tail(@)]
  /\ pc' = [pc EXCEPT ![s] = IF Len(left[s]) = 1 THEN "done" ELSE @]
  /\ UNCHANGED <<backend, runRow, rows, job, own, forks, nextId, requested>>

(* A call of the store fails: a session gives up the rest of its rows, a   *)
(* request answers 500, a fork goes on without its row.                    *)
StoreFails(s) ==
  /\ pc[s] \in {"read", "mark", "insert", "persist_run", "persist_branches",
                "persist_nodes"}
  /\ pc' = [pc EXCEPT ![s] =
              IF @ \in {"read", "mark", "insert"} /\ job[s].kind = "fork"
              THEN "looping" ELSE "failed"]
  /\ UNCHANGED <<storeVars, job, own, left, forks, nextId, requested>>

Over == {"idle", "done", "failed"}

(* Nobody has to do anything.                                              *)
Quiet == (\A s \in Sessions : pc[s] \in Over) /\ UNCHANGED vars

Next ==
  \/ \E s \in Sessions :
       \/ Fork(s) \/ ReadFailed(s) \/ MarkFailed(s) \/ InsertNew(s)
       \/ InsertRefused(s) \/ LoopReturns(s) \/ PersistRun(s)
       \/ PersistBranch(s) \/ PersistNode(s) \/ StoreFails(s)
  \/ \E r \in Requests :
       \/ CreateBranch(r)
       \/ \E b \in nodes \cup {0} : Recover(r, b) \/ FixAndRerun(r, b)
  \/ Quiet

Spec == Init /\ [][Next]_vars
-----------------------------------------------------------------------------
(***************************************************************************)
(* Properties.                                                             *)
(***************************************************************************)

\* Whoever can see a node can see its branch: a node is never in the store
\* before the row of its branch, whatever write fails.
NodesOnRecordedBranches == nodes \subseteq DOMAIN rows

\* "A failed branch is never overwritten", as far as a user's request marked
\* it: the final persist of the session that owns the branch, which writes
\* "running", cannot come later.
RequestedFailureStays == \A b \in requested : rows[b].status = "failed"

\* The eager row, the ingested row and the row that is marked failed agree on
\* the lineage: no write ever changes what a branch was forked from.
LineageNeverRewritten ==
  [][\A b \in DOMAIN rows :
       b \in DOMAIN rows' /\ rows'[b].parent = rows[b].parent]_vars
=============================================================================
