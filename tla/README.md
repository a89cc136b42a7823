# NemoCognition: a TLA+ verification project

NemoCognition records what a coding agent does (chats, tool calls, policy
decisions, checkpoints of its sandbox), stops it when the policy denies a
call, restores the sandbox and lets it go on, on a *recovery branch*, and shows
the recorded run to a user, who may restore or recover from any point of it.
This directory holds TLA+ modules of the parts that decide what happens, the
configurations TLC checks them with, and theorems TLAPS proves about them, one
for every safety property the passing runs check.  `PROJECT.json` maps every
definition to the lines it models and lists the runs, the mutants, the findings,
the hazards and the theorems.

    tlc -workers 2 -config MCAgentRecord_loop.cfg MCAgentRecord
    tlapm AgentLoopProofs.tla

## 1. The system and its components

Paths are relative to `src/`.

| Component | State it keeps | Operations | Modelled by |
|---|---|---|---|
| Agent loop, `packages/nemoclaw/src/agent-loop.ts` | loop counter, recoveries used, last rollback point, final status | `run`, `snapAndCheckpoint`, `handleAutonomousRollback` | `AgentLoop`, `RecoverableRun` |
| Runtime tracker, `packages/nemoclaw/src/runtime-hooks.ts` | event log, branch, last node | `startRun`, `branchOff`, `before…/after…Call`, `recordPolicyDecision`, `createCheckpoint`, `validate`, `endRun` | `RuntimeTracker` |
| Session, `packages/cli/src/recorder.ts` | the tracker, the results of the flush | `chat`, `chatMessages`, `executeTool`, `captureMemory`, `forkInto`, `end`, `flushToBackends` | steps of `AgentLoop` and `RecordMode`; `ImportFlush` |
| Record mode, `packages/cli/src/bin.ts` | readline, the session | line handler, close handler, `finalize` | `RecordMode` |
| Policy engine, `packages/nemoclaw/src/policy-engine.ts` | none | `evaluatePolicy`, the default policy | `PolicyEngine`; a choice in `AgentLoop` |
| Agent tools, NIM client | none across calls | `execute`, `chat` | choices of `AgentLoop`; `SharedSandbox` |
| Snapper, `packages/cli/src/filesystem-snapper.ts` | artifacts on disk | `snapshot`, `extract`, readers | `SnapshotFiles` (what is read), `SharedSandbox` (file by file), `AgentLoop` (atomic) |
| Trace ingestor, `packages/tracing/src/trace-ingestor.ts` | none | `ingestTrackerEvents` | `TraceIngestor`, `AgentRecord` |
| Graph builder, `packages/core/src/graph/graph-builder.ts` | none | `buildExecutionGraph` | `GraphBuilder`, `AgentRecord` |
| Stores, `packages/db/src/{in-memory,postgres}-store.ts` | rows of runs, branches, nodes, checkpoints, decisions, video jobs | upserts and lookups | `RunStore`, `CheckpointLookup`, `ImportFlush`, `VideoJobs` |
| Session runner, `apps/web/src/lib/session-runner.ts` | event buffer, subscribers, end time | `subscribe`, `emit`, `run` | `LiveStream` (streaming), `RunStore` (persisting) |
| Session registry, events route, terminal | runners by run id | `registerRunner`, `getRunner`, `GET …/events`, the EventSource | `LiveStream` |
| Recover, restore, fix-and-rerun, branches, import, diff routes (`apps/web/src/app/api`) | the store, the sandbox | the handlers | `RunStore`, `SharedSandbox`, `ImportFlush` |
| OpenClaw bridge, `packages/cli/src/openclaw-bridge.ts` | log, sandboxes, baseline snapshot, budget | `runBridge`, `detectFailure` | `Bridge` |
| Video worker, `apps/worker/src` | jobs | poll, process, shut down | `VideoJobs` |
| Replay page, `apps/web/src/components/replay` | selection, scrubber, timer, fetched views, dialogs | clicks, effects, timers, fetches | `ReplayPlayer`, `NodeInspector`, `ReplayPage` |
| Other drawing, failure classifier, recovery orchestrator, Phoenix exporter | mostly none | pure functions | not modelled, see section 8 |

**How they interact.**  The loop calls the session, which calls the tracker;
every tracker event goes to the session runner through a callback and from its
buffer to the subscribers of the SSE route.  When the loop has returned, the
log is ingested into rows and the session runner writes them one after the
other.  A fork is also reported eagerly, through `onBranchFork`.  The CLI posts
its log to the import route instead, with retries; in record mode the log comes
from chats that overlap.  The recover route reads the rows, extracts a snapshot
into the sandbox of the run, writes a branch and starts another session runner;
the restore route only replaces the sandbox, after the page has shown the user a
diff.  None of the routes locks anything.  The video worker shares nothing with
the rest but the rows of the store.

**What is hard.**  All servers are single-threaded JavaScript, so the steps are
the pieces of code between two awaits, and what is hard is what lies between
them: the order in which a denial, a forensic snapshot, a restore and a fork move
the tracker's last node; snapshots and extractions that fail half way; replies
that are denied in the middle; clients that come while events are emitted, and
leave unnoticed; rows that are read, awaited and written back by several
handlers; posts that are repeated while the first one is still being handled;
requests that replace a directory somebody is writing to; jobs that nobody
claims; a session that is closed over the chats it waits for; handlers and timers
that act on what was rendered and not on what is; answers that come after the
question was withdrawn.  `PROJECT.json` lists each of these under `hazards`, at its
line, with the properties that cover it.

**What makes each part correct.**

- Loop: completed work survives rollbacks, a failed branch receives nothing
  more, a fork hangs from the denial that caused it, each chat has a conversation
  the API accepts, the budget bounds the recoveries, the run ends.
- Record and lookup: the ingested nodes are one tree, the branch rows are the
  lineage, the graph is drawn downward, a lookup finds the nearest checkpoint.
- Stream: every client sees every event once, in order, until the complete
  event; nobody is told so before the rows are written or their loss was
  reported; callbacks are released.
- Store: nodes only on branches that have rows, lineage never rewritten, a
  failure marked by a request is not undone.
- Flush: success, unless it is that of a skipped import, means stored, and it returns.
- Bridge: completed means a passed validation on the last branch, each turn starts
  from the baseline, and failed sandboxes stay untouched.
- Sandbox requests: an undisturbed restore can be undone, leaves exactly the tree
  it was asked for, and does what its preview said.
- Record mode: what leaves the process is closed and rooted, replies find their
  questions, a closed session exits.
- Video: a row has a storyboard exactly when it says completed, two workers do not
  make a job fail, every job is settled, a stopped worker drains.
- Page: the scrubber and the panel show the selection, playback ends; that a restore is
  of what the user has confirmed is not so (section 6).

## 2. The modules

The core of the system:

- **`RuntimeTracker`** is the event log.  It has `trace` and `branch` and one
  action per operation; node ids are random in the code and positions in the log
  here.  `AgentLoop`, `Bridge` and `RecordMode` instantiate it.
- **`AgentLoop`** is `run()` with everything it calls.  `pc` is the await the
  function is at.  The state mirrors its locals (`iter`, `recoveries`,
  `rollbackPoint` for `lastFsCheckpoint`, `pending` for the tool calls of the
  reply, `asked` and `answered` for the messages) plus the sandbox, as the set of
  effects in it.  `done`, `skipped`, `damaged` are history.  The model's replies, the
  policy's decisions, tool exits and snapshot failures are nondeterministic.  A
  snapshot holds what `walkSandbox` finds (an `install` call writes where it does not
  look), or everything if it finds no file; `extract()` replaces the whole sandbox
  and may break half way.
- **`RecoverableRun`** is what the loop promises, in five variables: completed
  work stays as long as the storage is reliable, at most `MaxRecoveries`
  recoveries, one end.  `AgentLoop!KeepsPromise` is the refinement.
- **`TraceIngestor`**, **`CheckpointLookup`**, **`GraphBuilder`**: operators on the
  log and the rows.  **`AgentRecord`** extends `AgentLoop` with them and states what the
  record of every run looks like, what is looked up in it and how it is drawn, instead of
  checking them on invented logs.  The depth-first search of the graph is a function of
  the number of visits: each goes to the first child that is left of the innermost call
  that has one, or to the next root, which is the order in which `dfs` visits.
- **`RecordMode`** is the interactive session: readline waits for none of the async
  line handlers, so the actions are a line, a reply (or its failure) to *any* open
  chat, the lines of one input chunk after a `/end`, the close event, and the exit.
  The reply pairs its call by node id; the parent of a question is the tracker's last
  node, whatever chat put it there.

Rows, streams and jobs:

- **`LiveStream`**: `SessionRunner.run` reduced to what it emits, the registry's
  two timers, the route and the terminal.  The gap between `queue` and `seen` is
  the wire.  The registry starts `listed` (start route) or `absent` (the recover
  route registers nothing).
- **`RunStore`**: each session and request is a process whose steps are single
  store calls, on either backend (chosen in `Init`): Postgres updates only the
  status on conflict and refuses a branch without a run row; the memory store
  replaces the row.  One node stands for the nodes of a branch.
- **`ImportFlush`**: the client's attempts against handlers that may still be
  working on earlier ones.  Without a URL nothing is posted, and the import is ok and
  *skipped*, which is what the CLI then prints (`bin.ts:119-120`).
- **`VideoJobs`**: each worker is a process whose steps are the awaits of `main`
  and `processPendingVideoJobs`: `Tick` tests `shuttingDown` and calls for the list,
  `ListPending` is its answer, and a signal may come in between.  `batch` is the listed
  jobs a worker still has, `read` what `getRunNodes` gave it.  An await may throw (also after it was carried out), a worker
  may be told to stop, be killed, and be started again, and nodes are persisted
  while a storyboard is made.

Sandboxes:

- **`PolicyEngine`**: the rules in order, with globs and patterns as predicates on
  segments of paths and classes of commands.  A path is judged as the model gave it.
- **`SnapshotFiles`**: which files a walk skips, what the manifest records (sizes), and
  the diff the route computes from two manifests.
- **`SharedSandbox`** extends both: requests against one directory, one file
  operation a step, with `write_file` calls the policy lets through and writes of
  commands beside them.  `WriteFile(given, f)` has two paths, as the code does: the policy
  judges `given`, what is written is the file `f` that `given` resolves to from the
  sandbox (`Resolves`: empty segments and `.` vanish, `..` takes a name back, an absolute
  path starts at `/`, and what leads elsewhere is refused).  Restores start with a preview.  The artifacts lie `apart`
  from the sandbox, or `inside` it, as `docker-compose.prod.yml` has it.
- **`Bridge`**: one step per `spawnSync`.  `Result` holds what `detectFailure` looks
  at; a turn's change to its sandbox is named by the turn.

The page:

- **`ReplayPlayer`** models React the way the code depends on it: `cur` is the state
  as set, `seen` the one last rendered, which handlers and timers have closed over.
  A click is rendered at its end with the effects it causes; what a timer, a settled
  promise or an effect sets is rendered in a task of its own, with a gap between.  The
  nodes shown are a set: a refresh brings any others, at their places in the order of
  their start, before the selected one or behind it.
- **`NodeInspector`**: the panel, the codebase tab, the confirmation and the recovery
  panel.  `requests` are the fetches under way whose answers still count; answers come in
  any order, or never.  When an effect is cleaned up its `cancelled` flag makes the answer
  a no-op, so `Cancelled` takes the fetch out; a recovery has no such flag and is kept.
  When a tick or an answer moves the checkpoint under a mounted Codebase tab, there are
  three steps: the commit (`Show`), its passive effects (`RunEffects`), which reset the
  view and fetch anew, and the render of what they set (`Rerender`), which takes the
  confirmation away.  Until the last of them `screen` keeps what the user sees and can
  click, with the new checkpoint already in the handlers.
- **`ReplayPage`** composes them: the inspector follows the rendered selection, and its
  recovery panel refreshes the player's nodes.  `PanelRenders` is the inspector's own
  effects and render.

**`MC*`** give the sets of model values; **`*Proofs`** hold the proofs.  Modules
contain *mutants*: copies of an action with a plausible bug, commented as such.  No
specification uses them; substituting one for the original must break the property
it is listed with.

## 3. The runs

| Run | What it shows | Bounds | Distinct states |
|---|---|---|---|
| `loop` | safety and termination of the loop, the refinement of `RecoverableRun`, and the record of every run | 3 chats, 2 recoveries, 3 calls that are invalid, `null` (they throw), reading, writing or installing, 1 failing snapshot or extraction | 203,095 |
| `stream` | delivery, release, and service to the end | 3 clients, 3 events until the loop returns | 107,236 |
| `store` | lineage and order of the rows, on both backends | 2 requests beside the session, 2 autonomous forks, any store call failing | 60,434 |
| `import` | flush and import with retries, and without a URL | the code's 3 attempts, 2 decisions | 21,922 |
| `bridge` | whole turns, forks and their sandboxes | 3 turns, 2 faults | 400,269 |
| `sandbox` | reversibility, fidelity and preview of undisturbed restores | a source file, a package file and one of the root `.git`, 8 spellings of them, 2 requests, 2 foreign writes | 224,022 |
| `video` | whole rows, causes of failures, settling, draining | 2 workers, 2 jobs (one without a run), 2 nodes, 2 faults | 132,308 |
| `record` | the log of overlapping chats, and the exit | 5 typed lines | 159,801 |
| `page` | scrubber, panel, end of playback | 4 nodes on 3 branches, 3 checkpoints, 6 clicks, a poll of 2 ticks | 736,946 |
| `stream_late`, `sandbox_inside`, `page_confirm` | violations, see section 6 | as above, or smaller | |

Why the bounds are enough to be interesting: `loop` has runs that roll back twice,
deny in the middle of a reply, lose a pre_tool snapshot and are denied next, break
an extraction and go on, use up the iterations with recoveries left and the other
way round; a third chat after the second fork is what `ForksAtDenials` and
`ConversationOfTheBranch` need to see two branches behind it; three calls are two that
are denied after one that was done, or a denial in the middle of a reply.  `stream` needs two
clients to tell a callback that unsubscribes from one that stays; the third lets
one connect late.  `store` needs a request on a branch the session has persisted
and another on the branch the first one made.  A sandbox of three files tells a
half-extracted tree from a whole one, and two of them lie where snapshots do not
look, one of which the policy protects however it is spelled and the other only if the
spelling begins with its name; the spellings use `.`, `..` behind a name, `..` out of the
sandbox and back or into nothing, and an absolute path.  `video` needs two workers with
one job in two batches, and a second job behind the one that throws.  Five lines are two overlapping chats, a `/end` and what
follows it in the same chunk, or four chats and the end of the input.  Four nodes are a branch
that fails, two recoveries whose nodes are brought later in either order, and a filter
between them; six clicks open the tab, a file and its restore and leave a click for the
screen that is about to go while playback moves the selection under it.

Deadlock is checked except in `page` (a user may stop clicking, and the bound ends
the clicks) and `video` (drained workers are gone).

The state counts are TLC's; `store`'s and `sandbox`'s use the symmetry of the
requests, which none of their properties breaks (neither run has liveness).

## 4. Fairness

- `AgentLoop!FairSpec`: `WF_vars(Next)`.  `run()` is one async function; when what
  it awaits settles, the event loop resumes it.  This assumes that chats answer or
  fail: `nim-client.ts:96` has no timeout, and a chat that never settles hangs the
  loop (a listed hazard).
- `LiveStream!FairSpec`: weak fairness of the runner's steps (the same argument;
  `LoopEmits` is not fair, the bound ends it), of the registry's timers, and of the
  reads of open clients.  No fairness for connecting or leaving.
- `ImportFlush!FairFlushSpec`: the client's steps (delays are finite, `fetch` settles)
  and each handler's.  No fairness for broken connections.
- `VideoJobs!FairVideoSpec`: each worker's steps (timers fire, calls settle).  A crash leaves the
  worker at its first tick again, since the compose file restarts one that was not told to
  stop.  No fairness for faults, which are bounded, for stopping, or for the web app.
- `RecordMode!FairSpec`: that an input chunk is handled to its end, and the exit.  No
  fairness for replies: a closed session exits though chats never answer.
- `ReplayPage!FairSpec`: React renders what was set and runs the effects, and timers fire.  No
  fairness for clicks or answers.
- `Bridge`, `RunStore` and `SharedSandbox` claim no liveness.

## 5. The proofs

Every component with state has proofs, for all values of the constants that satisfy
the assumptions of its module (the bounds are naturals, and what is said below).  Two
proof modules, `RecorderProofs` and `ReplayProofs`, are about two components each.  The
pattern is everywhere the same: an inductive invariant `IInv`, which TLC was asked
about first, a lemma per part of it with one step per action, and a theorem that
combines `Init => IInv`, `IInv /\ [Next]_vars => IInv'` and `IInv => Property`.

**`AgentLoopProofs`** (`LimitsAssumption`; `Kinds` may be any set of call kinds).
That completed work survives a `Restore` follows only if it is in the rollback
point too, and that is so only *outside* `post_tool`: a tool that has just
succeeded is completed before it is saved.  That the rollback point is exact when a
tool runs follows from the `pre_tool` step before it.  And typing needs to know that a
call is in hand (`pending # <<>>`) and that budget is left wherever a counter is about
to grow.  Hence `IInv == TypeOK /\ Control /\ Work`, with `Control` tying `pc` to the
counters and to `pending`, and `Work` tying `sandbox`, `rollbackPoint` and `done` to
`pc` and the faults.  It gives `TypeCorrect`, `CompletedWork`, `SavedWork` and
`FreshRollbackPoint`.  On top of it:

- `Refinement`, `Spec => KeepsPromise`: each step of the loop is a step of
  `RecoverableRun` or a stutter.  A tool that succeeds must complete *one* piece of
  work that is new, so `Fresh` keeps the identifiers of calls in hand apart from those
  already handled.
- `BranchesFreeze`, `ForksHangFromDenials`: `Lineage` describes the log (branches are
  numbered by the forks before them, and each fork is preceded by its denial and at most
  the forensic checkpoint), `RollbackHangs` the log while a rollback is under way.  The
  number of forks is a cardinality, which grows by one element a fork.
- `ConversationsFit`: `Conversation` says which calls of the conversation still wait for
  their answer at each `pc`: exactly those in hand.
- `IterationsGoForward`: each step goes forward in a well-founded order of the iteration,
  the stage in it, the calls left of the reply and the place in the handling of one call.
  That is what of `Terminates` is a matter of safety; that there is always a next step and
  that it is taken is left to TLC.

**`RunStoreProofs`**: `NodesRecorded`, `FailureStays`, `LineageStays`.  `ClaimsAreApart`
(a branch, with its parent, is in the log or in the hands of one process only) is what
makes the writes commute; `InHand`, `RowsAsClaimed`, `RowsBeforeNodes` and
`WrittenOnce` say what each process has still to write, and that a session does not
write a branch twice, so that a failure marked in between stays.

**`LiveStreamProofs`**: `AllDelivered`, `Released`, `ToldTheTruth`, from `CompleteIsLast`
(nothing is emitted after the complete event) and `Delivered` (what was read and sent
is the buffer, and who is open is subscribed until the end).

**`AgentRecordProofs`** is about the log of `AgentLoop` as rows.  `LogInv` describes the
log further than `IInv` and `Lineage` do: `Placed` (an event's node and parent are given
by its position, and an end event follows its start at once), `Calls` (a call without an
end is the last thing in the log but a checkpoint and the `run_end`) and `Branching`
(branches grow along the log).  From it follows which events have a row
(`NodesAre`), and with that `RecordIsTree` and `RecordHasLineage`.  `LookupsFindTheNearest`
also needs what the walks of the two stores do on *any* graph: `WalkFinds` and
`WalkFindsNone` are proved by induction on the steps that are left.  The library's
induction theorems take an operator, so the module has its own, for sets
(`Least`, `Upward`, `Iterated`), from the well-foundedness of strict inclusion on
finite sets.  With the same rules, `VisitsExist` and `VisitedIs` show that the
depth-first search of the graph, on any rows with ids of their own, visits no row twice,
none before the row it hangs from, and all that a root leads to; `ChildrenBelow`, that
only a row that is left over can be drawn above its parent, and only if that is left over
too.  In the record of a run at most one row is left over, the last checkpoint of a chat
that threw (`LeftOverIsLast`).  Hence `RecordIsDrawnInAnyOrder`, for every order in which a
store may give the rows, and `RecordIsDrawnDownward` for the two that TLC tries.

**`RecorderProofs`**, first about `RecordMode`.  The log may grow after it was sent; what
is sent is the log at `finalize`, and no `run_end` is in it before: `SentIsClosed`.
`Shape` says that every event hangs from the node of the event before it and that an end
names an earlier question, `Calls` that every chat in hand has its question in the log and
no answer, and that no question has two; they give
`SentIsRooted` and `EveryReplyFindsItsQuestion`, which are about what the ingestor makes
of the log.  Then about `ImportFlush`: `ReportedIsImported`, from `WrittenIsStored`,
`CreatedIsWritten` and `OkIsCreated`, the chain from a handler's writes to the client's
result; a skipped import is told apart by its flag.

**`ReplayProofs`**, first about `ReplayPage`, in two halves.  `ScrubberFollows` holds
because an effect aligns the index with the list of *its* render, so `PlayerInv` has to
say how what was set, what was rendered and what the timer has closed over differ
while a render is due (`RenderedWhenSettled`, `TimerOfTheList`, `AlignedWithTheList`);
the index of a node is a cardinality.  `PanelInv` says that, once the effects of a commit
have run, a request that was not cancelled was sent for what is selected now (`SentFor`),
which is what makes late answers harmless, and that the view is of the selection
(`ViewIsOurs`), also while its render is still owed: `PanelShowsTheSelection`.  Then about `VideoJobs` (finite
`Jobs`): `WholeRows`, `CausedFailures`, from `Listed` (a job in a batch was asked for),
`ReadAfterAsked` (the nodes read are no older than the request) and `ReasonInHand`.

**`BridgeProofs`**: `CompletedIsGreen`, `CleanTurns`, `EvidenceKept`, from
`OneSandboxPerAttempt`, `BaselineBeforeTurn` and `PassedWhenLeaving`.

**`SharedSandboxProofs`** (`PathsAssumption`: paths are sequences of names): what
`write_file` writes where snapshots do not look is a matter of two lists in two packages that
do not know of each other, one of paths as given, one of files as written.
`GivenLeadsThrough` connects them: if a path resolves to a file below a `node_modules`, the
path itself leads through one, however it is spelled, so the rules that begin with `**/`
hold for the file.  The rule for `.git` is anchored at the beginning of the path, so it says
nothing of a file; hence `Guarded`: `WritesAreCovered` leaves out files below a `.cache`
(there is no rule), and those below a `.git` unless the *path given* begins with `.git`.
From it, with `VersionsApart` and one `Request(r)` per request, `RestoresAreReversible`,
`ExtractsAreFaithful`, `PreviewsTell`.

Only model-checked: all liveness (`Terminates`, `ServedToTheEnd`, `FlushReturns`, `Drains`,
`JobsAreSettled`, `ClosedSessionsExit`, `PlaybackEnds`), which needs fairness and ENABLED
and is out of the prover's reach.

## 6. Where the code and its documentation disagree

With a run that exhibits it:

- `stream_late`: a client that connects after the end gets an error, because the
  callback uses `unsubscribe` before it is initialised (`events/route.ts:36`);
  `session-registry.ts:8-9` keeps the runner so that it can reconnect.
- `sandbox_inside`: the production compose file makes `/workspace` the sandbox
  (`docker-compose.prod.yml:67`) and `/workspace/checkpoints` the store of the artifacts
  (`:71`), so `extract()` first removes every artifact, the `pre_restore` one that was
  just taken and the one it was asked for included; `restore/route.ts:14-15` takes the
  former "so the action is reversible".  (`/workspace` is a mount point, which cannot be
  removed; what is in it goes all the same.)  The directory is also shared by all runs,
  its snapshots contain the earlier artifacts, and the rollback of the loop meets the
  same.  The other properties of `SharedSandbox` take the artifacts to lie apart.
- `page_confirm`: the diff is "used to populate the confirmation modal before any
  destructive action" (`diff/route.ts:49-50`), but the modal has no key and keeps its diff
  (`CodebaseTab.tsx:368-374`, `RestoreConfirmModal.tsx:44-69`).  When playback selects the
  next node under an open confirmation, the commit puts the new checkpoint behind an
  enabled button and the old diff; `setTree(null)` (`CodebaseTab.tsx:195`) closes the modal
  after one more effect and render.  A click in between restores a checkpoint whose diff
  nobody has seen.

Seen while modelling, in the models, but without a run of their own:

- `snapshot()` leaves out `.git`, `node_modules`, … while `extract()` wipes them, so
  allowed work there is lost (`filesystem-snapper.ts:65`, against
  `agent-loop.ts:336-338`, "prior good work survives"); `CompletedWorkSurvives` excepts
  it.  The policy keeps `write_file` from every `node_modules` and `.next`, however the path is
  spelled, and from no `.cache`.  Of `.git` it denies only paths that begin with `.git` as
  the model gives them (`policy-engine.ts:134`, `default-tools.ts:110`): a nested one is
  written, and so is the root one by a path like `./.git/config` or `x/../.git/config`, which
  the tool resolves afterwards (`default-tools.ts:118`); against `policy-engine.ts:137`, "Git
  internals must not be modified".  `UndisturbedRestoreIsReversible` excepts these files
  (`Guarded`).
- With no checkpoint on the way back from the failed node the lookup returns the branch's
  *latest*, taken after the failure (`in-memory-store.ts:82`, against
  `recover/route.ts:109`).
- The final persist writes the status `running` over a branch the loop had forked away
  from (`session-runner.ts:187`, `trace-ingestor.ts:235`, against `README.md:155`, which
  calls a failed branch immutable); `RequestedFailureStays` is about what a request marked.
- Decisions get a fresh id at every ingestion and are duplicated by a retried post
  (`trace-ingestor.ts:140`, against `recorder.ts:316-318`); `ImportFlush` counts `copies`.
- A run that runs out of iterations returns `completed` (`agent-loop.ts:233`, against
  25-26).
- A chat that throws leaves a checkpoint under a node that is never persisted
  (`runtime-hooks.ts:169`, against 185-190); `GraphIsTree` excepts such runs.
- `run()` may reject before the loop exists and no event says so
  (`sessions/start/route.ts:59`, against 60; `LiveStream!BeginFails`).
- The runner of a recovery is not registered (`recover/route.ts:144`, against
  `session-runner.ts:99-100`).
- On Postgres the eager row of a fork is refused (`schema.ts:40`, against
  `session-runner.ts:57`; `RunStore!InsertRefused`).
- The recover route takes no snapshot before it wipes (`recover/route.ts:67`, against
  19-20), and a write between the snapshot and the wipe of a restore is in no artifact
  (`restore/route.ts:82`, against 14-15); the properties of `SharedSandbox` are about
  undisturbed restores for this reason.
- `detectFailure` does not judge `stopReason` (`openclaw-bridge.ts:283`, against
  14-16), and a `--max-recoveries` that is no number runs no turn and ends as
  completed (`openclaw-bridge.ts:414`); `Bridge` assumes a natural number.
- The tree route compares with the *first* checkpoint of the branch (`tree/route.ts:48-65`)
  where its comment (11-16) says the previous one.  The diff route compares sizes only and
  skips housekeeping directories, though it is to list what a restore would apply;
  `PreviewTellsTheRestore` says exactly what it tells.
- The poll of a recovery outlives the panel when the answer comes after it is gone
  (`NodeInspector.tsx:405`).
- The manifest of a directory snapshot names the artifact itself as the sandbox
  (`filesystem-snapper.ts:218`): a restore would wipe what it is about to extract.  The
  production mount is read-only, so there it fails.

## 7. Abstractions

Prompts, payloads, titles, token counts and times are left out everywhere.  In
`AgentLoop` the policy decides freely; its rules are in `SharedSandbox`.  A failing
snapshot changes nothing but the log of errors.  `LiveStream` models the requests as one
connection each; the terminal closes its EventSource on error, so it does not
reconnect.  `RunStore` gives every session the branches of its own log; the nodes of a
branch are one.  `VideoJobs` keeps of a storyboard which nodes it was made of.
`VideoJobs` lists the pending jobs when the answer comes.

`SharedSandbox` takes names to be told apart by case, to contain no line break (which the dot
of a glob's expression does not match) and to be no symbolic links; a path out of the sandbox
is refused, while the code also refuses a name at its root that only begins with two dots.

`ReplayPlayer` names nodes by their position.  A refresh that brings no node only makes a new
array, which arms the playback timer anew; it is left out, as are the ties of `startedAt`.
`ReplayPage` takes React to run the effects of a click before it takes the next click, and
those of a timer or an answer in a task of their own, with clicks in between; this is how
React 19 schedules them.  Only the Codebase tab under a new checkpoint has its commit,
its effects and their render as steps: elsewhere the effects fetch or set constants that no
click and no answer reads, and are one step with their cause.  No answer arrives between a
commit and its effects (`PanelAnswered`): it would do what it does before the commit, or be
overwritten by the effects.  A click that takes a tick of the playback back before it is
rendered leaves the timer unarmed; `overtaken` marks that until the effect has run again,
and `PlaybackEnds` excepts it.

Not in the code are the bounds `MaxCalls`, `MaxFaults`, `MaxEvents`, `MaxForks`,
`MaxWrites`, `NumDecisions`, `MaxLines`, `MaxNodes` and `MaxClicks`, and the instance of
the page (`FirstShown` nodes before the recovery).  `RefreshTicks` is in the code, as 10;
the run has 2, as a longer poll only repeats its tick.  `MaxIterations`,
`MaxAutoRecoveries`, `MaxRecoveries` and `MaxAttempts` are in the code, too.

## 8. What is left, and the plan

In this order:

1. `SharedSandbox` with `CheckpointLookup`: the `pre_restore` row of a restore hangs from a
   node that does not exist and is the newest of its branch, so a later fallback finds the
   state that was thrown away.
2. `AgentLoop` on a branch (`SessionRunner.fromBranch`), and with it a run of `RecoverableRun`
   that goes on after it ended.
3. Directory snapshots of NemoClaw, and what the tree and file routes filter.

Not modelled:

- the failure classifier: a list of text patterns that labels a node; nothing branches on
  the label;
- the recovery orchestrator and the prompt builders: they write prompts, and their one
  lasting effect, the branch, is in `AgentLoop` and `Bridge`;
- the Phoenix exporter: an encoding of the log that is never read back; in `ImportFlush` an
  export succeeds or fails;
- the storyboard's wording and durations, the graph's colours and columns, the animation of
  text, the dashboard: drawing;
- the bridge's argument and output parsers and the classification of errors: text, with the
  hazards listed at their lines;
- demo data and configuration, but for where artifacts lie and that workers restart.
