---------------------------- MODULE SharedSandbox ----------------------------
(***************************************************************************)
(* The sandbox directory of a run and the requests that replace it: the    *)
(* restore route (api/checkpoints/[cpId]/restore/route.ts), the recover    *)
(* route (api/runs/[runId]/recover/route.ts) and Snapper                   *)
(* (packages/cli/src/filesystem-snapper.ts), which they call.  Nothing     *)
(* keeps two of them, or an agent that is still at work, from the          *)
(* directory at the same time.                                             *)
(*                                                                         *)
(* The artifacts of the snapshots lie apart from the sandbox, or, as       *)
(* docker-compose.prod.yml has it, inside.  A step is one operation on the *)
(* file system or the store; the walk of a preview is one step, too.       *)
(***************************************************************************)
EXTENDS PolicyEngine, SnapshotFiles

CONSTANTS
  Root,       \* the names that lead from / to the sandbox directory
  Files,      \* the paths below it, sequences of names
  Spellings,  \* the paths that a model gives to write_file, split at each /
  Requests,   \* the restore and recover requests
  MaxWrites   \* bound: writes of agents and of processes they left behind

(* Names are told apart by case, have no line break (the dot in a glob's   *)
(* expression does not match one), and link nowhere else.                  *)
ASSUME PathsAssumption ==
  /\ Root \in Seq(STRING)
  /\ Files \subseteq Seq(STRING)
  /\ Spellings \subseteq Seq(STRING)

ASSUME MaxWritesAssumption == MaxWrites \in Nat

VARIABLES
  storage,    \* where the artifacts are: "apart" or "inside"
  sandbox,    \* the tree in the sandbox directory
  saved,      \* the artifacts that a checkpoint row refers to
  nextVersion,
  byTool,     \* history: the versions that write_file wrote where Guarded
  pc,         \* where each request is
  kind,       \* "restore" or "recover"
  target,     \* the artifact it extracts
  shown,      \* the changes that the preview of a restore lists
  list,       \* the files its snapshot has still to read, or to extract
  artifact,   \* what its snapshot has recorded and read
  wiped,      \* history: the tree that it wiped
  quiet       \* history: nobody else has changed the sandbox since it began

diskVars    == <<storage, sandbox, nextVersion, byTool>>
requestVars == <<pc, kind, target, shown, list, artifact, wiped, quiet>>
vars == <<diskVars, saved, requestVars>>

Empty == [f \in Files |-> 0]
In(tree) == {f \in Files : tree[f] # 0}

(* A manifest and an archive.                                              *)
Archived(tree) == [f \in Files |-> IF Skipped(f) THEN 0 ELSE tree[f]]
SnapshotOf(tree) == [sizes |-> Sizes(tree), tree |-> Archived(tree)]

Started(r) == pc[r] \notin {"idle", "previewed", "done", "failed"}

(* The sandbox changes under the hands of the requests in R.               *)
Disturb(R) == quiet' = [r \in Requests |-> quiet[r] /\ r \notin R]

(* The run has an empty baseline snapshot and one of its present state, in *)
(* which commands have left the files that are not archived.               *)
Init ==
  /\ storage \in {"apart", "inside"}
  /\ sandbox = [f \in Files |-> 1]
  /\ saved = {SnapshotOf(Empty), SnapshotOf(sandbox)}
  /\ nextVersion = 2
  /\ byTool = {}
  /\ pc       = [r \in Requests |-> "idle"]
  /\ kind     = [r \in Requests |-> "restore"]
  /\ target   = [r \in Requests |-> SnapshotOf(Empty)]
  /\ shown    = [r \in Requests |-> {}]
  /\ list     = [r \in Requests |-> {}]
  /\ artifact = [r \in Requests |-> SnapshotOf(Empty)]
  /\ wiped    = [r \in Requests |-> Empty]
  /\ quiet    = [r \in Requests |-> TRUE]

-----------------------------------------------------------------------------
(* A new version of a file.                                                *)
Write(f) ==
  /\ nextVersion <= MaxWrites + 1
  /\ sandbox' = [sandbox EXCEPT ![f] = nextVersion]
  /\ nextVersion' = nextVersion + 1
  /\ Disturb(Requests)
  /\ UNCHANGED <<storage, saved, pc, kind, target, shown, list, artifact, wiped>>

(* The names in a path, and those that no .. behind them takes back.       *)
Names(path) == {i \in DOMAIN path : path[i] \notin {"", ".", ".."}}
Kept(path) ==
  {i \in Names(path) :
     \A j \in i..Len(path) :
       Cardinality({k \in i..j : path[k] = ".."}) < Cardinality(Names(path) \cap (i..j))}

Absolute(given) == Len(given) > 1 /\ given[1] = ""

(* resolveInSandbox: what is kept, in its order, leads to the sandbox and  *)
(* from there to f.  Any other file is refused as outside.                 *)
Resolves(given, f) ==
  LET path == IF Absolute(given) THEN given ELSE Root \o given
      file == Root \o f
  IN  \E at \in [DOMAIN file -> Kept(path)] :
        /\ \A i, j \in DOMAIN file : i < j => at[i] < at[j]
        /\ \A i \in Kept(path) : \E j \in DOMAIN file : at[j] = i
        /\ \A j \in DOMAIN file : path[at[j]] = file[j]

Resolved == [given \in Spellings |-> [f \in Files |-> Resolves(given, f)]]

(* Snapshots skip .cache and every .git; the policy has no rule about the  *)
(* first and one about paths that begin with .git, as they are given.      *)
Guarded(given, f) ==
  ~Through(f, ".cache") /\ (Through(f, ".git") => Below(given, ".git"))

(* A live agent uses write_file.  The policy judges the path as the model  *)
(* gives it, the tool writes the file that it resolves to.                 *)
WriteFile(given, f) ==
  /\ Allowed("file_write", given)
  /\ Resolved[given][f]
  /\ Write(f)
  /\ byTool' = IF Guarded(given, f) THEN byTool \cup {nextVersion} ELSE byTool

(* A command of run_bash, or a process it has left behind, writes a file.  *)
RunBash(f) ==
  /\ Allowed("command_execution", "npm install")
  /\ Write(f)
  /\ UNCHANGED byTool

(* RestoreConfirmModal asks what a restore would change.                   *)
Preview(r) ==
  /\ pc[r] = "idle"
  /\ \E t \in saved :
       /\ target' = [target EXCEPT ![r] = t]
       /\ shown' = [shown EXCEPT ![r] = Diff(t.sizes, Sizes(sandbox))]
  /\ kind' = [kind EXCEPT ![r] = "restore"]
  /\ quiet' = [quiet EXCEPT ![r] = TRUE]
  /\ pc' = [pc EXCEPT ![r] = "previewed"]
  /\ UNCHANGED <<diskVars, saved, list, artifact, wiped>>

(* The restore route reads the manifest of its target; it snapshots what   *)
(* it is going to wipe.                                                    *)
StartRestore(r) ==
  /\ pc[r] = "previewed"
  /\ target[r] \in saved
  /\ pc' = [pc EXCEPT ![r] = "walk"]
  /\ UNCHANGED <<diskVars, saved, kind, target, shown, list, artifact, wiped, quiet>>

(* The recover route does not snapshot.                                    *)
StartRecover(r) ==
  /\ pc[r] = "idle"
  /\ \E t \in saved : target' = [target EXCEPT ![r] = t]
  /\ kind' = [kind EXCEPT ![r] = "recover"]
  /\ quiet' = [quiet EXCEPT ![r] = TRUE]
  /\ pc' = [pc EXCEPT ![r] = "wipe"]
  /\ UNCHANGED <<diskVars, saved, shown, list, artifact, wiped>>

(* Snapper.snapshot(): the tree is walked first.  If the walk finds no     *)
(* file, the directory itself is archived, with what the walk has skipped. *)
Walk(r) ==
  LET found == Listed(Sizes(sandbox))
  IN  /\ pc[r] = "walk"
      /\ list' = [list EXCEPT ![r] = found]
      /\ artifact' =
           [artifact EXCEPT ![r] =
              [sizes |-> Sizes(sandbox),
               tree  |-> IF found = {} THEN sandbox ELSE Empty]]
      /\ pc' = [pc EXCEPT ![r] = "tar"]
      /\ UNCHANGED <<diskVars, saved, kind, target, shown, wiped, quiet>>

(* Otherwise the files that were found are read, one after the other.      *)
ReadFile(r, f) ==
  /\ pc[r] = "tar"
  /\ f \in list[r] \cap In(sandbox)
  /\ artifact' = [artifact EXCEPT ![r].tree[f] = sandbox[f]]
  /\ list' = [list EXCEPT ![r] = @ \ {f}]
  /\ UNCHANGED <<diskVars, saved, pc, kind, target, shown, wiped, quiet>>

(* One of them is gone: the request fails, the sandbox is left alone.      *)
FileGone(r) ==
  /\ pc[r] = "tar"
  /\ list[r] \ In(sandbox) # {}
  /\ pc' = [pc EXCEPT ![r] = "failed"]
  /\ UNCHANGED <<diskVars, saved, kind, target, shown, list, artifact, wiped, quiet>>

(* The checkpoint row of the snapshot is stored.                           *)
SaveRow(r) ==
  /\ pc[r] = "tar"
  /\ list[r] = {}
  /\ saved' = saved \cup {artifact[r]}
  /\ pc' = [pc EXCEPT ![r] = "wipe"]
  /\ UNCHANGED <<diskVars, kind, target, shown, list, artifact, wiped, quiet>>

(* Mutant: the target is extracted over what is there.                     *)
SkipWipe(r) ==
  /\ pc[r] = "wipe"
  /\ wiped' = [wiped EXCEPT ![r] = sandbox]
  /\ list' = [list EXCEPT ![r] = In(target[r].tree)]
  /\ pc' = [pc EXCEPT ![r] = "extract"]
  /\ Disturb(Requests \ {r})
  /\ UNCHANGED <<diskVars, saved, kind, target, shown, artifact>>

(* Snapper.extract(): the directory is removed and made anew ...           *)
Wipe(r) ==
  /\ pc[r] = "wipe"
  /\ storage = "apart"
  /\ wiped' = [wiped EXCEPT ![r] = sandbox]
  /\ sandbox' = Empty
  /\ list' = [list EXCEPT ![r] = In(target[r].tree)]
  /\ pc' = [pc EXCEPT ![r] = "extract"]
  /\ Disturb(Requests \ {r})
  /\ UNCHANGED <<storage, nextVersion, byTool, saved, kind, target, shown, artifact>>

(* ... with every artifact, if they lie inside: the one that was to be     *)
(* extracted is not found, and a snapshot under way loses its own.         *)
WipeWithArtifacts(r) ==
  /\ pc[r] = "wipe"
  /\ storage = "inside"
  /\ wiped' = [wiped EXCEPT ![r] = sandbox]
  /\ sandbox' = Empty
  /\ saved' = {}
  /\ pc' = [q \in Requests |-> IF q = r \/ pc[q] = "tar" THEN "failed" ELSE pc[q]]
  /\ Disturb(Requests \ {r})
  /\ UNCHANGED <<storage, nextVersion, byTool, kind, target, shown, list, artifact>>

(* ... and the files of the artifact are written, one after the other.     *)
ExtractFile(r, f) ==
  /\ pc[r] = "extract"
  /\ f \in list[r]
  /\ sandbox' = [sandbox EXCEPT ![f] = target[r].tree[f]]
  /\ list' = [list EXCEPT ![r] = @ \ {f}]
  /\ Disturb(Requests \ {r})
  /\ UNCHANGED <<storage, nextVersion, byTool, saved, pc, kind, target, shown,
                 artifact, wiped>>

(* The extraction breaks: the request fails on a half-filled sandbox.      *)
ExtractFails(r) ==
  /\ pc[r] = "extract"
  /\ list[r] # {}
  /\ pc' = [pc EXCEPT ![r] = "failed"]
  /\ UNCHANGED <<diskVars, saved, kind, target, shown, list, artifact, wiped, quiet>>

(* The route answers; the recover route has an agent work in the sandbox.  *)
Finish(r) ==
  /\ pc[r] = "extract"
  /\ list[r] = {}
  /\ pc' = [pc EXCEPT ![r] = "done"]
  /\ UNCHANGED <<diskVars, saved, kind, target, shown, list, artifact, wiped, quiet>>

Idle == (\A r \in Requests : ~Started(r)) /\ UNCHANGED vars

Next ==
  \/ \E f \in Files : RunBash(f) \/ \E given \in Spellings : WriteFile(given, f)
  \/ \E r \in Requests :
       \/ Preview(r) \/ StartRestore(r) \/ StartRecover(r)
       \/ Walk(r) \/ FileGone(r) \/ SaveRow(r)
       \/ Wipe(r) \/ WipeWithArtifacts(r) \/ ExtractFails(r) \/ Finish(r)
       \/ \E f \in Files : ReadFile(r, f) \/ ExtractFile(r, f)
  \/ Idle

Spec == Init /\ [][Next]_vars
-----------------------------------------------------------------------------
(***************************************************************************)
(* Properties.                                                             *)
(***************************************************************************)

HasWiped(r) == kind[r] = "restore" /\ wiped[r] # Empty

(* An artifact that some row refers to has these files of the tree.        *)
IsSaved(tree, files) ==
  \E s \in saved : \A f \in files : s.tree[f] = tree[f]

\* "so the action is reversible": unless somebody else was at the sandbox, what
\* a restore wiped can be restored, even when its extraction broke: all that a
\* snapshot covers and what write_file wrote, because the policy keeps write_file
\* from what snapshots skip.  What it wrote below a .cache or a .git is excepted
\* (Guarded), unless the path that was given begins with .git.  It takes the
\* artifacts to lie apart.
UndisturbedRestoreIsReversible ==
  \A r \in Requests :
    (storage = "apart" /\ HasWiped(r) /\ quiet[r])
    => IsSaved(wiped[r], {f \in Files : ~Skipped(f) \/ wiped[r][f] \in byTool})

\* The same wherever the artifacts lie, for what a snapshot covers.
RestoreIsReversible ==
  \A r \in Requests :
    (HasWiped(r) /\ quiet[r])
    => IsSaved(wiped[r], {f \in Files : ~Skipped(f)})

Ends(r) == pc[r] = "extract" /\ pc'[r] = "done" /\ quiet[r]

\* "bit-for-bit fidelity": a request that ends undisturbed leaves exactly the
\* tree of the checkpoint, no file of the one before.
UndisturbedExtractIsFaithful ==
  [][\A r \in Requests : Ends(r) => sandbox' = target[r].tree]_vars

\* The confirmation shows what the restore then does, if nobody else is at the
\* sandbox and nobody was when the snapshot was taken: every change that is
\* listed happens, and what happens unlisted replaces a file by one of the same
\* size or removes one that snapshots skip.
PreviewTellsTheRestore ==
  [][\A r \in Requests :
       (Ends(r) /\ kind[r] = "restore" /\ target[r].sizes = Sizes(target[r].tree))
       => LET changed == {f \in Files : wiped[r][f] # sandbox'[f]}
          IN  /\ shown[r] \subseteq changed
              /\ \A f \in changed \ shown[r] :
                   Skipped(f) \/ Size(wiped[r][f]) = Size(sandbox'[f])]_vars
=============================================================================
