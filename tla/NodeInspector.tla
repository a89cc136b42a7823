---------------------------- MODULE NodeInspector ----------------------------
(***************************************************************************)
(* The panel on the selected node, NodeInspector.tsx, with what it mounts: *)
(* CodebaseTab.tsx, RestoreConfirmModal.tsx and the recovery panel.        *)
(*                                                                         *)
(* A fetch whose effect was cleaned up (its `cancelled` flag), or whose    *)
(* component is gone, sets nothing when it is answered, so `requests`      *)
(* forgets it.  The exception is a recovery: its answer counts although    *)
(* its panel is gone, when `live` is false.                                *)
(*                                                                         *)
(* When the checkpoint changes under a mounted CodebaseTab, React commits, *)
(* runs the effects in a later task (at the end of a click: at once), and  *)
(* renders what they set in one more task.  Until then the old tree and an *)
(* open modal stay on the screen and take clicks: Show, RunEffects and     *)
(* Rerender are the three steps, `screen` is what stands there.  All other *)
(* clicks and answers are one step up to the last effect: their effects    *)
(* set constants that no click and no answer reads.                        *)
(***************************************************************************)
EXTENDS Naturals, Sequences, SequencesExt

CONSTANTS
  CheckpointOf,  \* node.checkpointId of each node, None if it has none
  FilesIn,       \* the changed files the tree endpoint lists for a checkpoint
  FailedNodes,   \* the nodes with status failure
  None,          \* null
  RefreshTicks   \* how often the recovery panel refreshes the page

VARIABLES
  node,      \* the selected node; 0 when the panel is not mounted
  tab,       \* activeTab: "summary", "codebase", or "raw" for all others
  changes,   \* codebaseHasChanges: "unknown", "yes" or "no"
  view,      \* the state of CodebaseTab
  modal,     \* showRestore and the state of RestoreConfirmModal
  panel,     \* the recovery panel: "idle", "submitting" or "started"
  ticks,     \* refreshes left: of the panel's interval, and of leaked ones
  requests,  \* fetches under way whose answers count
  screen     \* what is owed, and the view and modal that stand until then

inspector == <<node, tab, changes, view, modal, panel, ticks, requests, screen>>

NewView  == [tree |-> None, failed |-> FALSE, path |-> None,
             content |-> <<None, None>>, loading |-> FALSE]
NewModal == [open |-> FALSE, diff |-> None, applying |-> FALSE, done |-> FALSE]
Rendered  == [owed |-> "nothing", view |-> NewView, modal |-> NewModal]

(* arg: the path of a file, or, of a restore, the checkpoint whose diff    *)
(* the modal showed.                                                       *)
Request(kind, cp, arg) == [kind |-> kind, cp |-> cp, arg |-> arg, live |-> TRUE]

(* Mutant: the effect of the second file does not cancel the first.        *)
CancelledButFiles(kinds, rs) == {r \in rs : r.kind \notin kinds \ {"file"}}

(* Effects are cleaned up; the recovery panel goes.                        *)
Cancelled(kinds, rs) == {r \in rs : r.kind \notin kinds}
Orphaned(rs) == {[r EXCEPT !.live = @ /\ r.kind # "recover"] : r \in rs}

Cp(n) == IF n = 0 THEN None ELSE CheckpointOf[n]

(* The Codebase tab is offered; without it the effective tab is summary.   *)
Offered(n, c) == Cp(n) # None /\ c = "yes"

(* What the effective tab mounts: CodebaseTab, or, on the summary of a     *)
(* failed node, the recovery panel.                                        *)
OnCodebase(n, t, c) == Offered(n, c) /\ t = "codebase"
OnPanel(n, t, c)    == n \in FailedNodes /\ t # "raw" /\ ~OnCodebase(n, t, c)

Mounted == OnCodebase(node, tab, changes)

(* What the last render put on the screen, where the clicks go; the modal  *)
(* is rendered with a tree only.                                           *)
OnScreen == IF screen = Rendered THEN [view |-> view, modal |-> modal]
            ELSE [view |-> screen.view, modal |-> screen.modal]
WithModal(v, m) == v.tree # None /\ m.open
ModalMounted    == Mounted /\ WithModal(OnScreen.view, OnScreen.modal)

InspectorInit ==
  /\ node = 0 /\ tab = "summary" /\ changes = "unknown"
  /\ view = NewView /\ modal = NewModal
  /\ panel = "idle" /\ ticks = [own |-> 0, leaked |-> 0]
  /\ requests = {} /\ screen = Rendered

-----------------------------------------------------------------------------
(***************************************************************************)
(* CodebaseTab: mounting, and its effects when it stays.                   *)
(***************************************************************************)
CodebaseKinds == {"tree", "file", "diff", "restore"}

TreeRequest(cp)    == {Request("tree", cp, None)}
DiffRequest(cp)    == {Request("diff", cp, None)}
FileRequest(cp, p) == IF p = None THEN {} ELSE {Request("file", cp, p)}

(* The effects of a render of checkpoint cp with view v and modal m.  All  *)
(* of the view is reset; the second effect has closed over the path that   *)
(* the first resets, so it fetches a file once more.  The modal has no     *)
(* key and resets nothing: it asks for the new diff and keeps the old one. *)
Effects(cp, v, m, rs) ==
  /\ view' = [NewView EXCEPT !.loading = v.loading \/ v.path # None]
  /\ requests' = TreeRequest(cp) \cup FileRequest(cp, v.path) \cup
                 (IF WithModal(v, m)
                  THEN Cancelled({"tree", "file", "diff"}, rs) \cup DiffRequest(cp)
                  ELSE Cancelled({"tree", "file"}, rs))
  /\ screen' = [owed |-> "render", view |-> v, modal |-> m]

(* A change of node, tab or changes mounts and unmounts.  The panel is     *)
(* keyed by the node; when it goes it clears its interval.  CodebaseTab    *)
(* and the modal have no key: another checkpoint is a commit that leaves   *)
(* them as they are, with the effects to come, or with them when sync.     *)
Remount(n, t, c, sync, rs0) ==
  LET stays == n = node /\ OnPanel(node, tab, changes) /\ OnPanel(n, t, c)
      rs    == IF stays THEN rs0 ELSE Orphaned(rs0)
  IN /\ node' = n /\ tab' = t /\ changes' = c
     /\ IF stays THEN UNCHANGED <<panel, ticks>>
        ELSE panel' = "idle" /\ ticks' = [ticks EXCEPT !.own = 0]
     /\ IF ~OnCodebase(n, t, c)
        THEN /\ view' = NewView /\ modal' = NewModal /\ screen' = Rendered
             /\ requests' = Cancelled(CodebaseKinds, rs)
        ELSE IF ~Mounted
        THEN /\ view' = NewView /\ modal' = NewModal /\ screen' = Rendered
             /\ requests' = Cancelled(CodebaseKinds, rs) \cup TreeRequest(Cp(n))
        ELSE IF Cp(n) = Cp(node)
        THEN UNCHANGED <<view, modal, screen>> /\ requests' = rs
        ELSE IF sync
        THEN Effects(Cp(n), view, modal, rs) /\ UNCHANGED modal
        ELSE /\ screen' = [owed |-> "effects", view |-> view, modal |-> modal]
             /\ UNCHANGED <<view, modal>> /\ requests' = rs

(* The selection changes.  The effect on the checkpoint asks whether there *)
(* are changes; until it is answered the old answer stands.                *)
Show(n, sync) ==
  LET rs == Cancelled({"changes"}, requests)
  IN IF n = 0 THEN Remount(0, "summary", "unknown", sync, rs)
     ELSE IF node # 0 /\ Cp(n) = Cp(node) THEN Remount(n, tab, changes, sync, requests)
     ELSE IF Cp(n) = None THEN Remount(n, tab, "no", sync, rs)
     ELSE Remount(n, tab, changes, sync, rs \cup {Request("changes", Cp(n), None)})

RunEffects ==
  /\ screen.owed = "effects"
  /\ Effects(Cp(node), screen.view, screen.modal, requests)
  /\ UNCHANGED <<node, tab, changes, modal, panel, ticks>>

(* What the effects set is rendered: without a tree the modal goes, and    *)
(* showRestore is all that stays.  If the tree has come already the modal  *)
(* stays as it is.  Another path starts the effect on the path.            *)
Rerender ==
  LET was   == WithModal(screen.view, screen.modal)
      is    == WithModal(view, modal)
      moved == view.path # screen.view.path
      gone  == (IF was /\ ~is THEN {"diff", "restore"} ELSE {})
               \cup (IF moved THEN {"file"} ELSE {})
  IN /\ screen.owed = "render"
     /\ screen' = Rendered
     /\ modal' = IF was /\ is THEN modal ELSE [NewModal EXCEPT !.open = modal.open]
     /\ view' = IF moved /\ view.path # None
                THEN [view EXCEPT !.content = NewView.content, !.loading = TRUE] ELSE view
     /\ requests' = Cancelled(gone, requests)
          \cup (IF is /\ ~was THEN DiffRequest(Cp(node)) ELSE {})
          \cup (IF moved THEN FileRequest(Cp(node), view.path) ELSE {})
     /\ UNCHANGED <<node, tab, changes, panel, ticks>>

ChooseTab ==
  \E t \in {"summary", "raw", "codebase"} :
    /\ node # 0 /\ t # tab
    /\ t = "codebase" => Offered(node, changes)
    /\ Remount(node, t, changes, TRUE, requests)

(* With a view on the screen that is about to go, the path is set before   *)
(* the effects reset it, or after: then it stays, and is fetched when it   *)
(* is rendered.                                                            *)
SelectFile ==
  /\ Mounted /\ OnScreen.view.tree # None
  /\ \E p \in ToSet(FilesIn[OnScreen.view.tree]) \ {view.path} :
       IF screen = Rendered
       THEN /\ view' = [view EXCEPT !.path = p, !.content = NewView.content,
                                    !.loading = TRUE]
            /\ requests' = Cancelled({"file"}, requests) \cup FileRequest(Cp(node), p)
       ELSE /\ view' = IF screen.owed = "render" THEN [view EXCEPT !.path = p] ELSE view
            /\ UNCHANGED requests
  /\ UNCHANGED <<node, tab, changes, modal, panel, ticks, screen>>

-----------------------------------------------------------------------------
(***************************************************************************)
(* Answers.                                                                *)
(***************************************************************************)
(* A failed answer counts as no changes.                                   *)
AnswerChanges ==
  \E r \in requests, ok \in BOOLEAN :
    /\ r.kind = "changes"
    /\ Remount(node, tab, IF ok /\ FilesIn[r.cp] # <<>> THEN "yes" ELSE "no", FALSE,
               requests \ {r})

(* The tree comes and its first file is selected, and fetched unless it is *)
(* selected already; a modal that was open is mounted anew.  Or the error  *)
(* is shown.  If a render is owed, it does the rest.                       *)
AnswerTree ==
  \E r \in requests, ok \in BOOLEAN :
    /\ r.kind = "tree"
    /\ IF ~ok THEN /\ view' = [view EXCEPT !.failed = TRUE]
                   /\ requests' = requests \ {r}
       ELSE LET files == FilesIn[r.cp]
                first == IF files = <<>> THEN view.path ELSE Head(files)
                new   == [view EXCEPT !.tree = r.cp, !.path = first]
                moved == screen = Rendered /\ first # view.path
            IN /\ view' = IF moved
                          THEN [new EXCEPT !.content = NewView.content, !.loading = TRUE]
                          ELSE new
               /\ requests' =
                    ((IF moved THEN Cancelled({"file"}, requests) ELSE requests) \ {r})
                    \cup (IF moved THEN FileRequest(Cp(node), first) ELSE {})
                    \cup (IF screen = Rendered /\ modal.open
                          THEN DiffRequest(Cp(node)) ELSE {})
    /\ UNCHANGED <<node, tab, changes, modal, panel, ticks, screen>>

AnswerFile ==
  \E r \in requests, ok \in BOOLEAN :
    /\ r.kind = "file"
    /\ view' = [view EXCEPT !.content = IF ok THEN <<r.cp, r.arg>> ELSE @,
                            !.loading = FALSE]
    /\ requests' = requests \ {r}
    /\ UNCHANGED <<node, tab, changes, modal, panel, ticks, screen>>

-----------------------------------------------------------------------------
(***************************************************************************)
(* RestoreConfirmModal.                                                    *)
(***************************************************************************)
OpenModal ==
  /\ Mounted /\ OnScreen.view.tree # None /\ ~OnScreen.modal.open
  /\ modal' = [NewModal EXCEPT !.open = TRUE]
  /\ requests' = requests \cup (IF screen = Rendered THEN DiffRequest(Cp(node)) ELSE {})
  /\ UNCHANGED <<node, tab, changes, view, panel, ticks, screen>>

AnswerDiff ==
  \E r \in requests, ok \in BOOLEAN :
    /\ r.kind = "diff"
    /\ modal' = [modal EXCEPT !.diff = IF ok THEN r.cp ELSE @]
    /\ requests' = requests \ {r}
    /\ UNCHANGED <<node, tab, changes, view, panel, ticks, screen>>

(* The button waits for a diff; it restores the checkpoint that is         *)
(* rendered, under the diff that is on the screen.                         *)
Apply ==
  /\ ModalMounted
  /\ OnScreen.modal.diff # None /\ ~OnScreen.modal.applying /\ ~OnScreen.modal.done
  /\ modal' = [modal EXCEPT !.applying = TRUE]
  /\ requests' = requests \cup {Request("restore", Cp(node), OnScreen.modal.diff)}
  /\ UNCHANGED <<node, tab, changes, view, panel, ticks, screen>>

AnswerRestore ==
  \E r \in requests, ok \in BOOLEAN :
    /\ r.kind = "restore"
    /\ modal' = [modal EXCEPT !.applying = FALSE, !.done = ok]
    /\ requests' = requests \ {r}
    /\ UNCHANGED <<node, tab, changes, view, panel, ticks, screen>>

(* The cross and the backdrop, which work while a restore is applied too.  *)
CloseModal ==
  /\ ModalMounted
  /\ modal' = NewModal
  /\ requests' = IF screen = Rendered THEN Cancelled({"diff", "restore"}, requests)
                 ELSE requests
  /\ UNCHANGED <<node, tab, changes, view, panel, ticks, screen>>

(* Done: the modal closes and the tab reloads.  The render of the click    *)
(* first runs the effects that are owed and has what they set.             *)
Done ==
  LET v == IF screen.owed = "effects"
           THEN [NewView EXCEPT !.loading = view.loading \/ view.path # None] ELSE view
  IN /\ ModalMounted /\ OnScreen.modal.done
     /\ Effects(Cp(node), v, NewModal, Cancelled({"diff", "restore"}, requests))
     /\ modal' = NewModal
     /\ UNCHANGED <<node, tab, changes, panel, ticks>>

-----------------------------------------------------------------------------
(***************************************************************************)
(* The recovery panel.                                                     *)
(***************************************************************************)
Recover ==
  /\ OnPanel(node, tab, changes) /\ panel = "idle"
  /\ panel' = "submitting"
  /\ requests' = requests \cup {Request("recover", Cp(node), None)}
  /\ UNCHANGED <<node, tab, changes, view, modal, ticks, screen>>

(* The answer starts the refreshes, also when the panel is gone: then      *)
(* nobody clears the interval but its own count.                           *)
RecoveryStarted ==
  \E r \in requests :
    /\ r.kind = "recover"
    /\ requests' = requests \ {r}
    /\ IF r.live
       THEN panel' = "started" /\ ticks' = [ticks EXCEPT !.own = RefreshTicks]
       ELSE UNCHANGED panel /\ ticks' = [ticks EXCEPT !.leaked = @ + RefreshTicks]
    /\ UNCHANGED <<node, tab, changes, view, modal, screen>>

RecoveryRefused ==
  \E r \in requests :
    /\ r.kind = "recover"
    /\ requests' = requests \ {r}
    /\ panel' = IF r.live THEN "idle" ELSE panel
    /\ UNCHANGED <<node, tab, changes, view, modal, ticks, screen>>

(* router.refresh(); after the last one the interval clears itself.        *)
RefreshTick ==
  /\ \E k \in {"own", "leaked"} : ticks[k] > 0 /\ ticks' = [ticks EXCEPT ![k] = @ - 1]
  /\ UNCHANGED <<node, tab, changes, view, modal, panel, requests, screen>>

InspectorClick == ChooseTab \/ SelectFile \/ OpenModal \/ Apply \/ CloseModal
                  \/ Done \/ Recover
Answer == AnswerChanges \/ AnswerTree \/ AnswerFile \/ AnswerDiff
          \/ AnswerRestore \/ RecoveryRefused

-----------------------------------------------------------------------------
(***************************************************************************)
(* Properties                                                              *)
(***************************************************************************)

\* However late answers come, and whatever is clicked on a screen that is about
\* to go, once it is rendered the panel shows the node that is selected: tree
\* and file are of its checkpoint and of the selected path, and a spinner stands
\* for a file that is still coming.
ShowsTheSelection ==
  (Mounted /\ screen = Rendered) =>
    /\ view.tree \in {None, Cp(node)}
    /\ (view.tree # None /\ view.path # None) =>
         view.content \in {NewView.content, <<Cp(node), view.path>>}
    /\ (view.path # None /\ view.loading) =>
         Request("file", Cp(node), view.path) \in requests

\* diff/route.ts:51: the diff is there "to populate the confirmation modal
\* before any destructive action".  Every restore would then be of the
\* checkpoint whose diff is on the screen.  It is not: a tick of the playback
\* moves the selection under an open modal, which keeps the old diff and an
\* enabled Apply button until its effects have been rendered.
RestoreWasConfirmed == \A r \in requests : r.kind = "restore" => r.arg = r.cp
=============================================================================
