----------------------------- MODULE ReplayPage -----------------------------
(***************************************************************************)
(* The replay page: the player and, on the node it has selected, the       *)
(* inspector.  The inspector follows the rendered selection; its recovery  *)
(* panel clears the player's filter and refreshes the nodes.               *)
(***************************************************************************)
EXTENDS ReplayPlayer, NodeInspector

vars == <<player, inspector>>

Init == PlayerInit /\ InspectorInit

(* The panel is rendered with the selection.                               *)
PageRenders ==
  /\ screen = Rendered
  /\ Render
  /\ IF seen'.selected = node THEN UNCHANGED inspector
     ELSE Show(seen'.selected, due = "sync")

PlayerClicked == UserStep /\ UNCHANGED inspector
Ticks         == TimerFires /\ UNCHANGED inspector

(* What a selection change has left to do in the panel.                    *)
PanelRenders == (RunEffects \/ Rerender) /\ UNCHANGED player

(* A click in the panel also renders what was set before, and with effects *)
(* or a render still owed these come first, unless the click was the last  *)
(* that its screen took.                                                   *)
PanelClicked ==
  /\ InspectorClick
  /\ due # "sync" /\ clicks < MaxClicks
  /\ clicks' = clicks + 1
  /\ due' = IF due = "later" \/ (screen # Rendered /\ screen' = screen) THEN "sync"
            ELSE due
  /\ UNCHANGED <<cur, seen, timer, overtaken>>

(* An answer between a commit and its effects does what it would have done *)
(* before the commit, or is overwritten by the effects.                    *)
PanelAnswered == Answer /\ due # "sync" /\ screen.owed # "effects" /\ UNCHANGED player

(* onRecoveryStarted(); the refresh that follows is one of RefreshTicks.   *)
RecoveryAnswered == RecoveryStarted /\ ClearFilter

Refreshed ==
  /\ RefreshTick
  /\ Refresh \/ (due # "sync" /\ UNCHANGED player)

Next ==
  \/ PageRenders \/ PlayerClicked \/ Ticks \/ PanelRenders
  \/ PanelClicked \/ PanelAnswered \/ RecoveryAnswered \/ Refreshed

Spec == Init /\ [][Next]_vars

(* Renders and timers come; nobody has to click, and fetches may never be  *)
(* answered.                                                               *)
FairSpec == Spec /\ WF_vars(PageRenders) /\ WF_vars(Ticks) /\ WF_vars(PanelRenders)
=============================================================================
