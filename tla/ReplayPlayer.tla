---------------------------- MODULE ReplayPlayer ----------------------------
(***************************************************************************)
(* The replay of a run, apps/web/src/components/replay/ReplayPlayer.tsx    *)
(* with the buttons of ReplayControls.tsx.                                 *)
(*                                                                         *)
(* `cur` is the state as set, `seen` the one last rendered, which is what  *)
(* handlers and the playback timer have closed over.  React renders and    *)
(* runs the effects at the end of a click; what a timer, a settled promise *)
(* or an effect sets is rendered in a later task, with a gap between.      *)
(* Effects run with the render they belong to.                             *)
(*                                                                         *)
(* Nodes are named by their position in the run, sorted by startedAt; 0    *)
(* stands for null.  The code's indices are one lower: here 0 is its -1.   *)
(***************************************************************************)
EXTENDS Integers, Sequences, FiniteSets

CONSTANTS
  BranchOf,   \* the branch of each node of the run
  Fails,      \* the nodes with status failure
  FirstShown, \* the nodes there when the page was opened
  MaxClicks   \* bounds the clicks of the user

AllNodes == DOMAIN BranchOf
Branches == {BranchOf[i] : i \in AllNodes}

ASSUME RunAssumption ==
  /\ BranchOf \in Seq(Branches) /\ BranchOf # <<>> /\ Fails \subseteq AllNodes
  /\ FirstShown \subseteq AllNodes /\ MaxClicks \in Nat

VARIABLES
  cur, seen,  \* [active, selected, filter, playing, shown]
  timer,      \* the closure of the playback timer that is armed
  due,        \* "none", "later" or "sync": when the next render comes
  clicks,
  overtaken   \* history: a click took back what the playback effect was
              \* to run for, and it has not run since

player == <<cur, seen, timer, due, clicks, overtaken>>

All     == "all"
NoTimer == [active |-> -1, filter |-> All, shown |-> {}]

(* The nodes in filteredNodes, which are sorted as the nodes are; the      *)
(* index of a node there, and the node at an index.                        *)
Filtered(s)   == {i \in s.shown : s.filter \in {All, BranchOf[i]}}
Length(s)     == Cardinality(Filtered(s))
IndexOf(s, n) == IF n \in Filtered(s) THEN Cardinality({i \in Filtered(s) : i <= n})
                                      ELSE 0
NodeAt(s, k)  == IF \E n \in Filtered(s) : IndexOf(s, n) = k
                 THEN CHOOSE n \in Filtered(s) : IndexOf(s, n) = k
                 ELSE 0

PlayerInit ==
  /\ cur = [active |-> 0, selected |-> 0, filter |-> All, playing |-> FALSE,
            shown |-> FirstShown]
  /\ seen = cur
  /\ timer = NoTimer
  /\ due = "none" /\ clicks = 0 /\ overtaken = FALSE

-----------------------------------------------------------------------------
(***************************************************************************)
(* Rendering.                                                              *)
(***************************************************************************)

(* Mutant: the effect does not depend on the branch filter.                *)
AlignToSelectionOnly(s) ==
  IF s.selected # seen.selected /\ IndexOf(s, s.selected) # 0
  THEN [s EXCEPT !.active = IndexOf(s, s.selected)] ELSE s

(* The effect that keeps the index aligned with the selected node.         *)
Align(s) ==
  IF /\ <<s.selected, s.filter, s.shown>> # <<seen.selected, seen.filter, seen.shown>>
     /\ IndexOf(s, s.selected) # 0
  THEN [s EXCEPT !.active = IndexOf(s, s.selected)] ELSE s

(* The playback effect runs when what it depends on has changed; a branch  *)
(* filter makes a new array at every render.  When the whole state is as   *)
(* it was React bails out and runs no effect.                              *)
PlaybackRuns(s) ==
  /\ s # seen
  /\ \/ s.filter # All
     \/ <<s.playing, s.active, s.filter, s.shown>>
          # <<seen.playing, seen.active, seen.filter, seen.shown>>

(* Mutant: at the end of the list the timer is not armed, but playback     *)
(* stays on.                                                               *)
PlaybackIdlesAtTheEnd(s) ==
  /\ timer' = IF s.playing /\ s.active < Length(s)
              THEN [active |-> s.active, filter |-> s.filter, shown |-> s.shown]
              ELSE NoTimer
  /\ cur' = Align(s)

(* The playback effect: stopped, at the end of the list, or armed anew.    *)
Playback(s) ==
  /\ timer' = IF s.playing /\ s.active < Length(s)
              THEN [active |-> s.active, filter |-> s.filter, shown |-> s.shown]
              ELSE NoTimer
  /\ cur' = IF s.playing /\ s.active >= Length(s)
            THEN [Align(s) EXCEPT !.playing = FALSE] ELSE Align(s)

(* A render with its effects; what they set is rendered in a later task.   *)
Render ==
  /\ due # "none"
  /\ seen' = cur
  /\ IF PlaybackRuns(cur) THEN Playback(cur)
     ELSE cur' = Align(cur) /\ UNCHANGED timer
  /\ due' = IF cur' = cur THEN "none" ELSE "later"
  /\ overtaken' = (overtaken /\ ~PlaybackRuns(cur))
  /\ UNCHANGED clicks

-----------------------------------------------------------------------------
(***************************************************************************)
(* The user.  A handler reads `seen` and sets `cur`.                       *)
(***************************************************************************)
Click(new) ==
  /\ due # "sync"
  /\ clicks < MaxClicks
  /\ clicks' = clicks + 1
  /\ cur' = new
  /\ due' = "sync"
  /\ overtaken' = (overtaken \/ (PlaybackRuns(cur) /\ ~PlaybackRuns(new)))
  /\ UNCHANGED <<seen, timer>>

GoTo(k) == [cur EXCEPT !.active = k, !.selected = NodeAt(seen, k)]

Min2(a, b) == IF a < b THEN a ELSE b
Max2(a, b) == IF a > b THEN a ELSE b

Play ==
  /\ ~seen.playing
  /\ Click([IF seen.active = 0 THEN GoTo(1) ELSE cur EXCEPT !.playing = TRUE])

Pause == seen.playing /\ Click([cur EXCEPT !.playing = FALSE])

ClickNext ==
  /\ seen.active < Length(seen)   \* the button is enabled
  /\ Click(GoTo(Min2(seen.active + 1, Length(seen))))

ClickPrev ==
  /\ seen.active > 1
  /\ Click(GoTo(Max2(seen.active - 1, 1)))

Scrub == \E k \in 0..Length(seen) : Click(GoTo(Max2(1, Min2(k, Length(seen)))))

ClickNode == \E k \in 1..Length(seen) : Click(GoTo(k))

JumpToFailure ==
  \E k \in 1..Length(seen) :
    /\ NodeAt(seen, k) \in Fails
    /\ \A j \in 1..(k - 1) : NodeAt(seen, j) \notin Fails
    /\ Click(GoTo(k))

ClosePanel == seen.selected # 0 /\ Click([cur EXCEPT !.selected = 0])

(* The selector offers the rows of the run's branches, which may be there  *)
(* before their nodes.                                                     *)
ChooseBranch == \E f \in {All} \cup Branches : Click([cur EXCEPT !.filter = f])

UserStep ==
  \/ Play \/ Pause \/ ClickNext \/ ClickPrev \/ Scrub \/ ClickNode
  \/ JumpToFailure \/ ClosePanel \/ ChooseBranch

-----------------------------------------------------------------------------
(***************************************************************************)
(* The rest of the page.                                                   *)
(***************************************************************************)
Set(new) ==
  /\ due # "sync"
  /\ cur' = new
  /\ due' = "later"
  /\ UNCHANGED <<seen, clicks, overtaken>>

(* The timer fires with the list it closed over, and pauses at failures.   *)
TimerFires ==
  /\ timer # NoTimer
  /\ timer' = NoTimer
  /\ LET n == NodeAt(timer, timer.active + 1)
     IN Set([cur EXCEPT !.active = timer.active + 1, !.selected = n,
                        !.playing = @ /\ n \notin Fails])

(* onRecoveryStarted: the branch filter is cleared.                        *)
ClearFilter == Set([cur EXCEPT !.filter = All]) /\ UNCHANGED timer

(* router.refresh() brings the nodes that have been written since, at      *)
(* their places.                                                           *)
Refresh ==
  \E new \in SUBSET (AllNodes \ cur.shown) \ {{}} :
    Set([cur EXCEPT !.shown = @ \cup new]) /\ UNCHANGED timer

-----------------------------------------------------------------------------
(***************************************************************************)
(* Properties                                                              *)
(***************************************************************************)
AllRendered == due = "none"

\* Whatever clicks, ticks, filters and refreshes have met, once the page is
\* rendered the scrubber stands on the selected node if the list has it.
ScrubberFollowsSelection ==
  (AllRendered /\ IndexOf(seen, seen.selected) # 0) =>
    seen.active = IndexOf(seen, seen.selected)

\* Playback ends, at a failure or at the end of the list, without the user's
\* help.  Excepted is playback that stands still because a click took a tick
\* back before it was rendered: React sees no change, and the effect that arms
\* the timer does not run until something else changes.
PlaybackEnds == cur.playing ~> (~cur.playing \/ overtaken)
=============================================================================
