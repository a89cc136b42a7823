---------------------------- MODULE ReplayProofs ----------------------------
(***************************************************************************)
(* Proofs about the replay of a run: the page (ReplayPage), for any run,   *)
(* checkpoints and files and any number of clicks and refreshes, and then  *)
(* the video of a run (VideoJobs), for any workers, any finite set of jobs *)
(* and any number of nodes and of faults.                                  *)
(***************************************************************************)
EXTENDS ReplayPage, VideoJobs, FiniteSetTheorems, TLAPS

-----------------------------------------------------------------------------
(***************************************************************************)
(* The player: the inductive invariant.  All it sets is aligned with the   *)
(* list that is rendered, and the timer has closed over that list.         *)
(***************************************************************************)

PlayerState == [active : Nat, selected : Nat, filter : {All} \cup Branches,
                playing : BOOLEAN, shown : SUBSET AllNodes]
Closure     == [active : Nat, filter : {All} \cup Branches, shown : SUBSET AllNodes]

PlayerTyped ==
  /\ cur \in PlayerState /\ seen \in PlayerState
  /\ timer \in Closure \cup {NoTimer}

RenderedWhenSettled == due = "none" => cur = seen

TimerOfTheList ==
  timer # NoTimer => timer.filter = seen.filter /\ timer.shown = seen.shown

AlignedWithTheList ==
  IndexOf(seen, cur.selected) # 0 => cur.active = IndexOf(seen, cur.selected)

PlayerInv ==
  PlayerTyped /\ RenderedWhenSettled /\ TimerOfTheList /\ AlignedWithTheList

-----------------------------------------------------------------------------
(***************************************************************************)
(* The panel: the inductive invariant.  The file that is shown and asked   *)
(* for is that of the path that is rendered, while a render is owed too;   *)
(* once effects are owed nothing is claimed, for they reset it all.        *)
(***************************************************************************)

IsRequest(r) ==
  /\ r = [kind |-> r.kind, cp |-> r.cp, arg |-> r.arg, live |-> r.live]
  /\ r.live \in BOOLEAN

PanelTyped ==
  /\ view = [tree |-> view.tree, failed |-> view.failed, path |-> view.path,
             content |-> view.content, loading |-> view.loading]
  /\ \A r \in requests : IsRequest(r)
  /\ screen.owed \in {"nothing", "effects", "render"}
  /\ screen.owed = "nothing" => screen = Rendered

Path      == IF screen.owed = "render" THEN screen.view.path ELSE view.path
ViewKinds == {"tree", "file"}

(* What a request of the view was sent for.                                *)
SentFor(r) == r.cp = Cp(node) /\ (r.kind = "file" => r.arg = Path)

ViewIsOurs ==
  /\ view.tree \in {None, Cp(node)}
  /\ Path # None => view.content \in {NewView.content, <<Cp(node), Path>>}
  /\ (Path # None /\ view.loading) => Request("file", Cp(node), Path) \in requests
  /\ \A r \in requests : r.kind \in ViewKinds => SentFor(r)

PanelInv == PanelTyped /\ (Mounted /\ screen.owed # "effects" => ViewIsOurs)

-----------------------------------------------------------------------------
(***************************************************************************)
(* The player's steps.                                                     *)
(***************************************************************************)

(* Nodes are numbered from 1, and there are finitely many.                 *)
LEMMA NodesAreNumbers ==
  /\ AllNodes \subseteq Nat \ {0}
  /\ \A S : S \subseteq AllNodes => Cardinality(S) \in Nat
<1>1. BranchOf \in Seq(Branches)
  BY RunAssumption
<1>2. Len(BranchOf) \in Nat /\ DOMAIN BranchOf = 1..Len(BranchOf)
  BY <1>1
<1>3. AllNodes = 1..Len(BranchOf)
  BY <1>2 DEF AllNodes
<1>4. IsFiniteSet(AllNodes)
  BY <1>2, <1>3, FS_Interval
<1>5. QED
  BY <1>2, <1>3, <1>4, FS_Subset, FS_CardinalityType

LEMMA ListTyped ==
  ASSUME NEW s, s.shown \subseteq AllNodes
  PROVE  /\ Length(s) \in Nat
         /\ \A n : IndexOf(s, n) \in Nat
         /\ \A k : NodeAt(s, k) \in Nat
         /\ IndexOf(s, 0) = 0
<1>1. Filtered(s) \subseteq AllNodes
  BY DEF Filtered
<1>2. Length(s) \in Nat
  BY <1>1, NodesAreNumbers DEF Length
<1>3. ASSUME NEW n PROVE IndexOf(s, n) \in Nat
  <2>1. {i \in Filtered(s) : i <= n} \subseteq AllNodes
    BY <1>1
  <2>2. Cardinality({i \in Filtered(s) : i <= n}) \in Nat
    BY <2>1, NodesAreNumbers
  <2>3. QED
    BY <2>2 DEF IndexOf
<1>4. ASSUME NEW k PROVE NodeAt(s, k) \in Nat
  <2>1. Filtered(s) \subseteq Nat
    BY <1>1, NodesAreNumbers
  <2>2. QED
    BY <2>1 DEF NodeAt
<1>5. IndexOf(s, 0) = 0
  <2>1. 0 \notin Filtered(s)
    BY <1>1, NodesAreNumbers
  <2>2. QED
    BY <2>1 DEF IndexOf
<1>6. QED
  BY <1>2, <1>3, <1>4, <1>5

(* What is at an index has that index, unless nothing is.                  *)
LEMMA NodeAtItsIndex ==
  ASSUME NEW s, s.shown \subseteq AllNodes, NEW k
  PROVE  IndexOf(s, NodeAt(s, k)) \in {0, k}
<1>1. CASE \E n \in Filtered(s) : IndexOf(s, n) = k
  <2>1. NodeAt(s, k) = CHOOSE n \in Filtered(s) : IndexOf(s, n) = k
    BY <1>1 DEF NodeAt
  <2>2. QED
    BY <1>1, <2>1
<1>2. CASE ~\E n \in Filtered(s) : IndexOf(s, n) = k
  <2>1. NodeAt(s, k) = 0
    BY <1>2 DEF NodeAt
  <2>2. QED
    BY <2>1, ListTyped
<1>3. QED
  BY <1>1, <1>2

(* Lists of the same filter and nodes are the same.                        *)
LEMMA SameList ==
  ASSUME NEW s, NEW t, s.filter = t.filter, s.shown = t.shown
  PROVE  \A n : IndexOf(s, n) = IndexOf(t, n)
<1>1. Filtered(s) = Filtered(t)
  BY DEF Filtered
<1>2. QED
  BY <1>1 DEF IndexOf

LEMMA SetKeeps ==
  ASSUME PlayerInv, NEW new \in PlayerState, cur' = new, due' # "none", seen' = seen,
         timer' \in {timer, NoTimer},
         \/ new.active = cur.active /\ new.selected = cur.selected
         \/ IndexOf(seen, new.selected) # 0 => new.active = IndexOf(seen, new.selected)
  PROVE  PlayerInv'
<1>1. PlayerTyped'
  BY DEF PlayerInv, PlayerTyped
<1>2. RenderedWhenSettled'
  BY DEF RenderedWhenSettled
<1>3. TimerOfTheList'
  BY DEF PlayerInv, TimerOfTheList
<1>4. AlignedWithTheList'
  BY DEF PlayerInv, AlignedWithTheList
<1>5. QED
  BY <1>1, <1>2, <1>3, <1>4 DEF PlayerInv

LEMMA GoToAligned ==
  ASSUME PlayerInv, NEW k \in Nat
  PROVE  /\ GoTo(k) \in PlayerState
         /\ GoTo(k).active = k /\ GoTo(k).selected = NodeAt(seen, k)
         /\ IndexOf(seen, NodeAt(seen, k)) # 0 => k = IndexOf(seen, NodeAt(seen, k))
<1>1. cur \in PlayerState /\ seen \in PlayerState /\ seen.shown \subseteq AllNodes
  BY DEF PlayerInv, PlayerTyped, PlayerState
<1>2. NodeAt(seen, k) \in Nat
  BY <1>1, ListTyped
<1>3. GoTo(k) \in PlayerState /\ GoTo(k).active = k /\ GoTo(k).selected = NodeAt(seen, k)
  BY <1>1, <1>2 DEF GoTo, PlayerState
<1>4. QED
  BY <1>1, <1>3, NodeAtItsIndex

LEMMA UserKeeps ==
  ASSUME PlayerInv, UserStep
  PROVE  PlayerInv'
<1>1. /\ cur \in PlayerState /\ seen \in PlayerState
      /\ seen.active \in Nat /\ Length(seen) \in Nat
  <2>1. cur \in PlayerState /\ seen \in PlayerState
    BY DEF PlayerInv, PlayerTyped
  <2>2. seen.active \in Nat /\ seen.shown \subseteq AllNodes
    BY <2>1 DEF PlayerState
  <2>3. QED
    BY <2>1, <2>2, ListTyped
<1>2. ASSUME NEW new \in PlayerState, Click(new),
             \/ new.active = cur.active /\ new.selected = cur.selected
             \/ IndexOf(seen, new.selected) # 0 => new.active = IndexOf(seen, new.selected)
      PROVE  PlayerInv'
  <2>1. cur' = new /\ due' # "none" /\ seen' = seen /\ timer' = timer
    BY <1>2 DEF Click
  <2>2. QED
    BY <1>2, <2>1, SetKeeps
<1>3. ASSUME NEW k \in Nat, Click(GoTo(k)) PROVE PlayerInv'
  BY <1>2, <1>3, GoToAligned
<1>4. CASE Play
  <2>1. CASE seen.active = 0
    <3>1. PICK to : to = GoTo(1)
      OBVIOUS
    <3>2. /\ to \in PlayerState
          /\ IndexOf(seen, to.selected) # 0 => to.active = IndexOf(seen, to.selected)
      BY <3>1, GoToAligned
    <3>3. Click([to EXCEPT !.playing = TRUE])
      BY <1>4, <2>1, <3>1 DEF Play
    <3>4. /\ [to EXCEPT !.playing = TRUE] \in PlayerState
          /\ [to EXCEPT !.playing = TRUE].active = to.active
          /\ [to EXCEPT !.playing = TRUE].selected = to.selected
      BY <3>2 DEF PlayerState
    <3>5. QED
      BY <1>2, <3>2, <3>3, <3>4
  <2>2. CASE seen.active # 0
    <3>1. Click([cur EXCEPT !.playing = TRUE])
      BY <1>4, <2>2 DEF Play
    <3>2. /\ [cur EXCEPT !.playing = TRUE] \in PlayerState
          /\ [cur EXCEPT !.playing = TRUE].active = cur.active
          /\ [cur EXCEPT !.playing = TRUE].selected = cur.selected
      BY <1>1 DEF PlayerState
    <3>3. QED
      BY <1>2, <3>1, <3>2
  <2>3. QED
    BY <2>1, <2>2
<1>5. CASE Pause
  <2>1. /\ [cur EXCEPT !.playing = FALSE] \in PlayerState
        /\ [cur EXCEPT !.playing = FALSE].active = cur.active
        /\ [cur EXCEPT !.playing = FALSE].selected = cur.selected
    BY <1>1 DEF PlayerState
  <2>2. QED
    BY <1>2, <1>5, <2>1 DEF Pause
<1>6. CASE ClickNext
  <2>1. Min2(seen.active + 1, Length(seen)) \in Nat
    BY <1>1 DEF Min2
  <2>2. QED
    BY <1>3, <1>6, <2>1 DEF ClickNext
<1>7. CASE ClickPrev
  <2>1. Max2(seen.active - 1, 1) \in Nat
    BY <1>1 DEF Max2
  <2>2. QED
    BY <1>3, <1>7, <2>1 DEF ClickPrev
<1>8. CASE Scrub
  <2>1. PICK k \in 0..Length(seen) : Click(GoTo(Max2(1, Min2(k, Length(seen)))))
    BY <1>8 DEF Scrub
  <2>2. Max2(1, Min2(k, Length(seen))) \in Nat
    BY <1>1 DEF Max2, Min2
  <2>3. QED
    BY <1>3, <2>1, <2>2
<1>9. CASE ClickNode \/ JumpToFailure
  <2>1. PICK k \in 1..Length(seen) : Click(GoTo(k))
    BY <1>9 DEF ClickNode, JumpToFailure
  <2>2. QED
    BY <1>1, <1>3, <2>1
<1>10. CASE ClosePanel
  <2>1. /\ [cur EXCEPT !.selected = 0] \in PlayerState
        /\ [cur EXCEPT !.selected = 0].selected = 0
    BY <1>1 DEF PlayerState
  <2>2. IndexOf(seen, 0) = 0
    BY <1>1, ListTyped DEF PlayerState
  <2>3. QED
    BY <1>2, <1>10, <2>1, <2>2 DEF ClosePanel
<1>11. CASE ChooseBranch
  <2>1. PICK f \in {All} \cup Branches : Click([cur EXCEPT !.filter = f])
    BY <1>11 DEF ChooseBranch
  <2>2. /\ [cur EXCEPT !.filter = f].active = cur.active
        /\ [cur EXCEPT !.filter = f].selected = cur.selected
    BY <1>1 DEF PlayerState
  <2>3. [cur EXCEPT !.filter = f] \in PlayerState
    BY <1>1, <2>1 DEF PlayerState
  <2>4. QED
    BY <1>2, <2>1, <2>2, <2>3
<1>12. QED
  BY <1>4, <1>5, <1>6, <1>7, <1>8, <1>9, <1>10, <1>11 DEF UserStep

(* The index is moved to the selected node whenever what decides it has    *)
(* changed; what it is moved in stays as it was.                           *)
LEMMA AlignAligns ==
  ASSUME PlayerInv
  PROVE  /\ Align(cur) \in PlayerState
         /\ Align(cur).selected = cur.selected /\ Align(cur).filter = cur.filter
         /\ Align(cur).shown = cur.shown
         /\ IndexOf(cur, cur.selected) # 0 =>
              Align(cur).active = IndexOf(cur, cur.selected)
<1>1. cur \in PlayerState /\ cur.shown \subseteq AllNodes
  BY DEF PlayerInv, PlayerTyped, PlayerState
<1>2. PICK index : index = IndexOf(cur, cur.selected)
  OBVIOUS
<1>3. index \in Nat
  BY <1>1, <1>2, ListTyped
<1>4. CASE Align(cur) = cur /\ index # 0 /\ cur.active # index
  <2>1. <<cur.selected, cur.filter, cur.shown>>
          = <<seen.selected, seen.filter, seen.shown>>
    <3>1. [cur EXCEPT !.active = index].active = index
      BY <1>1 DEF PlayerState
    <3>2. QED
      BY <1>2, <1>4, <3>1 DEF Align
  <2>2. IndexOf(seen, cur.selected) = index
    BY <1>2, <2>1, SameList
  <2>3. QED
    BY <1>4, <2>2 DEF PlayerInv, AlignedWithTheList
<1>5. CASE Align(cur) = cur /\ (index = 0 \/ cur.active = index)
  BY <1>1, <1>2, <1>5
<1>6. CASE Align(cur) = [cur EXCEPT !.active = index] /\ index # 0
  BY <1>1, <1>2, <1>3, <1>6 DEF PlayerState
<1>7. Align(cur) = cur \/ (Align(cur) = [cur EXCEPT !.active = index] /\ index # 0)
  BY <1>2 DEF Align
<1>8. QED
  BY <1>4, <1>5, <1>6, <1>7

LEMMA RenderKeeps ==
  ASSUME PlayerInv, Render
  PROVE  PlayerInv'
<1>1. cur \in PlayerState /\ seen \in PlayerState
  BY DEF PlayerInv, PlayerTyped
<1>2. PICK new : new = Align(cur)
  OBVIOUS
<1>3. /\ new \in PlayerState /\ new.selected = cur.selected
      /\ new.filter = cur.filter /\ new.shown = cur.shown
      /\ IndexOf(cur, cur.selected) # 0 => new.active = IndexOf(cur, cur.selected)
  BY <1>2, AlignAligns
<1>4. seen' = cur /\ (due' = "none" => cur' = cur)
  BY DEF Render
<1>5. /\ cur' \in PlayerState /\ cur'.selected = cur.selected
      /\ cur'.active = new.active
  <2>1. cur' \in {new, [new EXCEPT !.playing = FALSE]}
    BY <1>2 DEF Render, Playback
  <2>2. QED
    BY <1>3, <2>1 DEF PlayerState
<1>6. /\ timer' \in Closure \cup {NoTimer}
      /\ timer' # NoTimer => timer'.filter = cur.filter /\ timer'.shown = cur.shown
  <2>1. CASE PlaybackRuns(cur)
    <3>1. timer' \in {NoTimer, [active |-> cur.active, filter |-> cur.filter,
                                shown |-> cur.shown]}
      BY <2>1 DEF Render, Playback
    <3>2. timer' \in Closure \cup {NoTimer}
      BY <1>1, <3>1 DEF Closure, PlayerState
    <3>3. timer' # NoTimer => timer'.filter = cur.filter /\ timer'.shown = cur.shown
      BY <3>1
    <3>4. QED
      BY <3>2, <3>3
  <2>2. CASE ~PlaybackRuns(cur)
    <3>1. timer' = timer /\ cur.filter = seen.filter /\ cur.shown = seen.shown
      BY <2>2 DEF Render, PlaybackRuns
    <3>2. QED
      BY <3>1 DEF PlayerInv, PlayerTyped, TimerOfTheList
  <2>3. QED
    BY <2>1, <2>2
<1>7. PlayerTyped'
  BY <1>1, <1>4, <1>5, <1>6 DEF PlayerTyped
<1>8. RenderedWhenSettled'
  BY <1>4 DEF RenderedWhenSettled
<1>9. TimerOfTheList'
  BY <1>4, <1>6 DEF TimerOfTheList
<1>10. AlignedWithTheList'
  BY <1>3, <1>4, <1>5 DEF AlignedWithTheList
<1>11. QED
  BY <1>7, <1>8, <1>9, <1>10 DEF PlayerInv

LEMMA TickKeeps ==
  ASSUME PlayerInv, TimerFires
  PROVE  PlayerInv'
<1>1. /\ cur \in PlayerState /\ timer \in Closure /\ timer.active \in Nat
      /\ timer.shown \subseteq AllNodes
      /\ timer.filter = seen.filter /\ timer.shown = seen.shown
  BY DEF PlayerInv, PlayerTyped, TimerOfTheList, TimerFires, Closure
<1>2. PICK k : k = timer.active + 1
  OBVIOUS
<1>3. PICK n : n = NodeAt(timer, k)
  OBVIOUS
<1>4. k \in Nat /\ n \in Nat
  BY <1>1, <1>2, <1>3, ListTyped
<1>5. IndexOf(seen, n) \in {0, k}
  BY <1>1, <1>3, NodeAtItsIndex, SameList
<1>6. PICK new : new = [cur EXCEPT !.active = k, !.selected = n,
                                   !.playing = @ /\ n \notin Fails]
  OBVIOUS
<1>7. new \in PlayerState /\ new.active = k /\ new.selected = n
  BY <1>1, <1>4, <1>6 DEF PlayerState
<1>8. cur' = new /\ due' # "none" /\ seen' = seen /\ timer' = NoTimer
  BY <1>2, <1>3, <1>6 DEF TimerFires, Set
<1>9. QED
  BY <1>5, <1>7, <1>8, SetKeeps

LEMMA ClearFilterKeeps ==
  ASSUME PlayerInv, ClearFilter
  PROVE  PlayerInv'
<1>1. PICK new : new = [cur EXCEPT !.filter = All]
  OBVIOUS
<1>2. new \in PlayerState /\ new.active = cur.active /\ new.selected = cur.selected
  BY <1>1 DEF PlayerInv, PlayerTyped, PlayerState
<1>3. cur' = new /\ due' # "none" /\ seen' = seen /\ timer' = timer
  BY <1>1 DEF ClearFilter, Set
<1>4. QED
  BY <1>2, <1>3, SetKeeps

LEMMA RefreshKeeps ==
  ASSUME PlayerInv, Refresh
  PROVE  PlayerInv'
<1>1. PICK more \in SUBSET (AllNodes \ cur.shown) \ {{}} :
        Set([cur EXCEPT !.shown = @ \cup more]) /\ UNCHANGED timer
  BY DEF Refresh
<1>2. PICK new : new = [cur EXCEPT !.shown = @ \cup more]
  OBVIOUS
<1>3. cur \in PlayerState /\ cur.shown \cup more \subseteq AllNodes
  BY <1>1 DEF PlayerInv, PlayerTyped, PlayerState
<1>4. new \in PlayerState /\ new.active = cur.active /\ new.selected = cur.selected
  BY <1>2, <1>3 DEF PlayerState
<1>5. cur' = new /\ due' # "none" /\ seen' = seen /\ timer' = timer
  BY <1>1, <1>2 DEF Set
<1>6. QED
  BY <1>4, <1>5, SetKeeps

LEMMA PlayerStays ==
  ASSUME PlayerInv, cur' = cur, seen' = seen, timer' = timer, due' = "none" => due = "none"
  PROVE  PlayerInv'
BY DEF PlayerInv, PlayerTyped, RenderedWhenSettled, TimerOfTheList,
       AlignedWithTheList

LEMMA PlayerInvHolds == Spec => []PlayerInv
<1>1. Init => PlayerInv
  <2>1. SUFFICES ASSUME Init PROVE PlayerInv
    OBVIOUS
  <2>2. cur \in PlayerState /\ seen = cur /\ cur.selected = 0
    BY <2>1, RunAssumption DEF Init, PlayerInit, PlayerState
  <2>3. IndexOf(seen, cur.selected) = 0
    BY <2>2, ListTyped DEF PlayerState
  <2>4. timer = NoTimer
    BY <2>1 DEF Init, PlayerInit
  <2>5. PlayerTyped /\ RenderedWhenSettled
    BY <2>2, <2>4 DEF PlayerTyped, RenderedWhenSettled
  <2>6. TimerOfTheList /\ AlignedWithTheList
    BY <2>3, <2>4 DEF TimerOfTheList, AlignedWithTheList
  <2>7. QED
    BY <2>5, <2>6 DEF PlayerInv
<1>2. PlayerInv /\ [Next]_vars => PlayerInv'
  <2>1. SUFFICES ASSUME PlayerInv, [Next]_vars PROVE PlayerInv'
    OBVIOUS
  <2>2. CASE PageRenders
    BY <2>1, <2>2, RenderKeeps DEF PageRenders
  <2>3. CASE PlayerClicked
    BY <2>1, <2>3, UserKeeps DEF PlayerClicked
  <2>4. CASE Ticks
    BY <2>1, <2>4, TickKeeps DEF Ticks
  <2>5. CASE PanelClicked
    BY <2>1, <2>5, PlayerStays DEF PanelClicked
  <2>6. CASE PanelAnswered \/ PanelRenders
    BY <2>1, <2>6, PlayerStays DEF PanelAnswered, PanelRenders, player
  <2>7. CASE RecoveryAnswered
    BY <2>1, <2>7, ClearFilterKeeps DEF RecoveryAnswered
  <2>8. CASE Refreshed
    BY <2>1, <2>8, RefreshKeeps, PlayerStays DEF Refreshed, player
  <2>9. CASE UNCHANGED vars
    BY <2>1, <2>9, PlayerStays DEF vars, player
  <2>10. QED
    BY <2>1, <2>2, <2>3, <2>4, <2>5, <2>6, <2>7, <2>8, <2>9 DEF Next
<1>3. QED
  BY <1>1, <1>2, PTL DEF Spec

(* Once the page is rendered the scrubber stands on the selected node: the *)
(* effect of ReplayPlayer.tsx that keeps the index aligned is enough, for  *)
(* any run and whatever clicks, ticks, filters and refreshes have met.     *)
THEOREM ScrubberFollows == Spec => []ScrubberFollowsSelection
<1>1. PlayerInv => ScrubberFollowsSelection
  BY DEF PlayerInv, RenderedWhenSettled, AlignedWithTheList,
         ScrubberFollowsSelection, AllRendered
<1>2. QED
  BY <1>1, PlayerInvHolds, PTL

-----------------------------------------------------------------------------
(***************************************************************************)
(* The panel's steps.                                                      *)
(***************************************************************************)

(* Requests that have those of the view in common with the ones under way. *)
OfThePanel(rs) ==
  /\ \A r \in rs : IsRequest(r)
  /\ \A r \in rs \cup requests : r.kind \in ViewKinds => r \in requests \cap rs

LEMMA RequestTyped ==
  ASSUME NEW k, NEW cp, NEW a
  PROVE  LET r == Request(k, cp, a)
         IN IsRequest(r) /\ r.kind = k /\ r.cp = cp /\ r.arg = a
BY DEF Request, IsRequest

LEMMA NothingOwed == Rendered.owed = "nothing"
BY DEF Rendered, NewView, NewModal

LEMMA FileRequestTyped ==
  ASSUME NEW cp, NEW p
  PROVE  /\ \A r \in FileRequest(cp, p) :
              IsRequest(r) /\ r.kind = "file" /\ r.cp = cp /\ r.arg = p /\ p # None
         /\ p # None => Request("file", cp, p) \in FileRequest(cp, p)
<1>1. FileRequest(cp, p) \subseteq {Request("file", cp, p)}
  BY DEF FileRequest
<1>2. p = None => FileRequest(cp, p) = {}
  BY DEF FileRequest
<1>3. p # None => FileRequest(cp, p) = {Request("file", cp, p)}
  BY DEF FileRequest
<1>4. QED
  BY <1>1, <1>2, <1>3, RequestTyped

LEMMA OthersCancelled ==
  ASSUME NEW rs, OfThePanel(rs), NEW kinds, kinds \cap ViewKinds = {}
  PROVE  OfThePanel(Cancelled(kinds, rs))
BY DEF OfThePanel, Cancelled

(* A panel that goes leaves the requests of the view as they are.          *)
LEMMA OrphanedKeeps ==
  ASSUME NEW rs, OfThePanel(rs)
  PROVE  OfThePanel(Orphaned(rs))
<1>1. ASSUME NEW r \in rs, NEW q, q = [r EXCEPT !.live = @ /\ r.kind # "recover"]
      PROVE  /\ IsRequest(q) /\ q.kind = r.kind
             /\ r.kind # "recover" => q = r
  <2>1. PICK l : l = (r.live /\ r.kind # "recover")
    OBVIOUS
  <2>2. r = [kind |-> r.kind, cp |-> r.cp, arg |-> r.arg, live |-> r.live]
    BY DEF OfThePanel, IsRequest
  <2>3. q = [kind |-> r.kind, cp |-> r.cp, arg |-> r.arg, live |-> l]
    BY <1>1, <2>1, <2>2
  <2>4. r.live \in BOOLEAN /\ l \in BOOLEAN
    BY <2>1 DEF OfThePanel, IsRequest
  <2>5. q.live = l /\ q.kind = r.kind /\ q.cp = r.cp /\ q.arg = r.arg
    BY <2>3
  <2>6. IsRequest(q)
    BY <2>3, <2>4, <2>5 DEF IsRequest
  <2>7. r.kind # "recover" => l = r.live
    BY <2>1, <2>4
  <2>8. r.kind # "recover" => q = r
    BY <2>2, <2>3, <2>7
  <2>9. QED
    BY <2>5, <2>6, <2>8
<1>2. PICK qs : qs = Orphaned(rs)
  OBVIOUS
<1>3. ASSUME NEW q \in qs
      PROVE  \E r \in rs : /\ IsRequest(q) /\ q.kind = r.kind
                           /\ r.kind # "recover" => q = r
  <2>1. PICK r \in rs : q = [r EXCEPT !.live = @ /\ r.kind # "recover"]
    BY <1>2 DEF Orphaned
  <2>2. QED
    BY <1>1, <2>1
<1>4. ASSUME NEW r \in rs, r.kind # "recover" PROVE r \in qs
  <2>1. PICK q : q = [r EXCEPT !.live = @ /\ r.kind # "recover"]
    OBVIOUS
  <2>2. q \in qs
    BY <1>2, <2>1 DEF Orphaned
  <2>3. QED
    BY <1>1, <1>4, <2>1, <2>2
<1>5. OfThePanel(qs)
  BY <1>3, <1>4 DEF OfThePanel, ViewKinds
<1>6. QED
  BY <1>2, <1>5

(* The effects ask for the tree and for the file of the path that is       *)
(* rendered, and cancel what was asked for before.                         *)
LEMMA EffectsKeep ==
  ASSUME NEW cp, NEW v, NEW m, NEW rs, Effects(cp, v, m, rs),
         Cp(node)' = cp, \A r \in rs : IsRequest(r)
  PROVE  PanelInv'
<1>1. PICK l : /\ view' = [NewView EXCEPT !.loading = l]
               /\ l = (v.loading \/ v.path # None)
  BY DEF Effects
<1>2. view' = [tree |-> None, failed |-> FALSE, path |-> None,
               content |-> <<None, None>>, loading |-> l]
  BY <1>1 DEF NewView
<1>3. screen' = [owed |-> "render", view |-> v, modal |-> m]
  BY DEF Effects
<1>4. screen'.owed = "render" /\ Path' = v.path
  BY <1>3 DEF Path
<1>5. PICK file : file = FileRequest(cp, v.path)
  OBVIOUS
<1>6. /\ \A r \in file : IsRequest(r) /\ r.kind = "file" /\ r.cp = cp /\ r.arg = v.path
      /\ v.path # None => Request("file", cp, v.path) \in file
  BY <1>5, FileRequestTyped
<1>7. PICK tree : tree = Request("tree", cp, None)
  OBVIOUS
<1>8. PICK diff : diff = Request("diff", cp, None)
  OBVIOUS
<1>9. /\ IsRequest(tree) /\ tree.kind = "tree" /\ tree.cp = cp
      /\ IsRequest(diff) /\ diff.kind = "diff"
  BY <1>7, <1>8, RequestTyped
<1>10. ASSUME NEW r \in requests'
       PROVE  r \in {tree, diff} \cup file \/ (r \in rs /\ r.kind \notin ViewKinds)
  BY <1>5, <1>7, <1>8 DEF Effects, TreeRequest, DiffRequest, Cancelled, ViewKinds
<1>11. file \subseteq requests'
  BY <1>5 DEF Effects
<1>12. PanelTyped'
  BY <1>2, <1>4, <1>6, <1>9, <1>10 DEF PanelTyped
<1>13. ViewIsOurs'
  <2>1. view'.tree = None /\ view'.content = NewView.content
    BY <1>2 DEF NewView
  <2>2. Path' # None => Request("file", Cp(node)', Path') \in requests'
    BY <1>4, <1>6, <1>11
  <2>3. \A r \in requests' : r.kind \in ViewKinds => SentFor(r)'
    BY <1>4, <1>6, <1>9, <1>10 DEF SentFor, ViewKinds
  <2>4. QED
    BY <2>1, <2>2, <2>3 DEF ViewIsOurs, Request, NewView
<1>14. QED
  BY <1>12, <1>13 DEF PanelInv

(* Nothing the view shows has changed, nor the files it waits for.         *)
LEMMA SameViewKeeps ==
  ASSUME PanelInv, NEW rs, requests' = rs, OfThePanel(rs),
         view' = view, screen' = screen, Mounted' <=> Mounted, Cp(node)' = Cp(node)
  PROVE  PanelInv'
<1>1. PanelTyped'
  BY DEF PanelInv, PanelTyped, OfThePanel, Rendered, NewView, NewModal
<1>2. Path' = Path
  BY DEF Path
<1>3. ASSUME Mounted, screen.owed # "effects" PROVE ViewIsOurs'
  <2>1. ViewIsOurs
    BY <1>3 DEF PanelInv
  <2>2. PICK r : r = Request("file", Cp(node), Path)
    OBVIOUS
  <2>3. r \in requests => r \in rs
    BY <2>2, RequestTyped DEF OfThePanel, ViewKinds
  <2>4. (Path # None /\ view.loading) => Request("file", Cp(node)', Path') \in rs
    BY <1>2, <2>1, <2>2, <2>3 DEF ViewIsOurs
  <2>5. \A q \in rs : q.kind \in ViewKinds => SentFor(q)'
    BY <1>2, <2>1 DEF ViewIsOurs, OfThePanel, SentFor
  <2>6. QED
    BY <1>2, <2>1, <2>4, <2>5 DEF ViewIsOurs, Request, NewView
<1>4. QED
  BY <1>1, <1>3 DEF PanelInv

LEMMA RemountKeeps ==
  ASSUME PanelInv, NEW n, NEW t, NEW c, NEW sync, NEW rs0, OfThePanel(rs0),
         Remount(n, t, c, sync, rs0)
  PROVE  PanelInv'
<1>1. PICK rs \in {rs0, Orphaned(rs0)} :
        IF ~OnCodebase(n, t, c)
        THEN /\ view' = NewView /\ modal' = NewModal /\ screen' = Rendered
             /\ requests' = Cancelled(CodebaseKinds, rs)
        ELSE IF ~Mounted
        THEN /\ view' = NewView /\ modal' = NewModal /\ screen' = Rendered
             /\ requests' = Cancelled(CodebaseKinds, rs) \cup TreeRequest(Cp(n))
        ELSE IF Cp(n) = Cp(node)
        THEN UNCHANGED <<view, modal, screen>> /\ requests' = rs
        ELSE IF sync
        THEN Effects(Cp(n), view, modal, rs) /\ UNCHANGED modal
        ELSE /\ screen' = [owed |-> "effects", view |-> view, modal |-> modal]
             /\ UNCHANGED <<view, modal>> /\ requests' = rs
  BY Zenon DEF Remount
<1>2. OfThePanel(rs)
  <2>1. OfThePanel(Orphaned(rs0))
    BY OrphanedKeeps
  <2>2. QED
    BY <1>1, <2>1
<1>3. \A r \in rs : IsRequest(r)
  BY <1>2 DEF OfThePanel
<1>4. node' = n /\ tab' = t /\ changes' = c
  BY DEF Remount
<1>5. (Mounted' <=> OnCodebase(n, t, c)) /\ Cp(node)' = Cp(n)
  BY <1>4 DEF Mounted, Cp
<1>6. CASE ~OnCodebase(n, t, c) \/ ~Mounted
  <2>1. PICK qs : qs = Cancelled(CodebaseKinds, rs)
    OBVIOUS
  <2>2. PICK tree : tree = Request("tree", Cp(n), None)
    OBVIOUS
  <2>3. IsRequest(tree) /\ tree.kind = "tree" /\ tree.cp = Cp(n)
    BY <2>2, RequestTyped
  <2>4. /\ view' = NewView /\ screen' = Rendered
        /\ \A r \in requests' : r \in qs \/ r = tree
    BY <1>1, <1>6, <2>1, <2>2 DEF TreeRequest
  <2>5. \A q \in qs : q \in rs /\ q.kind \notin ViewKinds
    BY <2>1 DEF Cancelled, CodebaseKinds, ViewKinds
  <2>6. PanelTyped'
    BY <1>3, <2>3, <2>4, <2>5, NothingOwed DEF PanelTyped, NewView
  <2>7. /\ view'.tree = None /\ view'.content = NewView.content
        /\ Path' = None
    BY <2>4, NothingOwed DEF NewView, Path
  <2>8. \A r \in requests' : r.kind \in ViewKinds => SentFor(r)'
    BY <1>5, <2>3, <2>4, <2>5 DEF SentFor
  <2>9. ViewIsOurs'
    BY <2>7, <2>8 DEF ViewIsOurs
  <2>10. QED
    BY <2>6, <2>9 DEF PanelInv
<1>7. CASE OnCodebase(n, t, c) /\ Mounted /\ Cp(n) = Cp(node)
  <2>1. view' = view /\ screen' = screen /\ requests' = rs
    BY <1>1, <1>7
  <2>2. QED
    BY <1>2, <1>5, <1>7, <2>1, SameViewKeeps
<1>8. CASE OnCodebase(n, t, c) /\ Mounted /\ Cp(n) # Cp(node)
  <2>1. CASE sync
    <3>1. Effects(Cp(n), view, modal, rs)
      BY <1>1, <1>8, <2>1
    <3>2. QED
      BY <1>3, <1>5, <3>1, EffectsKeep
  <2>2. CASE ~sync
    <3>1. /\ screen' = [owed |-> "effects", view |-> view, modal |-> modal]
          /\ view' = view /\ requests' = rs
      BY <1>1, <1>8, <2>2
    <3>2. screen'.owed = "effects"
      BY <3>1
    <3>3. PanelTyped'
      BY <1>3, <3>1, <3>2 DEF PanelInv, PanelTyped
    <3>4. QED
      BY <3>2, <3>3 DEF PanelInv
  <2>3. QED
    BY <2>1, <2>2
<1>9. QED
  BY <1>6, <1>7, <1>8

LEMMA OursAreOfThePanel ==
  ASSUME PanelInv
  PROVE  OfThePanel(requests)
BY DEF PanelInv, PanelTyped, OfThePanel

LEMMA ShowKeeps ==
  ASSUME PanelInv, NEW n, NEW sync, Show(n, sync)
  PROVE  PanelInv'
<1>1. OfThePanel(requests)
  BY OursAreOfThePanel
<1>2. PICK rs : rs = Cancelled({"changes"}, requests)
  OBVIOUS
<1>3. OfThePanel(rs)
  <2>1. {"changes"} \cap ViewKinds = {}
    BY DEF ViewKinds
  <2>2. QED
    BY <1>1, <1>2, <2>1, OthersCancelled
<1>4. PICK new : new = Request("changes", Cp(n), None)
  OBVIOUS
<1>5. OfThePanel(rs \cup {new})
  <2>1. IsRequest(new) /\ new.kind = "changes"
    BY <1>4, RequestTyped
  <2>2. QED
    BY <1>3, <2>1 DEF OfThePanel, ViewKinds
<1>6. \E t, c : \E rs0 \in {requests, rs, rs \cup {new}} : Remount(n, t, c, sync, rs0)
  BY <1>2, <1>4 DEF Show
<1>7. PICK t, c, rs0 : OfThePanel(rs0) /\ Remount(n, t, c, sync, rs0)
  BY <1>1, <1>3, <1>5, <1>6
<1>8. QED
  BY <1>7, RemountKeeps

(* A new path resets the file that is shown, cancels what was asked for    *)
(* and asks for the file, which all that is shown then is settled on.      *)
LEMMA NewPathKeeps ==
  ASSUME PanelTyped, Mounted /\ screen.owed # "effects" => ViewIsOurs,
         NEW p, NEW tree \in {view.tree, Cp(node)}, NEW old,
         view' = [view EXCEPT !.tree = tree, !.path = p, !.content = NewView.content,
                              !.loading = TRUE],
         old \subseteq requests,
         \A r \in old : r.kind # "file",
         \A r \in requests' : r \in old \cup FileRequest(Cp(node), p)
                              \/ (IsRequest(r) /\ r.kind = "diff"),
         FileRequest(Cp(node), p) \subseteq requests',
         screen' = Rendered, screen.owed # "effects", Mounted' <=> Mounted, Cp(node)' = Cp(node)
  PROVE  PanelInv'
<1>1. PICK file : file = FileRequest(Cp(node), p)
  OBVIOUS
<1>2. /\ \A r \in file : IsRequest(r) /\ r.kind = "file" /\ r.cp = Cp(node) /\ r.arg = p
      /\ p # None => Request("file", Cp(node), p) \in file
  BY <1>1, FileRequestTyped
<1>3. /\ view' = [tree |-> tree, failed |-> view.failed, path |-> p,
                  content |-> NewView.content, loading |-> TRUE]
      /\ \A r \in requests : IsRequest(r)
  BY DEF PanelTyped
<1>4. Path' = p /\ screen'.owed = "nothing"
  BY <1>3, NothingOwed DEF Path
<1>5. PanelTyped'
  <2>1. \A r \in requests' : IsRequest(r)
    BY <1>1, <1>2, <1>3
  <2>2. QED
    BY <1>3, <1>4, <2>1 DEF PanelTyped, Rendered
<1>6. ASSUME Mounted PROVE ViewIsOurs'
  <2>1. ViewIsOurs
    BY <1>6
  <2>2. view'.tree \in {None, Cp(node)'} /\ view'.content = NewView.content
    BY <1>3, <2>1 DEF ViewIsOurs
  <2>3. Path' # None => Request("file", Cp(node)', Path') \in requests'
    BY <1>1, <1>2, <1>4
  <2>4. ASSUME NEW r \in requests', r.kind \in ViewKinds PROVE SentFor(r)'
    <3>1. CASE r \in file
      BY <1>2, <1>4, <3>1 DEF SentFor
    <3>2. CASE r \in old
      BY <1>4, <2>1, <2>4, <3>2 DEF ViewIsOurs, SentFor
    <3>3. QED
      BY <1>1, <2>4, <3>1, <3>2 DEF ViewKinds
  <2>5. QED
    BY <2>2, <2>3, <2>4 DEF ViewIsOurs, Request, NewView
<1>7. QED
  BY <1>5, <1>6 DEF PanelInv

(* The path that is rendered stays, and so does the file; a tree of the    *)
(* checkpoint may have come, and another path been chosen for the render.  *)
LEMMA SamePathKeeps ==
  ASSUME PanelInv, NEW new, view' = new,
         new = [tree |-> new.tree, failed |-> new.failed, path |-> new.path,
                content |-> new.content, loading |-> new.loading],
         Mounted => new.tree \in {view.tree, Cp(node)},
         new.content = view.content, new.loading = view.loading,
         NEW rs, requests' = rs, \A r \in rs : IsRequest(r),
         \A r \in requests : r.kind = "file" => r \in rs,
         \A r \in rs : r.kind \in ViewKinds => r \in requests,
         screen'.owed \in {"nothing", "effects", "render"},
         screen'.owed = "nothing" => screen' = Rendered,
         screen.owed = "effects" => screen'.owed = "effects",
         Path' = Path, Mounted' <=> Mounted, Cp(node)' = Cp(node)
  PROVE  PanelInv'
<1>1. PanelTyped'
  BY DEF PanelTyped
<1>2. ASSUME Mounted, screen.owed # "effects" PROVE ViewIsOurs'
  <2>1. ViewIsOurs
    BY <1>2 DEF PanelInv
  <2>2. view'.tree \in {None, Cp(node)'}
    BY <1>2, <2>1 DEF ViewIsOurs
  <2>3. Path' # None => view'.content \in {NewView.content, <<Cp(node)', Path'>>}
    BY <2>1 DEF ViewIsOurs
  <2>4. PICK r : r = Request("file", Cp(node), Path)
    OBVIOUS
  <2>5. r \in requests => r \in rs
    BY <2>4, RequestTyped
  <2>6. (Path # None /\ view.loading) => Request("file", Cp(node)', Path') \in rs
    BY <2>1, <2>4, <2>5 DEF ViewIsOurs
  <2>7. \A q \in rs : q.kind \in ViewKinds => SentFor(q)'
    BY <2>1 DEF ViewIsOurs, SentFor
  <2>8. QED
    BY <2>2, <2>3, <2>6, <2>7 DEF ViewIsOurs, Request, NewView
<1>3. QED
  BY <1>1, <1>2 DEF PanelInv

LEMMA RerenderKeeps ==
  ASSUME PanelInv, Rerender
  PROVE  PanelInv'
<1>1. PICK is, was, gone :
        /\ {"file"} \cap gone = (IF view.path # screen.view.path THEN {"file"} ELSE {})
        /\ "tree" \notin gone
        /\ view' = IF view.path # screen.view.path /\ view.path # None
                   THEN [view EXCEPT !.content = NewView.content, !.loading = TRUE] ELSE view
        /\ requests' = Cancelled(gone, requests)
             \cup (IF is /\ ~was THEN DiffRequest(Cp(node)) ELSE {})
             \cup (IF view.path # screen.view.path THEN FileRequest(Cp(node), view.path)
                   ELSE {})
  <2>1. PICK gone : gone =
              (IF WithModal(screen.view, screen.modal) /\ ~WithModal(view, modal)
               THEN {"diff", "restore"} ELSE {})
              \cup (IF view.path # screen.view.path THEN {"file"} ELSE {})
    OBVIOUS
  <2>2. /\ {"file"} \cap gone = (IF view.path # screen.view.path THEN {"file"} ELSE {})
        /\ "tree" \notin gone
    BY <2>1
  <2>3. requests' = Cancelled(gone, requests)
             \cup (IF WithModal(view, modal) /\ ~WithModal(screen.view, screen.modal)
                   THEN DiffRequest(Cp(node)) ELSE {})
             \cup (IF view.path # screen.view.path THEN FileRequest(Cp(node), view.path)
                   ELSE {})
    BY <2>1 DEF Rerender
  <2>4. view' = IF view.path # screen.view.path /\ view.path # None
                THEN [view EXCEPT !.content = NewView.content, !.loading = TRUE] ELSE view
    BY DEF Rerender
  <2>5. QED
    BY <2>2, <2>3, <2>4
<1>2. /\ screen.owed = "render" /\ screen' = Rendered
      /\ node' = node /\ tab' = tab /\ changes' = changes
  BY Zenon DEF Rerender
<1>3. (Mounted' <=> Mounted) /\ Cp(node)' = Cp(node)
  BY <1>2 DEF Mounted, Cp
<1>4. PICK diff : diff = Request("diff", Cp(node), None)
  OBVIOUS
<1>5. IsRequest(diff) /\ diff.kind = "diff"
  BY <1>4, RequestTyped
<1>6. PICK old : old = Cancelled(gone, requests)
  OBVIOUS
<1>7. /\ old \subseteq requests
      /\ \A r \in old : r.kind \notin gone
      /\ \A r \in requests : r.kind \notin gone => r \in old
  BY <1>6 DEF Cancelled
<1>8. /\ Path = screen.view.path /\ screen'.owed = "nothing" /\ Path' = view'.path
  BY <1>2, NothingOwed DEF Path
<1>9. CASE view.path = screen.view.path
  <2>1. /\ view' = view /\ \A r \in requests' : r \in old \/ r = diff
        /\ old \subseteq requests'
    BY <1>1, <1>4, <1>6, <1>9 DEF DiffRequest
  <2>2. "file" \notin gone
    BY <1>1, <1>9
  <2>3. PICK rs : rs = requests'
    OBVIOUS
  <2>4. /\ \A r \in rs : IsRequest(r)
        /\ \A r \in requests : r.kind = "file" => r \in rs
        /\ \A r \in rs : r.kind \in ViewKinds => r \in requests
    BY <1>5, <1>7, <2>1, <2>2, <2>3 DEF PanelInv, PanelTyped, ViewKinds
  <2>5. PICK new : new = view
    OBVIOUS
  <2>6. new = [tree |-> new.tree, failed |-> new.failed, path |-> new.path,
               content |-> new.content, loading |-> new.loading]
    BY <2>5 DEF PanelInv, PanelTyped
  <2>7. Path' = Path
    BY <1>8, <1>9, <2>1
  <2>8. QED
    BY <1>2, <1>3, <1>8, <2>1, <2>3, <2>4, <2>5, <2>6, <2>7, SamePathKeeps
<1>10. CASE view.path # screen.view.path
  <2>1. PICK p : p = view.path
    OBVIOUS
  <2>2. PICK file : file = FileRequest(Cp(node), p)
    OBVIOUS
  <2>3. /\ \A r \in requests' : r \in old \cup file \/ r = diff
        /\ file \subseteq requests'
    BY <1>1, <1>4, <1>6, <1>10, <2>1, <2>2 DEF DiffRequest
  <2>4. \A r \in old : r.kind # "file"
    BY <1>1, <1>7, <1>10
  <2>5. CASE p # None
    <3>1. PICK tree : tree = view.tree
      OBVIOUS
    <3>2. view' = [view EXCEPT !.content = NewView.content, !.loading = TRUE]
      BY <1>1, <1>10, <2>1, <2>5
    <3>3. view' = [view EXCEPT !.tree = tree, !.path = p, !.content = NewView.content,
                               !.loading = TRUE]
      BY <2>1, <3>1, <3>2 DEF PanelInv, PanelTyped
    <3>4. QED
      BY <1>2, <1>3, <1>5, <1>7, <2>2, <2>3, <2>4, <3>1, <3>3, NewPathKeeps DEF PanelInv
  <2>6. CASE p = None
    <3>1. view' = view /\ Path' = None
      BY <1>1, <1>8, <2>1, <2>6
    <3>2. \A r \in file : FALSE
      BY <2>2, <2>6, FileRequestTyped
    <3>3. PanelTyped'
      BY <1>2, <1>5, <1>7, <1>8, <2>3, <3>1, <3>2 DEF PanelInv, PanelTyped
    <3>4. ASSUME Mounted PROVE ViewIsOurs'
      <4>1. ViewIsOurs
        BY <1>2, <3>4 DEF PanelInv
      <4>2. \A r \in requests' : r.kind \in ViewKinds => SentFor(r)'
        BY <1>3, <1>5, <1>7, <2>3, <2>4, <3>2, <4>1
        DEF ViewIsOurs, SentFor, ViewKinds
      <4>3. view'.tree \in {None, Cp(node)'}
        BY <1>3, <3>1, <4>1 DEF ViewIsOurs
      <4>4. QED
        BY <3>1, <4>2, <4>3 DEF ViewIsOurs
    <3>5. QED
      BY <1>3, <3>3, <3>4 DEF PanelInv
  <2>7. QED
    BY <2>5, <2>6
<1>11. QED
  BY <1>9, <1>10

LEMMA SelectFileKeeps ==
  ASSUME PanelInv, SelectFile
  PROVE  PanelInv'
<1>1. PICK p :
        IF screen = Rendered
        THEN /\ view' = [view EXCEPT !.path = p, !.content = NewView.content,
                                     !.loading = TRUE]
             /\ requests' = Cancelled({"file"}, requests) \cup FileRequest(Cp(node), p)
        ELSE /\ view' = IF screen.owed = "render" THEN [view EXCEPT !.path = p] ELSE view
             /\ UNCHANGED requests
  BY Zenon DEF SelectFile
<1>2. /\ screen' = screen /\ (Mounted' <=> Mounted) /\ Cp(node)' = Cp(node)
  BY DEF SelectFile, Mounted, Cp
<1>3. CASE screen = Rendered
  <2>1. PICK old : old = Cancelled({"file"}, requests)
    OBVIOUS
  <2>2. /\ old \subseteq requests /\ \A r \in old : r.kind # "file"
    BY <2>1 DEF Cancelled
  <2>3. requests' = old \cup FileRequest(Cp(node), p)
    BY <1>1, <1>3, <2>1
  <2>4. PICK tree : tree = view.tree
    OBVIOUS
  <2>5. view' = [view EXCEPT !.tree = tree, !.path = p, !.content = NewView.content,
                             !.loading = TRUE]
    <3>1. view' = [view EXCEPT !.path = p, !.content = NewView.content,
                               !.loading = TRUE]
      BY <1>1, <1>3
    <3>2. QED
      BY <2>4, <3>1 DEF PanelInv, PanelTyped
  <2>6. screen' = Rendered /\ screen.owed # "effects"
    BY <1>2, <1>3, NothingOwed
  <2>7. QED
    BY <1>2, <2>2, <2>3, <2>4, <2>5, <2>6, NewPathKeeps DEF PanelInv
<1>4. CASE screen # Rendered
  <2>1. PICK new : new = IF screen.owed = "render" THEN [view EXCEPT !.path = p] ELSE view
    OBVIOUS
  <2>2. view' = new /\ requests' = requests
    BY <1>1, <1>4, <2>1
  <2>3. /\ new.tree = view.tree /\ new.content = view.content /\ new.loading = view.loading
        /\ new = [tree |-> new.tree, failed |-> new.failed, path |-> new.path,
                  content |-> new.content, loading |-> new.loading]
        /\ screen.owed # "render" => new = view
    BY <2>1 DEF PanelInv, PanelTyped
  <2>4. Path' = Path
    BY <1>2, <2>2, <2>3 DEF Path
  <2>5. /\ \A r \in requests : IsRequest(r)
        /\ screen.owed \in {"nothing", "effects", "render"}
        /\ screen.owed = "nothing" => screen = Rendered
    BY DEF PanelInv, PanelTyped
  <2>6. /\ screen'.owed \in {"nothing", "effects", "render"}
        /\ screen'.owed = "nothing" => screen' = Rendered
        /\ screen.owed = "effects" => screen'.owed = "effects"
    BY <1>2, <2>5 DEF Rendered, NewView, NewModal
  <2>7. QED
    BY <1>2, <2>2, <2>3, <2>4, <2>5, <2>6, SamePathKeeps
<1>5. QED
  BY <1>3, <1>4

LEMMA AnswerTreeKeeps ==
  ASSUME PanelInv, AnswerTree, screen.owed # "effects"
  PROVE  PanelInv'
<1>1. PICK r \in requests, ok \in BOOLEAN :
        /\ r.kind = "tree"
        /\ IF ~ok THEN /\ view' = [view EXCEPT !.failed = TRUE]
                       /\ requests' = requests \ {r}
           ELSE LET files == FilesIn[r.cp]
                    first == IF files = <<>> THEN view.path ELSE Head(files)
                    new   == [view EXCEPT !.tree = r.cp, !.path = first]
                    moved == screen = Rendered /\ first # view.path
                IN /\ view' = IF moved
                              THEN [new EXCEPT !.content = NewView.content, !.loading = TRUE]
                              ELSE new
                   /\ requests' =
                        ((IF moved THEN Cancelled({"file"}, requests) ELSE requests) \ {r})
                        \cup (IF moved THEN FileRequest(Cp(node), first) ELSE {})
                        \cup (IF screen = Rendered /\ modal.open THEN DiffRequest(Cp(node))
                              ELSE {})
        /\ screen' = screen /\ node' = node /\ tab' = tab /\ changes' = changes
  BY Zenon DEF AnswerTree
<1>2. /\ (Mounted' <=> Mounted) /\ Cp(node)' = Cp(node) /\ screen' = screen
  BY <1>1 DEF Mounted, Cp
<1>3. Mounted => r.cp = Cp(node)
  BY <1>1 DEF PanelInv, ViewIsOurs, SentFor, ViewKinds
<1>4. /\ view = [tree |-> view.tree, failed |-> view.failed, path |-> view.path,
                 content |-> view.content, loading |-> view.loading]
      /\ \A q \in requests : IsRequest(q)
      /\ screen.owed \in {"nothing", "render"}
      /\ screen.owed = "nothing" => screen = Rendered
  BY DEF PanelInv, PanelTyped
<1>5. /\ screen'.owed \in {"nothing", "effects", "render"}
      /\ screen'.owed = "nothing" => screen' = Rendered
      /\ screen.owed = "effects" => screen'.owed = "effects"
  BY <1>2, <1>4 DEF Rendered, NewView, NewModal
<1>6. PICK diff : diff = Request("diff", Cp(node), None)
  OBVIOUS
<1>7. IsRequest(diff) /\ diff.kind = "diff" /\ DiffRequest(Cp(node)) = {diff}
  BY <1>6, RequestTyped DEF DiffRequest
<1>8. PICK first : first = IF FilesIn[r.cp] = <<>> THEN view.path ELSE Head(FilesIn[r.cp])
  OBVIOUS
<1>9. ASSUME NEW new, view' = new,
             new = [tree |-> new.tree, failed |-> new.failed, path |-> new.path,
                    content |-> new.content, loading |-> new.loading],
             new.tree \in {view.tree, r.cp},
             new.content = view.content, new.loading = view.loading,
             screen = Rendered => new.path = view.path,
             requests \ {r} \subseteq requests',
             requests' \subseteq (requests \ {r}) \cup {diff}
      PROVE  PanelInv'
  <2>1. PICK rs : rs = requests'
    OBVIOUS
  <2>2. /\ \A q \in rs : IsRequest(q)
        /\ \A q \in requests : q.kind = "file" => q \in rs
        /\ \A q \in rs : q.kind \in ViewKinds => q \in requests
    BY <1>1, <1>4, <1>7, <1>9, <2>1 DEF ViewKinds
  <2>3. Path' = Path
    BY <1>2, <1>4, <1>9 DEF Path
  <2>4. Mounted => new.tree \in {view.tree, Cp(node)}
    BY <1>3, <1>9
  <2>5. QED
    BY <1>2, <1>5, <1>9, <2>1, <2>2, <2>3, <2>4, SamePathKeeps
<1>10. CASE ~ok
  <2>1. PICK new : new = [view EXCEPT !.failed = TRUE]
    OBVIOUS
  <2>2. view' = new /\ requests' = requests \ {r}
    BY <1>1, <1>10, <2>1
  <2>3. /\ new.tree = view.tree /\ new.path = view.path /\ new.content = view.content
        /\ new.loading = view.loading
        /\ new = [tree |-> new.tree, failed |-> new.failed, path |-> new.path,
                  content |-> new.content, loading |-> new.loading]
    BY <1>4, <2>1
  <2>4. QED
    BY <1>9, <2>2, <2>3
<1>11. CASE ok /\ ~(screen = Rendered /\ first # view.path)
  <2>1. PICK new : new = [view EXCEPT !.tree = r.cp, !.path = first]
    OBVIOUS
  <2>2. /\ view' = new
        /\ requests' = (requests \ {r})
             \cup (IF screen = Rendered /\ modal.open THEN DiffRequest(Cp(node)) ELSE {})
    BY <1>1, <1>8, <1>11, <2>1
  <2>3. /\ new.tree = r.cp /\ new.path = first /\ new.content = view.content
        /\ new.loading = view.loading
        /\ new = [tree |-> new.tree, failed |-> new.failed, path |-> new.path,
                  content |-> new.content, loading |-> new.loading]
    BY <1>4, <2>1
  <2>4. /\ requests \ {r} \subseteq requests'
        /\ requests' \subseteq (requests \ {r}) \cup {diff}
    BY <1>7, <2>2
  <2>5. QED
    BY <1>9, <1>11, <2>2, <2>3, <2>4
<1>12. CASE ok /\ screen = Rendered /\ first # view.path
  <2>1. PICK tree : tree = r.cp
    OBVIOUS
  <2>2. PICK old : old = Cancelled({"file"}, requests) \ {r}
    OBVIOUS
  <2>3. old \subseteq requests /\ \A q \in old : q.kind # "file"
    BY <2>2 DEF Cancelled
  <2>4. /\ view' = [[view EXCEPT !.tree = tree, !.path = first]
                      EXCEPT !.content = NewView.content, !.loading = TRUE]
        /\ requests' = old \cup FileRequest(Cp(node), first)
             \cup (IF screen = Rendered /\ modal.open THEN DiffRequest(Cp(node)) ELSE {})
    BY <1>1, <1>8, <1>12, <2>1, <2>2
  <2>5. view' = [view EXCEPT !.tree = tree, !.path = first, !.content = NewView.content,
                             !.loading = TRUE]
    BY <1>4, <2>4
  <2>6. /\ \A q \in requests' : q \in old \cup FileRequest(Cp(node), first)
                                \/ (IsRequest(q) /\ q.kind = "diff")
        /\ FileRequest(Cp(node), first) \subseteq requests'
    BY <1>7, <2>4
  <2>7. CASE Mounted
    <3>1. tree \in {view.tree, Cp(node)}
      BY <1>3, <2>1, <2>7
    <3>2. screen' = Rendered
      BY <1>2, <1>12
    <3>3. QED
      BY <1>2, <2>3, <2>5, <2>6, <3>1, <3>2, NewPathKeeps DEF PanelInv
  <2>8. CASE ~Mounted
    <3>1. view' = [tree |-> tree, failed |-> view.failed, path |-> first,
                   content |-> NewView.content, loading |-> TRUE]
      BY <1>4, <2>5
    <3>2. \A q \in requests' : IsRequest(q)
      BY <1>4, <2>3, <2>6, FileRequestTyped
    <3>3. PanelTyped'
      BY <1>5, <3>1, <3>2 DEF PanelTyped
    <3>4. QED
      BY <1>2, <2>8, <3>3 DEF PanelInv
  <2>9. QED
    BY <2>7, <2>8
<1>13. QED
  BY <1>10, <1>11, <1>12

LEMMA AnswerFileKeeps ==
  ASSUME PanelInv, AnswerFile, screen.owed # "effects"
  PROVE  PanelInv'
<1>1. PICK r \in requests, ok \in BOOLEAN :
        /\ r.kind = "file"
        /\ view' = [view EXCEPT !.content = IF ok THEN <<r.cp, r.arg>> ELSE @,
                                !.loading = FALSE]
        /\ requests' = requests \ {r}
        /\ screen' = screen /\ node' = node /\ tab' = tab /\ changes' = changes
  BY Zenon DEF AnswerFile
<1>2. (Mounted' <=> Mounted) /\ Cp(node)' = Cp(node)
  BY <1>1 DEF Mounted, Cp
<1>3. /\ view'.tree = view.tree /\ view'.path = view.path /\ view'.loading = FALSE
      /\ view'.content \in {view.content, <<r.cp, r.arg>>}
      /\ view' = [tree |-> view'.tree, failed |-> view'.failed, path |-> view'.path,
                  content |-> view'.content, loading |-> view'.loading]
  BY <1>1 DEF PanelInv, PanelTyped
<1>4. Path' = Path
  BY <1>1, <1>3 DEF Path
<1>5. PanelTyped'
  BY <1>1, <1>3 DEF PanelInv, PanelTyped, Rendered, NewView, NewModal
<1>6. ASSUME Mounted PROVE ViewIsOurs'
  <2>1. ViewIsOurs
    BY <1>6 DEF PanelInv
  <2>2. r.cp = Cp(node) /\ r.arg = Path
    BY <1>1, <2>1 DEF ViewIsOurs, SentFor, ViewKinds
  <2>3. view'.tree \in {None, Cp(node)'}
    BY <1>2, <1>3, <2>1 DEF ViewIsOurs
  <2>4. Path' # None => view'.content \in {NewView.content, <<Cp(node)', Path'>>}
    BY <1>2, <1>3, <1>4, <2>1, <2>2 DEF ViewIsOurs
  <2>5. \A q \in requests' : q.kind \in ViewKinds => SentFor(q)'
    BY <1>1, <1>2, <1>4, <2>1 DEF ViewIsOurs, SentFor
  <2>6. QED
    BY <1>3, <2>3, <2>4, <2>5 DEF ViewIsOurs, NewView
<1>7. QED
  BY <1>2, <1>5, <1>6 DEF PanelInv

(* The steps of the modal, the recovery panel and its refreshes: what the  *)
(* view shows and asks for stays.                                          *)
LEMMA OthersKeep ==
  ASSUME PanelInv,
         \/ OpenModal \/ AnswerDiff \/ Apply \/ AnswerRestore \/ CloseModal
         \/ Recover \/ RecoveryStarted \/ RecoveryRefused \/ RefreshTick
         \/ UNCHANGED inspector
  PROVE  PanelInv'
<1>1. /\ view' = view /\ screen' = screen /\ node' = node /\ tab' = tab
      /\ changes' = changes
  BY DEF OpenModal, AnswerDiff, Apply, AnswerRestore, CloseModal, Recover,
         RecoveryStarted, RecoveryRefused, RefreshTick, inspector
<1>2. (Mounted' <=> Mounted) /\ Cp(node)' = Cp(node)
  BY <1>1 DEF Mounted, Cp
<1>3. PICK restore, diff, recover :
        /\ restore = Request("restore", Cp(node), OnScreen.modal.diff)
        /\ diff = Request("diff", Cp(node), None)
        /\ recover = Request("recover", Cp(node), None)
  OBVIOUS
<1>4. /\ IsRequest(restore) /\ restore.kind = "restore"
      /\ IsRequest(diff) /\ diff.kind = "diff"
      /\ IsRequest(recover) /\ recover.kind = "recover"
  BY <1>3, RequestTyped
<1>5. /\ \A r \in requests' : r \in requests \cup {restore, diff, recover}
      /\ \A r \in requests : r.kind \in ViewKinds => r \in requests'
  <2>1. CASE OpenModal \/ Apply \/ Recover
    BY <1>3, <2>1 DEF OpenModal, Apply, Recover, DiffRequest
  <2>2. CASE CloseModal
    BY <2>2 DEF CloseModal, Cancelled, ViewKinds
  <2>3. CASE AnswerDiff \/ AnswerRestore \/ RecoveryStarted \/ RecoveryRefused
    BY <2>3 DEF AnswerDiff, AnswerRestore, RecoveryStarted, RecoveryRefused, ViewKinds
  <2>4. CASE RefreshTick \/ UNCHANGED inspector
    BY <2>4 DEF RefreshTick, inspector
  <2>5. QED
    BY <2>1, <2>2, <2>3, <2>4
<1>6. PICK rs : rs = requests'
  OBVIOUS
<1>7. OfThePanel(rs)
  BY <1>4, <1>5, <1>6 DEF PanelInv, PanelTyped, OfThePanel, ViewKinds
<1>8. QED
  BY <1>1, <1>2, <1>6, <1>7, SameViewKeeps

LEMMA PanelInvHolds == Spec => []PanelInv
<1>1. Init => PanelInv
  <2>1. SUFFICES ASSUME Init PROVE PanelInv
    OBVIOUS
  <2>2. node = 0 /\ view = NewView /\ requests = {} /\ screen = Rendered
    BY Zenon, <2>1 DEF Init, InspectorInit
  <2>3. PanelTyped
    BY <2>2, NothingOwed DEF PanelTyped, NewView
  <2>4. ~Mounted
    BY <2>2 DEF Mounted, OnCodebase, Offered, Cp
  <2>5. QED
    BY <2>3, <2>4 DEF PanelInv
<1>2. PanelInv /\ [Next]_vars => PanelInv'
  <2>1. SUFFICES ASSUME PanelInv, [Next]_vars PROVE PanelInv'
    OBVIOUS
  <2>2. ASSUME NEW t, NEW c, NEW sync, NEW rs, OfThePanel(rs),
               Remount(node, t, c, sync, rs)
        PROVE  PanelInv'
    <3>1. PICK n : n = node
      OBVIOUS
    <3>2. QED
      BY <2>1, <2>2, <3>1, RemountKeeps
  <2>3. CASE PageRenders
    <3>1. PICK n, sync : n = seen'.selected /\ sync = (due = "sync")
      OBVIOUS
    <3>2. Show(n, sync) \/ UNCHANGED inspector
      BY <2>3, <3>1 DEF PageRenders
    <3>3. QED
      BY <2>1, <3>2, ShowKeeps, OthersKeep
  <2>4. CASE PanelRenders
    <3>1. CASE RunEffects
      <4>1. PICK cp, v, m, rs : cp = Cp(node) /\ v = screen.view /\ m = screen.modal
                                /\ rs = requests
        OBVIOUS
      <4>2. Effects(cp, v, m, rs) /\ Cp(node)' = cp
        BY <3>1, <4>1 DEF RunEffects, Cp
      <4>3. \A r \in rs : IsRequest(r)
        BY <2>1, <4>1 DEF PanelInv, PanelTyped
      <4>4. QED
        BY <4>2, <4>3, EffectsKeep
    <3>2. CASE Rerender
      BY <2>1, <3>2, RerenderKeeps
    <3>3. QED
      BY <2>4, <3>1, <3>2 DEF PanelRenders
  <2>5. CASE PanelClicked
    <3>1. CASE ChooseTab
      BY <2>1, <2>2, <3>1, OursAreOfThePanel DEF ChooseTab
    <3>2. CASE SelectFile
      BY <2>1, <3>2, SelectFileKeeps
    <3>3. CASE OpenModal \/ Apply \/ CloseModal \/ Recover
      BY <2>1, <3>3, OthersKeep
    <3>4. CASE Done
      <4>1. PICK cp, m, rs : cp = Cp(node) /\ m = NewModal
                             /\ rs = Cancelled({"diff", "restore"}, requests)
        OBVIOUS
      <4>2. (\E v : Effects(cp, v, m, rs)) /\ Cp(node)' = cp
        BY <3>4, <4>1 DEF Done, Cp
      <4>3. \A r \in rs : IsRequest(r)
        BY <2>1, <4>1 DEF PanelInv, PanelTyped, Cancelled
      <4>4. QED
        BY <4>2, <4>3, EffectsKeep
    <3>5. QED
      BY <2>5, <3>1, <3>2, <3>3, <3>4 DEF PanelClicked, InspectorClick
  <2>6. CASE PanelAnswered
    <3>1. CASE AnswerDiff \/ AnswerRestore \/ RecoveryRefused
      BY <2>1, <3>1, OthersKeep
    <3>2. CASE AnswerChanges
      <4>1. PICK r \in requests :
              r.kind = "changes" /\ \E c : Remount(node, tab, c, FALSE, requests \ {r})
        BY <3>2 DEF AnswerChanges
      <4>2. OfThePanel(requests \ {r})
        BY <2>1, <4>1, OursAreOfThePanel DEF OfThePanel, ViewKinds
      <4>3. QED
        BY <2>2, <4>1, <4>2
    <3>3. CASE AnswerTree
      BY <2>1, <2>6, <3>3, AnswerTreeKeeps DEF PanelAnswered
    <3>4. CASE AnswerFile
      BY <2>1, <2>6, <3>4, AnswerFileKeeps DEF PanelAnswered
    <3>5. QED
      BY <2>6, <3>1, <3>2, <3>3, <3>4 DEF PanelAnswered, Answer
  <2>7. CASE RecoveryAnswered \/ Refreshed \/ PlayerClicked \/ Ticks \/ UNCHANGED vars
    BY <2>1, <2>7, OthersKeep
    DEF RecoveryAnswered, Refreshed, PlayerClicked, Ticks, vars
  <2>8. QED
    BY <2>1, <2>3, <2>4, <2>5, <2>6, <2>7 DEF Next
<1>3. QED
  BY <1>1, <1>2, PTL DEF Spec

(* However late answers come, the Codebase tab shows the selected node: a  *)
(* cancelled request changes nothing and what was shown for another        *)
(* checkpoint is reset, which is enough for any run and any files.         *)
THEOREM PanelShowsTheSelection == Spec => []ShowsTheSelection
<1>1. PanelInv => ShowsTheSelection
  BY NothingOwed
  DEF PanelInv, PanelTyped, ViewIsOurs, ShowsTheSelection, Path, Request, NewView
<1>2. QED
  BY <1>1, PanelInvHolds, PTL

-----------------------------------------------------------------------------
(***************************************************************************)
(* The video.  The worker shares the store with the page, and none of the  *)
(* state above.                                                            *)
(***************************************************************************)

Handling == {"lookup", "nodes", "complete", "fail"}

(* What a worker has in hand are jobs that were asked for.                 *)
Listed ==
  \A w \in Workers :
     /\ at[w] \in Handling => batch[w] # <<>>
     /\ \A i \in 1..Len(batch[w]) : job[batch[w][i]].status # "none"

(* What a worker is about to write as a storyboard was read after the job  *)
(* in hand was asked for.                                                  *)
ReadAfterAsked ==
  /\ \A j \in Jobs : promised[j] <= nodes
  /\ \A w \in Workers : at[w] = "complete" => promised[Head(batch[w])] <= read[w]

(* A worker that is about to write a failure has a reason.                 *)
ReasonInHand ==
  \A w \in Workers : at[w] = "fail" => Head(batch[w]) \in Orphans \/ faults > 0

VideoInv == /\ TypeOK /\ Listed /\ ReadAfterAsked /\ ReasonInHand
            /\ RowsAreWhole /\ FailuresHaveACause

-----------------------------------------------------------------------------
(* The answer of listPendingVideoJobs() is a sequence of pending jobs, and *)
(* it is empty only if there is none.                                      *)
LEMMA OrdersOfPending ==
  ASSUME NEW order \in SetToSeqs(Pending)
  PROVE  /\ order \in Seq(Jobs)
         /\ Pending # {} => order # <<>>
         /\ \A i \in 1..Len(order) : order[i] \in Pending
<1>1. IsFiniteSet(Pending)
  <2>1. IsFiniteSet(Jobs)
    BY JobsAssumption
  <2>2. QED
    BY <2>1, FS_Subset DEF Pending
<1>2. Cardinality(Pending) \in Nat
  BY <1>1, FS_CardinalityType
<1>3. order \in [1..Cardinality(Pending) -> Pending]
  BY DEF SetToSeqs
<1>4. Pending # {} => Cardinality(Pending) # 0
  BY <1>1, FS_EmptySet
<1>5. Pending \subseteq Jobs
  BY DEF Pending
<1> HIDE DEF Pending
<1>6. order \in Seq(Jobs) /\ Len(order) = Cardinality(Pending)
  BY <1>2, <1>3, <1>5
<1>7. QED
  BY <1>2, <1>3, <1>4, <1>6

LEMMA VideoStarts ==
  ASSUME VideoInit
  PROVE  VideoInv
  BY JobsAssumption DEF VideoInit, VideoInv, TypeOK, Listed,
         Handling, ReadAfterAsked, ReasonInHand, RowsAreWhole,
         FailuresHaveACause, NoJob, Settled

-----------------------------------------------------------------------------
(* Every write of a worker is a put of the job in hand.                    *)
PutsInHand(w) ==
  \/ UNCHANGED job
  \/ /\ at[w] = "complete"
     /\ Put(Head(batch[w]), "completed", {read[w]})
  \/ /\ at[w] = "fail"
     /\ Put(Head(batch[w]), "failed", {})

(* What a worker has in hand after a step: what it had, a new answer of    *)
(* the store, the rest, or nothing.                                        *)
HandMoves(w) ==
  \/ batch'[w] = batch[w]
  \/ batch'[w] \in SetToSeqs(Pending)
  \/ at[w] \in Handling /\ batch'[w] = Tail(batch[w])
  \/ batch'[w] = <<>>

(* Where it goes.                                                          *)
PlaceMoves(w) ==
  /\ at'[w] \in Handling => batch'[w] # <<>>
  /\ at'[w] = "complete" =>
       /\ batch'[w] = batch[w]
       /\ \/ at[w] = "complete" /\ read'[w] = read[w]
          \/ at[w] = "nodes" /\ read'[w] = nodes
  /\ at'[w] = "fail" =>
       /\ batch'[w] = batch[w]
       /\ at[w] = "fail" \/ Head(batch[w]) \in Orphans \/ faults' > 0

(* The variables keep their types, and other workers are left alone.       *)
TypedMoves(w) ==
  /\ UNCHANGED <<nodes, promised>>
  /\ faults' \in 0..MaxFaults /\ faults <= faults'
  /\ stopping' \in [Workers -> BOOLEAN]
  /\ read' \in [Workers -> 0..MaxNodes]
  /\ at' \in [Workers -> Handling \cup {"sleep", "list", "exited"}]
  /\ batch' \in [Workers -> Seq(Jobs)]
  /\ \A v \in Workers \ {w} :
       at'[v] = at[v] /\ batch'[v] = batch[v] /\ read'[v] = read[v]

LEMMA EveryWorkerMoves ==
  ASSUME TypeOK, Listed, NEW w \in Workers,
         WorkerStep(w) \/ Trouble(w) \/ Stop(w)
  PROVE  PutsInHand(w) /\ HandMoves(w) /\ PlaceMoves(w) /\ TypedMoves(w)
<1> USE JobsAssumption DEF TypeOK, PutsInHand, HandMoves, PlaceMoves,
            TypedMoves, Handling
<1>0. /\ at[w] \in Handling => batch[w] # <<>>
      /\ batch[w] \in Seq(Jobs) /\ <<>> \in Seq(Jobs)
      /\ faults \in Nat /\ 0 \in 0..MaxNodes
      /\ batch[w] # <<>> => Tail(batch[w]) \in Seq(Jobs)
  BY DEF Listed
<1>f. ASSUME Fault PROVE faults' \in 0..MaxFaults /\ faults <= faults' /\ faults' > 0
  BY <1>0, <1>f DEF Fault
<1>1. CASE Tick(w)
  BY <1>0, <1>1 DEF Tick
<1>13. CASE ListPending(w)
  <2>1. PICK order \in SetToSeqs(Pending) :
          batch' = [batch EXCEPT ![w] = order]
    BY <1>13 DEF ListPending
  <2>2. /\ order \in Seq(Jobs) /\ batch'[w] = order
        /\ Pending # {} => order # <<>>
    BY <2>1, OrdersOfPending
  <2>3. at' = [at EXCEPT ![w] = IF Pending = {} THEN "sleep" ELSE "lookup"]
    BY <1>13 DEF ListPending
  <2> HIDE DEF Pending
  <2>4. QED
    BY <1>0, <1>13, <2>1, <2>2, <2>3 DEF ListPending
<1>14. CASE ListThrows(w)
  BY <1>0, <1>f, <1>14 DEF ListThrows, TickFails
<1>2. CASE LookUp(w)
  BY <1>0, <1>2 DEF LookUp
<1>3. CASE ReadNodes(w)
  BY <1>0, <1>3 DEF ReadNodes
<1>4. CASE Complete(w) \/ Fail(w)
  <2>1. at[w] \in Handling /\ NextJob(w)
    BY <1>4 DEF Complete, Fail
  <2>2. /\ batch'[w] = Tail(batch[w])
        /\ Len(batch[w]) # 1 => batch'[w] # <<>>
    <3>1. batch'[w] = Tail(batch[w])
      BY <1>0, <2>1 DEF NextJob
    <3>2. Len(batch[w]) \in Nat /\ Len(batch[w]) > 0
      BY <1>0, <2>1
    <3>3. Len(batch'[w]) = Len(batch[w]) - 1
      BY <1>0, <2>1, <3>1
    <3>4. batch'[w] = <<>> => Len(batch'[w]) = 0
      OBVIOUS
    <3>5. QED
      BY <3>1, <3>2, <3>3, <3>4
  <2>3. UNCHANGED <<nodes, stopping, faults, promised>> /\ PutsInHand(w)
    BY <1>4 DEF Complete, Fail
  <2>4. at'[w] \in {"sleep", "lookup"} /\ (at'[w] = "lookup" => batch'[w] # <<>>)
    BY <2>1, <2>2 DEF NextJob
  <2>5. HandMoves(w) /\ PlaceMoves(w)
    BY <2>1, <2>2, <2>4
  <2>6. TypedMoves(w)
    BY <1>0, <2>1, <2>3 DEF NextJob
  <2>7. QED
    BY <2>3, <2>5, <2>6
<1>5. CASE Exit(w)
  BY <1>0, <1>5 DEF Exit
<1>6. CASE LookUpThrows(w)
  BY <1>0, <1>f, <1>6 DEF LookUpThrows, TickFails
<1>7. CASE ReadNodesThrows(w)
  BY <1>0, <1>f, <1>7 DEF ReadNodesThrows
<1>8. CASE CompleteThrows(w)
  BY <1>0, <1>f, <1>8 DEF CompleteThrows
<1>9. CASE FailThrows(w)
  BY <1>0, <1>f, <1>9 DEF FailThrows, TickFails
<1>10. CASE Crash(w)
  BY <1>0, <1>f, <1>10 DEF Crash
<1>11. CASE Stop(w)
  BY <1>0, <1>11 DEF Stop, workerVars
<1>12. QED
  BY <1>1, <1>2, <1>3, <1>4, <1>5, <1>6, <1>7, <1>8, <1>9, <1>10, <1>11,
     <1>13, <1>14 DEF WorkerStep, Trouble

-----------------------------------------------------------------------------
(* A worker's step keeps every part of the invariant.                      *)

LEMMA JobInHand ==
  ASSUME TypeOK, Listed, NEW w \in Workers, at[w] \in Handling
  PROVE  Head(batch[w]) \in Jobs /\ job[Head(batch[w])].status # "none"
<1>1. batch[w] \in Seq(Jobs) /\ batch[w] # <<>>
  BY DEF TypeOK, Listed
<1>2. 1 \in 1..Len(batch[w]) /\ Head(batch[w]) = batch[w][1]
  BY <1>1
<1>3. QED
  BY <1>1, <1>2 DEF Listed

LEMMA PutKeepsRows ==
  ASSUME VideoInv, NEW w \in Workers, PutsInHand(w)
  PROVE  /\ job' \in [Jobs -> [status : {"none", "pending"} \cup Settled,
                               scenes : {{}} \cup {{n} : n \in 0..MaxNodes}]]
         /\ \A j \in Jobs : job[j].status # "none" => job'[j].status # "none"
         /\ \A j \in Jobs : /\ job'[j].status = "completed" <=> job'[j].scenes # {}
                            /\ \A n \in job'[j].scenes : promised[j] <= n
         /\ \A j \in Jobs : job'[j].status = "failed" => j \in Orphans \/ faults > 0
<1> DEFINE hand == Head(batch[w])
<1> USE DEF Settled
<1>0. /\ at[w] \in Handling => hand \in Jobs
      /\ job \in [Jobs -> [status : {"none", "pending"} \cup Settled,
                           scenes : {{}} \cup {{n} : n \in 0..MaxNodes}]]
      /\ {read[w]} \in {{n} : n \in 0..MaxNodes}
  BY JobInHand DEF VideoInv, TypeOK
<1>1. CASE UNCHANGED job
  BY <1>0, <1>1 DEF VideoInv, RowsAreWhole, FailuresHaveACause
<1>2. CASE at[w] = "complete" /\ Put(hand, "completed", {read[w]})
  <2>1. promised[hand] <= read[w] /\ hand \in Jobs
    BY <1>0, <1>2 DEF VideoInv, ReadAfterAsked, Handling
  <2> HIDE DEF hand
  <2>2. job' = [job EXCEPT ![hand] = [status |-> "completed", scenes |-> {read[w]}]]
    BY <1>2 DEF Put
  <2>3. QED
    BY <1>0, <2>1, <2>2 DEF VideoInv, RowsAreWhole, FailuresHaveACause
<1>3. CASE at[w] = "fail" /\ Put(hand, "failed", {})
  <2>1. hand \in Jobs /\ (hand \in Orphans \/ faults > 0)
    BY <1>0, <1>3 DEF VideoInv, ReasonInHand, Handling
  <2> HIDE DEF hand
  <2>2. job' = [job EXCEPT ![hand] = [status |-> "failed", scenes |-> {}]]
    BY <1>3 DEF Put
  <2>3. QED
    BY <1>0, <2>1, <2>2 DEF VideoInv, RowsAreWhole, FailuresHaveACause
<1>4. QED
  BY <1>1, <1>2, <1>3 DEF PutsInHand

LEMMA WorkerKeeps ==
  ASSUME VideoInv, NEW w \in Workers,
         WorkerStep(w) \/ Trouble(w) \/ Stop(w)
  PROVE  VideoInv'
<1>1. PutsInHand(w) /\ HandMoves(w) /\ PlaceMoves(w) /\ TypedMoves(w)
  BY EveryWorkerMoves DEF VideoInv
<1>2. /\ job' \in [Jobs -> [status : {"none", "pending"} \cup Settled,
                            scenes : {{}} \cup {{n} : n \in 0..MaxNodes}]]
      /\ \A j \in Jobs : job[j].status # "none" => job'[j].status # "none"
      /\ \A j \in Jobs : /\ job'[j].status = "completed" <=> job'[j].scenes # {}
                         /\ \A n \in job'[j].scenes : promised[j] <= n
      /\ \A j \in Jobs : job'[j].status = "failed" => j \in Orphans \/ faults > 0
  BY <1>1, PutKeepsRows
<1>3. TypeOK'
  BY <1>1, <1>2 DEF VideoInv, TypeOK, TypedMoves, Handling
<1>4. faults \in Nat /\ faults' \in Nat /\ faults <= faults' /\ UNCHANGED <<nodes, promised>>
  BY <1>1, JobsAssumption DEF VideoInv, TypeOK, TypedMoves
<1>5. RowsAreWhole' /\ FailuresHaveACause'
  BY <1>2, <1>4 DEF RowsAreWhole, FailuresHaveACause
<1>6. Listed'
  <2>1. \A v \in Workers : at'[v] \in Handling => batch'[v] # <<>>
    BY <1>1 DEF VideoInv, Listed, TypedMoves, PlaceMoves
  <2>2. ASSUME NEW v \in Workers, NEW i \in 1..Len(batch'[v])
        PROVE  job'[batch'[v][i]].status # "none"
    <3>1. /\ batch[v] \in Seq(Jobs)
          /\ \A k \in 1..Len(batch[v]) : batch[v][k] \in Jobs
          /\ \A k \in 1..Len(batch[v]) : job'[batch[v][k]].status # "none"
      <4>1. batch[v] \in Seq(Jobs)
        BY DEF VideoInv, TypeOK
      <4>2. \A k \in 1..Len(batch[v]) : batch[v][k] \in Jobs
        BY <4>1
      <4>3. \A k \in 1..Len(batch[v]) : job[batch[v][k]].status # "none"
        BY DEF VideoInv, Listed
      <4>4. QED
        BY <1>2, <4>1, <4>2, <4>3
    <3>2. CASE v # w \/ batch'[v] = batch[v]
      BY <1>1, <2>2, <3>1, <3>2 DEF TypedMoves
    <3>3. CASE v = w /\ batch'[w] \in SetToSeqs(Pending)
      <4>1. batch'[v][i] \in Pending
        BY <2>2, <3>3, OrdersOfPending
      <4>2. QED
        BY <1>2, <4>1 DEF Pending
    <3>4. CASE v = w /\ at[w] \in Handling /\ batch'[w] = Tail(batch[w])
      <4>1. batch[v] # <<>>
        BY <3>4 DEF VideoInv, Listed
      <4>2. i + 1 \in 1..Len(batch[v]) /\ batch'[v][i] = batch[v][i + 1]
        BY <2>2, <3>1, <3>4, <4>1
      <4>3. QED
        BY <3>1, <4>2
    <3>5. CASE v = w /\ batch'[w] = <<>>
      BY <2>2, <3>5
    <3>6. QED
      BY <1>1, <3>2, <3>3, <3>4, <3>5 DEF HandMoves
  <2>3. QED
    BY <2>1, <2>2 DEF Listed
<1>7. ReadAfterAsked'
  <2>1. \A j \in Jobs : promised[j] <= nodes
    BY DEF VideoInv, ReadAfterAsked
  <2>2. ASSUME NEW v \in Workers, at'[v] = "complete"
        PROVE  promised[Head(batch'[v])] <= read'[v]
    <3>1. CASE v # w
      BY <1>1, <2>2, <3>1 DEF VideoInv, ReadAfterAsked, TypedMoves
    <3>2. CASE v = w
      <4>1. CASE at[w] = "complete" /\ read'[w] = read[w] /\ batch'[w] = batch[w]
        BY <3>2, <4>1 DEF VideoInv, ReadAfterAsked
      <4>2. CASE at[w] = "nodes" /\ read'[w] = nodes /\ batch'[w] = batch[w]
        <5>1. Head(batch[w]) \in Jobs
          BY <4>2, JobInHand DEF VideoInv, Handling
        <5>2. QED
          BY <2>1, <3>2, <4>2, <5>1
      <4>3. QED
        BY <1>1, <2>2, <3>2, <4>1, <4>2 DEF PlaceMoves
    <3>3. QED
      BY <3>1, <3>2
  <2>3. QED
    BY <1>4, <2>1, <2>2 DEF ReadAfterAsked
<1>8. ReasonInHand'
  <2>1. ASSUME NEW v \in Workers, at'[v] = "fail"
        PROVE  Head(batch'[v]) \in Orphans \/ faults' > 0
    <3>1. CASE v # w
      <4>1. at[v] = "fail" /\ batch'[v] = batch[v]
        BY <1>1, <2>1, <3>1 DEF TypedMoves
      <4>2. Head(batch[v]) \in Orphans \/ faults > 0
        BY <4>1 DEF VideoInv, ReasonInHand
      <4>3. faults > 0 => faults' > 0
        BY <1>4
      <4>4. QED
        BY <4>1, <4>2, <4>3
    <3>2. CASE v = w
      <4>1. /\ batch'[w] = batch[w]
            /\ at[w] = "fail" \/ Head(batch[w]) \in Orphans \/ faults' > 0
        BY <1>1, <2>1, <3>2 DEF PlaceMoves
      <4>2. at[w] = "fail" => Head(batch[w]) \in Orphans \/ faults > 0
        BY DEF VideoInv, ReasonInHand
      <4>3. faults > 0 => faults' > 0
        BY <1>4
      <4>4. QED
        BY <3>2, <4>1, <4>2, <4>3
    <3>3. QED
      BY <3>1, <3>2
  <2>2. QED
    BY <2>1 DEF ReasonInHand
<1>9. QED
  BY <1>3, <1>5, <1>6, <1>7, <1>8 DEF VideoInv

LEMMA VideoInvInductive ==
  ASSUME VideoInv, [VideoNext]_videoVars
  PROVE  VideoInv'
<1>1. ASSUME NEW j \in Jobs, CreateVideo(j) PROVE VideoInv'
  <2>1. /\ job' = [job EXCEPT ![j].status = "pending"]
        /\ promised' = [promised EXCEPT ![j] = nodes]
        /\ job[j].status = "none"
        /\ UNCHANGED <<nodes, at, batch, read, stopping, faults>>
    BY <1>1 DEF CreateVideo, workerVars
  <2>2. /\ \A i \in Jobs : i # j => job'[i] = job[i]
        /\ job'[j].status = "pending" /\ job'[j].scenes = job[j].scenes
        /\ job'[j] \in [status : {"none", "pending"} \cup Settled,
                        scenes : {{}} \cup {{n} : n \in 0..MaxNodes}]
        /\ job' \in [Jobs -> [status : {"none", "pending"} \cup Settled,
                              scenes : {{}} \cup {{n} : n \in 0..MaxNodes}]]
    BY <2>1 DEF VideoInv, TypeOK, Settled
  <2>3. TypeOK' /\ nodes \in 0..MaxNodes
    BY <2>1, <2>2, JobsAssumption DEF VideoInv, TypeOK
  <2>4. \A i \in Jobs : i # j => promised'[i] = promised[i]
    BY <2>1 DEF VideoInv, TypeOK
  <2>5. promised'[j] = nodes
    BY <2>1 DEF VideoInv, TypeOK
  <2>6. RowsAreWhole' /\ FailuresHaveACause'
    BY <2>1, <2>2, <2>4 DEF VideoInv, RowsAreWhole, FailuresHaveACause
  <2>7. Listed'
    BY <2>1, <2>2 DEF VideoInv, TypeOK, Listed
  <2>8. ReadAfterAsked'
    <3>1. \A i \in Jobs : promised'[i] <= nodes'
      BY <2>1, <2>3, <2>4, <2>5, JobsAssumption DEF VideoInv, ReadAfterAsked
    <3>2. ASSUME NEW w \in Workers, at[w] = "complete"
          PROVE  Head(batch[w]) \in Jobs /\ Head(batch[w]) # j
      BY <2>1, <3>2, JobInHand DEF VideoInv, Handling
    <3>3. QED
      BY <2>1, <2>4, <3>1, <3>2 DEF VideoInv, ReadAfterAsked
  <2>9. ReasonInHand'
    BY <2>1 DEF VideoInv, ReasonInHand
  <2>10. QED
    BY <2>3, <2>6, <2>7, <2>8, <2>9 DEF VideoInv
<1>2. CASE PersistNode
  <2>1. nodes' = nodes + 1 /\ nodes' \in 0..MaxNodes /\ nodes \in Nat
        /\ UNCHANGED <<job, at, batch, read, stopping, faults, promised>>
    BY <1>2, JobsAssumption
    DEF VideoInv, TypeOK, PersistNode,
        workerVars
  <2>2. TypeOK'
    BY <2>1 DEF VideoInv, TypeOK
  <2>3. ReadAfterAsked'
    BY <2>1, JobsAssumption DEF VideoInv, TypeOK, ReadAfterAsked
  <2>4. QED
    BY <2>1, <2>2, <2>3
       DEF VideoInv, Listed, ReasonInHand, RowsAreWhole,
           FailuresHaveACause
<1>3. CASE UNCHANGED videoVars
  BY <1>3
  DEF VideoInv, TypeOK, Listed, ReadAfterAsked, ReasonInHand,
      RowsAreWhole, FailuresHaveACause, Pending, videoVars,
      workerVars
<1>4. QED
  BY <1>1, <1>2, <1>3, WorkerKeeps DEF VideoNext

-----------------------------------------------------------------------------
LEMMA VideoInvHolds ==
  VideoSpec => []VideoInv
<1>1. VideoInit => VideoInv
  BY VideoStarts
<1>2. VideoInv /\ [VideoNext]_videoVars => VideoInv'
  BY VideoInvInductive
<1>3. QED
  BY <1>1, <1>2, PTL DEF VideoSpec

(* However many workers handle a job at once, and wherever they are        *)
(* stopped, a row that says completed has a storyboard of every node there *)
(* was when it was asked for, and no other row has one: processJob() writes*)
(* what it has read after the job was listed, in one update.               *)
THEOREM WholeRows ==
  VideoSpec => []RowsAreWhole
<1>1. VideoInv => RowsAreWhole
  BY DEF VideoInv
<1>2. QED
  BY <1>1, VideoInvHolds, PTL

(* Workers that handle one job twice do not make it fail: a failed job has *)
(* no run, or a call of processJob() has thrown.                           *)
THEOREM CausedFailures ==
  VideoSpec => []FailuresHaveACause
<1>1. VideoInv => FailuresHaveACause
  BY DEF VideoInv
<1>2. QED
  BY <1>1, VideoInvHolds, PTL
=============================================================================
