---------------------------- MODULE RunStoreProofs ----------------------------
(***************************************************************************)
(* Proofs about RunStore, for any requests and any number of forks, on     *)
(* either backend.                                                         *)
(***************************************************************************)
EXTENDS RunStore, TLAPS

-----------------------------------------------------------------------------
(***************************************************************************)
(* The inductive invariant.  A claim is a branch with the parent that a    *)
(* session or request will give its row, or has given it.  Two of them     *)
(* never claim the same branch, every row agrees with the claim on it, and *)
(* who has nodes in the store writes no rows any more.                     *)
(***************************************************************************)

Branch   == [id : Nat, parent : Nat]
Changing == {"read", "mark", "insert"}
Writing  == Changing \cup {"looping", "persist_run", "persist_branches"}
Finished == {"persist_nodes", "done", "failed"}
Places   == Writing \cup Finished \cup {"idle"}

Claims(s) ==
  Range(own[s]) \cup (IF pc[s] \in Changing
                      THEN {[id |-> job[s].new, parent |-> job[s].failed]} ELSE {})

TypeOK ==
  /\ backend \in {"memory", "postgres"} /\ runRow \in BOOLEAN
  /\ DOMAIN rows \subseteq 1..(nextId - 1)
  /\ rows \in [DOMAIN rows -> [parent : Nat, status : {"running", "failed"}]]
  /\ nodes \subseteq Nat
  /\ pc \in [Sessions -> Places]
  /\ job \in [Sessions -> [kind : {"none", "fork", "recover", "fix"},
                           failed : Nat, new : Nat]]
  /\ own \in [Sessions -> Seq(Branch)]
  /\ left \in [Sessions -> Seq(Branch)]
  /\ forks \in Nat /\ nextId \in Nat \ {0}

(* What there is to do is there to be done.                                *)
InHand ==
  \A s \in Sessions :
    /\ pc[s] \in {"looping", "persist_run", "persist_branches"} => own[s] # <<>>
    /\ pc[s] \in Changing => job[s].kind # "none"
    /\ pc[s] \in Changing /\ job[s].kind = "fork" => own[s] # <<>>
    /\ pc[s] \in {"persist_run", "persist_branches", "persist_nodes"}
         => left[s] # <<>> /\ Range(left[s]) \subseteq Range(own[s])
    /\ pc[s] = "mark" => job[s].failed \in DOMAIN rows

ClaimsAreApart ==
  /\ \A s \in Sessions : \A c \in Claims(s) : c.id \in 1..(nextId - 1)
  /\ \A s, t \in Sessions : \A c \in Claims(s), d \in Claims(t) :
       c.id = d.id => s = t /\ c = d

RowsAsClaimed ==
  \A s \in Sessions : \A c \in Claims(s) :
    c.id \in DOMAIN rows => rows[c.id].parent = c.parent

RowsBeforeNodes ==
  \A s \in Sessions :
    /\ pc[s] \in {"persist_run", "persist_branches"} =>
         \A c \in Range(own[s]) : c.id \in DOMAIN rows \/ c \in Range(left[s])
    /\ pc[s] = "persist_nodes" =>
         \A c \in Range(left[s]) : c.id \in DOMAIN rows

WrittenOnce ==
  /\ \A s \in Sessions : pc[s] \notin Finished =>
       \A c \in Claims(s) : c.id \notin nodes
  /\ \A s \in Sessions : pc[s] \in Changing /\ job[s].kind \in {"fix", "recover"} =>
       job[s].failed \in nodes \cup {0}
  /\ requested \subseteq nodes

IInv == /\ TypeOK /\ InHand /\ ClaimsAreApart /\ RowsAsClaimed /\ RowsBeforeNodes
        /\ WrittenOnce /\ NodesOnRecordedBranches /\ RequestedFailureStays

-----------------------------------------------------------------------------
Row == [parent : Nat, status : {"running", "failed"}]

(* What setBranch() does to the rows, whichever store it is.               *)
IsPut(new, b, parent, status) ==
  /\ DOMAIN new = DOMAIN rows \cup {b}
  /\ new \in [DOMAIN new -> Row]
  /\ \A x \in DOMAIN rows : x # b => new[x] = rows[x]
  /\ new[b].status = status
  /\ new[b].parent \in {parent, rows[b].parent}
  /\ b \notin DOMAIN rows => new[b].parent = parent

LEMMA PutRows ==
  ASSUME TypeOK, NEW b \in Nat, NEW parent \in Nat,
         NEW status \in {"running", "failed"}
  PROVE  IsPut(Put(b, parent, status), b, parent, status)
<1> DEFINE new == Put(b, parent, status)
<1> USE DEF IsPut
<1>1. rows \in [DOMAIN rows -> Row]
  BY DEF TypeOK, Row
<1>2. new = [x \in DOMAIN rows \cup {b} |->
               IF x # b THEN rows[x]
               ELSE IF b \in DOMAIN rows /\ backend = "postgres"
                    THEN [rows[b] EXCEPT !.status = status]
                    ELSE [parent |-> parent, status |-> status]]
  BY DEF Put
<1>3. b \in DOMAIN rows => /\ [rows[b] EXCEPT !.status = status] \in Row
                           /\ [rows[b] EXCEPT !.status = status].status = status
                           /\ [rows[b] EXCEPT !.status = status].parent = rows[b].parent
  BY <1>1 DEF Row
<1>4. /\ [parent |-> parent, status |-> status] \in Row
      /\ [parent |-> parent, status |-> status].status = status
      /\ [parent |-> parent, status |-> status].parent = parent
  BY DEF Row
<1>5. DOMAIN new = DOMAIN rows \cup {b} /\ new \in [DOMAIN new -> Row]
  BY <1>1, <1>2, <1>3, <1>4
<1>6. \A x \in DOMAIN rows : x # b => new[x] = rows[x]
  BY <1>2
<1>7. CASE b \in DOMAIN rows /\ backend = "postgres"
  <2>1. new[b] = [rows[b] EXCEPT !.status = status]
    BY <1>2, <1>7
  <2>2. QED
    BY <1>3, <1>5, <1>6, <1>7, <2>1
<1>8. CASE ~(b \in DOMAIN rows /\ backend = "postgres")
  <2>1. new[b] = [parent |-> parent, status |-> status]
    BY <1>2, <1>8
  <2>2. QED
    BY <1>4, <1>5, <1>6, <2>1
<1>9. QED
  BY <1>7, <1>8

(* A write of a row: of a claim, as running; of a row there is, as failed; *)
(* or of a branch nobody has named yet.                                    *)
RowsMove ==
  \/ UNCHANGED <<rows, requested>>
  \/ /\ \E s \in Sessions : \E c \in Claims(s) :
          pc[s] \in Writing /\ rows' = Put(c.id, c.parent, "running")
     /\ UNCHANGED requested
  \/ \E s \in Sessions :
       /\ pc[s] = "mark"
       /\ rows' = Put(job[s].failed, rows[job[s].failed].parent, "failed")
       /\ requested' = requested \/ /\ job[s].kind # "fork"
                                    /\ requested' = requested \cup {job[s].failed}
  \/ /\ rows' = Put(nextId, 1, "running") /\ nextId' = nextId + 1
     /\ UNCHANGED requested

LEMMA EveryRowsMove ==
  ASSUME IInv, [Next]_vars
  PROVE  RowsMove
<1> USE DEF RowsMove
<1>1. CASE UNCHANGED vars
  BY <1>1 DEF vars, storeVars
<1>2. ASSUME NEW s \in Sessions,
             Fork(s) \/ ReadFailed(s) \/ InsertRefused(s) \/ LoopReturns(s)
             \/ PersistRun(s) \/ PersistNode(s) \/ StoreFails(s)
      PROVE  UNCHANGED <<rows, requested>>
  BY <1>2 DEF Fork, ReadFailed, InsertRefused, LoopReturns, PersistRun,
              PersistNode, StoreFails, storeVars
<1>3. ASSUME NEW s \in Sessions, MarkFailed(s) PROVE RowsMove
  BY <1>3 DEF MarkFailed
<1>4. ASSUME NEW s \in Sessions, InsertNew(s) PROVE RowsMove
  <2> DEFINE c == [id |-> job[s].new, parent |-> job[s].failed]
  <2>1. c \in Claims(s) /\ pc[s] \in Writing
    BY <1>4 DEF InsertNew, Claims, Changing, Writing
  <2>2. rows' = Put(c.id, c.parent, "running") /\ UNCHANGED requested
    BY <1>4 DEF InsertNew
  <2>3. QED
    BY <2>1, <2>2
<1>5. ASSUME NEW s \in Sessions, PersistBranch(s) PROVE RowsMove
  <2> DEFINE c == Head(left[s])
  <2>1. pc[s] = "persist_branches" /\ UNCHANGED requested
        /\ rows' = Put(c.id, c.parent, "running")
    BY <1>5 DEF PersistBranch
  <2>2. left[s] # <<>> /\ left[s] \in Seq(Branch) /\ Range(left[s]) \subseteq Range(own[s])
    BY <2>1 DEF IInv, TypeOK, InHand
  <2>3. c = left[s][1] /\ 1 \in DOMAIN left[s]
    BY <2>2
  <2>4. c \in Claims(s)
    BY <2>2, <2>3 DEF Claims, Range
  <2>5. QED
    BY <2>1, <2>4 DEF Writing
<1>6. ASSUME NEW r \in Requests, CreateBranch(r) PROVE RowsMove
  BY <1>6 DEF CreateBranch
<1>7. ASSUME NEW r \in Requests, NEW b \in nodes \cup {0},
             Recover(r, b) \/ FixAndRerun(r, b)
      PROVE  UNCHANGED <<rows, requested>>
  BY <1>7 DEF Recover, FixAndRerun, storeVars
<1>8. CASE Quiet
  BY <1>8 DEF Quiet, vars, storeVars
<1>9. QED
  BY <1>1, <1>2, <1>3, <1>4, <1>5, <1>6, <1>7, <1>8 DEF Next

-----------------------------------------------------------------------------
(* Every variable but the rows keeps its type.                             *)
OthersTyped ==
  /\ backend' = backend /\ runRow' \in BOOLEAN
  /\ pc' \in [Sessions -> Places]
  /\ job' \in [Sessions -> [kind : {"none", "fork", "recover", "fix"},
                            failed : Nat, new : Nat]]
  /\ own' \in [Sessions -> Seq(Branch)]
  /\ left' \in [Sessions -> Seq(Branch)]
  /\ forks' \in Nat /\ nextId' \in Nat \ {0} /\ nextId <= nextId'

LEMMA EveryStepTyped ==
  ASSUME IInv, [Next]_vars
  PROVE  OthersTyped
<1> USE DEF OthersTyped, TypeOK, Places, Writing, Changing, Finished
<1>0. TypeOK
  BY DEF IInv
<1>1. CASE UNCHANGED vars
  BY <1>0, <1>1 DEF vars, storeVars
<1>2. ASSUME NEW s \in Sessions, Fork(s) PROVE OthersTyped
  <2>1. own[s] \in Seq(Branch) /\ own[s] # <<>>
    BY <1>0, <1>2 DEF IInv, InHand, Fork
  <2>2. Current(s) \in Nat
    <3>1. Len(own[s]) \in DOMAIN own[s] /\ own[s][Len(own[s])] \in Branch
      BY <2>1
    <3>2. QED
      BY <3>1 DEF Current, Branch
  <2>3. Append(own[s], [id |-> nextId, parent |-> Current(s)]) \in Seq(Branch)
    BY <1>0, <2>1, <2>2 DEF Branch
  <2>4. own' \in [Sessions -> Seq(Branch)]
    BY <1>0, <1>2, <2>3 DEF Fork
  <2>5. QED
    BY <1>0, <1>2, <2>2, <2>4 DEF Fork, storeVars
<1>3. ASSUME NEW s \in Sessions, UNCHANGED own \/ Begin(s)
      PROVE  own' \in [Sessions -> Seq(Branch)]
  <2>1. <<[id |-> job[s].new, parent |-> job[s].failed]>> \in Seq(Branch)
    BY <1>0 DEF Branch
  <2>2. QED
    BY <1>0, <1>3, <2>1 DEF Begin
<1>4. ASSUME NEW s \in Sessions, ReadFailed(s) PROVE OthersTyped
  <2>1. own' \in [Sessions -> Seq(Branch)]
    BY <1>3, <1>4 DEF ReadFailed
  <2>2. AfterMark(s) \in Places /\ "mark" \in Places
    BY DEF AfterMark
  <2>3. pc' \in [Sessions -> Places]
    BY <1>0, <1>4, <2>2 DEF ReadFailed
  <2>4. UNCHANGED <<storeVars, job, left, forks, nextId>>
    BY <1>4 DEF ReadFailed
  <2>5. QED
    BY <1>0, <2>1, <2>3, <2>4 DEF storeVars
<1>5. ASSUME NEW s \in Sessions, MarkFailed(s) PROVE OthersTyped
  <2>1. own' \in [Sessions -> Seq(Branch)]
    BY <1>3, <1>5 DEF MarkFailed
  <2>2. AfterMark(s) \in Places
    BY DEF AfterMark
  <2>3. pc' \in [Sessions -> Places]
    BY <1>0, <1>5, <2>2 DEF MarkFailed
  <2>4. UNCHANGED <<backend, runRow, job, left, forks, nextId>>
    BY <1>5 DEF MarkFailed
  <2>5. QED
    BY <1>0, <2>1, <2>3, <2>4
<1>6. ASSUME NEW s \in Sessions, InsertNew(s) PROVE OthersTyped
  <2>1. job[s].kind \in {"fork", "fix", "recover"}
    BY <1>0, <1>6 DEF IInv, InHand, InsertNew
  <2>2. QED
    BY <1>0, <1>6, <2>1 DEF InsertNew, AfterInsert
<1>7. ASSUME NEW s \in Sessions, InsertRefused(s) PROVE OthersTyped
  BY <1>0, <1>7 DEF InsertRefused, storeVars
<1>8. ASSUME NEW s \in Sessions, LoopReturns(s) PROVE OthersTyped
  BY <1>0, <1>8 DEF LoopReturns, storeVars
<1>9. ASSUME NEW s \in Sessions, PersistRun(s) PROVE OthersTyped
  BY <1>0, <1>9 DEF PersistRun
<1>10. ASSUME NEW s \in Sessions, PersistBranch(s) PROVE OthersTyped
  <2>1. left[s] \in Seq(Branch) /\ left[s] # <<>> /\ own[s] \in Seq(Branch)
    BY <1>0, <1>10 DEF IInv, InHand, PersistBranch
  <2>2. left' \in [Sessions -> Seq(Branch)]
    BY <1>0, <1>10, <2>1 DEF PersistBranch
  <2>3. QED
    BY <1>0, <1>10, <2>2 DEF PersistBranch
<1>11. ASSUME NEW s \in Sessions, PersistNode(s) PROVE OthersTyped
  <2>1. left[s] \in Seq(Branch) /\ left[s] # <<>>
    BY <1>0, <1>11 DEF IInv, InHand, PersistNode
  <2>2. left' \in [Sessions -> Seq(Branch)]
    BY <1>0, <1>11, <2>1 DEF PersistNode
  <2>3. QED
    BY <1>0, <1>11, <2>2 DEF PersistNode
<1>12. ASSUME NEW s \in Sessions, StoreFails(s) PROVE OthersTyped
  BY <1>0, <1>12 DEF StoreFails, storeVars
<1>13. ASSUME NEW r \in Requests, CreateBranch(r) PROVE OthersTyped
  BY <1>0, <1>13 DEF CreateBranch, Sessions
<1>14. ASSUME NEW r \in Requests, NEW b \in nodes \cup {0},
              Recover(r, b) \/ FixAndRerun(r, b)
       PROVE  OthersTyped
  <2>1. r \in Sessions /\ b \in Nat
    BY <1>0 DEF Sessions
  <2>2. /\ [kind |-> "recover", failed |-> b, new |-> nextId]
             \in [kind : {"none", "fork", "recover", "fix"}, failed : Nat, new : Nat]
        /\ [kind |-> "fix", failed |-> b, new |-> nextId]
             \in [kind : {"none", "fork", "recover", "fix"}, failed : Nat, new : Nat]
    BY <1>0, <2>1
  <2>3. job' \in [Sessions -> [kind : {"none", "fork", "recover", "fix"},
                               failed : Nat, new : Nat]]
    BY <1>0, <1>14, <2>1, <2>2 DEF Recover, FixAndRerun
  <2>4. pc' \in [Sessions -> Places]
    BY <1>0, <1>14, <2>1 DEF Recover, FixAndRerun
  <2>5. nextId' = nextId + 1 /\ UNCHANGED <<storeVars, own, left, forks>>
    BY <1>14 DEF Recover, FixAndRerun
  <2>6. QED
    BY <1>0, <2>3, <2>4, <2>5 DEF storeVars
<1>15. CASE Quiet
  BY <1>0, <1>15 DEF Quiet, vars, storeVars
<1>16. QED
  BY <1>1, <1>2, <1>4, <1>5, <1>6, <1>7, <1>8, <1>9, <1>10, <1>11, <1>12, <1>13,
     <1>14, <1>15 DEF Next

-----------------------------------------------------------------------------
(* A step makes at most one new claim, on a branch it names itself.        *)
ClaimsMove ==
  \/ \A s \in Sessions : Claims(s)' \subseteq Claims(s)
  \/ /\ nextId' = nextId + 1 /\ UNCHANGED storeVars
     /\ \E t \in Sessions, parent \in Nat : \A s \in Sessions :
          Claims(s)' \subseteq Claims(s) \cup
            (IF s = t THEN {[id |-> nextId, parent |-> parent]} ELSE {})

LEMMA EveryClaimsMove ==
  ASSUME IInv, [Next]_vars
  PROVE  ClaimsMove
<1>0. TypeOK
  BY DEF IInv
<1>1. ASSUME UNCHANGED <<own, job>>,
             \A s \in Sessions : pc'[s] \in Changing => pc[s] \in Changing
      PROVE  ClaimsMove
  BY <1>1 DEF ClaimsMove, Claims
<1>2. ASSUME NEW s \in Sessions, NEW p \in Places \ Changing,
             UNCHANGED <<own, job>>, pc' = [pc EXCEPT ![s] = p]
      PROVE  ClaimsMove
  BY <1>0, <1>1, <1>2 DEF TypeOK
<1>3. ASSUME NEW s \in Sessions, NEW p \in Places, pc[s] \in Changing,
             UNCHANGED <<own, job>>, pc' = [pc EXCEPT ![s] = p]
      PROVE  ClaimsMove
  BY <1>0, <1>1, <1>3 DEF TypeOK
<1>4. ASSUME NEW s \in Sessions, Fork(s) PROVE ClaimsMove
  <2> DEFINE new == [id |-> nextId, parent |-> Current(s)]
  <2>1. own[s] \in Seq(Branch) /\ own[s] # <<>>
    BY <1>0, <1>4 DEF IInv, TypeOK, InHand, Fork
  <2>2. Current(s) \in Nat
    <3>1. Len(own[s]) \in DOMAIN own[s] /\ own[s][Len(own[s])] \in Branch
      BY <2>1
    <3>2. QED
      BY <3>1 DEF Current, Branch
  <2>3. own'[s] = Append(own[s], new) /\ new \in Branch
    BY <1>0, <1>4, <2>2 DEF Fork, TypeOK, Branch
  <2>4. /\ job'[s].new = new.id /\ job'[s].failed = new.parent
        /\ \A t \in Sessions \ {s} : /\ own'[t] = own[t] /\ job'[t] = job[t]
                                     /\ pc'[t] = pc[t]
    BY <1>0, <1>4 DEF Fork, TypeOK
  <2>5. Range(own'[s]) \subseteq Range(own[s]) \cup {new}
    BY <2>1, <2>3 DEF Range
  <2>6. \A t \in Sessions : Claims(t)' \subseteq Claims(t) \cup
          (IF t = s THEN {new} ELSE {})
    BY <2>4, <2>5 DEF Claims
  <2>7. nextId' = nextId + 1 /\ UNCHANGED storeVars
    BY <1>4 DEF Fork
  <2>8. QED
    BY <2>2, <2>6, <2>7 DEF ClaimsMove
<1>5. ASSUME NEW r \in Requests, NEW b \in nodes \cup {0},
             Recover(r, b) \/ FixAndRerun(r, b)
      PROVE  ClaimsMove
  <2> DEFINE new == [id |-> nextId, parent |-> b]
  <2>1. r \in Sessions /\ b \in Nat
    BY <1>0 DEF Sessions, TypeOK
  <2>2. /\ job'[r].new = nextId /\ job'[r].failed = b /\ own' = own
        /\ \A t \in Sessions \ {r} : job'[t] = job[t] /\ pc'[t] = pc[t]
    BY <1>0, <1>5, <2>1 DEF Recover, FixAndRerun, TypeOK
  <2>3. \A t \in Sessions : Claims(t)' \subseteq Claims(t) \cup
          (IF t = r THEN {new} ELSE {})
    BY <2>2 DEF Claims
  <2>4. nextId' = nextId + 1 /\ UNCHANGED storeVars
    BY <1>5 DEF Recover, FixAndRerun
  <2>5. QED
    BY <2>1, <2>3, <2>4 DEF ClaimsMove
<1>6. ASSUME NEW s \in Sessions, pc[s] \in Changing, UNCHANGED job, Begin(s),
             pc' = [pc EXCEPT ![s] = AfterMark(s)]
      PROVE  ClaimsMove
  <2> DEFINE new == [id |-> job[s].new, parent |-> job[s].failed]
  <2>1. CASE job[s].kind = "recover"
    <3>1. /\ own'[s] = <<new>>
          /\ \A t \in Sessions \ {s} : own'[t] = own[t] /\ pc'[t] = pc[t]
      BY <1>0, <1>6, <2>1 DEF Begin, TypeOK
    <3>2. Range(own'[s]) \subseteq {new}
      BY <3>1 DEF Range
    <3>3. \A t \in Sessions : Claims(t)' \subseteq Claims(t)
      BY <1>6, <3>1, <3>2 DEF Claims
    <3>4. QED
      BY <3>3 DEF ClaimsMove
  <2>2. CASE job[s].kind # "recover"
    <3>1. UNCHANGED own /\ AfterMark(s) \in Places
      BY <1>6, <2>2 DEF Begin, AfterMark, Places, Writing, Changing
    <3>2. QED
      BY <1>3, <1>6, <3>1
  <2>3. QED
    BY <2>1, <2>2
<1>7. ASSUME NEW s \in Sessions, ReadFailed(s) PROVE ClaimsMove
  <2>1. pc[s] \in Changing /\ "mark" \in Places /\ UNCHANGED job
    BY <1>7 DEF ReadFailed, Places, Writing, Changing
  <2>2. QED
    BY <1>3, <1>6, <1>7, <2>1 DEF ReadFailed
<1>8. ASSUME NEW s \in Sessions, MarkFailed(s) PROVE ClaimsMove
  <2>1. pc[s] \in Changing /\ UNCHANGED job
    BY <1>8 DEF MarkFailed, Changing
  <2>2. QED
    BY <1>6, <1>8, <2>1 DEF MarkFailed
<1>9. ASSUME NEW s \in Sessions, InsertNew(s) \/ InsertRefused(s) PROVE ClaimsMove
  <2>1. pc[s] \in Changing
    BY <1>9 DEF InsertNew, InsertRefused, Changing
  <2>2. AfterInsert(s) \in Places
    BY <1>0, <2>1 DEF IInv, InHand, TypeOK, AfterInsert, Places, Writing, Changing, Finished
  <2>3. QED
    BY <1>3, <1>9, <2>1, <2>2
       DEF InsertNew, InsertRefused, Places, Writing, Finished
<1>10. ASSUME NEW s \in Sessions, 
              LoopReturns(s) \/ PersistRun(s) \/ PersistBranch(s) \/ PersistNode(s)
       PROVE  ClaimsMove
  <2>1. UNCHANGED <<own, job>>
    BY <1>10 DEF LoopReturns, PersistRun, PersistBranch, PersistNode
  <2>2. \A t \in Sessions : pc'[t] \in Changing => pc[t] \in Changing
    BY <1>0, <1>10
       DEF LoopReturns, PersistRun, PersistBranch, PersistNode, TypeOK, Changing
  <2>3. QED
    BY <1>1, <2>1, <2>2
<1>11. ASSUME NEW s \in Sessions, StoreFails(s) PROVE ClaimsMove
  <2>1. \A t \in Sessions : pc'[t] \in Changing => pc[t] \in Changing
    BY <1>0, <1>11 DEF StoreFails, TypeOK, Changing
  <2>2. QED
    BY <1>1, <1>11, <2>1 DEF StoreFails
<1>12. ASSUME NEW r \in Requests, CreateBranch(r) PROVE ClaimsMove
  BY <1>2, <1>12 DEF CreateBranch, Sessions, Places, Finished, Changing
<1>13. CASE UNCHANGED vars
  BY <1>1, <1>13 DEF vars
<1>14. CASE Quiet
  BY <1>13, <1>14 DEF Quiet
<1>15. QED
  BY <1>4, <1>5, <1>7, <1>8, <1>9, <1>10, <1>11, <1>12, <1>13, <1>14 DEF Next

-----------------------------------------------------------------------------
(* No write takes a row away or changes its parent; every row still agrees *)
(* with its claim; and no write undoes a failure that was requested.       *)
RowsGrow ==
  /\ DOMAIN rows' \subseteq 1..(nextId' - 1)
  /\ rows' \in [DOMAIN rows' -> Row]
  /\ \A b \in DOMAIN rows : b \in DOMAIN rows' /\ rows'[b].parent = rows[b].parent
  /\ \A s \in Sessions : \A c \in Claims(s) :
       c.id \in DOMAIN rows' => rows'[c.id].parent = c.parent
  /\ requested' \subseteq nodes
  /\ \A b \in requested' : rows'[b].status = "failed"

LEMMA WriteGrows ==
  ASSUME IInv, NEW b \in Nat, NEW parent \in Nat,
         NEW status \in {"running", "failed"},
         rows' = Put(b, parent, status),
         b \in 1..(nextId' - 1), nextId \in Nat, nextId' \in Nat, nextId <= nextId',
         b \in DOMAIN rows => rows[b].parent = parent,
         \A s \in Sessions : \A c \in Claims(s) : c.id = b => c.parent = parent,
         requested' \subseteq nodes,
         requested' \subseteq requested \cup {b},
         b \in requested' => status = "failed"
  PROVE  RowsGrow
<1>0. TypeOK
  BY DEF IInv
<1>1. /\ DOMAIN rows' = DOMAIN rows \cup {b}
      /\ rows' \in [DOMAIN rows' -> Row]
      /\ \A x \in DOMAIN rows : x # b => rows'[x] = rows[x]
      /\ rows'[b].status = status /\ rows'[b].parent = parent
  <2>1. IsPut(rows', b, parent, status)
    BY <1>0, PutRows
  <2>2. QED
    BY <2>1 DEF IsPut
<1>2. DOMAIN rows' \subseteq 1..(nextId' - 1)
  BY <1>0, <1>1 DEF TypeOK
<1>3. \A x \in DOMAIN rows : x \in DOMAIN rows' /\ rows'[x].parent = rows[x].parent
  BY <1>1
<1>4. \A s \in Sessions : \A c \in Claims(s) :
        c.id \in DOMAIN rows' => rows'[c.id].parent = c.parent
  BY <1>1 DEF IInv, RowsAsClaimed
<1>5. ASSUME NEW x \in requested' PROVE rows'[x].status = "failed"
  <2>1. CASE x = b
    BY <1>1, <1>5, <2>1
  <2>2. CASE x # b
    <3>1. x \in requested /\ x \in DOMAIN rows
      BY <1>5, <2>2 DEF IInv, WrittenOnce, NodesOnRecordedBranches
    <3>2. QED
      BY <1>1, <2>2, <3>1 DEF IInv, RequestedFailureStays
  <2>3. QED
    BY <2>1, <2>2
<1>6. QED
  BY <1>1, <1>2, <1>3, <1>4, <1>5 DEF RowsGrow

LEMMA EveryStepGrows ==
  ASSUME IInv, [Next]_vars
  PROVE  RowsGrow
<1>0. TypeOK /\ OthersTyped /\ nextId \in Nat /\ nextId' \in Nat /\ nextId <= nextId'
      /\ requested \subseteq nodes
  BY EveryStepTyped DEF IInv, TypeOK, OthersTyped, WrittenOnce
<1>1. CASE UNCHANGED <<rows, requested>>
  <2>1. DOMAIN rows' \subseteq 1..(nextId' - 1) /\ rows' \in [DOMAIN rows' -> Row]
    BY <1>0, <1>1 DEF TypeOK, Row
  <2>2. \A s \in Sessions : \A c \in Claims(s) :
          c.id \in DOMAIN rows' => rows'[c.id].parent = c.parent
    BY <1>1 DEF IInv, RowsAsClaimed
  <2>3. requested' \subseteq nodes /\ \A b \in requested' : rows'[b].status = "failed"
    BY <1>0, <1>1 DEF IInv, RequestedFailureStays
  <2>4. QED
    BY <1>1, <2>1, <2>2, <2>3 DEF RowsGrow
<1>2. ASSUME NEW s \in Sessions, NEW c \in Claims(s), pc[s] \in Writing,
             rows' = Put(c.id, c.parent, "running"), UNCHANGED requested
      PROVE  RowsGrow
  <2>1. c.id \in 1..(nextId - 1)
    BY DEF IInv, ClaimsAreApart
  <2>2. c.parent \in Nat
    <3>1. c \in Range(own[s]) => c \in Branch
      BY <1>0 DEF TypeOK, Range
    <3>2. QED
      BY <1>0, <3>1 DEF Claims, TypeOK, Branch
  <2>3. c.id \notin nodes
    BY <1>2 DEF IInv, WrittenOnce, Writing, Finished, Changing
  <2>4. c.id \in DOMAIN rows => rows[c.id].parent = c.parent
    BY DEF IInv, RowsAsClaimed
  <2>5. \A t \in Sessions : \A d \in Claims(t) : d.id = c.id => d.parent = c.parent
    BY DEF IInv, ClaimsAreApart
  <2>6. c.id \notin requested'
    BY <1>0, <1>2, <2>3
  <2>7. c.id \in Nat /\ c.id \in 1..(nextId' - 1) /\ requested' \subseteq nodes
        /\ requested' \subseteq requested \cup {c.id}
    BY <1>0, <1>2, <2>1
  <2>8. QED
    BY <1>0, <1>2, <2>2, <2>4, <2>5, <2>6, <2>7, WriteGrows
<1>3. ASSUME NEW s \in Sessions, pc[s] = "mark",
             rows' = Put(job[s].failed, rows[job[s].failed].parent, "failed"),
             requested' = requested \/ /\ job[s].kind # "fork"
                                       /\ requested' = requested \cup {job[s].failed}
      PROVE  RowsGrow
  <2> DEFINE b == job[s].failed
  <2>1. b \in DOMAIN rows /\ job[s].kind \in {"fork", "fix", "recover"}
    BY <1>0, <1>3 DEF IInv, InHand, Changing, TypeOK
  <2>2. b \in 1..(nextId - 1) /\ rows[b].parent \in Nat
    BY <1>0, <2>1 DEF TypeOK
  <2>3. \A t \in Sessions : \A d \in Claims(t) : d.id = b => d.parent = rows[b].parent
    BY <2>1 DEF IInv, RowsAsClaimed
  <2>4. job[s].kind # "fork" => b \in nodes
    BY <1>3, <2>1, <2>2 DEF IInv, WrittenOnce, Changing
  <2>5. requested' \subseteq nodes /\ requested' \subseteq requested \cup {b}
    BY <1>0, <1>3, <2>4
  <2>6. b \in Nat /\ b \in 1..(nextId' - 1)
    BY <1>0, <2>2
  <2>7. QED
    BY <1>0, <1>3, <2>2, <2>3, <2>5, <2>6, WriteGrows
<1>4. CASE /\ rows' = Put(nextId, 1, "running") /\ nextId' = nextId + 1
           /\ UNCHANGED requested
  <2>1. \A t \in Sessions : \A d \in Claims(t) : d.id # nextId
    BY <1>0 DEF IInv, ClaimsAreApart
  <2>2. nextId \notin DOMAIN rows /\ nextId \in 1..(nextId' - 1) /\ 1 \in Nat
    BY <1>0, <1>4 DEF TypeOK
  <2>3. nextId \notin requested'
    BY <1>0, <1>4, <2>2 DEF IInv, NodesOnRecordedBranches
  <2>4. QED
    BY <1>0, <1>4, <2>1, <2>2, <2>3, WriteGrows
<1>5. QED
  BY <1>1, <1>2, <1>3, <1>4, EveryRowsMove DEF RowsMove

(* Claims stay apart, and rows stay as claimed.                            *)
LEMMA StepClaims ==
  ASSUME IInv, [Next]_vars
  PROVE  ClaimsAreApart' /\ RowsAsClaimed'
<1>0. /\ ClaimsMove /\ RowsGrow /\ nextId \in Nat \ {0} /\ nextId' \in Nat
      /\ nextId <= nextId' /\ ClaimsAreApart /\ DOMAIN rows \subseteq 1..(nextId - 1)
  BY EveryClaimsMove, EveryStepGrows, EveryStepTyped DEF IInv, OthersTyped, TypeOK
<1>1. CASE \A s \in Sessions : Claims(s)' \subseteq Claims(s)
  <2>1. ClaimsAreApart'
    BY <1>0, <1>1 DEF ClaimsAreApart
  <2>2. RowsAsClaimed'
    BY <1>0, <1>1 DEF RowsGrow, RowsAsClaimed
  <2>3. QED
    BY <2>1, <2>2
<1>2. ASSUME NEW t \in Sessions, NEW parent \in Nat,
             nextId' = nextId + 1, UNCHANGED storeVars,
             \A s \in Sessions : Claims(s)' \subseteq Claims(s) \cup
               (IF s = t THEN {[id |-> nextId, parent |-> parent]} ELSE {})
      PROVE  ClaimsAreApart' /\ RowsAsClaimed'
  <2> DEFINE new == [id |-> nextId, parent |-> parent]
  <2>1. \A s \in Sessions : \A c \in Claims(s)' : c \in Claims(s) \/ (c = new /\ s = t)
    BY <1>2
  <2>2. new.id = nextId /\ \A s \in Sessions : \A c \in Claims(s) :
          c.id \in 1..(nextId - 1) /\ c.id # nextId
    BY <1>0 DEF ClaimsAreApart
  <2> HIDE DEF new
  <2>3. \A s \in Sessions : \A c \in Claims(s)' : c.id \in 1..(nextId' - 1)
    BY <1>0, <1>2, <2>1, <2>2
  <2>4. ASSUME NEW s \in Sessions, NEW u \in Sessions, NEW c \in Claims(s)',
               NEW d \in Claims(u)', c.id = d.id
        PROVE  s = u /\ c = d
    BY <1>0, <2>1, <2>2, <2>4 DEF ClaimsAreApart
  <2>5. RowsAsClaimed'
    <3>1. rows' = rows /\ nextId \notin DOMAIN rows
      BY <1>0, <1>2 DEF storeVars
    <3>2. QED
      BY <2>1, <2>2, <3>1 DEF IInv, RowsAsClaimed
  <2>6. QED
    BY <2>3, <2>4, <2>5 DEF ClaimsAreApart
<1>3. QED
  BY <1>0, <1>1, <1>2 DEF ClaimsMove

-----------------------------------------------------------------------------
(* Nodes come from sessions that have written their rows.                  *)
NodesMove ==
  \/ UNCHANGED nodes
  \/ \E s \in Sessions : /\ pc[s] = "persist_nodes"
                         /\ \E c \in Range(left[s]) : nodes' = nodes \cup {c.id}

LEMMA EveryNodesMove ==
  ASSUME IInv, [Next]_vars
  PROVE  NodesMove
<1> USE DEF NodesMove
<1>1. ASSUME NEW s \in Sessions, PersistNode(s) PROVE NodesMove
  <2>1. left[s] \in Seq(Branch) /\ left[s] # <<>>
    BY <1>1 DEF IInv, TypeOK, InHand, PersistNode
  <2>2. Head(left[s]) = left[s][1] /\ 1 \in DOMAIN left[s]
    BY <2>1
  <2>3. Head(left[s]) \in Range(left[s])
    BY <2>2 DEF Range
  <2>4. QED
    BY <1>1, <2>3 DEF PersistNode
<1>2. ASSUME NEW s \in Sessions,
             Fork(s) \/ ReadFailed(s) \/ InsertRefused(s) \/ LoopReturns(s)
             \/ PersistRun(s) \/ PersistBranch(s) \/ StoreFails(s) \/ InsertNew(s)
             \/ MarkFailed(s)
      PROVE  UNCHANGED nodes
  BY <1>2 DEF Fork, ReadFailed, InsertRefused, LoopReturns, PersistRun,
              PersistBranch, StoreFails, InsertNew, MarkFailed, storeVars
<1>3. ASSUME NEW r \in Requests, NEW b \in nodes \cup {0},
             CreateBranch(r) \/ Recover(r, b) \/ FixAndRerun(r, b)
      PROVE  UNCHANGED nodes
  BY <1>3 DEF CreateBranch, Recover, FixAndRerun, storeVars
<1>4. QED
  BY <1>1, <1>2, <1>3 DEF Next, Quiet, vars, storeVars

(* Who is finished writes nothing any more, and a request keeps the branch *)
(* it has found until it is done with it.                                  *)
LEMMA StepWrittenOnce ==
  ASSUME IInv, [Next]_vars
  PROVE  WrittenOnce'
<1>0. TypeOK /\ NodesMove /\ ClaimsMove /\ RowsGrow /\ WrittenOnce /\ ClaimsAreApart
  BY EveryNodesMove, EveryClaimsMove, EveryStepGrows DEF IInv
<1>1. nodes \subseteq nodes' /\ nodes \subseteq 1..(nextId - 1)
  BY <1>0 DEF NodesMove, IInv, NodesOnRecordedBranches, TypeOK
<1>2. ASSUME NEW s \in Sessions PROVE pc'[s] \notin Finished => pc[s] \notin Finished
  BY <1>0 DEF TypeOK, Finished, Next, Fork, ReadFailed, MarkFailed, InsertNew,
     InsertRefused, LoopReturns, PersistRun, PersistBranch, PersistNode, StoreFails,
     CreateBranch, Recover, FixAndRerun, Quiet, vars
<1>3. ASSUME NEW s \in Sessions, pc'[s] \notin Finished, NEW c \in Claims(s)'
      PROVE  c.id \notin nodes'
  <2>1. pc[s] \notin Finished
    BY <1>2, <1>3
  <2>2. CASE c \in Claims(s)
    <3>1. c.id \notin nodes
      BY <1>0, <2>1, <2>2 DEF WrittenOnce
    <3>2. ASSUME NEW t \in Sessions, pc[t] = "persist_nodes", NEW d \in Range(left[t])
          PROVE  c.id # d.id
      <4>1. d \in Claims(t) /\ t # s
        BY <2>1, <3>2 DEF IInv, InHand, Claims, Finished
      <4>2. QED
        BY <1>0, <2>2, <4>1 DEF ClaimsAreApart
    <3>3. QED
      BY <1>0, <3>1, <3>2 DEF NodesMove
  <2>3. CASE c \notin Claims(s)
    <3>1. c.id = nextId /\ UNCHANGED nodes
      BY <1>0, <1>3, <2>3 DEF ClaimsMove, storeVars
    <3>2. QED
      BY <1>0, <1>1, <3>1 DEF TypeOK
  <2>4. QED
    BY <2>2, <2>3
<1>4. ASSUME NEW s \in Sessions, pc'[s] \in Changing, job'[s].kind \in {"fix", "recover"}
      PROVE  job'[s].failed \in nodes' \cup {0}
  <2>1. CASE pc[s] \in Changing /\ job'[s] = job[s]
    BY <1>0, <1>1, <1>4, <2>1 DEF WrittenOnce
  <2>2. CASE \E b \in nodes \cup {0} : job'[s].failed = b
    BY <1>1, <2>2
  <2>3. CASE UNCHANGED <<pc, job>>
    BY <1>4, <2>1, <2>3
  <2>4. ASSUME NEW t \in Sessions, Fork(t)
        PROVE  t # s /\ pc'[s] = pc[s] /\ job'[s] = job[s]
    BY <1>0, <1>4, <2>4 DEF Fork, TypeOK
  <2>5. ASSUME NEW t \in Sessions,
               ReadFailed(t) \/ MarkFailed(t) \/ InsertNew(t) \/ InsertRefused(t)
               \/ LoopReturns(t) \/ PersistRun(t) \/ PersistBranch(t)
               \/ PersistNode(t) \/ StoreFails(t)
        PROVE  pc[s] \in Changing /\ job'[s] = job[s]
    BY <1>0, <1>4, <2>5
       DEF TypeOK, Changing, ReadFailed, MarkFailed, InsertNew, InsertRefused,
           LoopReturns, PersistRun, PersistBranch, PersistNode, StoreFails
  <2>6. ASSUME NEW r \in Requests, CreateBranch(r)
        PROVE  pc[s] \in Changing /\ job'[s] = job[s]
    BY <1>0, <1>4, <2>6 DEF TypeOK, Changing, CreateBranch, Sessions
  <2>7. ASSUME NEW r \in Requests, NEW b \in nodes \cup {0},
               Recover(r, b) \/ FixAndRerun(r, b)
        PROVE  \/ pc[s] \in Changing /\ job'[s] = job[s]
               \/ job'[s].failed = b
    BY <1>0, <1>4, <2>7 DEF TypeOK, Recover, FixAndRerun, Sessions
  <2>8. QED
    BY <1>4, <2>1, <2>2, <2>3, <2>4, <2>5, <2>6, <2>7 DEF Next, Quiet, vars
<1>5. requested' \subseteq nodes'
  BY <1>0, <1>1 DEF RowsGrow
<1>6. QED
  BY <1>3, <1>4, <1>5 DEF WrittenOnce

(* A session writes the rows of all its branches before the first node.    *)
LEMMA StepRowsBeforeNodes ==
  ASSUME IInv, [Next]_vars
  PROVE  RowsBeforeNodes' /\ NodesOnRecordedBranches'
<1>0. TypeOK /\ NodesMove /\ RowsGrow /\ RowsBeforeNodes
  BY EveryNodesMove, EveryStepGrows DEF IInv
<1>1. DOMAIN rows \subseteq DOMAIN rows'
  BY <1>0 DEF RowsGrow
<1>2. NodesOnRecordedBranches'
  BY <1>0, <1>1 DEF NodesMove, IInv, NodesOnRecordedBranches, RowsBeforeNodes
<1> DEFINE Before(s) ==
      /\ pc[s] \in {"persist_run", "persist_branches"} =>
           \A c \in Range(own[s]) : c.id \in DOMAIN rows \/ c \in Range(left[s])
      /\ pc[s] = "persist_nodes" =>
           \A c \in Range(left[s]) : c.id \in DOMAIN rows
<1>3. ASSUME NEW s \in Sessions, own'[s] = own[s], left'[s] = left[s],
             pc'[s] \in {"persist_run", "persist_branches", "persist_nodes"} =>
               \/ pc'[s] = pc[s]
               \/ pc[s] = "persist_run" /\ pc'[s] = "persist_branches"
      PROVE  Before(s)'
  BY <1>0, <1>1, <1>3 DEF RowsBeforeNodes
<1>4. ASSUME NEW s \in Sessions,
             pc'[s] \notin {"persist_run", "persist_branches", "persist_nodes"}
      PROVE  Before(s)'
  BY <1>4
<1>5. ASSUME NEW s \in Sessions, LoopReturns(s)
      PROVE  Before(s)'
  BY <1>0, <1>5 DEF LoopReturns, TypeOK
<1>6. ASSUME NEW s \in Sessions, PersistBranch(s)
      PROVE  Before(s)'
  <2> DEFINE c0 == Head(left[s])
  <2>1. /\ left[s] \in Seq(Branch) /\ left[s] # <<>> /\ pc[s] = "persist_branches"
        /\ Range(left[s]) \subseteq Range(own[s])
    BY <1>6 DEF IInv, TypeOK, InHand, PersistBranch
  <2>2. c0 = left[s][1] /\ c0 \in Branch
    BY <2>1
  <2>3. c0.id \in DOMAIN rows'
    <3>1. rows' = Put(c0.id, c0.parent, "running")
      BY <1>6 DEF PersistBranch
    <3>2. IsPut(rows', c0.id, c0.parent, "running")
      BY <1>0, <2>2, <3>1, PutRows DEF Branch
    <3>3. QED
      BY <3>2 DEF IsPut
  <2>4. \A c \in Range(left[s]) : c = c0 \/ c \in Range(Tail(left[s]))
    <3>1. ASSUME NEW i \in DOMAIN left[s], i # 1
          PROVE  left[s][i] \in Range(Tail(left[s]))
      <4>1. Len(left[s]) \in Nat /\ i \in 2..Len(left[s])
        BY <2>1, <3>1
      <4>2. i - 1 \in 1..Len(Tail(left[s]))
        BY <2>1, <4>1
      <4>3. Tail(left[s])[i - 1] = left[s][i] /\ i - 1 \in DOMAIN Tail(left[s])
        BY <2>1, <4>1, <4>2
      <4>4. QED
        BY <4>3 DEF Range
    <3>2. QED
      BY <2>2, <3>1 DEF Range
  <2>5. \A c \in Range(own[s]) : c.id \in DOMAIN rows' \/ c \in Range(Tail(left[s]))
    BY <1>0, <1>1, <2>1, <2>3, <2>4 DEF RowsBeforeNodes
  <2>6. own'[s] = own[s]
    BY <1>6 DEF PersistBranch
  <2>7. CASE Len(left[s]) = 1
    <3>1. Range(Tail(left[s])) = {}
      <4>1. Tail(left[s]) \in Seq(Branch) /\ Len(Tail(left[s])) = 0
        BY <2>1, <2>7
      <4>2. Range(Tail(left[s])) = {Tail(left[s])[i] : i \in 1..0}
        <5>1. DOMAIN Tail(left[s]) = 1..Len(Tail(left[s]))
          BY <4>1
        <5>2. DOMAIN Tail(left[s]) = 1..0
          BY <4>1, <5>1
        <5>3. QED
          BY <5>2 DEF Range
      <4>3. QED
        BY <4>2
    <3>2. left'[s] = own[s] /\ pc'[s] = "persist_nodes"
      BY <1>0, <1>6, <2>7 DEF PersistBranch, TypeOK
    <3>3. QED
      BY <2>5, <3>1, <3>2
  <2>8. CASE Len(left[s]) # 1
    <3>1. left'[s] = Tail(left[s]) /\ pc'[s] = "persist_branches"
      BY <1>0, <1>6, <2>1, <2>8 DEF PersistBranch, TypeOK
    <3>2. QED
      BY <2>5, <2>6, <3>1
  <2>9. QED
    BY <2>7, <2>8
<1>7. ASSUME NEW s \in Sessions, PersistNode(s)
      PROVE  Before(s)'
  <2>1. left[s] \in Seq(Branch) /\ left[s] # <<>> /\ pc[s] = "persist_nodes"
    BY <1>7 DEF IInv, TypeOK, InHand, PersistNode
  <2>2. left'[s] = Tail(left[s]) /\ pc'[s] \in {"done", "persist_nodes"}
    BY <1>0, <1>7 DEF PersistNode, TypeOK
  <2>3. Range(left'[s]) \subseteq Range(left[s])
    <3>1. ASSUME NEW i \in DOMAIN Tail(left[s])
          PROVE  Tail(left[s])[i] \in Range(left[s])
      <4>1. i + 1 \in DOMAIN left[s] /\ Tail(left[s])[i] = left[s][i + 1]
        BY <2>1, <3>1
      <4>2. QED
        BY <4>1 DEF Range
    <3>2. QED
      BY <2>2, <3>1 DEF Range
  <2>4. QED
    BY <1>0, <1>1, <2>1, <2>2, <2>3 DEF RowsBeforeNodes
<1>8. ASSUME NEW s \in Sessions PROVE Before(s)'
  <2>1. CASE UNCHANGED <<pc, own, left>>
    BY <1>3, <2>1
  <2>2. ASSUME NEW t \in Sessions,
               LoopReturns(t) \/ PersistBranch(t) \/ PersistNode(t)
        PROVE  Before(s)'
    <3>1. CASE s = t
      BY <1>5, <1>6, <1>7, <2>2, <3>1
    <3>2. CASE s # t
      <4>1. own'[s] = own[s] /\ left'[s] = left[s] /\ pc'[s] = pc[s]
        BY <1>0, <2>2, <3>2 DEF LoopReturns, PersistBranch, PersistNode, TypeOK
      <4>2. QED
        BY <1>3, <4>1
    <3>3. QED
      BY <3>1, <3>2
  <2>3. ASSUME NEW t \in Sessions,
               Fork(t) \/ ReadFailed(t) \/ MarkFailed(t) \/ InsertNew(t)
               \/ InsertRefused(t) \/ StoreFails(t) \/ PersistRun(t)
        PROVE  Before(s)'
    <3>1. CASE s = t
      <4>1. CASE PersistRun(t)
        BY <1>0, <1>3, <3>1, <4>1 DEF PersistRun, TypeOK
      <4>2. CASE ~PersistRun(t)
        <5>1. AfterMark(t) \notin {"persist_run", "persist_branches", "persist_nodes"}
          BY DEF AfterMark
        <5>2. job[t].kind \in {"fork", "fix", "recover"} =>
                AfterInsert(t) \notin {"persist_run", "persist_branches", "persist_nodes"}
          BY DEF AfterInsert
        <5>3. pc[t] = "insert" => job[t].kind \in {"fork", "fix", "recover"}
          BY <1>0 DEF IInv, InHand, Changing, TypeOK
        <5>4. pc'[s] \notin {"persist_run", "persist_branches", "persist_nodes"}
          BY <1>0, <2>3, <3>1, <4>2, <5>1, <5>2, <5>3
             DEF Fork, ReadFailed, MarkFailed, InsertNew, InsertRefused, StoreFails,
                 TypeOK
        <5>5. QED
          BY <1>4, <5>4
      <4>3. QED
        BY <4>1, <4>2
    <3>2. CASE s # t
      <4>1. own'[s] = own[s] /\ left'[s] = left[s] /\ pc'[s] = pc[s]
        BY <1>0, <2>3, <3>2
           DEF Fork, ReadFailed, MarkFailed, InsertNew, InsertRefused, StoreFails,
               PersistRun, Begin, TypeOK
      <4>2. QED
        BY <1>3, <4>1
    <3>3. QED
      BY <3>1, <3>2
  <2>4. ASSUME NEW r \in Requests, NEW b \in nodes \cup {0},
               CreateBranch(r) \/ Recover(r, b) \/ FixAndRerun(r, b)
        PROVE  Before(s)'
    <3>1. /\ own' = own /\ left' = left
          /\ \/ pc'[s] = pc[s]
             \/ pc'[s] \notin {"persist_run", "persist_branches", "persist_nodes"}
      BY <1>0, <2>4 DEF CreateBranch, Recover, FixAndRerun, TypeOK, Sessions
    <3>2. QED
      BY <1>3, <1>4, <3>1
  <2>5. QED
    BY <2>1, <2>2, <2>3, <2>4 DEF Next, Quiet, vars
<1>9. RowsBeforeNodes'
  BY <1>8 DEF RowsBeforeNodes
<1>10. QED
  BY <1>2, <1>9

(* Sessions and requests go on with something in hand.                     *)
LEMMA StepInHand ==
  ASSUME IInv, [Next]_vars
  PROVE  InHand'
<1> DEFINE Holds(s) ==
      /\ pc[s] \in {"looping", "persist_run", "persist_branches"} => own[s] # <<>>
      /\ pc[s] \in Changing => job[s].kind # "none"
      /\ pc[s] \in Changing /\ job[s].kind = "fork" => own[s] # <<>>
      /\ pc[s] \in {"persist_run", "persist_branches", "persist_nodes"}
           => left[s] # <<>> /\ Range(left[s]) \subseteq Range(own[s])
      /\ pc[s] = "mark" => job[s].failed \in DOMAIN rows
<1>0. /\ TypeOK /\ InHand /\ OthersTyped
      /\ DOMAIN rows \subseteq DOMAIN rows'
      /\ \A s \in Sessions : Holds(s)
  BY EveryStepGrows, EveryStepTyped DEF IInv, RowsGrow, InHand
<1>1. ASSUME NEW s \in Sessions, UNCHANGED <<pc[s], own[s], left[s], job[s]>>
      PROVE  Holds(s)'
  BY <1>0, <1>1
<1>2. ASSUME NEW s \in Sessions, Fork(s) PROVE Holds(s)'
  <2>1. own[s] \in Seq(Branch) /\ pc'[s] = "read" /\ job'[s].kind = "fork"
        /\ own'[s] = Append(own[s], [id |-> nextId, parent |-> Current(s)])
    BY <1>0, <1>2 DEF Fork, TypeOK
  <2>2. own'[s] # <<>>
    BY <2>1
  <2>3. QED
    BY <2>1, <2>2 DEF Changing
<1>3. ASSUME NEW s \in Sessions, pc[s] \in Changing, job' = job, Begin(s),
             pc'[s] = AfterMark(s)
      PROVE  Holds(s)'
  <2>1. CASE job[s].kind = "recover"
    <3>1. pc'[s] = "looping" /\ own'[s] # <<>>
      <4>1. own'[s] = <<[id |-> job[s].new, parent |-> job[s].failed]>>
        BY <1>0, <1>3, <2>1 DEF Begin, TypeOK
      <4>2. pc'[s] = "looping"
        BY <1>3, <2>1 DEF AfterMark
      <4>3. QED
        BY <4>1, <4>2
    <3>2. QED
      BY <3>1 DEF Changing
  <2>2. CASE job[s].kind # "recover"
    <3>1. pc'[s] = "insert" /\ own'[s] = own[s]
      BY <1>0, <1>3, <2>2 DEF AfterMark, Begin
    <3>2. QED
      BY <1>0, <1>3, <3>1
  <2>3. QED
    BY <2>1, <2>2
<1>4. ASSUME NEW s \in Sessions, ReadFailed(s) PROVE Holds(s)'
  <2>1. pc[s] \in Changing /\ job' = job
    BY <1>4 DEF ReadFailed, Changing
  <2>2. CASE pc' = [pc EXCEPT ![s] = "mark"] /\ UNCHANGED own
             /\ job[s].failed \in DOMAIN rows
    <3>1. pc'[s] = "mark" /\ own'[s] = own[s]
      BY <1>0, <2>2 DEF TypeOK
    <3>2. QED
      BY <1>0, <2>1, <2>2, <3>1
  <2>3. CASE pc' = [pc EXCEPT ![s] = AfterMark(s)] /\ Begin(s)
    <3>1. pc'[s] = AfterMark(s)
      BY <1>0, <2>3 DEF TypeOK
    <3>2. QED
      BY <1>3, <2>1, <2>3, <3>1
  <2>4. QED
    BY <1>4, <2>2, <2>3 DEF ReadFailed
<1>5. ASSUME NEW s \in Sessions, MarkFailed(s) PROVE Holds(s)'
  <2>1. pc[s] \in Changing /\ job' = job /\ Begin(s) /\ pc'[s] = AfterMark(s)
    BY <1>0, <1>5 DEF MarkFailed, Changing, TypeOK
  <2>2. QED
    BY <1>3, <2>1
<1>6. ASSUME NEW s \in Sessions, InsertNew(s) \/ InsertRefused(s) PROVE Holds(s)'
  <2>1. /\ pc[s] = "insert" /\ pc[s] \in Changing /\ job' = job /\ own' = own
        /\ job[s].kind \in {"fork", "fix", "recover"}
    BY <1>0, <1>6 DEF InsertNew, InsertRefused, Changing, TypeOK
  <2>2. pc'[s] \in {"done", "failed"} \/ (pc'[s] = "looping" /\ job[s].kind = "fork")
        \/ pc'[s] = "read"
    BY <1>0, <1>6, <2>1 DEF InsertNew, InsertRefused, AfterInsert, TypeOK
  <2>3. QED
    BY <1>0, <2>1, <2>2 DEF Changing
<1>7. ASSUME NEW s \in Sessions, LoopReturns(s) PROVE Holds(s)'
  <2>1. /\ pc'[s] \in {"persist_run", "persist_branches"}
        /\ left'[s] = own[s] /\ own'[s] = own[s] /\ own[s] # <<>>
    BY <1>0, <1>7 DEF LoopReturns, TypeOK
  <2>2. QED
    BY <2>1 DEF Changing
<1>8. ASSUME NEW s \in Sessions, PersistRun(s) PROVE Holds(s)'
  <2>1. /\ pc[s] = "persist_run" /\ pc'[s] = "persist_branches"
        /\ left'[s] = left[s] /\ own'[s] = own[s]
    BY <1>0, <1>8 DEF PersistRun, TypeOK
  <2>2. QED
    BY <1>0, <2>1 DEF Changing
<1>9. ASSUME NEW s \in Sessions, PersistBranch(s) \/ PersistNode(s) PROVE Holds(s)'
  <2>1. /\ left[s] \in Seq(Branch) /\ left[s] # <<>>
        /\ Range(left[s]) \subseteq Range(own[s])
        /\ pc[s] = "persist_branches" => own[s] # <<>>
    BY <1>0, <1>9 DEF PersistBranch, PersistNode, TypeOK
  <2>2. Range(Tail(left[s])) \subseteq Range(left[s])
    <3>1. ASSUME NEW i \in DOMAIN Tail(left[s])
          PROVE  Tail(left[s])[i] \in Range(left[s])
      <4>1. i + 1 \in DOMAIN left[s] /\ Tail(left[s])[i] = left[s][i + 1]
        BY <2>1, <3>1
      <4>2. QED
        BY <4>1 DEF Range
    <3>2. QED
      BY <3>1 DEF Range
  <2>3. Len(left[s]) # 1 => Tail(left[s]) # <<>>
    <3>1. Len(Tail(left[s])) = Len(left[s]) - 1 /\ Len(left[s]) \in Nat \ {0}
      BY <2>1
    <3>2. Len(left[s]) # 1 => Len(Tail(left[s])) # 0
      BY <3>1
    <3>3. QED
      BY <3>2
  <2>4. own'[s] = own[s]
    BY <1>9 DEF PersistBranch, PersistNode
  <2>5. \/ pc'[s] = "done"
        \/ pc'[s] = "persist_nodes" /\ left'[s] = own[s] /\ pc[s] = "persist_branches"
        \/ /\ pc'[s] = pc[s] /\ pc[s] \in {"persist_branches", "persist_nodes"}
           /\ left'[s] = Tail(left[s]) /\ Len(left[s]) # 1
    BY <1>0, <1>9 DEF PersistBranch, PersistNode, TypeOK
  <2>6. QED
    BY <2>1, <2>2, <2>3, <2>4, <2>5 DEF Changing
<1>10. ASSUME NEW s \in Sessions, StoreFails(s) PROVE Holds(s)'
  <2>1. /\ own' = own /\ job' = job
        /\ pc'[s] = "failed" \/ /\ pc'[s] = "looping" /\ pc[s] \in Changing
                                /\ job[s].kind = "fork"
    BY <1>0, <1>10 DEF StoreFails, TypeOK, Changing
  <2>2. QED
    BY <1>0, <2>1 DEF Changing
<1>11. ASSUME NEW r \in Requests, CreateBranch(r) PROVE Holds(r)'
  <2>1. pc'[r] = "done"
    BY <1>0, <1>11 DEF CreateBranch, TypeOK, Sessions
  <2>2. QED
    BY <2>1 DEF Changing
<1>12. ASSUME NEW r \in Requests, NEW b \in nodes \cup {0},
              Recover(r, b) \/ FixAndRerun(r, b)
       PROVE  Holds(r)'
  <2>1. pc'[r] \in {"insert", "read"} /\ job'[r].kind \in {"recover", "fix"}
    BY <1>0, <1>12 DEF Recover, FixAndRerun, TypeOK, Sessions
  <2>2. QED
    BY <2>1 DEF Changing
<1>13. ASSUME NEW s \in Sessions PROVE Holds(s)'
  <2>1. CASE UNCHANGED vars
    BY <1>1, <2>1 DEF vars
  <2>2. ASSUME NEW t \in Sessions,
               Fork(t) \/ ReadFailed(t) \/ MarkFailed(t) \/ InsertNew(t)
               \/ InsertRefused(t) \/ LoopReturns(t) \/ PersistRun(t)
               \/ PersistBranch(t) \/ PersistNode(t) \/ StoreFails(t)
        PROVE  Holds(s)'
    <3>1. CASE s = t
      BY <1>2, <1>4, <1>5, <1>6, <1>7, <1>8, <1>9, <1>10, <2>2, <3>1
    <3>2. CASE s # t
      <4>1. UNCHANGED <<pc[s], own[s], left[s], job[s]>>
        BY <1>0, <2>2, <3>2
           DEF Fork, ReadFailed, MarkFailed, InsertNew, InsertRefused, LoopReturns,
               PersistRun, PersistBranch, PersistNode, StoreFails, Begin, TypeOK
      <4>2. QED
        BY <1>1, <4>1
    <3>3. QED
      BY <3>1, <3>2
  <2>3. ASSUME NEW r \in Requests, NEW b \in nodes \cup {0},
               CreateBranch(r) \/ Recover(r, b) \/ FixAndRerun(r, b)
        PROVE  Holds(s)'
    <3>1. CASE s = r
      BY <1>11, <1>12, <2>3, <3>1
    <3>2. CASE s # r
      <4>1. UNCHANGED <<pc[s], own[s], left[s], job[s]>>
        BY <1>0, <2>3, <3>2 DEF CreateBranch, Recover, FixAndRerun, TypeOK
      <4>2. QED
        BY <1>1, <4>1
    <3>3. QED
      BY <3>1, <3>2
  <2>4. QED
    BY <2>1, <2>2, <2>3 DEF Next, Quiet
<1>14. QED
  BY <1>13 DEF InHand

-----------------------------------------------------------------------------
LEMMA InitIInv == Init => IInv
<1> SUFFICES ASSUME Init PROVE IInv
  OBVIOUS
<1>1. First \in Sessions
  BY DEF Sessions
<1>2. /\ [id |-> 1, parent |-> 0] \in Branch
      /\ <<[id |-> 1, parent |-> 0]>> \in Seq(Branch) /\ <<>> \in Seq(Branch)
  BY DEF Branch
<1>3. DOMAIN rows = {}
  BY DEF Init
<1>4. rows \in [DOMAIN rows -> [parent : Nat, status : {"running", "failed"}]]
  BY <1>3 DEF Init
<1>5. TypeOK
  <2>1. /\ pc \in [Sessions -> Places]
        /\ job \in [Sessions -> [kind : {"none", "fork", "recover", "fix"},
                                 failed : Nat, new : Nat]]
    BY DEF Init, Places, Writing, NoJob
  <2>2. own \in [Sessions -> Seq(Branch)] /\ left \in [Sessions -> Seq(Branch)]
    <3>1. \A s \in Sessions :
            (IF s = First THEN <<[id |-> 1, parent |-> 0]>> ELSE <<>>) \in Seq(Branch)
      BY <1>2
    <3>2. left \in [Sessions -> Seq(Branch)]
      BY <1>2 DEF Init
    <3>3. QED
      BY <3>1, <3>2 DEF Init
  <2>3. /\ backend \in {"memory", "postgres"} /\ runRow \in BOOLEAN
        /\ nodes \subseteq Nat /\ forks \in Nat /\ nextId \in Nat \ {0}
    <3>1. runRow = FALSE /\ nodes = {} /\ forks = 0 /\ nextId = 2
      BY DEF Init
    <3>2. backend \in {"memory", "postgres"}
      BY DEF Init
    <3>3. runRow \in BOOLEAN
      BY <3>1
    <3>4. QED
      BY <3>1, <3>2, <3>3
  <2>4. QED
    BY <1>3, <1>4, <2>1, <2>2, <2>3 DEF TypeOK
<1>6. \A s \in Sessions : Claims(s) \subseteq
        (IF s = First THEN {[id |-> 1, parent |-> 0]} ELSE {})
  BY DEF Init, Claims, Changing, Range
<1>7. ClaimsAreApart /\ RowsAsClaimed
  BY <1>3, <1>6 DEF Init, ClaimsAreApart, RowsAsClaimed
<1>8. InHand /\ RowsBeforeNodes /\ WrittenOnce
  BY <1>3 DEF Init, InHand, Changing, RowsBeforeNodes, WrittenOnce
<1>9. NodesOnRecordedBranches /\ RequestedFailureStays
  BY DEF Init, NodesOnRecordedBranches, RequestedFailureStays
<1>10. QED
  BY <1>5, <1>7, <1>8, <1>9 DEF IInv

LEMMA IInvInductive == IInv /\ [Next]_vars => IInv'
<1> SUFFICES ASSUME IInv, [Next]_vars PROVE IInv'
  OBVIOUS
<1>1. OthersTyped /\ RowsGrow /\ NodesMove /\ TypeOK
  BY EveryStepTyped, EveryStepGrows, EveryNodesMove DEF IInv
<1>2. nodes' \subseteq Nat
  <2>1. ASSUME NEW s \in Sessions, NEW c \in Range(left[s]) PROVE c.id \in Nat
    <3>1. PICK i \in DOMAIN left[s] : c = left[s][i]
      BY <2>1 DEF Range
    <3>2. left[s] \in Seq(Branch)
      BY <1>1 DEF TypeOK
    <3>3. c \in Branch
      BY <3>1, <3>2
    <3>4. QED
      BY <3>3 DEF Branch
  <2>2. nodes \subseteq Nat
    BY <1>1 DEF TypeOK
  <2>3. ASSUME NEW s \in Sessions, NEW c \in Range(left[s]), nodes' = nodes \cup {c.id}
        PROVE  nodes' \subseteq Nat
    BY <2>1, <2>2, <2>3
  <2>4. QED
    BY <1>1, <2>2, <2>3 DEF NodesMove
<1>3. TypeOK'
  BY <1>1, <1>2 DEF TypeOK, OthersTyped, RowsGrow, Row
<1>4. RequestedFailureStays'
  BY <1>1 DEF RowsGrow, RequestedFailureStays
<1>5. QED
  BY <1>3, <1>4, StepInHand, StepClaims, StepRowsBeforeNodes, StepWrittenOnce
     DEF IInv

LEMMA IInvHolds == Spec => []IInv
  BY InitIInv, IInvInductive, PTL DEF Spec

(* No reader of the store ever finds a node without the row of its branch: *)
(* persist() writes every branch of a log before its first node, and a     *)
(* write that fails ends it.                                               *)
THEOREM NodesRecorded == Spec => []NodesOnRecordedBranches
<1>1. IInv => NodesOnRecordedBranches
  BY DEF IInv
<1>2. QED
  BY <1>1, IInvHolds, PTL

(* A branch that the recover route or fix-and-rerun has marked failed stays*)
(* failed: they find a branch by a node of it, and whoever persists nodes  *)
(* has no row left to write.                                               *)
THEOREM FailureStays == Spec => []RequestedFailureStays
<1>1. IInv => RequestedFailureStays
  BY DEF IInv
<1>2. QED
  BY <1>1, IInvHolds, PTL

(* What a branch was forked from is never rewritten, on either backend:    *)
(* whoever writes its row claims it with one and the same parent.          *)
THEOREM LineageStays == Spec => LineageNeverRewritten
<1>1. IInv /\ [Next]_vars =>
        [\A b \in DOMAIN rows :
           b \in DOMAIN rows' /\ rows'[b].parent = rows[b].parent]_vars
  BY EveryStepGrows DEF RowsGrow
<1>2. QED
  BY <1>1, IInvHolds, PTL DEF Spec, LineageNeverRewritten
=============================================================================
