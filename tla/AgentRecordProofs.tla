-------------------------- MODULE AgentRecordProofs --------------------------
(***************************************************************************)
(* Proofs about AgentRecord, for every number of iterations, recoveries,   *)
(* calls and faults: the shape of the log, of what it is ingested to, and  *)
(* what the two stores look up in it.                                      *)
(***************************************************************************)
EXTENDS AgentRecord, AgentLoopProofs, WellFoundedInduction

-----------------------------------------------------------------------------
(***************************************************************************)
(* Induction on the natural numbers, from the well-foundedness of the      *)
(* strict subset relation on finite sets.                                  *)
(***************************************************************************)

(* The members of T under x.                                               *)
Below(T, x) == {y \in T : y < x}

LEMMA Least ==
  ASSUME NEW T, T \subseteq Nat, T # {}
  PROVE  \E x \in T : \A y \in T : x <= y
<1> DEFINE F == {Below(T, x) : x \in T}
<1>1. \A x \in T : IsFiniteSet(Below(T, x))
  <2> TAKE x \in T
  <2>1. x \in Nat
    OBVIOUS
  <2>2. Below(T, x) \in SUBSET Nat
    BY DEF Below
  <2>3. \A y \in Below(T, x) : y <= x
    BY <2>1 DEF Below
  <2>4. QED
    BY <2>1, <2>2, <2>3, FS_BoundedSetOfNaturals
<1>2. F \subseteq FiniteSubsetsOf(Nat) /\ F # {}
  <2>1. \A x \in T : Below(T, x) \subseteq Nat
    BY DEF Below
  <2>2. QED
    BY <1>1, <2>1 DEF FiniteSubsetsOf
<1>3. PICK B \in F : \A C \in F : <<C, B>> \notin StrictSubsetOrdering(Nat)
  BY <1>2, FS_StrictSubsetOrderingWellFounded, WFMin
<1>4. PICK x \in T : B = Below(T, x)
  OBVIOUS
<1>5. ASSUME NEW y \in T, y < x PROVE FALSE
  <2>1. x \in Nat /\ y \in Nat
    OBVIOUS
  <2>2. Below(T, y) \subseteq Below(T, x)
    <3>1. ASSUME NEW z \in T, z < y PROVE z < x
      <4>1. z \in Nat
        OBVIOUS
      <4>2. QED
        BY <1>5, <2>1, <3>1, <4>1
    <3>2. QED
      BY <3>1 DEF Below
  <2>3. y \in Below(T, x) /\ y \notin Below(T, y)
    BY <1>5, <2>1 DEF Below
  <2>4. Below(T, y) # Below(T, x) /\ Below(T, x) \subseteq Nat
    BY <2>3 DEF Below
  <2>5. <<Below(T, y), Below(T, x)>> \in StrictSubsetOrdering(Nat)
    BY <2>2, <2>4 DEF StrictSubsetOrdering
  <2>6. QED
    BY <1>3, <1>4, <2>5
<1>6. ASSUME NEW y \in T PROVE x <= y
  <2>1. x \in Nat /\ y \in Nat /\ ~(y < x)
    BY <1>5
  <2>2. QED
    BY <2>1
<1>7. QED
  BY <1>6

LEMMA Upward ==
  ASSUME NEW T, 0 \in T, \A n \in Nat : n \in T => n + 1 \in T
  PROVE  Nat \subseteq T
<1>1. SUFFICES ASSUME Nat \ T # {} PROVE FALSE
  OBVIOUS
<1>2. PICK x \in Nat \ T : \A y \in Nat \ T : x <= y
  BY <1>1, Least
<1>3. x # 0 /\ x - 1 \in Nat /\ x - 1 < x /\ (x - 1) + 1 = x
  BY <1>2
<1>4. QED
  BY <1>2, <1>3

(* g starts at s and follows the steps up to n.                            *)
Follows(g, s, step, n) == g[0] = s /\ \A i \in 1..n : g[i] = step[g[i - 1]]

LEMMA Iterated ==
  ASSUME NEW S, NEW s \in S, NEW step \in [S -> S]
  PROVE  \E f \in [Nat -> S] : f[0] = s /\ \A n \in Nat : f[n + 1] = step[f[n]]
<1> DEFINE T == {n \in Nat : \E g \in [0..n -> S] : Follows(g, s, step, n)}
<1>1. 0 \in T
  <2>1. [i \in 0..0 |-> s] \in [0..0 -> S] /\ Follows([i \in 0..0 |-> s], s, step, 0)
    BY DEF Follows
  <2>2. QED
    BY <2>1
<1>2. ASSUME NEW n \in Nat, n \in T PROVE n + 1 \in T
  <2>1. PICK g \in [0..n -> S] : Follows(g, s, step, n)
    BY <1>2
  <2> DEFINE h == [i \in 0..(n + 1) |-> IF i = n + 1 THEN step[g[n]] ELSE g[i]]
  <2>2. n \in 0..n /\ g[n] \in S /\ step[g[n]] \in S
    OBVIOUS
  <2>3. ASSUME NEW i \in 0..(n + 1), i # n + 1 PROVE i \in 0..n
    BY <2>3
  <2>4. h \in [0..(n + 1) -> S]
    BY <2>2, <2>3
  <2>5. h[0] = s
    BY <2>1 DEF Follows
  <2>6. ASSUME NEW i \in 1..(n + 1) PROVE h[i] = step[h[i - 1]]
    <3>1. i \in 0..(n + 1) /\ i - 1 \in 0..n /\ i - 1 # n + 1 /\ i - 1 \in 0..(n + 1)
      OBVIOUS
    <3>2. h[i - 1] = g[i - 1]
      BY <3>1
    <3>3. CASE i = n + 1
      BY <3>1, <3>2, <3>3
    <3>4. CASE i # n + 1
      <4>1. i \in 1..n /\ h[i] = g[i]
        BY <3>1, <3>4
      <4>2. QED
        BY <2>1, <3>2, <4>1 DEF Follows
    <3>5. QED
      BY <3>3, <3>4
  <2> HIDE DEF h
  <2>7. Follows(h, s, step, n + 1) /\ n + 1 \in Nat
    BY <2>5, <2>6 DEF Follows
  <2>8. QED
    BY <2>4, <2>7
<1>3. Nat \subseteq T
  <2> HIDE DEF T
  <2>1. QED
    BY <1>1, <1>2, Upward
<1>4. ASSUME NEW n \in Nat, NEW m \in Nat, NEW g, NEW h,
             Follows(g, s, step, n), Follows(h, s, step, m)
      PROVE  \A i \in Nat : i <= n /\ i <= m => g[i] = h[i]
  <2> DEFINE U == {i \in Nat : i <= n /\ i <= m => g[i] = h[i]}
  <2>1. 0 \in U
    BY <1>4 DEF Follows
  <2>2. ASSUME NEW i \in Nat, i \in U PROVE i + 1 \in U
    <3>1. SUFFICES ASSUME i + 1 <= n, i + 1 <= m PROVE g[i + 1] = h[i + 1]
      OBVIOUS
    <3>2. i + 1 \in 1..n /\ i + 1 \in 1..m /\ (i + 1) - 1 = i /\ i <= n /\ i <= m
      BY <3>1
    <3>3. g[i] = h[i]
      BY <2>2, <3>2
    <3>4. QED
      BY <1>4, <3>2, <3>3 DEF Follows
  <2>3. Nat \subseteq U
    <3> HIDE DEF U
    <3>1. QED
      BY <2>1, <2>2, Upward
  <2>4. QED
    BY <2>3
<1> DEFINE G(n) == CHOOSE g \in [0..n -> S] : Follows(g, s, step, n)
           f == [n \in Nat |-> G(n)[n]]
<1>5. \A n \in Nat : G(n) \in [0..n -> S] /\ Follows(G(n), s, step, n)
  BY <1>3
<1> HIDE DEF G
<1>6. ASSUME NEW n \in Nat PROVE f[n] \in S
  <2>1. n \in 0..n /\ G(n) \in [0..n -> S]
    BY <1>5
  <2>2. QED
    BY <2>1
<1>7. f[0] = s
  BY <1>5 DEF Follows
<1>8. ASSUME NEW n \in Nat PROVE f[n + 1] = step[f[n]]
  <2>1. n + 1 \in Nat /\ n <= n /\ n <= n + 1 /\ n + 1 \in 1..(n + 1) /\ (n + 1) - 1 = n
    OBVIOUS
  <2>2. G(n + 1)[n] = G(n)[n]
    BY <1>4, <1>5, <2>1
  <2>3. G(n + 1)[n + 1] = step[G(n + 1)[n]]
    BY <1>5, <2>1 DEF Follows
  <2>4. QED
    BY <2>1, <2>2, <2>3
<1>9. f \in [Nat -> S]
  BY <1>6
<1>10. QED
  <2> HIDE DEF f
  <2>1. QED
    BY <1>7, <1>8, <1>9

-----------------------------------------------------------------------------
(***************************************************************************)
(* The walk of the checkpoint lookup, for any graph and any checkpoints.   *)
(***************************************************************************)

LEMMA SameCardinality == ASSUME NEW S PROVE Lookup!Cardinality(S) = Cardinality(S)
  BY Zenon DEF Lookup!Cardinality, Cardinality

(* What a walk finds from each cursor, given what it finds in a step less. *)
Steps(g, known, parentOf) ==
  [cursor \in Nat |-> IF cursor \in known THEN cursor
                      ELSE IF cursor \notin DOMAIN parentOf THEN 0 ELSE g[parentOf[cursor]]]

(* The function that FirstMet defines by recursion.                        *)
WalkBody(walk, known, parentOf) ==
  [steps \in Nat |->
     [cursor \in Nat |->
        IF cursor \in known THEN cursor
        ELSE IF steps = 0 \/ cursor \notin DOMAIN parentOf THEN 0
        ELSE walk[steps - 1][parentOf[cursor]]]]

LEMMA WalkExists ==
  ASSUME NEW parentOf, NEW known, \A c \in DOMAIN parentOf : parentOf[c] \in Nat
  PROVE  \E walk : walk = WalkBody(walk, known, parentOf)
<1>1. PICK S : S = [Nat -> Nat]
  OBVIOUS
<1>2. PICK first \in S : \A c \in Nat : first[c] = IF c \in known THEN c ELSE 0
  <2>1. [c \in Nat |-> IF c \in known THEN c ELSE 0] \in S
    BY <1>1
  <2>2. QED
    BY <2>1
<1>3. PICK step \in [S -> S] : \A g \in S : step[g] = Steps(g, known, parentOf)
  <2>1. ASSUME NEW g \in S PROVE Steps(g, known, parentOf) \in S
    BY <1>1 DEF Steps
  <2>2. [g \in S |-> Steps(g, known, parentOf)] \in [S -> S]
    BY <2>1
  <2>3. QED
    BY <2>2
<1>4. PICK f \in [Nat -> S] : f[0] = first /\ \A n \in Nat : f[n + 1] = step[f[n]]
  BY Iterated
<1>5. ASSUME NEW n \in Nat PROVE f[n] = WalkBody(f, known, parentOf)[n]
  <2>1. f[n] \in [Nat -> Nat]
    BY <1>1, <1>4
  <2>2. CASE n = 0
    BY <1>2, <1>4, <2>1, <2>2 DEF WalkBody
  <2>3. CASE n # 0
    <3>1. n - 1 \in Nat /\ (n - 1) + 1 = n
      BY <2>3
    <3>2. f[n] = Steps(f[n - 1], known, parentOf)
      BY <1>3, <1>4, <3>1
    <3>3. QED
      BY <2>3, <3>2 DEF Steps, WalkBody
  <2>4. QED
    BY <2>2, <2>3
<1>6. f = WalkBody(f, known, parentOf)
  <2>1. f = [n \in Nat |-> f[n]]
    BY <1>4
  <2>2. WalkBody(f, known, parentOf) = [n \in Nat |-> WalkBody(f, known, parentOf)[n]]
    BY DEF WalkBody
  <2>3. QED
    BY <1>5, <2>1, <2>2
<1>7. QED
  BY <1>6

LEMMA WalkIs ==
  ASSUME NEW parentOf, NEW known, NEW start \in Nat,
         \A c \in DOMAIN parentOf : parentOf[c] \in Nat
  PROVE  \E walk :
           /\ \A k, c \in Nat :
                walk[k][c] = IF c \in known THEN c
                             ELSE IF k = 0 \/ c \notin DOMAIN parentOf THEN 0
                             ELSE walk[k - 1][parentOf[c]]
           /\ Lookup!FirstMet(start, parentOf, known)
                = walk[Cardinality(DOMAIN parentOf)][start]
<1> DEFINE W == CHOOSE walk : walk = WalkBody(walk, known, parentOf)
<1>1. Lookup!FirstMet(start, parentOf, known) = W[Cardinality(DOMAIN parentOf)][start]
  <2>1. Lookup!FirstMet(start, parentOf, known) = W[Lookup!Cardinality(DOMAIN parentOf)][start]
    BY Zenon DEF Lookup!FirstMet, WalkBody
  <2> HIDE DEF W
  <2>2. QED
    BY <2>1, SameCardinality
<1>2. W = WalkBody(W, known, parentOf)
  BY WalkExists
<1> HIDE DEF W
<1>3. \A k, c \in Nat :
        W[k][c] = IF c \in known THEN c
                  ELSE IF k = 0 \/ c \notin DOMAIN parentOf THEN 0
                  ELSE W[k - 1][parentOf[c]]
  <2> TAKE k, c \in Nat
  <2>1. W[k] = WalkBody(W, known, parentOf)[k]
    BY <1>2
  <2>2. QED
    BY <2>1 DEF WalkBody
<1>4. QED
  BY <1>1, <1>3

(* A walk that cannot leave a set without a checkpoint finds none.         *)
LEMMA WalkFindsNone ==
  ASSUME NEW parentOf, NEW known, NEW A, A \subseteq Nat, NEW start \in A,
         \A c \in DOMAIN parentOf : parentOf[c] \in Nat,
         IsFiniteSet(DOMAIN parentOf),
         \A c \in A : c \notin known,
         \A c \in A : c \in DOMAIN parentOf => parentOf[c] \in A
  PROVE  Lookup!FirstMet(start, parentOf, known) = 0
<1>1. PICK walk :
        /\ \A k, c \in Nat :
             walk[k][c] = IF c \in known THEN c
                          ELSE IF k = 0 \/ c \notin DOMAIN parentOf THEN 0
                          ELSE walk[k - 1][parentOf[c]]
        /\ Lookup!FirstMet(start, parentOf, known)
             = walk[Cardinality(DOMAIN parentOf)][start]
  BY WalkIs
<1> DEFINE T == {k \in Nat : \A c \in A : walk[k][c] = 0}
<1>2. 0 \in T
  BY <1>1
<1>3. ASSUME NEW k \in Nat, k \in T PROVE k + 1 \in T
  <2>1. ASSUME NEW c \in A PROVE walk[k + 1][c] = 0
    <3>1. k + 1 \in Nat /\ k + 1 # 0 /\ (k + 1) - 1 = k /\ c \in Nat
      OBVIOUS
    <3>2. walk[k + 1][c] = IF c \notin DOMAIN parentOf THEN 0 ELSE walk[k][parentOf[c]]
      BY <1>1, <3>1
    <3>3. QED
      BY <1>3, <3>2
  <2>2. QED
    BY <2>1
<1>4. Nat \subseteq T
  <2> HIDE DEF T
  <2>1. QED
    BY <1>2, <1>3, Upward
<1>5. Cardinality(DOMAIN parentOf) \in Nat
  BY FS_CardinalityType
<1>6. QED
  BY <1>1, <1>4, <1>5

(* A walk downward that stays above a checkpoint and meets no other before *)
(* finds it: there are fewer nodes in between than steps.                  *)
LEMMA WalkFinds ==
  ASSUME NEW parentOf, NEW known, NEW A, A \subseteq Nat, NEW start \in A,
         \A c \in DOMAIN parentOf : parentOf[c] \in Nat,
         IsFiniteSet(DOMAIN parentOf), DOMAIN parentOf \subseteq Nat,
         NEW found \in known, found \in Nat,
         \A c \in A : c >= found,
         \A c \in A : c # found => /\ c \notin known /\ c \in DOMAIN parentOf
                                  /\ parentOf[c] \in A /\ parentOf[c] < c
  PROVE  Lookup!FirstMet(start, parentOf, known) = found
<1>1. PICK walk :
        /\ \A k, c \in Nat :
             walk[k][c] = IF c \in known THEN c
                          ELSE IF k = 0 \/ c \notin DOMAIN parentOf THEN 0
                          ELSE walk[k - 1][parentOf[c]]
        /\ Lookup!FirstMet(start, parentOf, known)
             = walk[Cardinality(DOMAIN parentOf)][start]
  BY WalkIs
<1> DEFINE Between(c) == {d \in DOMAIN parentOf : found < d /\ d <= c}
           T == {k \in Nat : \A c \in A : Cardinality(Between(c)) <= k => walk[k][c] = found}
<1>2. \A k \in Nat : walk[k][found] = found
  BY <1>1
<1>3. ASSUME NEW c \in A
      PROVE  /\ IsFiniteSet(Between(c)) /\ Cardinality(Between(c)) \in Nat
             /\ Cardinality(Between(c)) <= Cardinality(DOMAIN parentOf)
  <2>1. Between(c) \in SUBSET (DOMAIN parentOf)
    OBVIOUS
  <2> HIDE DEF Between
  <2>2. QED
    BY <2>1, FS_Subset, FS_CardinalityType
<1>4. ASSUME NEW c \in A, c # found
      PROVE  /\ c \in Between(c) /\ parentOf[c] \in A
             /\ Cardinality(Between(parentOf[c])) <= Cardinality(Between(c)) - 1
  <2>1. c \in Nat /\ parentOf[c] \in Nat /\ found < c /\ parentOf[c] < c /\ parentOf[c] \in A
        /\ c \in DOMAIN parentOf
    BY <1>4
  <2>2. c \in Between(c) /\ Between(parentOf[c]) \subseteq Between(c) \ {c}
    BY <2>1
  <2> HIDE DEF Between
  <2>3. /\ IsFiniteSet(Between(c) \ {c})
        /\ Cardinality(Between(c) \ {c}) = Cardinality(Between(c)) - 1
    BY <1>3, <2>2, FS_RemoveElement
  <2>4. Cardinality(Between(parentOf[c])) <= Cardinality(Between(c) \ {c})
    <3>1. Between(parentOf[c]) \in SUBSET (Between(c) \ {c})
      BY <2>2
    <3>2. QED
      BY <2>3, <3>1, FS_Subset
  <2>5. QED
    BY <2>1, <2>2, <2>3, <2>4
<1> HIDE DEF Between
<1>5. 0 \in T
  <2>1. ASSUME NEW c \in A, Cardinality(Between(c)) <= 0 PROVE c = found
    <3>1. Cardinality(Between(c)) = 0
      BY <1>3, <2>1
    <3>2. Between(c) = {}
      BY <1>3, <3>1, FS_EmptySet
    <3>3. QED
      BY <1>4, <3>2
  <2>2. QED
    BY <1>2, <2>1
<1>6. ASSUME NEW k \in Nat, k \in T PROVE k + 1 \in T
  <2>1. ASSUME NEW c \in A, Cardinality(Between(c)) <= k + 1 PROVE walk[k + 1][c] = found
    <3>1. CASE c = found
      <4>1. k + 1 \in Nat
        OBVIOUS
      <4>2. QED
        BY <1>2, <3>1, <4>1
    <3>2. CASE c # found
      <4>1. k + 1 \in Nat /\ k + 1 # 0 /\ (k + 1) - 1 = k /\ c \in Nat
        OBVIOUS
      <4>2. c \notin known /\ c \in DOMAIN parentOf
        BY <3>2
      <4>3. walk[k + 1][c] = walk[k][parentOf[c]]
        BY <1>1, <4>1, <4>2
      <4>4. parentOf[c] \in A /\ Cardinality(Between(parentOf[c])) <= k
        <5>1. parentOf[c] \in A /\ Cardinality(Between(parentOf[c])) <= Cardinality(Between(c)) - 1
          BY <1>4, <3>2
        <5>2. Cardinality(Between(parentOf[c])) \in Nat /\ Cardinality(Between(c)) \in Nat
          BY <1>3, <5>1
        <5>3. QED
          BY <2>1, <5>1, <5>2
      <4>5. walk[k][parentOf[c]] = found
        BY <1>6, <4>4
      <4>6. QED
        BY <4>3, <4>5
    <3>3. QED
      BY <3>1, <3>2
  <2>2. QED
    BY <2>1
<1>7. Nat \subseteq T
  <2> HIDE DEF T
  <2>1. QED
    BY <1>5, <1>6, Upward
<1>8. Cardinality(DOMAIN parentOf) \in Nat
  BY FS_CardinalityType
<1>9. walk[Cardinality(DOMAIN parentOf)][start] = found
  BY <1>3, <1>7, <1>8
<1>10. QED
  BY <1>1, <1>9

-----------------------------------------------------------------------------
(***************************************************************************)
(* The log of the loop: where an event's node and parent are, which start  *)
(* events have no end, and which branch the events are on.                 *)
(***************************************************************************)

(* A node is named by the position of its first event and hangs from the   *)
(* node of the event before; an end event comes right after its start.     *)
Placed(i) ==
  /\ trace[i].type = "run_start" <=> i = 1
  /\ i = 1 => trace[i].parent = 0 /\ trace[i].from = 0
  /\ trace[i].type \in Tracker!EndTypes =>
       i > 1 /\ trace[i - 1].type \in Tracker!StartTypes /\ trace[i].node = i - 1
  /\ trace[i].type \notin Tracker!EndTypes =>
       /\ trace[i].node = i
       /\ (i > 1 /\ trace[i].type # "branch_start") => trace[i].parent = trace[i - 1].node

(* A call that the chat function left without an end is followed by the    *)
(* final checkpoint at most, and by run_end.                               *)
Unended(i) ==
  /\ trace[i].type \in Tracker!StartTypes
  /\ i < Len(trace) => trace[i + 1].type \notin Tracker!EndTypes

LeftOpen(i) ==
  /\ status = "failed"
  /\ i = Len(trace) => pc \in {"final", "end"}
  /\ i < Len(trace) =>
       /\ pc \in {"end", "returned"}
       /\ trace[i + 1].type \in {"checkpoint", "run_end"}
       /\ i + 1 < Len(trace) => trace[i + 2].type = "run_end"

InACall == pc \in {"reply", "running"}

Calls ==
  /\ InACall => trace[Len(trace)].type \in Tracker!StartTypes
  /\ \A i \in 1..Len(trace) : Unended(i) => (i = Len(trace) /\ InACall) \/ LeftOpen(i)
  /\ \A i \in 1..Len(trace) : trace[i].type = "run_end" => i = Len(trace) /\ pc = "returned"

(* Events stay on the branch until a fork opens the next one.              *)
Branching ==
  /\ \A i \in 1..Len(trace) : trace[i].branch \in 1..branch
  /\ \A i, j \in 1..Len(trace) : i <= j => trace[i].branch <= trace[j].branch
  /\ \A f \in 1..Len(trace) : trace[f].type = "branch_start" =>
       /\ trace[f].from = trace[f].branch - 1
       /\ \A i \in 1..(f - 1) : trace[i].branch < trace[f].branch
  /\ \A b \in 1..branch : \E o \in 1..Len(trace) :
       trace[o].type \in {"run_start", "branch_start"} /\ trace[o].branch = b

LogInv == (\A i \in 1..Len(trace) : Placed(i)) /\ Calls /\ Branching

-----------------------------------------------------------------------------
(***************************************************************************)
(* The steps of the loop as the log sees them.                             *)
(***************************************************************************)

Loop == {"baseline", "chat", "dispatch", "pre_tool", "execute", "post_tool",
         "pre_restore", "restore", "fork"}

(* An event is appended on the branch.                                     *)
Written(type, node, parent) ==
  /\ branch' = branch
  /\ \E e \in Tracker!Event : /\ trace' = Append(trace, e) /\ e.branch = branch
                              /\ e.type = type /\ e.node = node /\ e.parent = parent

QuietStep ==
  /\ UNCHANGED trackerVars
  /\ \/ UNCHANGED <<pc, status>>
     \/ pc \in Loop /\ pc' \in Loop \cup {"final"}
     \/ pc = "reply" /\ pc' = "final" /\ status' = "failed"
     \/ pc = "final" /\ pc' = "end" /\ UNCHANGED status

NoteStep ==
  /\ pc \in Loop /\ pc' \in Loop
  /\ \E type \in {"checkpoint", "policy_allow", "policy_deny"} :
       Written(type, Tracker!FreshNode, Tracker!LastNode)

StartStep ==
  /\ pc \in Loop /\ pc' \in {"reply", "running"}
  /\ \E type \in Tracker!StartTypes : Written(type, Tracker!FreshNode, Tracker!LastNode)

EndStep ==
  /\ InACall /\ pc' \in Loop \cup {"final"}
  /\ \E type \in Tracker!EndTypes : Written(type, Tracker!LastNode, Tracker!LastNode)

ForkStep ==
  /\ pc \in Loop /\ pc' \in Loop
  /\ branch' = branch + 1
  /\ \E e \in Tracker!Event : /\ trace' = Append(trace, e) /\ e.branch = branch + 1
                              /\ e.type = "branch_start" /\ e.from = branch
                              /\ e.node = Tracker!FreshNode

FinalStep ==
  /\ pc = "final" /\ pc' = "end" /\ UNCHANGED status
  /\ Written("checkpoint", Tracker!FreshNode, Tracker!LastNode)

LastStep ==
  /\ pc = "end" /\ pc' = "returned" /\ UNCHANGED status
  /\ Written("run_end", Tracker!FreshNode, Tracker!LastNode)

LEMMA EmitWritten ==
  ASSUME NEW type \in Tracker!EventTypes, NEW node \in Nat, NEW parent \in Nat,
         NEW attr \in Tracker!Attributes, branch \in Nat, branch' = branch,
         Tracker!Emit(type, node, parent, attr, 0)
  PROVE  Written(type, node, parent)
<1> DEFINE e == [type |-> type, node |-> node, parent |-> parent,
                 branch |-> branch', attr |-> attr, from |-> 0]
<1>1. /\ e \in Tracker!Event /\ e.type = type /\ e.node = node /\ e.parent = parent
      /\ e.branch = branch
  BY DEF Tracker!Event
<1>2. trace' = Append(trace, e)
  BY DEF Tracker!Emit
<1> HIDE DEF e
<1>3. QED
  BY <1>1, <1>2 DEF Written

LEMMA StepKinds ==
  ASSUME IInv, Next
  PROVE  \/ QuietStep \/ NoteStep \/ StartStep \/ EndStep \/ ForkStep
         \/ FinalStep \/ LastStep
<1> USE DEF Tracker!Note, Tracker!BeforeCall, Tracker!AfterCall, Tracker!EndRun
<1>1. /\ {"checkpoint", "policy_allow", "policy_deny", "run_end", "branch_start"}
             \subseteq Tracker!EventTypes
      /\ {"model_call_start", "tool_call_start"} \subseteq Tracker!StartTypes
      /\ {"model_call_end", "tool_call_end"} \subseteq Tracker!EndTypes
      /\ Tracker!StartTypes \cup Tracker!EndTypes \subseteq Tracker!EventTypes
      /\ {"", "manual", "pre_tool", "post_tool", "pre_restore", "final",
          "completed", "failed"} \subseteq Tracker!Attributes
  BY DEF Tracker!EventTypes, Tracker!StartTypes, Tracker!EndTypes,
         Tracker!PlainTypes, Tracker!Attributes, Tracker!SnapshotKinds
<1>2. /\ Tracker!LastNode \in Nat /\ Tracker!FreshNode \in Nat
      /\ branch \in Nat /\ denyNode \in Nat /\ status \in {"completed", "failed"}
      /\ pc \in Locations
  BY NodesTyped DEF IInv, TypeOK
<1>3. ASSUME NEW type \in Tracker!EventTypes, NEW node \in Nat, NEW parent \in Nat,
             NEW attr \in Tracker!Attributes, branch' = branch,
             Tracker!Emit(type, node, parent, attr, 0)
      PROVE  Written(type, node, parent)
  BY <1>2, <1>3, EmitWritten
<1>4. ASSUME NEW kind \in Tracker!Attributes, SnapAndCheckpoint(kind)
      PROVE  \/ UNCHANGED trackerVars
             \/ Written("checkpoint", Tracker!FreshNode, Tracker!LastNode)
  BY <1>1, <1>2, <1>3, <1>4 DEF SnapAndCheckpoint, SnapshotTaken, SnapshotFails
<1>5. CASE Baseline \/ PreToolSnapshot \/ PostToolSnapshot \/ PreRestoreSnapshot
  <2>1. pc \in Loop /\ pc' \in Loop
    BY <1>5 DEF Baseline, PreToolSnapshot, PostToolSnapshot, PreRestoreSnapshot, Loop
  <2>2. \E kind \in {"manual", "pre_tool", "post_tool", "pre_restore"} :
          SnapAndCheckpoint(kind)
    BY <1>5 DEF Baseline, PreToolSnapshot, PostToolSnapshot, PreRestoreSnapshot
  <2>3. \/ UNCHANGED trackerVars
        \/ Written("checkpoint", Tracker!FreshNode, Tracker!LastNode)
    BY <1>1, <1>4, <2>2
  <2>4. QED
    BY <2>1, <2>3 DEF QuietStep, NoteStep
<1>6. CASE FinalSnapshot
  <2>1. pc = "final" /\ pc' = "end" /\ status' = status /\ SnapAndCheckpoint("final")
    BY <1>6 DEF FinalSnapshot
  <2>2. \/ UNCHANGED trackerVars
        \/ Written("checkpoint", Tracker!FreshNode, Tracker!LastNode)
    BY <1>1, <1>4, <2>1
  <2>3. QED
    BY <2>1, <2>2 DEF QuietStep, FinalStep
<1>7. CASE AllowCall \/ DenyAndRollBack \/ DenyAndAnswer
  <2>1. pc \in Loop /\ pc' \in Loop
    BY <1>7 DEF AllowCall, DenyAndRollBack, DenyAndAnswer, Loop
  <2>2. \E type \in {"policy_allow", "policy_deny"} :
          /\ branch' = branch
          /\ Tracker!Emit(type, Tracker!FreshNode, Tracker!LastNode, "", 0)
    BY <1>7 DEF AllowCall, DenyAndRollBack, DenyAndAnswer
  <2>3. \E type \in {"policy_allow", "policy_deny"} :
          Written(type, Tracker!FreshNode, Tracker!LastNode)
    BY <1>1, <1>2, <1>3, <2>2
  <2>4. QED
    BY <2>1, <2>3 DEF NoteStep
<1>8. CASE StartChat \/ StartTool
  <2>1. pc \in Loop /\ pc' \in {"reply", "running"}
    BY <1>8 DEF StartChat, StartTool, Loop
  <2>2. \E type \in {"model_call_start", "tool_call_start"} :
          /\ branch' = branch
          /\ Tracker!Emit(type, Tracker!FreshNode, Tracker!LastNode, "", 0)
    BY <1>8 DEF StartChat, StartTool
  <2>3. \E type \in Tracker!StartTypes : Written(type, Tracker!FreshNode, Tracker!LastNode)
    BY <1>1, <1>2, <1>3, <2>2
  <2>4. QED
    BY <2>1, <2>3 DEF StartStep
<1>9. CASE (\E kinds \in Replies : Reply(kinds)) \/ ToolSucceeds \/ ToolFails
  <2>1. InACall /\ pc' \in Loop \cup {"final"}
    BY <1>9 DEF Reply, ToolSucceeds, ToolFails, Loop, InACall
  <2>2. \E type \in {"model_call_end", "tool_call_end"} :
          /\ branch' = branch
          /\ Tracker!Emit(type, Tracker!LastNode, Tracker!LastNode, "", 0)
    BY <1>9 DEF Reply, ToolSucceeds, ToolFails
  <2>3. \E type \in Tracker!EndTypes : Written(type, Tracker!LastNode, Tracker!LastNode)
    BY <1>1, <1>2, <1>3, <2>2
  <2>4. QED
    BY <2>1, <2>3 DEF EndStep
<1>10. CASE Fork
  <2>0. branch' \in Nat
    <3>1. branch' = branch + 1
      BY <1>10 DEF Fork, Tracker!BranchOff
    <3>2. QED
      BY <1>2, <3>1
  <2> DEFINE e == [type |-> "branch_start", node |-> Tracker!FreshNode,
                   parent |-> denyNode, branch |-> branch', attr |-> "",
                   from |-> branch]
  <2>1. pc \in Loop /\ pc' \in Loop /\ branch' = branch + 1 /\ trace' = Append(trace, e)
    BY <1>10 DEF Fork, Tracker!BranchOff, Tracker!Emit, Loop
  <2>3. e \in Tracker!Event
    BY <1>1, <1>2, <2>0 DEF Tracker!Event
  <2>4. /\ e.type = "branch_start" /\ e.from = branch /\ e.node = Tracker!FreshNode
        /\ e.branch = branch + 1
    BY <2>1
  <2> HIDE DEF e
  <2>5. QED
    BY <2>1, <2>3, <2>4 DEF ForkStep
<1>11. CASE EndSession
  <2>1. /\ pc = "end" /\ pc' = "returned" /\ status' = status /\ branch' = branch
        /\ Tracker!Emit("run_end", Tracker!FreshNode, Tracker!LastNode, status, 0)
    BY <1>11 DEF EndSession
  <2>2. Written("run_end", Tracker!FreshNode, Tracker!LastNode)
    BY <1>1, <1>2, <1>3, <2>1
  <2>3. QED
    BY <2>1, <2>2 DEF LastStep
<1>12. CASE OutOfIterations \/ NextIteration \/ RejectCall \/ CallThrows \/ Restore
            \/ RestoreFails
  BY <1>12 DEF OutOfIterations, NextIteration, RejectCall, CallThrows, Restore, RestoreFails,
               QuietStep, Loop
<1>13. CASE ChatThrows \/ Returned
  BY <1>13 DEF ChatThrows, Returned, vars, trackerVars, QuietStep
<1>14. QED
  BY <1>5, <1>6, <1>7, <1>8, <1>9, <1>10, <1>11, <1>12, <1>13 DEF Next

(* What an appended event has to be for the log to stay placed.            *)
LEMMA PlacedGrows ==
  ASSUME IInv, \A i \in 1..Len(trace) : Placed(i),
         NEW e \in Tracker!Event, trace' = Append(trace, e), e.type # "run_start",
         e.type \in Tracker!EndTypes =>
           trace[Len(trace)].type \in Tracker!StartTypes /\ e.node = Len(trace),
         e.type \notin Tracker!EndTypes =>
           /\ e.node = Len(trace) + 1
           /\ e.type # "branch_start" => e.parent = trace[Len(trace)].node
  PROVE  (\A i \in 1..Len(trace) : Placed(i))'
<1>1. PICK n \in Nat : n = Len(trace) /\ n > 0
  BY DEF IInv, TypeOK, Control
<1>2. /\ Len(trace') = n + 1 /\ trace'[n + 1] = e
      /\ \A i \in 1..n : trace'[i] = trace[i]
  BY <1>1, AppendedTo DEF IInv, TypeOK
<1>3. ASSUME NEW i \in 1..n PROVE Placed(i)'
  <2>1. i > 1 => i - 1 \in 1..n
    BY <1>1
  <2>2. Placed(i) /\ trace'[i] = trace[i] /\ (i > 1 => trace'[i - 1] = trace[i - 1])
    BY <1>1, <1>2, <2>1
  <2>3. QED
    BY <2>2 DEF Placed
<1>4. Placed(n + 1)'
  <2>1. n + 1 > 1 /\ (n + 1) - 1 = n /\ n + 1 # 1 /\ n \in 1..n
    BY <1>1
  <2>2. trace'[n + 1] = e /\ trace'[n] = trace[n]
    BY <1>2, <2>1
  <2>3. QED
    BY <1>1, <2>1, <2>2 DEF Placed
<1>5. QED
  <2>1. \A i \in 1..(n + 1) : i \in 1..n \/ i = n + 1
    OBVIOUS
  <2>2. QED
    BY <1>2, <1>3, <1>4, <2>1

LEMMA UpTo == \A c \in Nat : \A d \in 1..c : d <= c
  OBVIOUS

LEMMA BranchingGrows ==
  ASSUME IInv, Branching, NEW e \in Tracker!Event, trace' = Append(trace, e),
         \/ branch' = branch /\ e.branch = branch /\ e.type # "branch_start"
         \/ /\ branch' = branch + 1 /\ e.branch = branch + 1
            /\ e.type = "branch_start" /\ e.from = branch
  PROVE  Branching'
<1>1. PICK n \in Nat : n = Len(trace) /\ n > 0
  BY DEF IInv, TypeOK, Control
<1>2. /\ Len(trace') = n + 1 /\ trace'[n + 1] = e
      /\ \A i \in 1..n : trace'[i] = trace[i]
  BY <1>1, AppendedTo DEF IInv, TypeOK
<1>3. PICK b \in Nat : b = branch
  BY DEF IInv, TypeOK
<1>4. PICK c \in Nat : c = branch' /\ e.branch = c
                      /\ (c = b \/ c = b + 1)
                      /\ (e.type = "branch_start" => c = b + 1 /\ e.from = b)
                      /\ (c = b + 1 => e.type = "branch_start")
  BY <1>3
<1>5. \A i \in 1..(n + 1) : i \in 1..n \/ i = n + 1
  OBVIOUS
<1>6. /\ \A i \in 1..n : trace[i].branch \in 1..b
      /\ \A i, j \in 1..n : i <= j => trace[i].branch <= trace[j].branch
      /\ \A f \in 1..n : trace[f].type = "branch_start" =>
           /\ trace[f].from = trace[f].branch - 1
           /\ \A i \in 1..(f - 1) : trace[i].branch < trace[f].branch
      /\ \A d \in 1..b : \E o \in 1..n :
           trace[o].type \in {"run_start", "branch_start"} /\ trace[o].branch = d
  BY <1>1, <1>3 DEF Branching
<1>7. b > 0 /\ c > 0
  <2>1. 1 \in 1..n
    BY <1>1
  <2>2. trace[1].branch \in 1..b
    BY <1>6, <2>1
  <2>3. QED
    BY <1>4, <2>2
<1>8. \A i \in 1..(n + 1) : trace'[i].branch \in 1..c
  <2>1. \A i \in 1..n : trace'[i].branch \in 1..c
    BY <1>2, <1>4, <1>6
  <2>2. trace'[n + 1].branch \in 1..c
    BY <1>2, <1>4, <1>7
  <2>3. QED
    BY <1>5, <2>1, <2>2
<1>9. \A i, j \in 1..(n + 1) : i <= j => trace'[i].branch <= trace'[j].branch
  <2> TAKE i, j \in 1..(n + 1)
  <2> SUFFICES ASSUME i <= j PROVE trace'[i].branch <= trace'[j].branch
    OBVIOUS
  <2>1. CASE j = n + 1
    <3>1. trace'[j].branch = c
      BY <1>2, <1>4, <2>1
    <3>2. trace'[i].branch <= c
      <4>1. trace'[i].branch \in 1..c
        BY <1>8
      <4>2. QED
        BY Zenon, <4>1, UpTo
    <3>3. QED
      BY <3>1, <3>2
  <2>2. CASE j # n + 1
    <3>1. i \in 1..n /\ j \in 1..n
      BY <2>2
    <3>2. QED
      BY <1>2, <1>6, <3>1
  <2>3. QED
    BY <2>1, <2>2
<1>10. ASSUME NEW f \in 1..(n + 1), trace'[f].type = "branch_start"
       PROVE  /\ trace'[f].from = trace'[f].branch - 1
              /\ \A i \in 1..(f - 1) : trace'[i].branch < trace'[f].branch
  <2>1. CASE f \in 1..n
    <3>1. \A i \in 1..(f - 1) : i \in 1..n
      BY <2>1
    <3>2. QED
      BY <1>2, <1>6, <1>10, <2>1, <3>1
  <2>2. CASE f = n + 1
    <3>1. trace'[f] = e /\ c = b + 1 /\ e.from = b /\ e.branch = c
      BY <1>2, <1>4, <1>10, <2>2
    <3>2. \A i \in 1..(f - 1) : i \in 1..n /\ trace'[i].branch \in 1..b
      BY <1>2, <1>6, <2>2
    <3>3. trace'[f].from = trace'[f].branch - 1
      BY <3>1
    <3>4. \A i \in 1..(f - 1) : trace'[i].branch < trace'[f].branch
      BY <3>1, <3>2
    <3>5. QED
      BY <3>3, <3>4
  <2>3. QED
    BY <1>5, <2>1, <2>2
<1>11. ASSUME NEW d \in 1..c
       PROVE  \E o \in 1..(n + 1) :
                trace'[o].type \in {"run_start", "branch_start"} /\ trace'[o].branch = d
  <2>1. CASE d \in 1..b
    <3>1. PICK o \in 1..n :
            trace[o].type \in {"run_start", "branch_start"} /\ trace[o].branch = d
      BY <1>6, <2>1
    <3>2. o \in 1..(n + 1) /\ trace'[o] = trace[o]
      BY <1>2
    <3>3. QED
      BY <3>1, <3>2
  <2>2. CASE d \notin 1..b
    <3>1. d = c /\ c = b + 1
      BY <1>4, <2>2
    <3>2. n + 1 \in 1..(n + 1) /\ trace'[n + 1].type = "branch_start"
          /\ trace'[n + 1].branch = d
      BY <1>2, <1>4, <3>1
    <3>3. QED
      BY <3>2
  <2>3. QED
    BY <2>1, <2>2
<1>12. QED
  BY <1>2, <1>4, <1>8, <1>9, <1>10, <1>11 DEF Branching

(* Which calls are without an end after an event was appended.             *)
LEMMA UnendedGrows ==
  ASSUME IInv, NEW e \in Tracker!Event, trace' = Append(trace, e),
         NEW i \in 1..Len(trace'), Unended(i)'
  PROVE  \/ /\ i \in 1..Len(trace) /\ Unended(i)
            /\ i = Len(trace) => e.type \notin Tracker!EndTypes
         \/ i = Len(trace') /\ e.type \in Tracker!StartTypes
<1>1. PICK n \in Nat : n = Len(trace)
  BY DEF IInv, TypeOK
<1>2. /\ Len(trace') = n + 1 /\ trace'[n + 1] = e
      /\ \A j \in 1..n : trace'[j] = trace[j]
  BY <1>1, AppendedTo DEF IInv, TypeOK
<1>3. CASE i = n + 1
  BY <1>2, <1>3 DEF Unended
<1>4. CASE i = n
  <2>1. i \in 1..n /\ i < n + 1 /\ i + 1 = n + 1 /\ ~(i < n)
    BY <1>2, <1>4
  <2>2. trace'[i] = trace[i] /\ trace'[i + 1] = e
    BY <1>2, <2>1
  <2>3. QED
    BY <1>1, <1>2, <1>4, <2>1, <2>2 DEF Unended
<1>5. CASE i # n /\ i # n + 1
  <2>1. i \in 1..n /\ i < n + 1 /\ i + 1 \in 1..n /\ i < n
    BY <1>2, <1>5
  <2>2. trace'[i] = trace[i] /\ trace'[i + 1] = trace[i + 1]
    BY <1>2, <2>1
  <2>3. QED
    BY <1>1, <1>2, <1>5, <2>1, <2>2 DEF Unended
<1>6. QED
  BY <1>3, <1>4, <1>5

(* Inside the loop every call but the one under way has its end.           *)
LEMMA LoopCalls ==
  ASSUME Calls, IInv
  PROVE  /\ pc \in Loop => \A i \in 1..Len(trace) : ~Unended(i)
         /\ InACall => \A i \in 1..Len(trace) : Unended(i) => i = Len(trace)
         /\ pc = "final" => \A i \in 1..Len(trace) :
                               Unended(i) => i = Len(trace) /\ status = "failed"
         /\ pc # "returned" => \A i \in 1..Len(trace) : trace[i].type # "run_end"
<1>1. \A i \in 1..Len(trace) : i = Len(trace) \/ i < Len(trace)
  BY DEF IInv, TypeOK
<1>2. QED
  BY <1>1 DEF Calls, LeftOpen, InACall, Loop

LEMMA CallsGrow ==
  ASSUME IInv, Calls, Next
  PROVE  Calls'
<1>1. PICK n \in Nat : n = Len(trace) /\ n > 0
  BY DEF IInv, TypeOK, Control
<1>2. QuietStep \/ NoteStep \/ StartStep \/ EndStep \/ ForkStep \/ FinalStep \/ LastStep
  BY StepKinds
<1>3. ASSUME NEW e \in Tracker!Event, trace' = Append(trace, e)
      PROVE  /\ Len(trace') = n + 1 /\ trace'[n + 1] = e
             /\ \A i \in 1..n : trace'[i] = trace[i]
             /\ \A i \in 1..(n + 1) : i \in 1..n \/ i = n + 1
             /\ \A i \in 1..(n + 1) : Unended(i)' =>
                  \/ i \in 1..n /\ Unended(i) /\ (i = n => e.type \notin Tracker!EndTypes)
                  \/ i = n + 1 /\ e.type \in Tracker!StartTypes
  BY <1>1, <1>3, AppendedTo, UnendedGrows DEF IInv, TypeOK
<1>4. /\ pc \in Loop => \A i \in 1..n : ~Unended(i)
      /\ InACall => \A i \in 1..n : Unended(i) => i = n
      /\ pc = "final" => \A i \in 1..n : Unended(i) => i = n /\ status = "failed"
      /\ pc # "returned" => \A i \in 1..n : trace[i].type # "run_end"
  BY <1>1, LoopCalls
<1>5. /\ \A type \in Tracker!StartTypes \cup Tracker!EndTypes :
           type \notin {"checkpoint", "policy_allow", "policy_deny", "branch_start", "run_end"}
      /\ \A type \in Tracker!StartTypes : type \notin Tracker!EndTypes
  BY DEF Tracker!StartTypes, Tracker!EndTypes
(* An event inside the loop, after which no call is left without an end.   *)
<1>6. ASSUME NEW e \in Tracker!Event, trace' = Append(trace, e),
             pc \in Loop \/ (InACall /\ e.type \in Tracker!EndTypes),
             pc' \in Loop \cup {"final"}, e.type # "run_end",
             e.type \notin Tracker!StartTypes
      PROVE  Calls'
  <2>1. \A i \in 1..(n + 1) : ~Unended(i)'
    BY <1>3, <1>4, <1>6
  <2>2. \A i \in 1..(n + 1) : trace'[i].type # "run_end"
    BY <1>3, <1>4, <1>6 DEF Loop, InACall
  <2>3. ~InACall'
    BY <1>6 DEF Loop, InACall
  <2>4. QED
    BY <1>3, <1>6, <2>1, <2>2, <2>3 DEF Calls
<1>7. CASE NoteStep \/ EndStep
  <2>1. PICK e \in Tracker!Event :
          /\ trace' = Append(trace, e)
          /\ \/ pc \in Loop /\ e.type \in {"checkpoint", "policy_allow", "policy_deny"}
             \/ InACall /\ e.type \in Tracker!EndTypes
    BY <1>7 DEF NoteStep, EndStep, Written
  <2>2. pc' \in Loop \cup {"final"} /\ e.type # "run_end" /\ e.type \notin Tracker!StartTypes
    BY <1>5, <1>7, <2>1 DEF NoteStep, EndStep
  <2>3. QED
    BY <1>6, <2>1, <2>2
<1>8. CASE ForkStep
  <2>1. PICK e \in Tracker!Event : trace' = Append(trace, e) /\ e.type = "branch_start"
    BY <1>8 DEF ForkStep
  <2>2. pc \in Loop /\ pc' \in Loop \cup {"final"} /\ e.type # "run_end"
        /\ e.type \notin Tracker!StartTypes
    BY <1>5, <1>8, <2>1 DEF ForkStep
  <2>3. QED
    BY <1>6, <2>1, <2>2
<1>9. CASE StartStep
  <2>1. PICK e \in Tracker!Event : trace' = Append(trace, e) /\ e.type \in Tracker!StartTypes
    BY <1>9 DEF StartStep, Written
  <2>2. InACall' /\ pc \in Loop
    BY <1>9 DEF StartStep, InACall
  <2>3. \A i \in 1..(n + 1) : Unended(i)' => i = n + 1
    BY <1>3, <1>4, <2>1, <2>2
  <2>4. \A i \in 1..(n + 1) : trace'[i].type # "run_end"
    BY <1>3, <1>4, <1>5, <2>1, <2>2 DEF Loop
  <2>5. QED
    BY <1>3, <2>1, <2>2, <2>3, <2>4 DEF Calls
<1>10. CASE FinalStep
  <2>1. PICK e \in Tracker!Event : trace' = Append(trace, e) /\ e.type = "checkpoint"
    BY <1>10 DEF FinalStep, Written
  <2>2. pc = "final" /\ pc' = "end" /\ status' = status
    BY <1>10 DEF FinalStep
  <2>3. ASSUME NEW i \in 1..(n + 1), Unended(i)' PROVE LeftOpen(i)'
    <3>1. i = n /\ status = "failed"
      BY <1>3, <1>4, <1>5, <2>1, <2>2, <2>3
    <3>2. /\ i + 1 = n + 1 /\ ~(i + 1 < n + 1) /\ trace'[i + 1].type = "checkpoint"
          /\ i # n + 1
      BY <1>3, <2>1, <3>1
    <3>3. QED
      BY <1>3, <2>1, <2>2, <3>1, <3>2 DEF LeftOpen
  <2>4. \A i \in 1..(n + 1) : trace'[i].type # "run_end"
    BY <1>3, <1>4, <2>1, <2>2
  <2>5. QED
    BY <1>3, <2>1, <2>2, <2>3, <2>4 DEF Calls, InACall
<1>11. CASE LastStep
  <2>1. PICK e \in Tracker!Event : trace' = Append(trace, e) /\ e.type = "run_end"
    BY <1>11 DEF LastStep, Written
  <2>2. pc = "end" /\ pc' = "returned" /\ status' = status
    BY <1>11 DEF LastStep
  <2>3. ASSUME NEW i \in 1..(n + 1), Unended(i)' PROVE LeftOpen(i)'
    <3>1. i \in 1..n /\ Unended(i) /\ i < n + 1 /\ i # n + 1
      BY <1>3, <1>5, <2>1, <2>3
    <3>2. LeftOpen(i)
      BY <1>1, <2>2, <3>1 DEF Calls, InACall
    <3>3. trace'[i + 1].type \in {"checkpoint", "run_end"}
      <4>1. CASE i = n
        BY <1>3, <2>1, <4>1
      <4>2. CASE i # n
        <5>1. i + 1 \in 1..n /\ i < n
          BY <3>1, <4>2
        <5>2. QED
          BY <1>1, <1>3, <2>1, <3>2, <5>1 DEF LeftOpen
      <4>3. QED
        BY <4>1, <4>2
    <3>4. i + 1 < n + 1 => trace'[i + 2].type = "run_end"
      <4>1. CASE i + 1 = n
        <5>1. i + 2 = n + 1
          BY <4>1
        <5>2. QED
          BY <1>3, <2>1, <5>1
      <4>2. CASE i + 1 < n
        <5>1. i + 2 \in 1..n /\ i < n
          BY <3>1, <4>2
        <5>2. QED
          BY <1>1, <1>3, <2>1, <3>2, <4>2, <5>1 DEF LeftOpen
      <4>3. QED
        BY <3>1, <4>1, <4>2
    <3>5. QED
      BY <1>3, <2>1, <2>2, <3>1, <3>2, <3>3, <3>4 DEF LeftOpen
  <2>4. \A i \in 1..(n + 1) : trace'[i].type = "run_end" => i = n + 1
    BY <1>3, <1>4, <2>1, <2>2
  <2>5. QED
    BY <1>3, <2>1, <2>2, <2>3, <2>4 DEF Calls, InACall
<1>12. CASE QuietStep
  <2>1. trace' = trace /\ (\A i \in 1..n : Unended(i)' <=> Unended(i))
    BY <1>1, <1>12 DEF QuietStep, trackerVars, Unended
  <2>2. CASE UNCHANGED <<pc, status>>
    BY <2>1, <2>2 DEF Calls, InACall, LeftOpen, Unended
  <2>3. CASE pc \in Loop /\ pc' \in Loop \cup {"final"}
    BY <1>1, <1>4, <2>1, <2>3 DEF Calls, InACall, Loop
  <2>4. CASE pc = "reply" /\ pc' = "final" /\ status' = "failed"
    BY <1>1, <1>4, <2>1, <2>4 DEF Calls, InACall, LeftOpen
  <2>5. CASE pc = "final" /\ pc' = "end" /\ UNCHANGED status
    BY <1>1, <1>4, <2>1, <2>5 DEF Calls, InACall, LeftOpen
  <2>6. QED
    BY <1>12, <2>2, <2>3, <2>4, <2>5 DEF QuietStep
<1>13. QED
  BY <1>2, <1>7, <1>8, <1>9, <1>10, <1>11, <1>12

(* The node of the event a step appends, and what it hangs from.           *)
LEMMA LogGrowsPlaced ==
  ASSUME IInv, LogInv, Next
  PROVE  (\A i \in 1..Len(trace) : Placed(i))' /\ Branching'
<1>1. /\ Tracker!FreshNode = Len(trace) + 1
      /\ Tracker!LastNode = trace[Len(trace)].node
      /\ Len(trace) \in 1..Len(trace)
  BY DEF IInv, TypeOK, Control, Tracker!FreshNode, Tracker!LastNode
<1>2. /\ \A type \in Tracker!StartTypes \cup Tracker!EndTypes :
           type \notin {"checkpoint", "policy_allow", "policy_deny", "branch_start",
                       "run_end", "run_start"}
      /\ \A type \in Tracker!StartTypes : type \notin Tracker!EndTypes
  BY DEF Tracker!StartTypes, Tracker!EndTypes
<1>3. (\A i \in 1..Len(trace) : Placed(i)) /\ Calls /\ Branching
  BY DEF LogInv
<1>4. ASSUME NEW e \in Tracker!Event, trace' = Append(trace, e),
             branch' = branch, e.branch = branch,
             \/ /\ e.type \notin Tracker!EndTypes
                /\ e.type \notin {"run_start", "branch_start"}
                /\ e.node = Tracker!FreshNode /\ e.parent = Tracker!LastNode
             \/ e.type \in Tracker!EndTypes /\ e.node = Tracker!LastNode /\ InACall
      PROVE  (\A i \in 1..Len(trace) : Placed(i))' /\ Branching'
  <2>1. e.type \in Tracker!EndTypes =>
          trace[Len(trace)].type \in Tracker!StartTypes /\ e.node = Len(trace)
    <3>1. SUFFICES ASSUME e.type \in Tracker!EndTypes
                   PROVE  trace[Len(trace)].type \in Tracker!StartTypes /\ e.node = Len(trace)
      OBVIOUS
    <3>2. trace[Len(trace)].type \in Tracker!StartTypes
      BY <1>3, <1>4, <3>1 DEF Calls
    <3>3. trace[Len(trace)].node = Len(trace)
      BY <1>1, <1>2, <1>3, <3>2 DEF Placed
    <3>4. QED
      BY <1>1, <1>4, <3>1, <3>2, <3>3
  <2>2. e.type # "run_start" /\ e.type # "branch_start"
    BY <1>2, <1>4
  <2>3. e.type \notin Tracker!EndTypes =>
          e.node = Len(trace) + 1 /\ e.parent = trace[Len(trace)].node
    BY <1>1, <1>4
  <2>4. (\A i \in 1..Len(trace) : Placed(i))'
    BY <1>3, <1>4, <2>1, <2>2, <2>3, PlacedGrows
  <2>5. Branching'
    BY <1>3, <1>4, <2>2, BranchingGrows
  <2>6. QED
    BY <2>4, <2>5
<1>5. CASE NoteStep
  <2>1. PICK e \in Tracker!Event :
          /\ trace' = Append(trace, e) /\ branch' = branch /\ e.branch = branch
          /\ e.type \in {"checkpoint", "policy_allow", "policy_deny"}
          /\ e.node = Tracker!FreshNode /\ e.parent = Tracker!LastNode
    BY <1>5 DEF NoteStep, Written
  <2>2. e.type \notin Tracker!EndTypes
    BY <1>2, <2>1
  <2>3. QED
    BY <1>4, <2>1, <2>2
<1>6. CASE StartStep
  <2>1. PICK e \in Tracker!Event :
          /\ trace' = Append(trace, e) /\ branch' = branch /\ e.branch = branch
          /\ e.type \in Tracker!StartTypes
          /\ e.node = Tracker!FreshNode /\ e.parent = Tracker!LastNode
    BY <1>6 DEF StartStep, Written
  <2>2. e.type \notin Tracker!EndTypes /\ e.type \notin {"run_start", "branch_start"}
    BY <1>2, <2>1
  <2>3. QED
    BY <1>4, <2>1, <2>2
<1>7. CASE EndStep
  <2>1. PICK e \in Tracker!Event :
          /\ trace' = Append(trace, e) /\ branch' = branch /\ e.branch = branch
          /\ e.type \in Tracker!EndTypes /\ e.node = Tracker!LastNode /\ InACall
    BY <1>7 DEF EndStep, Written
  <2>2. QED
    BY <1>4, <2>1
<1>8. CASE FinalStep \/ LastStep
  <2>1. PICK e \in Tracker!Event :
          /\ trace' = Append(trace, e) /\ branch' = branch /\ e.branch = branch
          /\ e.type \in {"checkpoint", "run_end"}
          /\ e.node = Tracker!FreshNode /\ e.parent = Tracker!LastNode
    BY <1>8 DEF FinalStep, LastStep, Written
  <2>2. e.type \notin Tracker!EndTypes
    BY <1>2, <2>1
  <2>3. QED
    BY <1>4, <2>1, <2>2
<1>9. CASE ForkStep
  <2>1. PICK e \in Tracker!Event :
          /\ trace' = Append(trace, e) /\ branch' = branch + 1 /\ e.branch = branch + 1
          /\ e.type = "branch_start" /\ e.from = branch
          /\ e.node = Tracker!FreshNode
    BY <1>9 DEF ForkStep
  <2>2. e.type \notin Tracker!EndTypes /\ e.type # "run_start"
    BY <1>2, <2>1
  <2>3. (\A i \in 1..Len(trace) : Placed(i))'
    BY <1>1, <1>3, <2>1, <2>2, PlacedGrows
  <2>4. Branching'
    BY <1>3, <2>1, BranchingGrows
  <2>5. QED
    BY <2>3, <2>4
<1>10. CASE QuietStep
  <2>1. trace' = trace /\ branch' = branch
    BY <1>10 DEF QuietStep, trackerVars
  <2>2. QED
    BY <1>3, <2>1 DEF Placed, Branching
<1>11. QED
  BY <1>5, <1>6, <1>7, <1>8, <1>9, <1>10, StepKinds

LEMMA InitLog == Init => LogInv
<1> SUFFICES ASSUME Init PROVE LogInv
  OBVIOUS
<1> DEFINE e == [type |-> "run_start", node |-> 1, parent |-> 0, branch |-> 1,
                 attr |-> "", from |-> 0]
<1>1. /\ e.type = "run_start" /\ e.branch = 1 /\ e.node = 1 /\ e.parent = 0 /\ e.from = 0
      /\ trace = <<e>> /\ branch = 1 /\ pc = "baseline"
  BY DEF Init, Tracker!Started
<1> HIDE DEF e
<1>2. Len(trace) = 1 /\ trace[1] = e /\ \A i \in 1..1 : i = 1
  BY <1>1
<1>3. "run_start" \notin Tracker!StartTypes \cup Tracker!EndTypes
  BY DEF Tracker!StartTypes, Tracker!EndTypes
<1>4. \A i \in 1..Len(trace) : Placed(i)
  BY <1>1, <1>2, <1>3 DEF Placed
<1>5. Calls
  BY <1>1, <1>2, <1>3 DEF Calls, InACall, Unended
<1>6. Branching
  BY <1>1, <1>2 DEF Branching
<1>7. QED
  BY <1>4, <1>5, <1>6 DEF LogInv

LEMMA LogInvHolds == Spec => [](IInv /\ Lineage /\ LogInv)
<1>1. ASSUME IInv, LogInv, [Next]_vars PROVE LogInv'
  <2>1. CASE UNCHANGED vars
    BY <1>1, <2>1
    DEF vars, LogInv, Placed, Calls, Branching, Unended, LeftOpen, InACall
  <2>2. CASE Next
    <3>1. (\A i \in 1..Len(trace) : Placed(i))' /\ Branching'
      BY <1>1, <2>2, LogGrowsPlaced
    <3>2. Calls'
      BY <1>1, <2>2, CallsGrow DEF LogInv
    <3>3. QED
      BY <3>1, <3>2 DEF LogInv
  <2>3. QED
    BY <1>1, <2>1, <2>2
<1>2. IInv /\ LogInv /\ [Next]_vars => LogInv'
  BY <1>1
<1>3. QED
  BY <1>2, InitLog, LineageHolds, PTL DEF Spec

-----------------------------------------------------------------------------
(***************************************************************************)
(* The rows the log is ingested to.                                        *)
(***************************************************************************)

(* The events a node row is made from: all but the end events, run_end and *)
(* the starts of calls that never ended.                                   *)
HasRow(i) ==
  /\ i \in 1..Len(trace)
  /\ trace[i].type \notin Tracker!EndTypes \cup {"run_end"}
  /\ trace[i].type \in Tracker!StartTypes =>
       i < Len(trace) /\ trace[i + 1].type \in Tracker!EndTypes

Rowed       == {i \in 1..Len(trace) : HasRow(i)}
RowAt(i)    == Ingest!Row(trace[i])
RowsAt(S)   == {RowAt(i) : i \in S}

LEMMA CallTypesAre ==
  /\ Ingest!CallStarts = Tracker!StartTypes /\ Ingest!CallEnds = Tracker!EndTypes
  /\ \A type \in Tracker!StartTypes \cup Tracker!EndTypes :
        type \notin {"checkpoint", "policy_allow", "policy_deny", "branch_start",
                    "run_end", "run_start"}
  /\ \A type \in Tracker!StartTypes : type \notin Tracker!EndTypes
BY DEF Ingest!CallStarts, Ingest!CallEnds, Tracker!StartTypes, Tracker!EndTypes

(* An end event makes the row of the start right before it, every other    *)
(* event but the starts and run_end its own.                               *)
LEMMA RowsMade ==
  ASSUME IInv, LogInv, NEW i \in 1..Len(trace)
  PROVE  /\ trace[i].type \in Tracker!EndTypes => Ingest!RowsOf(trace, i) = {RowAt(i - 1)}
         /\ trace[i].type \in Tracker!StartTypes \cup {"run_end"} => Ingest!RowsOf(trace, i) = {}
         /\ trace[i].type \notin Tracker!EndTypes \cup Tracker!StartTypes \cup {"run_end"} =>
              Ingest!RowsOf(trace, i) = {RowAt(i)}
<1>1. CASE trace[i].type \in Tracker!EndTypes
  <2>1. i > 1 /\ trace[i - 1].type \in Tracker!StartTypes /\ trace[i].node = i - 1
    BY <1>1 DEF LogInv, Placed
  <2>2. i - 1 \in 1..Len(trace) /\ i - 1 \in 1..(i - 1) /\ ((i - 1) + 1)..(i - 1) = {}
    BY <2>1
  <2>3. trace[i - 1].node = i - 1
    BY <2>1, <2>2, CallTypesAre DEF LogInv, Placed
  <2>4. i - 1 \in Ingest!PendingCalls(trace, i)
    BY <2>1, <2>2, CallTypesAre DEF Ingest!PendingCalls
  <2>5. ASSUME NEW p \in Ingest!PendingCalls(trace, i), trace[p].node = i - 1 PROVE p = i - 1
    <3>1. p \in 1..(i - 1) /\ trace[p].type \in Tracker!StartTypes
      BY CallTypesAre DEF Ingest!PendingCalls
    <3>2. p \in 1..Len(trace) /\ trace[p].type \notin Tracker!EndTypes
      BY <3>1, CallTypesAre
    <3>3. trace[p].node = p
      BY <3>2 DEF LogInv, Placed
    <3>4. QED
      BY <2>5, <3>3
  <2>6. {p \in Ingest!PendingCalls(trace, i) : trace[p].node = trace[i].node} = {i - 1}
    BY <2>1, <2>3, <2>4, <2>5
  <2>7. Ingest!RowsOf(trace, i) = {Ingest!Row(trace[i - 1])}
    BY <1>1, <2>6, CallTypesAre DEF Ingest!RowsOf
  <2>8. trace[i].type \notin Tracker!StartTypes \cup {"run_end"}
    BY <1>1, CallTypesAre
  <2>9. QED
    BY <1>1, <2>7, <2>8 DEF RowAt
<1>2. CASE trace[i].type \notin Tracker!EndTypes
  BY <1>2, CallTypesAre DEF Ingest!RowsOf, RowAt
<1>3. QED
  BY <1>1, <1>2

LEMMA NodesAre ==
  ASSUME IInv, LogInv
  PROVE  /\ Nodes = RowsAt(Rowed)
         /\ \A i \in Rowed : /\ RowAt(i).id = i /\ RowAt(i).parent = trace[i].parent
                             /\ RowAt(i).branch = trace[i].branch
                             /\ RowAt(i).type = trace[i].type
<1>1. DOMAIN trace = 1..Len(trace) /\ Len(trace) \in Nat
  BY DEF IInv, TypeOK
<1>2. ASSUME NEW i \in 1..Len(trace), NEW row \in Ingest!RowsOf(trace, i)
      PROVE  row \in RowsAt(Rowed)
  <2>1. CASE trace[i].type \in Tracker!EndTypes
    <3>1. row = RowAt(i - 1)
      BY <1>2, <2>1, RowsMade
    <3>2. i > 1 /\ trace[i - 1].type \in Tracker!StartTypes
      BY <2>1 DEF LogInv, Placed
    <3>3. i - 1 \in 1..Len(trace) /\ i - 1 < Len(trace) /\ (i - 1) + 1 = i
      BY <1>1, <3>2
    <3>4. HasRow(i - 1)
      BY <2>1, <3>2, <3>3, CallTypesAre DEF HasRow
    <3>5. QED
      BY <3>1, <3>3, <3>4 DEF Rowed, RowsAt
  <2>2. CASE trace[i].type \notin Tracker!EndTypes
    <3>1. trace[i].type \notin Tracker!StartTypes \cup {"run_end"}
      BY <1>2, <2>2, RowsMade
    <3>2. row = RowAt(i)
      BY <1>2, <2>2, <3>1, RowsMade
    <3>3. HasRow(i)
      BY <2>2, <3>1 DEF HasRow
    <3>4. QED
      BY <3>2, <3>3 DEF Rowed, RowsAt
  <2>3. QED
    BY <2>1, <2>2
<1>3. ASSUME NEW i \in Rowed PROVE \E j \in 1..Len(trace) : RowAt(i) \in Ingest!RowsOf(trace, j)
  <2>1. i \in 1..Len(trace) /\ HasRow(i)
    BY DEF Rowed
  <2>2. CASE trace[i].type \in Tracker!StartTypes
    <3>1. i < Len(trace) /\ trace[i + 1].type \in Tracker!EndTypes
      BY <2>1, <2>2 DEF HasRow
    <3>2. i + 1 \in 1..Len(trace) /\ (i + 1) - 1 = i
      BY <1>1, <2>1, <3>1
    <3>3. Ingest!RowsOf(trace, i + 1) = {RowAt(i)}
      BY <3>1, <3>2, RowsMade
    <3>4. QED
      BY <3>2, <3>3
  <2>3. CASE trace[i].type \notin Tracker!StartTypes
    BY <2>1, <2>3, RowsMade DEF HasRow
  <2>4. QED
    BY <2>2, <2>3
<1>4. Nodes = RowsAt(Rowed)
  BY <1>1, <1>2, <1>3 DEF Nodes, Ingest!NodeRows, RowsAt
<1>5. ASSUME NEW i \in Rowed
      PROVE  /\ RowAt(i).id = i /\ RowAt(i).parent = trace[i].parent
             /\ RowAt(i).branch = trace[i].branch /\ RowAt(i).type = trace[i].type
  <2>1. i \in 1..Len(trace) /\ trace[i].type \notin Tracker!EndTypes
    BY DEF Rowed, HasRow
  <2>2. trace[i].node = i
    BY <2>1 DEF LogInv, Placed
  <2>3. QED
    BY <2>2 DEF RowAt, Ingest!Row
<1>6. QED
  BY <1>4, <1>5

(* What the node of an event hangs from: an earlier one that has a row, or *)
(* for the final checkpoint a call that never ended; a checkpoint of the   *)
(* same branch never lies in between.                                      *)
LEMMA ParentsAre ==
  ASSUME IInv, Lineage, LogInv, NEW i \in Rowed, i > 1
  PROVE  /\ trace[i].parent \in 1..(i - 1)
         /\ \/ trace[i].parent \in Rowed
            \/ trace[i].type = "checkpoint" /\ status = "failed"
         /\ trace[i].type # "branch_start" =>
              \A k \in 1..(i - 1) : k > trace[i].parent => trace[k].type \in Tracker!EndTypes
<1>0. /\ Len(trace) \in Nat /\ i \in 1..Len(trace) /\ i \in Nat /\ i - 1 \in 1..Len(trace)
      /\ HasRow(i) /\ trace[i].type \notin Tracker!EndTypes \cup {"run_end"}
      /\ i - 1 < Len(trace) /\ (i - 1) + 1 = i /\ i - 1 # Len(trace)
  BY DEF IInv, TypeOK, Rowed, HasRow
<1>1. CASE trace[i].type = "branch_start"
  <2>1. Denied(trace[i].parent, trace[i].branch - 1, i - 1)
    BY <1>0, <1>1 DEF Lineage, Forks, ForkedAtDenial
  <2>2. trace[i].parent \in 1..(i - 1) /\ trace[trace[i].parent].type = "policy_deny"
    BY <2>1 DEF Denied
  <2>3. trace[i].parent \in 1..Len(trace)
    BY <1>0, <2>2
  <2>4. trace[i].parent \in Rowed
    BY <2>2, <2>3, CallTypesAre DEF Rowed, HasRow
  <2>5. QED
    BY <1>1, <2>2, <2>4
<1>2. CASE trace[i].type # "branch_start"
  <2>1. trace[i].parent = trace[i - 1].node
    BY <1>0, <1>2 DEF LogInv, Placed
  <2>2. CASE trace[i - 1].type \in Tracker!EndTypes
    <3>1. /\ i - 1 > 1 /\ trace[(i - 1) - 1].type \in Tracker!StartTypes
          /\ trace[i - 1].node = (i - 1) - 1
      BY <1>0, <2>2 DEF LogInv, Placed
    <3>2. PICK p \in 1..Len(trace) : p = (i - 1) - 1 /\ p < Len(trace) /\ p + 1 = i - 1
                                    /\ p \in 1..(i - 1)
      BY <1>0, <3>1
    <3>3. HasRow(p)
      BY <2>2, <3>1, <3>2, CallTypesAre DEF HasRow
    <3>4. trace[i].parent = p /\ p \in Rowed
      BY <2>1, <3>1, <3>2, <3>3 DEF Rowed
    <3>5. \A k \in 1..(i - 1) : k > p => k = i - 1
      BY <1>0, <3>2
    <3>6. QED
      BY <2>2, <3>2, <3>4, <3>5
  <2>3. CASE trace[i - 1].type \notin Tracker!EndTypes
    <3>1. trace[i].parent = i - 1
      BY <1>0, <2>1, <2>3 DEF LogInv, Placed
    <3>2. \A k \in 1..(i - 1) : ~(k > i - 1)
      BY <1>0
    <3>3. trace[i - 1].type # "run_end"
      BY <1>0 DEF LogInv, Calls
    <3>4. CASE trace[i - 1].type \in Tracker!StartTypes
      <4>1. Unended(i - 1)
        BY <1>0, <3>4 DEF Unended
      <4>2. LeftOpen(i - 1)
        BY <1>0, <4>1 DEF LogInv, Calls
      <4>3. status = "failed" /\ trace[i].type = "checkpoint"
        BY <1>0, <4>2 DEF LeftOpen
      <4>4. QED
        BY <1>0, <3>1, <3>2, <4>3
    <3>5. CASE trace[i - 1].type \notin Tracker!StartTypes
      <4>1. i - 1 \in Rowed
        BY <1>0, <2>3, <3>3, <3>5 DEF Rowed, HasRow
      <4>2. QED
        BY <1>0, <3>1, <3>2, <4>1
    <3>6. QED
      BY <3>4, <3>5
  <2>4. QED
    BY <2>2, <2>3
<1>3. QED
  BY <1>1, <1>2

\* For all budgets and faults, the graph of a run that completed is one tree: node
\* ids are not shared, only the root has no parent, and every other node hangs from
\* one that was persisted before it.
THEOREM RecordIsTree == Spec => []GraphIsTree
<1>1. ASSUME IInv, Lineage, LogInv, status = "completed"
      PROVE  /\ \A m, n \in Nodes : m.id = n.id => m = n
             /\ \A n \in Nodes : n.parent = 0 <=> n.id = 1
             /\ \A n \in Nodes : n.parent # 0 =>
                  \E m \in Nodes : m.id = n.parent /\ m.id < n.id
  <2>1. /\ \A n \in Nodes : \E i \in Rowed : n = RowAt(i)
        /\ \A i \in Rowed : RowAt(i) \in Nodes /\ RowAt(i).id = i
                            /\ RowAt(i).parent = trace[i].parent
    BY <1>1, NodesAre DEF RowsAt
  <2>2. \A m, n \in Nodes : m.id = n.id => m = n
    BY <2>1
  <2>3. ASSUME NEW i \in Rowed
        PROVE  /\ trace[i].parent = 0 <=> i = 1
               /\ trace[i].parent # 0 => trace[i].parent \in Rowed /\ trace[i].parent < i
    <3>1. i \in 1..Len(trace)
      BY DEF Rowed
    <3>2. CASE i = 1
      BY <1>1, <3>1, <3>2 DEF LogInv, Placed
    <3>3. CASE i # 1
      <4>1. i > 1
        BY <3>1, <3>3
      <4>2. trace[i].parent \in 1..(i - 1) /\ trace[i].parent \in Rowed
        BY <1>1, <4>1, ParentsAre
      <4>3. QED
        BY <3>1, <3>3, <4>2
    <3>4. QED
      BY <3>2, <3>3
  <2>4. QED
    BY <2>1, <2>2, <2>3
<1>2. IInv /\ Lineage /\ LogInv => GraphIsTree
  BY <1>1 DEF GraphIsTree
<1>3. QED
  BY <1>2, LogInvHolds, PTL

\* For all budgets and faults, the branch rows are the lineage of the run: one row
\* per branch, every branch but the root forked from an earlier one at a persisted
\* denial on it, and every node on a branch that has a row.
THEOREM RecordHasLineage == Spec => []LineageRows
<1>1. ASSUME IInv, Lineage, LogInv
      PROVE  /\ \A b, c \in Branches : b.id = c.id => b = c
             /\ \A b \in Branches : b.parent = 0 \/
                  /\ \E p \in Branches : p.id = b.parent /\ p.id < b.id
                  /\ \E n \in Nodes : n.id = b.forkNode /\ n.branch = b.parent
                                      /\ n.type = "policy_deny"
             /\ {n.branch : n \in Nodes} = {b.id : b \in Branches}
  <2> DEFINE Opens == {j \in 1..Len(trace) : trace[j].type \in {"run_start", "branch_start"}}
             Row(i) == [id |-> trace[i].branch, parent |-> trace[i].from,
                        forkNode |-> trace[i].parent]
  <2>1. Len(trace) \in Nat /\ DOMAIN trace = 1..Len(trace) /\ branch \in Nat
    BY <1>1 DEF IInv, TypeOK
  <2>2. Branches = {Row(i) : i \in Opens}
    BY <2>1 DEF Branches, Ingest!BranchRows
  <2>3. \A i \in Opens : i \in 1..Len(trace) /\ i \in Nat /\ i \in Rowed
    BY CallTypesAre DEF Rowed, HasRow
  <2>4. \A i \in Opens : /\ trace[i].branch \in 1..branch
                         /\ i = 1 => trace[i].from = 0
                         /\ i # 1 => trace[i].type = "branch_start"
    BY <1>1, <2>3 DEF LogInv, Branching, Placed
  <2>5. \A b \in 1..branch : \E o \in Opens : trace[o].branch = b
    BY <1>1 DEF LogInv, Branching
  <2>6. \A f, g \in Opens : f < g => trace[f].branch < trace[g].branch
    <3> SUFFICES ASSUME NEW f \in Opens, NEW g \in Opens, f < g
                 PROVE  trace[f].branch < trace[g].branch
      OBVIOUS
    <3>1. g # 1 /\ f \in 1..(g - 1)
      BY <2>3
    <3>2. QED
      BY <1>1, <2>3, <2>4, <3>1 DEF LogInv, Branching
  <2>7. \A f, g \in Opens : trace[f].branch = trace[g].branch => f = g
    BY <2>3, <2>4, <2>6
  <2>8. ASSUME NEW f \in Opens, f # 1
        PROVE  /\ trace[f].from \in 1..branch /\ trace[f].from < trace[f].branch
               /\ trace[f].parent \in Rowed
               /\ trace[trace[f].parent].type = "policy_deny"
               /\ trace[trace[f].parent].branch = trace[f].from
    <3>1. f \in Forks /\ f > 1 /\ 1 \in 1..(f - 1) /\ 1 \in 1..Len(trace)
      BY <2>3, <2>4, <2>8 DEF Forks
    <3>2. trace[f].from = trace[f].branch - 1 /\ trace[1].branch < trace[f].branch
      BY <1>1, <2>3, <2>4, <2>8, <3>1 DEF LogInv, Branching
    <3>3. trace[1].branch \in 1..branch
      BY <1>1, <3>1 DEF LogInv, Branching
    <3>4. Denied(trace[f].parent, trace[f].branch - 1, f - 1)
      BY <1>1, <3>1 DEF Lineage, ForkedAtDenial
    <3>5. trace[f].parent \in 1..(f - 1) /\ trace[trace[f].parent].type = "policy_deny"
          /\ trace[trace[f].parent].branch = trace[f].from
      BY <3>2, <3>4 DEF Denied
    <3>6. trace[f].parent \in 1..Len(trace)
      BY <2>3, <3>5
    <3>7. trace[f].parent \in Rowed
      BY <3>5, <3>6, CallTypesAre DEF Rowed, HasRow
    <3>8. trace[f].from \in 1..branch /\ trace[f].from < trace[f].branch
      BY <2>1, <2>4, <3>2, <3>3
    <3>9. QED
      BY <3>5, <3>7, <3>8
  <2>9. /\ Nodes = {RowAt(i) : i \in Rowed}
        /\ \A i \in Rowed : /\ RowAt(i).id = i /\ RowAt(i).branch = trace[i].branch
                            /\ RowAt(i).type = trace[i].type
    BY <1>1, NodesAre DEF RowsAt
  <2>10. \A i : Row(i).id = trace[i].branch /\ Row(i).parent = trace[i].from
                /\ Row(i).forkNode = trace[i].parent
    OBVIOUS
  <2>11. \A i \in Rowed : trace[i].branch \in 1..branch
    BY <1>1 DEF Rowed, LogInv, Branching
  <2> HIDE DEF Row, Opens
  <2>12. \A b, c \in Branches : b.id = c.id => b = c
    BY <2>2, <2>7, <2>10
  <2>13. ASSUME NEW f \in Opens, f # 1
         PROVE  /\ \E p \in Branches : p.id = Row(f).parent /\ p.id < Row(f).id
                /\ \E n \in Nodes : n.id = Row(f).forkNode /\ n.branch = Row(f).parent
                                    /\ n.type = "policy_deny"
    <3>1. PICK o \in Opens : trace[o].branch = trace[f].from
      BY <2>5, <2>8, <2>13
    <3>2. Row(o) \in Branches /\ Row(o).id = Row(f).parent /\ Row(o).id < Row(f).id
      BY <2>2, <2>8, <2>10, <2>13, <3>1
    <3>3. /\ RowAt(trace[f].parent) \in Nodes
          /\ RowAt(trace[f].parent).id = Row(f).forkNode
          /\ RowAt(trace[f].parent).branch = Row(f).parent
          /\ RowAt(trace[f].parent).type = "policy_deny"
      BY <2>8, <2>9, <2>10, <2>13
    <3>4. QED
      BY <3>2, <3>3
  <2>14. \A f \in Opens : f = 1 => Row(f).parent = 0
    BY <2>4, <2>10
  <2>15. {n.branch : n \in Nodes} = {b.id : b \in Branches}
    <3>1. \A i \in Rowed : \E o \in Opens : RowAt(i).branch = Row(o).id
      BY <2>5, <2>9, <2>10, <2>11
    <3>2. \A o \in Opens : \E i \in Rowed : RowAt(i).branch = Row(o).id
      BY <2>3, <2>9, <2>10
    <3>3. QED
      BY <2>2, <2>9, <3>1, <3>2
  <2>16. ASSUME NEW b \in Branches, b.parent # 0
         PROVE  /\ \E p \in Branches : p.id = b.parent /\ p.id < b.id
                /\ \E n \in Nodes : n.id = b.forkNode /\ n.branch = b.parent
                                    /\ n.type = "policy_deny"
    <3>1. PICK f \in Opens : b = Row(f)
      BY <2>2
    <3>2. f # 1
      BY <2>14, <2>16, <3>1
    <3>3. QED
      BY <2>13, <3>1, <3>2
  <2>17. QED
    BY <2>12, <2>15, <2>16
<1>2. IInv /\ Lineage /\ LogInv => LineageRows
  BY <1>1 DEF LineageRows
<1>3. QED
  BY <1>2, LogInvHolds, PTL

-----------------------------------------------------------------------------
(***************************************************************************)
(* The two stores' lookups on the rows of a run.                           *)
(***************************************************************************)

LEMMA Greatest ==
  ASSUME NEW T, T \subseteq Nat, T # {}, NEW m \in Nat, \A x \in T : x <= m
  PROVE  \E x \in T : \A y \in T : y <= x
<1> DEFINE U == {m - x : x \in T}
<1>1. U \subseteq Nat /\ U # {}
  <2>1. \A x \in T : x \in Nat /\ m - x \in Nat
    OBVIOUS
  <2>2. QED
    BY <2>1
<1>2. PICK d \in U : \A e \in U : d <= e
  <2> HIDE DEF U
  <2>1. QED
    BY <1>1, Least
<1>3. PICK x \in T : d = m - x
  OBVIOUS
<1>4. \A y \in T : y <= x
  BY <1>2, <1>3
<1>5. QED
  BY <1>4

(* Where the walks go: a row's id is its event's position.                 *)
LEMMA WalksAre ==
  ASSUME IInv, Lineage, LogInv, NEW S, S \subseteq Rowed
  PROVE  LET parentOf == Lookup!ParentOf(RowsAt(S))
         IN  /\ DOMAIN parentOf = S /\ S \subseteq Nat /\ IsFiniteSet(S)
             /\ \A i \in S : parentOf[i] = trace[i].parent
             /\ \A i \in S : parentOf[i] \in Nat
<1> DEFINE parentOf == Lookup!ParentOf(RowsAt(S))
<1>1. /\ \A i \in S : RowAt(i).id = i /\ RowAt(i).parent = trace[i].parent
      /\ RowsAt(S) = {RowAt(i) : i \in S}
  BY NodesAre DEF RowsAt
<1>2. {r.id : r \in RowsAt(S)} = S
  BY <1>1
<1>3. ASSUME NEW i \in S PROVE (CHOOSE r \in RowsAt(S) : r.id = i) = RowAt(i)
  <2>1. RowAt(i) \in RowsAt(S) /\ RowAt(i).id = i
    BY <1>1
  <2>2. \A r \in RowsAt(S) : r.id = i => r = RowAt(i)
    BY <1>1
  <2>3. QED
    BY <2>1, <2>2
<1>4. DOMAIN parentOf = S /\ \A i \in S : parentOf[i] = trace[i].parent
  BY <1>1, <1>2, <1>3 DEF Lookup!ParentOf
<1>5. S \subseteq 1..Len(trace) /\ Len(trace) \in Nat /\ S \subseteq Nat
  BY DEF Rowed, IInv, TypeOK
<1>6. IsFiniteSet(S)
  <2>1. IsFiniteSet(1..Len(trace))
    BY <1>5, FS_Interval
  <2>2. QED
    BY <1>5, <2>1, FS_Subset
<1>7. ASSUME NEW i \in S PROVE trace[i].parent \in Nat
  <2>1. trace[i] \in Tracker!Event
    BY <1>5 DEF IInv, TypeOK
  <2>2. QED
    BY <2>1 DEF Tracker!Event
<1>8. QED
  BY <1>4, <1>5, <1>6, <1>7

(* The positions of the checkpoints of a branch.                           *)
CheckpointsOf(b) == {i \in 1..Len(trace) : trace[i].type = "checkpoint" /\ trace[i].branch = b}
CheckpointAt(i)  == [node |-> i, branch |-> trace[i].branch, createdAt |-> i]

LEMMA CheckpointsAre ==
  ASSUME IInv, LogInv, NEW b
  PROVE  /\ Lookup!OnBranch(Checkpoints, b) = {CheckpointAt(i) : i \in CheckpointsOf(b)}
         /\ {c \in Checkpoints : c.branch = b} = {CheckpointAt(i) : i \in CheckpointsOf(b)}
         /\ {c.node : c \in Lookup!OnBranch(Checkpoints, b)} = CheckpointsOf(b)
         /\ CheckpointsOf(b) \subseteq Rowed /\ CheckpointsOf(b) \subseteq Nat
<1> DEFINE All == {i \in 1..Len(trace) : trace[i].type = "checkpoint"}
<1>1. DOMAIN trace = 1..Len(trace) /\ Len(trace) \in Nat
  BY DEF IInv, TypeOK
<1>2. \A i \in All : trace[i].node = i
  BY CallTypesAre DEF LogInv, Placed
<1>3. Checkpoints = {CheckpointAt(i) : i \in All}
  BY <1>1, <1>2 DEF Checkpoints, Ingest!CheckpointRows, CheckpointAt
<1>4. \A i : CheckpointAt(i).branch = trace[i].branch /\ CheckpointAt(i).node = i
  BY DEF CheckpointAt
<1>5. CheckpointsOf(b) = {i \in All : trace[i].branch = b}
  BY DEF CheckpointsOf
<1>6. CheckpointsOf(b) \subseteq Rowed /\ CheckpointsOf(b) \subseteq Nat
  BY <1>1, CallTypesAre DEF CheckpointsOf, Rowed, HasRow
<1> HIDE DEF All
<1>7. {c \in Checkpoints : c.branch = b} = {CheckpointAt(i) : i \in CheckpointsOf(b)}
  BY <1>3, <1>4, <1>5
<1>8. {CheckpointAt(i).node : i \in CheckpointsOf(b)} = CheckpointsOf(b)
  BY <1>4
<1>9. {c.node : c \in {CheckpointAt(i) : i \in CheckpointsOf(b)}} = CheckpointsOf(b)
  BY <1>4
<1>10. QED
  BY <1>6, <1>7, <1>9 DEF Lookup!OnBranch

(* Among the checkpoints of some positions the latest is that of the last. *)
LEMMA LatestIs ==
  ASSUME NEW T, T \subseteq Nat, NEW m \in T, \A x \in T : x <= m
  PROVE  Lookup!Latest({CheckpointAt(i) : i \in T}) = {CheckpointAt(m)}
<1>1. \A i : CheckpointAt(i).createdAt = i
  BY DEF CheckpointAt
<1>2. \A x \in T : (\A y \in T : y <= x) => x = m
  OBVIOUS
<1>3. QED
  BY <1>1, <1>2 DEF Lookup!Latest

(* A walk from a row of branch b, through the rows of any set that holds   *)
(* those of the branch, comes to the branch's latest checkpoint so far.    *)
LEMMA WalkComesTo ==
  ASSUME IInv, Lineage, LogInv, NEW n \in Rowed,
         NEW S, S \subseteq Rowed, \A i \in Rowed : trace[i].branch = trace[n].branch => i \in S,
         NEW m \in CheckpointsOf(trace[n].branch), m <= n,
         \A c \in CheckpointsOf(trace[n].branch) : c <= n => c <= m
  PROVE  Lookup!FirstMet(n, Lookup!ParentOf(RowsAt(S)), CheckpointsOf(trace[n].branch)) = m
<1>1. PICK b : b = trace[n].branch
  OBVIOUS
<1>2. PICK parentOf : parentOf = Lookup!ParentOf(RowsAt(S))
  OBVIOUS
<1>3. /\ DOMAIN parentOf = S /\ S \subseteq Nat /\ IsFiniteSet(S)
      /\ \A i \in S : parentOf[i] = trace[i].parent
      /\ \A i \in S : parentOf[i] \in Nat
  BY <1>2, WalksAre
<1> DEFINE A == {x \in Rowed : m <= x /\ x <= n /\ trace[x].branch = b}
<1>4. m \in Rowed /\ m \in Nat /\ n \in Nat /\ m \in CheckpointsOf(b)
      /\ Rowed \subseteq 1..Len(trace) /\ Len(trace) \in Nat
      /\ CheckpointsOf(b) \subseteq 1..Len(trace)
  <2>1. m \in CheckpointsOf(b) /\ CheckpointsOf(b) \subseteq Rowed
    BY <1>1, CheckpointsAre
  <2>2. Rowed \subseteq 1..Len(trace) /\ Len(trace) \in Nat /\ Rowed \subseteq Nat
    BY DEF Rowed, IInv, TypeOK
  <2>3. QED
    BY <2>1, <2>2
<1>5. A \subseteq Nat /\ n \in A /\ \A x \in A : x >= m
  <2>1. Rowed \subseteq Nat /\ n <= n
    BY <1>4
  <2>2. A \subseteq Nat /\ n \in A
    BY <1>1, <2>1
  <2>3. \A x \in A : x >= m
    BY <1>4, <2>2
  <2>4. QED
    BY <2>2, <2>3
<1>6. ASSUME NEW x \in A, x # m
      PROVE  /\ x \notin CheckpointsOf(b) /\ x \in S
             /\ trace[x].parent \in A /\ trace[x].parent < x
  <2>1. x \in 1..Len(trace) /\ x \in Rowed /\ m < x /\ x <= n /\ x > 1
        /\ trace[x].branch = b /\ m \in 1..Len(trace) /\ m \in 1..(x - 1)
    BY <1>4, <1>6
  <2>2. x \notin CheckpointsOf(b) /\ x \in S
    BY <1>1, <1>4, <2>1
  <2>3. trace[x].type # "checkpoint"
    BY <2>1, <2>2 DEF CheckpointsOf
  <2>4. trace[m].type = "checkpoint" /\ trace[m].branch = b
    BY <1>4 DEF CheckpointsOf
  <2>5. trace[x].type # "branch_start"
    <3>1. SUFFICES ASSUME trace[x].type = "branch_start" PROVE FALSE
      OBVIOUS
    <3>2. trace[m].branch < trace[x].branch
      BY <2>1, <3>1 DEF LogInv, Branching
    <3>3. trace[m] \in Tracker!Event
      BY <2>1 DEF IInv, TypeOK
    <3>4. trace[m].branch \in Nat
      BY <3>3 DEF Tracker!Event
    <3>5. QED
      BY <2>1, <2>4, <3>2, <3>4
  <2>6. PICK p : p = trace[x].parent
    OBVIOUS
  <2>7. p \in 1..(x - 1) /\ p \in Rowed /\ ~(m > p)
    BY <2>1, <2>3, <2>4, <2>5, <2>6, ParentsAre, CallTypesAre
  <2>8. p \in 1..Len(trace) /\ m <= p /\ p < x /\ p <= n
    BY <1>4, <2>1, <2>7
  <2>9. trace[p].branch = b
    <3>1. trace[m].branch <= trace[p].branch /\ trace[p].branch <= trace[x].branch
      <4>1. p <= x
        BY <2>1, <2>8
      <4>2. QED
        BY <2>1, <2>8, <4>1 DEF LogInv, Branching
    <3>2. trace[p] \in Tracker!Event /\ trace[m] \in Tracker!Event
      BY <2>1, <2>8 DEF IInv, TypeOK
    <3>3. trace[p].branch \in Nat /\ trace[m].branch \in Nat
      BY <3>2 DEF Tracker!Event
    <3>4. QED
      BY <2>1, <2>4, <3>1, <3>3
  <2>10. QED
    BY <2>2, <2>6, <2>7, <2>8, <2>9
<1> HIDE DEF A
<1>7. \A x \in A : x # m => /\ x \notin CheckpointsOf(b) /\ x \in DOMAIN parentOf
                            /\ parentOf[x] \in A /\ parentOf[x] < x
  BY <1>3, <1>6
<1>8. /\ \A c \in DOMAIN parentOf : parentOf[c] \in Nat
      /\ IsFiniteSet(DOMAIN parentOf) /\ DOMAIN parentOf \subseteq Nat
  BY <1>3
<1>9. Lookup!FirstMet(n, parentOf, CheckpointsOf(b)) = m
  BY <1>4, <1>5, <1>7, <1>8, WalkFinds
<1>10. QED
  BY <1>1, <1>2, <1>9

(* When the branch has no checkpoint up to the row, no walk comes to one.  *)
LEMMA WalkComesToNone ==
  ASSUME IInv, Lineage, LogInv, NEW n \in Rowed, NEW S, S \subseteq Rowed,
         \A c \in CheckpointsOf(trace[n].branch) : ~(c <= n)
  PROVE  Lookup!FirstMet(n, Lookup!ParentOf(RowsAt(S)), CheckpointsOf(trace[n].branch)) = 0
<1>1. PICK known : known = CheckpointsOf(trace[n].branch)
  OBVIOUS
<1>2. PICK parentOf : parentOf = Lookup!ParentOf(RowsAt(S))
  OBVIOUS
<1>3. /\ DOMAIN parentOf = S /\ S \subseteq Nat /\ IsFiniteSet(S)
      /\ \A i \in S : parentOf[i] = trace[i].parent
      /\ \A i \in S : parentOf[i] \in Nat
  BY <1>2, WalksAre
<1>4. n \in Nat /\ Rowed \subseteq 1..Len(trace) /\ Len(trace) \in Nat
  BY DEF Rowed, IInv, TypeOK
<1> DEFINE A == 0..n
<1>5. A \subseteq Nat /\ n \in A /\ \A x \in A : x \notin known
  BY <1>1, <1>4
<1>6. ASSUME NEW x \in A, x \in S PROVE trace[x].parent \in A
  <2>1. x \in Rowed /\ x \in 1..Len(trace) /\ x <= n
    BY <1>4, <1>6
  <2>2. CASE x = 1
    BY <1>4, <2>1, <2>2 DEF LogInv, Placed
  <2>3. CASE x # 1
    <3>1. x > 1
      BY <2>1, <2>3
    <3>2. trace[x].parent \in 1..(x - 1)
      BY <2>1, <3>1, ParentsAre
    <3>3. QED
      BY <1>4, <2>1, <3>2
  <2>4. QED
    BY <2>2, <2>3
<1> HIDE DEF A
<1>7. Lookup!FirstMet(n, parentOf, known) = 0
  BY <1>3, <1>5, <1>6, WalkFindsNone
<1>8. QED
  BY <1>1, <1>2, <1>7

\* For all budgets and faults, the lookup finds the nearest checkpoint: the latest
\* one of the branch at or before the node when there is one; and the two stores
\* answer every lookup alike, although their walks pass through different nodes.
THEOREM LookupsFindTheNearest == Spec => []LookupIsNearest
<1>1. ASSUME IInv, Lineage, LogInv, NEW node \in Nodes
      PROVE  LET before == {c \in Checkpoints : c.branch = node.branch /\ c.node <= node.id}
             IN  /\ before # {} => InMemory(node) = Lookup!Latest(before)
                 /\ InMemory(node) = Postgres(node)
  <2>1. PICK n \in Rowed : node = RowAt(n)
    BY <1>1, NodesAre DEF RowsAt
  <2>2. PICK b : b = trace[n].branch
    OBVIOUS
  <2>3. node.id = n /\ node.branch = b
    BY <1>1, <2>1, <2>2, NodesAre
  <2>4. PICK ours : ours = Lookup!OnBranch(Checkpoints, b)
    OBVIOUS
  <2>5. /\ ours = {CheckpointAt(i) : i \in CheckpointsOf(b)}
        /\ {c \in Checkpoints : c.branch = b} = {CheckpointAt(i) : i \in CheckpointsOf(b)}
        /\ {c.node : c \in ours} = CheckpointsOf(b)
        /\ CheckpointsOf(b) \subseteq Rowed /\ CheckpointsOf(b) \subseteq Nat
    BY <1>1, <2>4, CheckpointsAre
  <2>6. PICK own : own = {i \in Rowed : trace[i].branch = b}
    OBVIOUS
  <2>7. /\ Nodes = RowsAt(Rowed) /\ Lookup!OnBranch(Nodes, b) = RowsAt(own)
        /\ {r.id : r \in Nodes} = Rowed
    <3>1. /\ Nodes = {RowAt(i) : i \in Rowed}
          /\ \A i \in Rowed : RowAt(i).id = i /\ RowAt(i).branch = trace[i].branch
      BY <1>1, NodesAre DEF RowsAt
    <3>2. QED
      BY <2>6, <3>1 DEF Lookup!OnBranch, RowsAt
  <2>8. CheckpointsOf(b) \cap {r.id : r \in Nodes} = CheckpointsOf(b)
    BY <2>5, <2>7
  <2>9. /\ InMemory(node) = Lookup!AtOrLatest(
              Lookup!FirstMet(n, Lookup!ParentOf(RowsAt(Rowed)), CheckpointsOf(b)), ours)
        /\ Postgres(node) = Lookup!AtOrLatest(
              Lookup!FirstMet(n, Lookup!ParentOf(RowsAt(own)), CheckpointsOf(b)), ours)
    BY <2>3, <2>4, <2>5, <2>7, <2>8
    DEF InMemory, Postgres, Lookup!InMemoryNearest, Lookup!PostgresNearest
  <2>10. PICK T : T = {c \in CheckpointsOf(b) : c <= n}
    OBVIOUS
  <2>11. {c \in Checkpoints : c.branch = node.branch /\ c.node <= node.id}
           = {CheckpointAt(i) : i \in T}
    <3>1. \A i : CheckpointAt(i).node = i
      BY DEF CheckpointAt
    <3>2. {c \in Checkpoints : c.branch = b /\ c.node <= n}
            = {c \in {CheckpointAt(i) : i \in CheckpointsOf(b)} : c.node <= n}
      BY <2>5
    <3>3. QED
      BY <2>3, <2>10, <3>1, <3>2
  <2>12. own \subseteq Rowed /\ \A i \in Rowed : trace[i].branch = b => i \in own
    BY <2>6
  <2>13. CASE T = {}
    <3>1. \A c \in CheckpointsOf(b) : ~(c <= n)
      BY <2>10, <2>13
    <3>2. /\ Lookup!FirstMet(n, Lookup!ParentOf(RowsAt(Rowed)), CheckpointsOf(b)) = 0
          /\ Lookup!FirstMet(n, Lookup!ParentOf(RowsAt(own)), CheckpointsOf(b)) = 0
      BY <1>1, <2>2, <2>12, <3>1, WalkComesToNone
    <3>3. QED
      BY <2>9, <2>11, <2>13, <3>2
  <2>14. CASE T # {}
    <3>1. n \in Nat /\ T \subseteq Nat /\ T \subseteq CheckpointsOf(b) /\ \A x \in T : x <= n
      BY <2>5, <2>10 DEF Rowed
    <3>2. PICK m \in T : \A y \in T : y <= m
      BY <2>14, <3>1, Greatest
    <3>3. m \in CheckpointsOf(b) /\ m <= n /\ \A c \in CheckpointsOf(b) : c <= n => c <= m
      BY <2>10, <3>2
    <3>4. /\ Lookup!FirstMet(n, Lookup!ParentOf(RowsAt(Rowed)), CheckpointsOf(b)) = m
          /\ Lookup!FirstMet(n, Lookup!ParentOf(RowsAt(own)), CheckpointsOf(b)) = m
      BY <1>1, <2>2, <2>12, <3>3, WalkComesTo
    <3>5. {c \in ours : c.node = m} = {CheckpointAt(i) : i \in {m}}
      <4>1. \A i : CheckpointAt(i).node = i
        BY DEF CheckpointAt
      <4>2. QED
        BY <2>5, <3>3, <4>1
    <3>6. m \in Nat /\ m # 0
      BY <2>5, <3>1, <3>3 DEF CheckpointsOf
    <3>7. Lookup!Latest({CheckpointAt(i) : i \in {m}}) = {CheckpointAt(m)}
      <4>1. PICK one : one = {m}
        OBVIOUS
      <4>2. one \subseteq Nat /\ m \in one /\ \A x \in one : x <= m
        BY <3>6, <4>1
      <4>3. Lookup!Latest({CheckpointAt(i) : i \in one}) = {CheckpointAt(m)}
        BY <4>2, LatestIs
      <4>4. QED
        BY <4>1, <4>3
    <3>8. Lookup!Latest({CheckpointAt(i) : i \in T}) = {CheckpointAt(m)}
      BY <3>1, <3>2, LatestIs
    <3>9. Lookup!AtOrLatest(m, ours) = {CheckpointAt(m)}
      BY <3>5, <3>6, <3>7 DEF Lookup!AtOrLatest
    <3>10. QED
      BY <2>9, <2>11, <3>4, <3>8, <3>9
  <2>15. QED
    BY <2>13, <2>14
<1>2. IInv /\ Lineage /\ LogInv => LookupIsNearest
  BY <1>1 DEF LookupIsNearest
<1>3. QED
  BY <1>2, LogInvHolds, PTL

-----------------------------------------------------------------------------
(***************************************************************************)
(* The depth-first search of the graph page, on any rows.                  *)
(***************************************************************************)

(* Rows as a store has them: finitely many, with ids of their own.         *)
IsRows(rows) ==
  /\ DOMAIN rows \subseteq Nat /\ IsFiniteSet(DOMAIN rows)
  /\ \A i, j \in DOMAIN rows : rows[i].id = rows[j].id => i = j
  /\ \A i \in DOMAIN rows : rows[i].id # 0

(* Nothing is visited twice, and nothing before what it hangs from.        *)
WellVisited(rows, visited) ==
  /\ visited \in Seq(DOMAIN rows)
  /\ \A k, l \in 1..Len(visited) : visited[k] = visited[l] => k = l
  /\ \A k \in 1..Len(visited) :
       \/ visited[k] \in Graph!Roots(rows)
       \/ \E l \in 1..(k - 1) : visited[k] \in Graph!Children(rows, visited[l])

LEMMA NothingVisited == ASSUME NEW rows PROVE WellVisited(rows, <<>>) /\ <<>> \in Seq(DOMAIN rows)
<1>1. <<>> \in Seq(DOMAIN rows) /\ Len(<<>>) = 0
  OBVIOUS
<1>2. \A k \in 1..Len(<<>>) : FALSE
  BY <1>1
<1>3. QED
  BY <1>1, <1>2 DEF WellVisited

LEMMA GraphCardinality == ASSUME NEW S PROVE Graph!Cardinality(S) = Cardinality(S)
  BY Zenon DEF Graph!Cardinality, Cardinality

LEMMA MinIs ==
  ASSUME NEW S, S \subseteq Nat, S # {}
  PROVE  Graph!Min(S) \in S
<1>1. \E x \in S : \A y \in S : x <= y
  BY Least
<1>2. QED
  BY <1>1 DEF Graph!Min

LEMMA MaxIs ==
  ASSUME NEW S, S \subseteq Nat, S # {}, NEW m \in Nat, \A x \in S : x <= m
  PROVE  Graph!Max(S) \in S
<1>1. PICK x \in S : \A y \in S : y <= x
  BY Greatest
<1>2. \A y \in S : x >= y
  BY <1>1
<1>3. QED
  BY <1>2 DEF Graph!Max

LEMMA ToVisitIs ==
  ASSUME NEW rows, NEW visited \in Seq(DOMAIN rows)
  PROVE  LET candidates == Graph!ToVisit(rows, visited)
         IN  /\ candidates \subseteq DOMAIN rows \ Graph!ToSet(visited)
             /\ \A c \in candidates :
                  \/ c \in Graph!Roots(rows)
                  \/ \E l \in 1..Len(visited) : c \in Graph!Children(rows, visited[l])
             /\ candidates = {} =>
                  /\ Graph!Roots(rows) \subseteq Graph!ToSet(visited)
                  /\ \A l \in 1..Len(visited) :
                       Graph!Children(rows, visited[l]) \subseteq Graph!ToSet(visited)
<1> DEFINE Left(S) == S \ Graph!ToSet(visited)
           calling == {k \in DOMAIN visited : Left(Graph!Children(rows, visited[k])) # {}}
<1>1. DOMAIN visited = 1..Len(visited) /\ Len(visited) \in Nat
  OBVIOUS
<1>2. Graph!Roots(rows) \subseteq DOMAIN rows
      /\ \A i : Graph!Children(rows, i) \subseteq DOMAIN rows
  BY DEF Graph!Roots, Graph!Children
<1>3. CASE calling = {}
  <2>1. Graph!ToVisit(rows, visited) = Left(Graph!Roots(rows))
    BY <1>3 DEF Graph!ToVisit
  <2>2. QED
    BY <1>1, <1>2, <1>3, <2>1
<1>4. CASE calling # {}
  <2>1. calling \subseteq Nat /\ \A x \in calling : x <= Len(visited)
    BY <1>1
  <2>2. Graph!Max(calling) \in calling
    BY <1>1, <1>4, <2>1, MaxIs
  <2>3. Graph!ToVisit(rows, visited) = Left(Graph!Children(rows, visited[Graph!Max(calling)]))
    BY <1>4 DEF Graph!ToVisit
  <2>4. PICK k \in calling : Graph!ToVisit(rows, visited) = Left(Graph!Children(rows, visited[k]))
    BY <2>2, <2>3
  <2>5. QED
    BY <1>1, <1>2, <2>4
<1>5. QED
  BY <1>3, <1>4

LEMMA VisitKeeps ==
  ASSUME NEW rows, IsRows(rows), NEW visited, WellVisited(rows, visited)
  PROVE  /\ WellVisited(rows, Graph!Visit(rows, visited))
         /\ Graph!ToVisit(rows, visited) = {} => Graph!Visit(rows, visited) = visited
         /\ Graph!ToVisit(rows, visited) # {} =>
              Len(Graph!Visit(rows, visited)) = Len(visited) + 1
<1>1. PICK candidates : candidates = Graph!ToVisit(rows, visited)
  OBVIOUS
<1>2. CASE candidates = {}
  BY <1>1, <1>2 DEF Graph!Visit
<1>3. CASE candidates # {}
  <2>1. visited \in Seq(DOMAIN rows) /\ DOMAIN rows \subseteq Nat
    BY DEF WellVisited, IsRows
  <2>2. /\ candidates \subseteq DOMAIN rows \ Graph!ToSet(visited)
        /\ \A c \in candidates :
             \/ c \in Graph!Roots(rows)
             \/ \E l \in 1..Len(visited) : c \in Graph!Children(rows, visited[l])
    BY <1>1, <2>1, ToVisitIs
  <2>3. PICK c \in candidates : c = Graph!Min(candidates)
    BY <1>3, <2>1, <2>2, MinIs
  <2>4. PICK longer : longer = Append(visited, c)
    OBVIOUS
  <2>5. Graph!Visit(rows, visited) = longer
    BY <1>1, <1>3, <2>3, <2>4 DEF Graph!Visit
  <2>6. PICK n \in Nat : n = Len(visited)
    BY <2>1
  <2>7. /\ longer \in Seq(DOMAIN rows) /\ Len(longer) = n + 1 /\ longer[n + 1] = c
        /\ \A k \in 1..n : longer[k] = visited[k]
    BY <2>1, <2>2, <2>4, <2>6
  <2>8. \A k \in 1..n : visited[k] # c
    BY <2>1, <2>2, <2>6 DEF Graph!ToSet
  <2>9. \A k, l \in 1..(n + 1) : longer[k] = longer[l] => k = l
    <3>1. \A k \in 1..(n + 1) : k \in 1..n \/ k = n + 1
      OBVIOUS
    <3>2. \A k, l \in 1..n : visited[k] = visited[l] => k = l
      BY <2>6 DEF WellVisited
    <3>3. QED
      BY <2>7, <2>8, <3>1, <3>2
  <2>10. ASSUME NEW k \in 1..(n + 1)
         PROVE  \/ longer[k] \in Graph!Roots(rows)
                \/ \E l \in 1..(k - 1) : longer[k] \in Graph!Children(rows, longer[l])
    <3>1. CASE k = n + 1
      <4>1. k - 1 = n
        BY <3>1
      <4>2. QED
        BY <2>2, <2>6, <2>7, <3>1, <4>1
    <3>2. CASE k # n + 1
      <4>1. k \in 1..n /\ 1..(k - 1) \subseteq 1..n
        BY <3>2
      <4>2. \/ visited[k] \in Graph!Roots(rows)
            \/ \E l \in 1..(k - 1) : visited[k] \in Graph!Children(rows, visited[l])
        BY <2>6, <4>1 DEF WellVisited
      <4>3. QED
        BY <2>7, <4>1, <4>2
    <3>3. QED
      BY <3>1, <3>2
  <2>11. WellVisited(rows, longer)
    BY <2>7, <2>9, <2>10 DEF WellVisited
  <2>12. QED
    BY <1>1, <1>3, <2>5, <2>6, <2>7, <2>11
<1>4. QED
  BY <1>2, <1>3

(* What has been visited after each number of visits.                      *)
VisitsBody(after, rows) ==
  [visits \in Nat |-> IF visits = 0 THEN <<>> ELSE Graph!Visit(rows, after[visits - 1])]

LEMMA VisitsExist ==
  ASSUME NEW rows, IsRows(rows)
  PROVE  \E after : after = VisitsBody(after, rows)
<1>1. PICK S : S = {visited \in Seq(DOMAIN rows) : WellVisited(rows, visited)}
  OBVIOUS
<1>2. <<>> \in S
  BY <1>1, NothingVisited
<1>3. PICK step \in [S -> S] : \A v \in S : step[v] = Graph!Visit(rows, v)
  <2>1. ASSUME NEW v \in S PROVE Graph!Visit(rows, v) \in S
    <3>1. WellVisited(rows, Graph!Visit(rows, v))
      BY <1>1, VisitKeeps
    <3>2. QED
      BY <1>1, <3>1 DEF WellVisited
  <2>2. [v \in S |-> Graph!Visit(rows, v)] \in [S -> S]
    BY <2>1
  <2>3. QED
    BY <2>2
<1>4. PICK f \in [Nat -> S] : f[0] = <<>> /\ \A n \in Nat : f[n + 1] = step[f[n]]
  <2>1. PICK none \in S : none = <<>>
    BY <1>2
  <2>2. PICK f \in [Nat -> S] : f[0] = none /\ \A n \in Nat : f[n + 1] = step[f[n]]
    BY Iterated
  <2>3. QED
    BY <2>1, <2>2
<1>5. ASSUME NEW n \in Nat PROVE f[n] = VisitsBody(f, rows)[n]
  <2>1. CASE n = 0
    BY <1>4, <2>1 DEF VisitsBody
  <2>2. CASE n # 0
    <3>1. n - 1 \in Nat /\ (n - 1) + 1 = n
      BY <2>2
    <3>2. f[n] = Graph!Visit(rows, f[n - 1])
      BY <1>3, <1>4, <3>1
    <3>3. QED
      BY <2>2, <3>2 DEF VisitsBody
  <2>3. QED
    BY <2>1, <2>2
<1>6. f = VisitsBody(f, rows)
  <2>1. f = [n \in Nat |-> f[n]]
    BY <1>4
  <2>2. VisitsBody(f, rows) = [n \in Nat |-> VisitsBody(f, rows)[n]]
    BY DEF VisitsBody
  <2>3. QED
    BY <1>5, <2>1, <2>2
<1>7. QED
  BY <1>6
(* In the end all is visited that dfs() would visit: there is a visit for  *)
(* each row.                                                               *)
LEMMA VisitedIs ==
  ASSUME NEW rows, IsRows(rows)
  PROVE  /\ WellVisited(rows, Graph!Visited(rows))
         /\ Graph!ToVisit(rows, Graph!Visited(rows)) = {}
<1> DEFINE A == CHOOSE after : after = VisitsBody(after, rows)
<1>1. Graph!Visited(rows) = A[Cardinality(DOMAIN rows)]
  <2>1. Graph!Visited(rows) = A[Graph!Cardinality(DOMAIN rows)]
    BY Zenon DEF Graph!Visited, VisitsBody
  <2> HIDE DEF A
  <2>2. QED
    BY <2>1, GraphCardinality
<1>2. A = VisitsBody(A, rows)
  BY VisitsExist
<1> HIDE DEF A
<1>3. \A n \in Nat : A[n] = IF n = 0 THEN <<>> ELSE Graph!Visit(rows, A[n - 1])
  <2> TAKE n \in Nat
  <2>1. A[n] = VisitsBody(A, rows)[n]
    BY <1>2
  <2>2. QED
    BY <2>1 DEF VisitsBody
<1> DEFINE T == {n \in Nat : /\ WellVisited(rows, A[n])
                             /\ Len(A[n]) = n \/ Graph!ToVisit(rows, A[n]) = {}}
<1>4. 0 \in T
  <2>1. A[0] = <<>> /\ Len(<<>>) = 0
    BY <1>3
  <2>2. WellVisited(rows, A[0]) /\ Len(A[0]) = 0
    BY <2>1, NothingVisited
  <2>3. QED
    BY <2>2
<1>5. ASSUME NEW n \in Nat, n \in T PROVE n + 1 \in T
  <2>1. n + 1 \in Nat /\ n + 1 # 0 /\ (n + 1) - 1 = n
    OBVIOUS
  <2>2. A[n + 1] = Graph!Visit(rows, A[n])
    BY <1>3, <2>1
  <2>3. PICK v : v = A[n]
    OBVIOUS
  <2>3a. WellVisited(rows, v) /\ (Len(v) = n \/ Graph!ToVisit(rows, v) = {})
    BY <1>5, <2>3
  <2>4. PICK w : w = Graph!Visit(rows, v)
    OBVIOUS
  <2>5. /\ WellVisited(rows, w)
        /\ Graph!ToVisit(rows, v) = {} => w = v
        /\ Graph!ToVisit(rows, v) # {} => Len(w) = Len(v) + 1
    BY <2>3a, <2>4, VisitKeeps
  <2>6. Len(w) = n + 1 \/ Graph!ToVisit(rows, w) = {}
    BY <2>3a, <2>5
  <2>7. A[n + 1] = w
    BY <2>2, <2>3, <2>4
  <2>8. QED
    BY <2>1, <2>5, <2>6, <2>7
<1>6. Nat \subseteq T
  <2> HIDE DEF T
  <2>1. QED
    BY <1>4, <1>5, Upward
<1>7. PICK N \in Nat : N = Cardinality(DOMAIN rows)
  BY FS_CardinalityType DEF IsRows
<1>8. PICK v : v = A[N]
  OBVIOUS
<1>8a. WellVisited(rows, v) /\ (Len(v) = N \/ Graph!ToVisit(rows, v) = {})
  <2>1. N \in T
    BY <1>6
  <2>2. QED
    BY <1>8, <2>1
<1>9. ASSUME Len(v) = N PROVE Graph!ToVisit(rows, v) = {}
  <2>1. v \in Seq(DOMAIN rows) /\ \A k, l \in 1..N : v[k] = v[l] => k = l
    BY <1>8a, <1>9 DEF WellVisited
  <2>2. v \in [1..N -> DOMAIN rows]
    BY <1>9, <2>1
  <2>3. v \in Injection(1..N, DOMAIN rows)
    BY <2>1, <2>2 DEF Injection, IsInjective
  <2>4. IsFiniteSet(1..N) /\ Cardinality(1..N) = N
    BY FS_Interval
  <2>5. v \in Surjection(1..N, DOMAIN rows)
    BY <1>7, <2>3, <2>4, FS_Injection DEF IsRows
  <2>6. \A i \in DOMAIN rows : \E k \in 1..N : v[k] = i
    BY <2>5 DEF Surjection
  <2>7. DOMAIN rows \subseteq Graph!ToSet(v)
    BY <2>2, <2>6 DEF Graph!ToSet
  <2>8. Graph!ToVisit(rows, v) \subseteq DOMAIN rows \ Graph!ToSet(v)
    BY <2>1, ToVisitIs
  <2>9. QED
    BY <2>7, <2>8
<1>10. Graph!Visited(rows) = v
  BY <1>1, <1>7, <1>8
<1>11. QED
  BY <1>8a, <1>9, <1>10
(* What dfs() has visited is drawn in that order, and the rest after it.   *)
Rest(rows) == DOMAIN rows \ Graph!ToSet(Graph!Visited(rows))

LEMMA PlacesAre ==
  ASSUME NEW rows, IsRows(rows), NEW visited, visited = Graph!Visited(rows),
         NEW place, place = Graph!Places(rows)
  PROVE  /\ DOMAIN place = DOMAIN rows
         /\ \A i \in DOMAIN rows \ Rest(rows) :
              \E k \in 1..Len(visited) : visited[k] = i /\ place[i] = k
         /\ \A i \in Rest(rows) : place[i] \in Nat /\ place[i] > Len(visited)
         /\ \A i, j \in Rest(rows) : i < j => place[i] < place[j]
<1>1. PICK rest : rest = Rest(rows)
  OBVIOUS
<1>2. /\ DOMAIN place = DOMAIN rows
      /\ \A i \in DOMAIN rows \ rest :
           place[i] = CHOOSE k \in DOMAIN visited : visited[k] = i
      /\ \A i \in rest : place[i] = Len(visited) + Graph!Cardinality({j \in rest : j <= i})
  BY <1>1, Zenon DEF Graph!Places, Rest
<1>3. WellVisited(rows, visited)
  BY VisitedIs
<1>4. visited \in Seq(DOMAIN rows) /\ Len(visited) \in Nat /\ DOMAIN visited = 1..Len(visited)
  BY <1>3 DEF WellVisited
<1>5. ASSUME NEW i \in DOMAIN rows \ rest
      PROVE  \E k \in 1..Len(visited) : visited[k] = i /\ place[i] = k
  <2>1. \E k \in DOMAIN visited : visited[k] = i
    BY <1>1 DEF Rest, Graph!ToSet
  <2>2. QED
    BY <1>2, <1>4, <2>1
<1> DEFINE Ahead(i) == {j \in rest : j <= i}
<1>6. rest \subseteq Nat /\ IsFiniteSet(rest)
  <2>1. rest \subseteq DOMAIN rows
    BY <1>1 DEF Rest
  <2>2. QED
    BY <2>1, FS_Subset DEF IsRows
<1>7. ASSUME NEW i \in rest
      PROVE  /\ IsFiniteSet(Ahead(i)) /\ Cardinality(Ahead(i)) \in Nat \ {0}
             /\ place[i] = Len(visited) + Cardinality(Ahead(i))
  <2>1. Ahead(i) \in SUBSET rest /\ i \in Ahead(i)
    BY <1>6
  <2>2. place[i] = Len(visited) + Cardinality(Ahead(i))
    BY <1>2, GraphCardinality
  <2> HIDE DEF Ahead
  <2>3. IsFiniteSet(Ahead(i)) /\ Ahead(i) # {}
    BY <1>6, <2>1, FS_Subset
  <2>4. QED
    BY <2>2, <2>3, FS_CardinalityType, FS_EmptySet
<1>8. ASSUME NEW i \in rest, NEW j \in rest, i < j PROVE place[i] < place[j]
  <2>1. i \in Nat /\ j \in Nat
    BY <1>6
  <2>2. Ahead(i) \in SUBSET Ahead(j) /\ j \in Ahead(j) /\ j \notin Ahead(i)
    <3>1. \A x \in Nat : x <= i => x <= j
      BY <1>8, <2>1
    <3>2. \A x \in rest : x <= i => x <= j
      BY <1>6, <3>1
    <3>3. j <= j /\ ~(j <= i)
      BY <1>8, <2>1
    <3>4. QED
      BY <1>8, <3>2, <3>3
  <2> HIDE DEF Ahead
  <2>3. Cardinality(Ahead(i)) <= Cardinality(Ahead(j)) /\ Cardinality(Ahead(j)) # Cardinality(Ahead(i))
    BY <1>7, <2>2, FS_Subset
  <2>4. QED
    BY <1>4, <1>7, <2>3
<1> HIDE DEF Ahead
<1>9. \A i \in rest : place[i] \in Nat /\ place[i] > Len(visited)
  BY <1>4, <1>7
<1>10. QED
  BY <1>1, <1>2, <1>5, <1>8, <1>9

LEMMA PlacesApart ==
  ASSUME NEW rows, IsRows(rows), NEW place, place = Graph!Places(rows),
         NEW i \in DOMAIN rows, NEW j \in DOMAIN rows, place[i] = place[j]
  PROVE  i = j
<1>1. PICK visited : visited = Graph!Visited(rows)
  OBVIOUS
<1>2. /\ \A m \in DOMAIN rows \ Rest(rows) :
           \E k \in 1..Len(visited) : visited[k] = m /\ place[m] = k
      /\ \A m \in Rest(rows) : place[m] \in Nat /\ place[m] > Len(visited)
      /\ \A m, n \in Rest(rows) : m < n => place[m] < place[n]
  BY <1>1, PlacesAre
<1>3. Len(visited) \in Nat
  BY <1>1, VisitedIs DEF WellVisited
<1>4. CASE i \in Rest(rows) /\ j \in Rest(rows)
  <2>1. i \in Nat /\ j \in Nat
    BY DEF IsRows
  <2>2. ~(i < j) /\ ~(j < i)
    BY <1>2, <1>4
  <2>3. QED
    BY <2>1, <2>2
<1>5. CASE i \notin Rest(rows) /\ j \notin Rest(rows)
  BY <1>2, <1>5
<1>6. CASE i \in Rest(rows) /\ j \notin Rest(rows)
  <2>1. place[j] \in 1..Len(visited) /\ place[i] > Len(visited)
    BY <1>2, <1>6
  <2>2. QED
    BY <1>3, <2>1
<1>7. CASE i \notin Rest(rows) /\ j \in Rest(rows)
  <2>1. place[i] \in 1..Len(visited) /\ place[j] > Len(visited)
    BY <1>2, <1>7
  <2>2. QED
    BY <1>3, <2>1
<1>8. QED
  BY <1>4, <1>5, <1>6, <1>7

(* Roots are visited, and so are the children of what is visited; these    *)
(* are drawn below it.                                                     *)
LEMMA ChildrenBelow ==
  ASSUME NEW rows, IsRows(rows), NEW place, place = Graph!Places(rows)
  PROVE  /\ Graph!Roots(rows) \cap Rest(rows) = {}
         /\ \A p, c \in DOMAIN rows : rows[c].parent = rows[p].id =>
              IF c \in Rest(rows) THEN p \in Rest(rows) ELSE place[p] < place[c]
<1>1. PICK visited : visited = Graph!Visited(rows)
  OBVIOUS
<1>2. WellVisited(rows, visited) /\ Graph!ToVisit(rows, visited) = {}
  BY <1>1, VisitedIs
<1>3. visited \in Seq(DOMAIN rows) /\ Len(visited) \in Nat
  BY <1>2 DEF WellVisited
<1>4. /\ Graph!Roots(rows) \subseteq Graph!ToSet(visited)
      /\ \A l \in 1..Len(visited) : Graph!Children(rows, visited[l]) \subseteq Graph!ToSet(visited)
  BY <1>2, <1>3, ToVisitIs
<1>5. Rest(rows) = DOMAIN rows \ Graph!ToSet(visited)
  BY <1>1 DEF Rest
<1>6. \A m \in DOMAIN rows \ Rest(rows) :
        \E k \in 1..Len(visited) : visited[k] = m /\ place[m] = k
  BY <1>1, PlacesAre
<1>7. ASSUME NEW p \in DOMAIN rows, NEW c \in DOMAIN rows, rows[c].parent = rows[p].id
      PROVE  IF c \in Rest(rows) THEN p \in Rest(rows) ELSE place[p] < place[c]
  <2>1. c \in Graph!Children(rows, p)
    BY <1>7 DEF Graph!Children
  <2>2. CASE c \in Rest(rows)
    <3>1. ASSUME p \notin Rest(rows) PROVE FALSE
      <4>1. PICK k \in 1..Len(visited) : visited[k] = p
        BY <1>6, <3>1
      <4>2. QED
        BY <1>4, <1>5, <2>1, <2>2, <4>1
    <3>2. QED
      BY <2>2, <3>1
  <2>3. CASE c \notin Rest(rows)
    <3>1. PICK k \in 1..Len(visited) : visited[k] = c /\ place[c] = k
      BY <1>6, <2>3
    <3>2. c \notin Graph!Roots(rows)
      BY <1>7 DEF Graph!Roots, IsRows
    <3>3. PICK l \in 1..(k - 1) : c \in Graph!Children(rows, visited[l])
      BY <1>2, <3>1, <3>2 DEF WellVisited
    <3>4. l \in 1..Len(visited) /\ l < k /\ k \in Nat /\ l \in Nat
      BY <1>3, <3>1, <3>3
    <3>5. visited[l] \in DOMAIN rows /\ rows[c].parent = rows[visited[l]].id
      BY <1>3, <3>3, <3>4 DEF Graph!Children
    <3>6. visited[l] = p
      BY <1>7, <3>5 DEF IsRows
    <3>7. p \notin Rest(rows)
      BY <1>3, <1>5, <3>4, <3>6 DEF Graph!ToSet
    <3>8. PICK m \in 1..Len(visited) : visited[m] = p /\ place[p] = m
      BY <1>6, <3>7
    <3>9. m = l
      BY <1>2, <3>4, <3>6, <3>8 DEF WellVisited
    <3>10. QED
      BY <2>3, <3>1, <3>4, <3>8, <3>9
  <2>4. QED
    BY <2>2, <2>3
<1>8. QED
  BY <1>4, <1>5, <1>7

-----------------------------------------------------------------------------
(***************************************************************************)
(* The rows of a run as they are drawn.                                    *)
(***************************************************************************)

(* Some order of the rows.                                                 *)
InSomeOrder(rows, S) ==
  /\ DOMAIN rows \subseteq Nat /\ IsFiniteSet(DOMAIN rows)
  /\ S = {rows[i] : i \in DOMAIN rows}
  /\ \A i, j \in DOMAIN rows : rows[i] = rows[j] => i = j

(* The final checkpoint of a run whose last chat has no end is the only    *)
(* row that no root leads to.                                              *)
LEMMA LeftOverIsLast ==
  ASSUME IInv, Lineage, LogInv, NEW U, U \subseteq Rowed, 1 \notin U,
         \A x \in U : trace[x].parent \in Rowed => trace[x].parent \in U,
         NEW i \in U, NEW j \in U
  PROVE  i = j
<1>1. Rowed \subseteq 1..Len(trace) /\ Len(trace) \in Nat /\ Rowed \subseteq Nat
  BY DEF Rowed, IInv, TypeOK
<1>2. PICK m \in U : \A y \in U : m <= y
  BY <1>1, Least
<1>3. m \in Rowed /\ m \in 1..Len(trace) /\ m > 1 /\ m - 1 \in 1..Len(trace) /\ (m - 1) + 1 = m
      /\ m - 1 < Len(trace) /\ m - 1 # Len(trace) /\ m \in Nat
  BY <1>1
<1>4. /\ trace[m].parent \in 1..(m - 1)
      /\ \/ trace[m].parent \in Rowed
         \/ trace[m].type = "checkpoint" /\ status = "failed"
  BY <1>3, ParentsAre
<1>5. trace[m].parent \notin Rowed
  <2>1. trace[m].parent \notin U
    BY <1>2, <1>3, <1>4
  <2>2. QED
    BY <2>1
<1>6. trace[m].type = "checkpoint" /\ trace[m].parent = trace[m - 1].node
  <2>1. trace[m].type = "checkpoint"
    BY <1>4, <1>5
  <2>2. QED
    BY <1>3, <2>1, CallTypesAre DEF LogInv, Placed
<1>7. trace[m - 1].type \notin Tracker!EndTypes
  <2>1. SUFFICES ASSUME trace[m - 1].type \in Tracker!EndTypes PROVE FALSE
    OBVIOUS
  <2>2. /\ m - 1 > 1 /\ trace[(m - 1) - 1].type \in Tracker!StartTypes
        /\ trace[m - 1].node = (m - 1) - 1
    BY <1>3, <2>1 DEF LogInv, Placed
  <2>3. PICK p \in 1..Len(trace) : p = (m - 1) - 1 /\ p < Len(trace) /\ p + 1 = m - 1
    BY <1>3, <2>2
  <2>4. p \in Rowed
    BY <2>1, <2>2, <2>3, CallTypesAre DEF Rowed, HasRow
  <2>5. QED
    BY <1>5, <1>6, <2>2, <2>3, <2>4
<1>8. trace[m].parent = m - 1
  BY <1>3, <1>6, <1>7 DEF LogInv, Placed
<1>9. trace[m - 1].type \in Tracker!StartTypes
  <2>1. trace[m - 1].type # "run_end"
    BY <1>3 DEF LogInv, Calls
  <2>2. QED
    BY <1>3, <1>5, <1>7, <1>8, <2>1 DEF Rowed, HasRow
<1>10. LeftOpen(m - 1)
  <2>1. Unended(m - 1)
    BY <1>3, <1>6, <1>9, CallTypesAre DEF Unended
  <2>2. QED
    BY <1>3, <2>1 DEF LogInv, Calls
<1>11. m < Len(trace) => trace[m + 1].type = "run_end"
  <2>1. SUFFICES ASSUME m < Len(trace) PROVE trace[m + 1].type = "run_end"
    OBVIOUS
  <2>2. (m - 1) + 2 = m + 1
    BY <1>3
  <2>3. QED
    BY <1>3, <1>10, <2>1, <2>2 DEF LeftOpen
<1>12. \A x \in U : x = m
  <2>1. ASSUME NEW x \in U, x # m PROVE FALSE
    <3>1. x \in 1..Len(trace) /\ x \in Rowed /\ m < x
      BY <1>1, <1>2, <1>3, <2>1
    <3>2. m < Len(trace) /\ m + 1 \in 1..Len(trace)
      BY <1>1, <1>3, <3>1
    <3>3. m + 1 = Len(trace) /\ trace[m + 1].type = "run_end"
      BY <1>11, <3>2 DEF LogInv, Calls
    <3>4. x = m + 1
      BY <1>3, <3>1, <3>3
    <3>5. QED
      BY <3>1, <3>3, <3>4 DEF Rowed, HasRow
  <2>2. QED
    BY <2>1
<1>13. QED
  BY <1>12

LEMMA DrawnInEveryOrder ==
  ASSUME IInv, Lineage, LogInv, NEW rows, InSomeOrder(rows, Nodes)
  PROVE  DrawnDownward(rows)
<1>1. /\ Nodes = {RowAt(i) : i \in Rowed}
      /\ \A i \in Rowed : RowAt(i).id = i /\ RowAt(i).parent = trace[i].parent
  BY NodesAre DEF RowsAt
<1>2. Rowed \subseteq 1..Len(trace) /\ Len(trace) \in Nat /\ Rowed \subseteq Nat /\ 0 \notin Rowed
  BY DEF Rowed, IInv, TypeOK
<1>3. \A i \in DOMAIN rows : /\ rows[i].id \in Rowed
                             /\ rows[i] = RowAt(rows[i].id)
                             /\ rows[i].parent = trace[rows[i].id].parent
  BY <1>1 DEF InSomeOrder
<1>4. \A x \in Rowed : \E i \in DOMAIN rows : rows[i].id = x
  <2>1. \A x \in Rowed : RowAt(x) \in Nodes /\ RowAt(x).id = x
    BY <1>1
  <2>2. QED
    BY <2>1 DEF InSomeOrder
<1>5. IsRows(rows)
  <2>1. \A i, j \in DOMAIN rows : rows[i].id = rows[j].id => i = j
    BY <1>3 DEF InSomeOrder
  <2>2. \A i \in DOMAIN rows : rows[i].id # 0
    BY <1>2, <1>3
  <2>3. QED
    BY <2>1, <2>2 DEF InSomeOrder, IsRows
<1>6. PICK place : place = Graph!Places(rows)
  OBVIOUS
<1>7. /\ Graph!Roots(rows) \cap Rest(rows) = {}
      /\ \A p, c \in DOMAIN rows : rows[c].parent = rows[p].id =>
           IF c \in Rest(rows) THEN p \in Rest(rows) ELSE place[p] < place[c]
  BY <1>5, <1>6, ChildrenBelow
<1>8. PICK U : U = {rows[i].id : i \in Rest(rows)}
  OBVIOUS
<1>9. Rest(rows) \subseteq DOMAIN rows
  BY DEF Rest
<1>10. U \subseteq Rowed
  BY <1>3, <1>8, <1>9
<1>11. 1 \notin U
  <2>1. SUFFICES ASSUME 1 \in U PROVE FALSE
    OBVIOUS
  <2>2. PICK i \in Rest(rows) : rows[i].id = 1
    BY <1>8, <2>1
  <2>3. 1 \in 1..Len(trace)
    BY <1>2, <1>10, <2>1
  <2>4. trace[1].parent = 0
    BY <2>3 DEF LogInv, Placed
  <2>5. i \in Graph!Roots(rows)
    BY <1>3, <1>9, <2>2, <2>4 DEF Graph!Roots
  <2>6. QED
    BY <1>7, <2>5
<1>12. ASSUME NEW x \in U, trace[x].parent \in Rowed PROVE trace[x].parent \in U
  <2>1. PICK c \in Rest(rows) : rows[c].id = x
    BY <1>8
  <2>2. PICK p \in DOMAIN rows : rows[p].id = trace[x].parent
    BY <1>4, <1>12
  <2>3. rows[c].parent = rows[p].id
    BY <1>3, <1>9, <2>1, <2>2
  <2>4. p \in Rest(rows)
    BY <1>7, <1>9, <2>3
  <2>5. QED
    BY <1>8, <2>2, <2>4
<1>13. \A x, y \in U : x = y
  BY <1>10, <1>11, <1>12, LeftOverIsLast
<1>14. ASSUME NEW p \in DOMAIN rows, NEW c \in DOMAIN rows, rows[c].parent = rows[p].id
       PROVE  place[p] < place[c]
  <2>1. CASE c \notin Rest(rows)
    BY <1>7, <1>14, <2>1
  <2>2. CASE c \in Rest(rows)
    <3>1. p \in Rest(rows)
      BY <1>7, <1>14, <2>2
    <3>2. PICK x \in Rowed : x = rows[c].id /\ x \in U /\ x = rows[p].id
      BY <1>3, <1>8, <1>13, <2>2, <3>1
    <3>3. x > 1 /\ x \in Nat
      BY <1>2, <1>11, <3>2
    <3>4. trace[x].parent \in 1..(x - 1)
      BY <3>3, ParentsAre
    <3>5. trace[x].parent = x
      BY <1>3, <1>14, <3>2
    <3>6. QED
      BY <3>3, <3>4, <3>5
  <2>3. QED
    BY <2>1, <2>2
<1>15. \A e \in Graph!Edges(rows) : place[e[1]] < place[e[2]]
  BY <1>14 DEF Graph!Edges
<1>16. DOMAIN place = DOMAIN rows
  <2>1. PICK visited : visited = Graph!Visited(rows)
    OBVIOUS
  <2>2. QED
    BY <1>5, <1>6, <2>1, PlacesAre
<1>17. \A i, j \in DOMAIN rows : place[i] = place[j] => i = j
  BY <1>5, <1>6, PlacesApart
<1>18. QED
  BY <1>6, <1>15, <1>16, <1>17 DEF DrawnDownward

LEMMA InsertedInSomeOrder ==
  ASSUME IInv, Lineage, LogInv
  PROVE  LET rows      == Ingest!InsertedRows(trace)
             backwards == [i \in {Len(trace) - j : j \in DOMAIN rows} |-> rows[Len(trace) - i]]
         IN  InSomeOrder(rows, Nodes) /\ InSomeOrder(backwards, Nodes)
<1>1. PICK n \in Nat : n = Len(trace) /\ DOMAIN trace = 1..n
  BY DEF IInv, TypeOK
<1>2. PICK rows : rows = Ingest!InsertedRows(trace)
  OBVIOUS
<1>3. PICK D : D = {j \in 1..n : Ingest!RowsOf(trace, j) # {}}
  OBVIOUS
<1>4. DOMAIN rows = D /\ \A i \in D : rows[i] = CHOOSE row \in Ingest!RowsOf(trace, i) : TRUE
  BY <1>1, <1>2, <1>3, Zenon DEF Ingest!InsertedRows
<1>5. /\ Nodes = RowsAt(Rowed)
      /\ \A i \in Rowed : RowAt(i).id = i
  BY NodesAre
<1>6. ASSUME NEW i \in D
      PROVE  /\ Ingest!RowsOf(trace, i) = {rows[i]}
             /\ \/ trace[i].type \in Tracker!EndTypes /\ i - 1 \in 1..n /\ rows[i] = RowAt(i - 1)
                                                   /\ trace[i - 1].type \in Tracker!StartTypes
                \/ trace[i].type \notin Tracker!EndTypes /\ rows[i] = RowAt(i)
                                                   /\ trace[i].type \notin Tracker!StartTypes
  <2>1. i \in 1..Len(trace) /\ Ingest!RowsOf(trace, i) # {} /\ i \in Nat
    BY <1>1, <1>3
  <2>2. PICK row : row = rows[i]
    OBVIOUS
  <2>3. row \in Ingest!RowsOf(trace, i)
    BY <1>4, <2>1, <2>2
  <2>4. CASE trace[i].type \in Tracker!EndTypes
    <3>1. Ingest!RowsOf(trace, i) = {RowAt(i - 1)}
      BY <2>1, <2>4, RowsMade
    <3>2. i > 1 /\ trace[i - 1].type \in Tracker!StartTypes
      BY <2>1, <2>4 DEF LogInv, Placed
    <3>3. QED
      BY <1>1, <2>1, <2>2, <2>3, <2>4, <3>1, <3>2
  <2>5. CASE trace[i].type \notin Tracker!EndTypes
    <3>1. trace[i].type \notin Tracker!StartTypes \cup {"run_end"}
      BY <2>1, <2>5, RowsMade
    <3>2. Ingest!RowsOf(trace, i) = {RowAt(i)}
      BY <2>1, <2>5, <3>1, RowsMade
    <3>3. QED
      BY <2>2, <2>3, <2>5, <3>1, <3>2
  <2>6. QED
    BY <2>4, <2>5
<1>7. D \subseteq Nat /\ D \subseteq 1..n /\ IsFiniteSet(D)
  <2>1. D \in SUBSET (1..n) /\ IsFiniteSet(1..n) /\ 1..n \subseteq Nat
    BY <1>3, FS_Interval
  <2>2. IsFiniteSet(D)
    BY <2>1, FS_Subset
  <2>3. QED
    BY <2>1, <2>2
<1>8. Nodes = {rows[i] : i \in D}
  <2>1. Nodes = UNION {Ingest!RowsOf(trace, i) : i \in 1..n}
    BY <1>1 DEF Nodes, Ingest!NodeRows
  <2>2. \A x : x \in Nodes <=> \E i \in D : x \in Ingest!RowsOf(trace, i)
    BY <1>3, <2>1
  <2>3. \A x : x \in Nodes <=> \E i \in D : x = rows[i]
    BY <1>6, <2>2
  <2>4. QED
    BY <2>3
<1>9. ASSUME NEW i \in D, NEW j \in D, rows[i] = rows[j] PROVE i = j
  <2>1. i \in 1..n /\ j \in 1..n /\ rows[i] \in Nodes /\ i \in Nat /\ j \in Nat
    BY <1>7, <1>8
  <2>2. \A k \in 1..n : trace[k].type \in Tracker!StartTypes => trace[k].type \notin Tracker!EndTypes
    BY CallTypesAre
  <2>3. \A k \in 1..n : trace[k].type \notin Tracker!EndTypes => RowAt(k).id = k
    BY <1>1 DEF LogInv, Placed, RowAt, Ingest!Row
  <2>4. ASSUME NEW k \in D
        PROVE  \/ /\ trace[k].type \in Tracker!EndTypes
                  /\ rows[k].id = k - 1
                  /\ trace[k - 1].type \in Tracker!StartTypes
               \/ /\ trace[k].type \notin Tracker!EndTypes \cup Tracker!StartTypes
                  /\ rows[k].id = k
    <3>1. CASE trace[k].type \in Tracker!EndTypes
      <4>1. k - 1 \in 1..n /\ rows[k] = RowAt(k - 1) /\ trace[k - 1].type \in Tracker!StartTypes
        BY <1>6, <3>1
      <4>2. rows[k].id = k - 1
        BY <2>2, <2>3, <4>1
      <4>3. QED
        BY <3>1, <4>1, <4>2
    <3>2. CASE trace[k].type \notin Tracker!EndTypes
      <4>1. k \in 1..n /\ rows[k] = RowAt(k) /\ trace[k].type \notin Tracker!StartTypes
        BY <1>6, <1>7, <3>2
      <4>2. rows[k].id = k
        BY <2>3, <3>2, <4>1
      <4>3. QED
        BY <3>2, <4>1, <4>2
    <3>3. QED
      BY <3>1, <3>2
  <2>5. QED
    BY <1>9, <2>1, <2>4
<1>10. InSomeOrder(rows, Nodes)
  BY <1>4, <1>7, <1>8, <1>9 DEF InSomeOrder
<1>11. PICK B : B = {n - j : j \in D}
  OBVIOUS
<1>12. PICK backwards : backwards = [i \in B |-> rows[n - i]]
  OBVIOUS
<1>13. /\ B \subseteq 0..n
       /\ \A i \in B : n - i \in D
       /\ \A j \in D : n - j \in B /\ n - (n - j) = j
  <2>1. \A j \in 1..n : n - j \in 0..n /\ n - (n - j) = j
    OBVIOUS
  <2>2. \A j \in D : n - j \in 0..n /\ n - (n - j) = j
    BY <1>7, <2>1
  <2>3. QED
    BY <1>11, <2>2
<1>14. B \subseteq Nat /\ IsFiniteSet(B)
  <2>1. B \in SUBSET (0..n) /\ IsFiniteSet(0..n) /\ 0..n \subseteq Nat
    BY <1>13, FS_Interval
  <2>2. IsFiniteSet(B)
    BY <2>1, FS_Subset
  <2>3. QED
    BY <2>1, <2>2
<1>15. Nodes = {backwards[i] : i \in B}
  <2>1. \A i \in B : backwards[i] = rows[n - i]
    BY <1>12
  <2>2. ASSUME NEW j \in D PROVE \E i \in B : backwards[i] = rows[j]
    BY <1>13, <2>1
  <2>3. \A i \in B : backwards[i] \in Nodes
    BY <1>8, <1>13, <2>1
  <2>4. QED
    BY <1>8, <2>2, <2>3
<1>16. ASSUME NEW i \in B, NEW j \in B, backwards[i] = backwards[j] PROVE i = j
  <2>1. n - i \in D /\ n - j \in D /\ i \in Nat /\ j \in Nat
    BY <1>13, <1>14
  <2>2. n - i = n - j
    BY <1>9, <1>12, <1>16, <2>1
  <2>3. QED
    BY <2>1, <2>2
<1>17. InSomeOrder(backwards, Nodes)
  BY <1>12, <1>14, <1>15, <1>16 DEF InSomeOrder
<1>18. QED
  BY <1>1, <1>2, <1>4, <1>10, <1>11, <1>12, <1>17

\* For all budgets and faults, the graph page draws every row of a run on a line of
\* its own and below the one it hangs from, in whichever order the store gives the
\* rows.
THEOREM RecordIsDrawnInAnyOrder ==
  Spec => [](\A rows : InSomeOrder(rows, Nodes) => DrawnDownward(rows))
<1>1. IInv /\ Lineage /\ LogInv => \A rows : InSomeOrder(rows, Nodes) => DrawnDownward(rows)
  BY DrawnInEveryOrder
<1>2. QED
  BY <1>1, LogInvHolds, PTL

\* The same in the two orders that the model checker tries.
THEOREM RecordIsDrawnDownward == Spec => []GraphIsDrawnDownward
<1>1. IInv /\ Lineage /\ LogInv => GraphIsDrawnDownward
  BY DrawnInEveryOrder, InsertedInSomeOrder DEF GraphIsDrawnDownward
<1>2. QED
  BY <1>1, LogInvHolds, PTL
=============================================================================
