------------------------- MODULE SharedSandboxProofs -------------------------
(***************************************************************************)
(* Proofs about SharedSandbox, for any requests and any files, wherever    *)
(* the artifacts lie, and about the default policy.                        *)
(***************************************************************************)
EXTENDS SharedSandbox, FiniteSetTheorems, WellFoundedInduction, TLAPS

-----------------------------------------------------------------------------
(***************************************************************************)
(* The policy and what snapshots skip.                                     *)
(***************************************************************************)

LEMMA DefaultRules ==
  /\ DOMAIN DEFAULT_POLICY.rules = 1..10
  /\ \A i \in 1..10 : DEFAULT_POLICY.rules[i].decision = "deny"
  /\ \A i \in 1..3 : DEFAULT_POLICY.rules[i].actionType = "file_read"
  /\ DEFAULT_POLICY.rules[5] = Rule("git", "file_write")
  /\ DEFAULT_POLICY.rules[6] = Rule("node_modules", "file_write")
  /\ DEFAULT_POLICY.rules[7] = Rule("next", "file_write")
<1> DEFINE rules == DEFAULT_POLICY.rules
<1>1. rules = << Rule("dotenv", "file_read"), Rule("credentials", "file_read"),
                 Rule("git", "file_read"), Rule("dotenv", "file_write"),
                 Rule("git", "file_write"), Rule("node_modules", "file_write"),
                 Rule("next", "file_write"), Rule("sudo", "command_execution"),
                 Rule("rm -rf /", "command_execution"),
                 Rule("any", "sandbox_boundary") >>
  BY DEF DEFAULT_POLICY
<1> HIDE DEF rules
<1>2. /\ DOMAIN rules = 1..10
      /\ rules[1] = Rule("dotenv", "file_read")
      /\ rules[2] = Rule("credentials", "file_read")
      /\ rules[3] = Rule("git", "file_read")
      /\ rules[4] = Rule("dotenv", "file_write")
      /\ rules[5] = Rule("git", "file_write")
      /\ rules[6] = Rule("node_modules", "file_write")
      /\ rules[7] = Rule("next", "file_write")
      /\ rules[8] = Rule("sudo", "command_execution")
      /\ rules[9] = Rule("rm -rf /", "command_execution")
      /\ rules[10] = Rule("any", "sandbox_boundary")
  <2>1. DOMAIN rules = 1..10
    <3>1. Len(rules) = 10
      BY <1>1
    <3>2. PICK S : rules \in Seq(S)
      <4>1. \A a, b, c, d, e, f, g, h, i, j :
              <<a, b, c, d, e, f, g, h, i, j>> \in Seq({a, b, c, d, e, f, g, h, i, j})
        OBVIOUS
      <4>2. QED
        BY <1>1, <4>1
    <3>3. QED
      BY <3>1, <3>2
  <2>2. rules[1] = Rule("dotenv", "file_read")
    BY <1>1
  <2>3. rules[2] = Rule("credentials", "file_read")
    BY <1>1
  <2>4. rules[3] = Rule("git", "file_read")
    BY <1>1
  <2>5. rules[4] = Rule("dotenv", "file_write")
    BY <1>1
  <2>6. rules[5] = Rule("git", "file_write")
    BY <1>1
  <2>7. rules[6] = Rule("node_modules", "file_write")
    BY <1>1
  <2>8. rules[7] = Rule("next", "file_write")
    BY <1>1
  <2>9. rules[8] = Rule("sudo", "command_execution")
    BY <1>1
  <2>10. rules[9] = Rule("rm -rf /", "command_execution")
    BY <1>1
  <2>11. rules[10] = Rule("any", "sandbox_boundary")
    BY <1>1
  <2>12. QED
    BY <2>1, <2>2, <2>3, <2>4, <2>5, <2>6, <2>7, <2>8, <2>9, <2>10, <2>11
<1>3. ASSUME NEW p, NEW a
      PROVE  Rule(p, a).decision = "deny" /\ Rule(p, a).actionType = a
  BY DEF Rule
<1>4. \A i \in 1..10 : \/ i = 1 \/ i = 2 \/ i = 3 \/ i = 4 \/ i = 5 \/ i = 6
                       \/ i = 7 \/ i = 8 \/ i = 9 \/ i = 10
  OBVIOUS
<1>5. \A i \in 1..3 : i = 1 \/ i = 2 \/ i = 3
  OBVIOUS
<1>6. ASSUME NEW i \in 1..10 PROVE rules[i].decision = "deny"
  <2>1. PICK p, a : rules[i] = Rule(p, a)
    BY <1>2, <1>4
  <2>2. QED
    BY <2>1, <1>3
<1>7. ASSUME NEW i \in 1..3 PROVE rules[i].actionType = "file_read"
  <2>1. PICK p : rules[i] = Rule(p, "file_read")
    BY <1>2, <1>5
  <2>2. QED
    BY <2>1, <1>3
<1>8. QED
  BY <1>2, <1>6, <1>7 DEF rules

(* A write that one of the rules 4 to 7 applies to is denied.              *)
LEMMA DeniedWrite ==
  ASSUME NEW f, NEW k \in 4..7,
         Applies(DEFAULT_POLICY.rules[k], "file_write", f)
  PROVE  ~Allowed("file_write", f)
<1> DEFINE A(i) == Applies(DEFAULT_POLICY.rules[i], "file_write", f)
<1>1. \A i \in 1..3 : ~A(i)
  BY DefaultRules DEF Applies
<1>2. PICK i \in 4..7 : A(i) /\ \A j \in 1..(i - 1) : ~A(j)
  <2> HIDE DEF A
  <2>1. A(k)
    BY DEF A
  <2>2. A(4) \/ A(5) \/ A(6) \/ A(7)
    BY <2>1
  <2>3. CASE A(4)
    BY <1>1, <2>3
  <2>4. CASE ~A(4) /\ A(5)
    BY <1>1, <2>4
  <2>5. CASE ~A(4) /\ ~A(5) /\ A(6)
    BY <1>1, <2>5
  <2>6. CASE ~A(4) /\ ~A(5) /\ ~A(6) /\ A(7)
    BY <1>1, <2>6
  <2>7. QED
    BY <2>2, <2>3, <2>4, <2>5, <2>6
<1> DEFINE deciding == Deciding("file_write", f, DEFAULT_POLICY)
<1>3. i \in deciding /\ deciding \subseteq 1..10
  BY <1>2, DefaultRules DEF Deciding
<1>4. (CHOOSE j \in deciding : TRUE) \in deciding
  BY <1>3
<1>5. EvaluatePolicy("file_write", f, DEFAULT_POLICY) = "deny"
  BY <1>3, <1>4, DefaultRules DEF EvaluatePolicy
<1>6. QED
  BY <1>5 DEF Allowed

(***************************************************************************)
(* The path that is given and the file that it resolves to.                *)
(***************************************************************************)

(* The members of T under x.                                               *)
Under(T, x) == {y \in T : y < x}

LEMMA LeastMember ==
  ASSUME NEW T, T \subseteq Nat, T # {}
  PROVE  \E x \in T : \A y \in T : x <= y
<1> DEFINE F == {Under(T, x) : x \in T}
<1>1. \A x \in T : IsFiniteSet(Under(T, x))
  <2> TAKE x \in T
  <2>1. x \in Nat /\ Under(T, x) \in SUBSET Nat
    BY DEF Under
  <2>2. \A y \in Under(T, x) : y <= x
    BY <2>1 DEF Under
  <2>3. QED
    BY <2>1, <2>2, FS_BoundedSetOfNaturals
<1>2. F \subseteq FiniteSubsetsOf(Nat) /\ F # {}
  <2>1. \A x \in T : Under(T, x) \subseteq Nat
    BY DEF Under
  <2>2. QED
    BY <1>1, <2>1 DEF FiniteSubsetsOf
<1>3. PICK B \in F : \A C \in F : <<C, B>> \notin StrictSubsetOrdering(Nat)
  BY <1>2, FS_StrictSubsetOrderingWellFounded, WFMin
<1>4. PICK x \in T : B = Under(T, x)
  OBVIOUS
<1>5. ASSUME NEW y \in T, y < x PROVE FALSE
  <2>1. Under(T, y) \subseteq Under(T, x)
    <3>1. ASSUME NEW z \in T, z < y PROVE z < x
      <4>1. x \in Nat /\ y \in Nat /\ z \in Nat
        OBVIOUS
      <4>2. QED
        BY <1>5, <3>1, <4>1
    <3>2. QED
      BY <3>1 DEF Under
  <2>2. y \in Under(T, x) /\ y \notin Under(T, y) /\ Under(T, x) \subseteq Nat
    <3>1. y \in Nat /\ ~(y < y)
      OBVIOUS
    <3>2. y \in Under(T, x)
      BY <1>5 DEF Under
    <3>3. y \notin Under(T, y)
      BY <3>1 DEF Under
    <3>4. QED
      BY <3>2, <3>3 DEF Under
  <2>3. <<Under(T, y), Under(T, x)>> \in StrictSubsetOrdering(Nat)
    BY <2>1, <2>2 DEF StrictSubsetOrdering
  <2>4. QED
    BY <1>3, <1>4, <2>3
<1>6. ASSUME NEW y \in T PROVE x <= y
  <2>1. x \in Nat /\ y \in Nat /\ ~(y < x)
    BY <1>5
  <2>2. QED
    BY <2>1
<1>7. QED
  BY <1>6

(* Of ascending numbers, the n-th is at least n.                           *)
LEMMA Ascending ==
  ASSUME NEW m \in Nat, NEW at \in [1..m -> Nat \ {0}],
         \A i, j \in 1..m : i < j => at[i] < at[j]
  PROVE  \A n \in 1..m : n <= at[n]
<1> DEFINE T == {n \in 1..m : at[n] < n}
<1> SUFFICES ASSUME T # {} PROVE FALSE
  <2>1. \A n \in 1..m : n \in Nat /\ at[n] \in Nat
    OBVIOUS
  <2>2. QED
    BY <2>1
<1>1. PICK n \in T : \A y \in T : n <= y
  <2>1. T \subseteq Nat
    OBVIOUS
  <2> HIDE DEF T
  <2>2. QED
    BY <2>1, LeastMember
<1>2. n \in 1..m /\ at[n] \in Nat \ {0} /\ at[n] < n
  OBVIOUS
<1>3. n - 1 \in 1..m /\ n - 1 < n
  BY <1>2
<1>4. at[n - 1] < at[n] /\ at[n - 1] \in Nat
  BY <1>2, <1>3
<1>5. n - 1 \in T
  BY <1>2, <1>3, <1>4
<1>6. QED
  BY <1>1, <1>2, <1>5

(* A directory on the way to the file is on the way that is given, too.    *)
LEMMA GivenLeadsThrough ==
  ASSUME NEW given \in Spellings, NEW f \in Files, NEW name,
         Resolves(given, f), Through(f, name)
  PROVE  Through(given, name)
<1> DEFINE path == IF Absolute(given) THEN given ELSE Root \o given
           file == Root \o f
<1>1. Root \in Seq(STRING) /\ f \in Seq(STRING) /\ given \in Seq(STRING)
  BY PathsAssumption
<1>0. ASSUME NEW s \in Seq(STRING), NEW t \in Seq(STRING)
      PROVE  /\ s \o t \in Seq(STRING) /\ Len(s \o t) = Len(s) + Len(t)
             /\ Len(s) \in Nat /\ Len(t) \in Nat /\ DOMAIN (s \o t) = 1..Len(s \o t)
             /\ \A i \in 1..Len(t) : (s \o t)[Len(s) + i] = t[i]
  OBVIOUS
<1>2. /\ path \in Seq(STRING) /\ file \in Seq(STRING)
      /\ Len(file) = Len(Root) + Len(f) /\ DOMAIN file = 1..Len(file)
      /\ \A i \in 1..Len(f) : file[Len(Root) + i] = f[i]
  BY <1>0, <1>1
<1>3. PICK at \in [DOMAIN file -> Kept(path)] :
        /\ \A i, j \in DOMAIN file : i < j => at[i] < at[j]
        /\ \A j \in DOMAIN file : path[at[j]] = file[j]
  BY Zenon DEF Resolves
<1>4. PICK i \in 1..(Len(f) - 1) : f[i] = name
  BY DEF Through
<1> HIDE DEF path, file
<1>5. Kept(path) \subseteq 1..Len(path) /\ Kept(path) \subseteq Nat \ {0}
  <2>1. Kept(path) \subseteq DOMAIN path
    BY Zenon DEF Kept, Names
  <2>2. DOMAIN path = 1..Len(path) /\ Len(path) \in Nat
    BY <1>2
  <2>3. QED
    BY <2>1, <2>2
<1> DEFINE n == Len(Root) + i
<1>6. /\ n \in 1..Len(file) /\ n + 1 \in 1..Len(file) /\ n < n + 1
      /\ Len(Root) \in Nat /\ file[n] = name
  <2>1. Len(Root) \in Nat /\ Len(f) \in Nat
    BY <1>1
  <2>2. i \in 1..Len(f) /\ i + 1 \in 1..Len(f)
    BY <1>4, <2>1
  <2>3. file[n] = name
    BY <1>2, <1>4, <2>2
  <2>4. QED
    BY <1>2, <2>1, <2>2, <2>3
<1>7. Len(file) \in Nat
  BY <1>2
<1> HIDE DEF n
<1>8. n <= at[n]
  <2>1. at \in [1..Len(file) -> Nat \ {0}]
    BY <1>2, <1>3, <1>5
  <2>2. QED
    BY <1>2, <1>3, <1>6, <1>7, <2>1, Ascending
<1>9. /\ at[n] \in 1..Len(path) /\ at[n + 1] \in 1..Len(path) /\ at[n] < at[n + 1]
      /\ path[at[n]] = name
  BY <1>2, <1>3, <1>5, <1>6
<1>10. at[n] \in 1..(Len(path) - 1)
  <2>1. Len(path) \in Nat
    BY <1>2
  <2>2. QED
    BY <1>9, <2>1
<1>11. CASE Absolute(given)
  BY <1>9, <1>10, <1>11 DEF path, Through
<1>12. CASE ~Absolute(given)
  <2>1. path = Root \o given
    BY <1>12 DEF path
  <2>2. at[n] - Len(Root) \in 1..(Len(given) - 1)
    BY <1>1, <1>4, <1>6, <1>8, <1>10, <2>1 DEF n
  <2>3. given[at[n] - Len(Root)] = path[at[n]]
    <3>1. PICK k \in 1..Len(given) : k = at[n] - Len(Root)
      BY <1>1, <2>2
    <3>2. (Root \o given)[Len(Root) + k] = given[k]
      BY <1>0, <1>1
    <3>3. Len(Root) + k = at[n]
      BY <1>6, <1>9, <1>10, <3>1
    <3>4. QED
      BY <2>1, <3>1, <3>2, <3>3
  <2>4. QED
    BY <1>9, <2>2, <2>3 DEF Through
<1>13. QED
  BY <1>11, <1>12

\* The policy judges the path as the model gives it, write_file writes the file
\* that this path resolves to, and filesystem-snapper.ts:65 skips node_modules,
\* .next, .git and .cache.  However a path is spelled, what write_file may write
\* is covered by snapshots, except below a .cache, and below a .git if the path
\* does not begin with .git.
THEOREM WritesAreCovered ==
  \A given \in Spellings, f \in Files :
    (Allowed("file_write", given) /\ Resolves(given, f) /\ Guarded(given, f))
    => ~Skipped(f)
<1> SUFFICES ASSUME NEW given \in Spellings, NEW f \in Files, Resolves(given, f),
                    Guarded(given, f), Skipped(f)
             PROVE  ~Allowed("file_write", given)
  OBVIOUS
<1>1. PICK i \in 1..(Len(f) - 1) : f[i] \in SkipDirs
  BY DEF Skipped
<1>2. f[i] # ".cache" /\ (f[i] = ".git" => Below(given, ".git"))
  BY <1>1 DEF Guarded, Through
<1>3. CASE f[i] = "node_modules"
  <2>1. Through(given, "node_modules")
    <3>1. Through(f, "node_modules")
      BY <1>1, <1>3 DEF Through
    <3>2. QED
      BY <3>1, GivenLeadsThrough
  <2>2. Matches(Rule("node_modules", "file_write"), given)
    BY <2>1 DEF Matches, Rule
  <2>3. Applies(DEFAULT_POLICY.rules[6], "file_write", given)
    BY <2>2, DefaultRules DEF Applies, Rule
  <2>4. QED
    BY <2>3, DeniedWrite
<1>4. CASE f[i] = ".next"
  <2>1. Through(given, ".next")
    <3>1. Through(f, ".next")
      BY <1>1, <1>4 DEF Through
    <3>2. QED
      BY <3>1, GivenLeadsThrough
  <2>2. Matches(Rule("next", "file_write"), given)
    BY <2>1 DEF Matches, Rule
  <2>3. Applies(DEFAULT_POLICY.rules[7], "file_write", given)
    BY <2>2, DefaultRules DEF Applies, Rule
  <2>4. QED
    BY <2>3, DeniedWrite
<1>5. CASE f[i] = ".git"
  <2>1. Matches(Rule("git", "file_write"), given)
    BY <1>2, <1>5 DEF Matches, Rule
  <2>2. Applies(DEFAULT_POLICY.rules[5], "file_write", given)
    BY <2>1, DefaultRules DEF Applies, Rule
  <2>3. QED
    BY <2>2, DeniedWrite
<1>6. QED
  BY <1>1, <1>2, <1>3, <1>4, <1>5 DEF SkipDirs

-----------------------------------------------------------------------------
(***************************************************************************)
(* The inductive invariant.                                                *)
(***************************************************************************)

Trees     == [Files -> Nat]
Artifacts == [sizes : Trees, tree : Trees]

TypeOK ==
  /\ sandbox \in Trees
  /\ saved \subseteq Artifacts
  /\ nextVersion \in Nat \ {0}
  /\ pc \in [Requests -> {"idle", "previewed", "walk", "tar", "wipe", "extract",
                          "done", "failed"}]
  /\ kind \in [Requests -> {"restore", "recover"}]
  /\ target \in [Requests -> Artifacts]
  /\ shown \in [Requests -> SUBSET Files]
  /\ list \in [Requests -> SUBSET Files]
  /\ artifact \in [Requests -> Artifacts]
  /\ wiped \in [Requests -> Trees]
  /\ quiet \in [Requests -> BOOLEAN]

(* The versions that write_file wrote where Guarded are apart from all     *)
(* others, and no tree has one where snapshots do not look.                *)
Sound(tree) ==
  \A f \in Files : tree[f] < nextVersion /\ (tree[f] \in byTool => ~Skipped(f))

VersionsApart ==
  /\ \A v \in byTool : v \in Nat /\ v > 0 /\ v < nextVersion
  /\ Sound(sandbox)
  /\ \A s \in saved : Sound(s.tree)
  /\ \A r \in Requests : /\ Sound(target[r].tree) /\ Sound(artifact[r].tree)
                         /\ Sound(wiped[r])

(* An artifact that some row refers to has what a snapshot takes of it.    *)
Covered(tree) ==
  \E s \in saved : \A f \in Files : Skipped(f) \/ s.tree[f] = tree[f]

(* While nobody disturbs it, a request finds the sandbox as it left it.    *)
Undisturbed(r) ==
  /\ pc[r] = "extract" =>
       \A f \in Files : f \in list[r] \/ sandbox[f] = target[r].tree[f]
  /\ kind[r] = "restore" =>
       /\ pc[r] \in {"previewed", "walk", "tar", "wipe"} =>
            shown[r] = Diff(target[r].sizes, Sizes(sandbox))
       /\ pc[r] \in {"extract", "done"} =>
            shown[r] = Diff(target[r].sizes, Sizes(wiped[r]))
       /\ pc[r] = "tar" =>
            \A f \in Files : Skipped(f) \/ f \in list[r]
                             \/ artifact[r].tree[f] = sandbox[f]
       /\ (storage = "apart" /\ pc[r] = "wipe") => Covered(sandbox)
       /\ (storage = "apart" /\ wiped[r] # Empty) => Covered(wiped[r])

Request(r) ==
  /\ pc[r] \in {"idle", "previewed", "walk", "tar", "wipe"} => wiped[r] = Empty
  /\ quiet[r] => Undisturbed(r)

IInv == TypeOK /\ VersionsApart /\ \A r \in Requests : Request(r)

-----------------------------------------------------------------------------
LEMMA SizesAre ==
  ASSUME NEW tree \in Trees
  PROVE  /\ Sizes(tree) \in Trees
         /\ \A f \in Files : Sizes(tree)[f] = IF Skipped(f) THEN 0 ELSE Size(tree[f])
         /\ Listed(Sizes(tree)) \subseteq Files
         /\ \A f \in Files : \/ Skipped(f) \/ f \in Listed(Sizes(tree))
                             \/ tree[f] = 0
<1>1. \A v \in Nat : Size(v) \in Nat /\ (Size(v) = 0 => v = 0)
  BY DEF Size
<1>2. Sizes(tree) = [f \in Files |-> IF Skipped(f) THEN 0 ELSE Size(tree[f])]
  BY DEF Sizes, Trees
<1>3. Sizes(tree) \in Trees
  BY <1>1, <1>2 DEF Trees
<1>4. QED
  BY <1>1, <1>2, <1>3 DEF Trees, Listed

LEMMA EmptyIsTree == Empty \in Trees /\ \A f \in Files : Empty[f] = 0
BY DEF Empty, Trees

LEMMA SnapshotIsArtifact ==
  ASSUME NEW tree \in Trees
  PROVE  SnapshotOf(tree) \in Artifacts /\ SnapshotOf(tree).tree = Archived(tree)
<1>1. Sizes(tree) \in Trees
  BY SizesAre
<1>2. Archived(tree) \in Trees
  BY DEF Archived, Trees
<1>3. QED
  BY <1>1, <1>2 DEF SnapshotOf, Artifacts

LEMMA DiffIs ==
  ASSUME NEW snap \in Trees, NEW live \in Trees
  PROVE  /\ Diff(snap, live) \subseteq Files
         /\ \A f \in Files : f \in Diff(snap, live) <=> snap[f] # live[f]
<1>1. Listed(snap) = {f \in Files : snap[f] # 0} /\ Listed(live) = {f \in Files : live[f] # 0}
  BY DEF Listed, Trees
<1>2. ASSUME NEW f \in Files
      PROVE  Status(snap, live, f) # "unchanged" <=> snap[f] # live[f]
  BY DEF Status, Trees
<1>3. QED
  BY <1>1, <1>2 DEF Diff

LEMMA InitHolds == Init => IInv
<1> SUFFICES ASSUME Init PROVE IInv
  OBVIOUS
<1>1. sandbox \in Trees /\ \A f \in Files : sandbox[f] = 1
  BY DEF Init, Trees
<1>2. /\ SnapshotOf(Empty) \in Artifacts /\ SnapshotOf(sandbox) \in Artifacts
      /\ SnapshotOf(Empty).tree = Archived(Empty)
      /\ SnapshotOf(sandbox).tree = Archived(sandbox)
  BY <1>1, EmptyIsTree, SnapshotIsArtifact
<1>3. /\ Sound(Empty) /\ Sound(sandbox) /\ Sound(Archived(Empty))
      /\ Sound(Archived(sandbox))
  BY <1>1, EmptyIsTree DEF Init, Sound, Archived
<1>4. TypeOK
  BY <1>1, <1>2, EmptyIsTree DEF Init, TypeOK
<1>5. VersionsApart
  BY <1>2, <1>3 DEF Init, VersionsApart
<1>6. \A r \in Requests : Request(r)
  BY DEF Init, Request, Undisturbed
<1>7. QED
  BY <1>4, <1>5, <1>6 DEF IInv

-----------------------------------------------------------------------------
(* A request that takes no step keeps what it knows, or is disturbed.      *)
LEMMA OthersKeep ==
  ASSUME NEW q \in Requests, Request(q), storage' = storage,
         pc'[q] = pc[q], kind'[q] = kind[q], target'[q] = target[q],
         shown'[q] = shown[q], list'[q] = list[q], artifact'[q] = artifact[q],
         wiped'[q] = wiped[q],
         quiet'[q] => quiet[q] /\ sandbox' = sandbox,
         storage = "apart" => saved \subseteq saved'
  PROVE  Request(q)'
<1>1. pc'[q] \in {"idle", "previewed", "walk", "tar", "wipe"} => wiped'[q] = Empty
  BY DEF Request
<1>2. ASSUME quiet'[q] PROVE Undisturbed(q)'
  <2>1. Undisturbed(q) /\ sandbox' = sandbox
    BY <1>2 DEF Request
  <2>2. ASSUME NEW tree, Covered(tree), storage = "apart"
        PROVE  \E s \in saved' : \A f \in Files : Skipped(f) \/ s.tree[f] = tree[f]
    BY <2>2 DEF Covered
  <2>3. QED
    BY <2>1, <2>2 DEF Undisturbed, Covered
<1>3. QED
  BY <1>1, <1>2 DEF Request, Empty

(* A write disturbs everybody; the version is new.                         *)
LEMMA WriteKeeps ==
  ASSUME IInv, NEW f \in Files,
         RunBash(f) \/ \E given \in Spellings : WriteFile(given, f)
  PROVE  IInv'
<1>1. /\ sandbox' = [sandbox EXCEPT ![f] = nextVersion]
      /\ nextVersion' = nextVersion + 1
      /\ quiet' = [r \in Requests |-> FALSE]
      /\ UNCHANGED <<storage, saved, pc, kind, target, shown, list, artifact, wiped>>
      /\ byTool' = byTool \/ (byTool' = byTool \cup {nextVersion} /\ ~Skipped(f))
  <2>1. CASE RunBash(f)
    BY <2>1 DEF RunBash, Write, Disturb, IInv, TypeOK
  <2>2. ASSUME NEW given \in Spellings, WriteFile(given, f)
        PROVE  byTool' = byTool \/ (byTool' = byTool \cup {nextVersion} /\ ~Skipped(f))
    <3>1. Resolves(given, f)
      BY <2>2 DEF WriteFile, Resolved
    <3>2. QED
      BY <2>2, <3>1, WritesAreCovered DEF WriteFile
  <2>3. ASSUME NEW given \in Spellings, WriteFile(given, f)
        PROVE  /\ sandbox' = [sandbox EXCEPT ![f] = nextVersion]
               /\ nextVersion' = nextVersion + 1
               /\ quiet' = [r \in Requests |-> FALSE]
               /\ UNCHANGED <<storage, saved, pc, kind, target, shown, list, artifact, wiped>>
    BY <2>3 DEF WriteFile, Write, Disturb, IInv, TypeOK
  <2>4. QED
    BY <2>1, <2>2, <2>3
<1>2. TypeOK'
  BY <1>1 DEF IInv, TypeOK, Trees
<1>3. nextVersion \in Nat \ {0} /\ nextVersion \notin byTool
  BY DEF IInv, TypeOK, VersionsApart
<1>4. \A v \in byTool' : v \in Nat /\ v > 0 /\ v < nextVersion'
  BY <1>1, <1>3 DEF IInv, VersionsApart
<1>5. ASSUME NEW tree \in Trees, Sound(tree)
      PROVE  \A g \in Files : tree[g] < nextVersion' /\ (tree[g] \in byTool' => ~Skipped(g))
  BY <1>1, <1>3, <1>5 DEF Sound, Trees
<1>6. Sound(sandbox)'
  <2>1. sandbox'[f] = nextVersion /\ \A g \in Files \ {f} : sandbox'[g] = sandbox[g]
    BY <1>1 DEF IInv, TypeOK, Trees
  <2>2. \A g \in Files : sandbox[g] < nextVersion' /\ (sandbox[g] \in byTool' => ~Skipped(g))
    BY <1>5 DEF IInv, TypeOK, VersionsApart
  <2>3. nextVersion < nextVersion' /\ (nextVersion \in byTool' => ~Skipped(f))
    BY <1>1, <1>3
  <2>4. QED
    BY <2>1, <2>2, <2>3 DEF Sound
<1>7. /\ \A s \in saved' : Sound(s.tree)'
      /\ \A r \in Requests : /\ Sound(target[r].tree)' /\ Sound(artifact[r].tree)'
                             /\ Sound(wiped[r])'
  <2>1. /\ \A s \in saved : s.tree \in Trees /\ Sound(s.tree)
        /\ \A r \in Requests :
             /\ target[r].tree \in Trees /\ artifact[r].tree \in Trees
             /\ wiped[r] \in Trees
             /\ Sound(target[r].tree) /\ Sound(artifact[r].tree) /\ Sound(wiped[r])
    BY DEF IInv, TypeOK, VersionsApart, Artifacts
  <2>2. QED
    BY <1>1, <1>5, <2>1 DEF Sound
<1>8. VersionsApart'
  BY <1>4, <1>6, <1>7 DEF VersionsApart, Sound
<1>9. ASSUME NEW r \in Requests PROVE Request(r)'
  BY <1>1, OthersKeep DEF IInv
<1>10. QED
  BY <1>2, <1>8, <1>9 DEF IInv

(* The steps in which versions stand still.                                *)
LEMMA VersionsKeep ==
  ASSUME IInv, UNCHANGED <<nextVersion, byTool>>,
         Sound(sandbox'), \A t \in saved' : Sound(t.tree),
         \A r \in Requests : /\ Sound(target'[r].tree) /\ Sound(artifact'[r].tree)
                             /\ Sound(wiped'[r])
  PROVE  VersionsApart'
BY DEF IInv, VersionsApart, Sound

(* A request begins: nobody has disturbed it yet.                          *)
LEMMA BeginKeeps ==
  ASSUME IInv, NEW r \in Requests, Preview(r) \/ StartRestore(r) \/ StartRecover(r)
  PROVE  IInv'
<1>1. UNCHANGED <<diskVars, saved, list, artifact, wiped>>
  BY DEF Preview, StartRestore, StartRecover
<1>2. \A t \in saved : t \in Artifacts /\ t.sizes \in Trees /\ Diff(t.sizes, Sizes(sandbox)) \subseteq Files
  BY DiffIs, SizesAre DEF IInv, TypeOK, Artifacts
<1>3. CASE Preview(r)
  <2>1. PICK t \in saved : /\ target' = [target EXCEPT ![r] = t]
                           /\ shown' = [shown EXCEPT ![r] = Diff(t.sizes, Sizes(sandbox))]
    BY <1>3 DEF Preview
  <2>2. /\ pc[r] = "idle" /\ kind' = [kind EXCEPT ![r] = "restore"]
        /\ quiet' = [quiet EXCEPT ![r] = TRUE] /\ pc' = [pc EXCEPT ![r] = "previewed"]
    BY <1>3 DEF Preview
  <2>3. TypeOK'
    BY <1>1, <1>2, <2>1, <2>2 DEF IInv, TypeOK, diskVars
  <2>4. VersionsApart'
    <3>1. \A q \in Requests : target'[q] = target[q] \/ target'[q] \in saved
      BY <2>1 DEF IInv, TypeOK
    <3>2. QED
      BY <1>1, <3>1, VersionsKeep DEF IInv, VersionsApart, diskVars
  <2>5. Request(r)'
    <3>1. /\ pc'[r] = "previewed" /\ target'[r] = t
          /\ shown'[r] = Diff(t.sizes, Sizes(sandbox))
      BY <2>1, <2>2 DEF IInv, TypeOK
    <3>2. wiped[r] = Empty
      BY <2>2 DEF IInv, Request
    <3>3. QED
      BY <1>1, <3>1, <3>2 DEF Request, Undisturbed, diskVars, Empty
  <2>6. ASSUME NEW q \in Requests, q # r PROVE Request(q)'
    BY <1>1, <2>1, <2>2, <2>6, OthersKeep DEF IInv, TypeOK, diskVars
  <2>7. QED
    BY <2>3, <2>4, <2>5, <2>6 DEF IInv
<1>4. CASE StartRestore(r)
  <2>1. /\ pc[r] = "previewed" /\ pc' = [pc EXCEPT ![r] = "walk"]
        /\ UNCHANGED <<kind, target, shown, quiet>>
    BY <1>4 DEF StartRestore
  <2>2. TypeOK'
    BY <1>1, <2>1 DEF IInv, TypeOK, diskVars
  <2>3. VersionsApart'
    BY <1>1, <2>1, VersionsKeep DEF IInv, VersionsApart, diskVars
  <2>4. Request(r)'
    <3>1. pc'[r] = "walk"
      BY <2>1 DEF IInv, TypeOK
    <3>2. wiped[r] = Empty /\ (quiet[r] => Undisturbed(r))
      BY <2>1 DEF IInv, Request
    <3>3. QED
      BY <1>1, <2>1, <3>1, <3>2 DEF Request, Undisturbed, diskVars, Empty
  <2>5. ASSUME NEW q \in Requests, q # r PROVE Request(q)'
    BY <1>1, <2>1, <2>5, OthersKeep DEF IInv, TypeOK, diskVars
  <2>6. QED
    BY <2>2, <2>3, <2>4, <2>5 DEF IInv
<1>5. CASE StartRecover(r)
  <2>1. PICK t \in saved : target' = [target EXCEPT ![r] = t]
    BY <1>5 DEF StartRecover
  <2>2. /\ pc[r] = "idle" /\ kind' = [kind EXCEPT ![r] = "recover"]
        /\ quiet' = [quiet EXCEPT ![r] = TRUE] /\ pc' = [pc EXCEPT ![r] = "wipe"]
        /\ shown' = shown
    BY <1>5 DEF StartRecover
  <2>3. TypeOK'
    BY <1>1, <1>2, <2>1, <2>2 DEF IInv, TypeOK, diskVars
  <2>4. VersionsApart'
    <3>1. \A q \in Requests : target'[q] = target[q] \/ target'[q] \in saved
      BY <2>1 DEF IInv, TypeOK
    <3>2. QED
      BY <1>1, <3>1, VersionsKeep DEF IInv, VersionsApart, diskVars
  <2>5. Request(r)'
    <3>1. pc'[r] = "wipe" /\ kind'[r] = "recover"
      BY <2>2 DEF IInv, TypeOK
    <3>2. wiped[r] = Empty
      BY <2>2 DEF IInv, Request
    <3>3. QED
      BY <1>1, <3>1, <3>2 DEF Request, Undisturbed, Empty
  <2>6. ASSUME NEW q \in Requests, q # r PROVE Request(q)'
    BY <1>1, <2>1, <2>2, <2>6, OthersKeep DEF IInv, TypeOK, diskVars
  <2>7. QED
    BY <2>3, <2>4, <2>5, <2>6 DEF IInv
<1>6. QED
  BY <1>3, <1>4, <1>5

(* A snapshot covers what it has read, and all that it did not list: files *)
(* that snapshots skip or that are not there.                              *)
LEMMA SnapshotKeeps ==
  ASSUME IInv, NEW r \in Requests,
         Walk(r) \/ (\E f \in Files : ReadFile(r, f)) \/ SaveRow(r)
  PROVE  IInv'
<1>1. UNCHANGED <<diskVars, kind, target, shown, wiped, quiet>>
  BY DEF Walk, ReadFile, SaveRow
<1>2. sandbox \in Trees /\ Sound(sandbox) /\ Sound(Empty)
  BY EmptyIsTree DEF IInv, TypeOK, VersionsApart, Sound
<1>3. CASE Walk(r)
  <2> DEFINE found == Listed(Sizes(sandbox))
             tree  == IF found = {} THEN sandbox ELSE Empty
  <2>1. /\ pc[r] = "walk" /\ pc' = [pc EXCEPT ![r] = "tar"]
        /\ list' = [list EXCEPT ![r] = found]
        /\ artifact' = [artifact EXCEPT ![r] = [sizes |-> Sizes(sandbox), tree |-> tree]]
        /\ saved' = saved
    BY <1>3 DEF Walk
  <2>2. /\ Sizes(sandbox) \in Trees /\ found \subseteq Files
        /\ \A f \in Files : Skipped(f) \/ f \in found \/ tree[f] = sandbox[f]
    BY <1>2, SizesAre, EmptyIsTree
  <2>3. tree \in Trees /\ Sound(tree)
    BY <1>2, EmptyIsTree
  <2> HIDE DEF found, tree
  <2>4. TypeOK'
    BY <1>1, <2>1, <2>2, <2>3 DEF IInv, TypeOK, diskVars, Artifacts
  <2>5. /\ pc'[r] = "tar" /\ list'[r] = found /\ artifact'[r].tree = tree
        /\ \A q \in Requests \ {r} : /\ pc'[q] = pc[q] /\ list'[q] = list[q]
                                     /\ artifact'[q] = artifact[q]
    BY <2>1 DEF IInv, TypeOK
  <2>6. VersionsApart'
    BY <1>1, <2>1, <2>3, <2>5, VersionsKeep DEF IInv, VersionsApart, diskVars
  <2>7. Request(r)'
    <3>1. wiped[r] = Empty /\ (quiet[r] => Undisturbed(r))
      BY <2>1 DEF IInv, Request
    <3>2. QED
      BY <1>1, <2>1, <2>2, <2>5, <3>1 DEF Request, Undisturbed, diskVars, Empty
  <2>8. ASSUME NEW q \in Requests, q # r PROVE Request(q)'
    BY <1>1, <2>1, <2>5, <2>8, OthersKeep DEF IInv, diskVars
  <2>9. QED
    BY <2>4, <2>6, <2>7, <2>8 DEF IInv
<1>4. ASSUME NEW f \in Files, ReadFile(r, f) PROVE IInv'
  <2>1. /\ pc[r] = "tar" /\ pc' = pc /\ saved' = saved
        /\ list' = [list EXCEPT ![r] = @ \ {f}]
        /\ artifact' = [artifact EXCEPT ![r].tree[f] = sandbox[f]]
    BY <1>4 DEF ReadFile
  <2>2. artifact[r] \in Artifacts /\ artifact[r].tree \in Trees /\ Sound(artifact[r].tree)
    BY DEF IInv, TypeOK, VersionsApart, Artifacts
  <2>3. /\ artifact'[r].sizes = artifact[r].sizes
        /\ artifact'[r].tree = [artifact[r].tree EXCEPT ![f] = sandbox[f]]
        /\ list'[r] = list[r] \ {f}
        /\ \A q \in Requests \ {r} : list'[q] = list[q] /\ artifact'[q] = artifact[q]
    BY <2>1, <2>2 DEF IInv, TypeOK, Artifacts
  <2>4. artifact'[r].tree[f] = sandbox[f]
        /\ \A g \in Files \ {f} : artifact'[r].tree[g] = artifact[r].tree[g]
    BY <2>2, <2>3 DEF Trees
  <2>5. artifact' \in [Requests -> Artifacts]
    <3>1. [artifact[r].tree EXCEPT ![f] = sandbox[f]] \in Trees
      BY <1>2, <2>2 DEF Trees
    <3>2. artifact' = [artifact EXCEPT ![r] =
                         [artifact[r] EXCEPT !.tree = [artifact[r].tree EXCEPT ![f] = sandbox[f]]]]
      BY <2>1
    <3>3. QED
      BY <2>2, <3>1, <3>2 DEF IInv, TypeOK, Artifacts
  <2>6. TypeOK'
    BY <1>1, <2>1, <2>5 DEF IInv, TypeOK, diskVars
  <2>7. Sound(artifact'[r].tree)
    BY <1>2, <2>2, <2>4 DEF Sound
  <2>8. VersionsApart'
    BY <1>1, <2>1, <2>3, <2>7, VersionsKeep DEF IInv, VersionsApart, diskVars
  <2>9. Request(r)'
    <3>1. wiped[r] = Empty /\ (quiet[r] => Undisturbed(r))
      BY <2>1 DEF IInv, Request
    <3>2. QED
      BY <1>1, <2>1, <2>3, <2>4, <3>1 DEF Request, Undisturbed, diskVars, Empty
  <2>10. ASSUME NEW q \in Requests, q # r PROVE Request(q)'
    BY <1>1, <2>1, <2>3, <2>10, OthersKeep DEF IInv, diskVars
  <2>11. QED
    BY <2>6, <2>8, <2>9, <2>10 DEF IInv
<1>5. CASE SaveRow(r)
  <2>1. /\ pc[r] = "tar" /\ list[r] = {} /\ saved' = saved \cup {artifact[r]}
        /\ pc' = [pc EXCEPT ![r] = "wipe"] /\ UNCHANGED <<list, artifact>>
    BY <1>5 DEF SaveRow
  <2>2. TypeOK'
    BY <1>1, <2>1 DEF IInv, TypeOK, diskVars
  <2>3. VersionsApart'
    <3>1. \A t \in saved' : Sound(t.tree)
      BY <2>1 DEF IInv, VersionsApart
    <3>2. QED
      BY <1>1, <2>1, <3>1, VersionsKeep DEF IInv, VersionsApart, diskVars
  <2>4. pc'[r] = "wipe" /\ \A q \in Requests \ {r} : pc'[q] = pc[q]
    BY <2>1 DEF IInv, TypeOK
  <2>5. Request(r)'
    <3>1. wiped[r] = Empty /\ (quiet[r] => Undisturbed(r))
      BY <2>1 DEF IInv, Request
    <3>2. artifact[r] \in saved'
      BY <2>1
    <3>3. quiet[r] /\ kind[r] = "restore" => Covered(sandbox)'
      BY <1>1, <2>1, <3>1, <3>2 DEF Undisturbed, Covered, diskVars
    <3>4. /\ UNCHANGED <<storage, sandbox, kind, target, shown, wiped, quiet>>
          /\ Empty' = Empty
      BY <1>1 DEF diskVars, Empty
    <3>5. ASSUME quiet'[r] PROVE Undisturbed(r)'
      BY <2>1, <2>4, <3>1, <3>3, <3>4, <3>5 DEF Undisturbed
    <3>6. QED
      BY <2>4, <3>1, <3>4, <3>5 DEF Request
  <2>6. ASSUME NEW q \in Requests, q # r PROVE Request(q)'
    BY <1>1, <2>1, <2>4, <2>6, OthersKeep DEF IInv, diskVars
  <2>7. QED
    BY <2>2, <2>3, <2>5, <2>6 DEF IInv
<1>6. QED
  BY <1>3, <1>4, <1>5

(* A request that ends or fails leaves everything as it is.                *)
LEMMA EndKeeps ==
  ASSUME IInv, NEW r \in Requests, FileGone(r) \/ ExtractFails(r) \/ Finish(r)
  PROVE  IInv'
<1>1. /\ UNCHANGED <<diskVars, saved, kind, target, shown, list, artifact, wiped, quiet>>
      /\ \/ pc' = [pc EXCEPT ![r] = "failed"]
         \/ pc' = [pc EXCEPT ![r] = "done"] /\ pc[r] = "extract"
  BY DEF FileGone, ExtractFails, Finish
<1>2. TypeOK'
  BY <1>1 DEF IInv, TypeOK, diskVars
<1>3. VersionsApart'
  BY <1>1, VersionsKeep DEF IInv, VersionsApart, diskVars
<1>4. /\ pc'[r] = "failed" \/ (pc'[r] = "done" /\ pc[r] = "extract")
      /\ \A q \in Requests \ {r} : pc'[q] = pc[q]
  BY <1>1 DEF IInv, TypeOK
<1>5. Request(r)'
  BY <1>1, <1>4 DEF IInv, Request, Undisturbed, diskVars, Covered, Empty
<1>6. ASSUME NEW q \in Requests, q # r PROVE Request(q)'
  BY <1>1, <1>4, <1>6, OthersKeep DEF IInv, diskVars
<1>7. QED
  BY <1>2, <1>3, <1>5, <1>6 DEF IInv

(* What is wiped was covered; the others are disturbed.                    *)
LEMMA WipeKeeps ==
  ASSUME IInv, NEW r \in Requests, Wipe(r) \/ WipeWithArtifacts(r)
  PROVE  IInv'
<1>1. /\ pc[r] = "wipe" /\ wiped' = [wiped EXCEPT ![r] = sandbox] /\ sandbox' = Empty
      /\ quiet' = [q \in Requests |-> quiet[q] /\ q \notin Requests \ {r}]
      /\ UNCHANGED <<storage, nextVersion, byTool, kind, target, shown, artifact>>
  BY DEF Wipe, WipeWithArtifacts, Disturb
<1>2. /\ quiet' \in [Requests -> BOOLEAN] /\ quiet'[r] = quiet[r]
      /\ \A q \in Requests \ {r} : ~quiet'[q]
      /\ wiped'[r] = sandbox /\ \A q \in Requests \ {r} : wiped'[q] = wiped[q]
  BY <1>1 DEF IInv, TypeOK
<1>3. Sound(Empty)
  BY EmptyIsTree DEF IInv, TypeOK, VersionsApart, Sound
<1>4. wiped' \in [Requests -> Trees] /\ sandbox' \in Trees
  BY <1>1, EmptyIsTree DEF IInv, TypeOK
<1>5. wiped[r] = Empty /\ (quiet[r] => Undisturbed(r)) /\ Empty' = Empty
  BY <1>1 DEF IInv, Request, Empty
<1>6. CASE Wipe(r)
  <2> DEFINE files == In(target[r].tree)
  <2>1. /\ list' = [list EXCEPT ![r] = files] /\ pc' = [pc EXCEPT ![r] = "extract"]
        /\ saved' = saved
    BY <1>6 DEF Wipe
  <2>2. files \subseteq Files /\ \A f \in Files : f \in files \/ target[r].tree[f] = 0
    BY DEF In
  <2> HIDE DEF files
  <2>3. TypeOK'
    BY <1>1, <1>2, <1>4, <2>1, <2>2 DEF IInv, TypeOK
  <2>4. VersionsApart'
    BY <1>1, <1>2, <1>3, <2>1, VersionsKeep DEF IInv, VersionsApart
  <2>5. /\ pc'[r] = "extract" /\ list'[r] = files
        /\ \A q \in Requests \ {r} : pc'[q] = pc[q] /\ list'[q] = list[q]
    BY <2>1 DEF IInv, TypeOK
  <2>6. Request(r)'
    <3>1. ASSUME quiet'[r] PROVE Undisturbed(r)'
      <4>1. Undisturbed(r)
        BY <1>2, <1>5, <3>1
      <4>2. \A f \in Files : f \in list'[r] \/ sandbox'[f] = target'[r].tree[f]
        BY <1>1, <2>2, <2>5, EmptyIsTree
      <4>3. kind[r] = "restore" =>
              /\ shown[r] = Diff(target[r].sizes, Sizes(sandbox))
              /\ storage = "apart" => Covered(sandbox)
        BY <1>1, <4>1 DEF Undisturbed
      <4>4. kind'[r] = "restore" => shown'[r] = Diff(target'[r].sizes, Sizes(wiped'[r]))
        BY <1>1, <1>2, <4>3
      <4>5. kind'[r] = "restore" /\ storage' = "apart" =>
              \E t \in saved' : \A f \in Files : Skipped(f) \/ t.tree[f] = wiped'[r][f]
        BY <1>1, <1>2, <2>1, <4>3 DEF Covered
      <4>6. QED
        BY <2>5, <4>2, <4>4, <4>5 DEF Undisturbed, Covered
    <3>2. QED
      BY <2>5, <3>1 DEF Request
  <2>7. ASSUME NEW q \in Requests, q # r PROVE Request(q)'
    BY <1>1, <1>2, <2>1, <2>5, <2>7, OthersKeep DEF IInv
  <2>8. QED
    BY <2>3, <2>4, <2>6, <2>7 DEF IInv
<1>7. CASE WipeWithArtifacts(r)
  <2>1. /\ storage = "inside" /\ saved' = {} /\ list' = list
        /\ pc' = [q \in Requests |-> IF q = r \/ pc[q] = "tar" THEN "failed" ELSE pc[q]]
    BY <1>7 DEF WipeWithArtifacts
  <2>2. TypeOK'
    BY <1>1, <1>2, <1>4, <2>1 DEF IInv, TypeOK
  <2>3. VersionsApart'
    BY <1>1, <1>2, <1>3, <2>1, VersionsKeep DEF IInv, VersionsApart
  <2>4. Request(r)'
    <3>1. pc'[r] = "failed" /\ storage' # "apart"
      BY <1>1, <2>1
    <3>2. QED
      BY <3>1 DEF Request, Undisturbed
  <2>5. ASSUME NEW q \in Requests, q # r PROVE Request(q)'
    <3>1. ~quiet'[q] /\ wiped'[q] = wiped[q] /\ (pc'[q] = "failed" \/ pc'[q] = pc[q])
      BY <1>2, <2>1, <2>5
    <3>2. QED
      BY <1>5, <3>1 DEF IInv, Request
  <2>6. QED
    BY <2>2, <2>3, <2>4, <2>5 DEF IInv
<1>8. QED
  BY <1>6, <1>7

(* A file of the target goes back.                                         *)
LEMMA ExtractKeeps ==
  ASSUME IInv, NEW r \in Requests, NEW f \in Files, ExtractFile(r, f)
  PROVE  IInv'
<1>1. /\ pc[r] = "extract" /\ sandbox' = [sandbox EXCEPT ![f] = target[r].tree[f]]
      /\ list' = [list EXCEPT ![r] = @ \ {f}]
      /\ quiet' = [q \in Requests |-> quiet[q] /\ q \notin Requests \ {r}]
      /\ UNCHANGED <<storage, nextVersion, byTool, saved, pc, kind, target, shown,
                     artifact, wiped>>
  BY DEF ExtractFile, Disturb
<1>2. target[r].tree \in Trees /\ Sound(target[r].tree)
  BY DEF IInv, TypeOK, VersionsApart, Artifacts
<1>3. /\ quiet'[r] = quiet[r] /\ \A q \in Requests \ {r} : ~quiet'[q]
      /\ list'[r] = list[r] \ {f} /\ \A q \in Requests \ {r} : list'[q] = list[q]
      /\ sandbox'[f] = target[r].tree[f]
      /\ \A g \in Files \ {f} : sandbox'[g] = sandbox[g]
  BY <1>1 DEF IInv, TypeOK, Trees
<1>4. TypeOK'
  BY <1>1, <1>2 DEF IInv, TypeOK, Trees
<1>5. VersionsApart'
  <2>1. Sound(sandbox')
    BY <1>2, <1>3 DEF IInv, VersionsApart, Sound
  <2>2. QED
    BY <1>1, <2>1, VersionsKeep DEF IInv, VersionsApart
<1>6. Request(r)'
  <2>1. (quiet[r] => Undisturbed(r)) /\ Empty' = Empty
    BY DEF IInv, Request, Empty
  <2>2. ASSUME quiet'[r] PROVE Undisturbed(r)'
    <3>1. Undisturbed(r)
      BY <1>3, <2>1, <2>2
    <3>2. \A g \in Files : g \in list'[r] \/ sandbox'[g] = target'[r].tree[g]
      BY <1>1, <1>3, <3>1 DEF Undisturbed
    <3>3. QED
      BY <1>1, <2>1, <3>1, <3>2 DEF Undisturbed, Covered
  <2>3. QED
    BY <1>1, <2>2 DEF Request
<1>7. ASSUME NEW q \in Requests, q # r PROVE Request(q)'
  BY <1>1, <1>3, <1>7, OthersKeep DEF IInv
<1>8. QED
  BY <1>4, <1>5, <1>6, <1>7 DEF IInv

LEMMA IInvHolds == Spec => []IInv
<1>1. IInv /\ [Next]_vars => IInv'
  <2> SUFFICES ASSUME IInv, [Next]_vars PROVE IInv'
    OBVIOUS
  <2>1. CASE UNCHANGED vars
    <3>1. UNCHANGED <<storage, sandbox, nextVersion, byTool, saved, pc, kind, target,
                      shown, list, artifact, wiped, quiet>>
      BY <2>1 DEF vars, diskVars, requestVars
    <3>2. VersionsApart'
      BY <3>1, VersionsKeep DEF IInv, VersionsApart
    <3>3. \A r \in Requests : Request(r)'
      BY <3>1, OthersKeep DEF IInv
    <3>4. QED
      BY <3>1, <3>2, <3>3 DEF IInv, TypeOK
  <2>2. CASE Idle
    BY <2>1, <2>2 DEF Idle
  <2>3. CASE Next /\ ~Idle
    BY <2>3, WriteKeeps, BeginKeeps, SnapshotKeeps, EndKeeps, WipeKeeps, ExtractKeeps
    DEF Next
  <2>4. QED
    BY <2>1, <2>2, <2>3
<1>2. QED
  BY <1>1, InitHolds, PTL DEF Spec

-----------------------------------------------------------------------------
\* restore/route.ts snapshots before it extracts: with the artifacts apart from
\* the sandbox, whatever a restore wiped that a snapshot covers or write_file
\* wrote (but below a .cache or .git, as Guarded says) can be restored, for any
\* files, spellings, requests, agents and interleaving, if nobody else was at the
\* sandbox while it ran.
THEOREM RestoresAreReversible == Spec => []UndisturbedRestoreIsReversible
<1>1. IInv => UndisturbedRestoreIsReversible
  <2> SUFFICES ASSUME IInv, NEW r \in Requests,
                      storage = "apart" /\ HasWiped(r) /\ quiet[r]
               PROVE  IsSaved(wiped[r], {f \in Files : ~Skipped(f) \/ wiped[r][f] \in byTool})
    BY DEF UndisturbedRestoreIsReversible
  <2>1. PICK s \in saved : \A f \in Files : Skipped(f) \/ s.tree[f] = wiped[r][f]
    BY DEF IInv, Request, Undisturbed, HasWiped, Covered
  <2>2. \A f \in Files : wiped[r][f] \in byTool => ~Skipped(f)
    BY DEF IInv, VersionsApart, Sound
  <2>3. QED
    BY <2>1, <2>2 DEF IsSaved
<1>2. QED
  BY <1>1, IInvHolds, PTL

LEMMA EndLeavesTarget ==
  ASSUME IInv, [Next]_vars, NEW r \in Requests, Ends(r)
  PROVE  sandbox' = target[r].tree /\ Undisturbed(r)
<1>1. pc'[r] # pc[r] /\ pc[r] = "extract" /\ pc'[r] = "done" /\ quiet[r]
  BY DEF Ends
<1>2. Finish(r)
  <2>1. ~UNCHANGED pc
    BY <1>1
  <2>2. PICK q \in Requests :
          \/ Preview(q) \/ StartRestore(q) \/ StartRecover(q)
          \/ Walk(q) \/ FileGone(q) \/ SaveRow(q)
          \/ Wipe(q) \/ WipeWithArtifacts(q) \/ ExtractFails(q) \/ Finish(q)
    BY <2>1 DEF Next, Idle, vars, requestVars, WriteFile, RunBash, Write, ReadFile,
                ExtractFile
  <2>3. CASE Finish(q)
    BY <1>1, <2>3 DEF Finish, IInv, TypeOK
  <2>4. CASE ~Finish(q)
    BY <1>1, <2>2, <2>4
    DEF Preview, StartRestore, StartRecover, Walk, FileGone, SaveRow, Wipe,
        WipeWithArtifacts, ExtractFails, IInv, TypeOK
  <2>5. QED
    BY <2>3, <2>4
<1>3. list[r] = {} /\ sandbox' = sandbox
  BY <1>2 DEF Finish, diskVars
<1>4. Undisturbed(r)
  BY <1>1 DEF IInv, Request
<1>5. \A f \in Files : sandbox[f] = target[r].tree[f]
  BY <1>1, <1>3, <1>4 DEF Undisturbed
<1>6. sandbox \in Trees /\ target[r].tree \in Trees
  BY DEF IInv, TypeOK, Artifacts
<1>7. QED
  BY <1>3, <1>4, <1>5, <1>6 DEF Trees

\* "bit-for-bit fidelity" of Snapper.extract(): a restore or a recovery that
\* ends undisturbed leaves exactly the tree of the checkpoint.
THEOREM ExtractsAreFaithful == Spec => UndisturbedExtractIsFaithful
<1>1. IInv /\ [Next]_vars => [\A r \in Requests : Ends(r) => sandbox' = target[r].tree]_vars
  BY EndLeavesTarget
<1>2. QED
  BY <1>1, IInvHolds, PTL DEF Spec, UndisturbedExtractIsFaithful

\* RestoreConfirmModal shows the diff route's answer: what it lists happens, and
\* what happens unlisted replaces a file by one of the same size or removes one
\* that snapshots skip.
THEOREM PreviewsTell == Spec => PreviewTellsTheRestore
<1> DEFINE Told(r) ==
      (Ends(r) /\ kind[r] = "restore" /\ target[r].sizes = Sizes(target[r].tree))
      => LET changed == {f \in Files : wiped[r][f] # sandbox'[f]}
         IN  /\ shown[r] \subseteq changed
             /\ \A f \in changed \ shown[r] :
                  Skipped(f) \/ Size(wiped[r][f]) = Size(sandbox'[f])
<1>1. ASSUME IInv, [Next]_vars, NEW r \in Requests PROVE Told(r)
  <2> SUFFICES ASSUME Ends(r), kind[r] = "restore",
                      target[r].sizes = Sizes(target[r].tree)
               PROVE  /\ shown[r] \subseteq {f \in Files : wiped[r][f] # sandbox'[f]}
                      /\ \A f \in Files \ shown[r] : wiped[r][f] # sandbox'[f] =>
                           Skipped(f) \/ Size(wiped[r][f]) = Size(sandbox'[f])
    OBVIOUS
  <2>1. sandbox' = target[r].tree /\ Undisturbed(r) /\ pc[r] = "extract"
    BY <1>1, EndLeavesTarget DEF Ends
  <2>2. shown[r] = Diff(Sizes(sandbox'), Sizes(wiped[r]))
    BY <2>1 DEF Undisturbed
  <2>3. sandbox' \in Trees /\ wiped[r] \in Trees
    BY <1>1, <2>1 DEF IInv, TypeOK, Artifacts
  <2>4. /\ shown[r] \subseteq Files
        /\ \A f \in Files : f \in shown[r] <=> Sizes(sandbox')[f] # Sizes(wiped[r])[f]
    BY <2>2, <2>3, SizesAre, DiffIs
  <2>5. \A f \in Files :
          /\ Sizes(sandbox')[f] = IF Skipped(f) THEN 0 ELSE Size(sandbox'[f])
          /\ Sizes(wiped[r])[f] = IF Skipped(f) THEN 0 ELSE Size(wiped[r][f])
    BY <2>3, SizesAre
  <2>6. QED
    BY <2>4, <2>5
<1>2. IInv /\ [Next]_vars => [\A r \in Requests : Told(r)]_vars
  BY <1>1
<1>3. QED
  BY <1>2, IInvHolds, PTL DEF Spec, PreviewTellsTheRestore
=============================================================================
