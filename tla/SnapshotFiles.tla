--------------------------- MODULE SnapshotFiles ---------------------------
(***************************************************************************)
(* What a snapshot holds of a directory, and how the diff route compares   *)
(* it with another: walkSandbox of packages/cli/src/filesystem-snapper.ts  *)
(* and api/checkpoints/[cpId]/diff/route.ts.                               *)
(*                                                                         *)
(* A tree maps each path, a sequence of segments, to the version of the    *)
(* content, 0 if there is no such file.  Manifests record sizes only.      *)
(***************************************************************************)
EXTENDS Naturals, Sequences

SkipDirs == {".git", "node_modules", ".next", ".cache"}

Skipped(path) == \E i \in 1..(Len(path) - 1) : path[i] \in SkipDirs

(* Versions 1 and 2 have one size, 3 and 4 another.                        *)
Size(version) == (version + 1) \div 2

(* The files that a walk finds, each with its size; 0 for the others.      *)
Sizes(tree) ==
  [f \in DOMAIN tree |-> IF Skipped(f) THEN 0 ELSE Size(tree[f])]
Listed(sizes) == {f \in DOMAIN sizes : sizes[f] # 0}

Status(snap, live, f) ==
  CASE snap[f] = 0 /\ live[f] # 0        -> "deleted"
    [] snap[f] # 0 /\ live[f] = 0        -> "added"
    [] snap[f] # live[f]                 -> "modified"
    [] OTHER                             -> "unchanged"

(* Mutant: only the files of the snapshot are compared.                    *)
DiffOfTheSnapshot(snap, live) ==
  {f \in Listed(snap) : Status(snap, live, f) # "unchanged"}

(* What the confirmation of a restore shows.                               *)
Diff(snap, live) ==
  {f \in Listed(snap) \cup Listed(live) : Status(snap, live, f) # "unchanged"}
=============================================================================
