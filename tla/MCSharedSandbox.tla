-------------------------- MODULE MCSharedSandbox --------------------------
(* The instances of SharedSandbox that TLC checks.                         *)
EXTENDS SharedSandbox, TLC

CONSTANTS r1, r2

Sandbox == <<"home", "sandbox">>

Source  == <<"workspace", "hello.py">>
Package == <<"node_modules", "left-pad", "index.js">>
GitFile == <<".git", "config">>
SourceAndSkipped == {Source, Package, GitFile}

(* By their names, and in ways that lead to the same files.                *)
PlainAndOther ==
  {Source, Package, GitFile,
   <<".">> \o GitFile, <<"workspace", "..">> \o GitFile,
   <<"..", "sandbox">> \o Package, <<"", "home", "sandbox">> \o Source,
   <<"..">> \o Source}
TwoRequests == {r1, r2}
Symmetry    == Permutations(TwoRequests)
=============================================================================
