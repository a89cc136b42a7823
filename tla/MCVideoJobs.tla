---------------------------- MODULE MCVideoJobs ----------------------------
(* The instance of VideoJobs that TLC checks.                              *)
EXTENDS VideoJobs

CONSTANTS w1, w2, j1, j2

TwoWorkers == {w1, w2}
TwoJobs    == {j1, j2}
OneOrphan  == {j2}
=============================================================================
