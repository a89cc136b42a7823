---------------------------- MODULE MCReplayPage ----------------------------
(* The instance of ReplayPage that TLC checks: a run that fails at its     *)
(* second node, and two recoveries that are written later, in any order.   *)
EXTENDS ReplayPage

RunBranches == <<"main", "main", "retry", "again">>
RunFails    == {2}
RunCps      == <<"c1", "c2", "c3", "">>
RunShown    == {1, 2}
RunFiles    == [c \in {"c1", "c2", "c3"} |->
                  CASE c = "c1" -> <<"f", "g">> [] c = "c2" -> <<"f">> [] OTHER -> <<>>]
=============================================================================
