--------------------------- MODULE MCAgentRecord ---------------------------
(* The instance of AgentRecord, and of its graph, that TLC checks.         *)
EXTENDS AgentRecord

LoopKinds == {"invalid", "null", "read", "write", "install"}
=============================================================================
