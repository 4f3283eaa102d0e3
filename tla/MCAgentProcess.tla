--------------------------- MODULE MCAgentProcess ---------------------------
(* Instances of AgentProcess for TLC. *)
EXTENDS AgentProcess, TLC

CONSTANTS t1, g1

OneEntry == <<t1>>
=============================================================================
