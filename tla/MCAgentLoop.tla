---------------------------- MODULE MCAgentLoop -----------------------------
(* Instances of AgentLoop.                                                 *)
EXTENDS AgentLoop

CONSTANTS e1, e2, h1, h2
=============================================================================
