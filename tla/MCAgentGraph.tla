---------------------------- MODULE MCAgentGraph ----------------------------
(* A small instance of AgentGraph. *)
EXTENDS AgentGraph

CONSTANTS a1, a2, a3

ThreeAgents == {a1, a2, a3}
=============================================================================
