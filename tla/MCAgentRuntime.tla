--------------------------- MODULE MCAgentRuntime ---------------------------
(* Instances of AgentRuntime for TLC. *)
EXTENDS AgentRuntime, TLC

Symmetry == Permutations(Agents)
=============================================================================
