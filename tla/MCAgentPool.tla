---------------------------- MODULE MCAgentPool ----------------------------
(* An instance of the agent pool: an agent that is idle, or recovers, which *)
(* the table of agents has no state for.                                    *)
EXTENDS AgentPool

MCBeatStates == {"IDLE", "RECOVERING"}
=============================================================================
