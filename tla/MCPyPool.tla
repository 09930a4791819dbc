------------------------------ MODULE MCPyPool ------------------------------
(* Two tasks and a third that depends on both. *)
EXTENDS PyPool

MCEdges == {<<1, 3>>, <<2, 3>>}
=============================================================================
