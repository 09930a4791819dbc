--------------------------- MODULE MCTaskLifecycle ---------------------------
(* Instances of the task lifecycle, given by the configurations. *)
EXTENDS TaskLifecycle
=============================================================================
