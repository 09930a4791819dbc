------------------------------- MODULE MCPGBus -------------------------------
(* Instances of the bus.  MCPGBus.cfg: two Go subscribers that compete and a *)
(* Python one that takes no lock.                                            *)
EXTENDS PGBus

(* Faults or NOTIFYs without a row: both in one behaviour have five times    *)
(* the states.                                                               *)
MCSpec ==
  /\ Init /\ [][Next /\ (wakes' = 0 \/ faults' = 0)]_vars
  /\ \A s \in GoSubs : WF_vars(Dispatch(s))
=============================================================================
