-------------------------- MODULE MCFaultTolerance --------------------------
(***************************************************************************)
(* A small instance of FaultTolerance: every command can fail.             *)
(***************************************************************************)
EXTENDS FaultTolerance, TLC

CONSTANTS v1, v2

TwoVms == {v1, v2}
OneVm  == {v1}
AllFaults ==
  {"load", "copy", "define", "domstate", "start", "destroy", "undefine", "save"}
Swap == Permutations(TwoVms)
=============================================================================
