---------------------------- MODULE MCDiskStore ----------------------------
(***************************************************************************)
(* Small instances of DiskStore.                                           *)
(***************************************************************************)
EXTENDS DiskStore, TLC

CONSTANTS v1, v2, v3, v4, n1, n2, t1, j1, j2

FourVms     == {v1, v2, v3, v4}
TwoNames    == {n1, n2}
OneTemplate == {t1}
TwoJobs     == {j1, j2}
AllFaults   == {"image", "define", "list"}
Swaps       == Permutations(FourVms) \cup Permutations(TwoNames)
=============================================================================
