----------------------------- MODULE MCTenants -----------------------------
(***************************************************************************)
(* A small instance of Tenants: two tenants with room for one VM, and the  *)
(* one thread that lists VMs in the code, the telemetry sender.            *)
(***************************************************************************)
EXTENDS Tenants, TLC

CONSTANTS v1, v2, v3, v4, t1, t2, u1, l1

FourVms    == {v1, v2, v3, v4}
TwoTenants == {t1, t2}
OneUser    == {u1}
OneLister  == {l1}
Swaps      == Permutations(FourVms) \cup Permutations(TwoTenants)
=============================================================================
