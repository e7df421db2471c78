---------------------------- MODULE MCVmNetwork ----------------------------
(***************************************************************************)
(* Small instances of VmNetwork: a NAT pool of one or two addresses, a     *)
(* bridged pool of one, an internal network of three.                      *)
(***************************************************************************)
EXTENDS VmNetwork, TLC

CONSTANTS v1, v2, natPool, bridgePool, t1, t2

TwoVms      == {v1, v2}
TwoPools    == {natPool, bridgePool}
OneBridge   == {bridgePool}
NatOnly     == {natPool}
McPublic    == 1 .. 3
McInternal  == 4 .. 6
McRange     == natPool :> {1, 2} @@ bridgePool :> {3}
SmallPublic == {1, 3}
SmallRange  == natPool :> {1} @@ bridgePool :> {3}
Exact       == [p \in PublicIps |-> {p}]
(* As 10.0.0.1 and 10.0.0.10. *)
Prefixed    == [p \in PublicIps |-> IF p = 1 THEN {1, 2} ELSE {p}]
McFormula   == v1 :> 4 @@ v2 :> 5
TwoThreads  == {t1, t2}
Alike       == Permutations(TwoThreads)
=============================================================================
