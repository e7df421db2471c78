------------------------------ MODULE MCIpPool ------------------------------
(***************************************************************************)
(* Small instances of IpPool: two pools on a line of addresses, two MACs.  *)
(***************************************************************************)
EXTENDS IpPool, TLC

CONSTANTS a, b, m1, m2

(* Two pools side by side: the plan a careful operator draws. *)
SeparatePlan == a :> {1, 2} @@ b :> {3}

McAddresses == 1 .. 3
McVmIds     == {m1, m2}
(* No list, which becomes the gateway; and a list outside some ranges. *)
McReserved  == {{}, {1, 3}}
McGateways  == {3}
McMacs      == {m1, m2}
Pair        == {a, b}
=============================================================================
