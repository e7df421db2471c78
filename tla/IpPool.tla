------------------------------- MODULE IpPool -------------------------------
(***************************************************************************)
(* The IP pool manager, src/ankavm/backend/ip_pool.py.                     *)
(*                                                                         *)
(* One JSON document holds the pools and the assignments.  Every writer    *)
(* loads the document, changes it and saves it while it holds the module   *)
(* lock, so at this level a call is one step.  (Module VmNetwork looks     *)
(* below the lock: it has the load and the save of each call, and the      *)
(* background thread that does not take the lock.)  A call that raises     *)
(* leaves the document alone and is a step that is not enabled here.       *)
(*                                                                         *)
(* Addresses are the integers of IPs.  A vm_id is a member of VmIds: the   *)
(* uuid of a VM, a "__pre__" reservation, or a MAC, which manual_assign    *)
(* stores as vm_id when it is given none.  A dict lookup that takes the    *)
(* first match is a choice among the matches: the order of the dict is not *)
(* modelled.                                                               *)
(***************************************************************************)
EXTENDS Integers, FiniteSets

CONSTANTS
  IPs,           \* the addresses in play
  PoolNames,     \* the names operators give pools
  Macs,          \* MAC addresses
  VmIds,         \* everything that is stored as a vm_id
  AddressPlan,   \* [PoolNames -> SUBSET IPs]: where operators put each pool
  ReservedLists, \* the "reserved" arguments operators pass to create_pool
  Gateways,      \* the "gateway" arguments operators pass
  Disciplined,   \* do operators keep manual changes inside the plan?
  Free,          \* the address is not a key of "assignments"
  NoPool,        \* the name is not a key of "pools"
  NoMac          \* the empty "mac" of an entry

Internal == "__internal__"  \* the pool label of NAT-side addresses
NoLabel  == ""              \* the pool label of a lease outside any pool
Labels   == PoolNames \cup {Internal, NoLabel}

Entry == [vm_id : VmIds, mac : Macs \cup {NoMac}, pool : Labels, locked : BOOLEAN]
Pool  == [start : IPs, end : IPs, reserved : SUBSET IPs, gateway : IPs]

(***************************************************************************)
(* What the constants are.  A pool name is never one of the two labels the *)
(* program reserves for itself.                                            *)
(***************************************************************************)
ASSUME PoolConstants ==
  /\ IPs \subseteq Nat /\ IsFiniteSet(IPs)
  /\ Macs \subseteq VmIds
  /\ AddressPlan \in [PoolNames -> SUBSET IPs]
  /\ ReservedLists \subseteq SUBSET IPs
  /\ Gateways \subseteq IPs
  /\ Disciplined \in BOOLEAN
  /\ Free \notin Entry
  /\ NoPool \notin Pool
  /\ NoMac \notin Macs
  /\ Internal \notin PoolNames /\ NoLabel \notin PoolNames

VARIABLES
  pools,       \* data["pools"]
  assignments  \* data["assignments"]

vars == <<pools, assignments>>

TypeOK ==
  /\ pools \in [PoolNames -> Pool \cup {NoPool}]
  /\ assignments \in [IPs -> Entry \cup {Free}]

-----------------------------------------------------------------------------
(* The queries. *)

Assigned(ip) == assignments[ip] # Free

PoolIps(pool) == (pool.start .. pool.end) \ pool.reserved

(* Mutant: an entry without a MAC is not counted. *)
AssignedInMut(p) ==
  {ip \in IPs : Assigned(ip) /\ assignments[ip].pool = p /\ assignments[ip].mac # NoMac}

AssignedIn(p) == {ip \in IPs : Assigned(ip) /\ assignments[ip].pool = p}

Available(p) == PoolIps(pools[p]) \ AssignedIn(p)

Lowest(S) == CHOOSE ip \in S : \A other \in S : ip <= other

(* Mutant: the reserved addresses are counted as capacity. *)
CapacityMut(pool) == pool.end - pool.start + 1

PoolCapacity(pool) ==
  LET raw == pool.end - pool.start + 1 - Cardinality(pool.reserved)
  IN  IF raw < 0 THEN 0 ELSE raw

FreeIps(p) == PoolCapacity(pools[p]) - Cardinality(AssignedIn(p))

OfVm(v)  == {ip \in IPs : Assigned(ip) /\ assignments[ip].vm_id = v}
OfMac(m) == {ip \in IPs : Assigned(ip) /\ assignments[ip].mac = m}

-----------------------------------------------------------------------------
(* The calls that change the document. *)

InPlan(p, start, end) ==
  \A ip \in IPs : start <= ip /\ ip <= end => ip \in AddressPlan[p]

CreatePool(p, start, end, gateway, reserved) ==
  /\ InPlan(p, start, end)
  /\ pools' = [pools EXCEPT ![p] =
       [start    |-> start,
        end      |-> end,
        reserved |-> IF reserved = {} THEN {gateway} ELSE reserved,
        gateway  |-> gateway]]
  /\ UNCHANGED assignments

DeletePool(p) ==
  /\ pools[p] # NoPool
  /\ pools' = [pools EXCEPT ![p] = NoPool]
  /\ UNCHANGED assignments

(* Mutant: the changed fields replace the pool, reserved addresses and all. *)
UpdatePoolMut(p, start, end, gateway) ==
  /\ pools[p] # NoPool
  /\ InPlan(p, start, end)
  /\ pools' = [pools EXCEPT ![p] = [start |-> start, end |-> end, gateway |-> gateway]]
  /\ UNCHANGED assignments

UpdatePool(p, start, end, gateway) ==
  /\ pools[p] # NoPool
  /\ InPlan(p, start, end)
  /\ pools' = [pools EXCEPT ![p] =
       [@ EXCEPT !.start = start, !.end = end, !.gateway = gateway]]
  /\ UNCHANGED assignments

AllocateIp(p, v, m) ==
  /\ pools[p] # NoPool
  /\ Available(p) # {}
  /\ assignments' = [assignments EXCEPT ![Lowest(Available(p))] =
       [vm_id |-> v, mac |-> m, pool |-> p, locked |-> FALSE]]
  /\ UNCHANGED pools

Drop(ips) ==
  /\ assignments' = [ip \in IPs |-> IF ip \in ips THEN Free ELSE assignments[ip]]
  /\ UNCHANGED pools

ReleaseIp(v) == Drop(OfVm(v))

ReleaseByMac(m) == Drop(OfMac(m))

LockIp(ip, locked) ==
  /\ Assigned(ip)
  /\ assignments' = [assignments EXCEPT ![ip] = [@ EXCEPT !.locked = locked]]
  /\ UNCHANGED pools

(* Whether an address that lies in the plan of a pool carries its label. *)
WellPlaced(ip, label) == \A p \in PoolNames : ip \in AddressPlan[p] => label = p

(* Mutant: the moved entry loses its pool label. *)
ReassignMut(m, old, new) ==
  /\ old \in OfMac(m)
  /\ ~Assigned(new)
  /\ assignments' = [assignments EXCEPT ![old] = Free,
                                       ![new] = [assignments[old] EXCEPT !.pool = NoLabel]]
  /\ UNCHANGED pools

ReassignIp(m, old, new) ==
  /\ old \in OfMac(m)
  /\ ~Assigned(new)
  /\ Disciplined => WellPlaced(new, assignments[old].pool)
  /\ assignments' = [assignments EXCEPT ![old] = Free, ![new] = assignments[old]]
  /\ UNCHANGED pools

ManualAssign(ip, m, label, v) ==
  /\ Disciplined => WellPlaced(ip, label)
  /\ assignments' = [assignments EXCEPT ![ip] =
       [vm_id |-> v, mac |-> m, pool |-> label, locked |-> FALSE]]
  /\ UNCHANGED pools

-----------------------------------------------------------------------------
Init ==
  /\ pools = [p \in PoolNames |-> NoPool]
  /\ assignments = [ip \in IPs |-> Free]

PoolChange ==
  \E p \in PoolNames :
    \/ \E start, end \in IPs, gateway \in Gateways :
         \/ \E reserved \in ReservedLists : CreatePool(p, start, end, gateway, reserved)
         \/ UpdatePool(p, start, end, gateway)
    \/ DeletePool(p)

Assignment ==
  \/ \E p \in PoolNames, v \in VmIds, m \in Macs \cup {NoMac} : AllocateIp(p, v, m)
  \/ \E v \in VmIds : ReleaseIp(v)
  \/ \E m \in Macs : ReleaseByMac(m)
  \/ \E ip \in IPs, locked \in BOOLEAN : LockIp(ip, locked)
  \/ \E m \in Macs, old, new \in IPs : ReassignIp(m, old, new)
  \/ \E ip \in IPs, m \in Macs, label \in Labels :
       \E v \in VmIds : ManualAssign(ip, m, label, v)

Next == PoolChange \/ Assignment

Spec == Init /\ [][Next]_vars

-----------------------------------------------------------------------------
(* Properties. *)

(* Every assigned address that lies in the plan of a pool carries the      *)
(* label of that pool: allocate_ip looks only at the entries of its own    *)
(* pool, so this is what keeps it from handing out an address twice.       *)
Labelled == \A ip \in IPs : Assigned(ip) => WellPlaced(ip, assignments[ip].pool)

(* allocate_ip takes a free address: it never changes the entry of an      *)
(* address that some VM already holds (ip_pool.py:140, "allocate a free IP *)
(* from the pool").                                                        *)
AllocateKeeps ==
  (\E p \in PoolNames, v \in VmIds, m \in Macs \cup {NoMac} : AllocateIp(p, v, m))
    => \A ip \in IPs : Assigned(ip) => assignments'[ip] = assignments[ip]

AllocateTakesFree == [][AllocateKeeps]_vars

(* When the statistics promise a free address there is one: a pool that    *)
(* list_pools and get_pool_stats report with free_ips > 0 does not make    *)
(* allocate_ip fail, whatever was reserved, shrunk or assigned by hand.    *)
ReportedFreeIsAvailable ==
  \A p \in PoolNames : pools[p] # NoPool /\ FreeIps(p) > 0 => Available(p) # {}
=============================================================================
