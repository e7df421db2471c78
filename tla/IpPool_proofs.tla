--------------------------- MODULE IpPool_proofs ---------------------------
(***************************************************************************)
(* What holds of the IP pool manager for every set of addresses, pools and *)
(* VMs: the types, the placing of labels, and that allocate_ip only takes  *)
(* free addresses.  The last two need what the code does not check: that   *)
(* the operators draw pools that do not overlap, and that manual changes   *)
(* keep to the plan.                                                       *)
(***************************************************************************)
EXTENDS IpPool, FiniteSetTheorems, WellFoundedInduction, TLAPS

(* The pools operators draw do not share an address. *)
DisjointPlan ==
  \A p, q \in PoolNames : p # q => AddressPlan[p] \cap AddressPlan[q] = {}

(* The range of every pool in the document lies in its plan. *)
PoolsInPlan ==
  \A p \in PoolNames : pools[p] # NoPool => InPlan(p, pools[p].start, pools[p].end)

Inv == TypeOK /\ PoolsInPlan /\ Labelled

(* A non-empty set of natural numbers has a least element, so Lowest picks *)
(* a member of its argument (the "available[0]" of ip_pool.py:153).        *)
LEMMA LowestIn ==
  ASSUME NEW S \in SUBSET Nat, S # {}
  PROVE  Lowest(S) \in S
<1>1. PICK x \in S : \A y \in S : ~(<<y, x>> \in OpToRel(<, Nat))
  BY NatLessThanWellFounded, WFMin, Zenon
<1>2. \A y \in S : y \in Nat /\ x \in Nat => ~(y < x)
  BY <1>1, Zenon DEF OpToRel
<1>3. \A y \in S : x <= y
  BY <1>2
<1> QED
  BY <1>3 DEF Lowest

(* The address allocate_ip picks was not assigned before. *)
LEMMA AvailableIsFree ==
  ASSUME Inv, NEW p \in PoolNames, pools[p] # NoPool, Available(p) # {},
         NEW ip \in IPs, ip = Lowest(Available(p))
  PROVE  ~Assigned(ip) /\ ip \in AddressPlan[p]
<1>1. pools[p] \in Pool
  BY DEF Inv, TypeOK
<1>2. pools[p].start \in Nat /\ pools[p].end \in Nat
  BY <1>1, PoolConstants DEF Pool
<1>3. Available(p) \in SUBSET Nat
  BY <1>2 DEF Available, PoolIps
<1>4. ip \in Available(p)
  BY <1>3, LowestIn
<1>5. ip \in pools[p].start .. pools[p].end /\ ip \notin AssignedIn(p)
  BY <1>4 DEF Available, PoolIps
<1>6. ip \in AddressPlan[p]
  BY <1>2, <1>5, PoolConstants DEF Inv, PoolsInPlan, InPlan
<1>7. Assigned(ip) => assignments[ip].pool = p
  BY <1>6 DEF Inv, Labelled, WellPlaced
<1> QED
  BY <1>5, <1>6, <1>7 DEF AssignedIn

-----------------------------------------------------------------------------
LEMMA InitInv == Init => Inv
  BY DEF Init, Inv, TypeOK, PoolsInPlan, Labelled, Assigned

(* Each call keeps the types. *)
LEMMA TypeStep == TypeOK /\ [Next]_vars => TypeOK'
<1> SUFFICES ASSUME TypeOK, [Next]_vars PROVE TypeOK'
  OBVIOUS
<1> USE DEF TypeOK
<1>1. ASSUME NEW p \in PoolNames, NEW start \in IPs, NEW end \in IPs,
             NEW gateway \in Gateways, NEW reserved \in ReservedLists,
             CreatePool(p, start, end, gateway, reserved)
      PROVE  TypeOK'
  <2>1. (IF reserved = {} THEN {gateway} ELSE reserved) \in SUBSET IPs
    BY PoolConstants
  <2>2. gateway \in IPs
    BY PoolConstants
  <2> QED
    BY <1>1, <2>1, <2>2 DEF CreatePool, Pool
<1>2. ASSUME NEW p \in PoolNames, NEW start \in IPs, NEW end \in IPs,
             NEW gateway \in Gateways, UpdatePool(p, start, end, gateway)
      PROVE  TypeOK'
  <2>1. gateway \in IPs
    BY PoolConstants
  <2>2. pools[p] \in Pool
    BY <1>2 DEF UpdatePool
  <2>3. [pools[p] EXCEPT !.start = start, !.end = end, !.gateway = gateway] \in Pool
    BY <2>1, <2>2 DEF Pool
  <2> QED
    BY <1>2, <2>3 DEF UpdatePool
<1>3. ASSUME NEW p \in PoolNames, DeletePool(p)
      PROVE  TypeOK'
  BY <1>3 DEF DeletePool
<1>4. ASSUME NEW p \in PoolNames, NEW v \in VmIds, NEW m \in Macs \cup {NoMac},
             AllocateIp(p, v, m)
      PROVE  TypeOK'
  <2>1. [vm_id |-> v, mac |-> m, pool |-> p, locked |-> FALSE] \in Entry
    BY DEF Entry, Labels
  <2> QED
    BY <1>4, <2>1 DEF AllocateIp
<1>5. ASSUME NEW ips, Drop(ips)
      PROVE  TypeOK'
  BY <1>5 DEF Drop
<1>6. ASSUME NEW ip \in IPs, NEW locked \in BOOLEAN, LockIp(ip, locked)
      PROVE  TypeOK'
  <2>1. assignments[ip] \in Entry
    BY <1>6 DEF LockIp, Assigned
  <2>2. [assignments[ip] EXCEPT !.locked = locked] \in Entry
    BY <2>1 DEF Entry
  <2> QED
    BY <1>6, <2>2 DEF LockIp
<1>7. ASSUME NEW m \in Macs, NEW old \in IPs, NEW new \in IPs, ReassignIp(m, old, new)
      PROVE  TypeOK'
  BY <1>7 DEF ReassignIp
<1>8. ASSUME NEW ip \in IPs, NEW m \in Macs, NEW label \in Labels, NEW v \in VmIds,
             ManualAssign(ip, m, label, v)
      PROVE  TypeOK'
  <2>1. [vm_id |-> v, mac |-> m, pool |-> label, locked |-> FALSE] \in Entry
    BY DEF Entry
  <2> QED
    BY <1>8, <2>1 DEF ManualAssign
<1>9. CASE UNCHANGED vars
  BY <1>9 DEF vars
<1> QED
  BY <1>1, <1>2, <1>3, <1>4, <1>5, <1>6, <1>7, <1>8, <1>9
     DEF Next, PoolChange, Assignment, ReleaseIp, ReleaseByMac

(* The document always has the shape its readers rely on: pools are        *)
(* complete records and every entry has an owner, a MAC and a label.       *)
THEOREM TypeCorrect == Spec => []TypeOK
<1>1. Init => TypeOK
  BY InitInv DEF Inv
<1> QED
  BY <1>1, TypeStep, PTL DEF Spec

-----------------------------------------------------------------------------
(* A pool change keeps the ranges in their plans; the other calls do not   *)
(* touch the pools.                                                        *)
LEMMA PlanStep == TypeOK /\ PoolsInPlan /\ [Next]_vars => PoolsInPlan'
<1> SUFFICES ASSUME TypeOK, PoolsInPlan, [Next]_vars,
                    NEW q \in PoolNames, pools'[q] # NoPool
             PROVE  InPlan(q, pools'[q].start, pools'[q].end)
  BY DEF PoolsInPlan, InPlan
<1> USE DEF TypeOK
<1>1. ASSUME NEW p \in PoolNames, NEW start \in IPs, NEW end \in IPs,
             NEW gateway \in Gateways, NEW reserved \in ReservedLists,
             CreatePool(p, start, end, gateway, reserved)
      PROVE  InPlan(q, pools'[q].start, pools'[q].end)
  <2>1. CASE q = p
    <3>1. pools'[q].start = start /\ pools'[q].end = end
      BY <1>1, <2>1 DEF CreatePool
    <3> QED
      BY <1>1, <2>1, <3>1 DEF CreatePool
  <2>2. CASE q # p
    BY <1>1, <2>2 DEF CreatePool, PoolsInPlan
  <2> QED
    BY <2>1, <2>2
<1>2. ASSUME NEW p \in PoolNames, NEW start \in IPs, NEW end \in IPs,
             NEW gateway \in Gateways, UpdatePool(p, start, end, gateway)
      PROVE  InPlan(q, pools'[q].start, pools'[q].end)
  <2>1. CASE q = p
    <3>1. pools[p] \in Pool
      BY <1>2 DEF UpdatePool
    <3>2. pools'[q].start = start /\ pools'[q].end = end
      BY <1>2, <2>1, <3>1 DEF UpdatePool, Pool
    <3> QED
      BY <1>2, <2>1, <3>2 DEF UpdatePool
  <2>2. CASE q # p
    BY <1>2, <2>2 DEF UpdatePool, PoolsInPlan
  <2> QED
    BY <2>1, <2>2
<1>3. ASSUME NEW p \in PoolNames, DeletePool(p)
      PROVE  InPlan(q, pools'[q].start, pools'[q].end)
  BY <1>3 DEF DeletePool, PoolsInPlan
<1>4. CASE UNCHANGED pools
  BY <1>4 DEF PoolsInPlan
<1>5. Assignment => UNCHANGED pools
  BY DEF Assignment, AllocateIp, ReleaseIp, ReleaseByMac, Drop, LockIp,
         ReassignIp, ManualAssign
<1> QED
  BY <1>1, <1>2, <1>3, <1>4, <1>5 DEF Next, PoolChange, vars

(* The labels stay in place: allocate_ip writes the label of the pool whose *)
(* plan the address is in, and no other pool has it in its plan.            *)
LEMMA LabelStep ==
  ASSUME DisjointPlan, Disciplined, Inv, [Next]_vars
  PROVE  Labelled'
<1> SUFFICES ASSUME NEW ip \in IPs, Assigned(ip)'
             PROVE  WellPlaced(ip, assignments'[ip].pool)
  BY DEF Labelled, WellPlaced, Assigned
<1> USE DEF Inv, TypeOK
<1>0. CASE assignments'[ip] = assignments[ip]
  BY <1>0 DEF Labelled, Assigned
<1>1. ASSUME NEW p \in PoolNames, NEW v \in VmIds, NEW m \in Macs \cup {NoMac},
             AllocateIp(p, v, m), assignments'[ip] # assignments[ip]
      PROVE  WellPlaced(ip, assignments'[ip].pool)
  <2>1. ip = Lowest(Available(p)) /\ assignments'[ip].pool = p
    BY <1>1 DEF AllocateIp
  <2>2. ip \in AddressPlan[p]
    BY <1>1, <2>1, AvailableIsFree DEF AllocateIp
  <2>3. \A q \in PoolNames : ip \in AddressPlan[q] => q = p
    BY <2>2 DEF DisjointPlan
  <2> QED
    BY <2>1, <2>3 DEF WellPlaced
<1>2. ASSUME NEW ips, Drop(ips)
      PROVE  assignments'[ip] = assignments[ip]
  BY <1>2 DEF Drop, Assigned
<1>3. ASSUME NEW x \in IPs, NEW locked \in BOOLEAN, LockIp(x, locked)
      PROVE  WellPlaced(ip, assignments'[ip].pool)
  <2>1. CASE ip = x
    <3>1. assignments[ip] \in Entry
      BY <1>3, <2>1 DEF LockIp, Assigned
    <3>2. assignments'[ip].pool = assignments[ip].pool
      BY <1>3, <2>1, <3>1 DEF LockIp, Entry
    <3> QED
      BY <1>3, <2>1, <3>2 DEF LockIp, Labelled
  <2>2. CASE ip # x
    BY <1>0, <1>3, <2>2 DEF LockIp
  <2> QED
    BY <2>1, <2>2
<1>4. ASSUME NEW m \in Macs, NEW old \in IPs, NEW new \in IPs, ReassignIp(m, old, new)
      PROVE  WellPlaced(ip, assignments'[ip].pool)
  <2>1. CASE ip = new
    BY <1>4, <2>1 DEF ReassignIp
  <2>2. CASE ip # new /\ ip # old
    BY <1>0, <1>4, <2>2 DEF ReassignIp
  <2>3. CASE ip # new /\ ip = old
    BY <1>4, <2>3 DEF ReassignIp, Assigned
  <2> QED
    BY <2>1, <2>2, <2>3
<1>5. ASSUME NEW x \in IPs, NEW m \in Macs, NEW label \in Labels, NEW v \in VmIds,
             ManualAssign(x, m, label, v)
      PROVE  WellPlaced(ip, assignments'[ip].pool)
  <2>1. CASE ip = x
    BY <1>5, <2>1 DEF ManualAssign
  <2>2. CASE ip # x
    BY <1>0, <1>5, <2>2 DEF ManualAssign
  <2> QED
    BY <2>1, <2>2
<1>6. PoolChange \/ UNCHANGED vars => assignments' = assignments
  BY DEF PoolChange, CreatePool, DeletePool, UpdatePool, vars
<1> QED
  BY <1>0, <1>1, <1>2, <1>3, <1>4, <1>5, <1>6
     DEF Next, Assignment, ReleaseIp, ReleaseByMac

-----------------------------------------------------------------------------
(* Where operators draw disjoint pools and keep manual changes to the plan, *)
(* an assigned address carries the label of the pool it lies in.            *)
THEOREM LabelsInPlace ==
  ASSUME DisjointPlan, Disciplined
  PROVE  Spec => []Labelled
<1>1. Inv /\ [Next]_vars => Inv'
  BY TypeStep, PlanStep, LabelStep DEF Inv
<1>2. Inv => Labelled
  BY DEF Inv
<1> QED
  BY InitInv, <1>1, <1>2, PTL DEF Spec

(* Under the same two conditions allocate_ip takes a free address in every *)
(* step of every behaviour, whatever was created, shrunk, deleted,         *)
(* re-created, assigned by hand, reassigned or released before.            *)
THEOREM AllocationIsExclusive ==
  ASSUME DisjointPlan, Disciplined
  PROVE  Spec => AllocateTakesFree
<1>1. Inv /\ [Next]_vars => Inv'
  BY TypeStep, PlanStep, LabelStep DEF Inv
<1>2. Inv /\ [Next]_vars => [AllocateKeeps]_vars
  <2> SUFFICES ASSUME Inv, NEW p \in PoolNames, NEW v \in VmIds,
                      NEW m \in Macs \cup {NoMac}, AllocateIp(p, v, m),
                      NEW ip \in IPs, Assigned(ip)
               PROVE  assignments'[ip] = assignments[ip]
    BY DEF AllocateKeeps
  <2>1. ip # Lowest(Available(p))
    BY AvailableIsFree DEF AllocateIp
  <2> QED
    BY <2>1 DEF AllocateIp, Inv, TypeOK
<1> QED
  BY InitInv, <1>1, <1>2, PTL DEF Spec, AllocateTakesFree

(* The number list_pools reports never promises what allocate_ip cannot    *)
(* give: if nothing were available, the addresses of the range would all   *)
(* be reserved or assigned, and the report would be zero or less.          *)
THEOREM ReportIsKept == Spec => []ReportedFreeIsAvailable
<1>1. ASSUME TypeOK, NEW p \in PoolNames, pools[p] # NoPool, FreeIps(p) > 0
      PROVE  Available(p) # {}
  <2> DEFINE pool  == pools[p]
             range == pool.start .. pool.end
  <2>0. pool \in Pool
    BY <1>1 DEF TypeOK
  <2>1. pool.start \in Nat /\ pool.end \in Nat /\ pool.reserved \subseteq IPs
    BY <2>0, PoolConstants DEF Pool
  <2>2. IsFiniteSet(pool.reserved) /\ IsFiniteSet(AssignedIn(p))
    BY <2>1, PoolConstants, FS_Subset DEF AssignedIn
  <2>3. /\ Cardinality(pool.reserved) \in Nat /\ Cardinality(AssignedIn(p)) \in Nat
        /\ Cardinality(pool.reserved \cap AssignedIn(p)) \in Nat
    BY <2>2, FS_CardinalityType, FS_Intersection
  <2> HIDE DEF pool
  <2>4. Cardinality(range) > Cardinality(pool.reserved) + Cardinality(AssignedIn(p))
    <3>1. pool.end - pool.start + 1 > Cardinality(pool.reserved) + Cardinality(AssignedIn(p))
      BY <1>1, <2>1, <2>3 DEF FreeIps, PoolCapacity, pool
    <3>2. pool.start <= pool.end
      BY <2>1, <2>3, <3>1
    <3> QED  BY <2>1, <3>1, <3>2, FS_Interval
  <2>5. SUFFICES ASSUME Available(p) = {} PROVE FALSE
    OBVIOUS
  <2>6. range \subseteq pool.reserved \cup AssignedIn(p)
    BY <2>5 DEF Available, PoolIps, pool
  <2>7. /\ IsFiniteSet(pool.reserved \cup AssignedIn(p))
        /\ Cardinality(pool.reserved \cup AssignedIn(p))
             = Cardinality(pool.reserved) + Cardinality(AssignedIn(p))
                 - Cardinality(pool.reserved \cap AssignedIn(p))
    BY <2>2, FS_Union
  <2>8. /\ Cardinality(range) <= Cardinality(pool.reserved \cup AssignedIn(p))
        /\ Cardinality(range) \in Nat
    BY <2>6, <2>7, FS_Subset, FS_CardinalityType
  <2> HIDE DEF range
  <2> QED  BY <2>3, <2>4, <2>7, <2>8
<1>2. TypeOK => ReportedFreeIsAvailable
  BY <1>1 DEF ReportedFreeIsAvailable
<1> QED
  BY <1>2, TypeCorrect, PTL
=============================================================================
