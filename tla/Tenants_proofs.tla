--------------------------- MODULE Tenants_proofs ---------------------------
(***************************************************************************)
(* Proofs about Tenants, for any VMs, tenants, users and listing threads.  *)
(* The point is how far a tenant gets past its quota by lists that do not  *)
(* show the VMs made since.  A list is blind by k when it misses more than *)
(* k of the tenant's VMs.  A tenant k over its quota has used up k blind   *)
(* lists, so at most as many threads as are left hold one.                 *)
(***************************************************************************)
EXTENDS Tenants, FiniteSetTheorems, TLAPS

Own(t) == {v \in vms : vmTenant[v] = t}

Missing(L, t) == Own(t) \ L

(* The threads whose list, and 1 if the cached list, misses more than k. *)
BlindThreads(t, k) ==
  {l \in Listers : listing[l] # NoList /\ Cardinality(Missing(listing[l], t)) > k}

BlindCache(t, k) ==
  IF cache # NoList /\ Cardinality(Missing(cache, t)) > k THEN 1 ELSE 0

Budget(t) ==
  \A k \in Nat : Usage(t) >= quota[t] + k
    => k + Cardinality(BlindThreads(t, k)) + BlindCache(t, k) <= Cardinality(Listers)

Budgets == \A t \in Live \ excused : Budget(t)

(* A VM that is yet to be made belongs at most to a tenant whom an *)
(* administrator gave it.                                          *)
Announced == \A v \in Vm : vmTenant[v] # None => v \in made \/ vmTenant[v] \in excused

TenantsInv == TypeOK /\ NoDangling /\ Announced /\ Budgets

-----------------------------------------------------------------------------
(* Types and references. *)

LEMMA TypeInit == Init => TypeOK /\ NoDangling
BY TenantConstants DEF Init, TypeOK, NoDangling

LEMMA TypeNext == TypeOK /\ [Next]_vars => TypeOK'
<1> SUFFICES ASSUME TypeOK, [Next]_vars PROVE TypeOK'
  OBVIOUS
<1> USE TenantConstants DEF TypeOK, file, lists
<1>1. ASSUME NEW t \in Tenant, NEW q \in 0 .. MaxQuota, CreateTenant(t, q) \/ UpdateQuota(t, q)
      PROVE  TypeOK'
  BY <1>1 DEF CreateTenant, UpdateQuota
<1>2. ASSUME NEW t \in Tenant, NEW force \in BOOLEAN, DeleteTenant(t, force)
      PROVE  TypeOK'
  BY <1>2 DEF DeleteTenant, Freed
<1>3. ASSUME NEW u \in User, NEW t \in Tenant, AssignUser(u, t)
      PROVE  TypeOK'
  BY <1>3 DEF AssignUser
<1>4. ASSUME NEW u \in User, UnassignUser(u)
      PROVE  TypeOK'
  BY <1>4 DEF UnassignUser
<1>5. ASSUME NEW v \in Vm, NEW t \in Tenant, AssignVm(v, t)
      PROVE  TypeOK'
  BY <1>5 DEF AssignVm
<1>6. ASSUME NEW v \in Vm, UnassignVm(v)
      PROVE  TypeOK'
  BY <1>6 DEF UnassignVm
<1>7. ASSUME NEW l \in Listers, BeginList(l) \/ EndList(l) \/ ListRaises(l)
      PROVE  TypeOK'
  BY <1>7 DEF BeginList, EndList, ListRaises
<1>8. ASSUME HandlerLists \/ Expire \/ Crash
      PROVE  TypeOK'
  BY <1>8 DEF HandlerLists, Listed, Expire, Crash
<1>9. ASSUME NEW u \in User, NEW v \in Vm, PortalBlind(u, v)
      PROVE  TypeOK'
  BY <1>9 DEF PortalBlind, Allowed, Live, Define
<1>10. ASSUME NEW u \in User, NEW v \in Vm, NEW saved \in BOOLEAN, PortalCreate(u, v, saved)
       PROVE  TypeOK'
  BY <1>10 DEF PortalCreate, Allowed, Live, Define
<1>11. ASSUME NEW v \in Vm, NEW told \in BOOLEAN, OtherCreate(v, told) \/ DeleteVm(v, told)
       PROVE  TypeOK'
  BY <1>11 DEF OtherCreate, DeleteVm
<1>12. CASE UNCHANGED vars
  BY <1>12 DEF vars
<1> QED  BY <1>1, <1>2, <1>3, <1>4, <1>5, <1>6, <1>7, <1>8, <1>9, <1>10, <1>11, <1>12 DEF Next

LEMMA DanglingNext == TypeOK /\ NoDangling /\ [Next]_vars => NoDangling'
<1> SUFFICES ASSUME TypeOK, NoDangling, [Next]_vars PROVE NoDangling'
  OBVIOUS
<1> USE TenantConstants DEF TypeOK, NoDangling, Live, file, lists
<1>1. ASSUME NEW t \in Tenant, NEW q \in 0 .. MaxQuota, CreateTenant(t, q) \/ UpdateQuota(t, q)
      PROVE  NoDangling'
  BY <1>1 DEF CreateTenant, UpdateQuota
<1>2. ASSUME NEW t \in Tenant, NEW force \in BOOLEAN, DeleteTenant(t, force)
      PROVE  NoDangling'
  BY <1>2 DEF DeleteTenant, Freed
<1>3. ASSUME NEW u \in User, NEW t \in Tenant, AssignUser(u, t)
      PROVE  NoDangling'
  BY <1>3 DEF AssignUser
<1>4. ASSUME NEW u \in User, UnassignUser(u)
      PROVE  NoDangling'
  BY <1>4 DEF UnassignUser
<1>5. ASSUME NEW v \in Vm, NEW t \in Tenant, AssignVm(v, t)
      PROVE  NoDangling'
  BY <1>5 DEF AssignVm
<1>6. ASSUME NEW v \in Vm, UnassignVm(v)
      PROVE  NoDangling'
  BY <1>6 DEF UnassignVm
<1>7. ASSUME NEW l \in Listers, BeginList(l) \/ EndList(l) \/ ListRaises(l)
      PROVE  NoDangling'
  BY <1>7 DEF BeginList, EndList, ListRaises
<1>8. ASSUME HandlerLists \/ Expire \/ Crash
      PROVE  NoDangling'
  BY <1>8 DEF HandlerLists, Expire, Crash
<1>9. ASSUME NEW u \in User, NEW v \in Vm, PortalBlind(u, v)
      PROVE  NoDangling'
  BY <1>9 DEF PortalBlind, Allowed, Define
<1>10. ASSUME NEW u \in User, NEW v \in Vm, NEW saved \in BOOLEAN, PortalCreate(u, v, saved)
       PROVE  NoDangling'
  BY <1>10 DEF PortalCreate, Allowed, Define
<1>11. ASSUME NEW v \in Vm, NEW told \in BOOLEAN, OtherCreate(v, told) \/ DeleteVm(v, told)
       PROVE  NoDangling'
  BY <1>11 DEF OtherCreate, DeleteVm
<1>12. CASE UNCHANGED vars
  BY <1>12 DEF vars
<1> QED  BY <1>1, <1>2, <1>3, <1>4, <1>5, <1>6, <1>7, <1>8, <1>9, <1>10, <1>11, <1>12 DEF Next

LEMMA AnnouncedNext == TypeOK /\ NoDangling /\ Announced /\ [Next]_vars => Announced'
<1> SUFFICES ASSUME TypeOK, NoDangling, Announced, [Next]_vars PROVE Announced'
  OBVIOUS
<1> USE TenantConstants DEF TypeOK, Announced, file, lists
<1>1. ASSUME NEW t \in Tenant, NEW q \in 0 .. MaxQuota, CreateTenant(t, q) \/ UpdateQuota(t, q)
      PROVE  Announced'
  BY <1>1 DEF CreateTenant, UpdateQuota
<1>2. ASSUME NEW t \in Tenant, NEW force \in BOOLEAN, DeleteTenant(t, force)
      PROVE  Announced'
  BY <1>2 DEF DeleteTenant, Freed
<1>3. ASSUME NEW u \in User, (\E t \in Tenant : AssignUser(u, t)) \/ UnassignUser(u)
      PROVE  Announced'
  BY <1>3 DEF AssignUser, UnassignUser
<1>4. ASSUME NEW v \in Vm, NEW t \in Tenant, AssignVm(v, t)
      PROVE  Announced'
  BY <1>4 DEF AssignVm
<1>5. ASSUME NEW v \in Vm, UnassignVm(v)
      PROVE  Announced'
  BY <1>5 DEF UnassignVm
<1>6. ASSUME NEW l \in Listers, BeginList(l) \/ EndList(l) \/ ListRaises(l)
      PROVE  Announced'
  BY <1>6 DEF BeginList, EndList, ListRaises
<1>7. ASSUME HandlerLists \/ Expire \/ Crash
      PROVE  Announced'
  BY <1>7 DEF HandlerLists, Expire, Crash
<1>8. ASSUME NEW u \in User, NEW v \in Vm, PortalBlind(u, v)
      PROVE  Announced'
  BY <1>8 DEF PortalBlind, Define
<1>9. ASSUME NEW u \in User, NEW v \in Vm, NEW saved \in BOOLEAN, PortalCreate(u, v, saved)
      PROVE  Announced'
  BY <1>9 DEF PortalCreate, Define
<1>10. ASSUME NEW v \in Vm, NEW told \in BOOLEAN, OtherCreate(v, told) \/ DeleteVm(v, told)
       PROVE  Announced'
  BY <1>10 DEF OtherCreate, DeleteVm
<1>11. CASE UNCHANGED vars
  BY <1>11 DEF vars
<1> QED  BY <1>1, <1>2, <1>3, <1>4, <1>5, <1>6, <1>7, <1>8, <1>9, <1>10, <1>11 DEF Next

-----------------------------------------------------------------------------
(* Counting. *)

(* A part of a finite set misses no more of a list than the whole does. *)
LEMMA MissesLess ==
  ASSUME NEW O, IsFiniteSet(O), NEW P \in SUBSET O, NEW L
  PROVE  /\ IsFiniteSet(P) /\ IsFiniteSet(P \ L) /\ IsFiniteSet(O \ L)
         /\ Cardinality(P) \in Nat /\ Cardinality(O) \in Nat
         /\ Cardinality(P \ L) \in Nat /\ Cardinality(O \ L) \in Nat
         /\ Cardinality(P) <= Cardinality(O)
         /\ Cardinality(P \ L) <= Cardinality(O \ L)
<1>1. IsFiniteSet(P) /\ Cardinality(P) <= Cardinality(O)
  BY FS_Subset
<1>2. IsFiniteSet(O \ L)
  BY FS_Difference
<1>3. P \ L \in SUBSET (O \ L)
  OBVIOUS
<1>4. IsFiniteSet(P \ L) /\ Cardinality(P \ L) <= Cardinality(O \ L)
  BY <1>2, <1>3, FS_Subset
<1> QED  BY <1>1, <1>2, <1>4, FS_CardinalityType

LEMMA Counts ==
  ASSUME TypeOK, NEW t \in Tenant
  PROVE  /\ IsFiniteSet(Own(t)) /\ Usage(t) = Cardinality(Own(t)) /\ Usage(t) \in Nat
         /\ quota[t] \in Nat
         /\ \A L : Cardinality(Missing(L, t)) \in Nat
         /\ Cardinality(Listers) \in Nat
         /\ \A k \in Nat : /\ IsFiniteSet(BlindThreads(t, k))
                           /\ Cardinality(BlindThreads(t, k)) \in Nat
                           /\ Cardinality(BlindThreads(t, k)) <= Cardinality(Listers)
<1>1. IsFiniteSet(Own(t))
  <2>1. Own(t) \in SUBSET Vm
    BY DEF TypeOK, Own
  <2> QED  BY <2>1, FS_Subset, TenantConstants
<1>2. Usage(t) = Cardinality(Own(t))
  BY DEF Usage, Seen, Own
<1>3. quota[t] \in Nat
  BY TenantConstants DEF TypeOK
<1>4. \A L : Cardinality(Missing(L, t)) \in Nat
  BY <1>1, FS_Difference, FS_CardinalityType DEF Missing
<1>5. ASSUME NEW k \in Nat
      PROVE  /\ IsFiniteSet(BlindThreads(t, k))
             /\ Cardinality(BlindThreads(t, k)) \in Nat
             /\ Cardinality(BlindThreads(t, k)) <= Cardinality(Listers)
  <2>1. BlindThreads(t, k) \in SUBSET Listers
    BY DEF BlindThreads
  <2> QED  BY <2>1, FS_Subset, FS_CardinalityType, TenantConstants
<1> QED  BY <1>1, <1>2, <1>3, <1>4, <1>5, FS_CardinalityType, TenantConstants

(* The same after a step. *)
LEMMA CountsAfter ==
  ASSUME TypeOK', NEW t \in Tenant
  PROVE  /\ Usage(t)' = Cardinality(Own(t)') /\ Usage(t)' \in Nat /\ quota'[t] \in Nat
         /\ \A k \in Nat : /\ Cardinality(BlindThreads(t, k)') \in Nat
                           /\ Cardinality(BlindThreads(t, k)') <= Cardinality(Listers)
<1>1. IsFiniteSet(Own(t)')
  <2>1. Own(t)' \in SUBSET Vm
    BY DEF TypeOK, Own
  <2> QED  BY <2>1, FS_Subset, TenantConstants
<1>2. Usage(t)' = Cardinality(Own(t)')
  BY DEF Usage, Seen, Own
<1>3. quota'[t] \in Nat
  BY TenantConstants DEF TypeOK
<1>4. ASSUME NEW k \in Nat
      PROVE  /\ Cardinality(BlindThreads(t, k)') \in Nat
             /\ Cardinality(BlindThreads(t, k)') <= Cardinality(Listers)
  <2>1. BlindThreads(t, k)' \in SUBSET Listers
    BY DEF BlindThreads
  <2> QED  BY <2>1, FS_Subset, FS_CardinalityType, TenantConstants
<1> QED  BY <1>1, <1>2, <1>3, <1>4, FS_CardinalityType

(* A step that adds no VM to the tenant, and after which every list is as  *)
(* it was or complete, keeps the budget.                                   *)
LEMMA Shrinks ==
  ASSUME TypeOK, TypeOK', NEW t \in Tenant, Budget(t), quota'[t] >= quota[t],
         Own(t)' \subseteq Own(t),
         \A l \in Listers : listing'[l] # NoList
            => listing'[l] = listing[l] \/ Own(t)' \subseteq listing'[l],
         cache' # NoList => cache' = cache \/ Own(t)' \subseteq cache'
  PROVE  Budget(t)'
<1> SUFFICES ASSUME NEW k \in Nat, Usage(t)' >= quota'[t] + k
             PROVE  k + Cardinality(BlindThreads(t, k)') + BlindCache(t, k)' <= Cardinality(Listers)
  BY DEF Budget
<1>1. /\ IsFiniteSet(Own(t)) /\ Usage(t) = Cardinality(Own(t)) /\ Usage(t) \in Nat /\ quota[t] \in Nat
      /\ Cardinality(Listers) \in Nat
      /\ IsFiniteSet(BlindThreads(t, k)) /\ Cardinality(BlindThreads(t, k)) \in Nat
  BY Counts
<1>2. /\ Usage(t)' = Cardinality(Own(t)') /\ Usage(t)' \in Nat /\ quota'[t] \in Nat
      /\ Cardinality(BlindThreads(t, k)') \in Nat
  BY CountsAfter
<1>3. \A L : Cardinality(Own(t)' \ L) \in Nat /\ Cardinality(Own(t) \ L) \in Nat
             /\ Cardinality(Own(t)' \ L) <= Cardinality(Own(t) \ L)
  BY <1>1, MissesLess
<1>4. \A L : Own(t)' \subseteq L => ~ Cardinality(Own(t)' \ L) > k
  <2> SUFFICES ASSUME NEW L, Own(t)' \subseteq L PROVE ~ Cardinality(Own(t)' \ L) > k
    OBVIOUS
  <2>1. Own(t)' \ L = {}
    OBVIOUS
  <2> QED  BY <2>1, FS_EmptySet
<1>5. k + Cardinality(BlindThreads(t, k)) + BlindCache(t, k) <= Cardinality(Listers)
  <2>1. Cardinality(Own(t)') <= Cardinality(Own(t))
    BY <1>1, MissesLess
  <2>2. Usage(t) >= quota[t] + k
    BY <1>1, <1>2, <2>1
  <2> QED  BY <2>2 DEF Budget
<1>6. Cardinality(BlindThreads(t, k)') <= Cardinality(BlindThreads(t, k))
  <2>1. ASSUME NEW l \in Listers, listing'[l] # NoList, Cardinality(Own(t)' \ listing'[l]) > k
        PROVE  listing[l] # NoList /\ Cardinality(Own(t) \ listing[l]) > k
    <3>1. listing'[l] = listing[l]
      BY <2>1, <1>4
    <3>2. /\ Cardinality(Own(t)' \ listing[l]) \in Nat /\ Cardinality(Own(t) \ listing[l]) \in Nat
          /\ Cardinality(Own(t)' \ listing[l]) <= Cardinality(Own(t) \ listing[l])
      BY <1>3
    <3>3. Cardinality(Own(t)' \ listing[l]) > k
      BY <2>1, <3>1
    <3> QED  BY <2>1, <3>1, <3>2, <3>3
  <2>2. BlindThreads(t, k)' \in SUBSET BlindThreads(t, k)
    BY <2>1 DEF BlindThreads, Missing
  <2> QED  BY <2>2, <1>1, FS_Subset
<1>7. BlindCache(t, k)' <= BlindCache(t, k) /\ BlindCache(t, k) \in {0, 1} /\ BlindCache(t, k)' \in {0, 1}
  <2>1. ASSUME cache' # NoList, Cardinality(Own(t)' \ cache') > k
        PROVE  cache # NoList /\ Cardinality(Own(t) \ cache) > k
    <3>1. cache' = cache
      BY <2>1, <1>4
    <3> QED  BY <2>1, <3>1, <1>3
  <2> QED  BY <2>1 DEF BlindCache, Missing
<1> QED  BY <1>1, <1>2, <1>5, <1>6, <1>7

(* A checked request: it was let through by a list that is blind, or there *)
(* was room; and the cache is empty afterwards.                            *)
LEMMA Charges ==
  ASSUME TypeOK, TypeOK', NEW t \in Tenant, Budget(t), NEW v, v \notin made,
         Own(t)' = Own(t) \union {v},
         UNCHANGED <<quota, listing>>, cache' = NoList,
         Seen(Listed, t) + 1 <= quota[t]
  PROVE  Budget(t)'
<1> SUFFICES ASSUME NEW k \in Nat, Usage(t)' >= quota[t] + k
             PROVE  k + Cardinality(BlindThreads(t, k)') + BlindCache(t, k)' <= Cardinality(Listers)
  BY DEF Budget
<1>1. /\ IsFiniteSet(Own(t)) /\ Usage(t) = Cardinality(Own(t)) /\ Usage(t) \in Nat /\ quota[t] \in Nat
      /\ Cardinality(Listers) \in Nat
  BY Counts
<1>2. /\ Usage(t)' = Cardinality(Own(t)') /\ Usage(t)' \in Nat
      /\ Cardinality(BlindThreads(t, k)') \in Nat
      /\ Cardinality(BlindThreads(t, k)') <= Cardinality(Listers)
  BY CountsAfter
<1>3. BlindCache(t, k)' = 0
  BY DEF BlindCache
<1>4. v \notin Own(t)
  BY DEF Own, TypeOK
<1>5. CASE k = 0
  BY <1>1, <1>2, <1>3, <1>5
<1>6. CASE k # 0
  <2> DEFINE j == k - 1
  <2>1. j \in Nat /\ k = j + 1
    BY <1>6
  <2> HIDE DEF j
  <2>2. Usage(t) >= quota[t] + j
    <3>1. Usage(t)' = Usage(t) + 1
      BY <1>1, <1>2, <1>4, FS_AddElement
    <3> QED  BY <3>1, <2>1, <1>1
  <2>3. j + Cardinality(BlindThreads(t, j)) + BlindCache(t, j) <= Cardinality(Listers)
    BY <2>1, <2>2 DEF Budget
  <2>4. BlindCache(t, j) = 1
    <3>1. Listed # vms
      <4>1. SUFFICES ASSUME Listed = vms PROVE FALSE
        OBVIOUS
      <4>2. Usage(t) + 1 <= quota[t]
        BY <4>1 DEF Usage
      <4> QED  BY <4>2, <2>1, <2>2, <1>1
    <3>2. cache # NoList /\ Listed = cache /\ cache \subseteq Vm
      BY <3>1 DEF Listed, TypeOK
    <3>3. IsFiniteSet(cache)
      BY <3>2, FS_Subset, TenantConstants
    <3>4. Cardinality(Own(t) \ cache) = Cardinality(Own(t)) - Cardinality(Own(t) \cap cache)
      BY <1>1, FS_Difference
    <3>5. /\ Cardinality(Own(t) \cap cache) <= Seen(cache, t)
          /\ Cardinality(Own(t) \cap cache) \in Nat /\ Seen(cache, t) \in Nat
      <4> DEFINE S == {w \in cache : vmTenant[w] = t}
      <4>1. S \in SUBSET cache
        OBVIOUS
      <4>2. IsFiniteSet(S)
        BY <4>1, <3>3, FS_Subset
      <4>3. Own(t) \cap cache \in SUBSET S
        BY DEF Own
      <4>4. IsFiniteSet(Own(t) \cap cache) /\ Cardinality(Own(t) \cap cache) <= Cardinality(S)
        BY <4>2, <4>3, FS_Subset
      <4>5. Seen(cache, t) = Cardinality(S)
        BY DEF Seen
      <4> QED  BY <4>2, <4>4, <4>5, FS_CardinalityType
    <3>6. Cardinality(Own(t) \ cache) > j
      BY <3>2, <3>4, <3>5, <2>1, <2>2, <1>1
    <3> QED  BY <3>2, <3>6 DEF BlindCache, Missing
  <2>5. Cardinality(BlindThreads(t, k)') <= Cardinality(BlindThreads(t, j)) /\ Cardinality(BlindThreads(t, j)) \in Nat
    <3>1. ASSUME NEW l \in Listers, listing[l] # NoList, Cardinality(Own(t)' \ listing[l]) > k
          PROVE  Cardinality(Own(t) \ listing[l]) > j
      <4>1. v \notin listing[l]
        BY <3>1 DEF TypeOK
      <4>2. Own(t)' \ listing[l] = (Own(t) \ listing[l]) \union {v}
        BY <4>1
      <4>3. IsFiniteSet(Own(t) \ listing[l]) /\ Cardinality(Own(t) \ listing[l]) \in Nat
        BY <1>1, FS_Difference, FS_CardinalityType
      <4>4. Cardinality(Own(t)' \ listing[l]) = Cardinality(Own(t) \ listing[l]) + 1
        BY <4>2, <4>3, <1>4, FS_AddElement
      <4> QED  BY <3>1, <4>3, <4>4, <2>1
    <3>2. BlindThreads(t, k)' \in SUBSET BlindThreads(t, j)
      BY <3>1 DEF BlindThreads, Missing
    <3>3. IsFiniteSet(BlindThreads(t, j)) /\ Cardinality(BlindThreads(t, j)) \in Nat
      BY <2>1, Counts
    <3> QED  BY <3>2, <3>3, FS_Subset
  <2> QED  BY <1>1, <1>2, <1>3, <2>1, <2>3, <2>4, <2>5
<1> QED  BY <1>5, <1>6

(* A thread's list becomes the cached one: no list is blind that was not. *)
LEMMA Stores ==
  ASSUME TypeOK, TypeOK', NEW t \in Tenant, Budget(t), NEW l \in Listers, EndList(l)
  PROVE  Budget(t)'
<1> SUFFICES ASSUME NEW k \in Nat, Usage(t) >= quota[t] + k
             PROVE  k + Cardinality(BlindThreads(t, k)') + BlindCache(t, k)' <= Cardinality(Listers)
  BY DEF Budget, EndList, file, Usage, Seen
<1>1. /\ IsFiniteSet(BlindThreads(t, k)) /\ Cardinality(BlindThreads(t, k)) \in Nat
      /\ Cardinality(Listers) \in Nat
  BY Counts
<1>2. Cardinality(BlindThreads(t, k)') \in Nat
  BY CountsAfter
<1>3. k + Cardinality(BlindThreads(t, k)) + BlindCache(t, k) <= Cardinality(Listers)
  BY DEF Budget
<1>4. Own(t)' = Own(t)
  BY DEF EndList, file, Own
<1>5. BlindThreads(t, k)' = BlindThreads(t, k) \ {l}
  BY <1>4 DEF EndList, BlindThreads, Missing, TypeOK
<1>6. BlindCache(t, k)' = IF l \in BlindThreads(t, k) THEN 1 ELSE 0
  BY <1>4 DEF EndList, BlindThreads, BlindCache, Missing
<1>7. BlindCache(t, k) \in {0, 1}
  BY DEF BlindCache
<1>8. Cardinality(BlindThreads(t, k)') = IF l \in BlindThreads(t, k)
        THEN Cardinality(BlindThreads(t, k)) - 1 ELSE Cardinality(BlindThreads(t, k))
  BY <1>1, <1>5, FS_RemoveElement
<1> QED  BY <1>1, <1>2, <1>3, <1>6, <1>7, <1>8

(* A new tenant has no VM. *)
LEMMA Begins ==
  ASSUME TypeOK, TypeOK', NoDangling, NEW t \in Tenant, NEW q \in 0 .. MaxQuota, CreateTenant(t, q)
  PROVE  Budget(t)'
<1> SUFFICES ASSUME NEW k \in Nat, Usage(t)' >= quota'[t] + k
             PROVE  k + Cardinality(BlindThreads(t, k)') + BlindCache(t, k)' <= Cardinality(Listers)
  BY DEF Budget
<1>1. Own(t)' = {}
  BY TenantConstants DEF CreateTenant, NoDangling, Live, Own, TypeOK
<1>2. \A L : Missing(L, t)' = {}
  BY <1>1 DEF Missing
<1>3. Usage(t)' = 0
  <2>1. Usage(t)' = Cardinality(Own(t)')
    BY CountsAfter
  <2> QED  BY <2>1, <1>1, FS_EmptySet
<1>4. quota'[t] \in Nat
  BY TenantConstants DEF TypeOK
<1>5. k = 0
  BY <1>3, <1>4
<1>6. BlindThreads(t, k)' = {}
  BY <1>1, <1>5, FS_EmptySet DEF BlindThreads, Missing
<1>7. BlindCache(t, k)' = 0
  BY <1>1, <1>5, FS_EmptySet DEF BlindCache, Missing
<1>8. Cardinality(Listers) \in Nat
  BY Counts
<1>9. Cardinality(BlindThreads(t, k)') = 0
  BY <1>6, FS_EmptySet
<1> QED  BY <1>5, <1>7, <1>8, <1>9

-----------------------------------------------------------------------------
(* Every step keeps the budgets. *)

LEMMA BudgetsNext == TenantsInv /\ TypeOK' /\ [Next]_vars => Budgets'
<1> SUFFICES ASSUME TypeOK, NoDangling, Announced, Budgets, TypeOK', [Next]_vars,
                    NEW t \in Tenant, t \in Live', t \notin excused'
             PROVE  Budget(t)'
  BY DEF TenantsInv, Budgets, Live
<1>q. quota[t] \in Nat
  BY TenantConstants DEF TypeOK
<1>b. ASSUME t \in Live, t \notin excused PROVE Budget(t)
  BY <1>b DEF Budgets
<1>1. ASSUME NEW s \in Tenant, NEW q \in 0 .. MaxQuota, CreateTenant(s, q)
      PROVE  Budget(t)'
  <2>1. CASE s = t
    BY <2>1, <1>1, Begins
  <2>2. CASE s # t
    <3>1. Budget(t)
      BY <2>2, <1>1, <1>b DEF CreateTenant, Live, TypeOK
    <3> QED  BY <2>2, <3>1, <1>1, <1>q, Shrinks DEF CreateTenant, Own, lists, TypeOK
  <2> QED  BY <2>1, <2>2
<1>2. ASSUME NEW s \in Tenant, NEW q \in 0 .. MaxQuota, UpdateQuota(s, q)
      PROVE  Budget(t)'
  <2>1. Budget(t)
    BY <1>2, <1>b DEF UpdateQuota, Live
  <2>2. quota'[t] >= quota[t]
    BY <1>2, <1>q, TenantConstants DEF UpdateQuota, TypeOK
  <2> QED  BY <2>1, <2>2, <1>2, Shrinks DEF UpdateQuota, Own, lists
<1>3. ASSUME NEW s \in Tenant, NEW force \in BOOLEAN, DeleteTenant(s, force)
      PROVE  Budget(t)'
  <2>1. Budget(t)
    BY <1>3, <1>b DEF DeleteTenant, Live, TypeOK
  <2>2. Own(t)' \subseteq Own(t)
    BY <1>3, TenantConstants DEF DeleteTenant, Freed, Own, TypeOK
  <2> QED  BY <2>1, <2>2, <1>3, <1>q, Shrinks DEF DeleteTenant, lists
<1>4. ASSUME NEW u \in User, (\E s \in Tenant : AssignUser(u, s)) \/ UnassignUser(u)
      PROVE  Budget(t)'
  <2>1. Budget(t)
    BY <1>4, <1>b DEF AssignUser, UnassignUser, Live
  <2> QED  BY <2>1, <1>4, <1>q, Shrinks DEF AssignUser, UnassignUser, Own, lists
<1>5. ASSUME NEW v \in Vm, NEW s \in Tenant, AssignVm(v, s)
      PROVE  Budget(t)'
  <2>1. Budget(t) /\ t # s
    BY <1>5, <1>b DEF AssignVm, Live
  <2>2. Own(t)' \subseteq Own(t)
    BY <2>1, <1>5 DEF AssignVm, Own, TypeOK
  <2> QED  BY <2>1, <2>2, <1>5, <1>q, Shrinks DEF AssignVm, lists
<1>6. ASSUME NEW v \in Vm, UnassignVm(v)
      PROVE  Budget(t)'
  <2>1. Budget(t)
    BY <1>6, <1>b DEF UnassignVm, Live
  <2>2. Own(t)' \subseteq Own(t)
    BY <1>6, TenantConstants DEF UnassignVm, Own, TypeOK
  <2> QED  BY <2>1, <2>2, <1>6, <1>q, Shrinks DEF UnassignVm, lists
<1>7. ASSUME NEW l \in Listers, BeginList(l) \/ ListRaises(l)
      PROVE  Budget(t)'
  <2>1. Budget(t) /\ Own(t)' = Own(t) /\ Own(t) \subseteq vms
    BY <1>7, <1>b DEF BeginList, ListRaises, Live, file, Own
  <2>2. ASSUME NEW m \in Listers, listing'[m] # NoList
        PROVE  listing'[m] = listing[m] \/ Own(t)' \subseteq listing'[m]
    BY <2>1, <2>2, <1>7 DEF BeginList, ListRaises, TypeOK
  <2>3. quota' = quota /\ cache' = cache
    BY <1>7 DEF BeginList, ListRaises, file
  <2> QED  BY <2>1, <2>2, <2>3, <1>q, Shrinks
<1>8. ASSUME NEW l \in Listers, EndList(l)
      PROVE  Budget(t)'
  <2>1. Budget(t)
    BY <1>8, <1>b DEF EndList, Live, file
  <2> QED  BY <2>1, <1>8, Stores
<1>9. ASSUME HandlerLists \/ Expire \/ Crash
      PROVE  Budget(t)'
  <2>1. Budget(t) /\ Own(t)' = Own(t) /\ Own(t) \subseteq vms /\ quota' = quota
    BY <1>9, <1>b DEF HandlerLists, Expire, Crash, Live, file, Own
  <2>2. ASSUME NEW m \in Listers, listing'[m] # NoList
        PROVE  listing'[m] = listing[m]
    BY <2>2, <1>9 DEF HandlerLists, Expire, Crash
  <2>3. cache' # NoList => cache' = cache \/ Own(t)' \subseteq cache'
    BY <2>1, <1>9 DEF HandlerLists, Listed, Expire, Crash
  <2> QED  BY <2>1, <2>2, <2>3, <1>q, Shrinks
<1>10. ASSUME NEW u \in User, NEW v \in Vm, PortalBlind(u, v)
       PROVE  Budget(t)'
  <2>1. Budget(t) /\ t # userTenant[u] /\ v \notin made
    BY <1>10, <1>b DEF PortalBlind, Define, Live
  <2>2. Own(t)' \subseteq Own(t)
    BY <2>1, <1>10 DEF PortalBlind, Define, Own, TypeOK
  <2> QED  BY <2>1, <2>2, <1>10, <1>q, Shrinks DEF PortalBlind, Define
<1>11. ASSUME NEW u \in User, NEW v \in Vm, NEW saved \in BOOLEAN, PortalCreate(u, v, saved)
       PROVE  Budget(t)'
  <2>1. Budget(t) /\ v \notin made /\ vmTenant[v] # t
    BY <1>11, <1>b, TenantConstants DEF PortalCreate, Define, Live, Announced
  <2>2. quota' = quota /\ listing' = listing /\ cache' = NoList
    BY <1>11 DEF PortalCreate, Define
  <2>3. CASE saved /\ t = userTenant[u]
    <3>1. Own(t)' = Own(t) \union {v}
      BY <2>1, <2>3, <1>11 DEF PortalCreate, Define, Own, TypeOK
    <3>2. Seen(Listed, t) + 1 <= quota[t]
      BY <2>3, <1>11 DEF PortalCreate, Allowed
    <3> QED  BY <2>1, <2>2, <3>1, <3>2, Charges
  <2>4. CASE ~ (saved /\ t = userTenant[u])
    <3>1. Own(t)' \subseteq Own(t)
      BY <2>1, <2>4, <1>11 DEF PortalCreate, Define, Own, TypeOK
    <3> QED  BY <2>1, <2>2, <3>1, <1>q, Shrinks
  <2> QED  BY <2>3, <2>4
<1>12. ASSUME NEW v \in Vm, NEW told \in BOOLEAN, OtherCreate(v, told) \/ DeleteVm(v, told)
       PROVE  Budget(t)'
  <2>1. Budget(t) /\ \A w \in Vm \ made : vmTenant[w] # t
    BY <1>12, <1>b, TenantConstants DEF OtherCreate, DeleteVm, Live, file, Announced
  <2>2. Own(t)' \subseteq Own(t)
    BY <2>1, <1>12 DEF OtherCreate, DeleteVm, Own, file
  <2>3. quota' = quota /\ listing' = listing /\ (cache' # NoList => cache' = cache)
    BY <1>12 DEF OtherCreate, DeleteVm, file
  <2> QED  BY <2>1, <2>2, <2>3, <1>q, Shrinks
<1>13. CASE UNCHANGED vars
  <2>1. Budget(t) /\ Own(t)' = Own(t)
    BY <1>13, <1>b DEF vars, Live, Own
  <2> QED  BY <2>1, <1>13, <1>q, Shrinks DEF vars
<1> QED  BY <1>1, <1>2, <1>3, <1>4, <1>5, <1>6, <1>7, <1>8, <1>9, <1>10, <1>11, <1>12, <1>13 DEF Next

-----------------------------------------------------------------------------

\* The file, the hypervisor, the cache and the threads' lists keep their
\* types, restarts and failing calls included (tenant_manager.py,
\* self_service_portal.py, list_vms).
THEOREM TypeCorrect == Spec => []TypeOK
<1>1. Init => TypeOK
  BY TypeInit
<1> QED  BY <1>1, TypeNext, PTL DEF Spec

\* Users and VMs are only ever assigned to tenants that exist
\* (delete_tenant against the assignments and the portal).
THEOREM ReferencesHold == Spec => []NoDangling
<1>1. Init => TypeOK /\ NoDangling
  BY TypeInit
<1>2. TypeOK /\ NoDangling /\ [Next]_vars => (TypeOK /\ NoDangling)'
  BY TypeNext, DanglingNext
<1> QED  BY <1>1, <1>2, PTL DEF Spec

\* With n threads listing VMs beside the hub, requests through the portal
\* take a tenant at most n VMs over its quota, for every n; with none the
\* quota is hard (check_quota, list_vms, _invalidate_list_cache).
THEOREM QuotaByListers == Spec => []OverByListers
<1>1. Init => TenantsInv
  BY TypeInit DEF TenantsInv, Announced, Budgets, Live, Init
<1>2. TenantsInv /\ [Next]_vars => TenantsInv'
  BY TypeNext, DanglingNext, AnnouncedNext, BudgetsNext DEF TenantsInv
<1>3. TenantsInv => OverByListers
  <2> SUFFICES ASSUME TypeOK, Budgets, NEW t \in Live \ excused
               PROVE  Usage(t) <= quota[t] + Cardinality(Listers)
    BY DEF TenantsInv, OverByListers
  <2>1. t \in Tenant /\ Budget(t)
    BY DEF Budgets, Live
  <2>2. /\ Usage(t) \in Nat /\ quota[t] \in Nat /\ Cardinality(Listers) \in Nat
        /\ \A k \in Nat : Cardinality(BlindThreads(t, k)) \in Nat
    BY <2>1, Counts
  <2> DEFINE k == Usage(t) - quota[t]
  <2>3. CASE Usage(t) < quota[t]
    BY <2>2, <2>3
  <2>4. CASE Usage(t) >= quota[t]
    <3>1. k \in Nat /\ Usage(t) >= quota[t] + k
      BY <2>2, <2>4
    <3>2. k + Cardinality(BlindThreads(t, k)) + BlindCache(t, k) <= Cardinality(Listers)
      BY <2>1, <3>1 DEF Budget
    <3>3. BlindCache(t, k) \in {0, 1} /\ Cardinality(BlindThreads(t, k)) \in Nat
      BY <2>2, <3>1 DEF BlindCache
    <3> HIDE DEF k
    <3>4. k <= Cardinality(Listers)
      BY <3>1, <3>2, <3>3, <2>2
    <3> QED  BY <3>4, <2>2 DEF k
  <2> QED  BY <2>2, <2>3, <2>4
<1> QED  BY <1>1, <1>2, <1>3, PTL DEF Spec
=============================================================================
