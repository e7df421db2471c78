------------------------------- MODULE Tenants -------------------------------
(***************************************************************************)
(* Tenants, their quotas, and the self-service portal through which their  *)
(* users create VMs (tenant_manager.py, self_service_portal.py).  The      *)
(* portal measures what a tenant has by vm_manager.list_vms, which answers *)
(* from a cache for three seconds.  create_vm and delete_vm throw the      *)
(* cache away, but a thread that asked libvirt before may store its older  *)
(* list afterwards.                                                        *)
(*                                                                         *)
(* A handler runs to its end before the next one begins, so each is one    *)
(* step; what interleaves with them is the listing by other threads (the   *)
(* telemetry sender).  Of the quota the number of VMs is modelled: vCPUs   *)
(* and memory are summed over the same list and compared the same way.     *)
(***************************************************************************)
EXTENDS Naturals, FiniteSets

CONSTANTS Vm, User, Tenant,   \* what libvirt and uuid4 name, and accounts
          Listers,            \* the threads that list VMs beside the hub
          MaxQuota,           \* bound: the largest quota an administrator gives
          None,               \* "no tenant"
          NoList              \* "no list": an empty cache, an idle thread

ASSUME TenantConstants ==
  /\ IsFiniteSet(Vm) /\ IsFiniteSet(Listers)
  /\ MaxQuota \in Nat
  /\ None \notin Tenant

VARIABLES
  state,       \* each tenant's id: not handed out yet, in the file, or deleted
  quota,       \* its vms_max
  userTenant,  \* the assignments of users ...
  vmTenant,    \* ... and of VMs in tenants.json
  vms,         \* the domains libvirt has
  made,        \* every id a domain ever had
  cache,       \* _LIST_CACHE
  listing,     \* for each thread the list it got from libvirt and has not stored
  excused      \* tenants that something else than a checked request filled up

file == <<state, quota, userTenant, vmTenant>>
lists == <<cache, listing>>
vars == <<state, quota, userTenant, vmTenant, vms, made, cache, listing, excused>>

Live == {t \in Tenant : state[t] = "live"}

\* get_tenant_usage counts the listed VMs that are assigned to the tenant.
Seen(L, t) == Cardinality({v \in L : vmTenant[v] = t})

Usage(t) == Seen(vms, t)

Init ==
  /\ state = [t \in Tenant |-> "new"]
  /\ quota = [t \in Tenant |-> 0]
  /\ userTenant = [u \in User |-> None]
  /\ vmTenant = [v \in Vm |-> None]
  /\ vms = {} /\ made = {}
  /\ cache = NoList
  /\ listing = [l \in Listers |-> NoList]
  /\ excused = {}

---------------------------------------------------------------------------
(* Administrators: tenants, quotas, assignments.                           *)

CreateTenant(t, q) ==
  /\ state[t] = "new"
  /\ state' = [state EXCEPT ![t] = "live"]
  /\ quota' = [quota EXCEPT ![t] = q]
  /\ UNCHANGED <<userTenant, vmTenant, vms, made, lists, excused>>

Freed(f, t) == [x \in DOMAIN f |-> IF f[x] = t THEN None ELSE f[x]]

\* A mistake: the users of the deleted tenant are forgotten.
DeleteTenantMut(t, force) ==
  /\ t \in Live
  /\ force \/ \A v \in Vm : vmTenant[v] # t
  /\ state' = [state EXCEPT ![t] = "gone"]
  /\ vmTenant' = Freed(vmTenant, t)
  /\ UNCHANGED <<quota, userTenant, vms, made, lists, excused>>

\* With VMs assigned it takes force, and then their assignments go as well.
DeleteTenant(t, force) ==
  /\ t \in Live
  /\ force \/ \A v \in Vm : vmTenant[v] # t
  /\ state' = [state EXCEPT ![t] = "gone"]
  /\ userTenant' = Freed(userTenant, t)
  /\ vmTenant' = Freed(vmTenant, t)
  /\ UNCHANGED <<quota, vms, made, lists, excused>>

\* A mistake: the new quota is added to the old one.
UpdateQuotaMut(t, q) ==
  /\ t \in Live
  /\ quota' = [quota EXCEPT ![t] = @ + q]
  /\ UNCHANGED <<state, userTenant, vmTenant, vms, made, lists, excused>>

UpdateQuota(t, q) ==
  /\ t \in Live
  /\ quota' = [quota EXCEPT ![t] = q]
  /\ excused' = IF q < quota[t] THEN excused \union {t} ELSE excused
  /\ UNCHANGED <<state, userTenant, vmTenant, vms, made, lists>>

AssignUser(u, t) ==
  /\ t \in Live
  /\ userTenant' = [userTenant EXCEPT ![u] = t]
  /\ UNCHANGED <<state, quota, vmTenant, vms, made, lists, excused>>

UnassignUser(u) ==
  /\ userTenant[u] # None
  /\ userTenant' = [userTenant EXCEPT ![u] = None]
  /\ UNCHANGED <<state, quota, vmTenant, vms, made, lists, excused>>

\* No quota is looked at, nor whether there is such a VM: the id may be of
\* one that is gone or of one that is yet to be made.
AssignVm(v, t) ==
  /\ t \in Live
  /\ vmTenant' = [vmTenant EXCEPT ![v] = t]
  /\ excused' = excused \union {t}
  /\ UNCHANGED <<state, quota, userTenant, vms, made, lists>>

UnassignVm(v) ==
  /\ vmTenant[v] # None
  /\ vmTenant' = [vmTenant EXCEPT ![v] = None]
  /\ UNCHANGED <<state, quota, userTenant, vms, made, lists, excused>>

---------------------------------------------------------------------------
(* The list of VMs.                                                        *)

\* What list_vms answers and leaves in the cache when a handler calls it.
Listed == IF cache = NoList THEN vms ELSE cache

\* A thread finds the cache empty or expired and asks libvirt ...
BeginList(l) ==
  /\ cache = NoList /\ listing[l] = NoList
  /\ listing' = [listing EXCEPT ![l] = vms]
  /\ UNCHANGED <<file, vms, made, cache, excused>>

\* ... and stores the answer, however old it is by now.
EndList(l) ==
  /\ listing[l] # NoList
  /\ cache' = listing[l]
  /\ listing' = [listing EXCEPT ![l] = NoList]
  /\ UNCHANGED <<file, vms, made, excused>>

\* A domain it was describing is gone: libvirt raises, nothing is stored.
ListRaises(l) ==
  /\ listing[l] # NoList /\ ~ listing[l] \subseteq vms
  /\ listing' = [listing EXCEPT ![l] = NoList]
  /\ UNCHANGED <<file, vms, made, cache, excused>>

\* A handler that only lists: the dashboard, a refused request, a usage report.
HandlerLists ==
  /\ cache' = Listed
  /\ UNCHANGED <<file, vms, made, listing, excused>>

Expire ==
  /\ cache # NoList
  /\ cache' = NoList
  /\ UNCHANGED <<file, vms, made, listing, excused>>

---------------------------------------------------------------------------
(* VMs that come and go.                                                   *)

\* A mistake: the cached list stays when a domain is created.
DefineMut(v) ==
  /\ v \notin made
  /\ vms' = vms \union {v} /\ made' = made \union {v}
  /\ cache' = cache

\* create_vm defines the domain under a new id and invalidates the cache.
Define(v) ==
  /\ v \notin made
  /\ vms' = vms \union {v} /\ made' = made \union {v}
  /\ cache' = NoList

\* The portal's check of the quota by the list L.
Allowed(u, L) ==
  /\ userTenant[u] \in Live
  /\ Seen(L, userTenant[u]) + 1 <= quota[userTenant[u]]

\* request_vm_create: check, create, assign.  saved says whether the
\* assignment could be written; a failure to do so is only logged.
PortalCreate(u, v, saved) ==
  /\ Allowed(u, Listed)
  /\ Define(v)
  /\ vmTenant' = IF saved THEN [vmTenant EXCEPT ![v] = userTenant[u]] ELSE vmTenant
  /\ UNCHANGED <<state, quota, userTenant, listing, excused>>

\* libvirt does not answer the listing: the usage is taken to be zero.
PortalBlind(u, v) ==
  /\ cache = NoList
  /\ Allowed(u, {})
  /\ Define(v)
  /\ vmTenant' = [vmTenant EXCEPT ![v] = userTenant[u]]
  /\ excused' = excused \union {userTenant[u]}
  /\ UNCHANGED <<state, quota, userTenant, listing>>

\* A VM made by another handler: create and clone invalidate the cache,
\* linked clones and deployed templates (told = FALSE) do not.
OtherCreate(v, told) ==
  /\ v \notin made
  /\ vms' = vms \union {v} /\ made' = made \union {v}
  /\ cache' = IF told THEN NoList ELSE cache
  /\ UNCHANGED <<file, listing, excused>>

\* delete_vm invalidates the cache, a bulk deletion does not.  Neither
\* takes the assignment of the VM away.
DeleteVm(v, told) ==
  /\ v \in vms
  /\ vms' = vms \ {v}
  /\ cache' = IF told THEN NoList ELSE cache
  /\ UNCHANGED <<file, made, listing, excused>>

\* Killed and restarted: the cache and the threads' lists are gone.
Crash ==
  /\ cache' = NoList
  /\ listing' = [l \in Listers |-> NoList]
  /\ UNCHANGED <<file, vms, made, excused>>

Next ==
  \/ \E t \in Tenant, q \in 0 .. MaxQuota : CreateTenant(t, q) \/ UpdateQuota(t, q)
  \/ \E t \in Tenant, force \in BOOLEAN : DeleteTenant(t, force)
  \/ \E u \in User, t \in Tenant : AssignUser(u, t)
  \/ \E u \in User : UnassignUser(u)
  \/ \E v \in Vm, t \in Tenant : AssignVm(v, t)
  \/ \E v \in Vm : UnassignVm(v)
  \/ \E l \in Listers : BeginList(l) \/ EndList(l) \/ ListRaises(l)
  \/ HandlerLists \/ Expire \/ Crash
  \/ \E u \in User, v \in Vm : PortalBlind(u, v)
  \/ \E u \in User, v \in Vm, saved \in BOOLEAN : PortalCreate(u, v, saved)
  \/ \E v \in Vm, told \in BOOLEAN : OtherCreate(v, told) \/ DeleteVm(v, told)

Spec == Init /\ [][Next]_vars

---------------------------------------------------------------------------
(* Properties.                                                             *)

\* The file, the hypervisor and the lists keep their types: a domain and
\* whatever a list names has been made (tenant_manager.py:40-71).
TypeOK ==
  /\ state \in [Tenant -> {"new", "live", "gone"}]
  /\ quota \in [Tenant -> 0 .. MaxQuota]
  /\ userTenant \in [User -> Tenant \union {None}]
  /\ vmTenant \in [Vm -> Tenant \union {None}]
  /\ made \subseteq Vm /\ vms \subseteq made
  /\ cache \in {NoList} \union SUBSET made
  /\ listing \in [Listers -> {NoList} \union SUBSET made]
  /\ excused \subseteq Tenant

\* No user and no VM is assigned to a tenant that does not exist, so that the
\* users of a deleted one cannot create for it (delete_tenant, the assignments
\* of VMs whether they exist or not, and request_vm_create, in any order).
NoDangling ==
  /\ \A u \in User : userTenant[u] \in Live \union {None}
  /\ \A v \in Vm : vmTenant[v] \in Live \union {None}

\* The quota is a hard one but for stale lists: however requests, deletions,
\* listings and restarts follow each other, a tenant whom no administrator
\* gave VMs or took quota from, and for whom libvirt always answered, has at
\* most one VM more than its quota for each thread that lists VMs beside the
\* hub (check_quota against the cache of list_vms).
OverByListers ==
  \A t \in Live \ excused : Usage(t) <= quota[t] + Cardinality(Listers)

=============================================================================
