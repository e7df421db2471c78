----------------------------- MODULE VmNetwork -----------------------------
(***************************************************************************)
(* The life of a VM's public address: the create, start, delete and        *)
(* nat-sync handlers of app.py, the document of ip_pool.py they write, the *)
(* DNAT rules of the host and the background thread                        *)
(* _post_install_nat_sync.                                                 *)
(*                                                                         *)
(* The web server is one eventlet hub without monkey patching: a handler   *)
(* runs to its end before the next one starts, so there is one hub and it  *)
(* is busy with at most one request.  The NAT threads are OS threads and   *)
(* interleave with it anywhere.  Every call of ip_pool.py is a load (step  *)
(* HubLoad) and a save (the action of the call); the thread loads and      *)
(* saves the same file without the lock.                                   *)
(*                                                                         *)
(* A VM is created at most once: its uuid and its MAC are fresh.           *)
(***************************************************************************)
EXTENDS Integers, FiniteSets, Bags

CONSTANTS
  Vms,          \* the VMs that are ever created
  PoolNames,    \* the pools, fixed here (IpPool has their operations)
  Bridged,      \* the pools whose libvirt network is bridged
  PublicIps,    \* the addresses of the pools
  InternalIps,  \* the addresses of the libvirt network "default"
  PoolRange,    \* [PoolNames -> SUBSET PublicIps]: disjoint ranges
  Resembles,    \* [PublicIps -> SUBSET PublicIps]: whose rules are matched as its own
  Formula,      \* [Vms -> InternalIps]: _mac_to_internal_ip of the VM's MAC
  Threads,      \* how many NAT threads run at once (bound)
  MaxStarts,    \* how often a VM is started (bound)
  MaxResyncs,   \* how many nat-sync requests there are (bound)
  Resynced,     \* the pools whose VMs they are made for
  Reliable,     \* does libvirt accept every reservation and every undefine?
  Crashes,      \* may the process be killed and restarted?
  Free, NoMac, NoIp, NoVm, NoThread, NoDoc, Torn

IPs        == PublicIps \cup InternalIps
Internal   == "__internal__"
PreId(v)   == <<"__pre__", v>>
MacOf(v)   == <<"mac", v>>
PreIds     == {PreId(v) : v \in Vms}
Macs       == {MacOf(v) : v \in Vms}
Entry      == [vm_id  : Vms \cup PreIds, mac : Macs \cup {NoMac},
               pool   : PoolNames \cup {Internal}, locked : BOOLEAN]
Docs       == [IPs -> Entry \cup {Free}]

ASSUME NetworkConstants ==
  /\ Bridged \cup Resynced \subseteq PoolNames
  /\ PublicIps \cap InternalIps = {}
  /\ PoolRange \in [PoolNames -> SUBSET PublicIps]
  /\ \A p, q \in PoolNames : p # q => PoolRange[p] \cap PoolRange[q] = {}
  /\ Resembles \in [PublicIps -> SUBSET PublicIps]
  /\ \A p \in PublicIps : p \in Resembles[p]
  /\ Formula \in [Vms -> InternalIps]
  /\ {Reliable, Crashes} \subseteq BOOLEAN
  /\ IPs \subseteq Nat /\ NoIp \notin IPs /\ NoMac \notin Macs /\ NoVm \notin Vms
  /\ Vms \cap (PreIds \cup Macs) = {} /\ Internal \notin PoolNames
  /\ Free \notin Entry /\ Torn \notin Docs /\ NoDoc \notin Docs
  /\ MaxStarts \in Nat /\ MaxResyncs \in Nat

VARIABLES
  doc,      \* "assignments" of ip_pool.json, or Torn
  hub,      \* what the hub is doing: the next step, and its locals
  hubDoc,   \* what the call under the lock has loaded, or NoDoc
  vms,      \* libvirt: is the VM "new", "off", "running" or "gone"
  public,   \* the address each VM was given (cloud-init, or DNATed to it)
  dhcp,     \* libvirt: the DHCP reservation of each VM
  arp,      \* the host's ARP table: the address a VM was seen with
  nat,      \* the bag of DNAT rules [from, to] of the host
  sync,     \* the NAT threads
  starts,   \* how often each VM was started
  resyncs   \* how many nat-sync requests there were

vars == <<doc, hub, hubDoc, vms, public, dhcp, arp, nat, sync, starts, resyncs>>

Calls == {"preAlloc", "undoPre", "dropPre", "claim", "allocate", "internal", "release",
          "releaseMac", "derive", "move"}
Idle  == [at |-> "idle", vm |-> NoVm, pool |-> NoVm, ip |-> NoIp, to |-> NoIp]
Rule(p, i) == [from |-> p, to |-> i]

TypeOK ==
  /\ doc \in Docs \cup {Torn}
  /\ hub \in [at : Calls \cup {"idle", "define", "nat", "lookup", "dismantle",
                             "recorded", "reserve", "resync"},
              vm : Vms \cup {NoVm}, pool : PoolNames \cup {NoVm},
              ip : IPs \cup {NoIp}, to : IPs \cup {NoIp}]
  /\ hubDoc \in Docs \cup {NoDoc}
  /\ vms \in [Vms -> {"new", "off", "running", "gone"}]
  /\ public \in [Vms -> PublicIps \cup {NoIp}]
  /\ dhcp \in [Vms -> InternalIps \cup {NoIp}]
  /\ arp \in [Vms -> IPs \cup {NoIp}]
  /\ IsABag(nat) /\ BagToSet(nat) \subseteq [from : IPs, to : IPs]
  /\ DOMAIN sync = Threads
  /\ starts \in [Vms -> 0 .. MaxStarts]
  /\ resyncs \in 0 .. MaxResyncs

-----------------------------------------------------------------------------
(* The document, as ip_pool.py changes it. *)

Available(d, p) == {ip \in PoolRange[p] : d[ip] = Free \/ d[ip].pool # p}

(* Mutant: only reservations, which have no MAC, count as used. *)
AllocatableMut(d, p) == {ip \in PoolRange[p] : d[ip] = Free \/ d[ip].mac # NoMac}

Allocatable(d, p) == Available(d, p)

Lowest(S) == CHOOSE ip \in S : \A other \in S : ip <= other

NewEntry(v, m, p) == [vm_id |-> v, mac |-> m, pool |-> p, locked |-> FALSE]

Assigned(d, ip, v, m, p) == [d EXCEPT ![ip] = NewEntry(v, m, p)]

Entries(d, v) == {ip \in IPs : d[ip] # Free /\ d[ip].vm_id = v}

(* Mutant: only the first entry of the VM is released. *)
ReleasedMut(d, v) ==
  [ip \in IPs |-> IF Entries(d, v) # {} /\ ip = Lowest(Entries(d, v)) THEN Free ELSE d[ip]]

Released(d, v) == [ip \in IPs |-> IF ip \in Entries(d, v) THEN Free ELSE d[ip]]

InternalOf(d, v) == {ip \in Entries(d, v) : d[ip].pool = Internal}

(* Mutant: the thread takes the VM's first entry, whatever its pool. *)
ToMoveMut(d, v) == Entries(d, v)

ToMove(d, v) == InternalOf(d, v)

(* Mutant: the entry is copied and the old one stays. *)
MovedKeepMut(d, old, new) == [d EXCEPT ![new] = d[old]]

Moved(d, old, new) == [d EXCEPT ![old] = Free, ![new] = d[old]]

-----------------------------------------------------------------------------
(* The DNAT rules. *)

Without(rules, gone) == [r \in DOMAIN rules \ gone |-> rules[r]]

(* Rules are found by searching the text "-d <address>" in the listing, so *)
(* an address also finds the rules of those that begin like it.            *)
OtherTargets(rules, p, i) ==
  {r \in DOMAIN rules : r.from \in Resembles[p] /\ r.to # i}

(* _setup_nat: drop the other targets of the address, append one rule.     *)
WithNat(rules, p, i) ==
  Without(rules, OtherTargets(rules, p, i)) (+) SetToBag({Rule(p, i)})

(* _remove_nat: "iptables -D" removes one matching rule.                   *)
LessNat(rules, p, i) == rules (-) SetToBag({Rule(p, i)})

-----------------------------------------------------------------------------
(* The hub. *)

FreeThreads == {t \in Threads : sync[t] = NoThread}

Spawn(v, p) ==
  LET t == CHOOSE t \in FreeThreads : TRUE
  IN  sync' = [sync EXCEPT ![t] =
        [at |-> "wait", vm |-> v, pub |-> p, ip |-> NoIp, snap |-> NoDoc]]

Goto(at)     == hub' = [hub EXCEPT !.at = at]
Done         == hub' = Idle
Host         == <<vms, public, dhcp, arp, nat, starts, resyncs>>

(* A load raises when the document is torn, or when a thread has truncated *)
(* it and not written it yet.                                              *)
Unloadable == doc = Torn \/ \E t \in Threads \ FreeThreads : sync[t].at = "save"

HubLoad ==
  /\ hub.at \in Calls /\ hubDoc = NoDoc /\ doc # Torn
  /\ hubDoc' = doc
  /\ UNCHANGED <<doc, hub, sync, Host>>

(* The handlers log the exception and go on, or end. *)
HubLoadFails ==
  /\ hub.at \in Calls /\ hubDoc = NoDoc /\ Unloadable
  /\ IF hub.at = "preAlloc" THEN Goto("define") ELSE Done
  /\ UNCHANGED <<doc, hubDoc, sync, Host>>

Save(d) == doc' = d /\ hubDoc' = NoDoc
Loaded(at) == hub.at = at /\ hubDoc # NoDoc

(* POST /api/vms with auto_ip and a pool. *)
Create(v, p) ==
  /\ hub = Idle /\ vms[v] = "new"
  /\ hub' = [Idle EXCEPT !.at = IF p \in Bridged THEN "preAlloc" ELSE "define",
                         !.vm = v, !.pool = p]
  /\ UNCHANGED <<doc, hubDoc, sync, Host>>

(* Mutant: the early allocation is not saved. *)
PreAllocateMut ==
  /\ Loaded("preAlloc")
  /\ LET ips == Allocatable(hubDoc, hub.pool)
     IN  hub' = [hub EXCEPT !.at = "define", !.ip = IF ips = {} THEN NoIp ELSE Lowest(ips)]
  /\ Save(doc)
  /\ UNCHANGED <<sync, Host>>

(* The early allocation of a bridged pool, for cloud-init. *)
PreAllocate ==
  /\ Loaded("preAlloc")
  /\ LET ips == Allocatable(hubDoc, hub.pool)
     IN  IF ips = {}
         THEN Goto("define") /\ Save(doc)
         ELSE /\ Save(Assigned(hubDoc, Lowest(ips), PreId(hub.vm), NoMac, hub.pool))
              /\ hub' = [hub EXCEPT !.at = "define", !.ip = Lowest(ips)]
  /\ UNCHANGED <<sync, Host>>

DefineVm ==
  /\ hub.at = "define"
  /\ vms' = [vms EXCEPT ![hub.vm] = "off"]
  /\ public' = [public EXCEPT ![hub.vm] = hub.ip]
  /\ Goto(IF hub.ip = NoIp THEN "allocate" ELSE "dropPre")
  /\ UNCHANGED <<doc, hubDoc, sync, dhcp, arp, nat, starts, resyncs>>

(* Mutant: the handler forgets the early allocation. *)
DefineFailsMut ==
  /\ hub.at = "define"
  /\ vms' = [vms EXCEPT ![hub.vm] = "gone"]
  /\ Done
  /\ UNCHANGED <<doc, hubDoc, sync, public, dhcp, arp, nat, starts, resyncs>>

(* create_vm raised: the uuid is never used again. *)
DefineFails ==
  /\ hub.at = "define"
  /\ vms' = [vms EXCEPT ![hub.vm] = "gone"]
  /\ IF hub.ip = NoIp THEN Done ELSE Goto("undoPre")
  /\ UNCHANGED <<doc, hubDoc, sync, public, dhcp, arp, nat, starts, resyncs>>

UndoPre ==
  /\ Loaded("undoPre")
  /\ Save(Released(hubDoc, PreId(hub.vm))) /\ Done
  /\ UNCHANGED <<sync, Host>>

DropPre ==
  /\ Loaded("dropPre")
  /\ Save(Released(hubDoc, PreId(hub.vm))) /\ Goto("claim")
  /\ UNCHANGED <<sync, Host>>

(* Mutant: the entry keeps the temporary vm_id. *)
ClaimMut ==
  /\ Loaded("claim")
  /\ Save(Assigned(hubDoc, hub.ip, PreId(hub.vm), MacOf(hub.vm), hub.pool)) /\ Done
  /\ UNCHANGED <<sync, Host>>

(* manual_assign of the address that cloud-init already holds. *)
Claim ==
  /\ Loaded("claim")
  /\ Save(Assigned(hubDoc, hub.ip, hub.vm, MacOf(hub.vm), hub.pool)) /\ Done
  /\ UNCHANGED <<sync, Host>>

(* allocate_ip after the VM exists; a bridged pool needs nothing more.     *)
Allocate ==
  /\ Loaded("allocate")
  /\ LET ips == Allocatable(hubDoc, hub.pool)
         ip  == Lowest(ips)
     IN  IF ips = {}
         THEN Done /\ Save(doc) /\ UNCHANGED public
         ELSE /\ Save(Assigned(hubDoc, ip, hub.vm, MacOf(hub.vm), hub.pool))
              /\ public' = [public EXCEPT ![hub.vm] = ip]
              /\ IF hub.pool \in Bridged THEN Done
                 ELSE hub' = [hub EXCEPT !.at = "nat", !.ip = ip]
  /\ UNCHANGED <<sync, vms, dhcp, arp, nat, starts, resyncs>>

(* add_dhcp_host, whose result is not looked at, and _setup_nat.           *)
SetUpNat ==
  /\ hub.at = "nat"
  /\ \E ok \in IF Reliable THEN {TRUE} ELSE BOOLEAN :
       dhcp' = [dhcp EXCEPT ![hub.vm] = IF ok THEN Formula[hub.vm] ELSE NoIp]
  /\ nat' = WithNat(nat, hub.ip, Formula[hub.vm])
  /\ Goto("internal")
  /\ UNCHANGED <<doc, hubDoc, sync, vms, public, arp, starts, resyncs>>

RecordInternal ==
  /\ Loaded("internal") /\ FreeThreads # {}
  /\ Save(Assigned(hubDoc, Formula[hub.vm], hub.vm, MacOf(hub.vm), Internal))
  /\ Spawn(hub.vm, hub.ip)
  /\ Done
  /\ UNCHANGED Host

(* POST /api/vms/<id>/start.  The VM comes up with its static address, the *)
(* reserved one, or some lease; an entry with a pool label gets a thread.  *)
Nic(v) ==
  IF public[v] # NoIp /\ \E p \in Bridged : public[v] \in PoolRange[p] THEN {public[v]}
  ELSE IF dhcp[v] # NoIp THEN {dhcp[v]}
  ELSE InternalIps \ {dhcp[w] : w \in Vms}

Labelled(v) ==
  IF doc = Torn THEN {}
  ELSE {ip \in IPs : doc[ip] # Free /\ doc[ip].mac = MacOf(v) /\ doc[ip].pool # Internal}

Start(v) ==
  /\ hub = Idle /\ vms[v] = "off" /\ starts[v] < MaxStarts
  /\ vms' = [vms EXCEPT ![v] = "running"]
  /\ starts' = [starts EXCEPT ![v] = @ + 1]
  /\ \E ip \in Nic(v) : arp' = [arp EXCEPT ![v] = ip]
  /\ \/ FreeThreads # {} /\ \E p \in Labelled(v) : Spawn(v, p)
     \/ /\ Unloadable \/ Labelled(v) = {}
        /\ UNCHANGED sync
  /\ UNCHANGED <<doc, hub, hubDoc, public, dhcp, nat, resyncs>>

(* DELETE /api/vms/<id>: one look at the document, then the host, then the *)
(* document.                                                               *)
Delete(v) ==
  /\ hub = Idle /\ vms[v] \in {"off", "running"}
  /\ hub' = [Idle EXCEPT !.at = "lookup", !.vm = v]
  /\ UNCHANGED <<doc, hubDoc, sync, Host>>

(* get_vm_assignment takes the first entry of the VM.  Which one that is    *)
(* depends on what else the document has held: any may be.                 *)
FirstOf(d, v) == IF Entries(d, v) = {} THEN {NoIp} ELSE Entries(d, v)

LookUp ==
  /\ hub.at = "lookup" /\ doc # Torn
  /\ \E ip \in FirstOf(doc, hub.vm) :
       hub' = [hub EXCEPT !.at = "dismantle", !.ip = ip]
  /\ UNCHANGED <<doc, hubDoc, sync, Host>>

LookUpFails ==
  /\ hub.at = "lookup" /\ Unloadable
  /\ Done
  /\ UNCHANGED <<doc, hubDoc, sync, Host>>

(* The recorded internal address, or the one the MAC stands for. *)
InternalFor(v) ==
  (IF doc = Torn THEN {} ELSE InternalOf(doc, v))
    \cup (IF Unloadable \/ InternalOf(doc, v) = {} THEN {Formula[v]} ELSE {})

(* remove_dhcp_host, _remove_nat and delete_vm, which may raise.           *)
Dismantle ==
  /\ hub.at = "dismantle"
  /\ IF hub.ip = NoIp THEN UNCHANGED <<dhcp, nat>>
     ELSE \E i \in InternalFor(hub.vm) :
            /\ \/ dhcp' = [dhcp EXCEPT ![hub.vm] = IF @ = i THEN NoIp ELSE @]
               \/ ~Reliable /\ UNCHANGED dhcp
            /\ nat' = IF hub.ip = i THEN nat ELSE LessNat(nat, hub.ip, i)
  /\ \/ vms' = [vms EXCEPT ![hub.vm] = "gone"] /\ Goto("release")
     \/ ~Reliable /\ UNCHANGED vms /\ Done
  /\ UNCHANGED <<doc, hubDoc, sync, public, arp, starts, resyncs>>

(* release_ip(vm_id), and when an entry told the MAC, release_ip(mac).     *)
Release ==
  /\ Loaded("release")
  /\ Save(Released(hubDoc, hub.vm))
  /\ IF hub.ip = NoIp THEN Done ELSE Goto("releaseMac")
  /\ UNCHANGED <<sync, Host>>

ReleaseMac ==
  /\ Loaded("releaseMac")
  /\ Save(Released(hubDoc, MacOf(hub.vm))) /\ Done
  /\ UNCHANGED <<sync, Host>>

Stop(v) ==
  /\ hub = Idle /\ vms[v] = "running"
  /\ vms' = [vms EXCEPT ![v] = "off"]
  /\ UNCHANGED <<doc, hub, hubDoc, sync, public, dhcp, arp, nat, starts, resyncs>>

(* Where nat-sync looks for a VM.  The ARP table forgets, leases expire,   *)
(* and what cannot be asked or read does not show it (external).           *)
Seen(v) == {arp[v], NoIp}

(* POST /api/vms/<id>/nat-sync: the address the VM was given, by its MAC,  *)
(* and the one the host sees it with, if the host sees it.                 *)
NatSync(v) ==
  /\ hub = Idle /\ vms[v] \in {"off", "running"} /\ resyncs < MaxResyncs
  /\ \E ip \in Labelled(v), seen \in Seen(v) :
       /\ doc[ip].pool \in Resynced
       /\ hub' = [Idle EXCEPT !.at = IF seen = NoIp THEN "recorded" ELSE "resync",
                              !.vm = v, !.ip = ip, !.to = seen]
  /\ resyncs' = resyncs + 1
  /\ UNCHANGED <<doc, hubDoc, sync, vms, public, dhcp, arp, nat, starts>>

(* Not seen: the internal address on record, if it can be read.            *)
TakeRecorded ==
  /\ hub.at = "recorded"
  /\ \/ /\ doc # Torn
        /\ \E i \in InternalOf(doc, hub.vm) :
             hub' = [hub EXCEPT !.at = "resync", !.to = i]
     \/ /\ Unloadable \/ InternalOf(doc, hub.vm) = {}
        /\ Goto("reserve")
  /\ UNCHANGED <<doc, hubDoc, sync, Host>>

(* None on record: reserve and record the one the MAC stands for, and ask  *)
(* for a restart of the VM.                                                *)
ReserveDerived ==
  /\ hub.at = "reserve"
  /\ \/ dhcp' = [dhcp EXCEPT ![hub.vm] = Formula[hub.vm]]
     \/ ~Reliable /\ UNCHANGED dhcp
  /\ Goto("derive")
  /\ UNCHANGED <<doc, hubDoc, sync, vms, public, arp, nat, starts, resyncs>>

RecordDerived ==
  /\ Loaded("derive")
  /\ Save(Assigned(hubDoc, Formula[hub.vm], hub.vm, MacOf(hub.vm), Internal)) /\ Done
  /\ UNCHANGED <<sync, Host>>

ResetNat ==
  /\ hub.at = "resync"
  /\ nat' = WithNat(nat, hub.ip, hub.to)
  /\ Goto("move")
  /\ UNCHANGED <<doc, hubDoc, sync, vms, public, dhcp, arp, starts, resyncs>>

(* The handler moves the internal entry as the thread does.                *)
MoveInternal ==
  /\ Loaded("move") /\ Done
  /\ \/ \E old \in ToMove(hubDoc, hub.vm) \ {hub.to} : Save(Moved(hubDoc, old, hub.to))
     \/ ToMove(hubDoc, hub.vm) \subseteq {hub.to} /\ Save(doc)
  /\ UNCHANGED <<sync, Host>>

Hub ==
  \/ \E v \in Vms : (\E p \in PoolNames : Create(v, p)) \/ Start(v) \/ Stop(v) \/ Delete(v)
                    \/ NatSync(v)
  \/ TakeRecorded \/ ReserveDerived \/ RecordDerived \/ ResetNat \/ MoveInternal
  \/ HubLoad \/ HubLoadFails
  \/ PreAllocate \/ DefineVm \/ DefineFails \/ UndoPre \/ DropPre \/ Claim
  \/ Allocate \/ SetUpNat \/ RecordInternal
  \/ LookUp \/ LookUpFails \/ Dismantle \/ Release \/ ReleaseMac

-----------------------------------------------------------------------------
(* A NAT thread: _post_install_nat_sync(vm, public address). *)

End(t)    == sync' = [sync EXCEPT ![t] = NoThread]
At(t, at) == sync[t] # NoThread /\ sync[t].at = at
Step(t, at) == sync' = [sync EXCEPT ![t].at = at]

SeeArp(t) ==
  /\ At(t, "wait") /\ arp[sync[t].vm] # NoIp
  /\ sync' = [sync EXCEPT ![t].at = "clean", ![t].ip = arp[sync[t].vm]]
  /\ UNCHANGED <<doc, hub, hubDoc, Host>>

(* Mutant: after fifteen minutes the thread goes on without an address. *)
GiveUpMut(t) ==
  /\ At(t, "wait") /\ Step(t, "clean")
  /\ UNCHANGED <<doc, hub, hubDoc, Host>>

(* Fifteen minutes without an ARP entry. *)
GiveUp(t) ==
  /\ At(t, "wait") /\ End(t)
  /\ UNCHANGED <<doc, hub, hubDoc, Host>>

CleanNat(t) ==
  /\ At(t, "clean") /\ Step(t, "add")
  /\ nat' = Without(nat, OtherTargets(nat, sync[t].pub, sync[t].ip))
  /\ UNCHANGED <<doc, hub, hubDoc, vms, public, dhcp, arp, starts, resyncs>>

AddNat(t) ==
  /\ At(t, "add") /\ Step(t, "load")
  /\ nat' = nat (+) SetToBag({Rule(sync[t].pub, sync[t].ip)})
  /\ UNCHANGED <<doc, hub, hubDoc, vms, public, dhcp, arp, starts, resyncs>>

(* Load the document: when the internal entry is elsewhere, move it.       *)
LoadDoc(t) ==
  /\ At(t, "load")
  /\ \/ /\ doc # Torn
        /\ \E old \in ToMove(doc, sync[t].vm) \ {sync[t].ip} :
             sync' = [sync EXCEPT ![t].at = "save",
                                  ![t].snap = Moved(doc, old, sync[t].ip)]
     \/ /\ doc = Torn \/ hubDoc # NoDoc \/ ToMove(doc, sync[t].vm) \subseteq {sync[t].ip}
        /\ End(t)
  /\ UNCHANGED <<doc, hub, hubDoc, Host>>

SaveDoc(t) ==
  /\ At(t, "save") /\ End(t)
  /\ doc' = sync[t].snap
  /\ UNCHANGED <<hub, hubDoc, Host>>

Thread ==
  \E t \in Threads :
    SeeArp(t) \/ GiveUp(t) \/ CleanNat(t) \/ AddNat(t) \/ LoadDoc(t) \/ SaveDoc(t)

(* The process is killed: the threads are gone, and a save under way may   *)
(* have truncated the file.  VMs and DNAT rules live on.                   *)
Crash ==
  /\ Crashes
  /\ hub' = Idle /\ hubDoc' = NoDoc
  /\ sync' = [t \in Threads |-> NoThread]
  /\ \/ UNCHANGED doc
     \/ /\ hubDoc # NoDoc \/ \E t \in Threads : At(t, "save")
        /\ doc' = Torn
  /\ UNCHANGED Host

Init ==
  /\ doc = [ip \in IPs |-> Free]
  /\ hub = Idle /\ hubDoc = NoDoc
  /\ vms = [v \in Vms |-> "new"]
  /\ public = [v \in Vms |-> NoIp]
  /\ dhcp = [v \in Vms |-> NoIp]
  /\ arp = [v \in Vms |-> NoIp]
  /\ nat = EmptyBag
  /\ sync = [t \in Threads |-> NoThread]
  /\ starts = [v \in Vms |-> 0]
  /\ resyncs = 0

Next == Hub \/ Thread \/ Crash

Spec == Init /\ [][Next]_vars

-----------------------------------------------------------------------------
(* Properties. *)

Exists(v) == vms[v] \in {"off", "running"}

(* No two existing VMs have the same public address, however creates and   *)
(* deletes, the failed ones among them, and the threads interleave         *)
(* (ip_pool.py:140, "allocate a free IP").                                 *)
PublicExclusive ==
  \A v, w \in Vms :
    v # w /\ Exists(v) /\ Exists(w) /\ public[v] # NoIp => public[v] # public[w]

(* When no request is running, the address of an existing VM is on record  *)
(* as that VM's: the document and the hypervisor agree, so nothing else    *)
(* can be given the address.                                               *)
OwnerRecorded ==
  hub = Idle /\ doc # Torn =>
    \A v \in Vms : Exists(v) /\ public[v] # NoIp =>
      doc[public[v]] # Free /\ doc[public[v]].vm_id = v

(* When no request is running, no temporary "__pre__" reservation is left, *)
(* also after a create that failed (app.py:1764-1772).                     *)
PreReservationsTransient ==
  hub = Idle /\ doc # Torn => \A v \in Vms : Entries(doc, PreId(v)) = {}

(* A VM that is gone holds no address, public or internal (app.py:1955,    *)
(* "clean up all IPAM records").                                           *)
DeletedHoldsNothing ==
  hub = Idle /\ doc # Torn => \A v \in Vms : vms[v] = "gone" => Entries(doc, v) = {}

(* What AddressBook sees.  A VM has the address it was given as long as it *)
(* exists; it is booked for the addresses that the document has as its own *)
(* or as its temporary reservation's, and for the one that its create has  *)
(* just dropped and is about to claim.                                     *)
Holder(entry) == CHOOSE v \in Vms : entry.vm_id \in {v, PreId(v)}

BookedFor(a) ==
  IF hub.at = "claim" /\ hub.ip = a THEN hub.vm
  ELSE IF doc[a] = Free THEN NoVm
  ELSE Holder(doc[a])

AddressOf(v) == IF Exists(v) THEN public[v] ELSE NoIp

AddressBook == INSTANCE AddressBook WITH
  Addresses <- PublicIps, Nobody <- NoVm, Nowhere <- NoIp,
  book <- [a \in PublicIps |-> BookedFor(a)], given <- [v \in Vms |-> AddressOf(v)]

(* The create and delete handlers implement AddressBook: a VM comes to an  *)
(* address only by a booking that nobody else had and keeps the booking as *)
(* long as it has the address, although the document has it free between   *)
(* the two saves of a create (app.py:1801-1805).                           *)
AddressesAreBooked == AddressBook!Spec

(* Every entry lies where its label says, also after the threads moved     *)
(* internal entries about: allocate_ip relies on it, for it looks only at  *)
(* the entries with the label of its pool (ip_pool.py:147).                *)
EntriesInPlace ==
  doc # Torn => \A ip \in IPs : doc[ip] # Free =>
    ip \in IF doc[ip].pool = Internal THEN InternalIps ELSE PoolRange[doc[ip].pool]

(* A VM has at most one internal address on record, and one more for each  *)
(* nat-sync request, whatever the threads wrote over each other: no move   *)
(* of a record by an old copy of the document doubles it, only a request   *)
(* that neither saw the VM nor found its record adds one (app.py:3203).    *)
(* The delete handler takes the first one it finds to be the target of the *)
(* DNAT rule (app.py:1927-1937).                                           *)
OneRecordPerSync ==
  doc # Torn => \A v \in Vms : Cardinality(InternalOf(doc, v)) <= 1 + resyncs
=============================================================================
