--------------------------- MODULE VmNetwork_proofs ---------------------------
(***************************************************************************)
(* Proofs about VmNetwork, for any sets of VMs, pools and addresses, any   *)
(* number of threads, starts and nat-sync requests.  The variables keep    *)
(* their types whatever happens.  With every refusal of libvirt and a kill *)
(* at any point, while nat-sync is not asked for VMs of bridged pools,     *)
(* every entry of the document lies where its label says, and a VM has at  *)
(* most one internal address on record and one more for each nat-sync.     *)
(* When besides libvirt refuses nothing and the process is not killed      *)
(* (Calm), a public address has one VM, the document says which, and       *)
(* VmNetwork implements AddressBook.                                       *)
(***************************************************************************)
EXTENDS VmNetwork, FiniteSetTheorems, WellFoundedInduction, TLAPS

(* An address of a bridged pool. *)
OnBridge(a) == \E p \in Bridged : a \in PoolRange[p]

Place(label) == IF label = Internal THEN InternalIps ELSE PoolRange[label]

(* An entry of a VM is made after the VM was given its address (pub), only *)
(* a VM behind NAT has an internal one, and that one stays where the       *)
(* create put it until the host sees the VM (seen).                        *)
EntryOk(pub, seen, ip, e) ==
  /\ ip \in Place(e.pool)
  /\ e.mac \in {NoMac, MacOf(e.vm_id)}
  /\ e.vm_id \in Vms =>
       /\ pub[e.vm_id] # NoIp
       /\ OnBridge(pub[e.vm_id]) => e.pool \in Bridged
       /\ e.pool = Internal /\ seen[e.vm_id] = NoIp => ip = Formula[e.vm_id]

Sound(pub, seen, d) ==
  /\ d \in Docs
  /\ \A ip \in IPs : d[ip] # Free => EntryOk(pub, seen, ip, d[ip])

(* The document, and the copies that a handler or a thread may write back. *)
CopiesSound ==
  /\ doc # Torn => Sound(public, arp, doc)
  /\ hubDoc # NoDoc => Sound(public, arp, hubDoc)
  /\ \A t \in Threads : At(t, "save") => Sound(public, arp, sync[t].snap)

HubState ==
  [at : Calls \cup {"idle", "define", "nat", "lookup", "dismantle", "recorded", "reserve", "resync"},
   vm : Vms \cup {NoVm}, pool : PoolNames \cup {NoVm}, ip : IPs \cup {NoIp}, to : IPs \cup {NoIp}]

VmsOk ==
  \A v \in Vms :
    /\ vms[v] = "new" => public[v] = NoIp /\ arp[v] = NoIp
    /\ arp[v] \in InternalIps \cup {NoIp} \/ OnBridge(public[v])

(* The steps of a handler at work on a VM behind NAT, and those of a create *)
(* among them: the host has not seen that VM yet.                          *)
Natted(v) == public[v] # NoIp /\ ~OnBridge(public[v])
Natting   == {"nat", "internal", "recorded", "reserve", "derive"}
Creating  == {"nat", "internal"}

HubOk ==
  /\ hub.at # "idle" => hub.vm \in Vms
  /\ hub.at \in {"preAlloc", "define"} => vms[hub.vm] = "new"
  /\ hub.at = "preAlloc" => hub.pool \in Bridged /\ hub.ip = NoIp
  /\ hub.at = "define" =>
       /\ hub.pool \in PoolNames
       /\ hub.ip # NoIp => hub.pool \in Bridged /\ hub.ip \in PoolRange[hub.pool]
  /\ hub.at \in {"dropPre", "claim"} =>
       hub.pool \in Bridged /\ hub.ip \in PoolRange[hub.pool] /\ public[hub.vm] = hub.ip
  /\ hub.at = "undoPre" => public[hub.vm] = NoIp
  /\ hub.at = "allocate" => /\ hub.pool \in PoolNames /\ vms[hub.vm] # "new"
                            /\ public[hub.vm] = NoIp /\ arp[hub.vm] = NoIp
  /\ hub.at \in Natting => hub.ip \in PublicIps /\ Natted(hub.vm)
  /\ hub.at \in Creating => arp[hub.vm] = NoIp
  /\ hub.at \in {"resync", "move"} =>
       /\ hub.ip \in PublicIps /\ Natted(hub.vm) /\ hub.to \in InternalIps
       /\ arp[hub.vm] = NoIp => hub.to = Formula[hub.vm]

ThreadState ==
  [at : {"wait", "clean", "add", "load", "save"}, vm : Vms, pub : IPs,
   ip : IPs \cup {NoIp}, snap : Docs \cup {NoDoc}]

ThreadOk(t) ==
  /\ sync[t] \in ThreadState
  /\ sync[t].at # "wait" => /\ sync[t].ip \in InternalIps \/ OnBridge(public[sync[t].vm])
                            /\ sync[t].ip \in IPs /\ arp[sync[t].vm] # NoIp

ThreadsOk == \A t \in Threads : sync[t] # NoThread => ThreadOk(t)

NetInv == TypeOK /\ CopiesSound /\ VmsOk /\ HubOk /\ ThreadsOk

-----------------------------------------------------------------------------
(* The document. *)

(* A non-empty set of addresses has a lowest one. *)
LEMMA LowestIn ==
  ASSUME NEW S \in SUBSET Nat, S # {}
  PROVE  Lowest(S) \in S /\ \A ip \in S : Lowest(S) <= ip
<1>1. PICK x \in S : \A y \in S : ~(<<y, x>> \in OpToRel(<, Nat))
  BY NatLessThanWellFounded, WFMin, Zenon
<1>2. \A y \in S : y \in Nat /\ x \in Nat => ~(y < x)
  BY <1>1, Zenon DEF OpToRel
<1>3. \A y \in S : x <= y
  BY <1>2
<1> QED  BY <1>3 DEF Lowest

LEMMA Ranges ==
  /\ \A p \in PoolNames : PoolRange[p] \subseteq PublicIps
  /\ PublicIps \subseteq IPs /\ InternalIps \subseteq IPs /\ NoIp \notin IPs
  /\ IPs \subseteq Nat
  /\ \A a \in InternalIps \cup {NoIp} : ~OnBridge(a)
  /\ \A p \in PoolNames \ Bridged : \A a \in PoolRange[p] : ~OnBridge(a)
BY NetworkConstants DEF IPs, OnBridge

(* The document stays sound when VMs are given addresses and are seen.     *)
LEMMA SoundLater ==
  ASSUME NEW pub, NEW seen, NEW pub2, NEW seen2, NEW d, Sound(pub, seen, d),
         \A v \in Vms : pub[v] # NoIp => pub2[v] = pub[v],
         \A v \in Vms : seen2[v] = NoIp => seen[v] = NoIp
  PROVE  Sound(pub2, seen2, d)
BY DEF Sound, EntryOk

(* Assigned: the new entry in the place of the old.                        *)
LEMMA SoundAssigned ==
  ASSUME NEW pub, NEW seen, NEW d, Sound(pub, seen, d),
         NEW ip \in IPs, NEW v \in Vms \cup PreIds, NEW m \in Macs \cup {NoMac},
         NEW p \in PoolNames \cup {Internal},
         EntryOk(pub, seen, ip, NewEntry(v, m, p))
  PROVE  Sound(pub, seen, Assigned(d, ip, v, m, p))
<1> DEFINE e == NewEntry(v, m, p)
           d2 == Assigned(d, ip, v, m, p)
<1>1. e \in Entry /\ e.vm_id = v /\ e.pool = p
  BY DEF NewEntry, Entry
<1>2. d2 \in Docs /\ d2[ip] = e /\ \A i \in IPs : i # ip => d2[i] = d[i]
  BY <1>1 DEF Assigned, Docs, Sound
<1>3. \A i \in IPs : d2[i] # Free => EntryOk(pub, seen, i, d2[i])
  BY <1>2 DEF Sound
<1> QED  BY <1>2, <1>3 DEF Sound

LEMMA SoundReleased ==
  ASSUME NEW pub, NEW seen, NEW d, Sound(pub, seen, d), NEW v
  PROVE  Sound(pub, seen, Released(d, v))
<1> DEFINE d2 == Released(d, v)
<1>1. d2 \in Docs /\ \A ip \in IPs : d2[ip] = Free \/ d2[ip] = d[ip]
  BY DEF Released, Docs, Sound
<1> QED  BY <1>1 DEF Sound

(* Moved: the internal entry of a VM goes to another internal address.     *)
LEMMA SoundMoved ==
  ASSUME NEW pub, NEW seen, NEW d, Sound(pub, seen, d), NEW v \in Vms,
         NEW old \in InternalOf(d, v), NEW new \in InternalIps,
         seen[v] = NoIp => new = Formula[v]
  PROVE  Sound(pub, seen, Moved(d, old, new))
<1> DEFINE d2 == Moved(d, old, new)
           e == d[old]
<1>1. old \in IPs /\ new \in IPs /\ e # Free /\ e.vm_id = v /\ e.pool = Internal /\ e \in Entry
  BY Ranges DEF InternalOf, Entries, Sound, Docs
<1>2. /\ d2 \in Docs /\ d2[new] = e
      /\ \A i \in IPs : i # new => d2[i] = d[i] \/ d2[i] = Free
      /\ old # new => d2[old] = Free
  BY <1>1 DEF Moved, Docs, Sound
<1>3. EntryOk(pub, seen, new, e)
  BY <1>1 DEF Sound, EntryOk, Place
<1>4. \A i \in IPs : d2[i] # Free => EntryOk(pub, seen, i, d2[i])
  BY <1>2, <1>3 DEF Sound
<1> QED  BY <1>2, <1>4 DEF Sound

(* A handler takes the lowest address that is free for the pool.           *)
LEMMA AllocatesInRange ==
  ASSUME NEW d, NEW p \in PoolNames, Allocatable(d, p) # {}
  PROVE  Lowest(Allocatable(d, p)) \in PoolRange[p]
<1>1. Allocatable(d, p) \subseteq PoolRange[p]
  BY DEF Allocatable, Available
<1>2. Allocatable(d, p) \in SUBSET Nat
  BY <1>1, Ranges
<1> QED  BY <1>1, <1>2, LowestIn

-----------------------------------------------------------------------------
(* The DNAT rules. *)

RuleBag(rules) == IsABag(rules) /\ BagToSet(rules) \subseteq [from : IPs, to : IPs]

LEMMA RulesWithout == ASSUME NEW rules, RuleBag(rules), NEW gone PROVE RuleBag(Without(rules, gone))
BY DEF RuleBag, Without, IsABag, BagToSet

LEMMA RulesPlus ==
  ASSUME NEW rules, RuleBag(rules), NEW p \in IPs, NEW i \in IPs
  PROVE  RuleBag(rules (+) SetToBag({Rule(p, i)}))
<1>1. Rule(p, i) \in [from : IPs, to : IPs]
  BY DEF Rule
<1> DEFINE r == Rule(p, i)
           more == rules (+) SetToBag({r})
<1> HIDE DEF r
<1>2. DOMAIN more = DOMAIN rules \cup {r}
  BY DEF (+), SetToBag, more
<1>3. \A e \in DOMAIN more : more[e] = (IF e \in DOMAIN rules THEN rules[e] ELSE 0)
                                       + (IF e \in {r} THEN 1 ELSE 0)
  BY DEF (+), SetToBag, more
<1>4. \A e \in DOMAIN more : more[e] \in Nat /\ more[e] > 0
  BY <1>2, <1>3 DEF RuleBag, IsABag
<1>5. more = [e \in DOMAIN more |-> more[e]]
  BY DEF (+), more
<1> QED  BY <1>1, <1>2, <1>4, <1>5 DEF RuleBag, IsABag, BagToSet, r

LEMMA RulesWithNat ==
  ASSUME NEW rules, RuleBag(rules), NEW p \in IPs, NEW i \in IPs
  PROVE  RuleBag(WithNat(rules, p, i))
BY RulesWithout, RulesPlus DEF WithNat

LEMMA RulesLess ==
  ASSUME NEW rules, RuleBag(rules), NEW p, NEW i
  PROVE  RuleBag(LessNat(rules, p, i))
<1> DEFINE r == Rule(p, i)
           b == [e \in DOMAIN rules |-> IF e \in {r} THEN rules[e] - 1 ELSE rules[e]]
           rest == [e \in {d \in DOMAIN b : b[d] > 0} |-> b[e]]
<1> HIDE DEF r
<1>1. LessNat(rules, p, i) = rest
  BY DEF LessNat, (-), SetToBag, r
<1>2. \A e \in DOMAIN rest : e \in DOMAIN rules /\ rest[e] \in Nat /\ rest[e] > 0
  BY DEF RuleBag, IsABag
<1> QED  BY <1>1, <1>2 DEF RuleBag, IsABag, BagToSet

-----------------------------------------------------------------------------
(* One step at a time. *)

LEMMA CopiesKept ==
  ASSUME CopiesSound,
         \A v \in Vms : public[v] # NoIp => public'[v] = public[v],
         \A v \in Vms : arp'[v] = NoIp => arp[v] = NoIp,
         doc' \in {doc, Torn} \/ Sound(public', arp', doc'),
         hubDoc' \in {hubDoc, NoDoc} \/ (doc # Torn /\ hubDoc' = doc),
         \A t \in Threads : At(t, "save")' =>
           \/ At(t, "save") /\ sync'[t].snap = sync[t].snap
           \/ Sound(public', arp', sync'[t].snap)
  PROVE  CopiesSound'
<1>1. \A d : Sound(public, arp, d) => Sound(public', arp', d)
  BY SoundLater
<1>2. doc' # Torn => Sound(public', arp', doc')
  BY <1>1 DEF CopiesSound
<1>3. hubDoc' # NoDoc => Sound(public', arp', hubDoc')
  BY <1>1 DEF CopiesSound
<1>4. ASSUME NEW t \in Threads, At(t, "save")' PROVE Sound(public', arp', sync'[t].snap)
  BY <1>1, <1>4 DEF CopiesSound
<1> QED  BY <1>2, <1>3, <1>4 DEF CopiesSound

(* Steps of the hub that only the document and the hub notice.             *)
LEMMA HubStep ==
  ASSUME NetInv, UNCHANGED <<sync, Host>>,
         hub' \in HubState,
         HubOk',
         doc' \in {doc, Torn} \/ Sound(public, arp, doc'),
         hubDoc' \in {hubDoc, NoDoc} \/ (doc # Torn /\ hubDoc' = doc)
  PROVE  NetInv'
<1>1. CopiesSound'
  BY CopiesKept DEF NetInv, Host, At
<1>2. TypeOK'
  BY <1>1 DEF NetInv, Host, TypeOK, HubState, Sound, CopiesSound
<1>3. VmsOk' /\ ThreadsOk'
  BY DEF NetInv, Host, VmsOk, ThreadsOk, ThreadOk
<1> QED  BY <1>1, <1>2, <1>3 DEF NetInv

LEMMA IdleHub ==
  /\ HubOk /\ hub' = Idle => HubOk'
  /\ Idle \in HubState
BY DEF HubOk, HubState, Idle, Natting, Creating

LEMMA CallStart ==
  ASSUME NetInv, HubLoad \/ HubLoadFails
  PROVE  NetInv'
<1>1. hub' \in {hub, Idle} \/ (hub.at = "preAlloc" /\ hub' = [hub EXCEPT !.at = "define"])
  BY DEF HubLoad, HubLoadFails, Goto, Done
<1>2. UNCHANGED <<sync, Host, doc>> /\ (hubDoc' = hubDoc \/ (doc # Torn /\ hubDoc' = doc))
  BY DEF HubLoad, HubLoadFails
<1>3. HubOk'
  <2>1. CASE hub' = hub
    BY <1>2, <2>1 DEF NetInv, HubOk, Host, Natted, Natting, Creating
  <2>2. CASE hub' = Idle
    BY <2>2, IdleHub DEF NetInv
  <2>3. CASE hub.at = "preAlloc" /\ hub' = [hub EXCEPT !.at = "define"]
    BY <1>2, <2>3, NetworkConstants DEF NetInv, TypeOK, HubOk, Host, Natting, Creating
  <2> QED  BY <1>1, <2>1, <2>2, <2>3
<1>4. hub' \in HubState
  BY <1>1, IdleHub DEF NetInv, TypeOK, HubState
<1> QED  BY <1>2, <1>3, <1>4, HubStep

(* The parts of the hub in a call that has loaded the document.            *)
LEMMA InCall ==
  ASSUME NetInv, NEW at, Loaded(at), at # "idle"
  PROVE  /\ Sound(public, arp, hubDoc) /\ hub.at = at /\ hub.vm \in Vms /\ hub \in HubState
         /\ MacOf(hub.vm) \in Macs
BY DEF NetInv, Loaded, CopiesSound, HubOk, TypeOK, HubState, Macs

(* The calls that release a reservation or the VM's addresses.             *)
LEMMA CallReleases ==
  ASSUME NetInv, UndoPre \/ DropPre \/ Release \/ ReleaseMac
  PROVE  NetInv'
<1>1. PICK v : doc' = Released(hubDoc, v)
  BY DEF UndoPre, DropPre, Release, ReleaseMac, Save
<1>2. Sound(public, arp, doc') /\ hubDoc' = NoDoc /\ UNCHANGED <<sync, Host>>
  BY <1>1, InCall, SoundReleased DEF UndoPre, DropPre, Release, ReleaseMac, Save
<1>3. HubOk' /\ hub' \in HubState
  <2>1. CASE hub' = Idle
    BY <2>1, IdleHub DEF NetInv
  <2>2. CASE DropPre
    BY <1>2, <2>2, InCall DEF NetInv, HubOk, HubState, DropPre, Goto, Natting, Creating, Host, Loaded, Calls
  <2>3. CASE Release /\ hub' = [hub EXCEPT !.at = "releaseMac"]
    BY <1>2, <2>3, InCall DEF NetInv, HubOk, HubState, Release, Natting, Creating, Host, Loaded, Calls
  <2> QED  BY <2>1, <2>2, <2>3 DEF UndoPre, Release, ReleaseMac, Goto, Done
<1> QED  BY <1>2, <1>3, HubStep

LEMMA CallClaims == ASSUME NetInv, Claim PROVE NetInv'
<1>1. /\ Sound(public, arp, hubDoc) /\ hub.vm \in Vms /\ MacOf(hub.vm) \in Macs
      /\ hub.pool \in Bridged /\ hub.ip \in PoolRange[hub.pool] /\ public[hub.vm] = hub.ip
  BY InCall DEF NetInv, HubOk, Claim, Loaded
<1>2. /\ hub.pool \in PoolNames /\ hub.pool # Internal /\ hub.ip \in IPs /\ hub.ip # NoIp
      /\ hub.vm \notin PreIds
  BY <1>1, Ranges, NetworkConstants
<1>3. EntryOk(public, arp, hub.ip, NewEntry(hub.vm, MacOf(hub.vm), hub.pool))
  BY <1>1, <1>2 DEF EntryOk, NewEntry, Place
<1>4. Sound(public, arp, doc')
  BY <1>1, <1>2, <1>3, SoundAssigned DEF Claim, Save
<1> QED  BY <1>4, IdleHub, HubStep DEF Claim, Save, Done, NetInv

LEMMA CallPreAllocates == ASSUME NetInv, PreAllocate PROVE NetInv'
<1> DEFINE ips == Allocatable(hubDoc, hub.pool)
<1>1. /\ Sound(public, arp, hubDoc) /\ hub.vm \in Vms /\ hub \in HubState /\ hub.at = "preAlloc"
      /\ hub.pool \in Bridged /\ hub.ip = NoIp /\ vms[hub.vm] = "new" /\ UNCHANGED <<sync, Host>>
  BY InCall DEF NetInv, HubOk, PreAllocate, Loaded
<1>2. hub.pool \in PoolNames /\ hub.pool # Internal
  BY <1>1, NetworkConstants
<1>3. CASE ips = {}
  <2>1. HubOk' /\ hub' \in HubState /\ doc' = doc /\ hubDoc' = NoDoc
    BY <1>1, <1>2, <1>3 DEF PreAllocate, Goto, Save, HubOk, HubState, Natting, Creating, Host, Calls
  <2> QED  BY <1>1, <2>1, HubStep
<1>4. CASE ips # {}
  <2> DEFINE ip == Lowest(ips)
  <2>1. ip \in PoolRange[hub.pool] /\ ip \in IPs
    BY <1>2, <1>4, AllocatesInRange, Ranges
  <2>2. /\ doc' = Assigned(hubDoc, ip, PreId(hub.vm), NoMac, hub.pool) /\ hubDoc' = NoDoc
        /\ hub' = [hub EXCEPT !.at = "define", !.ip = ip]
    BY <1>4 DEF PreAllocate, Save
  <2>3. PreId(hub.vm) \in PreIds /\ PreId(hub.vm) \notin Vms
    BY <1>1, NetworkConstants DEF PreIds
  <2> HIDE DEF ip
  <2>4. EntryOk(public, arp, ip, NewEntry(PreId(hub.vm), NoMac, hub.pool))
    BY <1>2, <2>1, <2>3 DEF EntryOk, NewEntry, Place
  <2>5. Sound(public, arp, doc')
    BY <1>1, <1>2, <2>1, <2>2, <2>3, <2>4, SoundAssigned
  <2>6. HubOk' /\ hub' \in HubState
    BY <1>1, <1>2, <2>1, <2>2 DEF HubOk, HubState, Natting, Creating, Host, Calls
  <2> QED  BY <1>1, <2>2, <2>5, <2>6, HubStep
<1> QED  BY <1>3, <1>4

(* The two calls that record the internal address of a VM.                 *)
LEMMA InternalRecorded ==
  ASSUME NetInv, hub.at \in {"internal", "derive"}, hubDoc # NoDoc
  PROVE  Sound(public, arp, Assigned(hubDoc, Formula[hub.vm], hub.vm, MacOf(hub.vm), Internal))
<1>1. /\ Sound(public, arp, hubDoc) /\ hub.vm \in Vms /\ MacOf(hub.vm) \in Macs
      /\ Natted(hub.vm)
  BY DEF NetInv, CopiesSound, HubOk, Natting, Macs
<1>2. Formula[hub.vm] \in InternalIps /\ Formula[hub.vm] \in IPs
  BY <1>1, NetworkConstants, Ranges
<1>3. EntryOk(public, arp, Formula[hub.vm], NewEntry(hub.vm, MacOf(hub.vm), Internal))
  BY <1>1, <1>2 DEF EntryOk, NewEntry, Place, Natted
<1> QED  BY <1>1, <1>2, <1>3, SoundAssigned

LEMMA CallDerives == ASSUME NetInv, RecordDerived PROVE NetInv'
<1>1. Sound(public, arp, doc')
  BY InternalRecorded DEF RecordDerived, Loaded, Save
<1> QED  BY <1>1, IdleHub, HubStep DEF RecordDerived, Save, Done, NetInv

LEMMA CallMoves == ASSUME NetInv, MoveInternal PROVE NetInv'
<1>1. /\ Sound(public, arp, hubDoc) /\ hub.vm \in Vms /\ hub.to \in InternalIps
      /\ arp[hub.vm] = NoIp => hub.to = Formula[hub.vm]
  BY InCall DEF NetInv, HubOk, MoveInternal, Loaded
<1>2. doc' = doc \/ Sound(public, arp, doc')
  BY <1>1, SoundMoved DEF MoveInternal, Save, ToMove
<1>3. hubDoc' = NoDoc /\ UNCHANGED <<sync, Host>> /\ hub' = Idle
  BY DEF MoveInternal, Save, Done
<1> QED  BY <1>2, <1>3, IdleHub, HubStep DEF NetInv

-----------------------------------------------------------------------------
(* Steps of the hub that libvirt and the host notice too. *)

LEMMA HostStep ==
  ASSUME NetInv, UNCHANGED <<doc, hubDoc, sync, public, arp, starts>>,
         hub' \in HubState, HubOk',
         \A v \in Vms : vms'[v] = vms[v] \/ vms'[v] # "new",
         vms' \in [Vms -> {"new", "off", "running", "gone"}],
         dhcp' \in [Vms -> InternalIps \cup {NoIp}],
         RuleBag(nat'), resyncs' \in 0 .. MaxResyncs
  PROVE  NetInv'
<1>1. CopiesSound'
  BY CopiesKept DEF NetInv, At
<1>2. TypeOK'
  BY DEF NetInv, TypeOK, HubState, RuleBag
<1>3. VmsOk' /\ ThreadsOk'
  BY DEF NetInv, VmsOk, ThreadsOk, ThreadOk
<1> QED  BY <1>1, <1>2, <1>3 DEF NetInv

LEMMA HostTypes ==
  ASSUME NetInv
  PROVE  /\ vms \in [Vms -> {"new", "off", "running", "gone"}]
         /\ dhcp \in [Vms -> InternalIps \cup {NoIp}] /\ RuleBag(nat)
         /\ resyncs \in 0 .. MaxResyncs /\ hub \in HubState
         /\ Formula \in [Vms -> InternalIps]
BY NetworkConstants DEF NetInv, TypeOK, HubState, RuleBag

LEMMA Requests ==
  ASSUME NetInv, NEW v \in Vms,
         (\E p \in PoolNames : Create(v, p)) \/ Delete(v) \/ Stop(v)
  PROVE  NetInv'
<1>1. CASE \E p \in PoolNames : Create(v, p)
  <2>1. hub' \in HubState /\ HubOk'
    BY <1>1 DEF Create, Idle, HubState, HubOk, Host, Natting, Creating, Calls
  <2> QED  BY <1>1, <2>1, HubStep DEF Create
<1>2. CASE Delete(v)
  <2>1. hub' \in HubState /\ HubOk'
    BY <1>2 DEF Delete, Idle, HubState, HubOk, Natting, Creating, Calls
  <2> QED  BY <1>2, <2>1, HubStep DEF Delete
<1>3. CASE Stop(v)
  <2>1. HubOk'
    BY <1>3 DEF Stop, Idle, HubOk, Natting, Creating
  <2>2. vms' \in [Vms -> {"new", "off", "running", "gone"}] /\ \A u \in Vms : vms'[u] = vms[u] \/ vms'[u] # "new"
    BY <1>3, HostTypes DEF Stop
  <2> QED  BY <1>3, <2>1, <2>2, HostTypes, HostStep DEF Stop
<1> QED  BY <1>1, <1>2, <1>3

(* A nat-sync for a VM of a pool that is not bridged: its entry tells that *)
(* the VM is behind NAT.                                                   *)
LEMMA SyncRequest ==
  ASSUME NetInv, Resynced \cap Bridged = {}, NEW v \in Vms, NatSync(v)
  PROVE  NetInv'
<1>1. PICK ip \in Labelled(v), seen \in Seen(v) :
        /\ doc[ip].pool \in Resynced
        /\ hub' = [Idle EXCEPT !.at = IF seen = NoIp THEN "recorded" ELSE "resync",
                               !.vm = v, !.ip = ip, !.to = seen]
  BY DEF NatSync
<1>2. /\ doc # Torn /\ ip \in IPs /\ doc[ip] # Free /\ doc[ip].mac = MacOf(v)
      /\ doc[ip].pool \in PoolNames \ Bridged /\ doc[ip].pool # Internal
  BY <1>1, NetworkConstants DEF Labelled
<1>3. EntryOk(public, arp, ip, doc[ip])
  BY <1>2 DEF NetInv, CopiesSound, Sound
<1>4. ip \in PublicIps
  BY <1>2, <1>3, Ranges DEF EntryOk, Place
<1>5. doc[ip].vm_id = v
  BY <1>2, <1>3, NetworkConstants DEF EntryOk, MacOf, Macs
<1>6. Natted(v)
  BY <1>2, <1>3, <1>5 DEF EntryOk, Natted
<1>7. arp[v] \in InternalIps \cup {NoIp}
  BY <1>6 DEF NetInv, VmsOk, Natted
<1>8. seen \in InternalIps \cup {NoIp} /\ (seen # NoIp => arp[v] # NoIp)
  BY <1>7 DEF Seen
<1>9. HubOk' /\ hub' \in HubState
  BY <1>1, <1>2, <1>4, <1>6, <1>8, Ranges
     DEF NatSync, Idle, HubOk, HubState, Natting, Creating, Natted, Calls
<1>10. resyncs' \in 0 .. MaxResyncs
  BY HostTypes, NetworkConstants DEF NatSync
<1> QED  BY <1>9, <1>10, HostTypes, HostStep DEF NatSync

LEMMA Lookups ==
  ASSUME NetInv, LookUp \/ LookUpFails \/ TakeRecorded
  PROVE  NetInv'
<1>1. CASE LookUp
  <2>1. PICK ip \in IPs \cup {NoIp} : hub' = [hub EXCEPT !.at = "dismantle", !.ip = ip]
    BY <1>1 DEF LookUp, FirstOf, Entries
  <2>2. HubOk' /\ hub' \in HubState
    BY <1>1, <2>1, HostTypes DEF LookUp, NetInv, HubOk, HubState, Natting, Creating, Calls
  <2> QED  BY <1>1, <2>2, HubStep DEF LookUp
<1>2. CASE LookUpFails
  BY <1>2, IdleHub, HubStep DEF LookUpFails, Done, NetInv
<1>3. CASE TakeRecorded
  <2>1. ASSUME NEW i \in InternalOf(doc, hub.vm), doc # Torn
        PROVE  i \in InternalIps /\ (arp[hub.vm] = NoIp => i = Formula[hub.vm])
    <3>1. EntryOk(public, arp, i, doc[i]) /\ doc[i].pool = Internal /\ doc[i].vm_id = hub.vm
      BY <2>1 DEF NetInv, CopiesSound, Sound, InternalOf, Entries
    <3>2. hub.vm \in Vms
      BY <1>3 DEF TakeRecorded, NetInv, HubOk
    <3> QED  BY <3>1, <3>2 DEF EntryOk, Place
  <2>2. HubOk' /\ hub' \in HubState
    <3>1. CASE hub' = [hub EXCEPT !.at = "reserve"]
      BY <1>3, <3>1, HostTypes DEF TakeRecorded, NetInv, HubOk, HubState, Natting, Creating, Host, Natted, Calls
    <3>2. ASSUME NEW i \in InternalOf(doc, hub.vm), doc # Torn,
                 hub' = [hub EXCEPT !.at = "resync", !.to = i]
          PROVE  HubOk' /\ hub' \in HubState
      BY <1>3, <2>1, <3>2, HostTypes, Ranges DEF TakeRecorded, NetInv, HubOk, HubState, Natting, Creating, Host, Natted, Calls
    <3> QED  BY <1>3, <3>1, <3>2 DEF TakeRecorded, Goto
  <2> QED  BY <1>3, <2>2, HubStep DEF TakeRecorded
<1> QED  BY <1>1, <1>2, <1>3

LEMMA HostCommands ==
  ASSUME NetInv, SetUpNat \/ ReserveDerived \/ ResetNat \/ Dismantle \/ DefineFails
  PROVE  NetInv'
<1>0. hub \in HubState /\ (hub.at # "idle" => hub.vm \in Vms)
  BY HostTypes DEF NetInv, HubOk
<1>1. CASE SetUpNat
  <2>1. hub.vm \in Vms /\ hub.ip \in IPs /\ Formula[hub.vm] \in IPs /\ Formula[hub.vm] \in InternalIps
    BY <1>0, <1>1, HostTypes, Ranges DEF SetUpNat, NetInv, HubOk, Natting, Creating
  <2>2. dhcp' \in [Vms -> InternalIps \cup {NoIp}] /\ RuleBag(nat')
    BY <1>1, <2>1, HostTypes, RulesWithNat DEF SetUpNat
  <2>3. HubOk' /\ hub' \in HubState
    BY <1>0, <1>1 DEF SetUpNat, Goto, NetInv, HubOk, HubState, Natting, Creating, Natted, Calls
  <2> QED  BY <1>1, <2>2, <2>3, HostTypes, HostStep DEF SetUpNat
<1>2. CASE ReserveDerived
  <2>1. dhcp' \in [Vms -> InternalIps \cup {NoIp}]
    BY <1>0, <1>2, HostTypes DEF ReserveDerived
  <2>2. HubOk' /\ hub' \in HubState
    BY <1>0, <1>2 DEF ReserveDerived, Goto, NetInv, HubOk, HubState, Natting, Creating, Natted, Calls
  <2> QED  BY <1>2, <2>1, <2>2, HostTypes, HostStep DEF ReserveDerived
<1>3. CASE ResetNat
  <2>1. hub.ip \in IPs /\ hub.to \in IPs
    BY <1>0, <1>3, Ranges DEF ResetNat, NetInv, HubOk
  <2>2. RuleBag(nat')
    BY <1>3, <2>1, HostTypes, RulesWithNat DEF ResetNat
  <2>3. HubOk' /\ hub' \in HubState
    BY <1>0, <1>3 DEF ResetNat, Goto, NetInv, HubOk, HubState, Natting, Creating, Natted, Calls
  <2> QED  BY <1>3, <2>2, <2>3, HostTypes, HostStep DEF ResetNat
<1>4. CASE Dismantle
  <2>1. dhcp' \in [Vms -> InternalIps \cup {NoIp}] /\ RuleBag(nat')
    BY <1>0, <1>4, HostTypes, RulesLess DEF Dismantle
  <2>2. /\ vms' \in [Vms -> {"new", "off", "running", "gone"}]
        /\ \A u \in Vms : vms'[u] = vms[u] \/ vms'[u] # "new"
    BY <1>4, HostTypes DEF Dismantle
  <2>3. HubOk' /\ hub' \in HubState
    <3>1. CASE hub' = Idle
      BY <3>1, IdleHub DEF NetInv
    <3>2. CASE hub' = [hub EXCEPT !.at = "release"]
      BY <1>0, <1>4, <3>2 DEF Dismantle, HubOk, HubState, Natting, Creating, Calls
    <3> QED  BY <1>4, <3>1, <3>2 DEF Dismantle, Goto, Done
  <2> QED  BY <1>4, <2>1, <2>2, <2>3, HostTypes, HostStep DEF Dismantle
<1>5. CASE DefineFails
  <2>1. /\ vms' \in [Vms -> {"new", "off", "running", "gone"}]
        /\ \A u \in Vms : vms'[u] = vms[u] \/ vms'[u] # "new"
    BY <1>5, HostTypes DEF DefineFails
  <2>2. HubOk' /\ hub' \in HubState
    <3>1. CASE hub' = Idle
      BY <3>1, IdleHub DEF NetInv
    <3>2. CASE hub' = [hub EXCEPT !.at = "undoPre"]
      <4>1. hub.vm \in Vms /\ public[hub.vm] = NoIp
        BY <1>0, <1>5 DEF DefineFails, NetInv, HubOk, VmsOk
      <4> QED  BY <1>0, <1>5, <3>2, <4>1 DEF DefineFails, HubOk, HubState, Natting, Creating, Calls
    <3> QED  BY <1>5, <3>1, <3>2 DEF DefineFails, Goto, Done
  <2> QED  BY <1>5, <2>1, <2>2, HostTypes, HostStep DEF DefineFails
<1> QED  BY <1>1, <1>2, <1>3, <1>4, <1>5

(* The VM is defined with the address of the early allocation, or none.    *)
LEMMA Defines == ASSUME NetInv, DefineVm PROVE NetInv'
<1>1. /\ hub \in HubState /\ hub.vm \in Vms /\ vms[hub.vm] = "new" /\ hub.pool \in PoolNames
      /\ hub.ip # NoIp => hub.pool \in Bridged /\ hub.ip \in PoolRange[hub.pool]
      /\ public[hub.vm] = NoIp /\ arp[hub.vm] = NoIp
  BY HostTypes DEF DefineVm, NetInv, HubOk, VmsOk
<1>2. /\ UNCHANGED <<doc, hubDoc, sync, dhcp, arp, nat, starts, resyncs>>
      /\ public' \in [Vms -> PublicIps \cup {NoIp}] /\ public'[hub.vm] = hub.ip
      /\ \A v \in Vms : v # hub.vm => public'[v] = public[v] /\ vms'[v] = vms[v]
      /\ vms' \in [Vms -> {"new", "off", "running", "gone"}] /\ vms'[hub.vm] = "off"
      /\ \A v \in Vms : public[v] # NoIp => public'[v] = public[v]
  BY <1>1, HostTypes, Ranges DEF DefineVm, NetInv, TypeOK
<1>3. CopiesSound'
  BY <1>2, CopiesKept DEF NetInv, At
<1>4. HubOk' /\ hub' \in HubState
  BY <1>1, <1>2 DEF DefineVm, Goto, HubOk, HubState, Natting, Creating, Calls
<1>5. TypeOK'
  BY <1>2, <1>4 DEF NetInv, TypeOK, HubState
<1>6. VmsOk' /\ ThreadsOk'
  <2>1. \A v \in Vms : arp[v] # NoIp => public'[v] = public[v]
    BY <1>1, <1>2
  <2> QED  BY <1>1, <1>2, <2>1 DEF NetInv, VmsOk, ThreadsOk, ThreadOk, ThreadState
<1> QED  BY <1>3, <1>4, <1>5, <1>6 DEF NetInv

LEMMA Allocates == ASSUME NetInv, Allocate PROVE NetInv'
<1> DEFINE ips == Allocatable(hubDoc, hub.pool)
           ip == Lowest(ips)
<1>1. /\ Sound(public, arp, hubDoc) /\ hub \in HubState /\ hub.vm \in Vms /\ hub.pool \in PoolNames
      /\ MacOf(hub.vm) \in Macs /\ public[hub.vm] = NoIp /\ arp[hub.vm] = NoIp
  BY InCall DEF NetInv, HubOk, Allocate, Loaded
<1>2. CASE ips = {}
  <2>1. hub' = Idle /\ doc' = doc /\ hubDoc' = NoDoc /\ UNCHANGED <<sync, Host>>
    BY <1>2 DEF Allocate, Done, Save, Host
  <2> QED  BY <2>1, IdleHub, HubStep DEF NetInv
<1>3. CASE ips # {}
  <2>1. ip \in PoolRange[hub.pool] /\ ip \in PublicIps /\ ip \in IPs /\ ip # NoIp
    BY <1>1, <1>3, AllocatesInRange, Ranges
  <2>2. /\ doc' = Assigned(hubDoc, ip, hub.vm, MacOf(hub.vm), hub.pool) /\ hubDoc' = NoDoc
        /\ public' = [public EXCEPT ![hub.vm] = ip]
        /\ UNCHANGED <<sync, vms, dhcp, arp, nat, starts, resyncs>>
        /\ hub' = (IF hub.pool \in Bridged THEN Idle ELSE [hub EXCEPT !.at = "nat", !.ip = ip])
    BY <1>3 DEF Allocate, Save, Done
  <2> HIDE DEF ip
  <2>3. /\ public' \in [Vms -> PublicIps \cup {NoIp}] /\ public'[hub.vm] = ip
        /\ \A v \in Vms : public[v] # NoIp => public'[v] = public[v]
        /\ \A v \in Vms : arp[v] # NoIp => public'[v] = public[v]
        /\ \A v \in Vms : v # hub.vm => public'[v] = public[v]
    BY <1>1, <2>1, <2>2 DEF NetInv, TypeOK
  <2>4. hub.pool # Internal /\ hub.vm \notin PreIds
    BY <1>1, NetworkConstants
  <2>5. hub.pool \notin Bridged => ~OnBridge(ip)
    BY <1>1, <2>1, Ranges
  <2>6. EntryOk(public', arp, ip, NewEntry(hub.vm, MacOf(hub.vm), hub.pool))
    BY <1>1, <2>1, <2>3, <2>4, <2>5 DEF EntryOk, NewEntry, Place
  <2>7. Sound(public', arp, hubDoc)
    BY <1>1, <2>3, SoundLater
  <2>8. Sound(public', arp', doc')
    BY <1>1, <2>1, <2>2, <2>4, <2>6, <2>7, SoundAssigned
  <2>9. CopiesSound'
    BY <2>2, <2>3, <2>8, CopiesKept DEF NetInv, At
  <2>10. HubOk' /\ hub' \in HubState
    BY <1>1, <2>1, <2>2, <2>3, <2>5, IdleHub DEF NetInv, HubOk, HubState, Natting, Creating, Natted
  <2>11. TypeOK'
    BY <2>2, <2>3, <2>8, <2>10 DEF NetInv, TypeOK, HubState, Sound
  <2>12. vms[hub.vm] # "new"
    BY DEF Allocate, Loaded, NetInv, HubOk
  <2>13. VmsOk' /\ ThreadsOk'
    BY <1>1, <2>2, <2>3, <2>12 DEF NetInv, VmsOk, ThreadsOk, ThreadOk
  <2> QED  BY <2>9, <2>10, <2>11, <2>13 DEF NetInv
<1> QED  BY <1>2, <1>3


-----------------------------------------------------------------------------
(* The requests that start a NAT thread. *)

(* A new thread, for an address of the VM.                                 *)
LEMMA Spawned ==
  ASSUME NetInv, FreeThreads # {}, NEW v \in Vms, NEW p \in IPs, Spawn(v, p)
  PROVE  /\ DOMAIN sync' = Threads
         /\ \A t \in Threads : \/ sync'[t] = sync[t]
                               \/ sync'[t] \in ThreadState /\ sync'[t].at = "wait"
<1> DEFINE t0 == CHOOSE t \in FreeThreads : TRUE
           new == [at |-> "wait", vm |-> v, pub |-> p, ip |-> NoIp, snap |-> NoDoc]
<1>1. t0 \in Threads
  BY DEF FreeThreads
<1>2. DOMAIN sync = Threads
  BY DEF NetInv, TypeOK
<1>3. sync' = [sync EXCEPT ![t0] = new]
  BY DEF Spawn
<1>4. new \in ThreadState /\ new.at = "wait"
  BY DEF ThreadState
<1> HIDE DEF t0, new
<1> QED  BY <1>1, <1>2, <1>3, <1>4

LEMMA CallRecords == ASSUME NetInv, RecordInternal PROVE NetInv'
<1>1. /\ Sound(public, arp, doc') /\ hubDoc' = NoDoc /\ hub' = Idle /\ UNCHANGED Host
  BY InternalRecorded DEF RecordInternal, Loaded, Save, Done
<1>2. hub.vm \in Vms /\ hub.ip \in IPs
  BY Ranges DEF RecordInternal, Loaded, NetInv, HubOk, Natting, Creating
<1>3. /\ DOMAIN sync' = Threads
      /\ \A t \in Threads : \/ sync'[t] = sync[t]
                            \/ sync'[t] \in ThreadState /\ sync'[t].at = "wait"
  BY <1>2, Spawned DEF RecordInternal
<1>4. CopiesSound'
  BY <1>1, <1>3, CopiesKept DEF NetInv, Host, At
<1>5. HubOk' /\ hub' \in HubState
  BY <1>1, IdleHub DEF NetInv
<1>6. TypeOK'
  BY <1>1, <1>3, <1>5 DEF NetInv, Host, TypeOK, HubState, Sound
<1>7. VmsOk' /\ ThreadsOk'
  BY <1>1, <1>3 DEF NetInv, Host, VmsOk, ThreadsOk, ThreadOk
<1> QED  BY <1>4, <1>5, <1>6, <1>7 DEF NetInv

LEMMA Starts == ASSUME NetInv, NEW v \in Vms, Start(v) PROVE NetInv'
<1>1. PICK ip \in Nic(v) : arp' = [arp EXCEPT ![v] = ip]
  BY DEF Start
<1>2. ip \in IPs /\ (ip \in InternalIps \/ OnBridge(public[v])) /\ ip # NoIp
  <2>1. public[v] \in PublicIps \cup {NoIp} /\ dhcp[v] \in InternalIps \cup {NoIp}
    BY DEF NetInv, TypeOK
  <2>2. ip \in InternalIps \/ (ip = public[v] /\ public[v] # NoIp /\ OnBridge(public[v]))
    BY <2>1 DEF Nic, OnBridge
  <2> QED  BY <2>1, <2>2, Ranges
<1>3. /\ UNCHANGED <<doc, hub, hubDoc, public, dhcp, nat, resyncs>> /\ hub = Idle
      /\ arp' \in [Vms -> IPs \cup {NoIp}] /\ arp'[v] = ip
      /\ \A u \in Vms : u # v => arp'[u] = arp[u] /\ vms'[u] = vms[u]
      /\ vms' \in [Vms -> {"new", "off", "running", "gone"}] /\ vms'[v] = "running"
      /\ starts' \in [Vms -> 0 .. MaxStarts]
  BY <1>1, <1>2, NetworkConstants DEF Start, NetInv, TypeOK
<1>4. /\ DOMAIN sync' = Threads
      /\ \A t \in Threads : \/ sync'[t] = sync[t]
                            \/ sync'[t] \in ThreadState /\ sync'[t].at = "wait"
  <2>1. CASE FreeThreads # {} /\ \E p \in Labelled(v) : Spawn(v, p)
    BY <2>1, Spawned DEF Labelled
  <2>2. CASE UNCHANGED sync
    BY <2>2 DEF NetInv, TypeOK
  <2> QED  BY <2>1, <2>2 DEF Start
<1>5. \A u \in Vms : arp'[u] = NoIp => arp[u] = NoIp
  BY <1>2, <1>3
<1>6. CopiesSound'
  BY <1>3, <1>4, <1>5, CopiesKept DEF NetInv, At
<1>7. HubOk'
  BY <1>3 DEF HubOk, Idle, Natting, Creating
<1>8. TypeOK'
  BY <1>3, <1>4 DEF NetInv, TypeOK
<1>9. VmsOk' /\ ThreadsOk'
  BY <1>2, <1>3, <1>4, <1>5 DEF NetInv, VmsOk, ThreadsOk, ThreadOk, ThreadState
<1> QED  BY <1>6, <1>7, <1>8, <1>9 DEF NetInv

-----------------------------------------------------------------------------
(* Steps of the NAT threads. *)

LEMMA ThreadStep ==
  ASSUME NetInv, UNCHANGED <<hub, hubDoc, vms, public, dhcp, arp, starts, resyncs>>,
         NEW t \in Threads, DOMAIN sync' = Threads,
         \A s \in Threads \ {t} : sync'[s] = sync[s],
         sync'[t] # NoThread => ThreadOk(t)',
         At(t, "save")' => Sound(public, arp, sync'[t].snap),
         RuleBag(nat'),
         doc' = doc \/ Sound(public, arp, doc')
  PROVE  NetInv'
<1>1. CopiesSound'
  BY CopiesKept DEF NetInv, At
<1>2. TypeOK'
  BY DEF NetInv, TypeOK, RuleBag, Sound
<1>3. HubOk' /\ VmsOk'
  BY DEF NetInv, HubOk, VmsOk, Natting, Creating, Natted
<1>4. ThreadsOk'
  BY DEF NetInv, ThreadsOk, ThreadOk
<1> QED  BY <1>1, <1>2, <1>3, <1>4 DEF NetInv

(* What is known of a thread that is at some step.                         *)
LEMMA InThread ==
  ASSUME NetInv, NEW t \in Threads, NEW at, At(t, at)
  PROVE  /\ ThreadOk(t) /\ sync[t] \in ThreadState /\ sync[t].at = at
         /\ DOMAIN sync = Threads /\ RuleBag(nat)
BY DEF NetInv, ThreadsOk, ThreadOk, At, TypeOK, RuleBag

LEMMA Ends ==
  ASSUME NetInv, NEW t \in Threads, End(t),
         UNCHANGED <<hub, hubDoc, Host>>,
         doc' = doc \/ Sound(public, arp, doc')
  PROVE  NetInv'
<1>1. DOMAIN sync' = Threads /\ sync'[t] = NoThread /\ \A s \in Threads \ {t} : sync'[s] = sync[s]
  BY DEF End, NetInv, TypeOK
<1> QED  BY <1>1, HostTypes, ThreadStep DEF At, Host

LEMMA Sees == ASSUME NetInv, NEW t \in Threads, SeeArp(t) PROVE NetInv'
<1>1. ThreadOk(t) /\ sync[t] \in ThreadState /\ DOMAIN sync = Threads /\ RuleBag(nat)
  BY InThread DEF SeeArp
<1> DEFINE ip == arp[sync[t].vm]
<1>2. sync[t].vm \in Vms
  BY <1>1 DEF ThreadState
<1>3. ip \in IPs /\ (ip \in InternalIps \/ OnBridge(public[sync[t].vm])) /\ ip # NoIp
  BY <1>2, NetworkConstants DEF SeeArp, NetInv, TypeOK, VmsOk
<1> HIDE DEF ip
<1>4. /\ sync'[t] = [sync[t] EXCEPT !.at = "clean", !.ip = ip] /\ DOMAIN sync' = Threads
      /\ \A s \in Threads \ {t} : sync'[s] = sync[s]
  BY <1>1 DEF SeeArp, ip
<1>5. /\ sync'[t] \in ThreadState /\ sync'[t].at = "clean" /\ sync'[t].ip = ip
      /\ sync'[t].vm = sync[t].vm
  BY <1>1, <1>3, <1>4 DEF ThreadState
<1>6. ThreadOk(t)' /\ ~At(t, "save")'
  BY <1>1, <1>3, <1>5 DEF ThreadOk, At, SeeArp, Host, ip
<1> QED  BY <1>1, <1>4, <1>6, ThreadStep DEF SeeArp, Host

LEMMA Rules == ASSUME NetInv, NEW t \in Threads, CleanNat(t) \/ AddNat(t) PROVE NetInv'
<1>1. /\ ThreadOk(t) /\ sync[t] \in ThreadState /\ DOMAIN sync = Threads /\ RuleBag(nat)
      /\ sync[t].at \in {"clean", "add"}
  BY InThread DEF CleanNat, AddNat
<1>2. PICK at \in {"add", "load"} : sync' = [sync EXCEPT ![t].at = at]
  BY DEF CleanNat, AddNat, Step
<1>3. /\ sync'[t] = [sync[t] EXCEPT !.at = at] /\ DOMAIN sync' = Threads
      /\ \A s \in Threads \ {t} : sync'[s] = sync[s]
  BY <1>1, <1>2
<1>4. /\ sync'[t] \in ThreadState /\ sync'[t].at = at /\ sync'[t].ip = sync[t].ip
      /\ sync'[t].vm = sync[t].vm
  BY <1>1, <1>3 DEF ThreadState
<1>5. UNCHANGED <<doc, hub, hubDoc, vms, public, dhcp, arp, starts, resyncs>>
  BY DEF CleanNat, AddNat
<1>6. ThreadOk(t)' /\ ~At(t, "save")'
  BY <1>1, <1>4, <1>5 DEF ThreadOk, At
<1>7. sync[t].pub \in IPs /\ sync[t].ip \in IPs
  BY <1>1, Ranges DEF ThreadOk, ThreadState
<1>8. RuleBag(nat')
  BY <1>1, <1>7, RulesWithout, RulesPlus DEF CleanNat, AddNat
<1> QED  BY <1>3, <1>5, <1>6, <1>8, ThreadStep

(* A VM with an internal entry is behind NAT, so the address it was seen   *)
(* with is internal.                                                       *)
LEMMA Loads == ASSUME NetInv, NEW t \in Threads, LoadDoc(t) PROVE NetInv'
<1>1. /\ ThreadOk(t) /\ sync[t] \in ThreadState /\ DOMAIN sync = Threads /\ RuleBag(nat)
      /\ sync[t].at = "load"
  BY InThread DEF LoadDoc
<1>2. CASE End(t)
  BY <1>2, Ends DEF LoadDoc
<1>3. ASSUME doc # Torn, NEW old \in InternalOf(doc, sync[t].vm),
             sync' = [sync EXCEPT ![t].at = "save", ![t].snap = Moved(doc, old, sync[t].ip)]
      PROVE  NetInv'
  <2> DEFINE v == sync[t].vm
             ip == sync[t].ip
             snap == Moved(doc, old, ip)
  <2>1. v \in Vms /\ arp[v] # NoIp /\ (ip \in InternalIps \/ OnBridge(public[v]))
    BY <1>1 DEF ThreadOk, ThreadState
  <2>2. Sound(public, arp, doc)
    BY <1>3 DEF NetInv, CopiesSound
  <2>3. EntryOk(public, arp, old, doc[old]) /\ doc[old].pool = Internal /\ doc[old].vm_id = v
    BY <1>3, <2>2 DEF Sound, InternalOf, Entries
  <2>4. ~OnBridge(public[v])
    BY <2>1, <2>3, NetworkConstants DEF EntryOk
  <2>5. Sound(public, arp, snap)
    BY <1>3, <2>1, <2>2, <2>4, SoundMoved
  <2> HIDE DEF snap
  <2>6. sync'[t] = [sync[t] EXCEPT !.at = "save", !.snap = snap] /\ DOMAIN sync' = Threads
    BY <1>1, <1>3 DEF snap
  <2>6a. \A s \in Threads \ {t} : sync'[s] = sync[s]
    BY <1>1, <1>3
  <2>7. /\ sync'[t] \in ThreadState /\ sync'[t].ip = ip /\ sync'[t].vm = v
        /\ sync'[t].snap = snap /\ sync'[t].at = "save"
    BY <1>1, <2>5, <2>6 DEF ThreadState, Sound
  <2>8. UNCHANGED <<doc, hub, hubDoc, vms, public, dhcp, arp, nat, starts, resyncs>>
    BY DEF LoadDoc, Host
  <2>9. ThreadOk(t)'
    BY <1>1, <2>7, <2>8 DEF ThreadOk
  <2> QED  BY <1>1, <2>5, <2>6, <2>6a, <2>7, <2>8, <2>9, ThreadStep
<1> QED  BY <1>2, <1>3 DEF LoadDoc, ToMove

LEMMA ThreadSteps == ASSUME NetInv, Thread PROVE NetInv'
<1>1. PICK t \in Threads :
        SeeArp(t) \/ GiveUp(t) \/ CleanNat(t) \/ AddNat(t) \/ LoadDoc(t) \/ SaveDoc(t)
  BY DEF Thread
<1>2. CASE GiveUp(t)
  BY <1>2, Ends DEF GiveUp
<1>3. CASE SaveDoc(t)
  <2>1. Sound(public, arp, doc')
    BY <1>3 DEF SaveDoc, NetInv, CopiesSound
  <2> QED  BY <1>3, <2>1, Ends DEF SaveDoc
<1> QED  BY <1>1, <1>2, <1>3, Sees, Rules, Loads

-----------------------------------------------------------------------------
(* The invariant. *)

LEMMA Crashed == ASSUME NetInv, Crash PROVE NetInv'
<1>1. /\ UNCHANGED Host /\ hub' = Idle /\ hubDoc' = NoDoc /\ doc' \in {doc, Torn}
      /\ DOMAIN sync' = Threads /\ \A t \in Threads : sync'[t] = NoThread
  BY DEF Crash
<1>2. CopiesSound'
  BY <1>1, CopiesKept DEF NetInv, Host, At
<1>3. HubOk' /\ hub' \in HubState
  BY <1>1, IdleHub DEF NetInv
<1>4. TypeOK'
  BY <1>1, <1>3 DEF NetInv, Host, TypeOK, HubState
<1>5. VmsOk' /\ ThreadsOk'
  BY <1>1 DEF NetInv, Host, VmsOk, ThreadsOk
<1> QED  BY <1>2, <1>3, <1>4, <1>5 DEF NetInv

LEMMA NetStart == ASSUME Init PROVE NetInv
<1>1. doc \in Docs /\ \A ip \in IPs : doc[ip] = Free
  BY DEF Init, Docs
<1>3. CopiesSound
  BY <1>1 DEF Init, CopiesSound, Sound, At
<1>4. RuleBag(nat)
  BY DEF Init, EmptyBag, SetToBag, RuleBag, IsABag, BagToSet
<1>5. TypeOK
  BY <1>1, <1>4, NetworkConstants, IdleHub DEF Init, TypeOK, HubState, RuleBag
<1>6. VmsOk /\ HubOk /\ ThreadsOk
  BY DEF Init, VmsOk, HubOk, ThreadsOk, Idle, Natting, Creating
<1> QED  BY <1>3, <1>5, <1>6 DEF NetInv

LEMMA NetStep ==
  ASSUME Resynced \cap Bridged = {}, NetInv, [Next]_vars
  PROVE  NetInv'
<1>1. CASE UNCHANGED vars
  BY <1>1, HubStep DEF vars, Host, NetInv, TypeOK, HubState, HubOk, Natted, Natting, Creating
<1>2. CASE Hub
  BY <1>2, Requests, Starts, SyncRequest, Lookups, CallDerives, CallMoves, CallStart,
     CallPreAllocates, Defines, CallReleases, CallClaims, Allocates, CallRecords, HostCommands
     DEF Hub
<1>3. CASE Thread
  BY <1>3, ThreadSteps
<1>4. CASE Crash
  BY <1>4, Crashed
<1> QED  BY <1>1, <1>2, <1>3, <1>4 DEF Next

LEMMA NetInvariant ==
  ASSUME Resynced \cap Bridged = {}
  PROVE  Spec => []NetInv
<1>1. Init => NetInv
  BY NetStart
<1>2. NetInv /\ [Next]_vars => NetInv'
  BY NetStep
<1> QED  BY <1>1, <1>2, PTL DEF Spec

(* While nat-sync is not asked for VMs of bridged pools, every entry lies  *)
(* where its label says, whatever copies the NAT threads write back        *)
(* (app.py:3203 moves an internal entry to a bridged address otherwise).   *)
THEOREM EntriesStayInPlace ==
  ASSUME Resynced \cap Bridged = {}
  PROVE  Spec => []EntriesInPlace
<1>1. NetInv => EntriesInPlace
  BY DEF NetInv, CopiesSound, Sound, EntryOk, Place, EntriesInPlace
<1> QED  BY <1>1, NetInvariant, PTL

-----------------------------------------------------------------------------
(***************************************************************************)
(* The types need no condition: they hold with nat-sync for VMs of any     *)
(* pool, every refusal of libvirt, and a kill at any point.                *)
(***************************************************************************)

(* What the steps of a handler find in its locals.                         *)
HubTyped ==
  /\ hub.at # "idle" => hub.vm \in Vms
  /\ hub.at \in {"preAlloc", "define", "dropPre", "claim", "allocate"} => hub.pool \in PoolNames
  /\ hub.at = "preAlloc" => hub.ip = NoIp
  /\ hub.at = "define" => hub.ip \in PublicIps \cup {NoIp}
  /\ hub.at \in {"dropPre", "claim", "nat", "internal", "recorded", "resync", "move"} =>
       hub.ip \in IPs
  /\ hub.at \in {"resync", "move"} => hub.to \in IPs

ThreadTyped(t) ==
  /\ sync[t] \in ThreadState
  /\ sync[t].at # "wait" => sync[t].ip \in IPs
  /\ sync[t].at = "save" => sync[t].snap \in Docs

ThreadsTyped == \A t \in Threads : sync[t] # NoThread => ThreadTyped(t)

HostTyped ==
  /\ vms \in [Vms -> {"new", "off", "running", "gone"}]
  /\ public \in [Vms -> PublicIps \cup {NoIp}]
  /\ dhcp \in [Vms -> InternalIps \cup {NoIp}]
  /\ arp \in [Vms -> IPs \cup {NoIp}]
  /\ RuleBag(nat)
  /\ starts \in [Vms -> 0 .. MaxStarts]
  /\ resyncs \in 0 .. MaxResyncs

Typed ==
  /\ doc \in Docs \cup {Torn} /\ hubDoc \in Docs \cup {NoDoc} /\ hub \in HubState
  /\ HostTyped /\ DOMAIN sync = Threads /\ HubTyped /\ ThreadsTyped

LEMMA TypedIsTypeOK == Typed => TypeOK
BY DEF Typed, HostTyped, TypeOK, HubState, RuleBag

(* What the calls of the pool manager make of a document is one.           *)
LEMMA CallsKeepDocs ==
  ASSUME NEW d \in Docs
  PROVE  /\ \A v : Released(d, v) \in Docs
         /\ \A old \in IPs, new \in IPs : Moved(d, old, new) \in Docs
         /\ \A ip \in IPs, v \in Vms \cup PreIds, m \in Macs \cup {NoMac},
               p \in PoolNames \cup {Internal} : Assigned(d, ip, v, m, p) \in Docs
<1>1. \A v : Released(d, v) \in Docs
  BY DEF Released, Docs
<1>2. ASSUME NEW old \in IPs, NEW new \in IPs PROVE Moved(d, old, new) \in Docs
  BY DEF Moved, Docs
<1>3. ASSUME NEW ip \in IPs, NEW v \in Vms \cup PreIds, NEW m \in Macs \cup {NoMac},
             NEW p \in PoolNames \cup {Internal}
      PROVE  Assigned(d, ip, v, m, p) \in Docs
  BY DEF Assigned, NewEntry, Entry, Docs
<1> QED  BY <1>1, <1>2, <1>3

LEMMA TypedHub ==
  ASSUME Typed, UNCHANGED sync,
         doc' \in Docs \cup {Torn}, hubDoc' \in Docs \cup {NoDoc},
         hub' \in HubState, HubTyped', HostTyped'
  PROVE  Typed'
BY DEF Typed, ThreadsTyped, ThreadTyped

LEMMA TypedIdle == hub' = Idle => hub' \in HubState /\ HubTyped'
BY DEF Idle, HubState, HubTyped

LEMMA TypedHost == HostTyped /\ UNCHANGED Host => HostTyped'
BY DEF HostTyped, Host, RuleBag

(* A handler that has loaded the document, or is about to.                 *)
LEMMA TypedCalls ==
  ASSUME Typed,
         \/ HubLoad \/ HubLoadFails \/ PreAllocate \/ UndoPre \/ DropPre \/ Claim
         \/ RecordDerived \/ MoveInternal \/ Release \/ ReleaseMac
  PROVE  Typed'
<1>0. UNCHANGED <<sync, Host>> /\ HostTyped'
  BY TypedHost DEF HubLoad, HubLoadFails, PreAllocate, UndoPre, DropPre, Claim, RecordDerived,
     MoveInternal, Release, ReleaseMac, Typed
<1>1. /\ hub \in HubState /\ HubTyped /\ doc \in Docs \cup {Torn} /\ hubDoc \in Docs \cup {NoDoc}
      /\ hubDoc # NoDoc => hubDoc \in Docs
      /\ hub.vm \in Vms => MacOf(hub.vm) \in Macs /\ PreId(hub.vm) \in PreIds
  BY DEF Typed, Macs, PreIds
<1>2. CASE HubLoad
  <2>1. hub' = hub /\ hubDoc' \in Docs /\ doc' = doc
    BY <1>1, <1>2 DEF HubLoad
  <2> QED  BY <1>0, <1>1, <2>1, TypedHub DEF HubTyped
<1>3. CASE HubLoadFails
  <2>1. hub' \in HubState /\ HubTyped'
    <3>1. CASE hub.at = "preAlloc" /\ hub' = [hub EXCEPT !.at = "define"]
      BY <1>1, <3>1 DEF HubTyped, HubState
    <3> QED  BY <1>3, <3>1, TypedIdle DEF HubLoadFails, Goto, Done
  <2> QED  BY <1>0, <1>1, <1>3, <2>1, TypedHub DEF HubLoadFails
<1>4. CASE PreAllocate
  <2> DEFINE ips == Allocatable(hubDoc, hub.pool)
             ip == Lowest(ips)
  <2>1. hubDoc \in Docs /\ hub.vm \in Vms /\ hub.pool \in PoolNames /\ hub.ip = NoIp /\ hubDoc' = NoDoc
    BY <1>1, <1>4 DEF PreAllocate, Loaded, HubTyped, Save
  <2>2. CASE ips = {}
    <3>1. hub' = [hub EXCEPT !.at = "define"] /\ doc' = doc
      BY <1>4, <2>2 DEF PreAllocate, Goto, Save
    <3>2. hub' \in HubState /\ HubTyped'
      BY <1>1, <2>1, <3>1 DEF HubTyped, HubState
    <3> QED  BY <1>0, <1>1, <2>1, <3>1, <3>2, TypedHub
  <2>3. CASE ips # {}
    <3>1. ip \in PublicIps /\ ip \in IPs
      BY <2>1, <2>3, AllocatesInRange, Ranges
    <3>2. /\ hub' = [hub EXCEPT !.at = "define", !.ip = ip]
          /\ doc' = Assigned(hubDoc, ip, PreId(hub.vm), NoMac, hub.pool)
      BY <1>4, <2>3 DEF PreAllocate, Save
    <3> HIDE DEF ip
    <3>3. hub' \in HubState /\ HubTyped'
      BY <1>1, <2>1, <3>1, <3>2 DEF HubTyped, HubState
    <3>4. doc' \in Docs
      BY <1>1, <2>1, <3>1, <3>2, CallsKeepDocs
    <3> QED  BY <1>0, <2>1, <3>3, <3>4, TypedHub
  <2> QED  BY <2>2, <2>3
<1>5. CASE UndoPre \/ Release \/ ReleaseMac
  <2>1. PICK v : doc' = Released(hubDoc, v) /\ hubDoc' = NoDoc /\ hubDoc # NoDoc
    BY <1>5 DEF UndoPre, Release, ReleaseMac, Save, Loaded
  <2>2. CASE hub' = Idle
    BY <1>0, <1>1, <2>1, <2>2, CallsKeepDocs, TypedIdle, TypedHub
  <2>3. CASE Release /\ hub' = [hub EXCEPT !.at = "releaseMac"]
    <3>1. hub' \in HubState /\ HubTyped'
      BY <1>1, <2>3 DEF Release, Loaded, HubTyped, HubState, Calls
    <3> QED  BY <1>0, <1>1, <2>1, <3>1, CallsKeepDocs, TypedHub
  <2> QED  BY <1>5, <2>2, <2>3 DEF UndoPre, Release, ReleaseMac, Goto, Done
<1>6. CASE DropPre
  <2>1. /\ doc' = Released(hubDoc, PreId(hub.vm)) /\ hubDoc' = NoDoc /\ hubDoc # NoDoc
        /\ hub.at = "dropPre" /\ hub' = [hub EXCEPT !.at = "claim"]
    BY <1>6 DEF DropPre, Save, Goto, Loaded
  <2>2. hub' \in HubState /\ HubTyped'
    BY <1>1, <2>1 DEF HubTyped, HubState, Calls
  <2> QED  BY <1>0, <1>1, <2>1, <2>2, CallsKeepDocs, TypedHub
<1>7. CASE Claim \/ RecordDerived
  <2>1. PICK ip \in IPs, p \in PoolNames \cup {Internal} :
          doc' = Assigned(hubDoc, ip, hub.vm, MacOf(hub.vm), p)
    <3>1. CASE Claim
      <4>1. hub.ip \in IPs /\ hub.pool \in PoolNames
        BY <1>1, <3>1, Ranges DEF Claim, Loaded, HubTyped
      <4> QED  BY <3>1, <4>1 DEF Claim, Save
    <3>2. CASE RecordDerived
      <4>1. Formula[hub.vm] \in IPs
        BY <1>1, <3>2, NetworkConstants, Ranges DEF RecordDerived, Loaded, HubTyped
      <4> QED  BY <3>2, <4>1 DEF RecordDerived, Save
    <3> QED  BY <1>7, <3>1, <3>2
  <2>2. hubDoc' = NoDoc /\ hub' = Idle /\ hubDoc # NoDoc /\ hub.vm \in Vms
    BY <1>1, <1>7 DEF Claim, RecordDerived, Save, Done, Loaded, HubTyped
  <2>3. doc' \in Docs
    BY <1>1, <2>1, <2>2, CallsKeepDocs
  <2> QED  BY <1>0, <2>2, <2>3, TypedIdle, TypedHub
<1>8. CASE MoveInternal
  <2>1. hubDoc' = NoDoc /\ hub' = Idle /\ hubDoc \in Docs /\ hub.to \in IPs
    BY <1>1, <1>8 DEF MoveInternal, Save, Done, Loaded, HubTyped
  <2>2. doc' = doc \/ \E old \in IPs : doc' = Moved(hubDoc, old, hub.to)
    BY <1>8 DEF MoveInternal, Save, ToMove, InternalOf, Entries
  <2>3. doc' \in Docs \cup {Torn}
    BY <1>1, <2>1, <2>2, CallsKeepDocs
  <2> QED  BY <1>0, <2>1, <2>3, TypedIdle, TypedHub
<1> QED  BY <1>2, <1>3, <1>4, <1>5, <1>6, <1>7, <1>8

(* The beginnings of the requests, and their looks at the document.        *)
LEMMA TypedRequests ==
  ASSUME Typed, NEW v \in Vms,
         (\E p \in PoolNames : Create(v, p)) \/ Stop(v) \/ Delete(v) \/ NatSync(v)
  PROVE  Typed'
<1>0. UNCHANGED <<doc, hubDoc, sync>> /\ HostTyped /\ doc \in Docs \cup {Torn} /\ hubDoc \in Docs \cup {NoDoc}
  BY DEF Create, Stop, Delete, NatSync, Typed
<1>1. CASE (\E p \in PoolNames : Create(v, p)) \/ Delete(v)
  <2>1. hub' \in HubState /\ HubTyped' /\ UNCHANGED Host
    BY <1>1 DEF Create, Delete, Idle, HubState, HubTyped, Calls
  <2> QED  BY <1>0, <2>1, TypedHost, TypedHub
<1>2. CASE Stop(v)
  <2>1. hub' \in HubState /\ HubTyped'
    BY <1>2, TypedIdle DEF Stop
  <2>2. HostTyped'
    BY <1>0, <1>2 DEF Stop, HostTyped, RuleBag
  <2> QED  BY <1>0, <2>1, <2>2, TypedHub
<1>3. CASE NatSync(v)
  <2>1. PICK ip \in Labelled(v), seen \in Seen(v) :
          hub' = [Idle EXCEPT !.at = IF seen = NoIp THEN "recorded" ELSE "resync",
                              !.vm = v, !.ip = ip, !.to = seen]
    BY <1>3 DEF NatSync
  <2>2. ip \in IPs
    BY <2>1 DEF Labelled
  <2>4. seen \in IPs \cup {NoIp}
    BY <1>0, <2>1 DEF Seen, HostTyped
  <2>5. hub' \in HubState /\ HubTyped'
    BY <2>1, <2>2, <2>4 DEF Idle, HubState, HubTyped
  <2>6. HostTyped'
    <3>1. resyncs' \in 0 .. MaxResyncs
      <4>1. resyncs < MaxResyncs /\ resyncs' = resyncs + 1
        BY <1>3 DEF NatSync
      <4> QED  BY <1>0, <4>1, NetworkConstants DEF HostTyped
    <3>2. UNCHANGED <<vms, public, dhcp, arp, nat, starts>>
      BY <1>3 DEF NatSync
    <3> QED  BY <1>0, <3>1, <3>2 DEF HostTyped, RuleBag
  <2> QED  BY <1>0, <2>5, <2>6, TypedHub
<1> QED  BY <1>1, <1>2, <1>3

LEMMA TypedReads ==
  ASSUME Typed, LookUp \/ LookUpFails \/ TakeRecorded
  PROVE  Typed'
<1>0. /\ UNCHANGED <<doc, hubDoc, sync, Host>> /\ HostTyped' /\ hub \in HubState /\ HubTyped
      /\ doc \in Docs \cup {Torn} /\ hubDoc \in Docs \cup {NoDoc}
  BY TypedHost DEF LookUp, LookUpFails, TakeRecorded, Typed
<1>1. hub' \in HubState /\ HubTyped'
  <2>1. CASE LookUp
    <3>1. PICK ip \in IPs \cup {NoIp} : hub' = [hub EXCEPT !.at = "dismantle", !.ip = ip]
      BY <2>1 DEF LookUp, FirstOf, Entries
    <3> QED  BY <1>0, <2>1, <3>1 DEF LookUp, HubTyped, HubState
  <2>2. CASE LookUpFails
    BY <2>2, TypedIdle DEF LookUpFails, Done
  <2>3. CASE TakeRecorded
    <3>1. CASE hub' = [hub EXCEPT !.at = "reserve"]
      BY <1>0, <2>3, <3>1 DEF TakeRecorded, HubTyped, HubState
    <3>2. ASSUME NEW i \in IPs, hub' = [hub EXCEPT !.at = "resync", !.to = i]
          PROVE  hub' \in HubState /\ HubTyped'
      BY <1>0, <2>3, <3>2 DEF TakeRecorded, HubTyped, HubState
    <3> QED  BY <2>3, <3>1, <3>2 DEF TakeRecorded, Goto, InternalOf, Entries
  <2> QED  BY <2>1, <2>2, <2>3
<1> QED  BY <1>0, <1>1, TypedHub

(* The commands to libvirt and iptables.                                   *)
LEMMA TypedCommands ==
  ASSUME Typed, DefineVm \/ DefineFails \/ SetUpNat \/ ReserveDerived \/ ResetNat \/ Dismantle
  PROVE  Typed'
<1>0. /\ UNCHANGED <<doc, hubDoc, sync>> /\ HostTyped /\ hub \in HubState /\ HubTyped
      /\ doc \in Docs \cup {Torn} /\ hubDoc \in Docs \cup {NoDoc} /\ hub.vm \in Vms
      /\ Formula[hub.vm] \in InternalIps /\ Formula[hub.vm] \in IPs
  BY NetworkConstants, Ranges DEF DefineVm, DefineFails, SetUpNat, ReserveDerived, ResetNat,
     Dismantle, Typed, HubTyped
<1>1. hub' \in HubState /\ HubTyped'
  <2>1. CASE hub' = Idle
    BY <2>1, TypedIdle
  <2>2. CASE DefineVm
    BY <1>0, <2>2 DEF DefineVm, Goto, HubTyped, HubState, Calls
  <2>3. CASE SetUpNat \/ ReserveDerived \/ ResetNat
    BY <1>0, <2>3 DEF SetUpNat, ReserveDerived, ResetNat, Goto, HubTyped, HubState, Calls
  <2>4. CASE hub' \in {[hub EXCEPT !.at = "undoPre"], [hub EXCEPT !.at = "release"]}
    BY <1>0, <2>4 DEF HubTyped, HubState, Calls
  <2> QED  BY <2>1, <2>2, <2>3, <2>4 DEF DefineFails, Dismantle, Goto, Done
<1>2. HostTyped'
  <2>1. CASE DefineVm
    BY <1>0, <2>1 DEF DefineVm, HostTyped, RuleBag, HubTyped
  <2>2. CASE DefineFails
    BY <1>0, <2>2 DEF DefineFails, HostTyped, RuleBag
  <2>3. CASE SetUpNat
    <3>1. hub.ip \in IPs
      BY <1>0, <2>3, Ranges DEF SetUpNat, HubTyped
    <3>2. RuleBag(nat')
      BY <1>0, <2>3, <3>1, RulesWithNat DEF SetUpNat, HostTyped
    <3> QED  BY <1>0, <2>3, <3>2 DEF SetUpNat, HostTyped
  <2>4. CASE ReserveDerived
    BY <1>0, <2>4 DEF ReserveDerived, HostTyped, RuleBag
  <2>5. CASE ResetNat
    <3>1. hub.ip \in IPs /\ hub.to \in IPs
      BY <1>0, <2>5, Ranges DEF ResetNat, HubTyped
    <3>2. RuleBag(nat')
      BY <1>0, <2>5, <3>1, RulesWithNat DEF ResetNat, HostTyped
    <3> QED  BY <1>0, <2>5, <3>2 DEF ResetNat, HostTyped
  <2>6. CASE Dismantle
    <3>1. dhcp' \in [Vms -> InternalIps \cup {NoIp}] /\ RuleBag(nat')
      BY <1>0, <2>6, RulesLess DEF Dismantle, HostTyped
    <3> QED  BY <1>0, <2>6, <3>1 DEF Dismantle, HostTyped
  <2> QED  BY <2>1, <2>2, <2>3, <2>4, <2>5, <2>6
<1> QED  BY <1>0, <1>1, <1>2, TypedHub

LEMMA TypedAllocates == ASSUME Typed, Allocate PROVE Typed'
<1> DEFINE ips == Allocatable(hubDoc, hub.pool)
           ip == Lowest(ips)
<1>1. /\ hubDoc \in Docs /\ hub \in HubState /\ hub.vm \in Vms /\ hub.pool \in PoolNames
      /\ MacOf(hub.vm) \in Macs /\ HostTyped /\ doc \in Docs \cup {Torn} /\ UNCHANGED sync
      /\ HubTyped
  BY DEF Allocate, Loaded, Typed, HubTyped, Macs
<1>2. CASE ips = {}
  <2>1. hub' = Idle /\ doc' = doc /\ hubDoc' = NoDoc /\ UNCHANGED Host
    BY <1>2 DEF Allocate, Done, Save, Host
  <2> QED  BY <1>1, <2>1, TypedIdle, TypedHost, TypedHub
<1>3. CASE ips # {}
  <2>1. ip \in PublicIps /\ ip \in IPs
    BY <1>1, <1>3, AllocatesInRange, Ranges
  <2>2. /\ doc' = Assigned(hubDoc, ip, hub.vm, MacOf(hub.vm), hub.pool) /\ hubDoc' = NoDoc
        /\ public' = [public EXCEPT ![hub.vm] = ip]
        /\ UNCHANGED <<sync, vms, dhcp, arp, nat, starts, resyncs>>
        /\ hub' = (IF hub.pool \in Bridged THEN Idle ELSE [hub EXCEPT !.at = "nat", !.ip = ip])
    BY <1>3 DEF Allocate, Save, Done
  <2> HIDE DEF ip
  <2>3. doc' \in Docs
    BY <1>1, <2>1, <2>2, CallsKeepDocs
  <2>4. hub' \in HubState /\ HubTyped'
    BY <1>1, <2>1, <2>2, TypedIdle DEF HubTyped, HubState
  <2>5. HostTyped'
    BY <1>1, <2>1, <2>2 DEF HostTyped, RuleBag
  <2> QED  BY <1>1, <2>2, <2>3, <2>4, <2>5, TypedHub
<1> QED  BY <1>2, <1>3

(* The requests that start a NAT thread.                                   *)
LEMMA TypedThreads ==
  ASSUME Typed, doc' \in Docs \cup {Torn}, hubDoc' \in Docs \cup {NoDoc},
         hub' \in HubState, HubTyped', HostTyped', DOMAIN sync' = Threads,
         \A t \in Threads : sync'[t] \in {sync[t], NoThread} \/ ThreadTyped(t)'
  PROVE  Typed'
BY DEF Typed, ThreadsTyped, ThreadTyped

LEMMA TypedSpawn ==
  ASSUME Typed, FreeThreads # {}, NEW v \in Vms, NEW p \in IPs, Spawn(v, p)
  PROVE  DOMAIN sync' = Threads /\ \A t \in Threads : sync'[t] \in {sync[t], NoThread} \/ ThreadTyped(t)'
<1> DEFINE t0 == CHOOSE t \in FreeThreads : TRUE
           new == [at |-> "wait", vm |-> v, pub |-> p, ip |-> NoIp, snap |-> NoDoc]
<1>1. t0 \in Threads
  BY DEF FreeThreads
<1>2. DOMAIN sync = Threads
  BY DEF Typed
<1>3. sync' = [sync EXCEPT ![t0] = new]
  BY DEF Spawn
<1>4. new \in ThreadState /\ new.at = "wait"
  BY DEF ThreadState
<1> HIDE DEF t0, new
<1>5. DOMAIN sync' = Threads /\ \A t \in Threads : sync'[t] \in {sync[t], new}
  BY <1>1, <1>2, <1>3
<1>6. \A t \in Threads : sync'[t] = new => ThreadTyped(t)'
  BY <1>4 DEF ThreadTyped
<1> QED  BY <1>5, <1>6

LEMMA TypedStarts ==
  ASSUME Typed, RecordInternal \/ \E v \in Vms : Start(v)
  PROVE  Typed'
<1>0. /\ HostTyped /\ doc \in Docs \cup {Torn} /\ hubDoc \in Docs \cup {NoDoc}
      /\ hub \in HubState /\ HubTyped /\ DOMAIN sync = Threads
  BY DEF Typed
<1>1. CASE RecordInternal
  <2>1. hub.vm \in Vms /\ hub.ip \in IPs /\ MacOf(hub.vm) \in Macs /\ hubDoc \in Docs
    BY <1>0, <1>1 DEF RecordInternal, Loaded, HubTyped, Macs
  <2>2. Formula[hub.vm] \in IPs
    BY <2>1, NetworkConstants, Ranges
  <2>3. doc' \in Docs /\ hubDoc' = NoDoc /\ hub' = Idle /\ UNCHANGED Host
    BY <1>1, <2>1, <2>2, CallsKeepDocs DEF RecordInternal, Save, Done
  <2>4. DOMAIN sync' = Threads /\ \A t \in Threads : sync'[t] \in {sync[t], NoThread} \/ ThreadTyped(t)'
    BY <1>1, <2>1, TypedSpawn DEF RecordInternal
  <2> QED  BY <1>0, <2>3, <2>4, TypedIdle, TypedHost, TypedThreads
<1>2. ASSUME NEW v \in Vms, Start(v) PROVE Typed'
  <2>1. PICK ip \in Nic(v) : arp' = [arp EXCEPT ![v] = ip]
    BY <1>2 DEF Start
  <2>2. ip \in IPs
    BY <1>0, <2>1, Ranges DEF Nic, HostTyped
  <2>3. HostTyped'
    BY <1>0, <1>2, <2>1, <2>2, NetworkConstants DEF Start, HostTyped, RuleBag
  <2>4. UNCHANGED <<doc, hub, hubDoc>> /\ HubTyped'
    BY <1>0, <1>2 DEF Start, HubTyped
  <2>5. DOMAIN sync' = Threads /\ \A t \in Threads : sync'[t] \in {sync[t], NoThread} \/ ThreadTyped(t)'
    <3>1. CASE FreeThreads # {} /\ \E p \in Labelled(v) : Spawn(v, p)
      BY <3>1, TypedSpawn DEF Labelled
    <3>2. CASE UNCHANGED sync
      BY <1>0, <3>2
    <3> QED  BY <1>2, <3>1, <3>2 DEF Start
  <2> QED  BY <1>0, <2>3, <2>4, <2>5, TypedThreads
<1> QED  BY <1>1, <1>2

LEMMA TypedThreadSteps == ASSUME Typed, Thread PROVE Typed'
<1>0. PICK t \in Threads :
        SeeArp(t) \/ GiveUp(t) \/ CleanNat(t) \/ AddNat(t) \/ LoadDoc(t) \/ SaveDoc(t)
  BY DEF Thread
<1>1. /\ sync[t] # NoThread /\ ThreadTyped(t) /\ sync[t] \in ThreadState /\ DOMAIN sync = Threads
      /\ HostTyped /\ doc \in Docs \cup {Torn} /\ hubDoc \in Docs \cup {NoDoc}
  BY <1>0 DEF SeeArp, GiveUp, CleanNat, AddNat, LoadDoc, SaveDoc, At, Typed, ThreadsTyped, ThreadTyped
<1>2. UNCHANGED <<hub, hubDoc>> /\ hub' \in HubState /\ HubTyped'
  BY <1>0 DEF SeeArp, GiveUp, CleanNat, AddNat, LoadDoc, SaveDoc, Typed, HubTyped
<1>3. DOMAIN sync' = Threads /\ \A s \in Threads \ {t} : sync'[s] = sync[s]
  BY <1>0, <1>1 DEF SeeArp, GiveUp, CleanNat, AddNat, LoadDoc, SaveDoc, End, Step
<1>4. doc' \in Docs \cup {Torn} /\ HostTyped'
  <2>1. CASE SaveDoc(t)
    BY <1>1, <2>1, TypedHost DEF SaveDoc, At, ThreadTyped
  <2>2. CASE CleanNat(t) \/ AddNat(t)
    <3>1. sync[t].pub \in IPs /\ sync[t].ip \in IPs
      BY <1>1, <2>2, Ranges DEF CleanNat, AddNat, At, ThreadTyped, ThreadState
    <3>2. RuleBag(nat')
      BY <1>1, <2>2, <3>1, RulesWithout, RulesPlus DEF CleanNat, AddNat, HostTyped
    <3> QED  BY <1>1, <2>2, <3>2 DEF CleanNat, AddNat, HostTyped
  <2> QED  BY <1>0, <1>1, <2>1, <2>2, TypedHost DEF SeeArp, GiveUp, LoadDoc
<1>5. sync'[t] = NoThread \/ ThreadTyped(t)'
  <2>1. CASE SeeArp(t)
    <3> DEFINE ip == arp[sync[t].vm]
    <3>1. ip \in IPs
      BY <1>1, <2>1 DEF SeeArp, HostTyped, ThreadState
    <3> HIDE DEF ip
    <3>2. sync'[t] = [sync[t] EXCEPT !.at = "clean", !.ip = ip]
      BY <1>1, <2>1 DEF SeeArp, ip
    <3> QED  BY <1>1, <3>1, <3>2 DEF ThreadTyped, ThreadState
  <2>2. CASE CleanNat(t) \/ AddNat(t)
    <3>1. PICK at \in {"add", "load"} : sync'[t] = [sync[t] EXCEPT !.at = at]
      BY <1>1, <2>2 DEF CleanNat, AddNat, Step
    <3>2. sync[t].ip \in IPs
      BY <1>1, <2>2 DEF CleanNat, AddNat, At, ThreadTyped
    <3> QED  BY <1>1, <3>1, <3>2 DEF ThreadTyped, ThreadState
  <2>3. CASE End(t)
    BY <1>1, <2>3 DEF End
  <2>4. ASSUME LoadDoc(t), doc # Torn, NEW old \in ToMove(doc, sync[t].vm),
               sync' = [sync EXCEPT ![t].at = "save", ![t].snap = Moved(doc, old, sync[t].ip)]
        PROVE  ThreadTyped(t)'
    <3> DEFINE snap == Moved(doc, old, sync[t].ip)
    <3>1. sync[t].ip \in IPs /\ old \in IPs
      BY <1>1, <2>4 DEF LoadDoc, At, ThreadTyped, ToMove, InternalOf, Entries
    <3>2. snap \in Docs
      BY <1>1, <2>4, <3>1, CallsKeepDocs
    <3> HIDE DEF snap
    <3>3. sync'[t] = [sync[t] EXCEPT !.at = "save", !.snap = snap]
      BY <1>1, <2>4 DEF snap
    <3> QED  BY <1>1, <3>1, <3>2, <3>3 DEF ThreadTyped, ThreadState
  <2> QED  BY <1>0, <2>1, <2>2, <2>3, <2>4 DEF GiveUp, LoadDoc, SaveDoc
<1> QED  BY <1>1, <1>2, <1>3, <1>4, <1>5, TypedThreads

LEMMA TypedStart == ASSUME Init PROVE Typed
<1>1. doc \in Docs
  BY DEF Init, Docs
<1>2. RuleBag(nat)
  BY DEF Init, EmptyBag, SetToBag, RuleBag, IsABag, BagToSet
<1>3. HostTyped
  BY <1>2, NetworkConstants DEF Init, HostTyped
<1> QED  BY <1>1, <1>3, IdleHub DEF Init, Typed, HubTyped, ThreadsTyped, Idle

LEMMA TypedNext == ASSUME Typed, [Next]_vars PROVE Typed'
<1>1. CASE UNCHANGED vars
  BY <1>1, TypedHost, TypedHub DEF vars, Host, Typed, HubTyped
<1>2. CASE Hub
  BY <1>2, TypedCalls, TypedRequests, TypedReads, TypedCommands, TypedAllocates, TypedStarts DEF Hub
<1>3. CASE Thread
  BY <1>3, TypedThreadSteps
<1>4. CASE Crash
  <2>1. /\ UNCHANGED Host /\ hub' = Idle /\ hubDoc' = NoDoc /\ doc' \in {doc, Torn}
        /\ DOMAIN sync' = Threads /\ \A t \in Threads : sync'[t] = NoThread
    BY <1>4 DEF Crash
  <2> QED  BY <2>1, TypedIdle, TypedHost, TypedThreads DEF Typed
<1> QED  BY <1>1, <1>2, <1>3, <1>4 DEF Next

(* The document, the handler's locals, libvirt, the ARP table, the bag of  *)
(* DNAT rules and the threads keep their types, whatever fails and         *)
(* whomever nat-sync is asked for: every entry ip_pool.json ever holds is  *)
(* one of a known VM and pool, and no rule is ever counted zero times.     *)
THEOREM TypeCorrect == Spec => []TypeOK
<1>1. Init => Typed
  BY TypedStart
<1>2. Typed /\ [Next]_vars => Typed'
  BY TypedNext
<1>3. Typed => TypeOK
  BY TypedIsTypeOK
<1> QED  BY <1>1, <1>2, <1>3, PTL DEF Spec

-----------------------------------------------------------------------------
(***************************************************************************)
(* While libvirt does what it is told and the process is not killed.  The  *)
(* address a VM is seen with is then the one its record names, so no       *)
(* thread has anything to save and only the hub writes the document; what  *)
(* the document says of a VM follows from how far its request has come.    *)
(***************************************************************************)
Calm == Reliable /\ ~Crashes /\ Resynced \cap Bridged = {}

HubWrites ==
  doc # Torn /\ hubDoc \in {doc, NoDoc} /\ \A t \in Threads : ~At(t, "save")

Reserved ==
  \A v \in Vms : Natted(v) =>
    /\ arp[v] \in {NoIp, Formula[v]}
    /\ Exists(v) => dhcp[v] = Formula[v] \/ (hub.at = "nat" /\ hub.vm = v)

SeenAtFormula ==
  \A t \in Threads :
    sync[t] # NoThread /\ sync[t].at # "wait" /\ Natted(sync[t].vm)
      => sync[t].ip = Formula[sync[t].vm]

AtFormula ==
  /\ \A v \in Vms : InternalOf(doc, v) \subseteq {Formula[v]}
  /\ hub.at \in {"resync", "move"} => hub.to = Formula[hub.vm]

Quiet == HubWrites /\ Reserved /\ SeenAtFormula /\ AtFormula

(* Under a handler that has the temporary reservation, or has just dropped *)
(* it, the address of the VM is not yet on record as the VM's.             *)
Claiming(v) == hub.vm = v /\ hub.at \in {"dropPre", "claim"}

Owners ==
  \A v \in Vms : Exists(v) /\ public[v] # NoIp =>
    Claiming(v) \/ (doc[public[v]] # Free /\ doc[public[v]].vm_id = v)

Holding   == {"define", "dropPre", "undoPre"}
Releasing == {"release", "releaseMac"}

Temporary ==
  /\ hub.at = "claim" => doc[hub.ip] = Free
  /\ hub.at \in Holding /\ hub.ip # NoIp =>
       doc[hub.ip] # Free /\ doc[hub.ip].vm_id = PreId(hub.vm)
  /\ \A v \in Vms : Entries(doc, PreId(v)) \subseteq
       IF hub.vm = v /\ hub.at \in Holding THEN {hub.ip} ELSE {}

Gone ==
  \A v \in Vms : vms[v] = "gone" =>
    Entries(doc, v) = {} \/ (hub.vm = v /\ hub.at = "release")

Present ==
  /\ hub.at \notin {"idle", "preAlloc", "define", "undoPre"} \cup Releasing => Exists(hub.vm)
  /\ hub.at \in Releasing => ~Exists(hub.vm)

Books == Owners /\ Temporary /\ Gone /\ Present

CalmInv == NetInv /\ Quiet /\ Books

(* No load fails, and no thread has anything to save. *)
LEMMA NothingToSave ==
  ASSUME CalmInv
  PROVE  /\ ~HubLoadFails /\ ~LookUpFails
         /\ \A t \in Threads : ~SaveDoc(t) /\ (LoadDoc(t) => End(t) /\ UNCHANGED <<doc, hub, hubDoc, Host>>)
<1>1. ~Unloadable
  BY DEF CalmInv, Quiet, HubWrites, Unloadable, At, FreeThreads
<1>2. ASSUME NEW t \in Threads, LoadDoc(t) PROVE End(t) /\ UNCHANGED <<doc, hub, hubDoc, Host>>
  <2>1. sync[t] # NoThread /\ ThreadOk(t) /\ sync[t].at = "load" /\ sync[t].vm \in Vms
    BY <1>2, InThread DEF LoadDoc, At, CalmInv, ThreadOk, ThreadState
  <2>2. ASSUME NEW old \in InternalOf(doc, sync[t].vm) PROVE old = sync[t].ip
    <3>1. EntryOk(public, arp, old, doc[old]) /\ doc[old].pool = Internal
          /\ doc[old].vm_id = sync[t].vm
      BY <2>2 DEF CalmInv, NetInv, CopiesSound, Quiet, HubWrites, Sound, InternalOf, Entries
    <3>2. Natted(sync[t].vm)
      BY <2>1, <3>1, NetworkConstants DEF EntryOk, Natted
    <3> QED  BY <2>1, <2>2, <3>2 DEF CalmInv, Quiet, SeenAtFormula, AtFormula
  <2> QED  BY <1>2, <2>2 DEF LoadDoc, ToMove
<1> QED  BY <1>1, <1>2 DEF HubLoadFails, LookUpFails, SaveDoc, CalmInv, Quiet, HubWrites

(* Steps that leave the document alone, and every VM where it is.          *)
HubGoesOn ==
  \/ hub' = hub
  \/ /\ hub.at \notin Holding \cup Releasing \cup {"claim"}
     /\ hub.at = "nat" => dhcp'[hub.vm] = Formula[hub.vm]
     /\ hub'.at \notin Releasing \cup {"dropPre", "undoPre", "claim", "nat"}
     /\ hub'.at = "define" => hub'.ip = NoIp
     /\ hub'.at \in {"resync", "move"} => hub'.to = Formula[hub'.vm]
     /\ hub'.at \in {"idle", "preAlloc", "define"} \/ Exists(hub'.vm)

LEMMA NoWrite ==
  ASSUME CalmInv, NetInv', UNCHANGED <<doc, public>>, hubDoc' \in {doc, hubDoc, NoDoc}, HubGoesOn,
         \A v \in Vms : (Exists(v) <=> Exists(v)') /\ (vms'[v] = "gone" => vms[v] = "gone"),
         \A v \in Vms : Natted(v) => arp'[v] \in {arp[v], Formula[v]},
         \A v \in Vms : dhcp'[v] \in {dhcp[v], Formula[v]},
         \A t \in Threads :
           \/ sync'[t] \in {sync[t], NoThread}
           \/ sync'[t].at = "wait"
           \/ /\ sync'[t].at # "save" /\ sync'[t].vm = sync[t].vm
              /\ Natted(sync[t].vm) => sync'[t].ip = Formula[sync[t].vm]
  PROVE  CalmInv'
<1>0. \A v \in Vms : /\ Exists(v) <=> Exists(v)'
                     /\ vms'[v] = "gone" => vms[v] = "gone"
  OBVIOUS
<1>1. HubWrites'
  BY DEF CalmInv, Quiet, HubWrites, At
<1>2. Reserved'
  <2>1. \A v \in Vms : Natted(v) <=> Natted(v)'
    BY DEF Natted
  <2>2. \A v \in Vms : hub.at = "nat" /\ hub.vm = v =>
          dhcp'[v] = Formula[v] \/ (hub'.at = "nat" /\ hub'.vm = v)
    BY DEF HubGoesOn
  <2> QED  BY <1>0, <2>1, <2>2 DEF CalmInv, Quiet, Reserved
<1>3. SeenAtFormula' /\ AtFormula'
  BY DEF CalmInv, Quiet, SeenAtFormula, AtFormula, Natted, InternalOf, Entries, HubGoesOn
<1>4. Owners'
  <2>1. \A v \in Vms : Claiming(v) => Claiming(v)'
    BY DEF Claiming, HubGoesOn, Holding
  <2> QED  BY <1>0, <2>1 DEF CalmInv, Books, Owners
<1>5. Gone'
  <2>1. hub.at = "release" => hub' = hub
    BY DEF HubGoesOn, Releasing
  <2>2. \A v \in Vms : Entries(doc', v) = Entries(doc, v)
    BY DEF Entries
  <2> QED  BY <1>0, <2>1, <2>2 DEF CalmInv, Books, Gone
<1>6. Temporary'
  <2>1. \A v \in Vms : Entries(doc', PreId(v)) = Entries(doc, PreId(v))
    BY DEF Entries
  <2>2. CASE hub' = hub
    BY <2>1, <2>2 DEF CalmInv, Books, Temporary
  <2>3. CASE hub.at \notin Holding /\ hub'.at # "claim" /\ (hub'.at \in Holding => hub'.ip = NoIp)
    BY <2>1, <2>3 DEF CalmInv, Books, Temporary
  <2> QED  BY <2>2, <2>3 DEF HubGoesOn, Holding
<1>7. Present'
  <2>1. CASE hub' = hub /\ hub.at \notin {"idle", "preAlloc", "define", "undoPre"} \cup Releasing
    <3>1. hub.vm \in Vms
      BY <2>1 DEF CalmInv, NetInv, HubOk
    <3> QED  BY <1>0, <2>1, <3>1 DEF CalmInv, Books, Present, Releasing
  <2>2. CASE hub' = hub /\ hub.at \in {"idle", "preAlloc", "define", "undoPre"} \cup Releasing
    <3>1. hub.at \in Releasing => hub.vm \in Vms
      BY DEF CalmInv, NetInv, HubOk, Releasing
    <3> QED  BY <1>0, <2>2, <3>1 DEF CalmInv, Books, Present, Releasing
  <2>3. CASE hub'.at \notin Releasing /\ (hub'.at \in {"idle", "preAlloc", "define"} \/ Exists(hub'.vm))
    <3>1. hub'.at # "idle" => hub'.vm \in Vms
      BY DEF NetInv, HubOk
    <3> QED  BY <1>0, <2>3, <3>1 DEF Present
  <2> QED  BY <2>1, <2>2, <2>3 DEF HubGoesOn
<1> QED  BY <1>1, <1>2, <1>3, <1>4, <1>5, <1>6, <1>7 DEF CalmInv, Quiet, Books

LEMMA CalmRequests ==
  ASSUME CalmInv, NetInv', NEW v \in Vms,
         (\E p \in PoolNames : Create(v, p)) \/ Stop(v) \/ Delete(v) \/ NatSync(v)
  PROVE  CalmInv'
<1>1. UNCHANGED <<doc, public, hubDoc, sync, arp, dhcp>> /\ hub.at = "idle"
  <2>1. CASE \E p \in PoolNames : Create(v, p)
    <3>1. hub = Idle /\ UNCHANGED <<doc, hubDoc, sync, Host>>
      BY <2>1 DEF Create
    <3> QED  BY <3>1 DEF Host, Idle
  <2>2. CASE Stop(v)
    BY <2>2 DEF Stop, Idle
  <2>3. CASE Delete(v)
    BY <2>3 DEF Delete, Host, Idle
  <2>4. CASE NatSync(v)
    BY <2>4 DEF NatSync, Idle
  <2> QED  BY <2>1, <2>2, <2>3, <2>4
<1>2. \A u \in Vms : (Exists(u) <=> Exists(u)') /\ (vms'[u] = "gone" => vms[u] = "gone")
  BY HostTypes DEF Create, Stop, Delete, NatSync, Host, Exists, CalmInv
<1>3. HubGoesOn
  <2>1. CASE \E p \in PoolNames : Create(v, p)
    BY <1>1, <2>1 DEF Create, Idle, HubGoesOn, Holding, Releasing
  <2>2. CASE Stop(v)
    BY <2>2 DEF Stop, HubGoesOn
  <2>3. CASE Delete(v)
    BY <1>1, <2>3 DEF Delete, Idle, HubGoesOn, Holding, Releasing, Exists
  <2>4. CASE NatSync(v)
    <3>1. PICK ip \in Labelled(v), seen \in Seen(v) :
            hub' = [Idle EXCEPT !.at = IF seen = NoIp THEN "recorded" ELSE "resync",
                                !.vm = v, !.ip = ip, !.to = seen]
      BY <2>4 DEF NatSync
    <3>2. /\ hub'.at = (IF seen = NoIp THEN "recorded" ELSE "resync")
          /\ hub'.vm = v /\ hub'.to = seen
      BY <3>1 DEF Idle
    <3>3. CASE seen # NoIp
      <4>1. Natted(v)'
        BY <3>2, <3>3 DEF NetInv, HubOk
      <4>2. arp[v] \in {NoIp, Formula[v]} /\ seen = arp[v]
        BY <1>1, <3>1, <3>3, <4>1 DEF Seen, CalmInv, Quiet, Reserved, Natted
      <4> QED  BY <1>1, <2>4, <3>2, <3>3, <4>2 DEF HubGoesOn, Holding, Releasing, Exists, NatSync
    <3>4. CASE seen = NoIp
      BY <1>1, <2>4, <3>2, <3>4 DEF HubGoesOn, Holding, Releasing, Exists, NatSync
    <3> QED  BY <3>3, <3>4
  <2> QED  BY <2>1, <2>2, <2>3, <2>4
<1> QED  BY <1>1, <1>2, <1>3, NoWrite

(* A VM behind NAT comes up with its reserved address. *)
LEMMA CalmStarts == ASSUME CalmInv, NetInv', NEW v \in Vms, Start(v) PROVE CalmInv'
<1>1. PICK ip \in Nic(v) : arp' = [arp EXCEPT ![v] = ip]
  BY DEF Start
<1>2. /\ UNCHANGED <<doc, hub, hubDoc, public, dhcp>> /\ hub.at = "idle" /\ vms[v] = "off"
      /\ \A u \in Vms : u # v => arp'[u] = arp[u] /\ vms'[u] = vms[u]
      /\ arp'[v] = ip /\ vms'[v] = "running"
  BY <1>1, HostTypes DEF Start, Idle, CalmInv, NetInv, TypeOK
<1>3. Natted(v) => ip = Formula[v]
  <2>1. Natted(v) => dhcp[v] = Formula[v] /\ ~(\E p \in Bridged : public[v] \in PoolRange[p])
    BY <1>2 DEF CalmInv, Quiet, Reserved, Exists, Natted, OnBridge
  <2>2. Formula[v] # NoIp
    BY Ranges, NetworkConstants
  <2> QED  BY <2>1, <2>2 DEF Nic
<1>4. \A t \in Threads : sync'[t] = sync[t] \/ sync'[t].at = "wait"
  <2>1. CASE FreeThreads # {} /\ \E p \in Labelled(v) : Spawn(v, p)
    BY <2>1, Spawned DEF Labelled, CalmInv
  <2> QED  BY <2>1 DEF Start
<1>5. HubGoesOn
  BY <1>2 DEF HubGoesOn
<1> QED  BY <1>2, <1>3, <1>4, <1>5, NoWrite DEF Exists

LEMMA CalmReads ==
  ASSUME CalmInv, NetInv', HubLoad \/ LookUp \/ TakeRecorded \/ ResetNat \/ MoveInternal
  PROVE  CalmInv'
<1>0. /\ hub.at # "idle" => hub.vm \in Vms
      /\ hub \in HubState /\ doc # Torn /\ hubDoc \in {doc, NoDoc}
  BY HostTypes DEF CalmInv, NetInv, HubOk, Quiet, HubWrites
<1>1. UNCHANGED <<doc, public, sync, vms, arp, dhcp>> /\ hubDoc' \in {doc, hubDoc, NoDoc}
  <2>1. CASE MoveInternal
    <3>1. ToMove(hubDoc, hub.vm) \subseteq {hub.to}
      BY <1>0, <2>1 DEF MoveInternal, Loaded, ToMove, CalmInv, Quiet, AtFormula
    <3> QED  BY <2>1, <3>1 DEF MoveInternal, Save, Host
  <2> QED  BY <2>1 DEF HubLoad, LookUp, TakeRecorded, ResetNat, Host
<1>2. HubGoesOn /\ (hubDoc' = doc \/ hubDoc' = hubDoc \/ hubDoc' = NoDoc)
  <2>1. CASE HubLoad
    BY <2>1, <1>1 DEF HubLoad, HubGoesOn
  <2>2. CASE LookUp
    BY <1>0, <1>1, <2>2 DEF LookUp, HubGoesOn, HubState, Holding, Releasing, CalmInv, Books, Present
  <2>3. CASE TakeRecorded
    BY <1>0, <1>1, <2>3 DEF TakeRecorded, Goto, HubGoesOn, HubState, Holding, Releasing, CalmInv, Books, Present, 
                            Quiet, AtFormula
  <2>4. CASE ResetNat
    BY <1>0, <1>1, <2>4 DEF ResetNat, Goto, HubGoesOn, HubState, Holding, Releasing, CalmInv, Books, Present, 
                            Quiet, AtFormula
  <2>5. CASE MoveInternal
    BY <1>0, <1>1, <2>5 DEF MoveInternal, Loaded, Done, Idle, HubGoesOn, Holding, Releasing
  <2> QED  BY <2>1, <2>2, <2>3, <2>4, <2>5
<1> QED  BY <1>1, <1>2, NoWrite DEF Exists

LEMMA CalmReserves ==
  ASSUME Calm, CalmInv, NetInv', SetUpNat \/ ReserveDerived
  PROVE  CalmInv'
<1>1. /\ hub.vm \in Vms /\ hub \in HubState /\ Exists(hub.vm)
      /\ dhcp \in [Vms -> InternalIps \cup {NoIp}]
  BY HostTypes DEF SetUpNat, ReserveDerived, CalmInv, NetInv, HubOk, Books, Present, Releasing
<1>2. /\ UNCHANGED <<doc, hubDoc, sync, vms, public, arp>>
      /\ dhcp' = [dhcp EXCEPT ![hub.vm] = Formula[hub.vm]]
  BY DEF SetUpNat, ReserveDerived, Calm
<1>3. \A v \in Vms : dhcp'[v] \in {dhcp[v], Formula[v]}
  BY <1>1, <1>2
<1>4. HubGoesOn
  BY <1>1, <1>2 DEF SetUpNat, ReserveDerived, Goto, HubGoesOn, HubState, Holding, Releasing
<1> QED  BY <1>2, <1>3, <1>4, NoWrite DEF Exists

LEMMA CalmThreads ==
  ASSUME CalmInv, NetInv', Thread
  PROVE  CalmInv'
<1>1. PICK t \in Threads :
        SeeArp(t) \/ GiveUp(t) \/ CleanNat(t) \/ AddNat(t) \/ LoadDoc(t)
  BY NothingToSave DEF Thread
<1>2. UNCHANGED <<doc, hub, hubDoc, vms, public, arp, dhcp>>
  BY <1>1 DEF SeeArp, GiveUp, CleanNat, AddNat, LoadDoc, Host
<1>3. /\ sync[t] # NoThread /\ sync[t] \in ThreadState /\ DOMAIN sync = Threads
      /\ ThreadOk(t)
  BY <1>1, InThread DEF SeeArp, GiveUp, CleanNat, AddNat, LoadDoc, At, CalmInv
<1>4. \A u \in Threads :
        \/ sync'[u] \in {sync[u], NoThread}
        \/ /\ sync'[u].at # "save" /\ sync'[u].vm = sync[u].vm
           /\ Natted(sync[u].vm) => sync'[u].ip = Formula[sync[u].vm]
  <2>1. CASE SeeArp(t)
    <3>1. /\ sync'[t] = [sync[t] EXCEPT !.at = "clean", !.ip = arp[sync[t].vm]]
          /\ \A u \in Threads \ {t} : sync'[u] = sync[u]
      BY <1>3, <2>1 DEF SeeArp
    <3>2. sync'[t].at = "clean" /\ sync'[t].vm = sync[t].vm /\ sync'[t].ip = arp[sync[t].vm]
      BY <1>3, <3>1 DEF ThreadState
    <3>3. sync[t].vm \in Vms /\ arp[sync[t].vm] # NoIp
      BY <1>3, <2>1 DEF SeeArp, ThreadState
    <3>4. Natted(sync[t].vm) => arp[sync[t].vm] = Formula[sync[t].vm]
      BY <3>3 DEF CalmInv, Quiet, Reserved
    <3> QED  BY <3>1, <3>2, <3>4
  <2>2. CASE End(t)
    BY <1>3, <2>2 DEF End
  <2>3. CASE CleanNat(t) \/ AddNat(t)
    <3>1. PICK at \in {"add", "load"} : sync' = [sync EXCEPT ![t].at = at]
      BY <2>3 DEF CleanNat, AddNat, Step
    <3>2. /\ sync'[t] = [sync[t] EXCEPT !.at = at]
          /\ \A u \in Threads \ {t} : sync'[u] = sync[u]
      BY <1>3, <3>1
    <3>3. sync'[t].at = at /\ sync'[t].vm = sync[t].vm /\ sync'[t].ip = sync[t].ip
      BY <1>3, <3>2 DEF ThreadState
    <3>4. sync[t].at # "wait"
      BY <2>3 DEF CleanNat, AddNat, At
    <3> QED  BY <1>3, <3>2, <3>3, <3>4 DEF CalmInv, Quiet, SeenAtFormula
  <2> QED  BY <1>1, <2>1, <2>2, <2>3, NothingToSave DEF GiveUp
<1>5. HubGoesOn
  BY <1>2 DEF HubGoesOn
<1> QED  BY <1>2, <1>4, <1>5, NoWrite DEF Exists

(* A call of the pool manager works on the document as it is.              *)
LEMMA CalmCall ==
  ASSUME CalmInv, NEW at, Loaded(at), at # "idle"
  PROVE  /\ hubDoc = doc /\ Sound(public, arp, doc) /\ doc \in Docs
         /\ hub.at = at /\ hub.vm \in Vms /\ hub \in HubState
BY InCall DEF CalmInv, Quiet, HubWrites, Loaded, Sound

(* Writing the document disturbs no thread, and no VM's reservation.       *)
LEMMA CalmWrite ==
  ASSUME CalmInv, NetInv', UNCHANGED <<sync, vms, public, dhcp, arp>>,
         doc' \in Docs, hubDoc' = NoDoc, hub.at # "nat", hub'.at \notin {"resync", "move"},
         \A v \in Vms : InternalOf(doc', v) \subseteq {Formula[v]}
  PROVE  Quiet'
<1>1. HubWrites'
  BY NetworkConstants DEF CalmInv, Quiet, HubWrites, At
<1>2. Reserved' /\ SeenAtFormula'
  BY DEF CalmInv, Quiet, Reserved, SeenAtFormula, Natted, Exists
<1>3. AtFormula'
  BY DEF AtFormula
<1> QED  BY <1>1, <1>2, <1>3 DEF Quiet

(* What a release does to the entries of another VM, and what it leaves.   *)
LEMMA ReleasedEntries ==
  ASSUME NEW d \in Docs, NEW u
  PROVE  /\ Released(d, u) \in Docs
         /\ \A w : Entries(Released(d, u), w) = IF w = u THEN {} ELSE Entries(d, w)
         /\ \A w : InternalOf(Released(d, u), w) \subseteq InternalOf(d, w)
         /\ \A ip \in IPs : d[ip] # Free /\ d[ip].vm_id # u => Released(d, u)[ip] = d[ip]
         /\ \A ip \in IPs : d[ip] # Free /\ d[ip].vm_id = u => Released(d, u)[ip] = Free
BY DEF Released, Entries, InternalOf, Docs

LEMMA AssignedEntries ==
  ASSUME NEW d \in Docs, NEW ip \in IPs, NEW u \in Vms \cup PreIds, NEW m \in Macs \cup {NoMac},
         NEW p \in PoolNames \cup {Internal}
  PROVE  LET d2 == Assigned(d, ip, u, m, p)
         IN  /\ d2 \in Docs
             /\ d2[ip] # Free /\ d2[ip].vm_id = u
             /\ \A i \in IPs \ {ip} : d2[i] = d[i]
             /\ \A w : w # u => Entries(d2, w) \subseteq Entries(d, w)
             /\ Entries(d2, u) \subseteq Entries(d, u) \cup {ip}
             /\ \A w : InternalOf(d2, w) \subseteq
                  InternalOf(d, w) \cup (IF w = u /\ p = Internal THEN {ip} ELSE {})
<1> DEFINE e  == NewEntry(u, m, p)
           d2 == Assigned(d, ip, u, m, p)
<1>1. e \in Entry /\ e.vm_id = u /\ e.pool = p
  BY DEF NewEntry, Entry
<1>2. e # Free
  BY <1>1, NetworkConstants
<1>3. d2 \in Docs /\ d2[ip] = e /\ \A i \in IPs \ {ip} : d2[i] = d[i]
  BY <1>1 DEF Assigned, Docs
<1>4. \A w : /\ w # u => Entries(d2, w) \subseteq Entries(d, w)
             /\ Entries(d2, w) \subseteq Entries(d, w) \cup {ip}
             /\ InternalOf(d2, w) \subseteq
                  InternalOf(d, w) \cup (IF w = u /\ p = Internal THEN {ip} ELSE {})
  BY <1>1, <1>3 DEF Entries, InternalOf
<1> QED  BY <1>1, <1>2, <1>3, <1>4

(* An address that a pool can give away has no entry at all.               *)
LEMMA AllocatesFree ==
  ASSUME NEW pub, NEW seen, NEW d, Sound(pub, seen, d), NEW p \in PoolNames,
         Allocatable(d, p) # {}
  PROVE  LET ip == Lowest(Allocatable(d, p)) IN ip \in PoolRange[p] /\ ip \in IPs /\ d[ip] = Free
<1> DEFINE ip == Lowest(Allocatable(d, p))
<1>1. Allocatable(d, p) \in SUBSET Nat
  BY Ranges DEF Allocatable, Available
<1>2. ip \in Allocatable(d, p)
  BY <1>1, LowestIn
<1>3. ip \in PoolRange[p] /\ ip \in IPs /\ ip \notin InternalIps
  BY <1>2, Ranges, NetworkConstants DEF Allocatable, Available
<1>4. ASSUME d[ip] # Free PROVE FALSE
  <2>1. ip \in Place(d[ip].pool) /\ d[ip].pool # p
    BY <1>2, <1>3, <1>4 DEF Sound, EntryOk, Allocatable, Available
  <2>2. d[ip].pool \in PoolNames \cup {Internal}
    BY <1>3, <1>4 DEF Sound, Docs, Entry
  <2> QED  BY <1>3, <2>1, <2>2, NetworkConstants DEF Place
<1> QED  BY <1>3, <1>4

LEMMA PreIdsApart ==
  \A v, w \in Vms : PreId(v) \in PreIds /\ PreId(v) # w /\ (PreId(v) = PreId(w) => v = w)
BY NetworkConstants DEF PreId, PreIds

LEMMA MacsApart == \A v \in Vms : MacOf(v) \in Macs /\ MacOf(v) \notin Vms \cup PreIds
<1>1. \A v, w \in Vms : MacOf(v) # PreId(w)
  BY DEF MacOf, PreId
<1> QED  BY <1>1, NetworkConstants DEF Macs, PreIds

LEMMA NoVmIsNothing == NoVm \notin Vms
BY NetworkConstants

-----------------------------------------------------------------------------
(* The steps that write the document, and those that make or end a VM.     *)

LEMMA CalmDrops ==
  ASSUME CalmInv, NetInv', UndoPre \/ DropPre
  PROVE  CalmInv'
<1>0. PICK u : u = PreId(hub.vm)
  OBVIOUS
<1>1. /\ hubDoc = doc /\ doc \in Docs /\ hub.vm \in Vms /\ hub \in HubState
      /\ hub.at \in {"undoPre", "dropPre"}
  BY CalmCall DEF UndoPre, DropPre, Loaded
<1>2. doc' = Released(doc, u) /\ hubDoc' = NoDoc /\ UNCHANGED <<sync, vms, public, dhcp, arp>>
  BY <1>0, <1>1 DEF UndoPre, DropPre, Save, Host
<1>3. \/ hub.at = "undoPre" /\ hub' = Idle
      \/ /\ hub.at = "dropPre" /\ hub'.at = "claim" /\ hub'.vm = hub.vm /\ hub'.ip = hub.ip
         /\ hub.ip \in IPs
  <2>1. CASE UndoPre
    BY <2>1 DEF UndoPre, Loaded, Done
  <2>2. CASE DropPre
    <3>1. hub.at = "dropPre" /\ hub' = [hub EXCEPT !.at = "claim"]
      BY <2>2 DEF DropPre, Loaded, Goto
    <3>2. hub.ip \in IPs
      BY <3>1, Ranges, NetworkConstants DEF CalmInv, NetInv, HubOk
    <3> QED  BY <1>1, <3>1, <3>2 DEF HubState
  <2> QED  BY <2>1, <2>2
<1>4. /\ doc' \in Docs
      /\ \A w : Entries(doc', w) = IF w = u THEN {} ELSE Entries(doc, w)
      /\ \A w : InternalOf(doc', w) \subseteq InternalOf(doc, w)
      /\ \A ip \in IPs : doc[ip] # Free /\ doc[ip].vm_id # u => doc'[ip] = doc[ip]
      /\ \A ip \in IPs : doc[ip] # Free /\ doc[ip].vm_id = u => doc'[ip] = Free
  BY <1>1, <1>2, ReleasedEntries
<1>5. Quiet'
  BY <1>1, <1>2, <1>3, <1>4, CalmWrite DEF CalmInv, Quiet, AtFormula, Idle
<1>6. Owners'
  <2>1. ASSUME NEW v \in Vms, Exists(v), public[v] # NoIp, ~Claiming(v)'
        PROVE  doc'[public[v]] # Free /\ doc'[public[v]].vm_id = v
    <3>1. ~Claiming(v)
      BY <1>3, <2>1 DEF Claiming
    <3>2. public[v] \in IPs
      BY <2>1, Ranges DEF CalmInv, NetInv, TypeOK
    <3> QED  BY <1>0, <1>1, <1>4, <2>1, <3>1, <3>2, PreIdsApart DEF CalmInv, Books, Owners
  <2> QED  BY <1>2, <2>1 DEF Owners, Exists
<1>7. Temporary'
  <2>1. \A v \in Vms : Entries(doc', PreId(v)) = {}
    BY <1>0, <1>1, <1>3, <1>4 DEF CalmInv, Books, Temporary
  <2>2. hub'.at = "claim" => doc'[hub'.ip] = Free
    <3>1. hub.at = "dropPre" => hub.ip # NoIp /\ doc[hub.ip] # Free /\ doc[hub.ip].vm_id = u
      BY <1>0, <1>3, Ranges DEF CalmInv, Books, Temporary, Holding
    <3> QED  BY <1>3, <1>4, <3>1 DEF Idle
  <2>3. hub'.at \notin Holding
    BY <1>3 DEF Holding, Idle
  <2> QED  BY <2>1, <2>2, <2>3 DEF Temporary
<1>8. Gone'
  BY <1>0, <1>1, <1>2, <1>3, <1>4, PreIdsApart DEF CalmInv, Books, Gone
<1>9. Present'
  BY <1>1, <1>2, <1>3 DEF CalmInv, Books, Present, Releasing, Exists, Idle
<1> QED  BY <1>5, <1>6, <1>7, <1>8, <1>9 DEF CalmInv, Books

LEMMA CalmReleases ==
  ASSUME CalmInv, NetInv', Release
  PROVE  CalmInv'
<1>1. hubDoc = doc /\ doc \in Docs /\ hub.vm \in Vms /\ hub.at = "release"
  BY CalmCall DEF Release
<1>2. /\ doc' = Released(doc, hub.vm) /\ hubDoc' = NoDoc
      /\ UNCHANGED <<sync, vms, public, dhcp, arp>>
      /\ hub'.at = "idle" \/ (hub'.at = "releaseMac" /\ hub'.vm = hub.vm)
  <2>1. hub' = Idle \/ hub' = [hub EXCEPT !.at = "releaseMac"]
    BY DEF Release, Goto, Done
  <2>2. hub \in HubState
    BY HostTypes DEF CalmInv
  <2> QED  BY <1>1, <2>1, <2>2 DEF Release, Save, Host, Idle, HubState
<1>3. /\ doc' \in Docs
      /\ \A w : Entries(doc', w) = IF w = hub.vm THEN {} ELSE Entries(doc, w)
      /\ \A w : InternalOf(doc', w) \subseteq InternalOf(doc, w)
      /\ \A ip \in IPs : doc[ip] # Free /\ doc[ip].vm_id # hub.vm => doc'[ip] = doc[ip]
  BY <1>1, <1>2, ReleasedEntries
<1>4. Quiet'
  BY <1>1, <1>2, <1>3, CalmWrite DEF CalmInv, Quiet, AtFormula
<1>5. Owners'
  <2>1. ASSUME NEW v \in Vms, Exists(v), public[v] # NoIp
        PROVE  doc'[public[v]] # Free /\ doc'[public[v]].vm_id = v
    <3>1. ~Claiming(v) /\ v # hub.vm
      BY <1>1, <2>1 DEF Claiming, CalmInv, Books, Present, Releasing
    <3>2. public[v] \in IPs
      BY <2>1, Ranges DEF CalmInv, NetInv, TypeOK
    <3> QED  BY <1>3, <2>1, <3>1, <3>2 DEF CalmInv, Books, Owners
  <2> QED  BY <1>2, <2>1 DEF Owners, Exists
<1>6. Temporary'
  <2>1. \A v \in Vms : Entries(doc', PreId(v)) = {}
    BY <1>1, <1>3 DEF CalmInv, Books, Temporary, Holding
  <2> QED  BY <1>2, <2>1 DEF Temporary, Holding
<1>7. Gone'
  BY <1>1, <1>2, <1>3 DEF CalmInv, Books, Gone
<1>8. Present'
  BY <1>1, <1>2 DEF CalmInv, Books, Present, Releasing, Exists
<1> QED  BY <1>4, <1>5, <1>6, <1>7, <1>8 DEF CalmInv, Books

(* The release by MAC finds nothing: no entry has a MAC for its owner.     *)
LEMMA CalmReleasesMac ==
  ASSUME CalmInv, NetInv', ReleaseMac
  PROVE  CalmInv' /\ doc' = doc
<1>1. /\ hubDoc = doc /\ doc \in Docs /\ hub.vm \in Vms /\ hub.at = "releaseMac" /\ hub \in HubState
  BY CalmCall DEF ReleaseMac
<1>2. /\ doc' = Released(doc, MacOf(hub.vm)) /\ hubDoc' = NoDoc /\ hub'.at = "idle"
      /\ UNCHANGED <<sync, vms, public, dhcp, arp>>
  BY <1>1 DEF ReleaseMac, Save, Host, Done, Idle
<1>3. Entries(doc, MacOf(hub.vm)) = {}
  <2>1. MacOf(hub.vm) \in Macs /\ MacOf(hub.vm) \notin Vms \cup PreIds
    BY <1>1, MacsApart
  <2>2. \A ip \in IPs : doc[ip] # Free => doc[ip].vm_id \in Vms \cup PreIds
    BY <1>1 DEF Docs, Entry
  <2> QED  BY <2>1, <2>2 DEF Entries
<1>4. doc' = doc
  BY <1>1, <1>2, <1>3 DEF Released, Docs
<1>5. Quiet'
  BY <1>1, <1>2, <1>4, CalmWrite DEF CalmInv, Quiet, AtFormula
<1>6. Owners' /\ Present'
  BY <1>1, <1>2, <1>4 DEF CalmInv, Books, Owners, Present, Releasing, Claiming, Exists
<1>7. Temporary'
  BY <1>1, <1>2, <1>4 DEF CalmInv, Books, Temporary, Holding, Entries
<1>8. Gone'
  BY <1>1, <1>2, <1>4 DEF CalmInv, Books, Gone, Entries
<1> QED  BY <1>4, <1>5, <1>6, <1>7, <1>8 DEF CalmInv, Books

LEMMA CalmClaims ==
  ASSUME CalmInv, NetInv', Claim
  PROVE  CalmInv'
<1>1. /\ hubDoc = doc /\ doc \in Docs /\ hub.vm \in Vms /\ hub.at = "claim"
      /\ MacOf(hub.vm) \in Macs
  BY CalmCall DEF Claim, Macs
<1>2. hub.pool \in PoolNames /\ hub.ip \in IPs /\ public[hub.vm] = hub.ip
  BY <1>1, Ranges, NetworkConstants DEF CalmInv, NetInv, HubOk
<1>3. /\ doc' = Assigned(doc, hub.ip, hub.vm, MacOf(hub.vm), hub.pool)
      /\ hubDoc' = NoDoc /\ hub' = Idle /\ UNCHANGED <<sync, vms, public, dhcp, arp>>
  BY <1>1 DEF Claim, Save, Host, Done
<1>4. hub.pool # Internal
  BY <1>2, NetworkConstants
<1>5. /\ doc' \in Docs
      /\ doc'[hub.ip] # Free /\ doc'[hub.ip].vm_id = hub.vm
      /\ \A i \in IPs \ {hub.ip} : doc'[i] = doc[i]
      /\ \A w : w # hub.vm => Entries(doc', w) \subseteq Entries(doc, w)
      /\ \A w : InternalOf(doc', w) \subseteq InternalOf(doc, w)
  BY <1>1, <1>2, <1>3, <1>4, AssignedEntries
<1>6. Quiet'
  BY <1>1, <1>3, <1>5, CalmWrite DEF CalmInv, Quiet, AtFormula, Idle
<1>7. Owners'
  <2>1. ASSUME NEW v \in Vms, Exists(v), public[v] # NoIp, v # hub.vm
        PROVE  doc'[public[v]] # Free /\ doc'[public[v]].vm_id = v
    <3>1. public[v] \in IPs /\ ~Claiming(v)
      BY <2>1, Ranges DEF CalmInv, NetInv, TypeOK, Claiming
    <3>2. doc[hub.ip] = Free
      BY <1>1 DEF CalmInv, Books, Temporary
    <3> QED  BY <1>5, <2>1, <3>1, <3>2 DEF CalmInv, Books, Owners
  <2> QED  BY <1>2, <1>3, <1>5, <2>1 DEF Owners, Exists
<1>8. Temporary'
  <2>1. \A v \in Vms : Entries(doc', PreId(v)) = {}
    BY <1>1, <1>5, PreIdsApart DEF CalmInv, Books, Temporary, Holding
  <2> QED  BY <1>3, <2>1 DEF Temporary, Idle, Holding
<1>9. Gone'
  <2>1. vms[hub.vm] # "gone"
    BY <1>1 DEF CalmInv, Books, Present, Releasing, Exists
  <2> QED  BY <1>1, <1>3, <1>5, <2>1 DEF CalmInv, Books, Gone
<1>10. Present'
  BY <1>3 DEF Present, Releasing, Idle
<1> QED  BY <1>6, <1>7, <1>8, <1>9, <1>10 DEF CalmInv, Books

LEMMA CalmPreAllocates ==
  ASSUME CalmInv, NetInv', PreAllocate
  PROVE  CalmInv'
<1> DEFINE ips == Allocatable(doc, hub.pool)
           ip  == Lowest(ips)
<1>0. PICK u : u = PreId(hub.vm)
  OBVIOUS
<1>1. /\ hubDoc = doc /\ doc \in Docs /\ hub.vm \in Vms /\ hub \in HubState
      /\ hub.at = "preAlloc" /\ Sound(public, arp, doc) /\ u \in PreIds
  BY <1>0, CalmCall DEF PreAllocate, PreIds
<1>2. hub.pool \in PoolNames /\ hub.ip = NoIp
  BY <1>1, NetworkConstants DEF CalmInv, NetInv, HubOk
<1>3. UNCHANGED <<sync, vms, public, dhcp, arp>> /\ hubDoc' = NoDoc
  BY <1>1 DEF PreAllocate, Save, Host
<1>4. CASE ips = {}
  <2>1. doc' = doc /\ hub'.at = "define" /\ hub'.ip = NoIp
    BY <1>1, <1>2, <1>4 DEF PreAllocate, Save, Goto, HubState
  <2>2. HubGoesOn
    BY <1>1, <2>1 DEF HubGoesOn, Holding, Releasing
  <2> QED  BY <1>3, <2>1, <2>2, NoWrite DEF Exists
<1>5. CASE ips # {}
  <2> HIDE DEF ips
  <2>1. ip \in IPs /\ doc[ip] = Free
    BY <1>1, <1>2, <1>5, AllocatesFree DEF ips
  <2>2. /\ doc' = Assigned(doc, ip, u, NoMac, hub.pool)
        /\ hub' = [hub EXCEPT !.at = "define", !.ip = ip]
    BY <1>0, <1>1, <1>5 DEF PreAllocate, Save, ips
  <2> HIDE DEF ip
  <2>3. hub'.at = "define" /\ hub'.ip = ip /\ hub'.vm = hub.vm
    BY <1>1, <2>2 DEF HubState
  <2>4. hub.pool # Internal
    BY <1>2, NetworkConstants
  <2>5. /\ doc' \in Docs
        /\ doc'[ip] # Free /\ doc'[ip].vm_id = u
        /\ \A i \in IPs \ {ip} : doc'[i] = doc[i]
        /\ \A w : w # u => Entries(doc', w) \subseteq Entries(doc, w)
        /\ Entries(doc', u) \subseteq Entries(doc, u) \cup {ip}
        /\ \A w : InternalOf(doc', w) \subseteq InternalOf(doc, w)
    BY <1>1, <1>2, <2>1, <2>2, <2>4, AssignedEntries
  <2>6. Quiet'
    BY <1>1, <1>3, <2>3, <2>5, CalmWrite DEF CalmInv, Quiet, AtFormula
  <2>7. Owners'
    <3>1. ASSUME NEW v \in Vms, Exists(v), public[v] # NoIp
          PROVE  doc'[public[v]] # Free /\ doc'[public[v]].vm_id = v
      <4>1. public[v] \in IPs /\ ~Claiming(v)
        BY <1>1, <3>1, Ranges DEF CalmInv, NetInv, TypeOK, Claiming
      <4> QED  BY <2>1, <2>5, <3>1, <4>1 DEF CalmInv, Books, Owners
    <3> QED  BY <1>3, <3>1 DEF Owners, Exists
  <2>8. Temporary'
    <3>1. \A v \in Vms : Entries(doc, PreId(v)) = {}
      BY <1>1 DEF CalmInv, Books, Temporary, Holding
    <3>2. \A v \in Vms : Entries(doc', PreId(v)) \subseteq IF v = hub.vm THEN {ip} ELSE {}
      BY <1>0, <1>1, <2>5, <3>1, PreIdsApart
    <3> QED  BY <1>0, <2>3, <2>5, <3>2 DEF Temporary, Holding
  <2>9. Gone'
    BY <1>0, <1>1, <1>3, <2>5, PreIdsApart DEF CalmInv, Books, Gone
  <2>10. Present'
    BY <2>3 DEF Present, Releasing
  <2> QED  BY <2>6, <2>7, <2>8, <2>9, <2>10 DEF CalmInv, Books
<1> QED  BY <1>4, <1>5

LEMMA CalmDefines ==
  ASSUME CalmInv, NetInv', DefineVm \/ DefineFails
  PROVE  CalmInv'
<1>1. /\ hub.vm \in Vms /\ hub \in HubState /\ hub.at = "define" /\ vms[hub.vm] = "new"
      /\ public[hub.vm] = NoIp /\ (hub.ip # NoIp => OnBridge(hub.ip))
      /\ vms \in [Vms -> {"new", "off", "running", "gone"}]
      /\ public \in [Vms -> PublicIps \cup {NoIp}]
  BY HostTypes DEF DefineVm, DefineFails, CalmInv, NetInv, HubOk, VmsOk, OnBridge, TypeOK
<1>2. UNCHANGED <<doc, hubDoc, sync, dhcp, arp>>
  BY DEF DefineVm, DefineFails
<1>3. \/ /\ DefineVm /\ vms'[hub.vm] = "off" /\ public'[hub.vm] = hub.ip /\ hub'.vm = hub.vm
         /\ hub'.ip = hub.ip
         /\ hub'.at = IF hub.ip = NoIp THEN "allocate" ELSE "dropPre"
      \/ /\ vms'[hub.vm] = "gone" /\ public'[hub.vm] = public[hub.vm]
         /\ IF hub.ip = NoIp THEN hub' = Idle
            ELSE hub'.at = "undoPre" /\ hub'.vm = hub.vm /\ hub'.ip = hub.ip
  BY <1>1 DEF DefineVm, DefineFails, Goto, Done, HubState
<1>4. \A v \in Vms : v # hub.vm => vms'[v] = vms[v] /\ public'[v] = public[v]
  BY <1>1 DEF DefineVm, DefineFails
<1>5. \A v \in Vms : /\ Natted(v)' => Natted(v) /\ v # hub.vm
                     /\ Exists(v)' /\ v # hub.vm => Exists(v)
  <2>1. ASSUME NEW v \in Vms, v = hub.vm PROVE ~Natted(v)'
    <3>1. public'[v] = NoIp \/ OnBridge(public'[v])
      BY <1>1, <1>3, <2>1
    <3> QED  BY <3>1 DEF Natted
  <2>2. ASSUME NEW v \in Vms, v # hub.vm
        PROVE  (Natted(v)' <=> Natted(v)) /\ (Exists(v)' <=> Exists(v))
    BY <1>4, <2>2 DEF Natted, Exists
  <2> QED  BY <2>1, <2>2
<1>6. hub'.at \in {"allocate", "dropPre", "undoPre", "idle"}
  BY <1>3 DEF Idle
<1>7. HubWrites'
  BY <1>2 DEF CalmInv, Quiet, HubWrites, At
<1>8. Reserved' /\ SeenAtFormula'
  <2>1. \A t \in Threads : sync[t] # NoThread => sync[t].vm \in Vms
    BY DEF CalmInv, NetInv, ThreadsOk, ThreadOk, ThreadState
  <2> QED  BY <1>1, <1>2, <1>5, <2>1 DEF CalmInv, Quiet, Reserved, SeenAtFormula
<1>9. AtFormula'
  BY <1>2, <1>6 DEF CalmInv, Quiet, AtFormula, InternalOf, Entries
<1>10. Owners'
  <2>1. \A v \in Vms : ~Claiming(v)
    BY <1>1 DEF Claiming
  <2>2. \A v \in Vms : v = hub.vm /\ Exists(v)' /\ public'[v] # NoIp => Claiming(v)'
    BY <1>3 DEF Claiming, Exists
  <2> QED  BY <1>2, <1>4, <1>5, <2>1, <2>2 DEF CalmInv, Books, Owners
<1>11. Temporary'
  <2>1. \A v \in Vms : Entries(doc', PreId(v)) = Entries(doc, PreId(v))
    BY <1>2 DEF Entries
  <2>2. CASE hub.ip = NoIp
    <3>1. \A v \in Vms : Entries(doc, PreId(v)) \subseteq {NoIp} /\ NoIp \notin Entries(doc, PreId(v))
      BY <2>2, Ranges DEF CalmInv, Books, Temporary, Entries
    <3>2. hub'.at \notin Holding \cup {"claim"}
      BY <1>3, <2>2 DEF Holding, Idle
    <3> QED  BY <2>1, <3>1, <3>2 DEF Temporary
  <2>3. CASE hub.ip # NoIp
    <3>1. hub'.at \in {"dropPre", "undoPre"} /\ hub'.vm = hub.vm /\ hub'.ip = hub.ip
      BY <1>3, <2>3
    <3> QED  BY <1>1, <1>2, <2>1, <2>3, <3>1 DEF CalmInv, Books, Temporary, Holding
  <2> QED  BY <2>2, <2>3
<1>12. Gone'
  <2>1. Entries(doc, hub.vm) = {}
    <3>1. \A i \in IPs : doc[i] # Free => EntryOk(public, arp, i, doc[i])
      BY DEF CalmInv, NetInv, CopiesSound, Quiet, HubWrites, Sound
    <3>2. \A i \in IPs : doc[i] # Free => doc[i].vm_id # hub.vm
      BY <1>1, <3>1 DEF EntryOk
    <3> QED  BY <3>2 DEF Entries
  <2>2. \A v \in Vms : Entries(doc', v) = Entries(doc, v)
    BY <1>2 DEF Entries
  <2> QED  BY <1>1, <1>4, <2>1, <2>2 DEF CalmInv, Books, Gone
<1>13. Present'
  BY <1>3 DEF Present, Releasing, Exists, Idle
<1> QED  BY <1>7, <1>8, <1>9, <1>10, <1>11, <1>12, <1>13 DEF CalmInv, Quiet, Books

LEMMA CalmDismantles ==
  ASSUME Calm, CalmInv, NetInv', Dismantle
  PROVE  CalmInv'
<1>1. /\ hub.vm \in Vms /\ hub \in HubState /\ hub.at = "dismantle"
      /\ vms \in [Vms -> {"new", "off", "running", "gone"}]
      /\ dhcp \in [Vms -> InternalIps \cup {NoIp}]
  BY HostTypes DEF Dismantle, CalmInv, NetInv, HubOk, TypeOK
<1>2. /\ UNCHANGED <<doc, hubDoc, sync, public, arp>>
      /\ vms' = [vms EXCEPT ![hub.vm] = "gone"] /\ hub' = [hub EXCEPT !.at = "release"]
  BY DEF Dismantle, Calm, Goto
<1>3. \A v \in Vms : v # hub.vm => dhcp'[v] = dhcp[v]
  BY <1>1 DEF Dismantle
<1>4. /\ hub'.at = "release" /\ hub'.vm = hub.vm /\ vms'[hub.vm] = "gone"
      /\ \A v \in Vms : v # hub.vm => vms'[v] = vms[v]
  BY <1>1, <1>2 DEF HubState
<1>5. ~Exists(hub.vm)' /\ \A v \in Vms : v # hub.vm => (Exists(v)' <=> Exists(v))
  BY <1>4 DEF Exists
<1>6. HubWrites' /\ SeenAtFormula' /\ AtFormula'
  BY <1>2, <1>4
     DEF CalmInv, Quiet, HubWrites, SeenAtFormula, AtFormula, At, Natted, InternalOf, Entries
<1>7. Reserved'
  BY <1>1, <1>2, <1>3, <1>4, <1>5 DEF CalmInv, Quiet, Reserved, Natted
<1>8. Owners'
  BY <1>1, <1>2, <1>5 DEF CalmInv, Books, Owners, Claiming
<1>9. Temporary'
  BY <1>1, <1>2, <1>4 DEF CalmInv, Books, Temporary, Holding, Entries
<1>10. Gone'
  BY <1>1, <1>2, <1>4 DEF CalmInv, Books, Gone, Entries
<1>11. Present'
  BY <1>4, <1>5 DEF Present, Releasing
<1> QED  BY <1>6, <1>7, <1>8, <1>9, <1>10, <1>11 DEF CalmInv, Quiet, Books

LEMMA CalmAllocates ==
  ASSUME CalmInv, NetInv', Allocate
  PROVE  CalmInv'
<1> DEFINE ips == Allocatable(doc, hub.pool)
           ip  == Lowest(ips)
<1>1. /\ hubDoc = doc /\ doc \in Docs /\ hub.vm \in Vms /\ hub \in HubState
      /\ hub.at = "allocate" /\ Sound(public, arp, doc) /\ MacOf(hub.vm) \in Macs
  BY CalmCall DEF Allocate, Macs
<1>2. /\ hub.pool \in PoolNames /\ arp[hub.vm] = NoIp /\ public[hub.vm] = NoIp
      /\ public \in [Vms -> PublicIps \cup {NoIp}] /\ Exists(hub.vm)
  BY <1>1 DEF CalmInv, NetInv, HubOk, TypeOK, Books, Present, Releasing
<1>3. UNCHANGED <<sync, vms, dhcp, arp>> /\ hubDoc' = NoDoc
  BY <1>1 DEF Allocate, Save
<1>4. CASE ips = {}
  <2>1. doc' = doc /\ hub' = Idle /\ UNCHANGED public
    BY <1>1, <1>4 DEF Allocate, Save, Done
  <2>2. HubGoesOn
    BY <1>1, <2>1 DEF HubGoesOn, Holding, Releasing, Idle
  <2> QED  BY <1>3, <2>1, <2>2, NoWrite DEF Exists
<1>5. CASE ips # {}
  <2> HIDE DEF ips
  <2>1. ip \in IPs /\ doc[ip] = Free /\ ip \in PoolRange[hub.pool]
    BY <1>1, <1>2, <1>5, AllocatesFree DEF ips
  <2>2. /\ doc' = Assigned(doc, ip, hub.vm, MacOf(hub.vm), hub.pool)
        /\ public' = [public EXCEPT ![hub.vm] = ip]
        /\ IF hub.pool \in Bridged THEN hub' = Idle
           ELSE hub' = [hub EXCEPT !.at = "nat", !.ip = ip]
    BY <1>1, <1>5 DEF Allocate, Save, Done, ips
  <2> HIDE DEF ip
  <2>3. \/ hub.pool \in Bridged /\ hub' = Idle /\ OnBridge(ip)
        \/ hub'.at = "nat" /\ hub'.ip = ip /\ hub'.vm = hub.vm
    BY <1>1, <2>1, <2>2 DEF HubState, OnBridge
  <2>4. hub.pool # Internal
    BY <1>2, NetworkConstants
  <2>5. /\ doc' \in Docs
        /\ doc'[ip] # Free /\ doc'[ip].vm_id = hub.vm
        /\ \A i \in IPs \ {ip} : doc'[i] = doc[i]
        /\ \A w : w # hub.vm => Entries(doc', w) \subseteq Entries(doc, w)
        /\ \A w : InternalOf(doc', w) \subseteq InternalOf(doc, w)
    BY <1>1, <1>2, <2>1, <2>2, <2>4, AssignedEntries
  <2>6. public'[hub.vm] = ip /\ \A v \in Vms : v # hub.vm => public'[v] = public[v]
    BY <1>1, <1>2, <2>2
  <2>7. HubWrites' /\ AtFormula'
    BY <1>1, <1>3, <2>3, <2>5, NetworkConstants DEF CalmInv, Quiet, HubWrites, AtFormula, At, Idle
  <2>8. Reserved'
    <3>1. \A v \in Vms : v # hub.vm => (Natted(v)' <=> Natted(v))
      BY <2>6 DEF Natted
    <3>2. \A v \in Vms : v = hub.vm /\ Natted(v)' => hub'.at = "nat" /\ hub'.vm = v
      BY <2>3, <2>6 DEF Natted
    <3> QED  BY <1>1, <1>2, <1>3, <3>1, <3>2 DEF CalmInv, Quiet, Reserved, Exists
  <2>9. SeenAtFormula'
    <3>1. \A t \in Threads : sync[t] # NoThread /\ sync[t].at # "wait" =>
            sync[t].vm \in Vms /\ sync[t].vm # hub.vm
      BY <1>2 DEF CalmInv, NetInv, ThreadsOk, ThreadOk, ThreadState
    <3> QED  BY <1>3, <2>6, <3>1 DEF CalmInv, Quiet, SeenAtFormula, Natted
  <2>10. Owners'
    <3>1. ASSUME NEW v \in Vms, Exists(v), public[v] # NoIp, v # hub.vm
          PROVE  doc'[public[v]] # Free /\ doc'[public[v]].vm_id = v
      <4>1. public[v] \in IPs /\ ~Claiming(v)
        BY <1>1, <3>1, Ranges DEF CalmInv, NetInv, TypeOK, Claiming
      <4> QED  BY <2>1, <2>5, <3>1, <4>1 DEF CalmInv, Books, Owners
    <3> QED  BY <1>3, <2>5, <2>6, <3>1 DEF Owners, Exists
  <2>11. Temporary'
    <3>1. \A v \in Vms : Entries(doc', PreId(v)) = {}
      BY <1>1, <2>5, PreIdsApart DEF CalmInv, Books, Temporary, Holding
    <3> QED  BY <2>3, <3>1 DEF Temporary, Holding, Idle
  <2>12. Gone'
    BY <1>1, <1>2, <1>3, <2>5 DEF CalmInv, Books, Gone, Exists
  <2>13. Present'
    BY <1>2, <1>3, <2>3 DEF Present, Releasing, Exists, Idle
  <2> QED  BY <2>7, <2>8, <2>9, <2>10, <2>11, <2>12, <2>13 DEF CalmInv, Quiet, Books
<1> QED  BY <1>4, <1>5

LEMMA CalmRecords ==
  ASSUME CalmInv, NetInv', RecordInternal \/ RecordDerived
  PROVE  CalmInv'
<1> DEFINE ip == Formula[hub.vm]
<1>1. /\ hubDoc = doc /\ doc \in Docs /\ hub.vm \in Vms /\ MacOf(hub.vm) \in Macs
      /\ hub.at \in {"internal", "derive"}
  BY CalmCall DEF RecordInternal, RecordDerived, Macs
<1>2. /\ ip \in IPs /\ ip \in InternalIps /\ hub.ip \in PublicIps /\ Exists(hub.vm)
      /\ public \in [Vms -> PublicIps \cup {NoIp}]
  BY <1>1, Ranges, NetworkConstants
     DEF CalmInv, NetInv, TypeOK, HubOk, Natting, Creating, Books, Present, Releasing
<1>3. /\ doc' = Assigned(doc, ip, hub.vm, MacOf(hub.vm), Internal) /\ hubDoc' = NoDoc
      /\ hub' = Idle /\ UNCHANGED <<vms, public, dhcp, arp>>
  BY <1>1 DEF RecordInternal, RecordDerived, Save, Done, Host
<1>4. \A t \in Threads : sync'[t] = sync[t] \/ sync'[t].at = "wait"
  <2>1. CASE RecordInternal
    BY <1>1, <1>2, <2>1, Spawned, Ranges DEF RecordInternal, CalmInv
  <2> QED  BY <2>1 DEF RecordDerived
<1> HIDE DEF ip
<1>5. /\ doc' \in Docs
      /\ \A i \in IPs \ {ip} : doc'[i] = doc[i]
      /\ \A w : w # hub.vm => Entries(doc', w) \subseteq Entries(doc, w)
      /\ \A w : InternalOf(doc', w) \subseteq
           InternalOf(doc, w) \cup (IF w = hub.vm THEN {ip} ELSE {})
  BY <1>1, <1>2, <1>3, AssignedEntries
<1>6. HubWrites'
  BY <1>3, <1>4, <1>5, NetworkConstants DEF CalmInv, Quiet, HubWrites, At
<1>7. Reserved'
  BY <1>1, <1>3 DEF CalmInv, Quiet, Reserved, Natted, Exists, Idle
<1>8. SeenAtFormula'
  BY <1>3, <1>4 DEF CalmInv, Quiet, SeenAtFormula, Natted
<1>9. AtFormula'
  BY <1>3, <1>5 DEF CalmInv, Quiet, AtFormula, Idle, ip
<1>10. Owners'
  <2>1. ASSUME NEW v \in Vms, Exists(v), public[v] # NoIp
        PROVE  doc'[public[v]] # Free /\ doc'[public[v]].vm_id = v
    <3>1. public[v] \in IPs /\ public[v] # ip /\ ~Claiming(v)
      BY <1>1, <1>2, <2>1, Ranges, NetworkConstants DEF Claiming
    <3> QED  BY <1>5, <2>1, <3>1 DEF CalmInv, Books, Owners
  <2> QED  BY <1>3, <2>1 DEF Owners, Exists
<1>11. Temporary'
  <2>1. \A v \in Vms : Entries(doc', PreId(v)) = {}
    BY <1>1, <1>5, PreIdsApart DEF CalmInv, Books, Temporary, Holding
  <2> QED  BY <1>3, <2>1 DEF Temporary, Holding, Idle
<1>12. Gone'
  BY <1>1, <1>2, <1>3, <1>5 DEF CalmInv, Books, Gone, Exists
<1>13. Present'
  BY <1>3 DEF Present, Releasing, Idle
<1> QED  BY <1>6, <1>7, <1>8, <1>9, <1>10, <1>11, <1>12, <1>13 DEF CalmInv, Quiet, Books

-----------------------------------------------------------------------------

LEMMA CalmStart ==
  ASSUME Init
  PROVE  CalmInv
<1>1. NetInv
  BY NetStart
<1>2. /\ doc \in Docs /\ doc # Torn /\ \A v : Entries(doc, v) = {}
      /\ \A v : InternalOf(doc, v) = {}
  BY NetworkConstants DEF Init, Docs, Entries, InternalOf
<1>3. Quiet
  BY <1>2 DEF Init, Quiet, HubWrites, Reserved, SeenAtFormula, AtFormula, At, Natted, Idle
<1>4. Books
  BY <1>2 DEF Init, Books, Owners, Temporary, Gone, Present, Exists, Holding, Releasing, Idle
<1> QED  BY <1>1, <1>3, <1>4 DEF CalmInv

LEMMA CalmStep ==
  ASSUME Calm, CalmInv, [Next]_vars
  PROVE  CalmInv'
<1>1. NetInv'
  BY NetStep DEF Calm, CalmInv
<1>2. CASE Hub
  <2>1. ASSUME NEW v \in Vms,
               (\E p \in PoolNames : Create(v, p)) \/ Start(v) \/ Stop(v) \/ Delete(v) \/ NatSync(v)
        PROVE  CalmInv'
    BY <1>1, <2>1, CalmRequests, CalmStarts
  <2>2. CASE TakeRecorded \/ ResetNat \/ MoveInternal \/ HubLoad \/ LookUp
    BY <1>1, <2>2, CalmReads
  <2>3. CASE ReserveDerived \/ SetUpNat
    BY <1>1, <2>3, CalmReserves
  <2>4. CASE RecordDerived \/ RecordInternal
    BY <1>1, <2>4, CalmRecords
  <2>5. CASE PreAllocate \/ Allocate
    BY <1>1, <2>5, CalmPreAllocates, CalmAllocates
  <2>6. CASE DefineVm \/ DefineFails \/ Dismantle
    BY <1>1, <2>6, CalmDefines, CalmDismantles
  <2>7. CASE UndoPre \/ DropPre \/ Claim \/ Release \/ ReleaseMac
    BY <1>1, <2>7, CalmDrops, CalmClaims, CalmReleases, CalmReleasesMac
  <2>8. ~HubLoadFails /\ ~LookUpFails
    BY NothingToSave
  <2> QED  BY <1>2, <2>1, <2>2, <2>3, <2>4, <2>5, <2>6, <2>7, <2>8 DEF Hub
<1>3. CASE Thread
  BY <1>1, <1>3, CalmThreads
<1>4. ~Crash
  BY DEF Calm, Crash
<1>5. CASE UNCHANGED vars
  <2>1. UNCHANGED <<doc, hub, hubDoc, vms, public, dhcp, arp, sync>>
    BY <1>5 DEF vars
  <2>2. HubGoesOn
    BY <2>1 DEF HubGoesOn
  <2> QED  BY <1>1, <2>1, <2>2, NoWrite DEF Exists
<1> QED  BY <1>2, <1>3, <1>4, <1>5 DEF Next

LEMMA CalmInvariant ==
  ASSUME Calm
  PROVE  Spec => []CalmInv
<1>1. Init => CalmInv
  BY CalmStart
<1>2. CalmInv /\ [Next]_vars => CalmInv'
  BY CalmStep
<1> QED  BY <1>1, <1>2, PTL DEF Spec

(* While libvirt does what it is told and the process is not killed, no    *)
(* two existing VMs have the same public address, however many creates,    *)
(* deletes, starts and nat-syncs there are and whatever the NAT threads do *)
(* (ip_pool.py:140, "allocate a free IP").                                 *)
THEOREM PublicIsExclusive ==
  ASSUME Calm
  PROVE  Spec => []PublicExclusive
<1>1. ASSUME CalmInv, NEW v \in Vms, NEW w \in Vms, v # w, Exists(v), Exists(w),
             public[v] # NoIp, public[v] = public[w]
      PROVE  FALSE
  <2>1. ASSUME NEW x \in Vms, NEW y \in Vms, x # y, Exists(x), Exists(y), Claiming(x),
               public[x] = public[y], public[x] # NoIp
        PROVE  FALSE
    <3>1. public[x] = hub.ip /\ hub.vm = x /\ hub.at \in {"dropPre", "claim"}
      BY <1>1, <2>1 DEF Claiming, CalmInv, NetInv, HubOk
    <3>2. doc[hub.ip] # Free /\ doc[hub.ip].vm_id = y
      BY <1>1, <2>1, <3>1 DEF Claiming, CalmInv, Books, Owners
    <3>3. hub.at = "dropPre" /\ doc[hub.ip].vm_id = PreId(x)
      BY <1>1, <2>1, <3>1, <3>2 DEF CalmInv, Books, Temporary, Holding
    <3> QED  BY <2>1, <3>2, <3>3, PreIdsApart
  <2>2. ~Claiming(v) /\ ~Claiming(w)
    BY <1>1, <2>1
  <2> QED  BY <1>1, <2>2 DEF CalmInv, Books, Owners
<1>2. CalmInv => PublicExclusive
  BY <1>1 DEF PublicExclusive
<1> QED  BY <1>2, CalmInvariant, PTL

(* While libvirt does what it is told and the process is not killed, the   *)
(* document has the address of every existing VM as that VM's whenever no  *)
(* request is running, also while the NAT threads are at work.             *)
THEOREM OwnerIsRecorded ==
  ASSUME Calm
  PROVE  Spec => []OwnerRecorded
<1>1. CalmInv => OwnerRecorded
  BY DEF CalmInv, Books, Owners, Claiming, OwnerRecorded, Idle
<1> QED  BY <1>1, CalmInvariant, PTL

(* While libvirt does what it is told and the process is not killed, no    *)
(* "__pre__" reservation outlives its create request, also when the        *)
(* create fails (app.py:1764-1772).                                        *)
THEOREM ReservationsEnd ==
  ASSUME Calm
  PROVE  Spec => []PreReservationsTransient
<1>1. CalmInv => PreReservationsTransient
  BY DEF CalmInv, Books, Temporary, Holding, PreReservationsTransient, Idle
<1> QED  BY <1>1, CalmInvariant, PTL

(* While libvirt does what it is told and the process is not killed, a VM  *)
(* that is gone has no entry in the document once its request has ended    *)
(* (app.py:1955, "clean up all IPAM records").                             *)
THEOREM DeletedIsCleared ==
  ASSUME Calm
  PROVE  Spec => []DeletedHoldsNothing
<1>1. CalmInv => DeletedHoldsNothing
  BY DEF CalmInv, Books, Gone, DeletedHoldsNothing, Idle
<1> QED  BY <1>1, CalmInvariant, PTL

-----------------------------------------------------------------------------
(***************************************************************************)
(* How many internal addresses of a VM are on record, in the document and  *)
(* in every copy that may be written back.  Each nat-sync that is asked    *)
(* for allows one more, from the moment it can no longer record one.       *)
(***************************************************************************)
Deriving == {"recorded", "reserve", "derive"}
Records  == IF hub.at \in Deriving THEN resyncs ELSE resyncs + 1

Few(d, n) == \A v \in Vms : IsFiniteSet(InternalOf(d, v)) /\ Cardinality(InternalOf(d, v)) <= n

Counted ==
  /\ doc # Torn => Few(doc, Records)
  /\ hubDoc # NoDoc => Few(hubDoc, Records)
  /\ \A t \in Threads : At(t, "save") => Few(sync[t].snap, Records)

LEMMA FewIn ==
  ASSUME NEW d, NEW d2, NEW n \in Nat, NEW m \in Nat, n <= m, Few(d, n),
         \A v \in Vms : InternalOf(d2, v) \subseteq InternalOf(d, v)
  PROVE  Few(d2, m)
<1>1. ASSUME NEW v \in Vms
      PROVE  IsFiniteSet(InternalOf(d2, v)) /\ Cardinality(InternalOf(d2, v)) <= m
  <2>1. IsFiniteSet(InternalOf(d, v)) /\ Cardinality(InternalOf(d, v)) <= n
    BY DEF Few
  <2>2. InternalOf(d2, v) \in SUBSET InternalOf(d, v)
    OBVIOUS
  <2>3. IsFiniteSet(InternalOf(d2, v)) /\ Cardinality(InternalOf(d2, v)) <= Cardinality(InternalOf(d, v))
    BY <2>1, <2>2, FS_Subset
  <2>4. Cardinality(InternalOf(d2, v)) \in Nat /\ Cardinality(InternalOf(d, v)) \in Nat
    BY <2>1, <2>3, FS_CardinalityType
  <2> QED  BY <2>1, <2>3, <2>4
<1> QED  BY <1>1 DEF Few

(* One more record for one VM.                                             *)
LEMMA FewMore ==
  ASSUME NEW d, NEW d2, NEW n \in Nat, Few(d, n), NEW w, NEW ip,
         \A v \in Vms : InternalOf(d2, v) \subseteq
           InternalOf(d, v) \cup (IF v = w THEN {ip} ELSE {})
  PROVE  Few(d2, n + 1)
<1>1. ASSUME NEW v \in Vms
      PROVE  IsFiniteSet(InternalOf(d2, v)) /\ Cardinality(InternalOf(d2, v)) <= n + 1
  <2> DEFINE S == InternalOf(d, v)
             T == S \cup {ip}
             U == InternalOf(d2, v)
  <2>1. IsFiniteSet(S) /\ Cardinality(S) <= n
    BY DEF Few
  <2>2. U \in SUBSET T
    OBVIOUS
  <2> HIDE DEF S, U
  <2>3. Cardinality(S) \in Nat /\ IsFiniteSet(T) /\ Cardinality(T) <= Cardinality(S) + 1
    BY <2>1, FS_AddElement, FS_CardinalityType
  <2> HIDE DEF T
  <2>4. IsFiniteSet(U) /\ Cardinality(U) <= Cardinality(T)
    BY <2>2, <2>3, FS_Subset
  <2>5. Cardinality(U) \in Nat /\ Cardinality(T) \in Nat
    BY <2>3, <2>4, FS_CardinalityType
  <2> QED  BY <2>1, <2>3, <2>4, <2>5 DEF U
<1> QED  BY <1>1 DEF Few

(* The only record of a VM.                                                *)
LEMMA FewFirst ==
  ASSUME NEW d, NEW d2, NEW n \in Nat, Few(d, n), n >= 1, NEW w, NEW ip,
         \A v \in Vms : v # w => InternalOf(d2, v) \subseteq InternalOf(d, v),
         InternalOf(d2, w) \subseteq {ip}
  PROVE  Few(d2, n)
<1>1. ASSUME NEW v \in Vms, v # w
      PROVE  IsFiniteSet(InternalOf(d2, v)) /\ Cardinality(InternalOf(d2, v)) <= n
  <2>1. IsFiniteSet(InternalOf(d, v)) /\ Cardinality(InternalOf(d, v)) <= n
    BY DEF Few
  <2>2. IsFiniteSet(InternalOf(d2, v)) /\ Cardinality(InternalOf(d2, v)) <= Cardinality(InternalOf(d, v))
    BY <1>1, <2>1, FS_Subset
  <2>3. Cardinality(InternalOf(d2, v)) \in Nat /\ Cardinality(InternalOf(d, v)) \in Nat
    BY <2>1, <2>2, FS_CardinalityType
  <2> QED  BY <2>1, <2>2, <2>3
<1>2. IsFiniteSet(InternalOf(d2, w)) /\ Cardinality(InternalOf(d2, w)) <= n
  <2>1. CASE InternalOf(d2, w) = {}
    BY <2>1, FS_EmptySet
  <2>2. CASE InternalOf(d2, w) = {ip}
    BY <2>2, FS_Singleton
  <2> QED  BY <2>1, <2>2
<1> QED  BY <1>1, <1>2 DEF Few

(* A record that is moved is not doubled, whichever copy it is moved in.   *)
LEMMA FewMoved ==
  ASSUME NEW d \in Docs, NEW n \in Nat, Few(d, n), NEW w \in Vms, NEW new \in IPs,
         NEW old \in InternalOf(d, w) \ {new}
  PROVE  Few(Moved(d, old, new), n)
<1> DEFINE d2 == Moved(d, old, new)
<1>1. old \in IPs /\ d[old] # Free /\ d[old].vm_id = w
  BY DEF InternalOf, Entries
<1>2. d2[old] = Free /\ d2[new] = d[old] /\ \A i \in IPs \ {old, new} : d2[i] = d[i]
  BY <1>1 DEF Moved, Docs
<1>3. \A v \in Vms : v # w => InternalOf(d2, v) \subseteq InternalOf(d, v)
  BY <1>1, <1>2 DEF InternalOf, Entries
<1>4. InternalOf(d2, w) \subseteq (InternalOf(d, w) \ {old}) \cup {new}
  BY <1>1, <1>2 DEF InternalOf, Entries
<1> HIDE DEF d2
<1>5. ASSUME NEW v \in Vms
      PROVE  IsFiniteSet(InternalOf(d2, v)) /\ Cardinality(InternalOf(d2, v)) <= n
  <2> DEFINE S == InternalOf(d, v)
             T == IF v = w THEN (S \ {old}) \cup {new} ELSE S
             U == InternalOf(d2, v)
  <2>1. IsFiniteSet(S) /\ Cardinality(S) <= n /\ Cardinality(S) \in Nat
    BY FS_CardinalityType DEF Few
  <2>2. U \in SUBSET T
    BY <1>3, <1>4
  <2>3. IsFiniteSet(T) /\ Cardinality(T) <= Cardinality(S)
    <3>1. CASE v = w
      <4>1. old \in S
        BY <3>1
      <4> HIDE DEF S
      <4>2. IsFiniteSet(S \ {old}) /\ Cardinality(S \ {old}) = Cardinality(S) - 1
        BY <2>1, <4>1, FS_RemoveElement
      <4>3. /\ IsFiniteSet((S \ {old}) \cup {new})
            /\ Cardinality((S \ {old}) \cup {new}) \in {Cardinality(S) - 1, Cardinality(S)}
        BY <2>1, <4>2, FS_AddElement
      <4> QED  BY <2>1, <3>1, <4>3
    <3> QED  BY <2>1, <3>1
  <2> HIDE DEF S, T, U
  <2>4. IsFiniteSet(U) /\ Cardinality(U) <= Cardinality(T)
    BY <2>2, <2>3, FS_Subset
  <2>5. Cardinality(U) \in Nat /\ Cardinality(T) \in Nat
    BY <2>3, <2>4, FS_CardinalityType
  <2> QED  BY <2>1, <2>3, <2>4, <2>5 DEF U
<1> QED  BY <1>5 DEF Few, d2

(* No step takes back what it allowed.                                     *)
LEMMA RecordsGrow ==
  ASSUME NetInv, [Next]_vars
  PROVE  Records \in Nat /\ Records' \in Nat /\ Records <= Records'
<1>1. resyncs \in Nat /\ hub \in HubState
  BY HostTypes, NetworkConstants
<1>2. ASSUME NEW v \in Vms, NatSync(v) PROVE resyncs' = resyncs + 1 /\ hub.at = "idle"
  BY <1>2 DEF NatSync, Idle
<1>3. resyncs' = resyncs \/ \E v \in Vms : NatSync(v)
  <2>1. CASE Hub
    BY <2>1 DEF Hub, Create, Start, Stop, Delete, TakeRecorded, ReserveDerived, RecordDerived, ResetNat,
             MoveInternal, HubLoad, HubLoadFails, PreAllocate, DefineVm, DefineFails, UndoPre, DropPre, Claim,
             Allocate, SetUpNat, RecordInternal, LookUp, LookUpFails, Dismantle, Release, ReleaseMac, Host
  <2>2. CASE Thread
    BY <2>2 DEF Thread, SeeArp, GiveUp, CleanNat, AddNat, LoadDoc, SaveDoc, Host
  <2> QED  BY <2>1, <2>2 DEF Next, Crash, vars, Host
<1>4. \/ hub' = hub \/ hub'.at \notin Deriving \/ hub.at \in Deriving
      \/ \E v \in Vms : NatSync(v)
  <2>1. CASE hub' = Idle
    BY <2>1 DEF Idle, Deriving
  <2>2. CASE \E v \in Vms, p \in PoolNames : Create(v, p)
    BY <2>2 DEF Create, Idle, Deriving
  <2>3. CASE \E v \in Vms : Delete(v)
    BY <2>3 DEF Delete, Idle, Deriving
  <2>4. ASSUME NEW at, at \notin Deriving,
               \/ hub' = [hub EXCEPT !.at = at]
               \/ \E ip : hub' = [hub EXCEPT !.at = at, !.ip = ip]
               \/ \E to : hub' = [hub EXCEPT !.at = at, !.to = to]
        PROVE  hub'.at \notin Deriving
    BY <1>1, <2>4 DEF HubState
  <2>5. CASE TakeRecorded \/ ReserveDerived
    BY <2>5 DEF TakeRecorded, ReserveDerived, Deriving
  <2>6. CASE ResetNat \/ HubLoadFails
    BY <2>1, <2>4, <2>6 DEF ResetNat, HubLoadFails, Goto, Done, Deriving
  <2>7. CASE PreAllocate
    BY <2>4, <2>7 DEF PreAllocate, Goto, Deriving
  <2>8. CASE DefineVm \/ DefineFails
    BY <2>1, <2>4, <2>8 DEF DefineVm, DefineFails, Goto, Done, Deriving
  <2>9. CASE DropPre \/ SetUpNat
    BY <2>4, <2>9 DEF DropPre, SetUpNat, Goto, Deriving
  <2>10. CASE Allocate
    BY <2>1, <2>4, <2>10 DEF Allocate, Done, Deriving
  <2>11. CASE LookUp \/ Dismantle \/ Release
    BY <2>1, <2>4, <2>11 DEF LookUp, Dismantle, Release, Goto, Done, Deriving
  <2>12. CASE Hub
    BY <2>1, <2>2, <2>3, <2>5, <2>6, <2>7, <2>8, <2>9, <2>10, <2>11, <2>12
       DEF Hub, Start, Stop, RecordDerived, MoveInternal, HubLoad, UndoPre, Claim, RecordInternal,
           LookUpFails, ReleaseMac, Done
  <2>13. CASE Thread
    BY <2>13 DEF Thread, SeeArp, GiveUp, CleanNat, AddNat, LoadDoc, SaveDoc
  <2> QED  BY <2>1, <2>12, <2>13 DEF Next, Crash, vars
<1> QED  BY <1>1, <1>2, <1>3, <1>4 DEF Records, Deriving

(* What the hub writes has few records of each VM.                         *)
LEMMA CountedWrites ==
  ASSUME NetInv, Counted, [Next]_vars, Hub
  PROVE  doc' = doc \/ Few(doc', Records')
<1>1. Records \in Nat /\ Records' \in Nat /\ Records <= Records'
  BY RecordsGrow
<1>2. hubDoc # NoDoc => Few(hubDoc, Records') /\ hubDoc \in Docs
  BY <1>1, FewIn DEF Counted, NetInv, TypeOK
<1>3. hub.at # "idle" => hub.vm \in Vms /\ MacOf(hub.vm) \in Macs /\ PreId(hub.vm) \in PreIds
  BY DEF NetInv, HubOk, Macs, PreIds
<1>4. CASE UndoPre \/ DropPre \/ Release \/ ReleaseMac
  <2>1. PICK u : doc' = Released(hubDoc, u) /\ hubDoc # NoDoc
    BY <1>4 DEF UndoPre, DropPre, Release, ReleaseMac, Save, Loaded
  <2> QED  BY <1>1, <1>2, <2>1, ReleasedEntries, FewIn
<1>5. ASSUME NEW ip \in IPs, NEW u \in Vms \cup PreIds, NEW m \in Macs \cup {NoMac}, NEW p \in PoolNames,
             doc' = Assigned(hubDoc, ip, u, m, p), hubDoc # NoDoc
      PROVE  Few(doc', Records')
  <2>1. p # Internal
    BY NetworkConstants
  <2>2. \A v \in Vms : InternalOf(doc', v) \subseteq InternalOf(hubDoc, v)
    BY <1>2, <1>5, <2>1, AssignedEntries
  <2> QED  BY <1>1, <1>2, <1>5, <2>2, FewIn
<1>6. CASE PreAllocate \/ Allocate
  <2> DEFINE ips == Allocatable(hubDoc, hub.pool)
  <2>1. hub.pool \in PoolNames /\ hub.vm \in Vms /\ hubDoc # NoDoc
    BY <1>6, NetworkConstants DEF PreAllocate, Allocate, Loaded, NetInv, HubOk
  <2>2. CASE ips = {}
    BY <1>6, <2>2 DEF PreAllocate, Allocate, Save
  <2>3. CASE ips # {}
    <3>1. Lowest(ips) \in IPs
      BY <2>1, <2>3, AllocatesInRange, Ranges
    <3>2. PICK u \in Vms \cup PreIds, m \in Macs \cup {NoMac} :
            doc' = Assigned(hubDoc, Lowest(ips), u, m, hub.pool)
      <4>1. MacOf(hub.vm) \in Macs /\ PreId(hub.vm) \in PreIds
        BY <2>1 DEF Macs, PreIds
      <4> QED  BY <1>6, <2>1, <2>3, <4>1 DEF PreAllocate, Allocate, Save
    <3> QED  BY <1>5, <2>1, <3>1, <3>2
  <2> QED  BY <2>2, <2>3
<1>7. CASE Claim
  <2>1. hub.ip \in IPs /\ hub.pool \in PoolNames /\ hub.vm \in Vms /\ hubDoc # NoDoc
    BY <1>7, Ranges, NetworkConstants DEF Claim, Loaded, NetInv, HubOk
  <2> QED  BY <1>3, <1>5, <1>7, <2>1 DEF Claim, Loaded, Save
<1>8. CASE RecordInternal \/ RecordDerived
  <2> DEFINE v  == hub.vm
             ip == Formula[v]
  <2>1. /\ v \in Vms /\ MacOf(v) \in Macs /\ ip \in IPs /\ hubDoc # NoDoc /\ hubDoc \in Docs
        /\ doc' = Assigned(hubDoc, ip, v, MacOf(v), Internal) /\ hub'.at = "idle" /\ resyncs' = resyncs
    <3>1. /\ hub.at # "idle" /\ hubDoc # NoDoc /\ hub' = Idle /\ resyncs' = resyncs
          /\ doc' = Assigned(hubDoc, ip, v, MacOf(v), Internal)
      BY <1>8 DEF RecordInternal, RecordDerived, Loaded, Save, Done, Host
    <3>2. v \in Vms => ip \in IPs
      BY Ranges, NetworkConstants
    <3> QED  BY <1>2, <1>3, <3>1, <3>2 DEF Idle
  <2>2. \A u \in Vms : InternalOf(doc', u) \subseteq InternalOf(hubDoc, u) \cup (IF u = v THEN {ip} ELSE {})
    <3>1. \A u : InternalOf(doc', u) \subseteq
            InternalOf(hubDoc, u) \cup (IF u = v /\ Internal = Internal THEN {ip} ELSE {})
      BY <2>1, AssignedEntries
    <3> QED  BY <3>1
  <2>3. Records' = resyncs + 1 /\ resyncs \in Nat
    BY <2>1, HostTypes, NetworkConstants DEF Records, Deriving
  <2>4. CASE RecordDerived
    <3>1. Records = resyncs /\ Few(hubDoc, Records)
      BY <2>1, <2>4 DEF RecordDerived, Loaded, Records, Deriving, Counted
    <3> HIDE DEF v, ip
    <3> QED  BY <2>2, <2>3, <3>1, FewMore
  <2>5. CASE RecordInternal
    <3>1. arp[v] = NoIp /\ Sound(public, arp, hubDoc)
      BY <2>1, <2>5 DEF RecordInternal, Loaded, NetInv, HubOk, Creating, CopiesSound
    <3>2. InternalOf(hubDoc, v) \subseteq {ip}
      BY <2>1, <3>1 DEF Sound, EntryOk, InternalOf, Entries
    <3>3. Few(hubDoc, Records') /\ Records' >= 1
      BY <1>2, <2>1, <2>3
    <3>4. /\ InternalOf(doc', v) \subseteq {ip}
          /\ \A u \in Vms : u # v => InternalOf(doc', u) \subseteq InternalOf(hubDoc, u)
      BY <2>1, <2>2, <3>2
    <3> HIDE DEF v, ip
    <3> QED  BY <1>1, <3>3, <3>4, FewFirst
  <2> QED  BY <1>8, <2>4, <2>5
<1>9. CASE MoveInternal
  <2>1. /\ hub.vm \in Vms /\ hub.to \in IPs /\ hubDoc # NoDoc
    BY <1>9, Ranges DEF MoveInternal, Loaded, NetInv, HubOk
  <2>2. ASSUME NEW old \in InternalOf(hubDoc, hub.vm) \ {hub.to}, doc' = Moved(hubDoc, old, hub.to)
        PROVE  Few(doc', Records')
    BY <1>1, <1>2, <2>1, <2>2, FewMoved
  <2> QED  BY <1>9, <2>2 DEF MoveInternal, Save, ToMove
<1> QED  BY <1>4, <1>6, <1>7, <1>8, <1>9
         DEF Hub, Create, Start, Stop, Delete, NatSync, TakeRecorded, ReserveDerived, ResetNat, HubLoad,
             HubLoadFails, DefineVm, DefineFails, SetUpNat, LookUp, LookUpFails, Dismantle

LEMMA CountedStep ==
  ASSUME NetInv, Counted, [Next]_vars
  PROVE  Counted'
<1>1. Records \in Nat /\ Records' \in Nat /\ Records <= Records'
  BY RecordsGrow
<1>2. \A d : Few(d, Records) => Few(d, Records')
  BY <1>1, FewIn
<1>3. doc' \in {doc, Torn} \/ Few(doc', Records')
  <2>1. CASE Hub
    BY <2>1, CountedWrites
  <2>2. CASE Thread
    <3>1. PICK t \in Threads :
            SeeArp(t) \/ GiveUp(t) \/ CleanNat(t) \/ AddNat(t) \/ LoadDoc(t) \/ SaveDoc(t)
      BY <2>2 DEF Thread
    <3>2. SaveDoc(t) => Few(doc', Records')
      BY <1>2 DEF SaveDoc, Counted
    <3> QED  BY <3>1, <3>2 DEF SeeArp, GiveUp, CleanNat, AddNat, LoadDoc
  <2> QED  BY <2>1, <2>2 DEF Next, Crash, vars
<1>4. hubDoc' \in {hubDoc, NoDoc} \/ (doc # Torn /\ hubDoc' = doc)
  <2>1. CASE Hub
    BY <2>1 DEF Hub, Create, Start, Stop, Delete, NatSync, TakeRecorded, ReserveDerived, ResetNat, HubLoad,
             HubLoadFails, DefineVm, DefineFails, SetUpNat, LookUp, LookUpFails, Dismantle, PreAllocate,
             UndoPre, DropPre, Claim, Allocate, RecordInternal, RecordDerived, MoveInternal, Release, ReleaseMac, Save
  <2>2. CASE Thread
    BY <2>2 DEF Thread, SeeArp, GiveUp, CleanNat, AddNat, LoadDoc, SaveDoc
  <2> QED  BY <2>1, <2>2 DEF Next, Crash, vars
<1>5. ASSUME NEW t \in Threads, At(t, "save")'
      PROVE  (At(t, "save") /\ sync'[t].snap = sync[t].snap) \/ Few(sync'[t].snap, Records')
  <2>1. CASE sync'[t] = sync[t]
    BY <1>5, <2>1 DEF At
  <2>2. CASE Hub
    <3>1. ASSUME NEW v \in Vms, NEW p \in IPs, FreeThreads # {}, Spawn(v, p)
          PROVE  sync'[t] = sync[t]
      BY <1>5, <3>1, Spawned DEF At
    <3>2. CASE RecordInternal
      <4>1. hub.vm \in Vms /\ hub.ip \in IPs
        BY <3>2, Ranges DEF RecordInternal, Loaded, NetInv, HubOk, Natting
      <4> QED  BY <2>1, <3>1, <3>2, <4>1 DEF RecordInternal
    <3>3. CASE \E v \in Vms : Start(v)
      BY <2>1, <3>1, <3>3 DEF Start, Labelled
    <3> QED  BY <2>1, <2>2, <3>2, <3>3 DEF Hub, Create, Stop, Delete, NatSync, TakeRecorded, ReserveDerived,
             ResetNat, HubLoad, HubLoadFails, DefineVm, DefineFails, SetUpNat, LookUp, LookUpFails, Dismantle,
             PreAllocate, UndoPre, DropPre, Claim, Allocate, RecordDerived, MoveInternal, Release, ReleaseMac
  <2>3. CASE Thread
    <3>1. PICK s \in Threads :
            SeeArp(s) \/ GiveUp(s) \/ CleanNat(s) \/ AddNat(s) \/ LoadDoc(s) \/ SaveDoc(s)
      BY <2>3 DEF Thread
    <3>2. CASE s # t
      <4>1. sync'[t] = sync[t]
        BY <3>1, <3>2 DEF SeeArp, GiveUp, CleanNat, AddNat, LoadDoc, SaveDoc, End, Step, NetInv, TypeOK
      <4> QED  BY <2>1, <4>1
    <3>3. CASE s = t
      <4>1. /\ sync[t] \in ThreadState /\ DOMAIN sync = Threads
        BY <3>1, <3>3, InThread DEF SeeArp, GiveUp, CleanNat, AddNat, LoadDoc, SaveDoc
      <4>2. ~SeeArp(t) /\ ~GiveUp(t) /\ ~CleanNat(t) /\ ~AddNat(t) /\ ~SaveDoc(t)
        BY <1>5, <4>1 DEF SeeArp, GiveUp, CleanNat, AddNat, SaveDoc, End, Step, At, ThreadState
      <4>3. doc # Torn /\ sync[t].at = "load"
        BY <1>5, <3>1, <3>3, <4>1, <4>2 DEF LoadDoc, End, At
      <4>4. PICK old \in InternalOf(doc, sync[t].vm) \ {sync[t].ip} :
              sync' = [sync EXCEPT ![t].at = "save", ![t].snap = Moved(doc, old, sync[t].ip)]
        BY <1>5, <3>1, <3>3, <4>1, <4>2 DEF LoadDoc, End, At, ToMove
      <4>5. sync'[t].snap = Moved(doc, old, sync[t].ip)
        BY <4>1, <4>4 DEF ThreadState
      <4>6. sync[t].vm \in Vms /\ sync[t].ip \in IPs /\ doc \in Docs
        <5>1. ThreadOk(t)
          BY <3>1, <3>3, <4>2, InThread DEF LoadDoc
        <5> QED  BY <4>1, <4>3, <5>1 DEF ThreadState, ThreadOk, NetInv, TypeOK
      <4>7. Few(doc, Records)
        BY <4>3 DEF Counted
      <4> QED  BY <1>1, <1>2, <4>4, <4>5, <4>6, <4>7, FewMoved
    <3> QED  BY <3>2, <3>3
  <2>4. CASE UNCHANGED vars \/ Crash
    BY <1>5, <2>1, <2>4 DEF vars, Crash, At
  <2> QED  BY <2>2, <2>3, <2>4 DEF Next
<1> QED  BY <1>2, <1>3, <1>4, <1>5 DEF Counted

LEMMA CountedStart == ASSUME Init PROVE Counted
<1>1. \A v \in Vms : InternalOf(doc, v) = {}
  BY DEF Init, InternalOf, Entries
<1>2. Records = 1
  BY DEF Init, Records, Deriving, Idle
<1> QED  BY <1>1, <1>2, FS_EmptySet DEF Init, Counted, Few, At

(* While nat-sync is not asked for VMs of bridged pools, a VM has at most  *)
(* one internal address on record and one more for each nat-sync request,  *)
(* though leases expire and threads write old copies back: only a request  *)
(* that neither saw the VM nor could read its record adds one              *)
(* (app.py:3203), a moved record is never doubled.                         *)
THEOREM RecordsAreCounted ==
  ASSUME Resynced \cap Bridged = {}
  PROVE  Spec => []OneRecordPerSync
<1>1. Init => Counted
  BY CountedStart
<1>2. NetInv /\ Counted /\ [Next]_vars => Counted'
  BY CountedStep
<1>3. ASSUME NetInv, Counted, doc # Torn, NEW v \in Vms
      PROVE  Cardinality(InternalOf(doc, v)) <= 1 + resyncs
  <2>1. resyncs \in Nat /\ IsFiniteSet(InternalOf(doc, v)) /\ Cardinality(InternalOf(doc, v)) <= Records
    BY <1>3, HostTypes, NetworkConstants DEF Counted, Few
  <2>2. Cardinality(InternalOf(doc, v)) \in Nat
    BY <2>1, FS_CardinalityType
  <2> QED  BY <2>1, <2>2 DEF Records
<1>4. NetInv /\ Counted => OneRecordPerSync
  BY <1>3 DEF OneRecordPerSync
<1>5. Spec => []NetInv
  BY NetInvariant
<1> QED  BY <1>1, <1>2, <1>4, <1>5, PTL DEF Spec

-----------------------------------------------------------------------------
(* The handlers implement AddressBook.                                     *)

Booked == [a \in PublicIps |-> BookedFor(a)]
Given  == [v \in Vms |-> AddressOf(v)]

(* Every entry is one VM's, under its id or under its temporary one.       *)
LEMMA HolderIs ==
  ASSUME NEW e \in Entry
  PROVE  /\ Holder(e) \in Vms /\ e.vm_id \in {Holder(e), PreId(Holder(e))}
         /\ \A v \in Vms : e.vm_id \in {v, PreId(v)} => Holder(e) = v
<1>1. e.vm_id \in Vms \cup PreIds
  BY DEF Entry
<1>2. \E v \in Vms : e.vm_id \in {v, PreId(v)}
  BY <1>1 DEF PreIds
<1>3. Holder(e) \in Vms /\ e.vm_id \in {Holder(e), PreId(Holder(e))}
  BY <1>2 DEF Holder
<1> QED  BY <1>3, PreIdsApart

LEMMA BookedIs ==
  ASSUME CalmInv, NEW a \in PublicIps
  PROVE  /\ hub.at = "claim" /\ hub.ip = a => BookedFor(a) = hub.vm /\ doc[a] = Free
         /\ ~(hub.at = "claim" /\ hub.ip = a) /\ doc[a] = Free => BookedFor(a) = NoVm
         /\ \A v \in Vms : doc[a] # Free /\ doc[a].vm_id \in {v, PreId(v)} => BookedFor(a) = v
         /\ doc[a] # Free => doc[a].vm_id \in {BookedFor(a), PreId(BookedFor(a))}
         /\ BookedFor(a) \in Vms \cup {NoVm}
<1>1. /\ hub.at = "claim" => hub.vm \in Vms /\ doc[hub.ip] = Free
      /\ doc \in Docs /\ a \in IPs
  BY Ranges DEF CalmInv, NetInv, HubOk, Books, Temporary, TypeOK, Quiet, HubWrites
<1>2. doc[a] # Free => doc[a] \in Entry /\ BookedFor(a) = Holder(doc[a])
  BY <1>1 DEF BookedFor, Docs
<1> QED  BY <1>1, <1>2, HolderIs DEF BookedFor

(* Two states that agree on entries and on the claim agree on the booking. *)
LEMMA BookedSame ==
  ASSUME CalmInv, CalmInv',
         \A a \in PublicIps : doc'[a] = doc[a],
         hub.at = "claim" <=> hub'.at = "claim",
         hub.at = "claim" => hub'.ip = hub.ip /\ hub'.vm = hub.vm
  PROVE  Booked' = Booked
<1>1. ASSUME NEW a \in PublicIps PROVE BookedFor(a)' = BookedFor(a)
  BY <1>1 DEF BookedFor
<1> QED  BY <1>1 DEF Booked

LEMMA BookStutters ==
  ASSUME Booked' = Booked, Given' = Given
  PROVE  [AddressBook!Next]_<<Booked, Given>>
OBVIOUS

LEMMA GivenSame ==
  ASSUME CalmInv, \A v \in Vms : (Exists(v) <=> Exists(v)') /\ public'[v] = public[v]
  PROVE  Given' = Given
BY DEF Given, AddressOf

(* Steps that take no part in it.                                          *)
LEMMA BookLooksOn ==
  ASSUME Calm, CalmInv, CalmInv',
         \/ \E v \in Vms : \/ \E p \in PoolNames : Create(v, p)
                           \/ Start(v) \/ Stop(v) \/ Delete(v) \/ NatSync(v)
         \/ HubLoad \/ LookUp \/ TakeRecorded \/ ReserveDerived \/ ResetNat \/ MoveInternal
         \/ SetUpNat \/ DefineFails \/ RecordInternal \/ RecordDerived \/ ReleaseMac \/ Thread
  PROVE  Booked' = Booked /\ Given' = Given
<1>1. \A a \in PublicIps : doc'[a] = doc[a]
  <2>1. CASE RecordInternal \/ RecordDerived
    <3>1. hubDoc = doc /\ hub.vm \in Vms /\ Formula[hub.vm] \in InternalIps /\ doc \in Docs
      BY <2>1, CalmCall, NetworkConstants DEF RecordInternal, RecordDerived
    <3>2. \A a \in PublicIps : a \in IPs /\ a # Formula[hub.vm]
      BY <3>1, Ranges, NetworkConstants
    <3> QED  BY <2>1, <3>1, <3>2 DEF RecordInternal, RecordDerived, Save, Assigned, Docs
  <2>2. CASE MoveInternal
    <3>1. ToMove(hubDoc, hub.vm) \subseteq {hub.to}
      BY <2>2, CalmCall DEF MoveInternal, Loaded, ToMove, CalmInv, Quiet, AtFormula
    <3> QED  BY <2>2, <3>1 DEF MoveInternal, Save
  <2>3. CASE Thread
    BY <2>3, NothingToSave DEF Thread, SeeArp, GiveUp, CleanNat, AddNat
  <2>4. CASE ReleaseMac
    BY <2>4, CalmReleasesMac DEF CalmInv
  <2> QED  BY <2>1, <2>2, <2>3, <2>4 DEF Create, Start, Stop, Delete, NatSync, HubLoad, LookUp, TakeRecorded,
                                   ReserveDerived, ResetNat, SetUpNat, DefineFails
<1>2. hub' = hub \/ (hub.at # "claim" /\ hub'.at # "claim")
  <2>1. hub \in HubState
    BY HostTypes DEF CalmInv
  <2>2. CASE Thread
    BY <2>2, NothingToSave DEF Thread, SeeArp, GiveUp, CleanNat, AddNat
  <2>3. CASE \E v \in Vms : Start(v) \/ Stop(v)
    BY <2>3 DEF Start, Stop
  <2>4. CASE \E v \in Vms : (\E p \in PoolNames : Create(v, p)) \/ Delete(v) \/ NatSync(v)
    <3>1. PICK v \in Vms : (\E p \in PoolNames : Create(v, p)) \/ Delete(v) \/ NatSync(v)
      BY <2>4
    <3>2. hub.at = "idle"
      <4>1. hub = Idle
        BY <3>1 DEF Create, Delete, NatSync
      <4> QED  BY <4>1 DEF Idle
    <3>3. \A p \in PoolNames : Create(v, p) => hub'.at # "claim"
      BY DEF Create, Idle
    <3>4. Delete(v) \/ NatSync(v) => hub'.at # "claim"
      BY DEF Delete, NatSync, Idle
    <3> QED  BY <3>1, <3>2, <3>3, <3>4
  <2>5. CASE HubLoad
    BY <2>5 DEF HubLoad
  <2>6. CASE hub' = Idle /\ hub.at # "claim"
    BY <2>6 DEF Idle
  <2>7. CASE LookUp \/ TakeRecorded \/ ReserveDerived \/ ResetNat \/ SetUpNat \/ DefineFails
    BY <2>1, <2>6, <2>7 DEF LookUp, TakeRecorded, ReserveDerived, ResetNat, SetUpNat, DefineFails, Goto,
                            Done, HubState
  <2>8. CASE MoveInternal \/ RecordInternal \/ RecordDerived \/ ReleaseMac
    BY <2>6, <2>8 DEF MoveInternal, RecordInternal, RecordDerived, ReleaseMac, Done, Loaded
  <2> QED  BY <2>2, <2>3, <2>4, <2>5, <2>7, <2>8
<1>3. Booked' = Booked
  BY <1>1, <1>2, BookedSame
<1>4. \A v \in Vms : (Exists(v) <=> Exists(v)') /\ public'[v] = public[v]
  <2>1. vms \in [Vms -> {"new", "off", "running", "gone"}]
    BY HostTypes DEF CalmInv
  <2>2. CASE DefineFails
    BY <2>1, <2>2 DEF DefineFails, Exists, CalmInv, NetInv, HubOk
  <2>3. CASE Thread
    BY <2>3, NothingToSave DEF Thread, SeeArp, GiveUp, CleanNat, AddNat, Host, Exists
  <2> QED  BY <2>1, <2>2, <2>3
              DEF Create, Start, Stop, Delete, NatSync, HubLoad, LookUp, TakeRecorded, ReserveDerived,
                  ResetNat, MoveInternal, SetUpNat, RecordInternal, RecordDerived, ReleaseMac, Host, Exists
<1> QED  BY <1>3, <1>4, GivenSame

(* An address is booked, for a VM that has none.                           *)
LEMMA Bookings ==
  ASSUME Calm, CalmInv, CalmInv', PreAllocate \/ Allocate
  PROVE  [AddressBook!Next]_<<Booked, Given>>
<1>v. PICK v : v = hub.vm
  OBVIOUS
<1>i. PICK ips, ip : ips = Allocatable(doc, hub.pool) /\ ip = Lowest(ips)
  OBVIOUS
<1> USE <1>v, <1>i
<1>1. /\ hubDoc = doc /\ Sound(public, arp, doc) /\ doc \in Docs /\ v \in Vms
      /\ hub.pool \in PoolNames /\ hub \in HubState /\ hub.at \in {"preAlloc", "allocate"}
      /\ public[v] = NoIp
  BY CalmCall, NetworkConstants DEF PreAllocate, Allocate, Loaded, CalmInv, NetInv, HubOk, VmsOk
<1>2. CASE ips = {}
  <2>1. /\ doc' = doc /\ UNCHANGED <<vms, public>>
        /\ hub'.at # "claim"
    BY <1>1, <1>2 DEF PreAllocate, Allocate, Save, Goto, Done, Idle, Host, HubState
  <2>2. Booked' = Booked
    BY <1>1, <2>1, BookedSame
  <2>3. Given' = Given
    BY <2>1, GivenSame DEF Exists
  <2> QED  BY <2>2, <2>3
<1>3. CASE ips # {}
  <2>1. ip \in PublicIps /\ ip \in IPs /\ doc[ip] = Free
    BY <1>1, <1>3, AllocatesFree, Ranges
  <2>2. PICK u \in {v, PreId(v)}, m \in Macs \cup {NoMac} :
          doc' = Assigned(doc, ip, u, m, hub.pool)
    <3>1. CASE PreAllocate
      BY <1>1, <1>3, <3>1 DEF PreAllocate, Save
    <3>2. CASE Allocate
      BY <1>1, <1>3, <3>2 DEF Allocate, Save, Macs
    <3> QED  BY <3>1, <3>2
  <2>3. hub'.at # "claim"
    <3>1. CASE PreAllocate
      BY <1>1, <1>3, <3>1 DEF PreAllocate, HubState
    <3>2. CASE Allocate
      <4>1. hub' = IF hub.pool \in Bridged THEN Idle ELSE [hub EXCEPT !.at = "nat", !.ip = ip]
        BY <1>1, <1>3, <3>2 DEF Allocate, Done
      <4> QED  BY <1>1, <4>1 DEF Idle, HubState
    <3> QED  BY <3>1, <3>2
  <2>3a. u \in Vms \cup PreIds
    BY <1>1, PreIdsApart
  <2>4. /\ doc'[ip] # Free /\ doc'[ip].vm_id \in {v, PreId(v)} /\ doc'[ip] \in Entry
        /\ \A a \in PublicIps \ {ip} : doc'[a] = doc[a]
    <3> QED  BY <1>1, <2>1, <2>2, <2>3a, AssignedEntries, Ranges DEF Docs
  <2>5. \A a \in PublicIps : hub.at # "claim" /\ (doc[a] = Free => BookedFor(a) = NoVm)
    BY <1>1, BookedIs
  <2>6. ASSUME NEW b \in PublicIps PROVE BookedFor(b) # v
    <3> SUFFICES ASSUME BookedFor(b) = v PROVE FALSE
      OBVIOUS
    <3>1. doc[b] # Free /\ doc[b].vm_id \in {v, PreId(v)} /\ b \in IPs
      BY <1>1, <2>5, BookedIs, NoVmIsNothing, Ranges
    <3>2. doc[b].vm_id # v
      BY <1>1, <3>1 DEF Sound, EntryOk
    <3>3. b \in Entries(doc, PreId(v)) /\ hub.at \notin Holding
      BY <1>1, <3>1, <3>2 DEF Entries, Holding
    <3> QED  BY <1>1, <3>3 DEF CalmInv, Books, Temporary
  <2>7. BookedFor(ip)' = v /\ \A a \in PublicIps \ {ip} : BookedFor(a)' = BookedFor(a)
    <3>1. BookedFor(ip)' = Holder(doc'[ip])
      BY <2>3, <2>4 DEF BookedFor
    <3>2. Holder(doc'[ip]) = v
      BY <1>1, <2>4, HolderIs
    <3>3. ASSUME NEW a \in PublicIps \ {ip} PROVE BookedFor(a)' = BookedFor(a)
      BY <1>1, <2>3, <2>4 DEF BookedFor
    <3> QED  BY <3>1, <3>2, <3>3
  <2>8. AddressBook!Book(v, ip)
    <3>1. Booked[ip] = NoVm /\ \A b \in PublicIps : Booked[b] # v
      BY <2>1, <2>5, <2>6 DEF Booked
    <3>2. Booked' = [Booked EXCEPT ![ip] = v]
      BY <2>7 DEF Booked
    <3> QED  BY <3>1, <3>2 DEF AddressBook!Book, Booked
  <2>9. CASE PreAllocate
    <3>1. UNCHANGED <<vms, public>>
      BY <2>9 DEF PreAllocate, Host
    <3>2. Given' = Given
      BY <3>1, GivenSame DEF Exists
    <3>3. AddressBook!BookOnly(v, ip)
      BY <2>8, <3>2 DEF AddressBook!BookOnly, Given
    <3> QED  BY <1>1, <2>1, <3>3 DEF AddressBook!Next
  <2>10. CASE Allocate
    <3>1. Exists(v) /\ public[v] = NoIp /\ vms' = vms /\ public' = [public EXCEPT ![v] = ip]
          /\ public \in [Vms -> PublicIps \cup {NoIp}]
      BY <1>1, <1>3, <2>10 DEF Allocate, Loaded, CalmInv, Books, Present, Releasing, NetInv, TypeOK
    <3>2. Given[v] = NoIp /\ Given' = [Given EXCEPT ![v] = ip]
      BY <1>1, <3>1 DEF Given, AddressOf, Exists
    <3>3. AddressBook!Give(v, ip)
      BY <3>2 DEF AddressBook!Give, Given
    <3>4. AddressBook!BookAndGive(v, ip)
      BY <2>8, <3>3 DEF AddressBook!BookAndGive
    <3> QED  BY <1>1, <2>1, <3>4 DEF AddressBook!Next
  <2> QED  BY <2>9, <2>10
<1> QED  BY <1>2, <1>3

(* A VM is defined with the address it is booked for.                      *)
LEMMA Givings ==
  ASSUME Calm, CalmInv, CalmInv', DefineVm
  PROVE  [AddressBook!Next]_<<Booked, Given>>
<1>v. PICK v, ip : v = hub.vm /\ ip = hub.ip
  OBVIOUS
<1> USE <1>v
<1>1. /\ v \in Vms /\ vms[v] = "new" /\ public[v] = NoIp /\ hub \in HubState /\ hub.at = "define"
      /\ public \in [Vms -> PublicIps \cup {NoIp}]
      /\ ip # NoIp => ip \in PublicIps
      /\ vms \in [Vms -> {"new", "off", "running", "gone"}]
  BY HostTypes, Ranges DEF DefineVm, CalmInv, NetInv, HubOk, VmsOk, TypeOK
<1>2. /\ doc' = doc /\ hub'.at # "claim" /\ public' = [public EXCEPT ![v] = ip]
      /\ vms' = [vms EXCEPT ![v] = "off"]
  BY <1>1 DEF DefineVm, Goto, HubState
<1>3. Booked' = Booked
  BY <1>1, <1>2, BookedSame
<1>4. Given' = [Given EXCEPT ![v] = ip] /\ Given[v] = NoIp
  BY <1>1, <1>2 DEF Given, AddressOf, Exists
<1>5. CASE ip = NoIp
  <2>1. Given' = Given
    BY <1>1, <1>4, <1>5 DEF Given
  <2> QED  BY <1>3, <2>1
<1>6. CASE ip # NoIp
  <2>1. doc[ip] # Free /\ doc[ip].vm_id = PreId(v)
    BY <1>1, <1>6 DEF CalmInv, Books, Temporary, Holding
  <2>2. Booked[ip] = v
    BY <1>1, <1>6, <2>1, BookedIs DEF Booked
  <2>3. AddressBook!GiveBooked(v, ip)
    BY <1>3, <1>4, <2>2 DEF AddressBook!GiveBooked, AddressBook!Give, Booked, Given
  <2> QED  BY <1>1, <1>6, <2>3 DEF AddressBook!Next
<1> QED  BY <1>5, <1>6

(* The temporary reservation becomes the VM's record.                      *)
LEMMA Claimings ==
  ASSUME Calm, CalmInv, CalmInv', DropPre \/ Claim
  PROVE  Booked' = Booked /\ Given' = Given
<1>v. PICK v : v = hub.vm
  OBVIOUS
<1> USE <1>v
<1>1. /\ hubDoc = doc /\ doc \in Docs /\ v \in Vms /\ hub \in HubState
      /\ hub.at \in {"dropPre", "claim"} /\ hub.ip \in PublicIps /\ hub.ip # NoIp /\ hub.pool \in PoolNames
  BY CalmCall, Ranges, NetworkConstants DEF DropPre, Claim, Loaded, CalmInv, NetInv, HubOk
<1>2. Given' = Given
  BY GivenSame DEF DropPre, Claim, Host, Exists
<1>3. CASE DropPre
  <2>1. /\ doc' = Released(doc, PreId(v)) /\ hub'.at = "claim" /\ hub'.vm = v /\ hub'.ip = hub.ip
        /\ hub.at = "dropPre"
    BY <1>1, <1>3 DEF DropPre, Loaded, Save, Goto, HubState
  <2>2. doc[hub.ip] # Free /\ doc[hub.ip].vm_id = PreId(v) /\ Entries(doc, PreId(v)) \subseteq {hub.ip}
    BY <1>1, <2>1 DEF CalmInv, Books, Temporary, Holding
  <2>3. BookedFor(hub.ip) = v /\ BookedFor(hub.ip)' = v
    BY <1>1, <2>1, <2>2, BookedIs DEF BookedFor
  <2>4. ASSUME NEW a \in PublicIps \ {hub.ip} PROVE BookedFor(a)' = BookedFor(a)
    <3>1. doc'[a] = doc[a]
      BY <1>1, <2>1, <2>2, <2>4, Ranges DEF Released
    <3> QED  BY <1>1, <2>1, <2>4, <3>1 DEF BookedFor
  <2>5. ASSUME NEW a \in PublicIps PROVE BookedFor(a)' = BookedFor(a)
    <3>1. CASE a = hub.ip
      BY <1>1, <2>1, <2>2, <3>1, BookedIs DEF BookedFor
    <3> QED  BY <2>4, <3>1
  <2> QED  BY <1>2, <2>5 DEF Booked
<1>4. CASE Claim
  <2>p. PICK ip, p : ip = hub.ip /\ p = hub.pool
    OBVIOUS
  <2> USE <2>p
  <2>1. /\ doc' = Assigned(doc, ip, v, MacOf(v), p) /\ hub'.at # "claim" /\ hub.at = "claim"
        /\ MacOf(v) \in Macs
    BY <1>1, <1>4 DEF Claim, Loaded, Save, Done, Idle, Macs
  <2>2. /\ doc'[ip] # Free /\ doc'[ip].vm_id = v /\ doc'[ip] \in Entry
        /\ \A a \in PublicIps \ {ip} : doc'[a] = doc[a]
    <3>1. /\ ip \in IPs /\ v \in Vms \cup PreIds /\ MacOf(v) \in Macs \cup {NoMac}
          /\ p \in PoolNames \cup {Internal}
      BY <1>1, <2>1, Ranges
    <3>2. /\ doc' \in Docs /\ doc'[ip] # Free /\ doc'[ip].vm_id = v
          /\ \A a \in IPs \ {ip} : doc'[a] = doc[a]
      BY <1>1, <2>1, <3>1, AssignedEntries
    <3>3. doc'[ip] \in Entry
      BY <3>1, <3>2 DEF Docs
    <3> QED  BY <3>2, <3>3, Ranges
  <2>3. ASSUME NEW a \in PublicIps PROVE BookedFor(a)' = BookedFor(a)
    <3>1. CASE a = ip
      <4>1. BookedFor(a) = v
        BY <1>1, <2>1, <3>1 DEF BookedFor
      <4>2. Holder(doc'[a]) = v
        BY <1>1, <2>2, <3>1, HolderIs
      <4>3. BookedFor(a)' = Holder(doc'[a])
        BY <2>1, <2>2, <3>1 DEF BookedFor
      <4> QED  BY <4>1, <4>2, <4>3
    <3>2. CASE a # ip
      BY <2>1, <2>2, <3>2 DEF BookedFor
    <3> QED  BY <3>1, <3>2
  <2> QED  BY <1>2, <2>3 DEF Booked
<1> QED  BY <1>3, <1>4

(* The VM ends, or the create has failed, and then the booking ends.       *)
LEMMA Endings ==
  ASSUME Calm, CalmInv, CalmInv', UndoPre \/ Release
  PROVE  [AddressBook!Next]_<<Booked, Given>>
<1>v. PICK v : v = hub.vm
  OBVIOUS
<1> USE <1>v
<1>1. /\ hubDoc = doc /\ Sound(public, arp, doc) /\ doc \in Docs /\ v \in Vms
      /\ hub.at \in {"undoPre", "release"} /\ hub'.at # "claim"
  <2>1. hub' = Idle \/ hub' = [hub EXCEPT !.at = "releaseMac"]
    BY DEF UndoPre, Release, Goto, Done
  <2>2. hub \in HubState
    BY HostTypes DEF CalmInv
  <2>3. hub'.at # "claim"
    BY <2>1, <2>2 DEF HubState, Idle
  <2> QED  BY <2>3, CalmCall DEF UndoPre, Release, Loaded
<1>2. Given' = Given
  BY GivenSame DEF UndoPre, Release, Host, Exists
<1>3. Given[v] = NoIp
  BY <1>1 DEF Given, AddressOf, CalmInv, NetInv, HubOk, Books, Present, Releasing
<1>4. \A a \in IPs : doc[a] # Free /\ doc[a].vm_id \in {v, PreId(v)} <=>
                      doc[a] # Free /\ doc'[a] = Free
  <2>1. CASE UndoPre
    <3>1. doc' = Released(doc, PreId(v)) /\ public[v] = NoIp
      BY <1>1, <2>1 DEF UndoPre, Loaded, Save, CalmInv, NetInv, HubOk
    <3>2. \A a \in IPs : doc[a] # Free => doc[a].vm_id # v
      BY <1>1, <3>1 DEF Sound, EntryOk
    <3> QED  BY <3>1, <3>2 DEF Released, Entries
  <2>2. CASE Release
    <3>1. doc' = Released(doc, v) /\ hub.at = "release"
      BY <1>1, <2>2 DEF Release, Loaded, Save
    <3>2. Entries(doc, PreId(v)) = {}
      BY <1>1, <3>1 DEF CalmInv, Books, Temporary, Holding
    <3> QED  BY <3>1, <3>2 DEF Released, Entries
  <2> QED  BY <2>1, <2>2
<1>5. \A a \in IPs : doc'[a] \in {doc[a], Free}
  BY <1>1 DEF UndoPre, Release, Save, Released
<1>6. ASSUME NEW a \in PublicIps
      PROVE  BookedFor(a)' = IF BookedFor(a) = v THEN NoVm ELSE BookedFor(a)
  <2>1. a \in IPs
    BY Ranges
  <2>2. BookedFor(a)' = (IF doc'[a] = Free THEN NoVm ELSE Holder(doc'[a]))
    BY <1>1 DEF BookedFor
  <2>3. BookedFor(a) = (IF doc[a] = Free THEN NoVm ELSE Holder(doc[a]))
    BY <1>1 DEF BookedFor
  <2>4. doc[a] # Free => (Holder(doc[a]) = v <=> doc[a].vm_id \in {v, PreId(v)})
    <3>1. doc[a] # Free => doc[a] \in Entry
      BY <1>1, <2>1 DEF Docs
    <3> QED  BY <1>1, <3>1, HolderIs
  <2> QED  BY <1>1, <1>4, <1>5, <2>1, <2>2, <2>3, <2>4
<1>7. Booked' = [a \in PublicIps |-> IF Booked[a] = v THEN NoVm ELSE Booked[a]]
  BY <1>6 DEF Booked
<1>8. AddressBook!EndBooking(v)
  BY <1>2, <1>3, <1>7 DEF AddressBook!EndBooking, Booked, Given
<1> QED  BY <1>1, <1>8 DEF AddressBook!Next

LEMMA Returns ==
  ASSUME Calm, CalmInv, CalmInv', Dismantle
  PROVE  [AddressBook!Next]_<<Booked, Given>>
<1>v. PICK v : v = hub.vm
  OBVIOUS
<1> USE <1>v
<1>1. /\ v \in Vms /\ hub \in HubState /\ vms \in [Vms -> {"new", "off", "running", "gone"}]
      /\ hub.at = "dismantle" /\ Exists(v)
  BY HostTypes DEF Dismantle, CalmInv, NetInv, HubOk, Books, Present, Releasing
<1>2. /\ doc' = doc /\ hub'.at # "claim" /\ public' = public
      /\ vms' = [vms EXCEPT ![v] = "gone"]
  BY <1>1 DEF Dismantle, Goto, HubState, Calm
<1>3. Booked' = Booked
  BY <1>1, <1>2, BookedSame
<1>4. Given' = [Given EXCEPT ![v] = NoIp]
  BY <1>1, <1>2 DEF Given, AddressOf, Exists
<1>5. CASE Given[v] = NoIp
  <2>1. Given' = Given
    BY <1>1, <1>4, <1>5 DEF Given
  <2> QED  BY <1>3, <2>1
<1>6. CASE Given[v] # NoIp
  <2>1. AddressBook!Return(v)
    BY <1>3, <1>4, <1>6 DEF AddressBook!Return, Booked, Given
  <2> QED  BY <1>1, <2>1 DEF AddressBook!Next
<1> QED  BY <1>5, <1>6

LEMMA BookStep ==
  ASSUME Calm, CalmInv, CalmInv', [Next]_vars
  PROVE  [AddressBook!Next]_<<Booked, Given>>
<1>1. CASE UNCHANGED vars
  <2>1. Booked' = Booked
    BY <1>1, BookedSame DEF vars
  <2>2. Given' = Given
    BY <1>1, GivenSame DEF vars, Exists
  <2> QED  BY <2>1, <2>2
<1>2. CASE Hub
  <2>1. ~HubLoadFails /\ ~LookUpFails
    BY NothingToSave
  <2> QED  BY <1>2, <2>1, BookLooksOn, Bookings, Givings, Claimings, Endings, Returns DEF Hub
<1>3. CASE Thread
  BY <1>3, BookLooksOn
<1>4. ~Crash
  BY DEF Calm, Crash
<1> QED  BY <1>1, <1>2, <1>3, <1>4 DEF Next

LEMMA BookStart == ASSUME Init PROVE AddressBook!Init
<1>1. \A a \in PublicIps : BookedFor(a) = NoVm
  BY Ranges DEF Init, BookedFor, Idle
<1>2. \A v \in Vms : AddressOf(v) = NoIp
  BY DEF Init, AddressOf, Exists
<1> QED  BY <1>1, <1>2 DEF AddressBook!Init

(* While libvirt does what it is told and the process is not killed, the   *)
(* create and delete handlers implement AddressBook: a VM is given only an *)
(* address that the document, the temporary reservation or the claim under *)
(* way books for it, only an address without an entry is booked, and the   *)
(* booking outlives the VM (app.py:1797-1811, 1941-1958).                  *)
THEOREM ImplementsAddressBook ==
  ASSUME Calm
  PROVE  Spec => AddressesAreBooked
<1>1. Init => AddressBook!Init
  BY BookStart
<1>2. CalmInv /\ CalmInv' /\ [Next]_vars => [AddressBook!Next]_<<Booked, Given>>
  BY BookStep
<1>3. Spec => []CalmInv
  BY CalmInvariant
<1> QED  BY <1>1, <1>2, <1>3, PTL DEF Spec, AddressesAreBooked, AddressBook!Spec, Booked, Given

HoldersAre(book, given) == \A v \in Vms : given[v] # NoIp => given[v] \in PublicIps /\ book[given[v]] = v

(* What the address book promises its readers: nobody has an address that  *)
(* he is not booked for, so two VMs never have the same one.               *)
THEOREM BookPromises == AddressBook!Spec => []AddressBook!HoldersBooked
<1>1. AddressBook!Init => AddressBook!HoldersBooked
  BY DEF AddressBook!Init, AddressBook!HoldersBooked
<1>2. ASSUME AddressBook!HoldersBooked, [AddressBook!Next]_<<Booked, Given>>
      PROVE  AddressBook!HoldersBooked'
  <2>0. Booked = [a \in PublicIps |-> Booked[a]] /\ Given = [v \in Vms |-> Given[v]]
    BY DEF Booked, Given
  <2>1. HoldersAre(Booked, Given)
    BY <1>2 DEF AddressBook!HoldersBooked, HoldersAre, Booked, Given
  <2>2. HoldersAre(Booked', Given')
    <3>1. CASE Booked' = Booked /\ Given' = Given
      BY <2>1, <3>1
    <3>2. ASSUME NEW v \in Vms, NEW a \in PublicIps,
                 \/ AddressBook!BookOnly(v, a)
                 \/ AddressBook!BookAndGive(v, a)
                 \/ AddressBook!GiveBooked(v, a)
          PROVE  HoldersAre(Booked', Given')
      <4>1. Given' \in {Given, [Given EXCEPT ![v] = a]}
        BY <3>2 DEF AddressBook!BookOnly, AddressBook!BookAndGive, AddressBook!GiveBooked,
                    AddressBook!Give, Given
      <4>2. \/ Booked' = Booked
            \/ Booked[a] = NoVm /\ Booked' = [Booked EXCEPT ![a] = v]
        BY <3>2 DEF AddressBook!BookOnly, AddressBook!BookAndGive, AddressBook!GiveBooked,
                    AddressBook!Book, Booked
      <4>3. Given' # Given => Booked'[a] = v
        BY <3>2, <2>0 DEF AddressBook!BookOnly, AddressBook!BookAndGive, AddressBook!GiveBooked,
                    AddressBook!Book, Booked, Given
      <4> HIDE DEF Booked, Given
      <4> QED  BY <2>0, <2>1, <4>1, <4>2, <4>3, NoVmIsNothing DEF HoldersAre
    <3>3. ASSUME NEW v \in Vms, AddressBook!Return(v) PROVE HoldersAre(Booked', Given')
      BY <2>0, <2>1, <3>3 DEF AddressBook!Return, HoldersAre, Booked, Given
    <3>4. ASSUME NEW v \in Vms, AddressBook!EndBooking(v) PROVE HoldersAre(Booked', Given')
      <4>1. /\ Given[v] = NoIp /\ Given' = Given
            /\ Booked' = [a \in PublicIps |-> IF Booked[a] = v THEN NoVm ELSE Booked[a]]
        BY <3>4 DEF AddressBook!EndBooking, Booked, Given
      <4> QED  BY <2>0, <2>1, <4>1 DEF HoldersAre
    <3> QED  BY <1>2, <3>1, <3>2, <3>3, <3>4 DEF AddressBook!Next
  <2> QED  BY <2>2 DEF AddressBook!HoldersBooked, HoldersAre, Booked, Given
<1> QED  BY <1>1, <1>2, PTL DEF AddressBook!Spec, Booked, Given
=============================================================================
