----------------------------- MODULE DiskStore -----------------------------
(***************************************************************************)
(* VMs, templates and their disk files: create, delete and clone           *)
(* (vm_manager.py), linked clones (linked_clone.py) and templates          *)
(* (template_manager.py), all in src/ankavm/backend.                       *)
(*                                                                         *)
(* A disk file is named after the VM, a template's after the template, a   *)
(* deployed VM's has a random part.  An overlay keeps only what differs    *)
(* from its base.  Handlers run on the hub one after the other, clone jobs *)
(* in threads of their own; each is a sequence of commands with a kill     *)
(* possible in between, and defineXML comes after the disk is written.     *)
(* qemu locks the images it has open, for qemu-img too.                    *)
(*                                                                         *)
(* VMs have one disk.  Not covered: VNC ports, the installation monitor,   *)
(* cloud-init images, a VM that is started between destroy and undefine.   *)
(***************************************************************************)
EXTENDS FiniteSets, Integers

CONSTANTS
  Vms, Names, Templates, Jobs,
  Faults,      \* what can fail: "image", "define", "list"
  FreshNames,  \* operators give a name to one new VM at a time
  Checked,     \* they ask for dependents right before they delete
  LinkVms,     \* they make linked clones of VMs
  NoVm, NoFile

Files == Vms \cup Names \cup Templates
File  == [base : Files \cup {NoFile}, written : BOOLEAN]
Vm    == [name : Names, disk : Files]
Idle  == [at |-> "idle"]
HubState ==
  [at : {"image", "define", "start", "undefine", "remove"}, op : {"create", "link", "deploy", "delete"},
   vm : Vms, name : Names, file : Files, base : Files \cup {NoFile}] \cup {Idle}
JobState ==
  [at : {"convert", "copying", "define"}, src : Vms, from : Files, vm : Vms, name : Names] \cup {Idle}

ASSUME DiskConstants ==
  /\ Vms \cap Names = {} /\ Vms \cap Templates = {} /\ Names \cap Templates = {}
  /\ IsFiniteSet(Files)
  /\ Faults \subseteq {"image", "define", "list"}
  /\ FreshNames \in BOOLEAN /\ Checked \in BOOLEAN /\ LinkVms \in BOOLEAN
  /\ NoVm \notin Vm /\ NoFile \notin File /\ NoFile \notin Files

VARIABLES
  vms,    \* libvirt: the definitions
  power,  \* libvirt: the states
  files,  \* the image files
  spent,  \* the identifiers drawn so far
  hub,    \* the running handler
  jobs,   \* the clone jobs
  pulled  \* history: the disks deleted while the list left out who needs them

vars == <<vms, power, files, spent, hub, jobs, pulled>>

TypeOK ==
  /\ vms \in [Vms -> Vm \cup {NoVm}]
  /\ power \in [Vms -> {"off", "running", "paused"}]
  /\ files \in [Files -> File \cup {NoFile}]
  /\ spent \subseteq Vms \cup Templates
  /\ hub \in HubState
  /\ jobs \in [Jobs -> JobState]
  /\ pulled \subseteq Files

Init ==
  /\ vms = [v \in Vms |-> NoVm] /\ power = [v \in Vms |-> "off"]
  /\ files = [f \in Files |-> NoFile]
  /\ spent = {} /\ hub = Idle /\ jobs = [j \in Jobs |-> Idle] /\ pulled = {}

Defined(v) == vms[v] # NoVm
Exists(f) == f \in Files /\ files[f] # NoFile
Image(base) == [base |-> base, written |-> FALSE]
Taken(n) == \E v \in Vms : Defined(v) /\ vms[v].name = n

(* A disk, its base, the base of that and so on.                           *)
Chain(f) ==
  LET below[k \in 0 .. Cardinality(Files)] ==
        IF k = 0 THEN {f}
        ELSE below[k - 1] \cup {files[g].base : g \in {h \in below[k - 1] : Exists(h)}}
  IN below[Cardinality(Files)] \ {NoFile}

Open(f) == \E v \in Vms : Defined(v) /\ vms[v].disk = f /\ power[v] # "off"
WrittenTo(f) == Open(f) \/ \E j \in Jobs : jobs[j].at = "copying" /\ jobs[j].name = f

(* No handler and no job makes or removes a disk of this name. *)
Quiet(n) ==
  /\ hub # Idle => hub.file # n
  /\ \A j \in Jobs : jobs[j] # Idle => jobs[j].name # n

BasedOn(v, f) == Defined(v) /\ Exists(vms[v].disk) /\ files[vms[v].disk].base = f

(* Mutant: only the VMs that run are looked at. *)
DependentsMut(f) ==
  {v \in Vms : BasedOn(v, f) /\ power[v] # "off" /\ ~WrittenTo(vms[v].disk)}

(* linked_clone.list_dependents: the VMs whose disk is directly based on f.*)
(* qemu-img info cannot open a disk that is in use, which then counts as   *)
(* one without a base.                                                     *)
Dependents(f) == {v \in Vms : BasedOn(v, f) /\ ~WrittenTo(vms[v].disk)}

(* What is based on f and is not listed: the VMs that are in use, or all   *)
(* of them when the listing breaks off; the templates.                     *)
Unlisted(f, broken) ==
  {v \in Vms : BasedOn(v, f) /\ (broken \/ WrittenTo(vms[v].disk))}
    \cup {t \in Templates : Exists(t) /\ files[t].base = f}

(* The list for f has been empty, and f is going to be deleted. *)
AskAndPull(f) ==
  \E broken \in BOOLEAN :
    /\ broken => "list" \in Faults
    /\ Checked => broken \/ Dependents(f) = {}
    /\ pulled' = IF Unlisted(f, broken) = {} THEN pulled ELSE pulled \cup {f}

-----------------------------------------------------------------------------
(* Guests, and whoever starts, stops and pauses them.                      *)

CanStart(v) ==
  /\ Defined(v) /\ power[v] = "off" /\ \A f \in Chain(vms[v].disk) : Exists(f)
  /\ ~WrittenTo(vms[v].disk)
  /\ \A j \in Jobs : jobs[j].at = "copying" => jobs[j].from # vms[v].disk
  /\ \A u \in Vms : power[u] # "off" /\ Defined(u) => /\ vms[u].disk \notin Chain(vms[v].disk)
                                                      /\ vms[v].disk \notin Chain(vms[u].disk)

Start(v) ==
  /\ CanStart(v)
  /\ hub # Idle => hub.vm # v
  /\ power' = [power EXCEPT ![v] = "running"]
  /\ UNCHANGED <<vms, files, spent, hub, jobs, pulled>>

Stop(v) ==
  /\ power[v] # "off"
  /\ power' = [power EXCEPT ![v] = "off"]
  /\ UNCHANGED <<vms, files, spent, hub, jobs, pulled>>

Pause(v) ==
  /\ power[v] = "running"
  /\ power' = [power EXCEPT ![v] = "paused"]
  /\ UNCHANGED <<vms, files, spent, hub, jobs, pulled>>

Resume(v) ==
  /\ power[v] = "paused"
  /\ power' = [power EXCEPT ![v] = "running"]
  /\ UNCHANGED <<vms, files, spent, hub, jobs, pulled>>

GuestWrites(v) ==
  /\ Defined(v) /\ power[v] = "running" /\ Exists(vms[v].disk)
  /\ files' = [files EXCEPT ![vms[v].disk].written = TRUE]
  /\ UNCHANGED <<vms, power, spent, hub, jobs, pulled>>

-----------------------------------------------------------------------------
(* create_vm, create_linked_clone and deploy: the image, then the          *)
(* definition, then for deploy the start.                                  *)

Begin(op, v, n, f, base) ==
  /\ hub = Idle /\ v \notin spent
  /\ FreshNames => Quiet(f)
  /\ hub' = [at |-> "image", op |-> op, vm |-> v, name |-> n, file |-> f, base |-> base]
  /\ spent' = spent \cup {v}
  /\ UNCHANGED <<vms, power, files, jobs, pulled>>

(* A blank disk or a full copy has no base.  Nobody asks for the name.     *)
CreateVm(v, n, base) ==
  /\ base # NoFile => Exists(base)
  /\ FreshNames => ~Taken(n)
  /\ Begin("create", v, n, n, base)

LinkedClone(source, v, n) ==
  /\ LinkVms /\ Defined(source) /\ Exists(vms[source].disk) /\ ~Exists(n)
  /\ Begin("link", v, n, n, vms[source].disk)

Deploy(t, v, n) == Exists(t) /\ Begin("deploy", v, n, v, t)

Go(at) == hub' = [hub EXCEPT !.at = at]

MakeImage ==
  /\ hub.at = "image" /\ ~WrittenTo(hub.file)
  /\ files' = [files EXCEPT ![hub.file] = Image(hub.base)]
  /\ Go("define")
  /\ UNCHANGED <<vms, power, spent, jobs, pulled>>

ImageFails ==
  /\ hub.at = "image" /\ (WrittenTo(hub.file) \/ "image" \in Faults)
  /\ hub' = Idle
  /\ UNCHANGED <<vms, power, files, spent, jobs, pulled>>

(* Mutant: the definition names the base, not the new image. *)
DefineVmMut ==
  /\ hub.at = "define" /\ ~Taken(hub.name)
  /\ vms' = [vms EXCEPT ![hub.vm] = [name |-> hub.name, disk |-> hub.base]]
  /\ IF hub.op = "deploy" THEN Go("start") ELSE hub' = Idle
  /\ UNCHANGED <<power, files, spent, jobs, pulled>>

DefineVm ==
  /\ hub.at = "define" /\ ~Taken(hub.name)
  /\ vms' = [vms EXCEPT ![hub.vm] = [name |-> hub.name, disk |-> hub.file]]
  /\ IF hub.op = "deploy" THEN Go("start") ELSE hub' = Idle
  /\ UNCHANGED <<power, files, spent, jobs, pulled>>

(* Only the linked clone removes the image it has made, unless virsh took  *)
(* too long.                                                               *)
DefineFails ==
  /\ hub.at = "define" /\ (Taken(hub.name) \/ "define" \in Faults)
  /\ \/ hub.op = "link" /\ files' = [files EXCEPT ![hub.file] = NoFile]
     \/ (hub.op # "link" \/ "define" \in Faults) /\ UNCHANGED files
  /\ hub' = Idle
  /\ UNCHANGED <<vms, power, spent, jobs, pulled>>

StartDeployed ==
  /\ hub.at = "start"
  /\ power' \in {power} \cup (IF CanStart(hub.vm) THEN {[power EXCEPT ![hub.vm] = "running"]} ELSE {})
  /\ hub' = Idle
  /\ UNCHANGED <<vms, files, spent, jobs, pulled>>

-----------------------------------------------------------------------------
(* delete_vm: destroy, undefine, remove the disk if that is asked for.     *)

DeleteVm(v) ==
  /\ hub = Idle /\ Defined(v)
  /\ AskAndPull(vms[v].disk)
  /\ power' = [power EXCEPT ![v] = "off"]
  /\ hub' = [at |-> "undefine", op |-> "delete", vm |-> v, name |-> vms[v].name,
             file |-> vms[v].disk, base |-> NoFile]
  /\ UNCHANGED <<vms, files, spent, jobs>>

Undefine(delete_disk) ==
  /\ hub.at = "undefine"
  /\ vms' = [vms EXCEPT ![hub.vm] = NoVm]
  /\ IF delete_disk THEN Go("remove") ELSE hub' = Idle
  /\ UNCHANGED <<power, files, spent, jobs, pulled>>

RemoveDisk ==
  /\ hub.at = "remove"
  /\ files' = [files EXCEPT ![hub.file] = NoFile]
  /\ hub' = Idle
  /\ UNCHANGED <<vms, power, spent, jobs, pulled>>

-----------------------------------------------------------------------------
(* Templates.  The handler refuses a VM that runs, not one that is paused. *)

(* qemu-img can read an image if nobody writes to it or to its bases.      *)
Convertible(f) == \A g \in Chain(f) : Exists(g) /\ ~WrittenTo(g)

(* After a failed conversion the file is copied as it is, base included;   *)
(* a template whose copy fails too, or whose VM has lost its disk, has no  *)
(* disk.                                                                   *)
TemplateImages(f) ==
  IF ~Exists(f) THEN {NoFile}
  ELSE (IF Convertible(f) THEN {Image(NoFile)} ELSE {Image(files[f].base)})
         \cup (IF "image" \in Faults THEN {Image(files[f].base), NoFile} ELSE {})

CreateTemplate(v, t) ==
  /\ hub = Idle /\ t \notin spent
  /\ Defined(v) /\ power[v] # "running"
  /\ \E image \in TemplateImages(vms[v].disk) : files' = [files EXCEPT ![t] = image]
  /\ spent' = spent \cup {t}
  /\ UNCHANGED <<vms, power, hub, jobs, pulled>>

DeleteTemplate(t) ==
  /\ hub = Idle /\ Exists(t)
  /\ AskAndPull(t)
  /\ files' = [files EXCEPT ![t] = NoFile]
  /\ UNCHANGED <<vms, power, spent, hub, jobs>>

-----------------------------------------------------------------------------
(* clone_vm, in the thread of a job.  A name that is taken gets a number:  *)
(* n is free when it is looked up.                                         *)

(* Mutant: the name is taken as it comes. *)
CloneVmMut(j, source, n, v) ==
  /\ jobs[j] = Idle /\ v \notin spent
  /\ Defined(source) /\ Exists(vms[source].disk)
  /\ FreshNames => Quiet(n)
  /\ jobs' = [jobs EXCEPT ![j] = [at |-> "convert", src |-> source, from |-> vms[source].disk,
                                  vm |-> v, name |-> n]]
  /\ spent' = spent \cup {v}
  /\ UNCHANGED <<vms, power, files, hub, pulled>>

CloneVm(j, source, n, v) ==
  /\ jobs[j] = Idle /\ v \notin spent
  /\ Defined(source) /\ Exists(vms[source].disk) /\ ~Taken(n)
  /\ FreshNames => Quiet(n)
  /\ jobs' = [jobs EXCEPT ![j] = [at |-> "convert", src |-> source, from |-> vms[source].disk,
                                  vm |-> v, name |-> n]]
  /\ spent' = spent \cup {v}
  /\ UNCHANGED <<vms, power, files, hub, pulled>>

Now(j, at) == jobs' = [jobs EXCEPT ![j].at = at]

(* The thread ends, with its clone or with an error. *)
Ends(j) == jobs' = [jobs EXCEPT ![j] = Idle]

CanConvert(j) == Convertible(jobs[j].from) /\ ~WrittenTo(jobs[j].name)

BeginConvert(j) ==
  /\ jobs[j].at = "convert" /\ CanConvert(j)
  /\ files' = [files EXCEPT ![jobs[j].name] = Image(NoFile)]
  /\ Now(j, "copying")
  /\ UNCHANGED <<vms, power, spent, hub, pulled>>

ConvertFails(j) ==
  /\ \/ jobs[j].at = "convert" /\ ~CanConvert(j)
     \/ jobs[j].at \in {"convert", "copying"} /\ "image" \in Faults
  /\ Ends(j)
  /\ UNCHANGED <<vms, power, files, spent, hub, pulled>>

(* The source is looked up again when the copy is done.                    *)
EndConvert(j) ==
  /\ jobs[j].at = "copying"
  /\ IF Defined(jobs[j].src) THEN Now(j, "define") ELSE Ends(j)
  /\ UNCHANGED <<vms, power, files, spent, hub, pulled>>

DefineClone(j) ==
  /\ jobs[j].at = "define" /\ ~Taken(jobs[j].name)
  /\ vms' = [vms EXCEPT ![jobs[j].vm] = [name |-> jobs[j].name, disk |-> jobs[j].name]]
  /\ Ends(j)
  /\ UNCHANGED <<power, files, spent, hub, pulled>>

DefineCloneFails(j) ==
  /\ jobs[j].at = "define" /\ (Taken(jobs[j].name) \/ "define" \in Faults)
  /\ Ends(j)
  /\ UNCHANGED <<vms, power, files, spent, hub, pulled>>

(* The process is killed; VMs keep running.                                *)
Crash ==
  /\ hub' = Idle /\ jobs' = [j \in Jobs |-> Idle]
  /\ UNCHANGED <<vms, power, files, spent, pulled>>

-----------------------------------------------------------------------------
Guest(v) == Start(v) \/ Stop(v) \/ Pause(v) \/ Resume(v) \/ GuestWrites(v)

Handler ==
  \/ \E v \in Vms, n \in Names :
       \/ \E base \in Templates \cup {NoFile} : CreateVm(v, n, base)
       \/ \E source \in Vms : LinkedClone(source, v, n)
       \/ \E t \in Templates : Deploy(t, v, n)
  \/ MakeImage \/ ImageFails \/ DefineVm \/ DefineFails \/ StartDeployed
  \/ \E v \in Vms : DeleteVm(v)
  \/ \E delete_disk \in BOOLEAN : Undefine(delete_disk)
  \/ RemoveDisk
  \/ \E t \in Templates : DeleteTemplate(t) \/ \E v \in Vms : CreateTemplate(v, t)

CloneJob(j) ==
  \/ \E source \in Vms, v \in Vms, n \in Names : CloneVm(j, source, n, v)
  \/ BeginConvert(j) \/ ConvertFails(j) \/ EndConvert(j)
  \/ DefineClone(j) \/ DefineCloneFails(j)

Next == Crash \/ Handler \/ (\E v \in Vms : Guest(v)) \/ \E j \in Jobs : CloneJob(j)

Spec == Init /\ [][Next]_vars

-----------------------------------------------------------------------------
(* What a guest has written to its disk stays there: no other operation    *)
(* makes a new image in its place or removes it, also when clones run, a   *)
(* definition fails and a name is used again after a delete or a kill.     *)
ContentKept ==
  [][\A v \in Vms :
       (Defined(v) /\ vms'[v] = vms[v] /\ Exists(vms[v].disk) /\ files[vms[v].disk].written)
         => (files'[vms[v].disk] # NoFile /\ files'[vms[v].disk].written)]_vars

(* A VM's disk and everything below it is there, although only direct      *)
(* dependents of defined VMs are asked for before a delete, and templates  *)
(* may rest on the disk of a VM: unless an image of the chain has been     *)
(* deleted while the list left out somebody who was based on it, because   *)
(* its disk was in use, because it was a template, or because the listing  *)
(* broke off.                                                              *)
ChainsWhole ==
  \A v \in Vms : Defined(v) /\ Chain(vms[v].disk) \cap pulled = {}
                    => \A f \in Chain(vms[v].disk) : Exists(f)
=============================================================================
