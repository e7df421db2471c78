--------------------------- MODULE DiskStore_proofs ---------------------------
(***************************************************************************)
(* Proofs about DiskStore, for any sets of VMs, names, templates and jobs, *)
(* with every failure and a kill at any point: while operators do not ask  *)
(* for one name twice at a time, no operation makes or removes an image    *)
(* over a disk that a guest has written to; while they also look for       *)
(* dependents right before a delete, no image that a VM's disk rests on is *)
(* ever missing, unless the list has left out somebody who needed it.      *)
(***************************************************************************)
EXTENDS DiskStore, FiniteSetTheorems, WellFoundedInduction, TLAPS

(* A disk belongs to one VM: it is named after it or drawn for it.         *)
Owned ==
  /\ \A v \in Vms : Defined(v) => /\ vms[v].disk \in {v, vms[v].name}
                                  /\ Exists(vms[v].disk)
                                  /\ v \in spent
  /\ \A u, v \in Vms : Defined(u) /\ Defined(v) /\ vms[u].name = vms[v].name => u = v

(* The handler: what it makes is nobody's disk yet, what it removes is     *)
(* nobody's any more.                                                      *)
HubClear ==
  /\ hub # Idle => hub.vm \in spent /\ hub.file \in {hub.vm, hub.name}
  /\ hub.at \in {"image", "define", "remove"} => \A v \in Vms : Defined(v) => vms[v].disk # hub.file
  /\ hub.at \in {"image", "define", "remove"} => ~Defined(hub.vm)
  /\ hub.at = "define" => Exists(hub.file)
  /\ hub.at = "undefine" => Defined(hub.vm) /\ vms[hub.vm].disk = hub.file

(* A clone job: its name is nobody's disk, no handler's and no other job's.*)
JobClear(j) ==
  /\ \A v \in Vms : Defined(v) => vms[v].disk # jobs[j].name
  /\ hub # Idle => hub.file # jobs[j].name /\ hub.vm # jobs[j].vm
  /\ \A i \in Jobs : i # j /\ jobs[i] # Idle => jobs[i].name # jobs[j].name /\ jobs[i].vm # jobs[j].vm
  /\ jobs[j].at \in {"copying", "define"} => Exists(jobs[j].name)
  /\ jobs[j].vm \in spent /\ ~Defined(jobs[j].vm)

JobsClear == \A j \in Jobs : jobs[j] # Idle => JobClear(j)

StoreInv == TypeOK /\ Owned /\ HubClear /\ JobsClear

USE DEF Idle

(* What the types of the handler and of a job say about their parts.       *)
LEMMA HubParts ==
  ASSUME TypeOK
  PROVE  /\ hub = Idle <=> hub.at = "idle"
         /\ hub # Idle => /\ hub.vm \in Vms /\ hub.name \in Names /\ hub.file \in Files
                          /\ hub.base \in Files \cup {NoFile}
                          /\ \A at \in {"image", "define", "start", "undefine", "remove"} :
                               [hub EXCEPT !.at = at] \in HubState
         /\ Idle \in HubState
BY DEF TypeOK, HubState

LEMMA JobParts ==
  ASSUME TypeOK, NEW j \in Jobs
  PROVE  /\ jobs[j] = Idle <=> jobs[j].at = "idle"
         /\ jobs[j] # Idle => /\ jobs[j].src \in Vms /\ jobs[j].vm \in Vms /\ jobs[j].name \in Names
                              /\ \A at \in {"convert", "copying", "define"} :
                                   [jobs[j] EXCEPT !.at = at] \in JobState
         /\ Idle \in JobState
BY DEF TypeOK, JobState

LEMMA ImageIsFile == \A base \in Files \cup {NoFile} : Image(base) \in File
BY DEF Image, File

LEMMA VmParts == ASSUME TypeOK, NEW v \in Vms, Defined(v)
                 PROVE  vms[v] \in Vm /\ vms[v].name \in Names /\ vms[v].disk \in Files
BY DEF TypeOK, Defined, Vm

LEMMA TypeInit == Init => TypeOK
BY DiskConstants DEF Init, TypeOK, HubState, JobState

LEMMA TypeGuest == ASSUME TypeOK, NEW v \in Vms, Guest(v) PROVE TypeOK'
<1> USE DEF TypeOK
<1>1. CASE Start(v) \/ Stop(v) \/ Pause(v) \/ Resume(v)
  BY <1>1 DEF Start, Stop, Pause, Resume
<1>2. CASE GuestWrites(v)
  <2>1. files[vms[v].disk] \in File
    BY <1>2 DEF GuestWrites, Exists
  <2>2. [files[vms[v].disk] EXCEPT !.written = TRUE] \in File
    BY <2>1 DEF File
  <2> QED  BY <1>2, <2>2 DEF GuestWrites
<1> QED  BY <1>1, <1>2 DEF Guest

LEMMA TypeHandler == ASSUME TypeOK, Handler PROVE TypeOK'
<1> USE DEF Go
<1>1. ASSUME NEW v \in Vms, NEW n \in Names, NEW base \in Templates \cup {NoFile}, CreateVm(v, n, base)
      PROVE  TypeOK'
  BY <1>1 DEF CreateVm, Begin, TypeOK, HubState, Files
<1>2. ASSUME NEW v \in Vms, NEW n \in Names, NEW source \in Vms, LinkedClone(source, v, n)
      PROVE  TypeOK'
  <2>1. vms[source].disk \in Files /\ n \in Files
    BY <1>2, VmParts DEF LinkedClone, Files
  <2> QED  BY <1>2, <2>1 DEF LinkedClone, Begin, TypeOK, HubState
<1>3. ASSUME NEW v \in Vms, NEW n \in Names, NEW t \in Templates, Deploy(t, v, n)
      PROVE  TypeOK'
  BY <1>3 DEF Deploy, Begin, TypeOK, HubState, Files
<1>4. CASE MakeImage \/ ImageFails
  BY <1>4, HubParts, ImageIsFile DEF MakeImage, ImageFails, TypeOK
<1>5. CASE DefineVm
  <2>1. [name |-> hub.name, disk |-> hub.file] \in Vm
    BY <1>5, HubParts DEF DefineVm, Vm
  <2> QED  BY <1>5, <2>1, HubParts DEF DefineVm, TypeOK
<1>6. CASE DefineFails \/ RemoveDisk
  BY <1>6, HubParts DEF DefineFails, RemoveDisk, TypeOK
<1>7. CASE StartDeployed
  BY <1>7, HubParts DEF StartDeployed, TypeOK
<1>8. ASSUME NEW v \in Vms, DeleteVm(v) PROVE TypeOK'
  <2>1. vms[v].name \in Names /\ vms[v].disk \in Files
    BY <1>8, VmParts DEF DeleteVm
  <2>2. pulled' \subseteq Files
    BY <1>8, <2>1 DEF DeleteVm, AskAndPull, TypeOK
  <2> QED  BY <1>8, <2>1, <2>2 DEF DeleteVm, TypeOK, HubState
<1>9. ASSUME NEW delete_disk \in BOOLEAN, Undefine(delete_disk) PROVE TypeOK'
  BY <1>9, HubParts DEF Undefine, TypeOK
<1>10. ASSUME NEW t \in Templates, DeleteTemplate(t) PROVE TypeOK'
  <2>1. pulled' \subseteq Files
    BY <1>10 DEF DeleteTemplate, AskAndPull, TypeOK, Files
  <2> QED  BY <1>10, <2>1 DEF DeleteTemplate, TypeOK
<1>11. ASSUME NEW t \in Templates, NEW v \in Vms, CreateTemplate(v, t) PROVE TypeOK'
  <2>1. Exists(vms[v].disk) => files[vms[v].disk].base \in Files \cup {NoFile}
    BY DEF Exists, TypeOK, File
  <2>2. TemplateImages(vms[v].disk) \subseteq File \cup {NoFile}
    BY <2>1, ImageIsFile DEF TemplateImages
  <2> QED  BY <1>11, <2>2 DEF CreateTemplate, TypeOK
<1> QED  BY <1>1, <1>2, <1>3, <1>4, <1>5, <1>6, <1>7, <1>8, <1>9, <1>10, <1>11 DEF Handler

LEMMA TypeJob == ASSUME TypeOK, NEW j \in Jobs, CloneJob(j) PROVE TypeOK'
<1> USE JobParts DEF Now, Ends
<1>1. ASSUME NEW source \in Vms, NEW v \in Vms, NEW n \in Names, CloneVm(j, source, n, v)
      PROVE  TypeOK'
  <2>1. vms[source].disk \in Files
    BY <1>1, VmParts DEF CloneVm
  <2>2. [at |-> "convert", src |-> source, from |-> vms[source].disk, vm |-> v, name |-> n] \in JobState
    BY <2>1 DEF JobState
  <2> QED  BY <1>1, <2>2 DEF CloneVm, TypeOK
<1>2. CASE BeginConvert(j)
  BY <1>2, ImageIsFile DEF BeginConvert, TypeOK
<1>3. CASE ConvertFails(j) \/ EndConvert(j) \/ DefineCloneFails(j)
  BY <1>3 DEF ConvertFails, EndConvert, DefineCloneFails, TypeOK
<1>4. CASE DefineClone(j)
  <2>1. [name |-> jobs[j].name, disk |-> jobs[j].name] \in Vm
    BY <1>4 DEF DefineClone, Vm, Files
  <2> QED  BY <1>4, <2>1 DEF DefineClone, TypeOK
<1> QED  BY <1>1, <1>2, <1>3, <1>4 DEF CloneJob

LEMMA TypeStep == TypeOK /\ [Next]_vars => TypeOK'
<1> SUFFICES ASSUME TypeOK, [Next]_vars PROVE TypeOK'
  OBVIOUS
<1>1. CASE Crash
  BY <1>1 DEF Crash, TypeOK, HubState, JobState
<1>2. CASE UNCHANGED vars
  BY <1>2 DEF vars, TypeOK
<1> QED  BY <1>1, <1>2, TypeGuest, TypeHandler, TypeJob DEF Next

(* Definitions, files and the handler keep their types whatever fails and  *)
(* whenever the process is killed.                                         *)
THEOREM TypeCorrect == Spec => []TypeOK
<1> QED  BY TypeInit, TypeStep, PTL DEF Spec

-----------------------------------------------------------------------------
LEMMA StoreInit == Init => StoreInv
BY TypeInit DEF Init, StoreInv, Owned, HubClear, JobsClear, JobClear, Defined

(* Steps that leave definitions, handler and jobs alone and lose no image  *)
(* of a VM, a handler or a job.                                            *)
LEMMA StoreFiles ==
  ASSUME StoreInv, TypeOK', UNCHANGED <<vms, hub, jobs>>, spent \subseteq spent',
         \A f \in Files \ Templates : Exists(f) => Exists(f)'
  PROVE  StoreInv'
<1>1. \A v \in Vms : v \in Files \ Templates
  BY DiskConstants DEF Files
<1>2. \A n \in Names : n \in Files \ Templates
  BY DiskConstants DEF Files
<1>3. Owned'
  <2>1. \A v \in Vms : Defined(v) => vms[v].disk \in Files \ Templates
    BY <1>1, <1>2, VmParts DEF StoreInv, Owned
  <2> QED  BY <2>1 DEF StoreInv, Owned, Defined
<1>4. HubClear'
  <2>1. hub # Idle => hub.file \in Files \ Templates
    BY <1>1, <1>2, HubParts DEF StoreInv, HubClear
  <2> QED  BY <2>1, HubParts DEF StoreInv, HubClear, Defined
<1>5. JobsClear'
  <2>1. \A j \in Jobs : jobs[j] # Idle => jobs[j].name \in Files \ Templates
    BY <1>2, JobParts DEF StoreInv
  <2> QED  BY <2>1, JobParts DEF StoreInv, JobsClear, JobClear, Defined
<1> QED  BY <1>3, <1>4, <1>5 DEF StoreInv

LEMMA StoreGuest == ASSUME StoreInv, NEW v \in Vms, Guest(v) PROVE StoreInv'
<1>1. TypeOK'
  BY TypeGuest DEF StoreInv
<1>2. UNCHANGED <<vms, spent, hub, jobs>>
  BY DEF Guest, Start, Stop, Pause, Resume, GuestWrites
<1>3. \A f \in Files : Exists(f) => Exists(f)'
  <2>1. CASE UNCHANGED files
    BY <2>1 DEF Exists
  <2>2. CASE GuestWrites(v)
    <3>1. [files[vms[v].disk] EXCEPT !.written = TRUE] \in File
      BY <2>2 DEF GuestWrites, Exists, StoreInv, TypeOK, File
    <3>2. [files[vms[v].disk] EXCEPT !.written = TRUE] # NoFile
      BY <3>1, DiskConstants
    <3> QED  BY <2>2, <3>2 DEF GuestWrites, Exists, StoreInv, TypeOK
  <2> QED  BY <2>1, <2>2 DEF Guest, Start, Stop, Pause, Resume
<1> QED  BY <1>1, <1>2, <1>3, StoreFiles

(* A handler takes an identifier that was never drawn and, with FreshNames,*)
(* a file that nobody is making or removing.                               *)
LEMMA StoreBegin ==
  ASSUME StoreInv, TypeOK', FreshNames, NEW op \in {"create", "link", "deploy"},
         NEW v \in Vms, NEW n \in Names, NEW f \in {v, n}, NEW base, Begin(op, v, n, f, base),
         \A u \in Vms : Defined(u) => vms[u].disk # f
  PROVE  StoreInv'
<1>1. hub' = [at |-> "image", op |-> op, vm |-> v, name |-> n, file |-> f, base |-> base]
  BY DEF Begin
<1>2. /\ UNCHANGED <<vms, files, jobs>> /\ spent' = spent \cup {v} /\ v \notin spent
      /\ \A j \in Jobs : jobs[j] # Idle => jobs[j].name # f
  BY DEF Begin, Quiet
<1>3. ~Defined(v)
  BY <1>2 DEF StoreInv, Owned
<1>4. Owned'
  BY <1>2 DEF StoreInv, Owned, Defined, Exists
<1>5. HubClear'
  BY <1>1, <1>2, <1>3 DEF StoreInv, HubClear, Defined
<1>6. JobsClear'
  BY <1>1, <1>2 DEF StoreInv, JobsClear, JobClear, Defined, Exists
<1> QED  BY <1>4, <1>5, <1>6 DEF StoreInv

(* No VM has a disk of a free name, nor one that is not there.             *)
LEMMA FreeNames ==
  ASSUME StoreInv, NEW n \in Names, ~Taken(n) \/ ~Exists(n)
  PROVE  \A u \in Vms : Defined(u) => vms[u].disk # n
<1> SUFFICES ASSUME NEW u \in Vms, Defined(u), vms[u].disk = n PROVE FALSE
  OBVIOUS
<1>1. u # n
  BY DiskConstants
<1> QED  BY <1>1 DEF StoreInv, Owned, Taken

(* The handler ends, and what it made is nobody's.                         *)
LEMMA StoreEnd ==
  ASSUME StoreInv, TypeOK', hub' = Idle, UNCHANGED <<vms, spent, jobs>>,
         \A f \in Files \ Templates : (Exists(f) /\ hub.file # f) => Exists(f)',
         hub # Idle, hub.at \in {"image", "define", "remove"} \/ UNCHANGED files
  PROVE  StoreInv'
<1>1. \A v \in Vms : Defined(v) => vms[v].disk \in Files \ Templates
  BY VmParts, DiskConstants DEF StoreInv, Owned, Files
<1>2. \A j \in Jobs : jobs[j] # Idle => jobs[j].name \in Files \ Templates
  BY JobParts, DiskConstants DEF StoreInv, Files
<1>3. Owned'
  BY <1>1 DEF StoreInv, Owned, HubClear, Defined, Exists
<1>4. HubClear'
  BY DEF HubClear
<1>5. JobsClear'
  BY <1>2, JobParts DEF StoreInv, JobsClear, JobClear, Defined
<1> QED  BY <1>3, <1>4, <1>5 DEF StoreInv

LEMMA StoreMake == ASSUME StoreInv, MakeImage PROVE StoreInv'
<1>0. TypeOK'
  BY TypeHandler DEF StoreInv, Handler
<1>1. /\ UNCHANGED <<vms, spent, jobs>> /\ hub # Idle
      /\ hub'.at = "define" /\ hub' # Idle /\ hub'.vm = hub.vm /\ hub'.name = hub.name /\ hub'.file = hub.file
  BY HubParts DEF MakeImage, Go, StoreInv, TypeOK, HubState
<1>2. Image(hub.base) \in File /\ Image(hub.base) # NoFile /\ hub.file \in Files
  BY <1>1, HubParts, ImageIsFile, DiskConstants DEF StoreInv
<1>3. Exists(hub.file)' /\ \A f \in Files : Exists(f) => Exists(f)'
  BY <1>1, <1>2 DEF MakeImage, Exists, StoreInv, TypeOK
<1>4. Owned'
  BY <1>1, <1>3 DEF StoreInv, Owned, Defined, Exists
<1>5. HubClear'
  BY <1>1, <1>3, HubParts DEF MakeImage, StoreInv, HubClear, Defined
<1>6. JobsClear'
  BY <1>1, <1>3, HubParts DEF StoreInv, JobsClear, JobClear, Defined, Exists
<1> QED  BY <1>0, <1>4, <1>5, <1>6 DEF StoreInv

LEMMA StoreDefine == ASSUME StoreInv, DefineVm PROVE StoreInv'
<1>0. TypeOK'
  BY TypeHandler DEF StoreInv, Handler
<1>1. /\ UNCHANGED <<files, spent, jobs>> /\ hub # Idle /\ ~Taken(hub.name) /\ hub.at = "define"
      /\ \A u \in Vms : u # hub.vm => vms'[u] = vms[u]
      /\ hub.vm \in Vms /\ vms'[hub.vm] = [name |-> hub.name, disk |-> hub.file]
  BY HubParts DEF DefineVm, StoreInv, TypeOK
<1>2. hub' = Idle \/ (/\ hub' # Idle /\ hub'.at = "start" /\ hub'.vm = hub.vm
                      /\ hub'.name = hub.name /\ hub'.file = hub.file)
  BY HubParts DEF DefineVm, Go, StoreInv, TypeOK, HubState
<1>3. vms'[hub.vm] # NoVm
  BY <1>0, <1>1, HubParts, DiskConstants DEF StoreInv, Vm
<1>4. Owned'
  BY <1>1, <1>3 DEF StoreInv, Owned, HubClear, Defined, Exists, Taken
<1>5. HubClear'
  BY <1>1, <1>2 DEF StoreInv, HubClear, Defined
<1>6. JobsClear'
  <2> SUFFICES ASSUME NEW j \in Jobs, jobs[j] # Idle PROVE JobClear(j)'
    BY <1>1 DEF JobsClear
  <2>1. JobClear(j) /\ jobs[j].vm \in Vms
    BY JobParts DEF StoreInv, JobsClear
  <2>2. hub.vm # jobs[j].vm /\ hub.file # jobs[j].name
    BY <1>1, <2>1 DEF JobClear
  <2> QED  BY <1>1, <1>2, <2>1, <2>2 DEF JobClear, Defined, Exists
<1> QED  BY <1>0, <1>4, <1>5, <1>6 DEF StoreInv

LEMMA StoreDelete == ASSUME StoreInv, FreshNames, NEW v \in Vms, DeleteVm(v) PROVE StoreInv'
<1>0. TypeOK'
  BY TypeHandler DEF StoreInv, Handler
<1>1. /\ UNCHANGED <<vms, files, spent, jobs>> /\ hub = Idle /\ Defined(v)
      /\ hub' # Idle /\ hub'.at = "undefine" /\ hub'.vm = v /\ hub'.name = vms[v].name
      /\ hub'.file = vms[v].disk
  BY DEF DeleteVm
<1>2. Owned'
  BY <1>1 DEF StoreInv, Owned, Defined, Exists
<1>3. HubClear'
  BY <1>1 DEF StoreInv, Owned, HubClear, Defined
<1>4. JobsClear'
  BY <1>1 DEF StoreInv, JobsClear, JobClear, Defined, Exists
<1> QED  BY <1>0, <1>2, <1>3, <1>4 DEF StoreInv

LEMMA StoreUndefine ==
  ASSUME StoreInv, NEW delete_disk \in BOOLEAN, Undefine(delete_disk)
  PROVE  StoreInv'
<1>0. TypeOK'
  BY TypeHandler DEF StoreInv, Handler
<1>1. /\ UNCHANGED <<files, spent, jobs>> /\ hub # Idle /\ hub.at = "undefine" /\ hub.vm \in Vms
      /\ vms'[hub.vm] = NoVm /\ \A u \in Vms : u # hub.vm => vms'[u] = vms[u]
  BY HubParts DEF Undefine, StoreInv, TypeOK
<1>2. hub' = Idle \/ (/\ hub' # Idle /\ hub'.at = "remove" /\ hub'.vm = hub.vm
                      /\ hub'.name = hub.name /\ hub'.file = hub.file)
  BY HubParts DEF Undefine, Go, StoreInv, TypeOK, HubState
<1>3. Owned'
  BY <1>1 DEF StoreInv, Owned, Defined, Exists
<1>4. \A u \in Vms : u # hub.vm /\ Defined(u) => vms[u].disk # hub.file
  <2> SUFFICES ASSUME NEW u \in Vms, u # hub.vm, Defined(u), vms[u].disk = hub.file PROVE FALSE
    OBVIOUS
  <2>1. Defined(hub.vm) /\ vms[hub.vm].disk = hub.file
    BY <1>1 DEF StoreInv, HubClear
  <2>2. vms[u].name # vms[hub.vm].name
    BY <1>1, <2>1 DEF StoreInv, Owned
  <2>3. vms[u].name \in Names /\ vms[hub.vm].name \in Names
    BY <1>1, <2>1, VmParts DEF StoreInv
  <2> QED  BY <1>1, <2>1, <2>2, <2>3, DiskConstants DEF StoreInv, Owned
<1>5. HubClear'
  BY <1>1, <1>2, <1>4 DEF StoreInv, HubClear, Defined
<1>6. JobsClear'
  BY <1>1, <1>2, JobParts DEF StoreInv, JobsClear, JobClear, Defined, Exists
<1> QED  BY <1>0, <1>3, <1>5, <1>6 DEF StoreInv

LEMMA StoreHandler == ASSUME StoreInv, FreshNames, Handler PROVE StoreInv'
<1>0. TypeOK'
  BY TypeHandler DEF StoreInv
<1>1. ASSUME NEW v \in Vms, NEW n \in Names, NEW base \in Templates \cup {NoFile}, CreateVm(v, n, base)
      PROVE  StoreInv'
  <2>1. ~Taken(n) /\ Begin("create", v, n, n, base)
    BY <1>1 DEF CreateVm
  <2> QED  BY <1>0, <2>1, FreeNames, StoreBegin
<1>2. ASSUME NEW v \in Vms, NEW n \in Names, NEW source \in Vms, LinkedClone(source, v, n)
      PROVE  StoreInv'
  <2>1. ~Exists(n) /\ Begin("link", v, n, n, vms[source].disk)
    BY <1>2 DEF LinkedClone
  <2> QED  BY <1>0, <2>1, FreeNames, StoreBegin
<1>3. ASSUME NEW v \in Vms, NEW n \in Names, NEW t \in Templates, Deploy(t, v, n)
      PROVE  StoreInv'
  <2>1. Begin("deploy", v, n, v, t) /\ v \notin spent
    BY <1>3 DEF Deploy, Begin
  <2>2. \A u \in Vms : Defined(u) => vms[u].disk # v
    BY <2>1, VmParts, DiskConstants DEF StoreInv, Owned
  <2> QED  BY <1>0, <2>1, <2>2, StoreBegin
<1>4. CASE ImageFails \/ DefineFails \/ RemoveDisk
  <2>1. hub # Idle /\ hub.at \in {"image", "define", "remove"}
    BY <1>4, HubParts DEF ImageFails, DefineFails, RemoveDisk, StoreInv
  <2>2. \A f \in Files \ Templates : (Exists(f) /\ hub.file # f) => Exists(f)'
    BY <1>4 DEF ImageFails, DefineFails, RemoveDisk, Exists, StoreInv, TypeOK
  <2>3. hub' = Idle /\ UNCHANGED <<vms, spent, jobs>>
    BY <1>4 DEF ImageFails, DefineFails, RemoveDisk
  <2> QED  BY <1>0, <2>1, <2>2, <2>3, StoreEnd
<1>5. CASE StartDeployed
  <2>1. hub # Idle /\ hub' = Idle /\ UNCHANGED <<vms, files, spent, jobs>>
    BY <1>5, HubParts DEF StartDeployed, StoreInv
  <2>2. \A f \in Files \ Templates : (Exists(f) /\ hub.file # f) => Exists(f)'
    BY <2>1 DEF Exists
  <2> QED  BY <1>0, <2>1, <2>2, StoreEnd
<1>6. ASSUME NEW t \in Templates, DeleteTemplate(t) PROVE StoreInv'
  <2>1. \A f \in Files \ Templates : Exists(f) => Exists(f)'
    BY <1>6 DEF DeleteTemplate, Exists, StoreInv, TypeOK
  <2>2. UNCHANGED <<vms, spent, hub, jobs>>
    BY <1>6 DEF DeleteTemplate
  <2> QED  BY <1>0, <2>1, <2>2, StoreFiles
<1>7. ASSUME NEW t \in Templates, NEW v \in Vms, CreateTemplate(v, t) PROVE StoreInv'
  <2>1. \A f \in Files \ Templates : Exists(f) => Exists(f)'
    BY <1>7 DEF CreateTemplate, Exists, StoreInv, TypeOK
  <2>2. UNCHANGED <<vms, hub, jobs>> /\ spent \subseteq spent'
    BY <1>7 DEF CreateTemplate
  <2> QED  BY <1>0, <2>1, <2>2, StoreFiles
<1> QED  BY <1>1, <1>2, <1>3, <1>4, <1>5, <1>6, <1>7, StoreMake, StoreDefine, StoreDelete,
            StoreUndefine DEF Handler

LEMMA StoreClone ==
  ASSUME StoreInv, FreshNames, NEW j \in Jobs, NEW source \in Vms, NEW v \in Vms, NEW n \in Names,
         CloneVm(j, source, n, v)
  PROVE  StoreInv'
<1>0. TypeOK'
  BY TypeJob DEF StoreInv, CloneJob
<1>1. /\ UNCHANGED <<vms, files, hub>> /\ spent' = spent \cup {v} /\ v \notin spent
      /\ jobs[j] = Idle /\ (hub # Idle => hub.file # n)
      /\ \A i \in Jobs : jobs[i] # Idle => jobs[i].name # n
      /\ \A i \in Jobs : i # j => jobs'[i] = jobs[i]
      /\ jobs'[j].at = "convert" /\ jobs'[j].vm = v /\ jobs'[j].name = n
  BY DEF CloneVm, Quiet, StoreInv, TypeOK
<1>2. \A u \in Vms : Defined(u) => vms[u].disk # n
  BY FreeNames DEF CloneVm
<1>3. ~Defined(v)
  BY <1>1 DEF StoreInv, Owned
<1>4. hub # Idle => hub.vm # v
  BY <1>1 DEF StoreInv, HubClear
<1>5. Owned'
  BY <1>1 DEF StoreInv, Owned, Defined, Exists
<1>6. HubClear'
  BY <1>1 DEF StoreInv, HubClear, Defined, Exists
<1>7. JobsClear'
  <2>1. JobClear(j)'
    <3>1. \A i \in Jobs : jobs[i] # Idle => jobs[i].vm # v
      BY <1>1 DEF StoreInv, JobsClear, JobClear
    <3>2. \A i \in Jobs : i # j /\ jobs'[i] # Idle => jobs'[i].name # n /\ jobs'[i].vm # v
      BY <1>1, <3>1
    <3>3. (hub # Idle => hub.file # n /\ hub.vm # v)'
      BY <1>1, <1>4
    <3>4. (\A u \in Vms : Defined(u) => vms[u].disk # n)' /\ ~Defined(v)'
      BY <1>1, <1>2, <1>3 DEF Defined
    <3>5. v \in spent' /\ jobs'[j].at = "convert" /\ jobs'[j].vm = v /\ jobs'[j].name = n
      BY <1>1
    <3> QED  BY <3>2, <3>3, <3>4, <3>5 DEF JobClear
  <2>2. ASSUME NEW i \in Jobs, i # j, jobs[i] # Idle PROVE JobClear(i)'
    <3>1. JobClear(i) /\ jobs[i].vm # v /\ jobs[i].name # n
      BY <1>1, <2>2 DEF StoreInv, JobsClear, JobClear
    <3> QED  BY <1>1, <2>2, <3>1 DEF JobClear, Defined, Exists
  <2> QED  BY <1>1, <2>1, <2>2 DEF JobsClear
<1> QED  BY <1>0, <1>5, <1>6, <1>7 DEF StoreInv

(* A job goes on or ends; it may have made the image of its own name.      *)
LEMMA StoreGoesOn ==
  ASSUME StoreInv, TypeOK', NEW j \in Jobs, UNCHANGED <<vms, spent, hub>>, jobs[j] # Idle,
         \A i \in Jobs : i # j => jobs'[i] = jobs[i],
         \A f \in Files : Exists(f) => Exists(f)',
         jobs'[j] # Idle => /\ jobs'[j].vm = jobs[j].vm /\ jobs'[j].name = jobs[j].name
                            /\ jobs'[j].at \in {"copying", "define"} => Exists(jobs[j].name)'
  PROVE  StoreInv'
<1>1. Owned'
  BY VmParts DEF StoreInv, Owned, Defined
<1>2. HubClear'
  BY HubParts DEF StoreInv, HubClear, Defined
<1>3. JobsClear'
  <2> SUFFICES ASSUME NEW i \in Jobs, jobs'[i] # Idle PROVE JobClear(i)'
    BY DEF JobsClear
  <2>1. jobs[i] # Idle /\ JobClear(i) /\ JobClear(j) /\ jobs[i].name \in Files
    BY JobParts DEF StoreInv, JobsClear, Files
  <2>2. jobs'[i].vm = jobs[i].vm /\ jobs'[i].name = jobs[i].name
    OBVIOUS
  <2>3. \A k \in Jobs : jobs'[k] # Idle =>
          jobs[k] # Idle /\ jobs'[k].vm = jobs[k].vm /\ jobs'[k].name = jobs[k].name
    OBVIOUS
  <2>4. jobs'[i].at \in {"copying", "define"} => Exists(jobs[i].name)'
    BY <2>1 DEF JobClear
  <2> QED  BY <2>1, <2>2, <2>3, <2>4 DEF JobClear, Defined
<1> QED  BY <1>1, <1>2, <1>3 DEF StoreInv

LEMMA StoreDefineClone == ASSUME StoreInv, NEW j \in Jobs, DefineClone(j) PROVE StoreInv'
<1>0. TypeOK'
  BY TypeJob DEF StoreInv, CloneJob
<1>1. /\ UNCHANGED <<files, spent, hub>> /\ jobs[j] # Idle /\ ~Taken(jobs[j].name)
      /\ jobs[j].at = "define" /\ jobs[j].vm \in Vms
      /\ vms'[jobs[j].vm] = [name |-> jobs[j].name, disk |-> jobs[j].name]
      /\ \A u \in Vms : u # jobs[j].vm => vms'[u] = vms[u]
      /\ jobs'[j] = Idle /\ \A i \in Jobs : i # j => jobs'[i] = jobs[i]
  BY JobParts DEF DefineClone, Ends, StoreInv, TypeOK
<1>2. vms'[jobs[j].vm] # NoVm
  <2>1. jobs[j].name \in Names
    BY <1>1, JobParts DEF StoreInv
  <2>2. [name |-> jobs[j].name, disk |-> jobs[j].name] \in Vm
    BY <2>1 DEF Vm, Files
  <2> QED  BY <1>1, <2>2, DiskConstants
<1>3. JobClear(j) /\ jobs[j].at = "define"
  BY <1>1 DEF StoreInv, JobsClear
<1>4. Owned'
  BY <1>1, <1>2, <1>3 DEF StoreInv, Owned, JobClear, Defined, Exists, Taken
<1>5. HubClear'
  BY <1>1, <1>3, HubParts DEF StoreInv, HubClear, JobClear, Defined, Exists
<1>6. JobsClear'
  <2> SUFFICES ASSUME NEW i \in Jobs, i # j, jobs[i] # Idle PROVE JobClear(i)'
    BY <1>1 DEF JobsClear
  <2>1. JobClear(i) /\ jobs[i].vm \in Vms
    BY JobParts DEF StoreInv, JobsClear
  <2>2. jobs[i].name # jobs[j].name /\ jobs[i].vm # jobs[j].vm
    BY <1>1, <1>3 DEF JobClear
  <2> QED  BY <1>1, <2>1, <2>2 DEF JobClear, Defined, Exists
<1> QED  BY <1>0, <1>4, <1>5, <1>6 DEF StoreInv

LEMMA StoreJob == ASSUME StoreInv, FreshNames, NEW j \in Jobs, CloneJob(j) PROVE StoreInv'
<1>0. TypeOK'
  BY TypeJob DEF StoreInv
<1>1. CASE BeginConvert(j)
  <2>1. jobs[j] # Idle /\ jobs[j].name \in Files
    BY <1>1, JobParts DEF BeginConvert, StoreInv, Files
  <2>2. Image(NoFile) # NoFile
    BY ImageIsFile, DiskConstants
  <2>3. Exists(jobs[j].name)' /\ \A f \in Files : Exists(f) => Exists(f)'
    BY <1>1, <2>1, <2>2 DEF BeginConvert, Now, Exists, StoreInv, TypeOK
  <2>4. /\ jobs'[j].vm = jobs[j].vm /\ jobs'[j].name = jobs[j].name
        /\ \A i \in Jobs : i # j => jobs'[i] = jobs[i]
    BY <1>1, <2>1 DEF BeginConvert, Now, StoreInv, TypeOK, JobState
  <2> QED  BY <1>0, <1>1, <2>1, <2>3, <2>4, StoreGoesOn DEF BeginConvert
<1>2. CASE ConvertFails(j) \/ DefineCloneFails(j)
  <2>1. jobs[j] # Idle /\ UNCHANGED <<vms, files, spent, hub>> /\ jobs'[j] = Idle
    BY <1>2, JobParts DEF ConvertFails, DefineCloneFails, Ends, StoreInv, TypeOK
  <2>2. \A i \in Jobs : i # j => jobs'[i] = jobs[i]
    BY <1>2 DEF ConvertFails, DefineCloneFails, Ends, StoreInv, TypeOK
  <2> QED  BY <1>0, <2>1, <2>2, StoreGoesOn DEF Exists
<1>3. CASE EndConvert(j)
  <2>1. /\ jobs[j] # Idle /\ UNCHANGED <<vms, files, spent, hub>>
        /\ \A i \in Jobs : i # j => jobs'[i] = jobs[i]
    BY <1>3, JobParts DEF EndConvert, Now, Ends, StoreInv, TypeOK
  <2>2. jobs'[j] = Idle \/ (jobs'[j].vm = jobs[j].vm /\ jobs'[j].name = jobs[j].name)
    BY <1>3, <2>1 DEF EndConvert, Now, Ends, StoreInv, TypeOK, JobState
  <2>3. Exists(jobs[j].name)
    BY <1>3, <2>1 DEF EndConvert, StoreInv, JobsClear, JobClear
  <2> QED  BY <1>0, <2>1, <2>2, <2>3, StoreGoesOn DEF Exists
<1> QED  BY <1>1, <1>2, <1>3, StoreClone, StoreDefineClone DEF CloneJob

LEMMA StoreStep == StoreInv /\ FreshNames /\ [Next]_vars => StoreInv'
<1> SUFFICES ASSUME StoreInv, FreshNames, [Next]_vars PROVE StoreInv'
  OBVIOUS
<1>1. CASE Crash
  <2>1. TypeOK'
    BY <1>1, TypeStep DEF StoreInv
  <2> QED  BY <1>1, <2>1 DEF Crash, StoreInv, Owned, HubClear, JobsClear, JobClear, Defined, Exists
<1>2. CASE UNCHANGED vars
  BY <1>2 DEF vars, StoreInv, TypeOK, Owned, HubClear, JobsClear, JobClear, Defined, Exists
<1> QED  BY <1>1, <1>2, StoreGuest, StoreHandler, StoreJob DEF Next

-----------------------------------------------------------------------------
(* One step does not lose a written disk: the handler makes and removes    *)
(* nobody's files, a job writes nobody's file, and a template has its own. *)
LEMMA KeptStep ==
  ASSUME StoreInv, Next, NEW v \in Vms, Defined(v), vms'[v] = vms[v],
         Exists(vms[v].disk), files[vms[v].disk].written
  PROVE  files'[vms[v].disk] # NoFile /\ files'[vms[v].disk].written
<1> DEFINE d == vms[v].disk
<1>1. d \in Files /\ d \notin Templates /\ files[d] \in File
  BY VmParts, DiskConstants DEF StoreInv, Owned, Exists, TypeOK, Files
<1>2. files'[d] = files[d] => files'[d] # NoFile /\ files'[d].written
  BY DEF Exists
<1> HIDE DEF d
<1>3. CASE MakeImage \/ DefineFails \/ RemoveDisk
  <2>1. hub.file # d
    BY <1>3 DEF MakeImage, DefineFails, RemoveDisk, StoreInv, HubClear, d
  <2> QED  BY <1>1, <1>2, <1>3, <2>1 DEF MakeImage, DefineFails, RemoveDisk, StoreInv, TypeOK, d
<1>4. ASSUME NEW j \in Jobs, BeginConvert(j) PROVE files'[d] = files[d]
  <2>1. jobs[j].name # d
    BY <1>4, JobParts DEF BeginConvert, StoreInv, JobsClear, JobClear, d
  <2> QED  BY <1>1, <1>4, <2>1 DEF BeginConvert, StoreInv, TypeOK
<1>5. ASSUME NEW t \in Templates, DeleteTemplate(t) \/ \E u \in Vms : CreateTemplate(u, t)
      PROVE  files'[d] = files[d]
  BY <1>1, <1>5 DEF DeleteTemplate, CreateTemplate, StoreInv, TypeOK
<1>6. ASSUME NEW u \in Vms, GuestWrites(u) PROVE files'[d] # NoFile /\ files'[d].written
  <2>1. files'[d] = files[d] \/ files'[d] = [files[d] EXCEPT !.written = TRUE]
    BY <1>1, <1>6 DEF GuestWrites, StoreInv, TypeOK
  <2>2. [files[d] EXCEPT !.written = TRUE] \in File /\ [files[d] EXCEPT !.written = TRUE].written
    BY <1>1 DEF File
  <2> QED  BY <1>2, <2>1, <2>2, DiskConstants DEF d
<1>7. CASE UNCHANGED files
  BY <1>2, <1>7 DEF d
<1> QED
  <2>1. CASE Crash \/ \E u \in Vms : Guest(u)
    BY <2>1, <1>6, <1>7 DEF Crash, Guest, Start, Stop, Pause, Resume, d
  <2>2. CASE Handler
    BY <2>2, <1>2, <1>3, <1>5, <1>7 DEF Handler, CreateVm, LinkedClone, Deploy, Begin, ImageFails, DefineVm,
       StartDeployed, DeleteVm, Undefine, d
  <2>3. CASE \E j \in Jobs : CloneJob(j)
    BY <2>3, <1>2, <1>4, <1>7 DEF CloneJob, CloneVm, ConvertFails, EndConvert, DefineClone,
       DefineCloneFails, d
  <2> QED  BY <2>1, <2>2, <2>3 DEF Next

(* ContentKept, for operators who do not ask for one name twice at a time  *)
(* (FreshNames), also when they delete without asking for dependents and   *)
(* the process is killed anywhere.                                         *)
THEOREM WrittenDisksStay == ASSUME FreshNames PROVE Spec => ContentKept
<1>1. Init => StoreInv
  BY StoreInit
<1>2. StoreInv /\ [Next]_vars => StoreInv'
  BY StoreStep
<1>3. StoreInv /\ [Next]_vars =>
        [\A v \in Vms :
           (Defined(v) /\ vms'[v] = vms[v] /\ Exists(vms[v].disk) /\ files[vms[v].disk].written)
             => (files'[vms[v].disk] # NoFile /\ files'[vms[v].disk].written)]_vars
  BY KeptStep
<1> QED  BY <1>1, <1>2, <1>3, PTL DEF Spec, ContentKept

-----------------------------------------------------------------------------
(* The base of a VM's disk: none, a template that is there, the disk of a  *)
(* VM, or what was deleted all the same.                                   *)
Founded(b) ==
  \/ b = NoFile
  \/ b \in Templates /\ Exists(b)
  \/ \E v \in Vms : Defined(v) /\ vms[v].disk = b
  \/ b \in pulled

(* No VM and no template is based on f. *)
Loose(f) ==
  /\ \A v \in Vms : Defined(v) => files[vms[v].disk].base # f
  /\ \A t \in Templates : Exists(t) => files[t].base # f

(* Disks, templates and the images under way are founded, clones have no   *)
(* base, and what a delete takes away is nobody's base or pulled.          *)
Based ==
  /\ \A v \in Vms : Defined(v) => Founded(files[vms[v].disk].base)
  /\ \A t \in Templates : Exists(t) => t \in spent /\ Founded(files[t].base)
  /\ hub.at \in {"image", "define"} => Founded(hub.base)
  /\ hub.at = "define" => files[hub.file].base = hub.base
  /\ hub.at \in {"undefine", "remove"} => hub.file \in pulled \/ Loose(hub.file)
  /\ \A j \in Jobs : jobs[j].at \in {"copying", "define"} => files[jobs[j].name].base = NoFile

ChainInv == StoreInv /\ Based

LEMMA ImageBase == \A b : Image(b).base = b
BY DEF Image

(* Where the disks of VMs, the image of the handler and those of the jobs  *)
(* lie: apart from each other and from the templates.                      *)
LEMMA Apart ==
  ASSUME StoreInv
  PROVE  /\ \A v \in Vms : Defined(v) => /\ vms[v].disk \in Files \ Templates /\ Exists(vms[v].disk)
                                         /\ files[vms[v].disk] \in File
         /\ hub # Idle => hub.file \in Files \ Templates
         /\ hub.at \in {"image", "define", "remove"} =>
              \A v \in Vms : Defined(v) => vms[v].disk # hub.file
         /\ \A j \in Jobs : jobs[j] # Idle =>
              /\ jobs[j].name \in Files \ Templates
              /\ hub # Idle => hub.file # jobs[j].name
              /\ \A v \in Vms : Defined(v) => vms[v].disk # jobs[j].name
              /\ \A i \in Jobs : i # j /\ jobs[i] # Idle => jobs[i].name # jobs[j].name
         /\ NoFile \notin Files
<1>1. \A v \in Vms : Defined(v) => /\ vms[v].disk \in Files \ Templates /\ Exists(vms[v].disk)
                                   /\ files[vms[v].disk] \in File
  BY VmParts, DiskConstants DEF StoreInv, TypeOK, Owned, Files, Exists
<1>2. hub # Idle => hub.file \in Files \ Templates
  BY HubParts, DiskConstants DEF StoreInv, HubClear, Files
<1>3. \A j \in Jobs : jobs[j] # Idle => jobs[j].name \in Files \ Templates
  BY JobParts, DiskConstants DEF StoreInv, Files
<1> QED  BY <1>1, <1>2, <1>3, DiskConstants DEF StoreInv, HubClear, JobsClear, JobClear

(* The bases of the disks stay founded when the step adds no VM, keeps     *)
(* their bases and takes no foundation away.                               *)
LEMMA DisksFounded ==
  ASSUME Based,
         \A b : Founded(b) => Founded(b)',
         \A v \in Vms : Defined(v)' => /\ Defined(v) /\ vms'[v].disk = vms[v].disk
                                      /\ files'[vms[v].disk].base = files[vms[v].disk].base
  PROVE  \A v \in Vms : Defined(v)' => Founded(files[vms[v].disk].base)'
<1> SUFFICES ASSUME NEW v \in Vms, Defined(v)' PROVE Founded(files[vms[v].disk].base)'
  OBVIOUS
<1>1. PICK b : b = files[vms[v].disk].base
  OBVIOUS
<1>2. Founded(b)
  BY <1>1 DEF Based
<1>3. Founded(b)'
  BY <1>2
<1> QED  BY <1>1, <1>3

LEMMA TemplatesFounded ==
  ASSUME Based, spent \subseteq spent',
         \A b : Founded(b) => Founded(b)',
         \A t \in Templates : Exists(t)' => Exists(t) /\ files'[t].base = files[t].base
  PROVE  \A t \in Templates : Exists(t)' => t \in spent' /\ Founded(files[t].base)'
<1> SUFFICES ASSUME NEW t \in Templates, Exists(t)' PROVE t \in spent' /\ Founded(files[t].base)'
  OBVIOUS
<1>1. PICK b : b = files[t].base
  OBVIOUS
<1>2. Founded(b) /\ t \in spent
  BY <1>1 DEF Based
<1>3. Founded(b)'
  BY <1>2
<1> QED  BY <1>1, <1>2, <1>3

(* Whoever is based on f was listed, or f is pulled.                       *)
LEMMA AskedFor ==
  ASSUME StoreInv, Checked, NEW f, AskAndPull(f)
  PROVE  pulled \subseteq pulled' /\ (f \in pulled' \/ Loose(f))
<1>1. PICK broken \in BOOLEAN :
        /\ broken \/ Dependents(f) = {}
        /\ pulled' = IF Unlisted(f, broken) = {} THEN pulled ELSE pulled \cup {f}
  BY DEF AskAndPull
<1>2. CASE Unlisted(f, broken) = {}
  <2>1. ASSUME NEW v \in Vms, Defined(v) PROVE files[vms[v].disk].base # f
    <3>1. BasedOn(v, f) => broken \/ WrittenTo(vms[v].disk)
      BY <1>1 DEF Dependents
    <3>2. ~BasedOn(v, f)
      BY <1>2, <3>1 DEF Unlisted
    <3> QED  BY <2>1, <3>2, Apart DEF BasedOn
  <2>2. ASSUME NEW t \in Templates, Exists(t) PROVE files[t].base # f
    BY <1>2, <2>2 DEF Unlisted
  <2> QED  BY <1>1, <1>2, <2>1, <2>2 DEF Loose
<1> QED  BY <1>1, <1>2

(* Steps that define and remove no VM and leave the bases of images alone. *)
LEMMA BasedSame ==
  ASSUME StoreInv, Based, UNCHANGED <<vms, pulled>>, spent \subseteq spent',
         \A f \in Files : Exists(f) => Exists(f)' /\ files'[f].base = files[f].base,
         \A t \in Templates : Exists(t)' => Exists(t),
         hub'.at \in {"image", "define", "undefine", "remove"} => hub' = hub,
         \A j \in Jobs : jobs'[j].at \in {"copying", "define"} =>
           jobs[j].at \in {"copying", "define"} /\ jobs'[j].name = jobs[j].name
  PROVE  Based'
<1>1. \A b : Founded(b) => Founded(b)'
  BY DEF Founded, Defined, Files
<1>2. \A v \in Vms : Defined(v)' => Founded(files[vms[v].disk].base)'
  BY <1>1, Apart, DisksFounded DEF Defined
<1>3. (\A t \in Templates : Exists(t) => t \in spent /\ Founded(files[t].base))'
  BY <1>1, TemplatesFounded DEF Files
<1>4. (hub.at \in {"image", "define"} => Founded(hub.base))'
  <2> SUFFICES ASSUME hub'.at \in {"image", "define"} PROVE Founded(hub.base)'
    OBVIOUS
  <2>1. PICK b : b = hub.base
    OBVIOUS
  <2>2. hub' = hub /\ Founded(b)
    BY <2>1 DEF Based
  <2> QED  BY <1>1, <2>1, <2>2
<1>5. (hub.at = "define" => files[hub.file].base = hub.base)'
  BY Apart, HubParts DEF Based, StoreInv, HubClear
<1>6. (hub.at \in {"undefine", "remove"} => hub.file \in pulled \/ Loose(hub.file))'
  BY Apart DEF Based, Loose, Defined, Files
<1>7. (\A j \in Jobs : jobs[j].at \in {"copying", "define"} => files[jobs[j].name].base = NoFile)'
  BY Apart, JobParts DEF Based, StoreInv, JobsClear, JobClear
<1> QED  BY <1>2, <1>3, <1>4, <1>5, <1>6, <1>7 DEF Based

LEMMA BasedGuest == ASSUME StoreInv, Based, NEW v \in Vms, Guest(v) PROVE Based'
<1>1. UNCHANGED <<vms, spent, hub, jobs, pulled>>
  BY DEF Guest, Start, Stop, Pause, Resume, GuestWrites
<1>2. CASE UNCHANGED files
  BY <1>1, <1>2, BasedSame DEF Exists
<1>3. CASE GuestWrites(v)
  <2>1. vms[v].disk \in Files /\ files[vms[v].disk] \in File
    BY <1>3, Apart DEF GuestWrites
  <2>2. /\ [files[vms[v].disk] EXCEPT !.written = TRUE] # NoFile
        /\ [files[vms[v].disk] EXCEPT !.written = TRUE].base = files[vms[v].disk].base
    <3>1. [files[vms[v].disk] EXCEPT !.written = TRUE] \in File
      BY <2>1 DEF File
    <3> QED  BY <2>1, <3>1, DiskConstants DEF File
  <2>3. \A f \in Files : Exists(f) => Exists(f)' /\ files'[f].base = files[f].base
    BY <1>3, <2>1, <2>2 DEF GuestWrites, Exists, StoreInv, TypeOK
  <2>4. \A t \in Templates : Exists(t)' => Exists(t)
    BY <1>3, Apart DEF GuestWrites, Exists, StoreInv, TypeOK, Files
  <2> QED  BY <1>1, <2>3, <2>4, BasedSame
<1> QED  BY <1>2, <1>3 DEF Guest, Start, Stop, Pause, Resume

LEMMA BasedBegin ==
  ASSUME StoreInv, Based, NEW op, NEW v, NEW n, NEW f, NEW base, Begin(op, v, n, f, base), Founded(base)
  PROVE  Based'
<1>1. /\ UNCHANGED <<vms, files, jobs, pulled>> /\ spent \subseteq spent'
      /\ hub'.at = "image" /\ hub'.base = base
  BY DEF Begin
<1>2. \A b : Founded(b) => Founded(b)'
  BY <1>1 DEF Founded, Defined, Exists
<1>3. Founded(base)'
  BY <1>2
<1>4. Founded(hub.base)'
  BY <1>1, <1>3 DEF Founded
<1>5. \A u \in Vms : Defined(u)' => Founded(files[vms[u].disk].base)'
  BY <1>1, <1>2, DisksFounded DEF Defined
<1>6. \A t \in Templates : Exists(t)' => t \in spent' /\ Founded(files[t].base)'
  BY <1>1, <1>2, TemplatesFounded DEF Exists
<1> QED  BY <1>1, <1>4, <1>5, <1>6 DEF Based, Exists

LEMMA BasedMake == ASSUME StoreInv, Based, MakeImage PROVE Based'
<1>1. /\ UNCHANGED <<vms, spent, jobs, pulled>> /\ hub # Idle /\ hub.at = "image"
      /\ hub'.at = "define" /\ hub'.base = hub.base /\ hub'.file = hub.file
      /\ hub.file \in Files
  BY HubParts DEF MakeImage, Go, StoreInv, TypeOK, HubState
<1>2. /\ files'[hub.file] = Image(hub.base) /\ Image(hub.base) # NoFile
      /\ \A f \in Files : f # hub.file => files'[f] = files[f]
  BY <1>1, HubParts, ImageIsFile, DiskConstants DEF MakeImage, StoreInv, TypeOK
<1>3. \A t \in Templates : files'[t] = files[t]
  BY <1>1, <1>2, Apart DEF Files
<1>4. \A b : Founded(b) => Founded(b)'
  BY <1>1, <1>3 DEF Founded, Defined, Exists
<1>5. \A v \in Vms : Defined(v) => files'[vms[v].disk] = files[vms[v].disk]
  BY <1>1, <1>2, Apart
<1>6. \A v \in Vms : Defined(v)' => Founded(files[vms[v].disk].base)'
  BY <1>1, <1>4, <1>5, DisksFounded DEF Defined
<1>7. Founded(hub.base)'
  <2>1. PICK b : b = hub.base
    OBVIOUS
  <2>2. Founded(b)'
    BY <1>1, <1>4, <2>1 DEF Based
  <2> QED  BY <1>1, <2>1, <2>2
<1>8. \A j \in Jobs : jobs[j] # Idle => files'[jobs[j].name] = files[jobs[j].name]
  BY <1>1, <1>2, Apart
<1>9. (files[hub.file].base = hub.base)'
  BY <1>1, <1>2, ImageBase
<1>10. \A t \in Templates : Exists(t)' => t \in spent' /\ Founded(files[t].base)'
  BY <1>1, <1>3, <1>4, TemplatesFounded DEF Exists
<1> QED  BY <1>1, <1>6, <1>7, <1>8, <1>9, <1>10 DEF Based, Exists

LEMMA BasedDefine == ASSUME StoreInv, Based, DefineVm PROVE Based'
<1>1. /\ UNCHANGED <<files, spent, jobs, pulled>> /\ hub.at = "define" /\ hub'.at \in {"start", "idle"}
      /\ hub.vm \in Vms /\ vms'[hub.vm] = [name |-> hub.name, disk |-> hub.file]
      /\ vms'[hub.vm].disk = hub.file
      /\ \A u \in Vms : u # hub.vm => vms'[u] = vms[u]
      /\ ~Defined(hub.vm)
  BY HubParts DEF DefineVm, Go, StoreInv, TypeOK, HubState, HubClear
<1>2. \A b : Founded(b) => Founded(b)'
  BY <1>1 DEF Founded, Defined, Exists
<1>3. \A v \in Vms : Defined(v)' => Founded(files[vms[v].disk].base)'
  <2> SUFFICES ASSUME NEW v \in Vms, Defined(v)' PROVE Founded(files[vms[v].disk].base)'
    OBVIOUS
  <2>1. PICK b : b = files[vms'[v].disk].base
    OBVIOUS
  <2>2. Founded(b)
    BY <1>1, <2>1 DEF Based, Defined
  <2>3. Founded(b)'
    BY <1>2, <2>2
  <2> QED  BY <1>1, <2>1, <2>3
<1>4. \A t \in Templates : Exists(t)' => t \in spent' /\ Founded(files[t].base)'
  BY <1>1, <1>2, TemplatesFounded DEF Exists
<1> QED  BY <1>1, <1>3, <1>4 DEF Based, Exists

(* An image that is nobody's is removed, and the handler ends.             *)
LEMMA BasedLess ==
  ASSUME StoreInv, Based, UNCHANGED <<vms, spent, jobs, pulled>>, hub' = Idle,
         hub.at \in {"define", "remove"}, files' = [files EXCEPT ![hub.file] = NoFile]
  PROVE  Based'
<1>1. hub # Idle /\ hub.file \in Files \ Templates
  BY HubParts, Apart DEF StoreInv
<1>2. \A f \in Files : f # hub.file => files'[f] = files[f]
  BY DEF StoreInv, TypeOK
<1>3. \A t \in Templates : files'[t] = files[t]
  BY <1>1, <1>2 DEF Files
<1>4. \A b : Founded(b) => Founded(b)'
  BY <1>1, <1>3 DEF Founded, Defined, Exists
<1>5. \A v \in Vms : Defined(v) => files'[vms[v].disk] = files[vms[v].disk]
  BY <1>1, <1>2, Apart
<1>6. \A v \in Vms : Defined(v)' => Founded(files[vms[v].disk].base)'
  BY <1>1, <1>4, <1>5, DisksFounded DEF Defined
<1>7. \A j \in Jobs : jobs[j] # Idle => files'[jobs[j].name] = files[jobs[j].name]
  BY <1>1, <1>2, Apart
<1>8. \A t \in Templates : Exists(t)' => t \in spent' /\ Founded(files[t].base)'
  BY <1>3, <1>4, TemplatesFounded DEF Exists
<1> QED  BY <1>1, <1>6, <1>7, <1>8, JobParts DEF Based, Exists, StoreInv

(* The dependents were asked for.                                          *)
LEMMA BasedDelete == ASSUME StoreInv, Based, Checked, NEW v \in Vms, DeleteVm(v) PROVE Based'
<1>1. /\ UNCHANGED <<vms, files, spent, jobs>> /\ AskAndPull(vms[v].disk)
      /\ hub'.at = "undefine" /\ hub'.file = vms[v].disk
  BY DEF DeleteVm
<1>2. PICK d : d = vms[v].disk
  OBVIOUS
<1>3. pulled \subseteq pulled' /\ (d \in pulled' \/ Loose(d))
  BY <1>1, <1>2, AskedFor
<1>4. Loose(d) => Loose(d)'
  BY <1>1 DEF Loose, Defined, Exists
<1>5. \A b : Founded(b) => Founded(b)'
  BY <1>1, <1>3 DEF Founded, Defined, Exists
<1>6. \A u \in Vms : Defined(u)' => Founded(files[vms[u].disk].base)'
  BY <1>1, <1>5, DisksFounded DEF Defined
<1>7. \A t \in Templates : Exists(t)' => t \in spent' /\ Founded(files[t].base)'
  BY <1>1, <1>5, TemplatesFounded DEF Exists
<1>8. hub'.file \in pulled' \/ Loose(hub.file)'
  BY <1>1, <1>2, <1>3, <1>4
<1> QED  BY <1>1, <1>6, <1>7, <1>8 DEF Based, Exists, Defined

LEMMA BasedUndefine ==
  ASSUME StoreInv, Based, NEW delete_disk \in BOOLEAN, Undefine(delete_disk)
  PROVE  Based'
<1>1. /\ UNCHANGED <<files, spent, jobs, pulled>> /\ hub # Idle /\ hub.at = "undefine"
      /\ hub.vm \in Vms
      /\ vms'[hub.vm] = NoVm /\ \A u \in Vms : u # hub.vm => vms'[u] = vms[u]
      /\ vms[hub.vm].disk = hub.file /\ hub.file \in Files
  BY HubParts DEF Undefine, StoreInv, TypeOK, HubClear
<1>2. hub'.at = "idle" \/ (hub'.at = "remove" /\ hub'.file = hub.file)
  BY <1>1, HubParts DEF Undefine, Go, StoreInv, TypeOK, HubState
<1>3. PICK d : d = hub.file
  OBVIOUS
<1>4. (d \in pulled \/ Loose(d)) /\ (Loose(d) => Loose(d)')
  BY <1>1, <1>3 DEF Based, Loose, Defined, Exists
<1>5. \A b : Founded(b) /\ (b # d \/ d \in pulled) => Founded(b)'
  BY <1>1, <1>3 DEF Founded, Defined, Exists
<1>6. \A v \in Vms : Defined(v)' => Defined(v) /\ vms'[v] = vms[v]
  BY <1>1 DEF Defined
<1>7. \A v \in Vms : Defined(v)' => Founded(files[vms[v].disk].base)'
  <2> SUFFICES ASSUME NEW v \in Vms, Defined(v)' PROVE Founded(files[vms[v].disk].base)'
    OBVIOUS
  <2>1. PICK b : b = files[vms[v].disk].base
    OBVIOUS
  <2>2. Founded(b) /\ (b # d \/ d \in pulled)
    BY <1>4, <1>6, <2>1 DEF Based, Loose
  <2>3. Founded(b)'
    BY <1>5, <2>2
  <2> QED  BY <1>1, <1>6, <2>1, <2>3
<1>8. \A t \in Templates : Exists(t)' => t \in spent' /\ Founded(files[t].base)'
  <2> SUFFICES ASSUME NEW t \in Templates, Exists(t)' PROVE t \in spent' /\ Founded(files[t].base)'
    OBVIOUS
  <2>1. PICK b : b = files[t].base
    OBVIOUS
  <2>2. Exists(t)
    BY <1>1 DEF Exists
  <2>3. t \in spent /\ Founded(b) /\ (b # d \/ d \in pulled)
    BY <1>4, <2>1, <2>2 DEF Based, Loose
  <2>4. Founded(b)'
    BY <1>5, <2>3
  <2> QED  BY <1>1, <2>1, <2>3, <2>4
<1>9. hub'.at = "remove" => hub'.file \in pulled' \/ Loose(hub.file)'
  BY <1>1, <1>2, <1>3, <1>4
<1> QED  BY <1>1, <1>2, <1>7, <1>8, <1>9 DEF Based, Exists

(* A template is a full copy, or based on what the VM's disk is based on.  *)
LEMMA BasedTemplate ==
  ASSUME StoreInv, Based, NEW v \in Vms, NEW t \in Templates, CreateTemplate(v, t)
  PROVE  Based'
<1>1. /\ UNCHANGED <<vms, hub, jobs, pulled>> /\ Defined(v)
      /\ t \notin spent /\ spent' = spent \cup {t} /\ hub = Idle
  BY DEF CreateTemplate
<1>2. PICK image \in TemplateImages(vms[v].disk) : files' = [files EXCEPT ![t] = image]
  BY DEF CreateTemplate
<1>3. files'[t] = image /\ \A f \in Files : f # t => files'[f] = files[f]
  BY <1>2 DEF StoreInv, TypeOK, Files
<1>4. image = NoFile \/ image.base \in {NoFile, files[vms[v].disk].base}
  BY ImageBase DEF TemplateImages
<1>5. ~Exists(t)
  BY <1>1 DEF Based
<1>6. \A b : Founded(b) => Founded(b)'
  BY <1>1, <1>3, <1>5 DEF Founded, Defined, Exists, Files
<1>7. \A u \in Vms : Defined(u) => files'[vms[u].disk] = files[vms[u].disk]
  BY <1>3, Apart
<1>8. \A u \in Vms : Defined(u)' => Founded(files[vms[u].disk].base)'
  BY <1>1, <1>6, <1>7, DisksFounded DEF Defined
<1>9. \A s \in Templates : Exists(s)' => s \in spent' /\ Founded(files[s].base)'
  <2> SUFFICES ASSUME NEW s \in Templates, Exists(s)' PROVE s \in spent' /\ Founded(files[s].base)'
    OBVIOUS
  <2>1. PICK b : b = files'[s].base
    OBVIOUS
  <2>2. CASE s # t
    <3>1. files'[s] = files[s] /\ Exists(s)
      BY <1>3, <2>2 DEF Exists, Files
    <3>2. s \in spent /\ Founded(b)
      BY <2>1, <3>1 DEF Based
    <3> QED  BY <1>1, <1>6, <2>1, <3>2
  <2>3. CASE s = t
    <3>1. b \in {NoFile, files[vms[v].disk].base}
      BY <1>3, <1>4, <2>1, <2>3 DEF Exists
    <3>2. Founded(b)
      BY <1>1, <3>1 DEF Based, Founded
    <3>3. Founded(b)'
      BY <1>6, <3>2
    <3> QED  BY <1>1, <2>1, <2>3, <3>3
  <2> QED  BY <2>2, <2>3
<1>10. \A j \in Jobs : jobs[j] # Idle => files'[jobs[j].name] = files[jobs[j].name]
  BY <1>3, Apart
<1> QED  BY <1>1, <1>8, <1>9, <1>10, JobParts DEF Based, StoreInv

(* A template goes when no VM is listed as based on it.                    *)
LEMMA BasedLessTemplate ==
  ASSUME StoreInv, Based, Checked, NEW t \in Templates, DeleteTemplate(t)
  PROVE  Based'
<1>1. /\ UNCHANGED <<vms, spent, hub, jobs>> /\ hub = Idle /\ AskAndPull(t)
      /\ files'[t] = NoFile /\ \A f \in Files : f # t => files'[f] = files[f]
  BY DEF DeleteTemplate, StoreInv, TypeOK, Files
<1>2. pulled \subseteq pulled' /\ (t \in pulled' \/ Loose(t))
  BY <1>1, AskedFor
<1>3. \A b : Founded(b) /\ (b # t \/ t \in pulled') => Founded(b)'
  BY <1>1, <1>2 DEF Founded, Defined, Exists, Files
<1>4. \A v \in Vms : Defined(v) => files'[vms[v].disk] = files[vms[v].disk]
  BY <1>1, Apart
<1>5. \A v \in Vms : Defined(v)' => Founded(files[vms[v].disk].base)'
  <2> SUFFICES ASSUME NEW v \in Vms, Defined(v)' PROVE Founded(files[vms[v].disk].base)'
    OBVIOUS
  <2>1. PICK b : b = files[vms[v].disk].base
    OBVIOUS
  <2>2. Defined(v) /\ Founded(b) /\ (b # t \/ t \in pulled')
    BY <1>1, <1>2, <2>1 DEF Based, Defined, Loose
  <2>3. Founded(b)'
    BY <1>3, <2>2
  <2> QED  BY <1>1, <1>4, <2>1, <2>2, <2>3
<1>6. \A s \in Templates : Exists(s)' => s \in spent' /\ Founded(files[s].base)'
  <2> SUFFICES ASSUME NEW s \in Templates, Exists(s)' PROVE s \in spent' /\ Founded(files[s].base)'
    OBVIOUS
  <2>1. PICK b : b = files[s].base
    OBVIOUS
  <2>2. s # t /\ files'[s] = files[s] /\ Exists(s)
    BY <1>1 DEF Exists, Files
  <2>3. s \in spent /\ Founded(b) /\ (b # t \/ t \in pulled')
    BY <1>2, <2>1, <2>2 DEF Based, Loose
  <2>4. Founded(b)'
    BY <1>3, <2>3
  <2> QED  BY <1>1, <2>1, <2>2, <2>3, <2>4
<1>7. \A j \in Jobs : jobs[j] # Idle => files'[jobs[j].name] = files[jobs[j].name]
  BY <1>1, Apart
<1> QED  BY <1>1, <1>5, <1>6, <1>7, JobParts DEF Based, StoreInv

LEMMA BasedConvert == ASSUME StoreInv, Based, NEW j \in Jobs, BeginConvert(j) PROVE Based'
<1>1. /\ UNCHANGED <<vms, spent, hub, pulled>> /\ jobs[j] # Idle
      /\ jobs[j].name \in Files \ Templates
      /\ jobs'[j].name = jobs[j].name /\ \A i \in Jobs : i # j => jobs'[i] = jobs[i]
  BY JobParts, Apart DEF BeginConvert, Now, StoreInv, TypeOK, JobState
<1>2. /\ files'[jobs[j].name] = Image(NoFile)
      /\ \A f \in Files : f # jobs[j].name => files'[f] = files[f]
  BY <1>1 DEF BeginConvert, StoreInv, TypeOK
<1>3. \A t \in Templates : files'[t] = files[t]
  BY <1>1, <1>2 DEF Files
<1>4. \A b : Founded(b) => Founded(b)'
  BY <1>1, <1>3 DEF Founded, Defined, Exists
<1>5. \A v \in Vms : Defined(v) => files'[vms[v].disk] = files[vms[v].disk]
  BY <1>1, <1>2, Apart
<1>6. \A v \in Vms : Defined(v)' => Founded(files[vms[v].disk].base)'
  BY <1>1, <1>4, <1>5, DisksFounded DEF Defined
<1>7. hub # Idle => files'[hub.file] = files[hub.file]
  BY <1>1, <1>2, Apart
<1>8. \A i \in Jobs : jobs'[i].at \in {"copying", "define"} => files'[jobs'[i].name].base = NoFile
  <2>1. files'[jobs[j].name].base = NoFile
    BY <1>2, ImageBase
  <2>2. \A i \in Jobs : jobs[i] # Idle /\ i # j => files'[jobs[i].name] = files[jobs[i].name]
    BY <1>1, <1>2, Apart
  <2> QED  BY <1>1, <2>1, <2>2, JobParts DEF Based, StoreInv
<1>9. (hub.at \in {"image", "define"} => Founded(hub.base))'
  <2>1. PICK b : b = hub.base
    OBVIOUS
  <2>2. hub.at \in {"image", "define"} => Founded(b)'
    BY <1>4, <2>1 DEF Based
  <2> QED  BY <1>1, <2>1, <2>2
<1>10. \A t \in Templates : Exists(t)' => t \in spent' /\ Founded(files[t].base)'
  BY <1>1, <1>3, <1>4, TemplatesFounded DEF Exists
<1>11. (hub.at \in {"undefine", "remove"} => hub.file \in pulled \/ Loose(hub.file))'
  BY <1>1, <1>3, <1>5 DEF Based, Loose, Exists, Defined
<1> QED  BY <1>1, <1>6, <1>7, <1>8, <1>9, <1>10, <1>11, HubParts DEF Based, StoreInv

LEMMA BasedDefineClone == ASSUME StoreInv, Based, NEW j \in Jobs, DefineClone(j) PROVE Based'
<1>1. /\ UNCHANGED <<files, spent, hub, pulled>> /\ jobs[j] # Idle /\ jobs[j].at = "define"
      /\ jobs[j].vm \in Vms /\ ~Defined(jobs[j].vm) /\ vms'[jobs[j].vm].disk = jobs[j].name
      /\ \A u \in Vms : u # jobs[j].vm => vms'[u] = vms[u]
      /\ jobs'[j] = Idle /\ \A i \in Jobs : i # j => jobs'[i] = jobs[i]
  BY JobParts DEF DefineClone, Ends, StoreInv, TypeOK, JobsClear, JobClear
<1>2. files[jobs[j].name].base = NoFile
  BY <1>1 DEF Based
<1>3. \A b : Founded(b) => Founded(b)'
  BY <1>1 DEF Founded, Defined, Exists
<1>4. \A v \in Vms : Defined(v)' => Founded(files[vms[v].disk].base)'
  <2> SUFFICES ASSUME NEW v \in Vms, Defined(v)' PROVE Founded(files[vms[v].disk].base)'
    OBVIOUS
  <2>1. PICK b : b = files[vms'[v].disk].base
    OBVIOUS
  <2>2. Founded(b)
    BY <1>1, <1>2, <2>1 DEF Based, Defined, Founded
  <2>3. Founded(b)'
    BY <1>3, <2>2
  <2> QED  BY <1>1, <2>1, <2>3
<1>5. (hub.at \in {"image", "define"} => Founded(hub.base))'
  <2>1. PICK b : b = hub.base
    OBVIOUS
  <2>2. hub.at \in {"image", "define"} => Founded(b)'
    BY <1>3, <2>1 DEF Based
  <2> QED  BY <1>1, <2>1, <2>2
<1>6. (hub.at \in {"undefine", "remove"} => hub.file \in pulled \/ Loose(hub.file))'
  <2>1. hub # Idle => hub.file # NoFile
    BY Apart
  <2> QED  BY <1>1, <1>2, <2>1, HubParts DEF Based, Loose, Exists, Defined, StoreInv
<1>7. \A t \in Templates : Exists(t)' => t \in spent' /\ Founded(files[t].base)'
  BY <1>1, <1>3, TemplatesFounded DEF Exists
<1> QED  BY <1>1, <1>4, <1>5, <1>6, <1>7 DEF Based, Exists

LEMMA BasedHandler == ASSUME StoreInv, Based, Checked, Handler PROVE Based'
<1>1. ASSUME NEW v \in Vms, NEW n \in Names, NEW base \in Templates \cup {NoFile}, CreateVm(v, n, base)
      PROVE  Based'
  BY <1>1, BasedBegin DEF CreateVm, Founded
<1>2. ASSUME NEW v \in Vms, NEW n \in Names, NEW source \in Vms, LinkedClone(source, v, n)
      PROVE  Based'
  BY <1>2, BasedBegin DEF LinkedClone, Founded
<1>3. ASSUME NEW v \in Vms, NEW n \in Names, NEW t \in Templates, Deploy(t, v, n)
      PROVE  Based'
  BY <1>3, BasedBegin DEF Deploy, Founded
<1>4. CASE ImageFails \/ StartDeployed \/ (DefineFails /\ UNCHANGED files)
  <2>1. UNCHANGED <<vms, files, spent, jobs, pulled>> /\ hub' = Idle
    BY <1>4 DEF ImageFails, StartDeployed, DefineFails
  <2> QED  BY <2>1, BasedSame DEF Exists
<1>5. CASE RemoveDisk \/ (DefineFails /\ ~UNCHANGED files)
  BY <1>5, BasedLess DEF RemoveDisk, DefineFails
<1> QED  BY <1>1, <1>2, <1>3, <1>4, <1>5, BasedMake, BasedDefine, BasedDelete, BasedUndefine,
            BasedTemplate, BasedLessTemplate DEF Handler

LEMMA BasedJob == ASSUME StoreInv, Based, NEW j \in Jobs, CloneJob(j) PROVE Based'
<1>1. CASE ConvertFails(j) \/ EndConvert(j) \/ DefineCloneFails(j)
           \/ \E source \in Vms, v \in Vms, n \in Names : CloneVm(j, source, n, v)
  <2>1. UNCHANGED <<vms, files, hub, pulled>> /\ spent \subseteq spent'
    BY <1>1 DEF ConvertFails, EndConvert, DefineCloneFails, CloneVm
  <2>2. \A i \in Jobs : i # j => jobs'[i] = jobs[i]
    BY <1>1 DEF ConvertFails, EndConvert, DefineCloneFails, CloneVm, Now, Ends, StoreInv, TypeOK
  <2>3. jobs'[j].at \in {"copying", "define"} =>
          jobs[j].at \in {"copying", "define"} /\ jobs'[j].name = jobs[j].name
    BY <1>1, JobParts DEF ConvertFails, EndConvert, DefineCloneFails, CloneVm, Now, Ends, StoreInv,
       TypeOK, JobState
  <2> QED  BY <2>1, <2>2, <2>3, BasedSame DEF Exists
<1> QED  BY <1>1, BasedConvert, BasedDefineClone DEF CloneJob

LEMMA ChainStart == Init => ChainInv
<1> SUFFICES ASSUME Init PROVE ChainInv
  OBVIOUS
<1>1. \A t \in Templates : ~Exists(t)
  BY DEF Init, Exists, Files
<1> QED  BY <1>1, StoreInit DEF Init, ChainInv, Based, Defined

LEMMA ChainStep == ChainInv /\ FreshNames /\ Checked /\ [Next]_vars => ChainInv'
<1> SUFFICES ASSUME StoreInv, Based, FreshNames, Checked, [Next]_vars PROVE Based'
  BY StoreStep DEF ChainInv
<1>1. CASE Crash \/ UNCHANGED vars
  <2>1. /\ UNCHANGED <<vms, files, spent, pulled>> /\ hub' \in {Idle, hub}
        /\ \A j \in Jobs : jobs'[j] \in {Idle, jobs[j]}
    BY <1>1 DEF Crash, vars
  <2> QED  BY <2>1, BasedSame DEF Exists
<1> QED  BY <1>1, BasedGuest, BasedHandler, BasedJob DEF Next

-----------------------------------------------------------------------------
(* One level further down. *)
Further(s) == s \cup {files[g].base : g \in {h \in s : Exists(h)}}

(* The levels below an image, down to the given one. *)
Levels(f, n, below) == below = [k \in 0 .. n |-> IF k = 0 THEN {f} ELSE Further(below[k - 1])]

(* A non-empty set of naturals has a least element. *)
LEMMA LeastIn == ASSUME NEW S \in SUBSET Nat, S # {} PROVE \E x \in S : \A y \in S : x <= y
<1>1. PICK x \in S : \A y \in S : ~(<<y, x>> \in OpToRel(<, Nat))
  BY NatLessThanWellFounded, WFMin, Zenon
<1>2. \A y \in S : y \in Nat /\ x \in Nat => ~(y < x)
  BY <1>1, Zenon DEF OpToRel
<1> QED  BY <1>2

LEMMA LevelsExist == ASSUME NEW f, NEW n \in Nat PROVE \E below : Levels(f, n, below)
<1> DEFINE Bad == {k \in Nat : ~\E below : Levels(f, k, below)}
<1> SUFFICES ASSUME Bad # {} PROVE FALSE
  OBVIOUS
<1>1. PICK k \in Bad : \A j \in Bad : k <= j
  <2> HIDE DEF Bad
  <2>1. Bad \in SUBSET Nat
    BY DEF Bad
  <2> QED  BY <2>1, LeastIn
<1>2. \A j \in Nat : j < k => \E below : Levels(f, j, below)
  BY <1>1
<1>3. k \in Nat /\ ~\E below : Levels(f, k, below)
  BY <1>1
<1>4. CASE k = 0
  <2>1. Levels(f, 0, [j \in 0 .. 0 |-> {f}])
    BY DEF Levels
  <2> QED  BY <1>3, <1>4, <2>1
<1>5. CASE k # 0
  <2>1. k - 1 \in Nat /\ k - 1 < k
    BY <1>3, <1>5
  <2>2. PICK upper : Levels(f, k - 1, upper)
    BY <1>2, <2>1
  <2> DEFINE lower == [j \in 0 .. k |-> IF j = k THEN Further(upper[k - 1]) ELSE upper[j]]
  <2>3. \A j \in 0 .. (k - 1) : upper[j] = IF j = 0 THEN {f} ELSE Further(upper[j - 1])
    BY <2>2 DEF Levels
  <2>4. \A j \in 0 .. k : lower[j] = IF j = 0 THEN {f} ELSE Further(lower[j - 1])
    <3> SUFFICES ASSUME NEW j \in 0 .. k PROVE lower[j] = IF j = 0 THEN {f} ELSE Further(lower[j - 1])
      OBVIOUS
    <3>1. CASE j = k
      <4>1. lower[j] = Further(upper[k - 1]) /\ lower[j - 1] = upper[k - 1] /\ j # 0
        BY <1>3, <1>5, <3>1
      <4> QED  BY <3>1, <4>1
    <3>2. CASE j # k /\ j # 0
      <4>1. j \in 0 .. (k - 1) /\ j - 1 \in 0 .. k /\ j - 1 # k /\ lower[j] = upper[j]
        BY <1>3, <3>2
      <4>2. lower[j - 1] = upper[j - 1]
        BY <4>1
      <4> QED  BY <2>3, <3>2, <4>1, <4>2
    <3>3. CASE j = 0
      <4>1. j # k /\ 0 \in 0 .. (k - 1)
        BY <1>3, <1>5, <3>3
      <4> QED  BY <2>3, <3>3, <4>1
    <3> QED  BY <3>1, <3>2, <3>3
  <2>5. Levels(f, k, lower)
    <3> HIDE DEF lower
    <3>1. lower = [j \in 0 .. k |-> lower[j]]
      BY DEF lower
    <3>2. lower = [j \in 0 .. k |-> IF j = 0 THEN {f} ELSE Further(lower[j - 1])]
      BY <2>4, <3>1
    <3> QED  BY <3>2 DEF Levels
  <2> QED  BY <1>3, <2>5
<1> QED  BY <1>4, <1>5

LEMMA ChainLevels ==
  ASSUME NEW f
  PROVE  \E below : /\ Levels(f, Cardinality(Files), below)
                    /\ Chain(f) = below[Cardinality(Files)] \ {NoFile}
<1> DEFINE N == Cardinality(Files)
           below == CHOOSE b : Levels(f, N, b)
<1>1. N \in Nat
  BY DiskConstants, FS_CardinalityType
<1>2. Levels(f, N, below)
  <2> HIDE DEF N
  <2> QED  BY <1>1, LevelsExist
<1>3. Chain(f) = below[N] \ {NoFile}
  BY DEF Chain, Levels, Further
<1> QED  BY <1>2, <1>3

(* A level holds what the levels before it hold.                           *)
LEMMA LevelsGrow ==
  ASSUME NEW f, NEW N \in Nat, NEW below, Levels(f, N, below), NEW k \in 0 .. N
  PROVE  below[k] \subseteq below[N]
<1> DEFINE Bad == {i \in Nat : i <= N /\ ~(below[N - i] \subseteq below[N])}
<1>1. SUFFICES ASSUME Bad # {} PROVE FALSE
  <2>1. N - k \in Nat /\ N - k <= N /\ N - (N - k) = k
    OBVIOUS
  <2> QED  BY <2>1
<1>2. PICK i \in Bad : \A j \in Bad : i <= j
  <2> HIDE DEF Bad
  <2>1. Bad \in SUBSET Nat
    BY DEF Bad
  <2> QED  BY <1>1, <2>1, LeastIn
<1>3. i # 0
  <2>1. N - 0 = N
    OBVIOUS
  <2> QED  BY <1>2, <2>1
<1>4. i - 1 \in Nat /\ i - 1 < i /\ i - 1 <= N /\ N - (i - 1) \in 1 .. N
  BY <1>2, <1>3
<1>5. below[N - (i - 1)] \subseteq below[N]
  <2>1. i - 1 \notin Bad
    BY <1>2, <1>4
  <2> QED  BY <1>4, <2>1
<1>6. below[N - (i - 1)] = Further(below[N - i])
  <2>1. N - (i - 1) \in 0 .. N /\ N - (i - 1) # 0 /\ N - (i - 1) - 1 = N - i
    BY <1>2, <1>4
  <2>2. \A j \in 0 .. N : below[j] = IF j = 0 THEN {f} ELSE Further(below[j - 1])
    <3> HIDE DEF Bad
    <3> QED  BY DEF Levels
  <2> QED  BY <2>1, <2>2
<1>7. below[N - i] \subseteq below[N]
  BY <1>5, <1>6 DEF Further
<1> QED  BY <1>2, <1>7

(* What holds of an image and of every base it leads to, holds of its chain *)
LEMMA ChainWithin ==
  ASSUME NEW f, NEW S, f \in S, ~Exists(NoFile),
         \A g \in S \cap Chain(f) : Exists(g) => files[g].base \in S \cup {NoFile}
  PROVE  Chain(f) \subseteq S
<1>1. PICK below : /\ Levels(f, Cardinality(Files), below)
                   /\ Chain(f) = below[Cardinality(Files)] \ {NoFile}
  BY ChainLevels
<1>2. Cardinality(Files) \in Nat
  BY DiskConstants, FS_CardinalityType
<1> DEFINE Bad == {k \in Nat : k <= Cardinality(Files) /\ ~(below[k] \subseteq S \cup {NoFile})}
<1>3. SUFFICES ASSUME Bad # {} PROVE FALSE
  BY <1>1, <1>2
<1>4. PICK k \in Bad : \A j \in Bad : k <= j
  <2> HIDE DEF Bad
  <2>1. Bad \in SUBSET Nat
    BY DEF Bad
  <2> QED  BY <1>3, <2>1, LeastIn
<1>5. \A j \in Bad : ~(j < k)
  BY <1>4
<1>6. below[k] = IF k = 0 THEN {f} ELSE Further(below[k - 1])
  <2>1. k \in 0 .. Cardinality(Files)
    BY <1>2, <1>4
  <2>2. \A j \in 0 .. Cardinality(Files) :
          below[j] = IF j = 0 THEN {f} ELSE Further(below[j - 1])
    <3> HIDE DEF Bad
    <3> QED  BY <1>1 DEF Levels
  <2> QED  BY <2>1, <2>2
<1>7. CASE k = 0
  BY <1>6, <1>7
<1>8. CASE k # 0
  <2>1. k - 1 \in Nat /\ k - 1 < k /\ k - 1 <= Cardinality(Files)
    BY <1>2, <1>8
  <2>2. below[k - 1] \subseteq S \cup {NoFile}
    BY <1>5, <2>1
  <2>3. ASSUME NEW g \in below[k - 1], Exists(g) PROVE g \in S \cap Chain(f)
    <3>1. g # NoFile /\ g \in S
      BY <2>2, <2>3
    <3>2. k - 1 \in 0 .. Cardinality(Files)
      BY <1>2, <2>1
    <3>3. g \in below[Cardinality(Files)]
      <4> HIDE DEF Bad
      <4> QED  BY <1>1, <1>2, <2>3, <3>2, LevelsGrow
    <3> QED  BY <1>1, <3>1, <3>3
  <2>4. Further(below[k - 1]) \subseteq S \cup {NoFile}
    BY <2>2, <2>3 DEF Further
  <2> QED  BY <1>4, <1>6, <1>8, <2>4
<1> QED  BY <1>7, <1>8

(* The disks of VMs and the templates that are there: where chains run,    *)
(* until they come to what was pulled.                                     *)
LEMMA ChainInvWhole == ChainInv => ChainsWhole
<1> SUFFICES ASSUME ChainInv, NEW v \in Vms, Defined(v), Chain(vms[v].disk) \cap pulled = {}
             PROVE  \A f \in Chain(vms[v].disk) : Exists(f)
  BY DEF ChainsWhole
<1> DEFINE S == {f \in Files : Exists(f) /\ Founded(f)} \cup pulled
<1>1. vms[v].disk \in S
  BY Apart DEF ChainInv, Founded
<1>2. ASSUME NEW f \in S, f \notin pulled PROVE files[f].base \in S \cup {NoFile}
  <2>1. f \in Files /\ Exists(f) /\ Founded(f) /\ f # NoFile
    BY <1>2, Apart DEF ChainInv
  <2>2. Founded(files[f].base)
    BY <1>2, <2>1 DEF ChainInv, Based, Founded
  <2> QED  BY <2>2, Apart DEF ChainInv, Founded, Files
<1>3. ~Exists(NoFile)
  BY DiskConstants DEF Exists
<1>4. Chain(vms[v].disk) \subseteq S
  <2> HIDE DEF S
  <2>1. \A g \in S \cap Chain(vms[v].disk) : Exists(g) => files[g].base \in S \cup {NoFile}
    BY <1>2
  <2> QED  BY <1>1, <1>3, <2>1, ChainWithin
<1> QED  BY <1>4

(* ChainsWhole, while operators do not ask for one name twice at a time    *)
(* and look for dependents right before they delete: whatever fails,       *)
(* however clone jobs interleave and wherever the process is killed, a     *)
(* VM's disk loses an image that it rests on only if one of its chain was  *)
(* deleted while the list left out somebody based on it.                   *)
THEOREM ChainsStayWhole == ASSUME FreshNames, Checked PROVE Spec => []ChainsWhole
<1>1. Init => ChainInv
  BY ChainStart
<1>2. ChainInv /\ [Next]_vars => ChainInv'
  BY ChainStep
<1>3. ChainInv => ChainsWhole
  BY ChainInvWhole
<1> QED  BY <1>1, <1>2, <1>3, PTL DEF Spec

=============================================================================
