--------------------------- MODULE FaultTolerance ---------------------------
(***************************************************************************)
(* Fault tolerance pairs, src/ankavm/backend/fault_tolerance.py.           *)
(*                                                                         *)
(* A primary VM has a secondary, a domain of its own with a copy of the    *)
(* primary's disk.  The handlers run on the hub, one after the other, but  *)
(* each is a sequence of commands (qemu-img, virsh) and a save at the end; *)
(* between two of them guests write, threads and guests start and stop     *)
(* VMs, and the process may be killed.                                     *)
(*                                                                         *)
(* The content of a primary's disk is the number of writes it has seen, a  *)
(* copy is worth the writes it contains.  qemu refuses to open an image    *)
(* that another process has open for writing (Locking).                    *)
(*                                                                         *)
(* Covered: every command that can fail, domstate included, a save that    *)
(* fails and a file that cannot be read, and a kill at every point.  Not   *)
(* covered: the primary itself is deleted.                                 *)
(***************************************************************************)
EXTENDS Integers

CONSTANTS
  Vms,         \* the primaries
  MaxWrites,   \* how often a primary's disk is written (bound)
  Faults,      \* what can fail
  Locking,     \* does qemu lock the images it has open?
  Careful,     \* primaries are left alone while their pair is made or switched
  NoPair, NoDisk, Fragment, NoVm

Writes  == 0 .. MaxWrites
Entry   == [status : {"protected", "failover"}, synced : Writes]
Copy    == [holds : Writes, own : BOOLEAN]
Calls   == {"idle", "copy", "copying", "define", "stamp", "save", "stop", "wait",
            "start", "promote", "destroy", "undefine", "forget"}
(* new: create_ft_pair; lost: it could not read the file; blind: a         *)
(* domstate or a destroy of this failover failed.                          *)
Notes == {"new", "lost", "blind"}
HubState == [at : Calls, vm : Vms \cup {NoVm}, seen : Writes, notes : SUBSET Notes]

ASSUME FtConstants ==
  /\ MaxWrites \in Nat
  /\ Faults \subseteq {"load", "copy", "define", "domstate", "start", "destroy",
                      "undefine", "save"}
  /\ Locking \in BOOLEAN /\ Careful \in BOOLEAN
  /\ NoPair \notin Entry
  /\ NoDisk \notin Copy /\ Fragment \notin Copy /\ NoDisk # Fragment
  /\ NoVm \notin Vms

VARIABLES
  pairs,     \* ft_pairs.json
  primary,   \* libvirt: the state of each primary
  written,   \* how often each primary's disk was written
  defined,   \* libvirt: the secondaries with a definition
  running,   \* libvirt: the secondaries that run
  disk,      \* the secondary's disk
  hub,       \* the running handler and its next command
  reported,  \* history: failed over, the caller was told so, the file says so
  misled     \* history: the secondaries started by a blind failover

vars == <<pairs, primary, written, defined, running, disk, hub, reported, misled>>
domains == <<primary, written, defined, running, disk, misled>>

Idle == [at |-> "idle", vm |-> NoVm, seen |-> 0, notes |-> {}]

TypeOK ==
  /\ pairs \in [Vms -> Entry \cup {NoPair}]
  /\ primary \in [Vms -> {"off", "running", "paused"}]
  /\ written \in [Vms -> Writes]
  /\ defined \subseteq Vms /\ running \subseteq Vms
  /\ disk \in [Vms -> Copy \cup {NoDisk, Fragment}]
  /\ hub \in HubState /\ (hub.at # "idle" => hub.vm \in Vms)
  /\ reported \subseteq Vms /\ misled \subseteq Vms

Init ==
  /\ pairs = [v \in Vms |-> NoPair]
  /\ primary = [v \in Vms |-> "off"]
  /\ written = [v \in Vms |-> 0]
  /\ defined = {} /\ running = {}
  /\ disk = [v \in Vms |-> NoDisk]
  /\ hub = Idle
  /\ reported = {} /\ misled = {}

-----------------------------------------------------------------------------
(* Guests, operators and the threads that start and stop VMs.              *)

PrimaryWrites(v) ==
  /\ primary[v] = "running" /\ written[v] < MaxWrites
  /\ written' = [written EXCEPT ![v] = @ + 1]
  /\ UNCHANGED <<pairs, primary, defined, running, disk, hub, reported, misled>>

SecondaryWrites(v) ==
  /\ v \in running /\ disk[v] \in Copy
  /\ disk' = [disk EXCEPT ![v].own = TRUE]
  /\ UNCHANGED <<pairs, primary, written, defined, running, hub, reported, misled>>

(* From the moment at which a handler has the primary's disk or state      *)
(* until it has used it; a secondary that runs is in use.                  *)
InHand(v) ==
  v \in running \/ (hub.at \in {"define", "stamp", "wait", "start"} /\ hub.vm = v)

Copying(v) == hub.at = "copying" /\ hub.vm = v

Power(v, state) ==
  /\ primary[v] # state
  /\ state = "running" => /\ Careful => ~InHand(v)
                          /\ Locking => ~Copying(v)
  /\ state = "paused" => primary[v] = "running"
  /\ primary' = [primary EXCEPT ![v] = state]
  /\ UNCHANGED <<pairs, written, defined, running, disk, hub, reported, misled>>

(* A secondary is an ordinary VM: it may be started by hand. *)
StartByHand(v) ==
  /\ v \in defined \ running
  /\ Careful => primary[v] = "off"
  /\ Locking => ~Copying(v)
  /\ running' = running \cup {v}
  /\ UNCHANGED <<pairs, primary, written, defined, disk, hub, reported, misled>>

SecondaryStops(v) ==
  /\ v \in running
  /\ running' = running \ {v} /\ misled' = misled \ {v}
  /\ UNCHANGED <<pairs, primary, written, defined, disk, hub, reported>>

-----------------------------------------------------------------------------
(* The handlers.  Step moves the running one on, Raise ends it. *)

Begin(v, call, notes) ==
  /\ hub.at = "idle"
  /\ hub' = [Idle EXCEPT !.at = call, !.vm = v, !.notes = notes]
  /\ UNCHANGED <<pairs, reported, domains>>

At(v, call) == hub.at = call /\ hub.vm = v

Step(call) == hub' = [hub EXCEPT !.at = call]

Raise == hub' = Idle /\ UNCHANGED <<pairs, reported, domains>>

(* create_ft_pair and sync_checkpoint: the copy, then what follows. *)

(* Mutant: a VM that has a pair is given another. *)
CreatePairMut(v) == Begin(v, "copy", {"new"})

(* A file that cannot be read passes for an empty one. *)
CreatePair(v) ==
  \/ pairs[v] = NoPair /\ Begin(v, "copy", {"new"})
  \/ "load" \in Faults /\ Begin(v, "copy", {"new", "lost"})

(* Mutant: a pair that is failed over is synchronised as well. *)
SyncCheckpointMut(v) == pairs[v] # NoPair /\ Begin(v, "copy", {})

SyncCheckpoint(v) ==
  /\ pairs[v] # NoPair /\ pairs[v].status # "failover"
  /\ Begin(v, "copy", {})

Locked(v) == Locking /\ (primary[v] # "off" \/ v \in running)

CopyRefused(v) ==
  /\ At(v, "copy")
  /\ Locked(v) \/ "copy" \in Faults
  /\ Raise

BeginCopy(v) ==
  /\ At(v, "copy") /\ ~Locked(v)
  /\ disk' = [disk EXCEPT ![v] = Fragment]
  /\ hub' = [hub EXCEPT !.at = "copying", !.seen = written[v]]
  /\ UNCHANGED <<pairs, primary, written, defined, running, reported, misled>>

CopyFails(v) == At(v, "copying") /\ "copy" \in Faults /\ Raise

(* The image is released. *)
EndCopy(v) ==
  /\ At(v, "copying")
  /\ disk' = [disk EXCEPT ![v] = [holds |-> hub.seen, own |-> FALSE]]
  /\ Step(IF "new" \in hub.notes THEN "define" ELSE "stamp")
  /\ UNCHANGED <<pairs, primary, written, defined, running, reported, misled>>

(* defineXML with a new uuid fails when the name is taken. *)
DefineSecondary(v) ==
  /\ At(v, "define") /\ v \notin defined \cup running
  /\ defined' = defined \cup {v}
  /\ Step("stamp")
  /\ UNCHANGED <<pairs, primary, written, running, disk, reported, misled>>

DefineFails(v) ==
  /\ At(v, "define")
  /\ v \in defined \cup running \/ "define" \in Faults
  /\ Raise

(* last_sync: the time after all that, which says what it promises. *)
Stamp(v) ==
  /\ At(v, "stamp")
  /\ hub' = [hub EXCEPT !.at = "save", !.seen = written[v]]
  /\ UNCHANGED <<pairs, reported, domains>>

(* Only the new pair is saved when the file could not be read. *)
SavePair(v, entry) ==
  /\ At(v, "save")
  /\ IF "lost" \in hub.notes
       THEN pairs' = [u \in Vms |-> IF u = v THEN entry ELSE NoPair] /\ reported' = {}
       ELSE pairs' = [pairs EXCEPT ![v] = entry] /\ reported' = reported
  /\ hub' = Idle
  /\ UNCHANGED domains

(* Mutant: last_sync is the time of the save. *)
SaveProtectedMut(v) == SavePair(v, [status |-> "protected", synced |-> written[v]])

SaveProtected(v) == SavePair(v, [status |-> "protected", synced |-> hub.seen])

SaveFails(v) ==
  /\ \E call \in {"save", "promote", "forget"} : At(v, call)
  /\ "save" \in Faults
  /\ Raise

(* _vm_state_virsh: a domstate that fails reads as "not-found". *)
Sees(state) == {state} \cup (IF "domstate" \in Faults THEN {"not-found"} ELSE {})

Blind(state) == IF state = "not-found" THEN {"blind"} ELSE {}

(* trigger_failover: shutdown, at most thirty seconds of waiting, destroy, *)
(* whose result nobody looks at.  Only a running primary is stopped.       *)
TriggerFailover(v) ==
  /\ pairs[v] # NoPair
  /\ \E state \in Sees(primary[v]) :
       Begin(v, IF state = "running" THEN "stop" ELSE "start", Blind(state))

ShutDown(v) ==
  /\ At(v, "stop")
  /\ Step("wait")
  /\ UNCHANGED <<pairs, reported, domains>>

SeesStopped(v) ==
  /\ At(v, "wait")
  /\ \E state \in Sees(primary[v]) \ {"running"} :
       hub' = [hub EXCEPT !.at = "start", !.notes = Blind(state)]
  /\ UNCHANGED <<pairs, reported, domains>>

(* Mutant: the loop ends without the destroy. *)
DestroyPrimaryMut(v) ==
  /\ At(v, "wait")
  /\ Step("start")
  /\ UNCHANGED <<pairs, reported, domains>>

DestroyPrimary(v) ==
  /\ At(v, "wait")
  /\ \/ primary' = [primary EXCEPT ![v] = "off"] /\ Step("start")
     \/ /\ "destroy" \in Faults /\ primary' = primary
        /\ hub' = [hub EXCEPT !.at = "start", !.notes = {"blind"}]
  /\ UNCHANGED <<pairs, written, defined, running, disk, reported, misled>>

StartSecondary(v) ==
  /\ At(v, "start") /\ v \in defined \ running
  /\ running' = running \cup {v}
  /\ misled' = IF "blind" \in hub.notes THEN misled \cup {v} ELSE misled
  /\ Step("promote")
  /\ UNCHANGED <<pairs, primary, written, defined, disk, reported>>

StartFails(v) ==
  /\ At(v, "start")
  /\ v \notin defined \/ v \in running \/ "start" \in Faults
  /\ Raise

(* Mutant: the entry is replaced by what changes in it. *)
SaveFailoverMut(v) ==
  /\ At(v, "promote")
  /\ pairs' = [pairs EXCEPT ![v] = [status |-> "failover"]]
  /\ reported' = reported \cup {v}
  /\ hub' = Idle
  /\ UNCHANGED domains

SaveFailover(v) ==
  /\ At(v, "promote")
  /\ pairs' = [pairs EXCEPT ![v].status = "failover"]
  /\ reported' = reported \cup {v}
  /\ hub' = Idle
  /\ UNCHANGED domains

(* remove_ft: the domain state is read once, before the destroy. *)
RemoveFt(v) ==
  /\ pairs[v] # NoPair
  /\ \E state \in Sees(IF v \in running THEN "running"
                       ELSE IF v \in defined THEN "shut off" ELSE "not-found") :
       Begin(v, CASE state = "running"   -> "destroy"
                  [] state = "shut off"  -> "undefine"
                  [] state = "not-found" -> "forget", {})

DestroySecondary(v) ==
  /\ At(v, "destroy")
  /\ \/ running' = running \ {v} /\ misled' = misled \ {v}
     \/ "destroy" \in Faults /\ UNCHANGED <<running, misled>>
  /\ Step("undefine")
  /\ UNCHANGED <<pairs, primary, written, defined, disk, reported>>

(* --remove-all-storage, which a running domain refuses; then without.     *)
Undefine(v) ==
  /\ At(v, "undefine")
  /\ \/ /\ v \notin running
        /\ defined' = defined \ {v}
        /\ disk' = [disk EXCEPT ![v] = NoDisk]
     \/ /\ v \in running \/ "undefine" \in Faults
        /\ defined' \in {defined \ {v}}
                          \cup (IF "undefine" \in Faults THEN {defined} ELSE {})
        /\ disk' = disk
  /\ Step("forget")
  /\ UNCHANGED <<pairs, primary, written, running, reported, misled>>

Forget(v) ==
  /\ At(v, "forget")
  /\ pairs' = [pairs EXCEPT ![v] = NoPair]
  /\ reported' = reported \ {v}
  /\ hub' = Idle
  /\ UNCHANGED domains

(* The process is killed, with the command it was running. *)
Crash == hub.at # "idle" /\ Raise

-----------------------------------------------------------------------------
Environment(v) ==
  \/ PrimaryWrites(v) \/ SecondaryWrites(v)
  \/ \E state \in {"off", "running", "paused"} : Power(v, state)
  \/ StartByHand(v) \/ SecondaryStops(v)

Handler(v) ==
  \/ CreatePair(v) \/ SyncCheckpoint(v) \/ TriggerFailover(v) \/ RemoveFt(v)
  \/ CopyRefused(v) \/ BeginCopy(v) \/ CopyFails(v) \/ EndCopy(v)
  \/ DefineSecondary(v) \/ DefineFails(v) \/ Stamp(v)
  \/ SaveProtected(v) \/ SaveFails(v)
  \/ ShutDown(v) \/ SeesStopped(v) \/ DestroyPrimary(v)
  \/ StartSecondary(v) \/ StartFails(v) \/ SaveFailover(v)
  \/ DestroySecondary(v) \/ Undefine(v) \/ Forget(v)

Next == Crash \/ \E v \in Vms : Environment(v) \/ Handler(v)

Spec == Init /\ [][Next]_vars

-----------------------------------------------------------------------------
(* get_ft_status computes the lag from last_sync.  However synchronisation *)
(* fails or is killed, a complete copy holds every write the primary had   *)
(* made by last_sync, and so does the disk that a secondary has taken over *)
(* with and writes, as long as nobody starts the primary between the end   *)
(* of the copy and the time that is taken for it.                          *)
CopyAsNewAsReported ==
  \A v \in Vms : (pairs[v] # NoPair /\ disk[v] \in Copy)
                   => pairs[v].synced <= disk[v].holds

(* Once trigger_failover has answered, nobody but the secondary writes its *)
(* disk until the pair is removed: no synchronisation under way and no     *)
(* later one puts the primary's old disk over it.  Only a new pair whose   *)
(* handler could not read the file does.                                   *)
Unread(v) == "lost" \in hub.notes /\ hub.vm = v

PromotedKept ==
  [][\A v \in reported :
       \/ disk'[v] = disk[v]
       \/ v \in running /\ disk'[v] = [disk[v] EXCEPT !.own = TRUE]
       \/ At(v, "undefine")
       \/ Unread(v)]_vars

(* Secondary and primary do not run at once, with the shutdown that is not *)
(* answered, the kill in the middle and the failover that is repeated, if  *)
(* nobody starts a primary that is in hand and no domstate or destroy of   *)
(* the failover that started the secondary failed.                         *)
NeverBoth == \A v \in running \ misled : primary[v] # "running"

-----------------------------------------------------------------------------
(* The pairs implement Standby.  A secondary has taken over once the       *)
(* caller was told so, and until remove_ft is at work on it, or a create   *)
(* that could not read the file: killed in the middle, they leave the pair *)
(* as it was, with what is left of the disk.                               *)
Withdrawn(v) ==
  hub.vm = v /\ (hub.at \in {"destroy", "undefine", "forget"} \/ "lost" \in hub.notes)

Standby == INSTANCE Standby WITH
  made <- written,
  copy <- [v \in Vms |-> IF disk[v] \in Copy THEN disk[v].holds ELSE -1],
  promise <- [v \in Vms |-> IF pairs[v] = NoPair THEN -1 ELSE pairs[v].synced],
  takenOver <- {v \in reported : ~Withdrawn(v)}

(* Synchronising, failing over and removing, with failing commands and a   *)
(* kill anywhere, come to what Standby allows: last_sync promises what the *)
(* copy holds, no copy is made over the disk of a secondary that took      *)
(* over, and promises are lost only together, to a file that is not read.  *)
PairsAreStandbys == Standby!Spec
=============================================================================
