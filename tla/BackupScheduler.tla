-------------------------- MODULE BackupScheduler --------------------------
(***************************************************************************)
(* Scheduled VM backups, src/ankavm/backend/backup_scheduler.py.           *)
(*                                                                         *)
(* The schedules live in one JSON file.  The HTTP handlers create, update, *)
(* delete and trigger them; each loads and saves the file under the lock,  *)
(* so each is one step.  The scheduler thread looks for due schedules      *)
(* every 30 seconds: it loads the file, lets go of the lock, and for every *)
(* due schedule reloads and saves the file and then starts a backup thread *)
(* with the copy it loaded first.  A backup thread names a snapshot, has   *)
(* libvirt create it, lists the snapshots, and deletes the old ones one by *)
(* one.                                                                    *)
(*                                                                         *)
(* Time is a clock that ticks; a snapshot is named after a tick.  A cron   *)
(* expression is a period: its next run is the first multiple after now.   *)
(* All schedules are of one VM, whose snapshots they share.  last_run,     *)
(* which is only shown, uploads and the history file are left out.         *)
(***************************************************************************)
EXTENDS Integers, FiniteSets

CONSTANTS
  Ids,         \* schedule ids (uuids: never used twice)
  Periods,     \* the cron expressions, as periods
  Retentions,  \* the values of retention_count
  Floor,       \* a lower bound of the positive retentions
  Threads,     \* how many backup threads run at once (bound)
  MaxTime,     \* the last tick (bound)
  MaxCrashes,  \* how often the process is restarted (bound)
  Updates,     \* does anybody call update_schedule?
  Faults,      \* what can fail: of "load", "save", "virsh", "thread"
  None, NoThread

Times == 0 .. MaxTime

(* Mutant: croniter is missing, and nothing replaces it. *)
NextRunMut(period, t) == None

(* The first run after a tick, which can lie beyond the last tick (without *)
(* croniter, or with an expression it rejects, next_run is null and the    *)
(* schedule is never due: such schedules are left out.)                    *)
NextRun(period, t) == ((t \div period) + 1) * period

Schedule == [period : Periods, retention : Retentions, enabled : BOOLEAN, next_run : Nat]

Run == [at : {"snap", "create", "list", "prune"}, retention : Retentions,
        name : Times, gone : SUBSET Times]

ASSUME BackupConstants ==
  /\ Periods \subseteq Nat \ {0}
  /\ Floor \in Nat \ {0}
  /\ Retentions \subseteq Nat
  /\ \A r \in Retentions : r = 0 \/ r >= Floor
  /\ MaxTime \in Nat /\ MaxCrashes \in Nat
  /\ Updates \in BOOLEAN
  /\ None \notin Schedule /\ NoThread \notin Run

VARIABLES
  file,         \* the schedules on disk
  born,         \* the ids that were handed out
  covered,      \* the latest due time whose run was recorded in the file (only
                \* for the properties; -1 at first)
  now,          \* the clock
  loop,         \* the scheduler thread: its copy of the file, what is left of
                \* it, and the schedule whose backup it is about to start
  backups,      \* the backup threads
  snaps,        \* the snapshots of the VM, by the tick in their name
  lateCreates,  \* what libvirt was asked to create, by nobody who still waits
  lateDeletes,  \* and to delete
  crashes       \* how often the process was restarted

schedules == <<file, born, covered>>
libvirt == <<snaps, lateCreates, lateDeletes>>
vars == <<schedules, now, loop, backups, libvirt, crashes>>

Empty == [i \in Ids |-> None]

Asleep == [at |-> "sleep", data |-> Empty, todo |-> {}, firing |-> None]

TypeOK ==
  /\ file \in [Ids -> Schedule \cup {None}]
  /\ born \subseteq Ids
  /\ covered \in [Ids -> Int]
  /\ now \in Times
  /\ loop \in [at : {"sleep", "scan", "start"}, data : [Ids -> Schedule \cup {None}],
               todo : SUBSET Ids, firing : Ids \cup {None}]
  /\ backups \in [Threads -> Run \cup {NoThread}]
  /\ snaps \subseteq Times /\ lateCreates \subseteq Times /\ lateDeletes \subseteq Times
  /\ crashes \in 0 .. MaxCrashes

-----------------------------------------------------------------------------
(* The handlers. *)

(* _load answers an empty dictionary when it cannot read the file. *)
Loaded == {file} \cup (IF "load" \in Faults THEN {Empty} ELSE {})

(* _save replaces the file, or logs the error and returns. *)
Save(new) == file' = new \/ ("save" \in Faults /\ UNCHANGED file)

(* After a load that failed the file holds the new schedule and no other. *)
CreateSchedule(i, p, r) ==
  /\ i \notin born
  /\ born' = born \cup {i}
  /\ \E data \in Loaded :
       Save([data EXCEPT ![i] = [period |-> p, retention |-> r, enabled |-> TRUE,
                                 next_run |-> NextRun(p, now)]])
  /\ UNCHANGED <<covered, now, loop, backups, libvirt, crashes>>

(* With a new cron_expr, which brings a new next_run.  (After a load that  *)
(* failed, this handler and the next ones find no schedule and return.)    *)
UpdateCron(i) ==
  /\ Updates /\ file[i] # None
  /\ \E p \in Periods :
       Save([file EXCEPT ![i].period = p, ![i].next_run = NextRun(p, now)])
  /\ UNCHANGED <<born, covered, now, loop, backups, libvirt, crashes>>

(* With other fields. *)
UpdateFields(i) ==
  /\ Updates /\ file[i] # None
  /\ \E enabled \in BOOLEAN, r \in Retentions :
       Save([file EXCEPT ![i].enabled = enabled, ![i].retention = r])
  /\ UNCHANGED <<born, covered, now, loop, backups, libvirt, crashes>>

DeleteSchedule(i) ==
  /\ file[i] # None
  /\ Save([file EXCEPT ![i] = None])
  /\ UNCHANGED <<born, covered, now, loop, backups, libvirt, crashes>>

StartBackup(r) ==
  \E t \in Threads :
    /\ backups[t] = NoThread
    /\ backups' = [backups EXCEPT ![t] =
         [at |-> "snap", retention |-> r, name |-> 0, gone |-> {}]]

TriggerNow(i) ==
  /\ file[i] # None
  /\ StartBackup(file[i].retention)
  /\ UNCHANGED <<schedules, now, loop, libvirt, crashes>>

-----------------------------------------------------------------------------
(* The scheduler thread: check_due. *)

Due(s, t) == s # None /\ s.enabled /\ s.next_run <= t

Scan ==
  /\ loop.at = "sleep"
  /\ \E data \in Loaded :
       loop' = [at |-> "scan", data |-> data, firing |-> None,
                todo |-> {i \in Ids : Due(data[i], now)}]
  /\ UNCHANGED <<schedules, now, backups, libvirt, crashes>>

(* Mutant: the copy loaded at the start of the scan is written back. *)
FireMut(i) ==
  /\ loop.at = "scan" /\ i \in loop.todo
  /\ LET s == loop.data[i]
     IN  \/ /\ file' = [loop.data EXCEPT ![i].next_run = NextRun(s.period, now)]
            /\ covered' = [covered EXCEPT ![i] = s.next_run]
         \/ "save" \in Faults /\ UNCHANGED <<file, covered>>
  /\ loop' = [loop EXCEPT !.at = "start", !.todo = @ \ {i}, !.firing = i]
  /\ UNCHANGED <<born, now, backups, libvirt, crashes>>

(* Mutant: next_run is left for the end of the backup. *)
FireLateMut(i) ==
  /\ loop.at = "scan" /\ i \in loop.todo
  /\ covered' = [covered EXCEPT ![i] = loop.data[i].next_run]
  /\ loop' = [loop EXCEPT !.at = "start", !.todo = @ \ {i}, !.firing = i]
  /\ UNCHANGED <<file, born, now, backups, libvirt, crashes>>

(* A due schedule: its next run is saved first, into a fresh copy of the   *)
(* file if it is in there.                                                 *)
Fire(i) ==
  /\ loop.at = "scan" /\ i \in loop.todo
  /\ LET s == loop.data[i]
     IN  \/ \E fresh \in Loaded :
              /\ fresh[i] # None
              /\ file' = [fresh EXCEPT ![i].next_run = NextRun(s.period, now)]
              /\ covered' = [covered EXCEPT ![i] = s.next_run]
         \/ /\ "save" \in Faults \/ \E fresh \in Loaded : fresh[i] = None
            /\ UNCHANGED <<file, covered>>
  /\ loop' = [loop EXCEPT !.at = "start", !.todo = @ \ {i}, !.firing = i]
  /\ UNCHANGED <<born, now, backups, libvirt, crashes>>

(* Then the backup starts, with the old copy, still in the file or not.    *)
Launch ==
  /\ loop.at = "start"
  /\ StartBackup(loop.data[loop.firing].retention)
  /\ loop' = [loop EXCEPT !.at = "scan", !.firing = None]
  /\ UNCHANGED <<schedules, now, libvirt, crashes>>

(* A thread that cannot be started ends the scan. *)
LaunchFails ==
  /\ loop.at = "start" /\ "thread" \in Faults
  /\ loop' = Asleep
  /\ UNCHANGED <<schedules, now, backups, libvirt, crashes>>

Sleep ==
  /\ loop.at = "scan" /\ loop.todo = {}
  /\ loop' = Asleep
  /\ UNCHANGED <<schedules, now, backups, libvirt, crashes>>

-----------------------------------------------------------------------------
(* A backup thread: _run_backup. *)

Newer(S, s) == {x \in S : x > s}

(* Mutant: an off-by-one in the slice of the old snapshots. *)
OldMut(S, r) == {s \in S : Cardinality(Newer(S, s)) >= r - 1}

(* Mutant: the slice leaves one old snapshot too many. *)
OldLazyMut(S, r) == {s \in S : Cardinality(Newer(S, s)) > r}

(* oxw_snaps[:-retention] of the sorted names; [:-0] is empty. *)
Old(S, r) == IF r = 0 THEN {} ELSE {s \in S : Cardinality(Newer(S, s)) >= r}

End(t) == backups' = [backups EXCEPT ![t] = NoThread]

At(t, step) == backups[t] # NoThread /\ backups[t].at = step

NameSnapshot(t) ==
  /\ At(t, "snap")
  /\ backups' = [backups EXCEPT ![t].at = "create", ![t].name = now]
  /\ UNCHANGED <<schedules, now, loop, libvirt, crashes>>

(* A name that is taken fails, and a failure ends the backup before any    *)
(* pruning.  After a timeout libvirt may still create the snapshot.        *)
CreateSnapshot(t) ==
  /\ At(t, "create")
  /\ LET name == backups[t].name
     IN  \/ /\ name \notin snaps
            /\ snaps' = snaps \cup {name}
            /\ backups' = [backups EXCEPT ![t].at = "list", ![t].name = 0]
            /\ UNCHANGED lateCreates
         \/ /\ name \in snaps
            /\ End(t) /\ UNCHANGED <<snaps, lateCreates>>
         \/ /\ "virsh" \in Faults
            /\ lateCreates' = lateCreates \cup {name}
            /\ End(t) /\ UNCHANGED snaps
  /\ UNCHANGED <<schedules, now, loop, lateDeletes, crashes>>

ListSnapshots(t) ==
  /\ At(t, "list")
  /\ \/ backups' = [backups EXCEPT ![t].at = "prune",
                                   ![t].gone = Old(snaps, backups[t].retention)]
     \/ "virsh" \in Faults /\ End(t)
  /\ UNCHANGED <<schedules, now, loop, libvirt, crashes>>

(* The oldest goes first. *)
Oldest(S) == {s \in S : \A x \in S : s <= x}

(* A snapshot-delete that fails is not noticed. *)
Prune(t) ==
  /\ At(t, "prune")
  /\ \E s \in Oldest(backups[t].gone) :
       /\ \/ snaps' = snaps \ {s}
          \/ "virsh" \in Faults /\ UNCHANGED snaps
       /\ backups' = [backups EXCEPT ![t].gone = @ \ {s}]
  /\ UNCHANGED <<schedules, now, loop, lateCreates, lateDeletes, crashes>>

(* One that runs into its timeout ends the pruning; libvirt may go on. *)
Finish(t) ==
  /\ At(t, "prune")
  /\ backups[t].gone = {} \/ "virsh" \in Faults
  /\ lateDeletes' = lateDeletes \cup Oldest(backups[t].gone)
  /\ End(t)
  /\ UNCHANGED <<schedules, now, loop, snaps, lateCreates, crashes>>

LateCreate ==
  /\ \E s \in lateCreates :
       snaps' = snaps \cup {s} /\ lateCreates' = lateCreates \ {s}
  /\ UNCHANGED <<schedules, now, loop, backups, lateDeletes, crashes>>

LateDelete ==
  /\ \E s \in lateDeletes :
       snaps' = snaps \ {s} /\ lateDeletes' = lateDeletes \ {s}
  /\ UNCHANGED <<schedules, now, loop, backups, lateCreates, crashes>>

-----------------------------------------------------------------------------
Tick ==
  /\ now < MaxTime
  /\ now' = now + 1
  /\ UNCHANGED <<schedules, loop, backups, libvirt, crashes>>

(* The process is killed and started again, and start_scheduler with it;   *)
(* libvirt may still do what the backup threads asked of it.               *)
Crash ==
  /\ crashes < MaxCrashes
  /\ crashes' = crashes + 1
  /\ loop' = Asleep
  /\ backups' = [t \in Threads |-> NoThread]
  /\ lateCreates' = lateCreates \cup {backups[t].name : t \in {u \in Threads : At(u, "create")}}
  /\ lateDeletes' = lateDeletes \cup
       UNION {Oldest(backups[t].gone) : t \in {u \in Threads : At(u, "prune")}}
  /\ UNCHANGED <<schedules, now, snaps>>

Init ==
  /\ file = Empty
  /\ born = {}
  /\ covered = [i \in Ids |-> -1]
  /\ now = 0
  /\ loop = Asleep
  /\ backups = [t \in Threads |-> NoThread]
  /\ snaps = {} /\ lateCreates = {} /\ lateDeletes = {}
  /\ crashes = 0

Handler ==
  \E i \in Ids :
    \/ \E p \in Periods, r \in Retentions : CreateSchedule(i, p, r)
    \/ UpdateCron(i) \/ UpdateFields(i) \/ DeleteSchedule(i) \/ TriggerNow(i)

Scheduler == Scan \/ (\E i \in Ids : Fire(i)) \/ Launch \/ LaunchFails \/ Sleep

Backup(t) ==
  NameSnapshot(t) \/ CreateSnapshot(t) \/ ListSnapshots(t) \/ Prune(t) \/ Finish(t)

Next ==
  \/ Handler \/ Scheduler
  \/ \E t \in Threads : Backup(t)
  \/ LateCreate \/ LateDelete
  \/ Tick \/ Crash

Spec == Init /\ [][Next]_vars

(* The operating system runs the scheduler thread and the backup threads;  *)
(* every virsh call has a timeout.  The bound on threads is the model's,   *)
(* so a free slot that comes back again and again is as good as a free one *)
(* (strong fairness of the scheduler).  A load or a save that is tried     *)
(* again and again succeeds in the end: while the file cannot be read or   *)
(* written nothing is served.                                              *)
FairSpec ==
  /\ Spec
  /\ SF_vars(Scheduler)
  /\ SF_vars(Scan /\ loop'.data = file)
  /\ \A i \in Ids : SF_vars(Fire(i) /\ file' # file)
  /\ \A t \in Threads : WF_vars(Backup(t))

-----------------------------------------------------------------------------
(* Properties. *)

(* Threads that prune the same VM from different listings, with different  *)
(* retentions, still implement one retention window: no deletion, not even *)
(* one that libvirt finishes long after its thread gave up, leaves fewer   *)
(* than Floor snapshots with later names, though names are not created in  *)
(* their order.                                                            *)
Window == INSTANCE SnapshotWindow WITH Moments <- Times, kept <- snaps

RetentionIsAWindow == Window!Spec

(* When no backup is running no more snapshots are left than the largest   *)
(* retention allows, however the creations, listings and deletions of the  *)
(* threads interleaved.                                                    *)
NothingLeftOver ==
  (\A t \in Threads : backups[t] = NoThread) /\ Retentions \cap {0} = {}
    => \E r \in Retentions : Cardinality(snaps) <= r

(* Only create_schedule and delete_schedule change which schedules exist:  *)
(* the scheduler thread, which works on an old copy, neither brings back a *)
(* deleted schedule nor drops one that was created meanwhile.  A creation  *)
(* that could not load the file drops the others.                          *)
MembershipByHandlers ==
  [][\A i \in Ids :
       /\ file[i] = None /\ file'[i] # None => i \notin born
       /\ file[i] # None /\ file'[i] = None =>
            \/ DeleteSchedule(i)
            \/ "load" \in Faults /\ born' # born]_vars

(* A due time that the file says was served is not served again: not by a  *)
(* scan that began before a handler changed the schedule, not by one after *)
(* a restart.  (When the save of next_run fails, or the load before it,    *)
(* the next scan starts the same backup again.)                            *)
OncePerDueTime ==
  [][\A i \in Ids : Fire(i) => covered[i] < loop.data[i].next_run]_vars

(* A due schedule is taken up and the scheduler gets past it, or it is     *)
(* changed or deleted first: a restart in the middle of a scan or a busy   *)
(* VM only delays it.  (A restart, or a thread that cannot start, between  *)
(* the save of next_run and the start of the backup loses that one run.)   *)
DueIsServed ==
  \A i \in Ids : Due(file[i], now) ~> ~Due(file[i], now) /\ loop.firing # i
=============================================================================
