----------------------- MODULE BackupScheduler_proofs -----------------------
(***************************************************************************)
(* Proofs about BackupScheduler: type correctness, that the backup threads *)
(* together implement a retention window and leave no more than it, and    *)
(* that the scheduler's old copy does no harm, for every number of         *)
(* schedules and threads, every set of retentions and every clock.         *)
(***************************************************************************)
EXTENDS BackupScheduler, FiniteSetTheorems, WellFoundedInduction, TLAPS

(* The names somebody is about to delete: a thread that listed them, or    *)
(* libvirt for a thread that is gone.                                      *)
Doomed ==
  {s \in Times : \/ s \in lateDeletes
                 \/ \E t \in Threads : backups[t] # NoThread /\ s \in backups[t].gone}

(* They have Floor later names, now and not just when they were listed.    *)
Condemned == \A s \in Doomed : Cardinality(Newer(snaps, s)) >= Floor

(* What is left of a scan, and what is about to start, was there when the  *)
(* scan began.                                                             *)
TodoKnown ==
  /\ \A i \in loop.todo : loop.data[i] # None
  /\ loop.at = "start" => loop.firing \in Ids /\ loop.data[loop.firing] # None

Inv == TypeOK /\ TodoKnown /\ Condemned

-----------------------------------------------------------------------------
(* A next run is a number. *)
LEMMA NextRunType ==
  ASSUME NEW p \in Nat \ {0}, NEW t \in Nat
  PROVE  NextRun(p, t) \in Nat
<1>1. t \div p \in Nat
  BY SMT
<1>2. \A a, b \in Nat : a * b \in Nat
  BY SMT
<1> QED BY <1>1, <1>2 DEF NextRun

LEMMA TimesFinite ==
  Times \subseteq Nat /\ IsFiniteSet(Times)
BY BackupConstants, FS_Interval DEF BackupConstants, Times

(* The newer elements of a larger set are at least as many. *)
LEMMA NewerMonotone ==
  ASSUME NEW S \in SUBSET Times, NEW T \in SUBSET Times, NEW s \in Times, NEW u \in Times,
         Newer(S, s) \subseteq Newer(T, u)
  PROVE  /\ Cardinality(Newer(S, s)) \in Nat
         /\ Cardinality(Newer(T, u)) \in Nat
         /\ Cardinality(Newer(S, s)) <= Cardinality(Newer(T, u))
<1>1. IsFiniteSet(Newer(T, u)) /\ IsFiniteSet(Newer(S, s))
  <2>1. Newer(T, u) \subseteq Times /\ Newer(S, s) \subseteq Times
    BY DEF Newer
  <2> QED BY <2>1, TimesFinite, FS_Subset
<1> QED BY <1>1, FS_Subset, FS_CardinalityType

LEMMA LoadedType == TypeOK => Loaded \subseteq [Ids -> Schedule \cup {None}]
BY DEF TypeOK, Loaded, Empty

LEMMA TypeStep == TypeOK /\ TodoKnown /\ [Next]_vars => TypeOK' /\ TodoKnown'
<1> SUFFICES ASSUME TypeOK, TodoKnown, [Next]_vars PROVE TypeOK' /\ TodoKnown'
  OBVIOUS
<1> USE BackupConstants, TimesFinite DEF TypeOK, schedules, libvirt
<1>0. Periods \subseteq Nat \ {0} /\ now \in Nat /\ 0 \in Times
  BY DEF BackupConstants, Times
<1>1. \A p \in Periods : NextRun(p, now) \in Nat
  BY <1>0, NextRunType
<1>2. ASSUME NEW r \in Retentions, StartBackup(r)
      PROVE  backups' \in [Threads -> Run \cup {NoThread}]
  <2>1. [at |-> "snap", retention |-> r, name |-> 0, gone |-> {}] \in Run
    BY <1>0 DEF Run
  <2> QED BY <1>2, <2>1 DEF StartBackup
<1>3. ASSUME NEW i \in Ids, NEW p \in Periods, NEW r \in Retentions, CreateSchedule(i, p, r)
      PROVE  TypeOK' /\ TodoKnown'
  <2>1. [period |-> p, retention |-> r, enabled |-> TRUE, next_run |-> NextRun(p, now)]
          \in Schedule
    BY <1>1 DEF Schedule
  <2>2. file' \in [Ids -> Schedule \cup {None}]
    <3> DEFINE new == [period |-> p, retention |-> r, enabled |-> TRUE,
                       next_run |-> NextRun(p, now)]
    <3>1. PICK data \in Loaded : Save([data EXCEPT ![i] = new])
      BY <1>3 DEF CreateSchedule
    <3> HIDE DEF new
    <3>2. data \in [Ids -> Schedule \cup {None}]
      BY LoadedType
    <3>3. new \in Schedule
      BY <2>1 DEF new
    <3> QED BY <3>1, <3>2, <3>3 DEF Save
  <2> QED BY <1>3, <2>2 DEF CreateSchedule, TodoKnown
<1>4. ASSUME NEW i \in Ids, UpdateCron(i) PROVE TypeOK' /\ TodoKnown'
  <2>1. PICK p \in Periods :
          Save([file EXCEPT ![i].period = p, ![i].next_run = NextRun(p, now)])
    BY <1>4 DEF UpdateCron
  <2>2. [file[i] EXCEPT !.period = p, !.next_run = NextRun(p, now)] \in Schedule
    BY <1>4, <1>1 DEF UpdateCron, Schedule
  <2>3. [file EXCEPT ![i].period = p, ![i].next_run = NextRun(p, now)]
          = [file EXCEPT ![i] = [file[i] EXCEPT !.period = p, !.next_run = NextRun(p, now)]]
    BY <1>4 DEF UpdateCron, Schedule
  <2> QED BY <1>4, <2>1, <2>2, <2>3 DEF UpdateCron, Save, TodoKnown
<1>5. ASSUME NEW i \in Ids, UpdateFields(i) PROVE TypeOK' /\ TodoKnown'
  <2>1. file[i] \in Schedule
    BY <1>5 DEF UpdateFields
  <2>2. PICK enabled \in BOOLEAN, r \in Retentions :
          Save([file EXCEPT ![i].enabled = enabled, ![i].retention = r])
    BY <1>5 DEF UpdateFields
  <2>3. [[file[i] EXCEPT !.enabled = enabled] EXCEPT !.retention = r] \in Schedule
    BY <2>1 DEF Schedule
  <2>4. [file EXCEPT ![i].enabled = enabled, ![i].retention = r]
          = [file EXCEPT ![i] = [[file[i] EXCEPT !.enabled = enabled] EXCEPT !.retention = r]]
    BY <2>1 DEF Schedule
  <2> QED BY <1>5, <2>2, <2>3, <2>4 DEF UpdateFields, Save, TodoKnown
<1>6. ASSUME NEW i \in Ids, DeleteSchedule(i) PROVE TypeOK' /\ TodoKnown'
  BY <1>6 DEF DeleteSchedule, Save, TodoKnown
<1>7. ASSUME NEW i \in Ids, TriggerNow(i) PROVE TypeOK' /\ TodoKnown'
  <2>1. file[i].retention \in Retentions
    BY <1>7 DEF TriggerNow, Schedule
  <2> QED BY <1>7, <2>1, <1>2 DEF TriggerNow, TodoKnown
<1>8. ASSUME Scan PROVE TypeOK' /\ TodoKnown'
  <2>1. PICK data \in Loaded :
          loop' = [at |-> "scan", data |-> data, firing |-> None,
                   todo |-> {i \in Ids : Due(data[i], now)}]
    BY <1>8 DEF Scan
  <2>2. data \in [Ids -> Schedule \cup {None}]
    BY LoadedType
  <2> QED BY <1>8, <2>1, <2>2 DEF Scan, Due, TodoKnown
<1>9. ASSUME NEW i \in Ids, Fire(i) PROVE TypeOK' /\ TodoKnown'
  <2>0. loop.data[i] \in Schedule
    BY <1>9 DEF Fire, TodoKnown
  <2> DEFINE s == loop.data[i]
  <2>1. s.period \in Periods /\ s.next_run \in Nat
    BY <2>0 DEF Schedule
  <2>3. NextRun(s.period, now) \in Nat
    BY <1>1, <2>1
  <2> HIDE DEF s
  <2>2. /\ file' \in [Ids -> Schedule \cup {None}]
        /\ covered' \in [Ids -> Int]
    <3>1. CASE UNCHANGED <<file, covered>>
      BY <3>1
    <3>2. ASSUME NEW fresh \in Loaded, fresh[i] # None,
                 file' = [fresh EXCEPT ![i].next_run = NextRun(s.period, now)],
                 covered' = [covered EXCEPT ![i] = s.next_run]
          PROVE  /\ file' \in [Ids -> Schedule \cup {None}]
                 /\ covered' \in [Ids -> Int]
      <4>1. fresh \in [Ids -> Schedule \cup {None}]
        BY LoadedType
      <4>2. [fresh[i] EXCEPT !.next_run = NextRun(s.period, now)] \in Schedule
        BY <3>2, <4>1, <2>3 DEF Schedule
      <4> QED BY <3>2, <4>1, <4>2, <2>1
    <3> QED BY <1>9, <3>1, <3>2 DEF Fire, s
  <2> QED BY <1>9, <2>0, <2>2 DEF Fire, TodoKnown
<1>10. ASSUME Launch PROVE TypeOK' /\ TodoKnown'
  <2>1. loop.data[loop.firing] \in Schedule
    BY <1>10 DEF Launch, TodoKnown
  <2>2. loop.data[loop.firing].retention \in Retentions
    BY <2>1 DEF Schedule
  <2>3. backups' \in [Threads -> Run \cup {NoThread}]
    BY <1>10, <2>2, <1>2 DEF Launch
  <2> QED BY <1>10, <2>3 DEF Launch, TodoKnown
<1>11. ASSUME Sleep \/ LaunchFails PROVE TypeOK' /\ TodoKnown'
  <2>1. Asleep \in [at : {"sleep", "scan", "start"}, data : [Ids -> Schedule \cup {None}],
                    todo : SUBSET Ids, firing : Ids \cup {None}]
    BY DEF Asleep, Empty
  <2>2. loop' = Asleep => TodoKnown'
    BY DEF Asleep, TodoKnown
  <2> QED BY <1>11, <2>1, <2>2 DEF Sleep, LaunchFails
<1>12. ASSUME NEW t \in Threads, Backup(t) PROVE TypeOK' /\ TodoKnown'
  <2>0. \A S : Oldest(S) \subseteq S
    BY DEF Oldest
  <2>1. CASE NameSnapshot(t)
    <3>1. [backups[t] EXCEPT !.at = "create", !.name = now] \in Run
      BY <2>1 DEF NameSnapshot, At, Run
    <3> QED BY <2>1, <3>1 DEF NameSnapshot, TodoKnown
  <2>2. CASE CreateSnapshot(t)
    <3>1. backups[t] \in Run
      BY <2>2 DEF CreateSnapshot, At
    <3>2. backups[t].name \in Times
      BY <3>1 DEF Run
    <3>3. [backups[t] EXCEPT !.at = "list", !.name = 0] \in Run
      BY <1>0, <3>1 DEF Run
    <3>4. backups' \in [Threads -> Run \cup {NoThread}]
      BY <2>2, <3>3 DEF CreateSnapshot, End
    <3> QED BY <2>2, <3>2, <3>4 DEF CreateSnapshot, TodoKnown
  <2>3. CASE ListSnapshots(t)
    <3>1. Old(snaps, backups[t].retention) \subseteq Times
      BY DEF Old
    <3> QED BY <2>3, <3>1 DEF ListSnapshots, At, End, TodoKnown, Run
  <2>4. CASE Prune(t)
    BY <2>0, <2>4 DEF Prune, At, TodoKnown, Run
  <2>5. CASE Finish(t)
    <3>1. backups[t] \in Run
      BY <2>5 DEF Finish, At
    <3>2. Oldest(backups[t].gone) \subseteq Times
      BY <2>0, <3>1 DEF Run
    <3> QED BY <2>5, <3>2 DEF Finish, End, TodoKnown
  <2> QED BY <1>12, <2>1, <2>2, <2>3, <2>4, <2>5 DEF Backup
<1>13. ASSUME LateCreate \/ LateDelete PROVE TypeOK' /\ TodoKnown'
  BY <1>13 DEF LateCreate, LateDelete, TodoKnown
<1>14. ASSUME Tick PROVE TypeOK' /\ TodoKnown'
  BY <1>14 DEF Tick, Times, TodoKnown, BackupConstants
<1>15. ASSUME Crash PROVE TypeOK' /\ TodoKnown'
  <2>1. \A t \in Threads : backups[t] # NoThread =>
          backups[t].name \in Times /\ Oldest(backups[t].gone) \subseteq Times
    BY DEF Run, Oldest
  <2>2. lateCreates' \subseteq Times
    BY <1>15, <2>1 DEF Crash, At
  <2>3. lateDeletes' \subseteq Times
    <3>1. SUFFICES ASSUME NEW s \in lateDeletes', s \notin lateDeletes PROVE s \in Times
      OBVIOUS
    <3>2. PICK t \in {u \in Threads : At(u, "prune")} : s \in Oldest(backups[t].gone)
      BY <1>15, <3>1 DEF Crash
    <3> QED BY <2>1, <3>2 DEF At
  <2>4. crashes' \in 0 .. MaxCrashes
    BY <1>15 DEF Crash, BackupConstants
  <2> QED BY <1>15, <2>2, <2>3, <2>4 DEF Crash, Asleep, Empty, TodoKnown
<1>16. ASSUME UNCHANGED vars PROVE TypeOK' /\ TodoKnown'
  BY <1>16 DEF vars, TodoKnown
<1> QED
  <2>1. CASE Handler
    BY <2>1, <1>3, <1>4, <1>5, <1>6, <1>7 DEF Handler
  <2>2. CASE Scheduler
    BY <2>2, <1>8, <1>9, <1>10, <1>11 DEF Scheduler
  <2> QED BY <2>1, <2>2, <1>12, <1>13, <1>14, <1>15, <1>16 DEF Next

-----------------------------------------------------------------------------
(* Old lists only snapshots that Floor newer ones follow. *)
LEMMA OldHasNewer ==
  ASSUME NEW S \in SUBSET Times, NEW r \in Retentions, NEW s \in Old(S, r)
  PROVE  Cardinality(Newer(S, s)) >= Floor
<1>1. r # 0 /\ Cardinality(Newer(S, s)) >= r /\ s \in Times
  BY DEF Old
<1>2. r >= Floor /\ r \in Nat /\ Floor \in Nat
  BY <1>1, BackupConstants DEF BackupConstants
<1>3. Newer(S, s) \subseteq Newer(S, s)
  OBVIOUS
<1>4. Cardinality(Newer(S, s)) \in Nat
  BY <1>1, <1>3, NewerMonotone
<1> QED BY <1>1, <1>2, <1>4

(* A new snapshot, whatever its name, takes no later name from any.        *)
LEMMA Grown ==
  ASSUME Inv, TypeOK', Doomed' \subseteq Doomed, NEW n \in Times, snaps' = snaps \cup {n}
  PROVE  Condemned' /\ [Window!Next]_snaps
<1> USE DEF Inv, TypeOK
<1>1. Condemned'
  <2>1. SUFFICES ASSUME NEW s \in Doomed PROVE Cardinality(Newer(snaps', s)) >= Floor
    BY DEF Condemned
  <2>2. s \in Times /\ snaps \in SUBSET Times /\ snaps' \in SUBSET Times
    BY DEF Doomed
  <2>3. Newer(snaps, s) \subseteq Newer(snaps', s)
    BY DEF Newer
  <2>4. /\ Cardinality(Newer(snaps, s)) \in Nat /\ Cardinality(Newer(snaps', s)) \in Nat
        /\ Cardinality(Newer(snaps, s)) <= Cardinality(Newer(snaps', s))
    BY <2>2, <2>3, NewerMonotone
  <2> QED BY <2>4, BackupConstants DEF Condemned, BackupConstants
<1>2. [Window!Next]_snaps
  BY DEF Window!Next, Window!Take
<1> QED BY <1>1, <1>2

(* What is deleted had Floor later names, and after it the others that are *)
(* condemned still have: those of the deleted one, or their own.           *)
LEMMA Shrunk ==
  ASSUME Inv, TypeOK', Doomed' \subseteq Doomed, NEW y \in Doomed,
         snaps' = snaps \/ snaps' = snaps \ {y}
  PROVE  Condemned' /\ [Window!Next]_snaps
<1> USE DEF Inv, TypeOK
<1>1. y \in Times /\ Times \subseteq Nat /\ Cardinality(Newer(snaps, y)) >= Floor
  BY TimesFinite DEF Doomed, Condemned
<1>2. Condemned'
  <2>1. SUFFICES ASSUME NEW s \in Doomed PROVE Cardinality(Newer(snaps', s)) >= Floor
    BY DEF Condemned
  <2>2. s \in Times /\ Cardinality(Newer(snaps, s)) >= Floor
    BY DEF Doomed, Condemned
  <2>3. CASE snaps' = snaps
    BY <2>2, <2>3
  <2>4. CASE snaps' = snaps \ {y} /\ y <= s
    <3>1. Newer(snaps', s) = Newer(snaps, s)
      <4>1. \A x \in snaps : x > s => x # y
        BY <2>4, <2>2, <1>1
      <4> QED BY <2>4, <4>1 DEF Newer
    <3> QED BY <3>1, <2>2
  <2>5. CASE snaps' = snaps \ {y} /\ s < y
    <3>1. Newer(snaps, y) \subseteq Newer(snaps', s)
      <4>1. SUFFICES ASSUME NEW x \in snaps, x > y PROVE x \in snaps' /\ x > s
        BY DEF Newer
      <4>2. x \in Nat /\ y \in Nat /\ s \in Nat
        BY <1>1, <2>2
      <4> QED BY <4>1, <4>2, <2>5
    <3>2. /\ Cardinality(Newer(snaps, y)) \in Nat /\ Cardinality(Newer(snaps', s)) \in Nat
          /\ Cardinality(Newer(snaps, y)) <= Cardinality(Newer(snaps', s))
      BY <3>1, <2>2, <1>1, NewerMonotone
    <3> QED BY <3>2, <1>1, BackupConstants DEF BackupConstants
  <2> QED BY <2>2, <2>3, <2>4, <2>5, <1>1
<1>3. [Window!Next]_snaps
  <2>1. CASE snaps' = snaps \ {y} /\ y \in snaps
    <3>1. Newer(snaps, y) = Window!Newer(snaps, y)
      BY DEF Newer, Window!Newer
    <3>2. Window!Cardinality(Window!Newer(snaps, y)) >= Floor
      BY <3>1, <1>1, Zenon DEF Window!Cardinality, Cardinality
    <3>3. \E s \in snaps : /\ Window!Cardinality(Window!Newer(snaps, s)) >= Floor
                          /\ snaps' = snaps \ {s}
      BY <2>1, <3>2, Zenon
    <3>4. Window!Drop
      BY <3>3 DEF Window!Drop
    <3> QED BY <3>4 DEF Window!Next
  <2> QED BY <2>1
<1> QED BY <1>2, <1>3

(* What leaves the snapshots alone dooms nothing, but for a listing.       *)
LEMMA Still ==
  ASSUME Inv, UNCHANGED snaps,
         \A s \in Doomed' : s \in Doomed \/ Cardinality(Newer(snaps, s)) >= Floor
  PROVE  Condemned' /\ [Window!Next]_snaps
BY DEF Inv, Condemned

(* A thread that starts has listed nothing.                                *)
LEMMA StartDoomsNone ==
  ASSUME NEW r \in Retentions, StartBackup(r), UNCHANGED libvirt
  PROVE  Doomed' \subseteq Doomed /\ UNCHANGED snaps
BY DEF StartBackup, Doomed, libvirt

LEMMA InitInv == Init => Inv
<1> SUFFICES ASSUME Init PROVE Inv
  OBVIOUS
<1>1. TypeOK /\ TodoKnown
  BY BackupConstants DEF Init, TypeOK, TodoKnown, Asleep, Empty, Times, BackupConstants
<1>2. Doomed = {}
  BY DEF Init, Doomed
<1> QED BY <1>1, <1>2 DEF Inv, Condemned

LEMMA BackupStep ==
  ASSUME Inv, TypeOK', NEW t \in Threads, Backup(t)
  PROVE  Condemned' /\ [Window!Next]_snaps
<1> USE DEF Inv, TypeOK, At
<1>0. /\ backups[t] \in Run /\ backups[t] # NoThread /\ t \in Threads
      /\ snaps \in SUBSET Times
  BY DEF Backup, NameSnapshot, CreateSnapshot, ListSnapshots, Prune, Finish
<1>1. \A s \in backups[t].gone : s \in Doomed
  BY <1>0 DEF Doomed, Run
<1>2. CASE NameSnapshot(t)
  <2>1. Doomed' \subseteq Doomed
    BY <1>0, <1>2 DEF NameSnapshot, Doomed, libvirt, Run
  <2> QED BY <1>2, <2>1, Still DEF NameSnapshot, libvirt
<1>3. CASE CreateSnapshot(t)
  <2>1. Doomed' \subseteq Doomed
    BY <1>0, <1>3 DEF CreateSnapshot, End, Doomed, Run
  <2>2. backups[t].name \in Times
    BY <1>0 DEF Run
  <2>3. snaps' = snaps \cup {backups[t].name} \/ UNCHANGED snaps
    BY <1>3 DEF CreateSnapshot
  <2> QED BY <2>1, <2>2, <2>3, Still, Grown
<1>4. CASE ListSnapshots(t)
  <2>1. \A s \in Old(snaps, backups[t].retention) : Cardinality(Newer(snaps, s)) >= Floor
    BY <1>0, OldHasNewer DEF Run
  <2>2. \A s \in Doomed' : s \in Doomed \/ s \in Old(snaps, backups[t].retention)
    BY <1>0, <1>4 DEF ListSnapshots, End, Doomed, libvirt, Run
  <2> QED BY <1>4, <2>1, <2>2, Still DEF ListSnapshots, libvirt
<1>5. CASE Prune(t)
  <2>1. PICK y \in Oldest(backups[t].gone) :
          /\ snaps' = snaps \ {y} \/ snaps' = snaps
          /\ backups' = [backups EXCEPT ![t].gone = @ \ {y}]
    BY <1>5 DEF Prune
  <2>2. y \in Doomed
    BY <1>1 DEF Oldest
  <2>3. Doomed' \subseteq Doomed
    BY <1>0, <1>5, <2>1 DEF Prune, Doomed, Run
  <2> QED BY <2>1, <2>2, <2>3, Shrunk
<1>6. CASE Finish(t)
  <2>1. \A s \in Oldest(backups[t].gone) : s \in Doomed
    BY <1>1 DEF Oldest
  <2>2. Doomed' \subseteq Doomed
    <3>1. SUFFICES ASSUME NEW s \in Doomed' PROVE s \in Doomed
      OBVIOUS
    <3>2. CASE s \in lateDeletes'
      BY <1>6, <2>1, <3>2 DEF Finish, Doomed
    <3>3. ASSUME NEW u \in Threads, backups'[u] # NoThread, s \in backups'[u].gone
          PROVE  s \in Doomed
      BY <1>0, <1>6, <3>3 DEF Finish, End, Doomed
    <3> QED BY <3>1, <3>2, <3>3 DEF Doomed
  <2> QED BY <1>6, <2>2, Still DEF Finish
<1> QED BY <1>2, <1>3, <1>4, <1>5, <1>6 DEF Backup

LEMMA Step == Inv /\ [Next]_vars => Inv' /\ [Window!Next]_snaps
<1> SUFFICES ASSUME Inv, [Next]_vars PROVE Inv' /\ [Window!Next]_snaps
  OBVIOUS
<1>0. TypeOK' /\ TodoKnown'
  BY TypeStep DEF Inv
<1> USE DEF libvirt
<1>1. CASE UNCHANGED <<backups, libvirt>>
  <2>1. Doomed' = Doomed
    BY <1>1 DEF Doomed
  <2> QED BY <1>0, <1>1, <2>1, Still DEF Inv
<1>2. ASSUME NEW r \in Retentions, StartBackup(r), UNCHANGED libvirt
      PROVE  Condemned' /\ [Window!Next]_snaps
  BY <1>2, StartDoomsNone, Still
<1>3. CASE Handler
  <2>1. ASSUME NEW i \in Ids, TriggerNow(i) PROVE Condemned' /\ [Window!Next]_snaps
    <3>1. file[i].retention \in Retentions
      BY <2>1 DEF Inv, TypeOK, TriggerNow, Schedule
    <3> QED BY <2>1, <3>1, <1>2 DEF TriggerNow
  <2> QED BY <1>0, <1>1, <1>3, <2>1
          DEF Inv, Handler, CreateSchedule, UpdateCron, UpdateFields, DeleteSchedule
<1>4. CASE Scheduler
  <2>1. ASSUME Launch PROVE Condemned' /\ [Window!Next]_snaps
    <3>1. loop.data[loop.firing] \in Schedule
      BY <2>1 DEF Launch, Inv, TypeOK, TodoKnown
    <3>2. loop.data[loop.firing].retention \in Retentions
      BY <3>1 DEF Schedule
    <3> QED BY <2>1, <3>2, <1>2 DEF Launch
  <2> QED BY <1>0, <1>1, <1>4, <2>1 DEF Inv, Scheduler, Scan, Fire, LaunchFails, Sleep
<1>5. ASSUME LateCreate PROVE Condemned' /\ [Window!Next]_snaps
  <2>1. PICK n \in lateCreates : snaps' = snaps \cup {n}
    BY <1>5 DEF LateCreate
  <2>2. Doomed' \subseteq Doomed /\ n \in Times
    BY <1>5 DEF LateCreate, Doomed, Inv, TypeOK
  <2> QED BY <1>0, <2>1, <2>2, Grown
<1>6. ASSUME LateDelete PROVE Condemned' /\ [Window!Next]_snaps
  <2>1. PICK n \in lateDeletes : snaps' = snaps \ {n} /\ lateDeletes' = lateDeletes \ {n}
    BY <1>6 DEF LateDelete
  <2>2. Doomed' \subseteq Doomed /\ n \in Doomed
    BY <1>6, <2>1 DEF LateDelete, Doomed, Inv, TypeOK
  <2> QED BY <1>0, <2>1, <2>2, Shrunk
<1>7. ASSUME Crash PROVE Condemned' /\ [Window!Next]_snaps
  <2>1. \A t \in Threads : At(t, "prune") => \A s \in Oldest(backups[t].gone) :
          s \in backups[t].gone /\ backups[t] # NoThread
    BY DEF At, Oldest
  <2>2. \A t \in Threads : backups'[t] = NoThread
    BY <1>7 DEF Crash
  <2>3. \A s \in lateDeletes' : \/ s \in lateDeletes
                                \/ \E t \in Threads : backups[t] # NoThread /\ s \in backups[t].gone
    BY <1>7, <2>1 DEF Crash
  <2>4. Doomed' \subseteq Doomed
    BY <2>2, <2>3 DEF Doomed
  <2> QED BY <1>7, <2>4, Still DEF Crash
<1> QED
  BY <1>0, <1>1, <1>3, <1>4, <1>5, <1>6, <1>7, BackupStep DEF Inv, Next, Tick, vars

-----------------------------------------------------------------------------
(* The variables keep their types in every behaviour. *)
THEOREM TypeCorrect == Spec => []TypeOK
<1>1. Inv => TypeOK
  BY DEF Inv
<1> QED BY <1>1, InitInv, Step, PTL DEF Spec

(* The backup threads, however they interleave, whatever fails and however *)
(* late libvirt does what it was asked, delete no snapshot unless Floor    *)
(* later names are there: BackupScheduler implements SnapshotWindow.       *)
THEOREM ImplementsWindow == Spec => RetentionIsAWindow
<1>1. Init => Window!Init
  BY DEF Init, Window!Init
<1> QED BY <1>1, InitInv, Step, PTL DEF Spec, RetentionIsAWindow, Window!Spec

(* Once Floor snapshots of the VM are there, no pruning leaves fewer, and  *)
(* none removes the one with the latest name, for any number of backup     *)
(* threads, with every failure, restart and late answer of libvirt.        *)
THEOREM NewestAreKept == Spec => Window!NewestStay
<1> DEFINE Stay == /\ Window!Cardinality(snaps) >= Floor => Window!Cardinality(snaps') >= Floor
                   /\ \A s \in snaps \ snaps' : \E x \in snaps' : x > s
<1>1. ASSUME Inv, Inv', Window!Next PROVE Stay
  <2>1. \A S : Window!Cardinality(S) = Cardinality(S)
    BY Zenon DEF Window!Cardinality, Cardinality
  <2>2. IsFiniteSet(snaps) /\ IsFiniteSet(snaps') /\ Floor \in Nat \ {0}
    BY <1>1, TimesFinite, FS_Subset, BackupConstants DEF Inv, TypeOK, BackupConstants
  <2>3. CASE Window!Take
    <3>1. snaps \subseteq snaps'
      BY <2>3 DEF Window!Take
    <3>2. Cardinality(snaps) <= Cardinality(snaps') /\ Cardinality(snaps) \in Nat
          /\ Cardinality(snaps') \in Nat
      BY <2>2, <3>1, FS_Subset, FS_CardinalityType
    <3> QED  BY <2>1, <2>2, <3>1, <3>2
  <2>4. CASE Window!Drop
    <3>1. PICK s \in snaps : /\ Window!Cardinality(Window!Newer(snaps, s)) >= Floor
                             /\ snaps' = snaps \ {s}
      BY <2>4 DEF Window!Drop
    <3>2. PICK N : N = Window!Newer(snaps, s)
      OBVIOUS
    <3>3. N \subseteq snaps' /\ \A x \in N : x > s
      BY <1>1, <3>1, <3>2 DEF Window!Newer, Inv, TypeOK, Times
    <3>4. /\ IsFiniteSet(N) /\ Cardinality(N) >= Floor
          /\ Cardinality(N) <= Cardinality(snaps')
          /\ Cardinality(N) \in Nat /\ Cardinality(snaps') \in Nat
      BY <2>1, <2>2, <3>1, <3>2, <3>3, FS_Subset, FS_CardinalityType
    <3>5. N # {}
      BY <2>2, <3>4, FS_EmptySet
    <3> QED  BY <2>1, <2>2, <3>1, <3>3, <3>4, <3>5
  <2> QED  BY <1>1, <2>3, <2>4 DEF Window!Next
<1>2. Inv /\ Inv' /\ [Window!Next]_snaps => [Stay]_snaps
  BY <1>1
<1> QED  BY <1>2, InitInv, Step, PTL DEF Spec, Window!NewestStay

-----------------------------------------------------------------------------
(* The scheduler thread and the handlers share the file.  A scan works on  *)
(* the copy of its beginning; what it relies on is that only the scheduler *)
(* moves next_run past a due time, and that ids are never used twice.      *)

(* Only the named handlers change which schedules there are.               *)
LEMMA Membership ==
  ASSUME TypeOK, TodoKnown, [Next]_vars, NEW i \in Ids
  PROVE  /\ file[i] = None /\ file'[i] # None => i \notin born
         /\ file[i] # None /\ file'[i] = None =>
              \/ DeleteSchedule(i)
              \/ "load" \in Faults /\ born' # born
<1> USE BackupConstants DEF TypeOK, Save, schedules
<1>0. None \notin Schedule /\ file \in [Ids -> Schedule \cup {None}]
  BY DEF BackupConstants
<1>1. ASSUME NEW j \in Ids, NEW p \in Periods, NEW r \in Retentions, CreateSchedule(j, p, r)
      PROVE  \/ file'[i] = file[i]
             \/ i \notin born /\ file'[i] # None
             \/ "load" \in Faults /\ born' # born /\ file'[i] = None
  <2>1. [period |-> p, retention |-> r, enabled |-> TRUE, next_run |-> NextRun(p, now)]
          \in Schedule
    BY NextRunType, TimesFinite DEF Schedule, BackupConstants
  <2> DEFINE new == [period |-> p, retention |-> r, enabled |-> TRUE,
                     next_run |-> NextRun(p, now)]
  <2>2. PICK data \in Loaded : Save([data EXCEPT ![j] = new])
    BY <1>1 DEF CreateSchedule
  <2>3. born' = born \cup {j} /\ j \notin born
    BY <1>1 DEF CreateSchedule
  <2>4. new # None
    BY <1>0, <2>1
  <2> HIDE DEF new
  <2>5. CASE data = file
    BY <1>0, <2>2, <2>3, <2>4, <2>5
  <2>6. CASE data = Empty /\ "load" \in Faults
    BY <1>0, <2>2, <2>3, <2>4, <2>6 DEF Empty
  <2> QED  BY <2>5, <2>6 DEF Loaded
<1>2. ASSUME NEW j \in Ids, UpdateCron(j) \/ UpdateFields(j)
      PROVE  file[i] = None <=> file'[i] = None
  <2>1. CASE UpdateCron(j)
    <3>1. PICK p \in Periods :
            Save([file EXCEPT ![j].period = p, ![j].next_run = NextRun(p, now)])
      BY <2>1 DEF UpdateCron
    <3>2. [file[j] EXCEPT !.period = p, !.next_run = NextRun(p, now)] \in Schedule
      BY <2>1, NextRunType, TimesFinite DEF UpdateCron, Schedule, BackupConstants
    <3> QED  BY <1>0, <2>1, <3>1, <3>2 DEF UpdateCron
  <2>2. CASE UpdateFields(j)
    <3>1. PICK enabled \in BOOLEAN, r \in Retentions :
            Save([file EXCEPT ![j].enabled = enabled, ![j].retention = r])
      BY <2>2 DEF UpdateFields
    <3>2. [file[j] EXCEPT !.enabled = enabled, !.retention = r] \in Schedule
      BY <2>2 DEF UpdateFields, Schedule
    <3> QED  BY <1>0, <2>2, <3>1, <3>2 DEF UpdateFields
  <2> QED  BY <1>2, <2>1, <2>2
<1>3. ASSUME NEW j \in Ids, DeleteSchedule(j)
      PROVE  file'[i] = file[i] \/ (j = i /\ file[i] # None)
  BY <1>3 DEF DeleteSchedule
<1>4. ASSUME NEW j \in Ids, Fire(j) PROVE file[i] = None <=> file'[i] = None
  <2>1. CASE UNCHANGED file
    BY <2>1
  <2>2. ASSUME file[j] # None, NEW n \in Nat, file' = [file EXCEPT ![j].next_run = n]
        PROVE  file[i] = None <=> file'[i] = None
    <3>1. [file[j] EXCEPT !.next_run = n] \in Schedule
      BY <2>2 DEF Schedule
    <3> QED  BY <1>0, <2>2, <3>1
  <2>3. loop.data[j] \in Schedule
    BY <1>4 DEF Fire, TodoKnown
  <2>4. NextRun(loop.data[j].period, now) \in Nat
    BY <2>3, NextRunType, TimesFinite DEF Schedule, BackupConstants
  <2> QED  BY <1>4, <2>1, <2>2, <2>4 DEF Fire, Loaded, Empty
<1>5. CASE UNCHANGED file
  BY <1>5
<1> QED
  BY <1>0, <1>1, <1>2, <1>3, <1>4, <1>5
     DEF Next, Handler, Scheduler, Backup, TriggerNow, Scan, Launch, LaunchFails, Sleep,
         NameSnapshot, CreateSnapshot, ListSnapshots, Prune, Finish, LateCreate, LateDelete,
         Tick, Crash, vars

(* The next run of a schedule is later than what was served of it, also in *)
(* the copy, of what the scan has still to serve; and what the scan serves *)
(* is due.                                                                 *)
Ahead(s, c) == s # None => c < s.next_run

Planned ==
  /\ \A i \in Ids : Ahead(file[i], covered[i]) /\ covered[i] <= now
  /\ \A i \in Ids : IF i \in born THEN TRUE ELSE covered[i] = -1 /\ file[i] = None
  /\ \A i \in loop.todo :
       /\ i \in born
       /\ Ahead(loop.data[i], covered[i])
       /\ loop.data[i].next_run <= now

(* The next run lies in the future. *)
LEMMA NextRunLater ==
  ASSUME NEW p \in Nat \ {0}, NEW t \in Nat
  PROVE  NextRun(p, t) \in Nat /\ t < NextRun(p, t)
<1>1. t \div p \in Nat /\ t % p \in 0 .. p - 1 /\ t = p * (t \div p) + (t % p)
  BY SMT
<1>2. \A q \in Nat : (q + 1) * p = p * q + p
  BY SMT
<1> QED  BY <1>1, <1>2, NextRunType DEF NextRun

LEMMA PlannedStep ==
  ASSUME TypeOK, TodoKnown, Planned, [Next]_vars
  PROVE  Planned'
<1> USE BackupConstants, TimesFinite DEF TypeOK, schedules
<1>0. Periods \subseteq Nat \ {0} /\ now \in Nat /\ None \notin Schedule
  BY DEF BackupConstants
<1>1. \A p \in Periods : NextRun(p, now) \in Nat /\ now < NextRun(p, now)
  BY <1>0, NextRunLater
<1>2. ASSUME UNCHANGED <<now, loop, covered>>, born \subseteq born',
             NEW i \in Ids, i \in born' \ born \/ file[i] # None \/ file'[i] = None,
             \A j \in Ids : j # i => file'[j] \in {file[j], None} /\ (j \in born' => j \in born),
             file'[i] # None => \/ file'[i] = file[i]
                                \/ file'[i].next_run > now /\ i \in born'
                                \/ file[i] # None /\ file'[i].next_run = file[i].next_run,
             file'[i] # None => file'[i] \in Schedule
      PROVE  Planned'
  <2>1. ASSUME NEW j \in Ids
        PROVE  /\ Ahead(file'[j], covered[j])
               /\ IF j \in born' THEN TRUE ELSE covered[j] = -1 /\ file'[j] = None
    <3>1. CASE j = i
      <4>1. Ahead(file[i], covered[i]) /\ covered[i] <= now /\ covered[i] \in Int
        BY DEF Planned
      <4>2. file'[i] # None => file'[i].next_run \in Nat
        BY <1>2 DEF Schedule
      <4> QED  BY <1>0, <1>2, <3>1, <4>1, <4>2 DEF Ahead, Planned
    <3>2. CASE j # i
      BY <1>2, <3>2 DEF Ahead, Planned
    <3> QED  BY <3>1, <3>2
  <2> QED  BY <1>2, <2>1 DEF Planned
<1>3. CASE Handler
  <2>0. file' \in [Ids -> Schedule \cup {None}]
    BY TypeStep
  <2>1. ASSUME NEW i \in Ids, NEW p \in Periods, NEW r \in Retentions, CreateSchedule(i, p, r)
        PROVE  Planned'
    <3> DEFINE new == [period |-> p, retention |-> r, enabled |-> TRUE,
                       next_run |-> NextRun(p, now)]
    <3>1. new.next_run > now
      BY <1>1
    <3> HIDE DEF new
    <3>2. PICK data \in Loaded : Save([data EXCEPT ![i] = new])
      BY <2>1 DEF CreateSchedule, new
    <3>3. \/ file' = file
          \/ file'[i] = new /\ \A j \in Ids : j # i => file'[j] \in {file[j], None}
      BY <3>2 DEF Save, Loaded, Empty
    <3>4. UNCHANGED <<now, loop, covered>> /\ born' = born \cup {i} /\ i \notin born
      BY <2>1 DEF CreateSchedule
    <3> QED  BY <1>2, <2>0, <3>1, <3>3, <3>4
  <2>2. ASSUME NEW i \in Ids, UpdateCron(i) PROVE Planned'
    <3>1. PICK p \in Periods :
            Save([file EXCEPT ![i].period = p, ![i].next_run = NextRun(p, now)])
      BY <2>2 DEF UpdateCron
    <3>2. file[i] \in Schedule /\ i \in born
      BY <2>2 DEF UpdateCron, Planned
    <3>3. /\ \A j \in Ids : j # i => file'[j] = file[j]
          /\ file'[i] = file[i] \/ file'[i].next_run > now
      BY <1>1, <3>1, <3>2 DEF Save, Schedule
    <3> QED  BY <1>2, <2>0, <2>2, <3>2, <3>3 DEF UpdateCron
  <2>3. ASSUME NEW i \in Ids, UpdateFields(i) PROVE Planned'
    <3>1. PICK enabled \in BOOLEAN, r \in Retentions :
            Save([file EXCEPT ![i].enabled = enabled, ![i].retention = r])
      BY <2>3 DEF UpdateFields
    <3>2. file[i] \in Schedule /\ i \in born
      BY <2>3 DEF UpdateFields, Planned
    <3>3. /\ \A j \in Ids : j # i => file'[j] = file[j]
          /\ file'[i] = file[i] \/ file'[i].next_run = file[i].next_run
      BY <3>1, <3>2 DEF Save, Schedule
    <3> QED  BY <1>2, <2>0, <2>3, <3>2, <3>3 DEF UpdateFields
  <2>4. ASSUME NEW i \in Ids, DeleteSchedule(i) PROVE Planned'
    BY <1>2, <2>0, <2>4 DEF DeleteSchedule, Save
  <2>5. ASSUME NEW i \in Ids, TriggerNow(i) PROVE Planned'
    BY <2>5 DEF TriggerNow, Planned
  <2> QED  BY <1>3, <2>1, <2>2, <2>3, <2>4, <2>5 DEF Handler
<1>4. CASE Scan
  <2>1. PICK data \in Loaded :
          loop' = [at |-> "scan", data |-> data, firing |-> None,
                   todo |-> {i \in Ids : Due(data[i], now)}]
    BY <1>4 DEF Scan
  <2>2. data = file \/ \A i \in Ids : data[i] = None
    BY DEF Loaded, Empty
  <2>3. /\ UNCHANGED <<file, born, covered, now>> /\ loop'.data = data
        /\ \A i \in loop'.todo : i \in Ids /\ data[i] # None /\ data[i].next_run <= now
    BY <1>4, <2>1 DEF Scan, Due
  <2> QED  BY <2>2, <2>3 DEF Planned
<1>5. ASSUME NEW i \in Ids, Fire(i) PROVE Planned'
  <2>1. loop.data[i] \in Schedule /\ i \in loop.todo
    BY <1>5 DEF Fire, TodoKnown
  <2> DEFINE next == NextRun(loop.data[i].period, now)
             due == loop.data[i].next_run
  <2>2. next > now /\ next \in Nat
    BY <2>1, <1>1 DEF Schedule
  <2>3. due \in Nat /\ due <= now
    BY <2>1 DEF Planned, Schedule
  <2>4. /\ UNCHANGED <<now, born>> /\ loop'.data = loop.data
        /\ loop'.todo = loop.todo \ {i}
    BY <1>5 DEF Fire
  <2>5. \/ UNCHANGED <<file, covered>>
        \/ /\ file[i] # None
           /\ file' = [file EXCEPT ![i].next_run = next]
           /\ covered' = [covered EXCEPT ![i] = due]
    BY <1>5 DEF Fire, Loaded, Empty
  <2> HIDE DEF next, due
  <2>6. \A j \in Ids : j # i => file'[j] = file[j] /\ covered'[j] = covered[j]
    BY <2>5
  <2>7. /\ Ahead(file'[i], covered'[i])
        /\ covered'[i] <= now
        /\ i \in born
    BY <1>0, <2>1, <2>2, <2>3, <2>5 DEF Ahead, Planned, Schedule
  <2> QED  BY <2>4, <2>6, <2>7 DEF Planned
<1>6. CASE UNCHANGED schedules /\ now' \in {now, now + 1}
           /\ loop'.data = loop.data /\ loop'.todo = loop.todo
  <2>1. \A n \in Int : n <= now => n <= now'
    BY <1>0, <1>6
  <2>2. \A i \in loop.todo : loop.data[i].next_run \in Int
    BY DEF TodoKnown, Schedule
  <2> QED  BY <1>6, <2>1, <2>2 DEF Planned
<1>7. CASE loop' = Asleep /\ UNCHANGED <<schedules, now>>
  BY <1>7 DEF Asleep, Planned
<1>8. CASE Tick
  BY <1>6, <1>8 DEF Tick
<1>9. ASSUME NEW t \in Threads, Backup(t) PROVE Planned'
  BY <1>0, <1>6, <1>9
     DEF Backup, NameSnapshot, CreateSnapshot, ListSnapshots, Prune, Finish
<1>10. CASE Launch \/ LateCreate \/ LateDelete
  BY <1>0, <1>6, <1>10 DEF Launch, LateCreate, LateDelete
<1>11. CASE Sleep \/ LaunchFails \/ Crash
  BY <1>7, <1>11 DEF Sleep, LaunchFails, Crash
<1> QED
  BY <1>0, <1>3, <1>4, <1>5, <1>6, <1>8, <1>9, <1>10, <1>11 DEF Next, Scheduler, vars

(* The scheduler thread, however old its copy is and whatever is created,  *)
(* changed or deleted meanwhile, neither brings back a schedule nor drops  *)
(* one; what drops the others is a creation that could not load the file.  *)
THEOREM MembershipKept == Spec => MembershipByHandlers
<1>1. Inv /\ [Next]_vars =>
        [\A i \in Ids :
           /\ file[i] = None /\ file'[i] # None => i \notin born
           /\ file[i] # None /\ file'[i] = None =>
                \/ DeleteSchedule(i)
                \/ "load" \in Faults /\ born' # born]_vars
  BY Membership DEF Inv
<1> QED  BY <1>1, InitInv, Step, PTL DEF Spec, MembershipByHandlers

(* No due time that the file has recorded is served again, also when the   *)
(* schedule is changed between the scan and the run, when later loads or   *)
(* saves fail and when the process is killed.                              *)
THEOREM DueTimesServedOnce == Spec => OncePerDueTime
<1>1. Init => Planned
  BY BackupConstants DEF Init, Planned, Ahead, Asleep, Empty, BackupConstants
<1>2. Inv /\ Planned /\ [Next]_vars => Planned'
  BY PlannedStep DEF Inv
<1>3. Inv /\ Planned => [\A i \in Ids : Fire(i) => covered[i] < loop.data[i].next_run]_vars
  BY DEF Inv, TodoKnown, Fire, Planned, Ahead
<1> QED  BY <1>1, <1>2, <1>3, InitInv, Step, PTL DEF Spec, OncePerDueTime

-----------------------------------------------------------------------------
(* While virsh does not fail: whenever too many snapshots are there, some  *)
(* backup is about to list them, or has listed and not yet deleted enough  *)
(* of them to leave no more than its retention.                            *)
Harmless == "virsh" \notin Faults /\ MaxCrashes = 0 /\ Retentions # {} /\ 0 \notin Retentions

Few == \E r \in Retentions : Cardinality(snaps) <= r

Tidies(t) ==
  /\ backups[t] # NoThread
  /\ \/ backups[t].at = "list"
     \/ /\ backups[t].at = "prune"
        /\ Cardinality(snaps \ backups[t].gone) <= backups[t].retention

Tidy == Few \/ \E t \in Threads : Tidies(t)

(* A non-empty set of ticks has an earliest one. *)
LEMMA EarliestTick ==
  ASSUME NEW S \in SUBSET Nat, S # {}
  PROVE  \E m \in S : \A x \in S : m <= x
<1>1. PICK m \in S : \A y \in S : ~(<<y, m>> \in OpToRel(<, Nat))
  BY NatLessThanWellFounded, WFMin, Zenon
<1>2. \A y \in S : y \in Nat /\ m \in Nat => ~(y < m)
  BY <1>1, Zenon DEF OpToRel
<1> QED  BY <1>2

(* Old leaves at most r: those it leaves are the earliest of them and some *)
(* of its newer ones, of which there are less than r.                      *)
LEMMA OldLeavesFew ==
  ASSUME NEW S \in SUBSET Times, NEW r \in Nat \ {0}
  PROVE  Cardinality(S \ Old(S, r)) <= r
<1> DEFINE rest == S \ Old(S, r)
<1>1. CASE rest = {}
  BY <1>1, FS_EmptySet
<1>2. CASE rest # {}
  <2>1. rest \in SUBSET Nat
    BY TimesFinite
  <2>2. PICK m \in rest : \A x \in rest : m <= x
    BY <1>2, <2>1, EarliestTick
  <2>3. m \in S /\ ~(Cardinality(Newer(S, m)) >= r)
    BY <2>2 DEF Old
  <2>4. IsFiniteSet(Newer(S, m)) /\ m \notin Newer(S, m)
    <3>1. Newer(S, m) \subseteq Times
      BY DEF Newer
    <3> QED  BY <2>1, <2>2, <3>1, TimesFinite, FS_Subset DEF Newer
  <2>5. rest \subseteq Newer(S, m) \cup {m}
    BY <2>1, <2>2 DEF Newer
  <2>6. /\ IsFiniteSet(Newer(S, m) \cup {m})
        /\ Cardinality(Newer(S, m) \cup {m}) = Cardinality(Newer(S, m)) + 1
        /\ Cardinality(Newer(S, m)) \in Nat
    BY <2>4, FS_AddElement, FS_CardinalityType
  <2>7. Cardinality(rest) <= Cardinality(Newer(S, m) \cup {m}) /\ Cardinality(rest) \in Nat
    BY <2>5, <2>6, FS_Subset, FS_CardinalityType
  <2>8. SUFFICES Cardinality(rest) <= r
    OBVIOUS
  <2> HIDE DEF rest
  <2> QED  BY <2>3, <2>6, <2>7
<1> QED  BY <1>1, <1>2

(* Whoever tidies up still does when there are fewer snapshots. *)
LEMMA TidiesOn ==
  ASSUME TypeOK, NEW t \in Threads, Tidies(t), backups'[t] = backups[t], snaps' \subseteq snaps
  PROVE  Tidies(t)'
<1>1. CASE backups[t].at = "list"
  BY <1>1 DEF Tidies
<1>2. CASE backups[t].at = "prune"
  <2>1. snaps' \ backups[t].gone \subseteq snaps \ backups[t].gone /\ IsFiniteSet(snaps \ backups[t].gone)
    BY TimesFinite, FS_Subset DEF TypeOK
  <2>2. /\ Cardinality(snaps' \ backups[t].gone) <= Cardinality(snaps \ backups[t].gone)
        /\ Cardinality(snaps' \ backups[t].gone) \in Nat
        /\ Cardinality(snaps \ backups[t].gone) \in Nat
    BY <2>1, FS_Subset, FS_CardinalityType
  <2>3. backups[t].retention \in Nat
    BY BackupConstants DEF TypeOK, Tidies, BackupConstants, Run
  <2>4. Cardinality(snaps \ backups[t].gone) <= backups[t].retention
    BY <1>2 DEF Tidies
  <2>5. Cardinality(snaps' \ backups[t].gone) <= backups[t].retention
    BY <2>2, <2>3, <2>4
  <2> QED  BY <1>2, <2>5 DEF Tidies
<1> QED  BY <1>1, <1>2 DEF Tidies

(* Nothing is left for libvirt to do. *)
NoneLate == lateCreates = {} /\ lateDeletes = {}

LEMMA NoneLateStep ==
  ASSUME Harmless, TypeOK, NoneLate, [Next]_vars
  PROVE  NoneLate'
<1> USE DEF NoneLate, Harmless, libvirt
<1>1. ASSUME NEW t \in Threads, Finish(t) PROVE NoneLate'
  <2>1. Oldest({}) = {}
    BY DEF Oldest
  <2> QED  BY <1>1, <2>1 DEF Finish
<1>2. ~Crash
  BY BackupConstants DEF Crash, TypeOK, BackupConstants
<1> QED
  BY <1>1, <1>2
     DEF Next, Handler, Scheduler, Backup, CreateSchedule, UpdateCron, UpdateFields,
         DeleteSchedule, TriggerNow, Scan, Fire, Launch, LaunchFails, Sleep, NameSnapshot,
         CreateSnapshot, ListSnapshots, Prune, LateCreate, LateDelete, Tick, vars

LEMMA TidyStep ==
  ASSUME Harmless, Inv, NoneLate, Tidy, [Next]_vars
  PROVE  Tidy'
<1> USE DEF Harmless, At, libvirt, schedules
<1>0. /\ TypeOK /\ IsFiniteSet(snaps) /\ Retentions \subseteq Nat \ {0}
      /\ snaps \in SUBSET Times
  BY TimesFinite, FS_Subset, BackupConstants DEF Inv, TypeOK, BackupConstants
<1>1. ASSUME NEW t \in Threads, CreateSnapshot(t) PROVE Tidy'
  <2>1. CASE backups' = [backups EXCEPT ![t].at = "list", ![t].name = 0]
    <3>1. backups'[t] = [backups[t] EXCEPT !.at = "list", !.name = 0] /\ backups[t] \in Run
      BY <1>0, <1>1, <2>1 DEF CreateSnapshot, TypeOK
    <3>2. backups'[t] \in Run /\ backups'[t].at = "list"
      <4>1. 0 \in Times
        BY BackupConstants DEF Times, BackupConstants
      <4> QED  BY <3>1, <4>1 DEF Run
    <3> QED  BY <3>2, BackupConstants DEF Tidy, Tidies, BackupConstants
  <2>2. CASE End(t) /\ UNCHANGED snaps
    <3>1. \A u \in Threads : Tidies(u) => u # t
      BY <1>1 DEF CreateSnapshot, Tidies
    <3>2. \A u \in Threads : u # t => backups'[u] = backups[u]
      BY <2>2 DEF End
    <3>3. \A u \in Threads : Tidies(u) => Tidies(u)'
      BY <1>0, <2>2, <3>1, <3>2, TidiesOn
    <3> QED  BY <2>2, <3>3 DEF Tidy, Few
  <2> QED  BY <1>1, <2>1, <2>2 DEF CreateSnapshot
<1>2. ASSUME NEW t \in Threads, ListSnapshots(t) PROVE Tidy'
  <2> DEFINE r == backups[t].retention
  <2>0. /\ backups[t] \in Run /\ snaps' = snaps
        /\ backups'[t] = [backups[t] EXCEPT !.at = "prune", !.gone = Old(snaps, r)]
    BY <1>0, <1>2 DEF ListSnapshots, TypeOK
  <2>1. /\ r \in Retentions /\ backups'[t] \in Run /\ backups'[t].at = "prune"
        /\ backups'[t].retention = r /\ backups'[t].gone = Old(snaps, r)
    BY <1>0, <2>0 DEF Run, Old
  <2>2. Cardinality(snaps \ Old(snaps, r)) <= r
    BY <1>0, <2>1, OldLeavesFew
  <2> QED  BY <2>0, <2>1, <2>2, BackupConstants DEF Tidy, Tidies
<1>3. ASSUME NEW t \in Threads, Prune(t) PROVE Tidy'
  <2>1. PICK s \in backups[t].gone :
          snaps' = snaps \ {s} /\ backups' = [backups EXCEPT ![t].gone = @ \ {s}]
    BY <1>3 DEF Prune, Oldest
  <2>2. CASE Few
    <3>1. Cardinality(snaps') <= Cardinality(snaps) /\ Cardinality(snaps') \in Nat /\ Cardinality(snaps) \in Nat
      BY <1>0, <2>1, FS_Subset, FS_CardinalityType
    <3>2. PICK r \in Retentions : Cardinality(snaps) <= r
      BY <2>2 DEF Few
    <3>3. Cardinality(snaps') <= r
      BY <1>0, <3>1, <3>2
    <3> QED  BY <3>3 DEF Tidy, Few
  <2>3. ASSUME NEW u \in Threads, Tidies(u), u # t PROVE Tidy'
    BY <1>0, <2>1, <2>3, TidiesOn DEF Tidy
  <2>4. CASE Tidies(t)
    <3>1. /\ backups'[t] = [backups[t] EXCEPT !.gone = backups[t].gone \ {s}]
          /\ backups[t] \in Run /\ backups[t].at = "prune"
      BY <1>0, <1>3, <2>1 DEF Prune, TypeOK, Run
    <3>2. /\ backups'[t] \in Run /\ backups'[t].at = "prune"
          /\ backups'[t].gone = backups[t].gone \ {s}
          /\ backups'[t].retention = backups[t].retention
      BY <3>1 DEF Run
    <3>3. snaps' \ backups'[t].gone = snaps \ backups[t].gone
      BY <2>1, <3>2
    <3> QED  BY <2>4, <3>1, <3>2, <3>3, BackupConstants DEF Tidy, Tidies
  <2> QED  BY <2>2, <2>3, <2>4 DEF Tidy
<1>4. ASSUME NEW t \in Threads, Finish(t) PROVE Tidy'
  <2>1. CASE Tidies(t)
    <3>1. backups[t].at = "prune" /\ backups[t].gone = {} /\ snaps' = snaps
      BY <1>4 DEF Finish
    <3>2. Cardinality(snaps) <= backups[t].retention
      <4>1. snaps \ {} = snaps
        OBVIOUS
      <4> QED  BY <2>1, <3>1, <4>1 DEF Tidies
    <3>3. backups[t].retention \in Retentions
      BY <1>0, <1>4 DEF Finish, TypeOK, Run
    <3> QED  BY <3>1, <3>2, <3>3 DEF Tidy, Few
  <2>2. \A u \in Threads : u # t /\ Tidies(u) => Tidies(u)'
    BY <1>0, <1>4, TidiesOn DEF Finish, End
  <2> QED  BY <1>4, <2>1, <2>2 DEF Tidy, Few, Finish
<1>5. ASSUME NEW r \in Retentions, StartBackup(r), snaps' = snaps PROVE Tidy'
  <2>1. PICK t \in Threads :
          /\ backups[t] = NoThread
          /\ backups' = [backups EXCEPT ![t] =
               [at |-> "snap", retention |-> r, name |-> 0, gone |-> {}]]
    BY <1>5 DEF StartBackup
  <2>2. \A u \in Threads : Tidies(u) => backups'[u] = backups[u]
    BY <2>1 DEF Tidies
  <2>3. \A u \in Threads : Tidies(u) => Tidies(u)'
    BY <1>0, <1>5, <2>2, TidiesOn
  <2> QED  BY <1>5, <2>3 DEF Tidy, Few
<1>6. CASE UNCHANGED <<backups, snaps>>
  BY <1>6 DEF Tidy, Few, Tidies
<1>7. ASSUME NEW i \in Ids, TriggerNow(i) PROVE Tidy'
  <2>1. file[i].retention \in Retentions
    BY <1>0, <1>7 DEF TriggerNow, TypeOK, Schedule
  <2> QED  BY <1>5, <1>7, <2>1 DEF TriggerNow
<1>8. ASSUME Launch PROVE Tidy'
  <2>1. loop.data[loop.firing] \in Schedule
    BY <1>0, <1>8 DEF Launch, Inv, TodoKnown, TypeOK
  <2>2. loop.data[loop.firing].retention \in Retentions
    BY <2>1 DEF Schedule
  <2> QED  BY <1>5, <1>8, <2>2 DEF Launch
<1>10. ASSUME NEW t \in Threads, NameSnapshot(t) PROVE Tidy'
  <2>1. \A u \in Threads : Tidies(u) => u # t /\ backups'[u] = backups[u]
    BY <1>0, <1>10 DEF NameSnapshot, Tidies, TypeOK
  <2>2. snaps' = snaps
    BY <1>10 DEF NameSnapshot
  <2>3. \A u \in Threads : Tidies(u) => Tidies(u)'
    BY <1>0, <2>1, <2>2, TidiesOn
  <2> QED  BY <2>2, <2>3 DEF Tidy, Few
<1>11. ~LateCreate /\ ~LateDelete
  BY DEF NoneLate, LateCreate, LateDelete
<1>9. ~Crash
  BY <1>0 DEF Crash, TypeOK
<1> QED
  BY <1>1, <1>2, <1>3, <1>4, <1>6, <1>7, <1>8, <1>9, <1>10, <1>11
     DEF Next, Handler, Scheduler, Backup, CreateSchedule, UpdateCron, UpdateFields,
         DeleteSchedule, Scan, Fire, LaunchFails, Sleep, Tick, vars

(* When virsh does not fail and no process is killed, no run leaves more   *)
(* snapshots than the largest retention allows, once all threads are done: *)
(* for any number of threads that prune by listings of different age, and  *)
(* whatever else fails.                                                    *)
THEOREM NothingIsLeft ==
  ASSUME "virsh" \notin Faults, MaxCrashes = 0, Retentions # {}
  PROVE  Spec => []NothingLeftOver
<1>1. CASE 0 \in Retentions
  <2>1. NothingLeftOver
    BY <1>1 DEF NothingLeftOver
  <2> QED  BY <2>1, PTL
<1>2. CASE 0 \notin Retentions
  <2>1. Harmless
    BY <1>2 DEF Harmless
  <2>2. Init => Tidy
    <3>1. SUFFICES ASSUME Init PROVE Few
      BY DEF Tidy
    <3>2. PICK r \in Retentions : r \in Nat
      BY BackupConstants DEF BackupConstants
    <3>3. Cardinality(snaps) = 0
      BY <3>1, FS_EmptySet DEF Init
    <3> QED  BY <3>2, <3>3 DEF Few
  <2>3. Inv /\ NoneLate /\ Tidy /\ [Next]_vars => Tidy' /\ NoneLate'
    BY <2>1, TidyStep, NoneLateStep DEF Inv
  <2>4. Tidy => NothingLeftOver
    BY DEF Tidy, Tidies, Few, NothingLeftOver
  <2>5. Init => NoneLate
    BY DEF Init, NoneLate
  <2> QED  BY <2>2, <2>3, <2>4, <2>5, InitInv, Step, PTL DEF Spec
<1> QED  BY <1>1, <1>2
=============================================================================
