# ankavm in TLA+

This directory is a verification project for ankavm, a web application that
manages KVM virtual machines on one host: TLA+ modules that model parts of its
backend, TLC configurations that check them on small instances, and proofs that
TLAPS checks for every instance. Everything is translated from the source under
`ankavm/backend/`; PROJECT.json names, for every definition, the lines it stands for.

1. [The system](#1-the-system) 2. [Inventory](#2-inventory) 3. [Modules](#3-modules) 4. [Runs,
bounds and fairness](#4-runs-bounds-and-fairness) 5. [Disagreements between code and
documentation](#5-disagreements-between-code-and-documentation) 6. [Proofs](#6-proofs) 7. [What is
only model-checked, and what is not
modelled](#7-what-is-only-model-checked-and-what-is-not-modelled) 8. [Plan](#8-plan)

## 1. The system

One Python process runs under systemd. Its HTTP server is Flask-SocketIO with
`async_mode="eventlet"` (app.py:284) and **without** monkey patching (said in the
comment at app.py:496): `subprocess`, `time.sleep` and file I/O block the one
green thread hub, so an HTTP handler runs to its end before the next one begins.
Handlers are therefore atomic *with respect to each other*. What is concurrent:

- the services started at app.py:9148-9173, each an OS thread with a polling
  loop: performance history, backup scheduler, disk and certificate monitors,
  uptime, anomaly detector, auto scaler, AI planner, automatic snapshots, update
  check, hardening audit, VM scheduler, session cleanup;
- threads started on demand: a backup run, the NAT synchronisation after a VM is
  created or started, the CDP worker, replication and migration jobs, a webhook
  delivery, cloning and importing;
- the process itself, which can be killed and restarted between any two steps,
  and the tools it calls (`virsh`, `qemu-img`, `iptables`), which can fail alone.

State is kept in JSON files under `/var/lib/ankavm` that are loaded, changed and
written back as a whole, in libvirt, in the host's iptables rules, and, for some
components, in memory only. Three idioms recur, and with them the hard behaviours:

1. *load, act, save* with a lock only around the load and the save (or none): the
   save overwrites what others saved meanwhile;
2. *two saves for one change*, or a save and a call of virsh: a crash or a failure
   between them leaves the two halves apart;
3. `open(path, "w")` followed by `json.dump`: a reader, or a crash, in between
   sees an empty or torn file, which some loaders take for "no records" and
   others raise on.

## 2. Inventory

The components that carry protocol logic. (PROJECT.json lists all components,
with the reason for those that are left out.)

| Component | State | Operations | Hard behaviours | Correct when |
|---|---|---|---|---|
| IP pool manager, `ip_pool.py` | `ip_pool.json`: pools, assignments address → owner, MAC, pool label, lock | create, update, delete pool; allocate; release by owner or MAC; lock; reassign; assign by hand; statistics | only entries of a pool's own label count as taken; capacity is counted but addresses are enumerated | an allocation takes a free address; the statistics agree with the allocator; labels lie where pools lie |
| VM network lifecycle, `app.py` create/start/stop/delete, `vm_manager.py` | the same file; libvirt domains and DHCP reservations; DNAT rules; cloud-init image | create with early or late allocation, start, stop, delete; thread `_post_install_nat_sync` | threads write the file without the lock; two saves for one change; rules appended repeatedly; failing virsh | no address is given twice; document and hypervisor agree; a deleted VM leaves nothing behind |
| Backup scheduler, `backup_scheduler.py` | schedules file; VM snapshots; history file | create, update, delete, trigger; scan every 30 s; a backup thread: snapshot, list, prune, upload | overlapping prunings of one VM; the scan's old copy; restart in the middle | a due run is started, once; the newest snapshots are kept, no more than retention stay |
| Auto scaler, `auto_scaler.py` | policies file with the time of the last action; the VM's vCPUs and memory | create, update, delete policy; a pass every 60 s; a triggered pass | a pass lasts minutes and saves the list it loaded first; passes overlap; unreadable sizes | sizes stay in their band; the cool-down is kept |
| Fault tolerance, `fault_tolerance.py` | pairs file; the secondary's domain and disk | create, synchronise, fail over, remove | a kill between any two commands; a copy that fails half-way; a shutdown that is not answered | never both run; the promoted secondary's disk is its own; the lag that is reported is not too small |
| Continuous data protection, `cdp_manager.py` | configuration file; marker files; libvirt snapshots; worker flag in memory | enable, disable, worker pass, prune, restore | the worker saves old state; nothing restarts it | an enabled VM gets points; disabled stays disabled |
| VM scheduler, `vm_scheduler.py` | schedules with last_run | create, toggle, delete; minute poll; action thread | poll drifts; last_run saved after the action | once in each matching minute |
| Automatic snapshots, `auto_snapshot.py` | configuration; snapshots | sleep until the time; run; age limit | configuration read before the sleep; clean-up after a failed snapshot | one snapshot a day, never none left |
| Audit chain, `audit_chain.py` | hash-chained log | append, verify | torn last line | an intact log verifies; an altered one does not |
| Sessions, logins and lockouts: `session_manager.py`, `security_hardening.py`, `app.py` | session table in memory; temporary tokens in memory; `lockouts.json` | log in with one or two factors, use, log out, revoke, delete a user, clean up, unlock | unknown tokens are good and registered at first use; clean-up by age; restart | a revoked token stays revoked; a lock outlives a restart |
| Disk images: `vm_manager.py`, `linked_clone.py`, `template_manager.py` | images named after VMs; backing chains; libvirt definitions; clone jobs in memory | create, delete, clone in a thread, linked clone, template create, deploy, delete | the image is made before libvirt checks the name; deletes beside running clones; failing commands | what a guest has written stays; no chain loses a link |
| Tenants: `tenant_manager.py`, `self_service_portal.py`, `vm_manager.list_vms` | `tenants.json`; the cached list of VMs | tenants, quotas, assignments; a user's request for a VM | the check reads a cache that a thread may fill with an old list; failing listings; deletes that leave assignments | the quota holds; nothing is assigned to a tenant that is gone |
| Bulk operations, `bulk_vm_ops.py` | job file; confirmation tokens | start, stop, delete many | four workers; record written last | a token is used once; every VM is accounted for |
| Maintenance, `maintenance_mode.py` | hosts in maintenance | plan, enter, exit | marked after the evacuation | no VM is lost; none arrives |
| Replication, `cross_replication.py`; migration, `storage_migration.py` | configuration and status; jobs in memory | configure, run, status | overlapping runs; status after a crash | one run at a time; lag since the last success |
| Webhooks, `webhook_manager.py` | registrations; deliveries | register, trigger, send | a thread each | nothing promised |

Components meet in few places: handlers of `app.py` call the managers; VmNetwork's
thread and the handlers share `ip_pool.json`; the auto scaler, the backup scheduler,
CDP and automatic snapshots act on the same domains but on different aspects of
them; the portal's quota check and every page that shows VMs share the cached list of
`vm_manager`. Each file has one owning module, with the exception of `ip_pool.json`.

## 3. Modules

| Module | What it is |
|---|---|
| `IpPool` | the pool manager at the level of its lock: a call is a step |
| `IpPool_proofs` | its theorems |
| `AddressBook` | the abstract life of an address: booked, given, given back, and free again |
| `VmNetwork` | the VM's addresses below the lock: handlers, threads, rules; implements `AddressBook` |
| `VmNetwork_proofs` | its theorems |
| `SnapshotWindow` | the abstract promise of a retention policy |
| `BackupScheduler` | schedules, the scheduler thread, backup threads; implements `SnapshotWindow` |
| `BackupScheduler_proofs` | its theorems |
| `AutoScaler` | policies and passes |
| `AutoScaler_proofs` | its theorems |
| `Standby` | the abstract promise of a standby copy |
| `FaultTolerance`, `FaultTolerance_proofs` | pairs of a primary and a secondary, command by command; implements `Standby` |
| `Accounts`, `Accounts_proofs` | tokens, sessions, second factors and lockouts |
| `DiskStore`, `DiskStore_proofs` | VMs, templates and the images below them |
| `Tenants`, `Tenants_proofs` | tenants and their quotas against the cached list of VMs |
| `MC*` | small instances for TLC |

### IpPool

`pools` and `assignments` are the two halves of the document. Addresses are
integers, "not a key of the dict" is `NoPool` or `Free`. Each call that loads,
changes and saves under `_lock` is one action of the same name; a call that
raises leaves the document alone and is not enabled. `AllocateIp` takes the
lowest address of the range that is not reserved and has no entry **with the
pool's own label**, as lines 147-153 do. `ManualAssign` overwrites whatever entry
is there. `FreeIps` is the number `list_pools` reports and `Available` the list
`allocate_ip` chooses from: the code computes them in two different ways.

What the code does not check is a constant: `AddressPlan` says where operators
put each pool, and with `Disciplined` manual changes keep an address of the plan
under its pool's label.

### VmNetwork

The hub is one variable: `hub.at` says which call of the running handler is next,
so that one request is served at a time and is interrupted only by threads and by
a crash. A call of the pool manager is a `HubLoad` and the action that saves.
Handlers and the lines of `app.py` they stand for:

- **create** (1703-1865): `Create`, for a bridged pool `PreAllocate` under a
  temporary `__pre__` owner, then `DefineVm` or `DefineFails` (+ `UndoPre`), then
  `DropPre` and `Claim`, or `Allocate`; a NAT pool goes on with `SetUpNat`
  (reservation and rules) and `RecordInternal`, which starts a thread.
- **start**, **stop** (1978-2064): the VM comes up with some address `Nic` allows;
  an entry with a pool label starts a thread.
- **delete** (1911-1976): `LookUp`, `Dismantle` (reservation, rule, domain), `Release` by id and,
  when the entry that was found told a MAC, `ReleaseMac`. Which entry that is, of a VM with a
  public and an internal one, is the order of the file: any may be (`FirstOf`).
- **nat-sync** (3111-3257): `NatSync` takes an address of the VM with a pool's label and the one it is seen
  with; if it is not seen, `TakeRecorded` or else `ReserveDerived` and `RecordDerived`, which
  end the request; otherwise `ResetNat` and `MoveInternal`. It reads and moves the internal
  record without the lock, beside a thread that may be doing the same.
- **thread** `_post_install_nat_sync` (4039-4100): `SeeArp` or `GiveUp` after fifteen
  minutes, `CleanNat`, `AddNat`, `LoadDoc`, `SaveDoc`, without the lock.

DNAT rules are a bag, since `iptables -A` appends a second copy and `-D` takes one
away. `Resembles` is the substring test `f"-d {ip}" in line`. A load fails
(`Unloadable`) when the file is torn or a thread has truncated it; the handlers
catch that in different places, and the model follows each. `Reliable` and
`Crashes` switch the faults, `MaxStarts`, `MaxResyncs` and `Threads` are bounds.
`Resynced` says for which pools' VMs operators ask for a nat-sync; the code asks for
nothing, and section 5 tells what happens on a bridged pool. The ARP table forgets a VM, leases of
dnsmasq expire, and a source that cannot be asked or read shows nothing: nat-sync may see no
address of any VM (`Seen`). When in the same instant a thread has truncated the file, it finds
no record either and adds a second internal address; OneRecordPerSync says that nothing else does.

`AddressBook` says what is left when documents, owners, threads and rules are taken away:
an address is booked for a VM when nobody else has it, the VM has an address only while it
is booked for it, and the booking ends when the VM has given the address back. In the mapping
(`BookedFor`) an address is booked for the VM that its entry names, whether as owner or by the
temporary name; and between `DropPre` and `Claim`, when the document has it free, it is
booked for the VM of the handler. That the handler is alone there is what has to be shown.

Simplifications: pools are fixed (IpPool has their operations); all pool addresses
lie outside libvirt's own subnet, so that NAT is needed unless the pool is bridged; the route
that assigns an address by hand (`api_ipam_assign_vm`, 4221-4350) is not an action;
the FORWARD and MASQUERADE rules follow the DNAT rule and are not kept; `_setup_nat`
itself does not raise; a VM has a MAC. In the instances two VMs do not share a formula address.

### SnapshotWindow and BackupScheduler

`SnapshotWindow` keeps points in time, taken in whatever order; one is dropped only while at
least `Floor` later ones are kept.

In `BackupScheduler` every handler is one step, for it loads and saves under the
lock. The scheduler thread is `Scan` (load, find what is due) and for each due schedule
`Fire` (reload, save its `next_run`, line 505) and `Launch` (start a thread **with the copy it
loaded first**, 508-514) or `LaunchFails`, which ends the scan; then `Sleep`. A backup thread is
`NameSnapshot` (the time in the name, line 212), `CreateSnapshot` (when virsh comes back),
`ListSnapshots`, `Prune` for each old one, `Finish`. So names need not come in their order; and
what libvirt was asked for by a thread that timed out or was killed may be done later
(`LateCreate`, `LateDelete`). The clock ticks freely; a snapshot's name is its tick, so two in one
tick clash and the second fails, as two in one second do. A cron expression is
a period. `Faults` names what can fail: loads (`_load` answers "no schedules", so a creation then
drops the others), saves (which are logged and forgotten), virsh, starting a thread. The
retention mapping is `kept <- snaps`. All schedules are of one VM, which
is the interesting case: they prune the same list. `covered` is a history variable: the latest
due time that the file has recorded as served.

### AutoScaler

Each policy handler is one step. A pass is `Begin` (load, note the time), for each
policy `Skip` or `Measure`, for each resource `Resize` or `LeaveSize`, `EndRound`, and
`EndPass`, which saves the list of `Begin`. The worker and a triggered request are two
scalers; while the hub makes a pass it serves no handler (`HubIsFree`), so the two
passes interleave with each other and the handlers only with the worker's. The load of
the VM is not modelled: a measurement may ask for more, for less or for nothing.
`scaled` is a history variable: when a policy last resized the VM, which the code only
knows when the file survives. A save empties the file first: one that fails leaves the old
list, or none (`Save`). A memory step may be smaller than the floor of 512 MB; only the vCPUs,
whose size can read as zero, need a step that is not. Clients change limits and `enabled`; that
`update_policy` would also accept a `last_action` from the request is left out.

### FaultTolerance

`hub.at` is the next command of the running handler; each command (`qemu-img convert`,
`defineXML`, `virsh shutdown`, `start`, `destroy`, `undefine`) and the save at the end is
an action, and `Raise` ends the handler where it is. The content of a primary's disk is
the number of writes it has seen (`written`); a copy `holds` some of them, or is a
`Fragment` while and after it failed; `own` says that the secondary has written it. The
save is atomic here (`tmp.replace`), so it happens or it does not (`SaveFails`).
`create_ft_pair` takes `last_sync` after it has copied, defined and refreshed the pool, when the image
has long been released: `hub.seen` is taken when the copy begins, for its content, and at
`Stamp`, for the record. A domstate that fails reads as "not-found" (`Sees`), and the result of the
destroy is not looked at: the secondary that such a failover starts is `misled`. A file that cannot
be read passes for an empty one: `CreatePair` is then not refused, and saves the new pair alone
("lost" in `hub.notes`). `Locking` is qemu's image lock; `Careful` is what the code leaves to
operators: not to start a primary while a handler has its disk or its state in hand (`InHand`).
`reported` is a history variable: failed over, the caller told, and the file says so.

`Standby` has of all this the writes, the copy, what is promised of it and whether the standby has
taken over. In the mapping a fragment and a missing disk are no copy, `last_sync` is the promise, and
a pair counts as taken over from the answer of `trigger_failover` until `remove_ft`, or a create that
could not read the file, is at work on it: one that is killed leaves it taken over again (`Withdrawn`).

Simplifications: one disk per VM and secondary disks of different names (the code takes
the basename of the primary's disk); the checkpoint is left out, nothing reads it.

### Accounts

`issued` are the JWTs that exist, which no table lists; `sessions` is the table of
`session_manager.py`, `pending` the temporary tokens between the password and the code,
`failed` and `lockouts` the failure counts in memory and on disk. Each handler is a step;
the session clean-up and the 2FA clean-up are threads that hold the lock of what they
clean, so each pass is a step too. `Use` is `require_auth` with a token that is not in the
table: it registers it. `Restart` empties the tables in memory and loads the lockouts. The save of
the lockouts swallows its failure (`SetFailures`), and a load that fails finds no lockouts.
Whether a password or a code is right is a choice. `revoked`, `unsaved`, `misses` and `barred` are
history variables for the two properties; `unsaved` are the users whose last change no save has
written, and a restart begins their row of failures anew, for that is what it does to the file's.

### DiskStore

A file is named by what the code derives its path from: a VM's name, a template's id, or
for a deployed VM a random suffix (here the VM's id). Its state is its `base` and whether
a guest has `written` to it. create, linked clone and deploy share `MakeImage`, `DefineVm`
or `DefineFails`, and for deploy `StartDeployed`; delete is `DeleteVm` (destroy), `Undefine`,
`RemoveDisk`; a clone job is `CloneVm` (look the name up), `BeginConvert`, `EndConvert`,
`DefineClone`. `WrittenTo` is qemu's lock, which makes `qemu-img` fail on an image a VM has
open. It fails in `list_dependents` too, so `Dependents` leaves out the disks in use; it looks at VMs
only, not at templates, and answers what it has when it breaks off ("list" in `Faults`). A conversion
that fails makes `CreateTemplate` copy the overlay as it is, with its base. What the code
does not check is a constant: `FreshNames` (a name is given to one new VM at a time), `Checked`
(operators delete only right after `list_dependents` has answered "none"). `pulled` is a history
variable: what was deleted although somebody was based on it whom the list left out.

### Tenants

`state`, `quota`, `userTenant`, `vmTenant` are `tenants.json`; `vms` is libvirt, `cache` is
`_LIST_CACHE` of `vm_manager.py`, and `listing[l]` is what a thread got from libvirt and has not
stored yet. An administrator may assign a VM that does not exist, or not yet (`AssignVm`). A handler
runs to its end on the hub, so `PortalCreate` - check, create, assign - is one step; what comes in
between is only `BeginList` and `EndList` of other threads. In the code there is one such thread,
the telemetry sender; `Listers` is any number. `excused` is a history variable: tenants that an
administrator gave VMs or took quota from, or for whom a listing failed. Of the quota the number of
VMs is modelled; vCPUs and memory are summed over the same list and compared in the same way.

## 4. Runs, bounds and fairness

| Run | Checks | Instance |
|---|---|---|
| `ip_pool_plan` | TypeOK, Labelled, ReportedFreeIsAvailable, AllocateTakesFree | two pools, three addresses, two MACs; reserved lists inside and outside the ranges |
| `vm_network_life` | PublicExclusive, OwnerRecorded, PreReservationsTransient, DeletedHoldsNothing, AddressesAreBooked | two VMs, a NAT pool of two addresses and a bridged one of one, two threads, one start each, one nat-sync on the NAT pool; no faults |
| `vm_network_faults` | TypeOK, EntriesInPlace, OneRecordPerSync | the same with pools of one address; failing reservations and deletes, expired leases, one nat-sync, restarts |
| `backup_race` | NothingLeftOver, RetentionIsAWindow, MembershipByHandlers, OncePerDueTime | two schedules, retentions 1 and 2, two threads, three ticks; loads and saves fail |
| `backup_live` | TypeOK, RetentionIsAWindow, DueIsServed | one schedule, two cron expressions, one thread, retention 2, three ticks, every failure, updates, one restart, fairness |
| `auto_scaler_single` | StampSaved, CooldownKept | the worker alone; two policies with a fine and a coarse step, cool-down 2, four ticks |
| `auto_scaler_faults` | TypeOK, WithinBand | two scalers, vCPUs and memory, failures and restarts, cool-down 0 |
| `fault_tolerance` | TypeOK, CopyAsNewAsReported, NeverBoth, PromotedKept, PairsAreStandbys | two pairs, one write each; every command, save and load may fail, a kill anywhere |
| `accounts_restart` | TypeOK, RevokedStaysOut, LockSurvives | two users, one token, one temporary token, five ticks, lock after two failures; saves and loads fail |
| `disk_store` | TypeOK, ChainsWhole, ContentKept | four VMs, two names, a template, two clone jobs, failing images, definitions and listings, kills |
| `tenant_quota` | TypeOK, NoDangling, OverByListers | four VMs, two tenants of quota 0 or 1, one user, one listing thread |
| `vm_network_bridge_sync` | PublicExclusive (violated) | as `vm_network_life`, with nat-sync on the bridged pool too |

Why these bounds are enough to be interesting:

- *IpPool*: three addresses let pool a be exhausted, shrunk and moved while pool b
  holds an address; two pools are what labels need to be confused.
- *VmNetwork*: two VMs are what it takes to be given one address twice; two threads
  what it takes to overwrite each other; one start is what it takes for a second
  thread of the same VM; one nat-sync meets a thread of the create and one of the start.
  In `vm_network_life` reservations are honoured, so a thread
  finds the internal address where it was recorded and saves nothing: what a thread's
  save does is the matter of `vm_network_faults`, where addresses differ.
- *BackupScheduler*: two threads and retentions 1 and 2 give a thread that prunes by an
  old listing, with a smaller retention, while the other adds a snapshot. Three ticks are
  three snapshots, one more than the largest retention, which a thread in between can give names
  out of order; `backup_live` has no second thread, but creates and deletes that come late.
- *AutoScaler*: four ticks let a pass begin before, and measure after, the end of a
  cool-down of two; steps 1 and 2 between limits 0..2 and 1..3 give an overshoot of the
  maximum. In `auto_scaler_faults` the clock stands still and the cool-down is zero, which
  allows every overlap: time only restricts the passes.
- *FaultTolerance*: one write tells a copy apart from an older one and from the disk;
  two primaries share the hub and the file, which is all they share.
- *Accounts*: a token lives two ticks and its session three, so that a session is cleaned
  within five; a lock of two ticks can end, and failures can be counted again, before the
  end of time. `Expiry <= Retention` is the assumption the code meets with 1 and 13 hours.
- *DiskStore*: four VMs give chains of three images and a clone beside them; two names and
  two jobs are what it takes for a job and a handler to want the same name.
- *Tenants*: quota 1 with four VMs leaves room for three too many; the bound that holds is one.

Deadlock is not checked where the model ends by its bounds (VMs are created once, the
clock stops, ids run out); `ip_pool_plan`, `fault_tolerance`, `accounts_restart` and
`disk_store` check it.

*Fairness* is used in `backup_live` only. Weak fairness of a backup thread: the operating
system runs it, and each virsh call it makes has a timeout (lines 222, 232, 244). Strong
fairness of the scheduler thread: the loop runs for ever, and `Launch` waits in the model
for one of finitely many threads, a bound the code does not have, so a slot that comes
free again and again must be enough. Strong fairness of a `Scan` that reads the file and of a
`Fire` that changes it: both are tried at every poll, and a disk that is broken for ever is
excluded; without it DueIsServed would ask for a service that cannot be recorded. Handlers, the
clock and crashes have no fairness; crashes are bounded. `DueIsServed` counts a run as
served when the scheduler has recorded it and is past its start.

## 5. Disagreements between code and documentation

One run checks a property taken from a docstring, and TLC finds a counterexample:
`vm_network_bridge_sync`, PublicExclusive, which `vm_network_life` shows to hold while
nat-sync is asked for VMs of NAT pools only. The button is shown for every VM. Asked for
a VM of a bridged pool that the host has not seen, it records an internal address
(`RecordDerived`); the thread that the VM's start made then sees the VM under its public
address and moves the internal record there (`SaveDoc`), over the pool's entry. The pool
has the address free again and gives it to the next VM, although `allocate_ip` is said to
"allocate a free IP from the pool" (ip_pool.py:140). PROJECT.json quotes the lines.

The models also show the following, for which no run is kept because the sequence is
short once it is said. They are why some properties carry a condition.

- *A thread's save takes changes back.* The NAT thread loads and saves `ip_pool.json` without
  the lock (app.py:4090-4096): a public address that a handler assigned between `LoadDoc`
  and `SaveDoc` is free again. A reader of app.py:3235 expects only the `__internal__` record to change.
- *Rules of deleted VMs stay.* Create, the thread and nat-sync each append a copy of the DNAT
  rule and delete removes one (`WithNat`, `LessNat`), and a thread may append its own after the
  delete; app.py:1946 says that the NAT rules are cleaned up.
- *Bridged VMs get a DNAT rule.* The start handler starts a NAT thread for every labelled
  address (app.py:2013), bridged or not; the create handler says at app.py:1813 that there is
  no NAT on a bridge.
- *A delete may miss its rule.* The handler takes the first entry of the VM for the public one
  (app.py:1922, `FirstOf`); a record that a nat-sync or a thread put before it makes it the internal
  address, and the DNAT rule of the public one stays.
- *A second internal address.* nat-sync of a VM that the host does not see, in the instant in which
  a thread has truncated the file, records the formula address beside the one on record (`TakeRecorded`,
  `RecordDerived`): OneRecordPerSync allows one for each request.
- *A run is lost.* A restart between the save of `next_run` (backup_scheduler.py:505) and the start of
  the thread (514), or a thread that cannot be started, skips that backup (`Crash`, `LaunchFails`).
- *A run is repeated.* When that save fails, or the load before it, the schedule stays due and the
  next scan starts the same backup again (`Fire`): OncePerDueTime is about what the file has recorded.
- *Schedules and policies are dropped.* `_load` answers "none" for a file it cannot read, and a creation
  then saves its record alone (backup_scheduler.py:62-64, `CreateSchedule`; `CreatePolicy`). The auto
  scaler's save truncates the file first, so a save that fails loses all policies (`Save`, auto_scaler.py:69).
- *Snapshots out of order.* A snapshot is named before virsh makes it and may be made after its
  backup was given up (`LateCreate`), one that is to go may go then (`LateDelete`): pruning goes by names.
- *Deleted policies come back.* A pass saves the list it loaded first (auto_scaler.py:363), so a
  `delete_policy` ("delete the policy", line 151) during the pass is undone.
- *Failover and kill.* After a kill between `virsh start` of the secondary and the save, the pair
  says "protected", and the next synchronisation overwrites the secondary's disk once the
  secondary is off (`StartSecondary`, `Crash`, `SyncCheckpoint`). PromotedKept begins when
  the caller was answered.
- *A failing copy* leaves a fragment under a pair that says "protected" (`CopyFails`); a kill in
  `create_ft_pair` leaves a secondary whose name makes every later create fail (`DefineFails`).
- *A failing domstate or destroy.* `_vm_state_virsh` answers "not-found" when virsh fails
  (fault_tolerance.py:106-110), which skips or ends the stop of a running primary, and the result of the
  destroy is not looked at: both run, although a failover is to stop the primary (`Sees`, `DestroyPrimary`).
  NeverBoth says that it takes such a failure.
- *A pairs file that cannot be read* counts as one without pairs (fault_tolerance.py:61-62): a
  create copies over the disk of a secondary that took over, and its save drops all other pairs
  (`CreatePair`, `SavePair`).
- *last_sync is later than the copy.* It is taken at fault_tolerance.py:230, after the image is
  released: what a primary that is started in between writes is reported as safe (`Stamp`).
  CopyAsNewAsReported holds under `Careful`.
- *remove_ft after a failover* destroys the secondary, which is the only running copy
  (`DestroySecondary`); a paused primary is not stopped, although the answer says "has been
  stopped" (`TriggerFailover`, fault_tolerance.py:346).
- *A restart forgets revocations*, since sessions live in memory, and *a restart brings an
  unlocked account's lock back*, since `unlock_account` does not save (`Restart`, `Unlock`). A logout
  with a token the table does not know revokes nothing; tokens of recovery and single-sign-on
  logins are in the table only after their first use, so deleting the user misses unused ones.
- *A lock can be lost.* `_lockout_save` swallows every failure and `_lockout_load` finds nothing in
  a file it cannot read (security_hardening.py:46-48, 61-62); a restart then opens the lock.
  LockSurvives names the two cases.
- *create_vm writes before it asks.* The image of a new VM is made before libvirt refuses a name
  that is taken, over the disk of the VM of that name if that is off (`MakeImage`,
  `DefineFails`); two clone threads may choose one name (`CloneVm`), and a delete removes a
  file that a clone of the freed name writes (`RemoveDisk`). ContentKept holds under `FreshNames`.
- *Bases.* Nothing in the program asks `list_dependents` before a delete: ChainsWhole needs
  `Checked`. Nor is an empty answer enough: qemu-img cannot look at a disk in use (linked_clone.py:19-28), so
  running clones are not listed; templates never are; and an exception ends the list early (`Unlisted`).
  A template whose conversion fails, as that of a paused VM does, is a copy of the overlay that still
  needs its base (`TemplateImages`). ChainsWhole excuses the images that were deleted on such a list (`pulled`).
  A VM with linked clones can still be started and written, below its clones' overlays.
- *Quotas.* CHANGELOG.md:332 speaks of "hard resource quotas". A list stored after the cache was
  emptied lets a tenant have one VM too many per listing thread, and a failing listing counts
  as no usage (`EndList`, `PortalBlind`): OverByListers says exactly that. The list has no disk
  sizes and no addresses, so those quotas are never charged with what exists. Assignments
  of deleted VMs stay (`DeleteVm`), and VMs that do not exist can be assigned (`AssignVm`).
- *Locks protect nothing.* `lock_ip` stores a flag; `release_ip`, `release_by_mac`,
  `reassign_ip` and `manual_assign` do not look at it (`LockIp`, `Drop`, `ReassignIp`).
- *Overlapping pools.* With two ranges that share an address, `allocate_ip` of the second
  pool hands out what the first has assigned (line 147 counts the pool's own labels).
  AllocateTakesFree holds under `DisjointPlan` only.
- *A restart between two saves.* The temporary reservation goes in one save and the VM's
  entry comes in the next (app.py:1801-1805): a `Crash` between `DropPre` and `Claim` leaves
  the address of a VM free. OwnerRecorded is checked without crashes.
- *Prefixes.* `-d 10.0.0.1` is a substring of `-d 10.0.0.10`, so setting up the first
  deletes the rules of the second (`Resembles`, app.py:4144).
- *The old cron expression.* `check_due` computes `next_run` from its copy; after an
  `update_schedule` in between, the new expression stands beside a run of the old (`Fire`,
  `UpdateCron`); no route calls `update_schedule` yet.
- *Overlapping passes.* A triggered pass and the worker's scale within one cool-down, since
  each judges by the copy it loaded: CooldownKept needs `Triggers = FALSE`.
- *An unreadable vCPU count* reads as zero, and a scale-up from it shrinks the VM
  (`Readings`, auto_scaler.py:196); WithinBand says how far.

## 6. Proofs

`tlapm` checks every theorem to the last leaf. The constants are arbitrary within the
named assumptions of each module (`PoolConstants`, `NetworkConstants`, `BackupConstants`,
`ScalerConstants`, `FtConstants`, `AccountsConstants`, `DiskConstants`, `TenantConstants`), which TLC
evaluates in the runs.

**IpPool_proofs.** `TypeCorrect`: `Spec => []TypeOK`. `LabelsInPlace` and
`AllocationIsExclusive` assume that the plan is disjoint and operators keep to it
(`DisjointPlan`, `Disciplined`). `Labelled` is not inductive alone: an allocation puts a
label where the *document's* range lies, so the invariant adds `PoolsInPlan`, the ranges
in the document lie in the plan. That the address chosen is free then follows: an entry
at an address of the plan carries this pool's label, so it is among those the code
excludes. `LowestIn` (a non-empty set of naturals has its least element) rests on
well-foundedness of `<`. `ReportIsKept` needs none of this: the statistics subtract the
reserved and the assigned addresses from the size of the range, so what they promise is at most
the number of addresses that are neither, the overlap being subtracted twice.

**VmNetwork_proofs.** `TypeCorrect` assumes nothing: its invariant `Typed` says besides the types
what each step of a handler finds in its locals (`HubTyped`) and a thread in its copy
(`ThreadTyped`), and `CallsKeepDocs` that each call makes a document of a document.

`EntriesStayInPlace` and `RecordsAreCounted` hold for any sets of VMs, pools and
addresses and any number of threads, with every refusal of libvirt and kills, under one
assumption: nat-sync is not asked for VMs of bridged pools (`Resynced \cap Bridged = {}`;
`vm_network_bridge_sync` shows what happens otherwise). Neither is inductive, because an old copy of
the document is written back, so the invariant `NetInv` asks the same of every copy: the one a
handler has loaded and the one each thread is about to save (`CopiesSound`). A copy is *sound* when
its entries lie in place, when only a VM behind NAT has an internal one, and when that one is the
formula address as long as the host has not seen the VM (`EntryOk`). Facts about one VM
only ever become true (it is given an address, it is seen), so an old copy stays sound
(`SoundLater`). `HubOk` and `ThreadsOk` say what each step of a handler and of a thread knows of its VM.

`RecordsAreCounted` is a count on top of that. `Counted` bounds the internal entries of a VM by
`Records`, in the document and in every copy: one, and one for each nat-sync request that has come so far
that it can no longer record another. The record of a create is the VM's first, or the one that is there
already, since the VM is not seen yet and its record is at the formula address (`FewFirst`). A
request that derives an address adds one (`FewMore`). A move takes its old entry away, wherever
the new one lies (`FewMoved`), and an old copy, being itself bounded by a smaller number, is no worse
when it is written back (`RecordsGrow`).

`PublicIsExclusive`, `OwnerIsRecorded`, `ReservationsEnd` and `DeletedIsCleared` assume `Calm`:
besides the above, libvirt refuses nothing and the process is not killed. With `Crashes = TRUE` in
the instance of `vm_network_life` TLC finds each of the four violated, with `Reliable = FALSE` the
last three, and PublicExclusive once there are three VMs and two of them have the same
internal address: a thread that moves the record of an unreserved VM erases another VM's entry.
Nothing is assumed of `Formula`: two VMs may have the same internal address. Their invariant
`CalmInv` adds two parts to `NetInv`. `Quiet` says why the threads do no harm although they save
without the lock: a VM behind NAT is reserved, seen and recorded at the formula address, so no
thread ever finds a record to move, none is about to save, and what the hub has loaded is the
document. `Books` says what the document knows of each VM at each step of its request: the address
of an existing VM is the VM's (`Owners`), unless the handler still holds it as a reservation or has
just dropped that one (`Temporary`), and only the handler that is about to release them leaves
entries of a VM that is gone (`Gone`, `Present`). Between the drop and the claim the address is
free, and only the hub could take it (`Temporary`). The second release of a delete, by MAC, finds
nothing, for no entry has a MAC for its owner. An address that a pool can give away has no entry at
all (`AllocatesFree`), by the soundness of the document above. `NoWrite` is the one lemma for all
steps that do not write.

On `CalmInv` rests one more result.
`ImplementsAddressBook`: each step is one of AddressBook's or none. The gap between `DropPre`
and `Claim` is bridged by the mapping, so neither is a step of the book: `CalmInv` has the address
still free when it is claimed (`Claimings`). A define that fails ends a booking that nobody used
(`Endings`), which needs that the undone VM was given no address (in `HubOk`). A delete
returns the address first and ends the booking in a later save (`Returns`, `Endings`).
`BookPromises` proves of AddressBook alone that whoever has an address is booked for it, so no
address has two holders.

**BackupScheduler_proofs.** `ImplementsWindow`: `Spec => RetentionIsAWindow`, a refinement of
`SnapshotWindow` for any number of schedules, threads and restarts and with every failure. The
difficulty is that a thread deletes by an old listing. The inductive invariant is `TypeOK`,
`TodoKnown` (the schedules a scan has still to serve are in the copy it works on), and `Condemned`:
whatever somebody is about to delete, a thread that has listed it or libvirt for one that gave up
(`Doomed`), is followed by at least `Floor` later names now, not only when it was listed. A
creation, in time or late, in order or not, only adds to what is later (`Grown`). `Condemned`
survives the deletion of a condemned `y` by anybody in any order (`Shrunk`). What is at or after `y`
loses no later snapshot. What is before `y` has among its later ones all those that follow `y`, and
there are `Floor` of them, because `y` was condemned itself. `MembershipKept` follows from the
types, for ids are not used twice; it names the creation that could not load the file.
`DueTimesServedOnce` adds `Planned`: a schedule's next run lies after the last due time that the
file has recorded, and so it is for what a scan has still to serve, since only the scheduler records
one. It does not say that a backup is started once: where the save failed nothing was recorded.
`NothingIsLeft` (`Harmless`: virsh does not fail, no restart, no retention of zero) adds `Tidy`:
either few enough snapshots are left, or a thread is about to list them, or it has listed and leaves
no more than its retention when it has deleted what it condemned. Another thread's deletions only
help it, and a new snapshot comes with a thread that is going to list.

`NewestAreKept` draws what `ImplementsWindow` is worth: once `Floor` snapshots are there, no pruning leaves
fewer, and what it removes leaves a newer one behind.

**AutoScaler_proofs.** `BandHolds`: `Spec => []WithinBand` with the worker's pass and a triggered
one overlapping in any order; the invariant adds that every measurement a pass holds is a size of
the band or an unreadable zero (`SeenInBand`) and that a pass works on policies of its copy
(`CopyKnown`). A step may be smaller than the floor, except for a size that can read as zero: from
there one step has to reach it. `AloneKeepsCooldown` assumes `Alone`: no triggered pass, no restart,
no failed save. Its invariant adds `Stamped` (the last resize of a policy is on disk, or in the copy
of the pass under way), `Unborn` (an id not handed out yet has no past, anywhere) and `Begun` (the
worker's pass did not begin in the future); it is what makes the stale save harmless for the
cool-down, although it is not for deletions. `AloneSavesStamps` is the part of `Stamped` that
concerns the disk.

**FaultTolerance_proofs.** `PairInv` adds `HubKnows` to the types: a handler that works on a pair
has one, and one that copies has a pair that is not failed over, unless it creates it. That is all
`FailoverIsFinal` needs, since the hub serves one handler at a time. `LagIsHonest` (under `Locking`
and `Careful`) adds that a copy under way, and one that is yet to be stamped, is as new as the disk
(`CopyStill`: the primary is off while the lock is held, and nobody starts it before the stamp),
that a copy about to be recorded is whole and holds what will be recorded (`CopyFresh`), and that no
recorded time lies ahead (`SyncedPast`). The same invariant gives `ImplementsStandby`, command by
command: the copy is spoilt, made anew and promised (`CopyingIsStandby`), released, gone and
forgotten (`RemovingIsStandby`), and when a handler raises in a removal the standby takes over again
(`RaiseIsStandby`). A create that could not read the file releases the standby it finds, and at its
save the book of promises begins anew (`StartAnew`). `StandbyPromises` proves of Standby alone that
a whole copy holds what was promised, before and after it has taken over. `NeverBothRun` (under
`Careful`) adds that a primary is not running when its secondary is about to be started, unless a
command of this failover has failed (`StoppedFirst`).

**Accounts_proofs.** `RevocationHolds`: `Matches` relates a revoked token to its row (it is there
and marked, or the token is out of time: here `Expiry <= Retention` is used, and that the row
is not older than the token). `LockoutHolds`: `Remembers` relates the history of failures to the
counts, once in memory and once on disk for those whose last change was saved, which is why a restart that can
read the file changes nothing for them. A failing save leaves out only the user of its request, and the next one
that succeeds writes everybody's.

**DiskStore_proofs.** `WrittenDisksStay` (under `FreshNames`). The invariant says who may write a
file: two defined VMs do not share a disk (`Owned`), and a handler (`HubClear`) or a job
(`JobsClear`) that is going to make or remove a file has no defined VM on it, not even one that
another job is about to define, up to the command that defines it.

`ChainsStayWhole` (under `FreshNames` and `Checked`) adds where each disk's base lies (`Based`): the
disk of a VM, a template, the image of the running handler rest on nothing, on a template that
exists, on the disk of a defined VM, or on what was deleted on an incomplete list (`Founded`);
clones rest on nothing; and what a delete takes away is nobody's base or was asked for in vain
(`Loose`, `AskedFor`). That is one level; ChainsWhole is about all of them, and `Chain` is a
recursive function of as many levels as there are files. The set of what is founded is closed under
taking bases, so by induction over the levels everything in a chain is in it (`ChainWithin`); the
induction is made with the least level that leaves the set (`LeastIn`), and `IsFiniteSet(Files)` is
what makes the number of levels a number.

**Tenants_proofs.** `QuotaByListers`, for any number of listing threads. A list is *blind by k* to a
tenant when it misses more than k of its VMs. `Budget`: a tenant that is k over its quota
leaves at most `Listers` minus k lists, with the cache, that are still blind by k. `Announced`: a VM that
is not made yet belongs only to a tenant that is excused, so that making it charges no other. A request
is let through only by a blind cache; it empties the cache and makes the tenant one larger,
so a blind list is used up with every VM too many, and a new list is never blind. The
lemmas about cardinalities (`Counts`, `MissesLess`, `Charges`) rest on FiniteSetTheorems.

Out of the prover's reach, and left to TLC: liveness under fairness (`DueIsServed`) and anything about
ENABLED. Induction principles of the library cannot be instantiated by the installed provers; where a
proof needs one (`LowestIn`, `ChainWithin`) it goes by the least counterexample.

## 7. What is only model-checked, and what is not modelled

Only model-checked: DueIsServed, which is liveness. Every other property of the passing runs is
stated by a theorem.

Not modelled inside modelled components: `api_ipam_assign` in `app.py`; backup uploads and history,
which feed back into nothing; schedules without a next run (croniter missing or expression
rejected); negative retentions; a clock that is set back; the scaling event log; `convert_to_full`
of `linked_clone.py`, which no route calls; VNC ports and the installation monitor of
`vm_manager.py`; the console tokens of the portal; failing saves of `tenants.json` other than that
of an assignment.

Not modelled at all: the components marked so in PROJECT.json, each with its reason. The
repository has 72,000 lines, of which the modules cover a few per cent. `app.py` alone has
19,800: more than 900 routes, most of which parse a request, call one function and format
its answer. The browser code, the kernel modules, the billing and Terraform clients and the
translation scripts keep no state of the server. Most backend modules translate a request
into one command or one JSON record under one lock; a model of them would have one
variable, and no property that the assignment does not already state. What has a
protocol of its own - several steps, several actors, or a promise across a restart - was
modelled first, and these, which were read, were left:

- `cdp_manager.py`: the worker saves the state it loaded (line 117), so a VM disabled in the
  meantime is enabled again, and nothing starts the worker after a restart (line 126); pruning
  removes marker files and leaves the libvirt snapshots (line 97). What would be left to
  check once these are said is one assignment.
- `vm_scheduler.py`: `last_run` is saved after the action (line 295) and a poll can drift past its
  minute; BackupScheduler has the loop that saves first.
- `audit_chain.py`: sequential, under one lock; a torn last line (line 46) makes the next record
  start from the genesis hash.
- `maintenance_mode.py` (line 107) and `cross_replication.py` (line 211): nothing keeps two runs apart,
  which is the whole of their concurrency.
- `uptime_tracker.py`: the synchronisation files VMs by name and the handlers by id, so a VM has
  two entries, and the one by id stays "running" when the guest switches itself off.

## 8. Plan

What could follow, in the order of its worth. Proofs: what remains of the four Calm properties
of VmNetwork when reservations are refused but no record is moved; the cool-down of AutoScaler across a
restart between two passes; the tenants' quota for vCPUs and memory, which are sums.
Models: the VNC port registry of `vm_manager.py`, read and written by handlers and clone threads without a lock;
`api_ipam_assign` in VmNetwork; a second host, for replication and evacuation.
