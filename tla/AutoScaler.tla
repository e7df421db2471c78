----------------------------- MODULE AutoScaler -----------------------------
(***************************************************************************)
(* The auto scaler, src/ankavm/backend/auto_scaler.py.                     *)
(*                                                                         *)
(* The policies live in one JSON file.  The HTTP handlers create, update   *)
(* and delete them; each loads and saves the file under the lock, so each  *)
(* is one step.  A pass, check_and_scale, loads the file under the lock,   *)
(* lets go of it, measures and resizes the VM of every enabled policy, and *)
(* at last saves the list it loaded first.  The worker thread makes a pass *)
(* every minute; POST /api/autoscaler/trigger makes one on the hub, which  *)
(* serves no other request meanwhile.                                      *)
(*                                                                         *)
(* All policies are of one VM; its size is the one virsh last accepted.    *)
(* The load is not modelled: a measurement may ask for more, for less or   *)
(* for nothing.  The order of the list and the order of the two resources  *)
(* of a round are left open.                                               *)
(***************************************************************************)
EXTENDS Integers, FiniteSets

CONSTANTS
  Ids,         \* policy ids (uuids: never used twice)
  Resources,   \* what is scaled: vCPUs and memory
  Settings,    \* the limits a policy can have, see Limits
  Unreadable,  \* the resources whose size reads as zero when virsh fails: vCPUs
  Smallest,    \* [Resources -> Nat]: the floor in _scale_down_cpu and _mem
  Top,         \* [Resources -> Nat]: a bound of what the limits allow
  StartSize,   \* [Resources -> Nat]: the VM before it is scaled
  Cooldown,    \* cooldown_seconds
  MaxTime,     \* the last tick (bound)
  Triggers,    \* does anybody trigger a pass by hand?
  Crashes,     \* may the process be killed and restarted?
  Faults,      \* can virsh and the file system fail?
  None, NoId, Never

Sizes  == [Resources -> Nat]
Limits == [min : Sizes, max : Sizes, step : Sizes]
Times  == 0 .. MaxTime
Policy == [limits : Settings, enabled : BOOLEAN, last : Times \cup {Never}]
Files  == [Ids -> Policy \cup {None}]
Scalers   == {"worker", "hub"}
PassState == [busy : BOOLEAN, start : Times, copy : Files, todo : SUBSET Ids,
              id : Ids \cup {NoId}, seen : Sizes, left : SUBSET Resources]

(* The floor is one vCPU, and a step is at least one: only a size that can *)
(* read as zero needs that.  A memory step may be below its floor.         *)
ASSUME ScalerConstants ==
  /\ Settings \subseteq Limits /\ Unreadable \subseteq Resources
  /\ Smallest \in Sizes /\ Top \in Sizes /\ StartSize \in Sizes
  /\ Cooldown \in Nat /\ MaxTime \in Nat
  /\ {Triggers, Crashes, Faults} \subseteq BOOLEAN
  /\ \A r \in Resources :
       /\ Smallest[r] <= StartSize[r] /\ StartSize[r] <= Top[r]
       /\ \A s \in Settings : /\ 1 <= s.step[r]
                              /\ s.max[r] + s.step[r] - 1 <= Top[r]
  /\ \A r \in Unreadable, s \in Settings : Smallest[r] <= s.step[r]
  /\ None \notin Policy
  /\ NoId \notin Ids
  /\ Never \notin Nat

VARIABLES
  file,    \* the policies on disk
  born,    \* the ids that were handed out
  now,     \* the clock
  size,    \* libvirt: how large the VM is
  pass,    \* the pass of each scaler, with the copy of the file it loaded
  scaled   \* history: when a policy last resized the VM

vars == <<file, born, now, size, pass, scaled>>

Empty    == [i \in Ids |-> None]
Idle     == [busy |-> FALSE, start |-> 0, copy |-> Empty, todo |-> {},
             id |-> NoId, seen |-> Smallest, left |-> {}]

TypeOK ==
  /\ file \in Files
  /\ born \subseteq Ids
  /\ now \in Times
  /\ size \in Sizes
  /\ pass \in [Scalers -> PassState]
  /\ scaled \in [Ids -> Times \cup {Never}]

-----------------------------------------------------------------------------
(* The handlers. *)

(* _load answers an empty list when it cannot read the file. *)
Loaded == {file} \cup (IF Faults THEN {Empty} ELSE {})

(* _save empties the file and writes the list, or logs the error and       *)
(* returns: what it leaves half-written will load as an empty list.        *)
Save(new) == file' \in {new} \cup (IF Faults THEN {file, Empty} ELSE {})

HubIsFree == ~pass["hub"].busy

CreatePolicy(i, limits) ==
  /\ HubIsFree /\ i \notin born
  /\ born' = born \cup {i}
  /\ \E data \in Loaded :
       Save([data EXCEPT ![i] = [limits |-> limits, enabled |-> TRUE, last |-> Never]])
  /\ UNCHANGED <<now, size, pass, scaled>>

(* Mutant: the fields of the request replace the policy, last_action too.  *)
UpdatePolicyMut(i, limits, enabled) ==
  /\ HubIsFree /\ file[i] # None
  /\ Save([file EXCEPT ![i] = [limits |-> limits, enabled |-> enabled]])
  /\ UNCHANGED <<born, now, size, pass, scaled>>

(* Only keys that the policy has are changed; last_action is left alone.   *)
UpdatePolicy(i, limits, enabled) ==
  /\ HubIsFree /\ file[i] # None
  /\ Save([file EXCEPT ![i].limits = limits, ![i].enabled = enabled])
  /\ UNCHANGED <<born, now, size, pass, scaled>>

DeletePolicy(i) ==
  /\ HubIsFree /\ file[i] # None
  /\ Save([file EXCEPT ![i] = None])
  /\ UNCHANGED <<born, now, size, pass, scaled>>

-----------------------------------------------------------------------------
(* A pass: check_and_scale. *)

Begin(a) ==
  /\ ~pass[a].busy
  /\ a = "hub" => Triggers
  /\ \E data \in Loaded :
       pass' = [pass EXCEPT ![a] =
         [Idle EXCEPT !.busy = TRUE, !.start = now, !.copy = data,
                      !.todo = {i \in Ids : data[i] # None}]]
  /\ UNCHANGED <<file, born, now, size, scaled>>

Cooled(p, t) == p.last \in {Never} \cup 0 .. t - Cooldown

Eligible(p, t) == p.enabled /\ Cooled(p, t)

Current(a) == pass[a].copy[pass[a].id]

Ready(a, i) == pass[a].busy /\ pass[a].id = NoId /\ i \in pass[a].todo

(* Disabled, cooling down, or domstats failed. *)
Skip(a, i) ==
  /\ Ready(a, i)
  /\ Faults \/ ~Eligible(pass[a].copy[i], pass[a].start)
  /\ pass' = [pass EXCEPT ![a].todo = @ \ {i}]
  /\ UNCHANGED <<file, born, now, size, scaled>>

Readings ==
  {seen \in [Resources -> {size[r] : r \in Resources} \cup {0}] :
     \A r \in Resources :
       seen[r] = size[r] \/ (Faults /\ r \in Unreadable /\ seen[r] = 0)}

Measure(a, i) ==
  /\ Ready(a, i) /\ Eligible(pass[a].copy[i], pass[a].start)
  /\ \E seen \in Readings :
       pass' = [pass EXCEPT ![a].todo = @ \ {i}, ![a].id = i,
                            ![a].seen = seen, ![a].left = Resources]
  /\ UNCHANGED <<file, born, now, size, scaled>>

(* Mutant: the limit itself may still be scaled up. *)
LargerMut(limits, r, seen) ==
  {n \in {seen + limits.step[r]} : seen <= limits.max[r]}

(* Where the guards of check_and_scale let a measured size go.             *)
Larger(limits, r, seen) ==
  {n \in {seen + limits.step[r]} : seen < limits.max[r]}

Smaller(limits, r, seen) ==
  LET less == seen - limits.step[r]
  IN  {n \in {IF less < Smallest[r] THEN Smallest[r] ELSE less} : seen > limits.min[r]}

(* Mutant: last_action is when the pass began. *)
StampMut(a) == pass[a].start

(* last_action, also when virsh failed. *)
Stamp(a) == now

Resize(a, r) ==
  /\ pass[a].id # NoId /\ r \in pass[a].left
  /\ \E n \in Larger(Current(a).limits, r, pass[a].seen[r])
                \cup Smaller(Current(a).limits, r, pass[a].seen[r]) :
       size' = [size EXCEPT ![r] = n] \/ (Faults /\ UNCHANGED size)
  /\ pass' = [pass EXCEPT ![a].left = @ \ {r}, ![a].copy[pass[a].id].last = Stamp(a)]
  /\ scaled' = [scaled EXCEPT ![pass[a].id] = now]
  /\ UNCHANGED <<file, born, now>>

(* The load is between the thresholds, or the size is at its limit. *)
LeaveSize(a, r) ==
  /\ pass[a].id # NoId /\ r \in pass[a].left
  /\ pass' = [pass EXCEPT ![a].left = @ \ {r}]
  /\ UNCHANGED <<file, born, now, size, scaled>>

EndRound(a) ==
  /\ pass[a].id # NoId /\ pass[a].left = {}
  /\ pass' = [pass EXCEPT ![a].id = NoId]
  /\ UNCHANGED <<file, born, now, size, scaled>>

(* Mutant: the file is loaded again, and the times of this pass are lost. *)
EndPassMut(a) ==
  /\ pass[a].busy /\ pass[a].id = NoId /\ pass[a].todo = {}
  /\ pass' = [pass EXCEPT ![a] = Idle]
  /\ UNCHANGED <<file, born, now, size, scaled>>

(* The list that was loaded first replaces the file. *)
EndPass(a) ==
  /\ pass[a].busy /\ pass[a].id = NoId /\ pass[a].todo = {}
  /\ Save(pass[a].copy)
  /\ pass' = [pass EXCEPT ![a] = Idle]
  /\ UNCHANGED <<born, now, size, scaled>>

-----------------------------------------------------------------------------
Tick ==
  /\ now < MaxTime
  /\ now' = now + 1
  /\ UNCHANGED <<file, born, size, pass, scaled>>

(* A process that is killed while it saves leaves a file that cannot be    *)
(* parsed, which _load takes for an empty list.                            *)
Crash ==
  /\ Crashes
  /\ file' \in {file, Empty}
  /\ pass' = [a \in Scalers |-> Idle]
  /\ UNCHANGED <<born, now, size, scaled>>

Init ==
  /\ file = Empty
  /\ born = {}
  /\ now = 0
  /\ size = StartSize
  /\ pass = [a \in Scalers |-> Idle]
  /\ scaled = [i \in Ids |-> Never]

Handler ==
  \E i \in Ids :
    \/ \E limits \in Settings :
         \/ CreatePolicy(i, limits)
         \/ \E enabled \in BOOLEAN : UpdatePolicy(i, limits, enabled)
    \/ DeletePolicy(i)

Pass(a) ==
  \/ Begin(a)
  \/ \E i \in Ids : Skip(a, i) \/ Measure(a, i)
  \/ \E r \in Resources : Resize(a, r) \/ LeaveSize(a, r)
  \/ EndRound(a)
  \/ EndPass(a)

Next == Handler \/ (\E a \in Scalers : Pass(a)) \/ Tick \/ Crash

Spec == Init /\ [][Next]_vars

-----------------------------------------------------------------------------
(* Properties. *)

(* The VM never leaves the band of its policies: at least the smallest     *)
(* size, at most one step less one above a maximum (the code scales by a   *)
(* whole step, whatever is left to the maximum).  Two passes that overlap, *)
(* each acting on a size it measured earlier, do not add up.               *)
WithinBand == \A r \in Resources : Smallest[r] <= size[r] /\ size[r] <= Top[r]

(* A policy begins a round only when its cool-down has passed since it     *)
(* last resized the VM, however long the passes take and whatever the      *)
(* handlers save in between (auto_scaler.py:5, "protected by a cool-down").*)
CooldownKept ==
  [][\A a \in Scalers, i \in Ids :
       Measure(a, i) => scaled[i] = Never \/ now - scaled[i] >= Cooldown]_vars

(* A policy whose pass is over has the time of its last resize on disk:    *)
(* the handlers, which save in the middle of a pass, do not take it back.  *)
StampSaved ==
  (\A a \in Scalers : ~pass[a].busy)
    => \A i \in Ids : file[i] # None => file[i].last = scaled[i]
=============================================================================
