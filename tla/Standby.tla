------------------------------ MODULE Standby ------------------------------
(***************************************************************************)
(* What a pair of a VM and its standby comes to, whoever manages it: the   *)
(* standby's copy is made anew while it has not taken over, what is        *)
(* promised of it is what it holds, and once the standby has taken over    *)
(* nobody touches its copy until the pair is released.                     *)
(***************************************************************************)
EXTENDS Integers

CONSTANT Vms

VARIABLES
  made,      \* how many writes each VM has made
  copy,      \* how many of them its copy holds, or None
  promise,   \* how many of them its owner was told are safe, or None
  takenOver  \* the VMs whose standby has taken over

None == -1

Init ==
  /\ made = [v \in Vms |-> 0]
  /\ copy = [v \in Vms |-> None]
  /\ promise = [v \in Vms |-> None]
  /\ takenOver = {}

Write(v) ==
  /\ made' = [made EXCEPT ![v] = @ + 1]
  /\ UNCHANGED <<copy, promise, takenOver>>

Spoil(v) ==
  /\ v \notin takenOver
  /\ copy' = [copy EXCEPT ![v] = None]
  /\ UNCHANGED <<made, promise, takenOver>>

Refresh(v) ==
  /\ v \notin takenOver
  /\ copy' = [copy EXCEPT ![v] = made[v]]
  /\ UNCHANGED <<made, promise, takenOver>>

Promise(v) ==
  /\ v \notin takenOver
  /\ copy[v] # None
  /\ promise' = [promise EXCEPT ![v] = copy[v]]
  /\ UNCHANGED <<made, copy, takenOver>>

TakeOver(v) ==
  /\ promise[v] # None
  /\ takenOver' = takenOver \cup {v}
  /\ UNCHANGED <<made, copy, promise>>

Release(v) ==
  /\ takenOver' = takenOver \ {v}
  /\ UNCHANGED <<made, copy, promise>>

Forget(v) ==
  /\ v \notin takenOver
  /\ promise' = [promise EXCEPT ![v] = None]
  /\ UNCHANGED <<made, copy, takenOver>>

(* The book of promises is lost, and begun anew with that of v. *)
StartAnew(v) ==
  /\ v \notin takenOver
  /\ copy[v] # None
  /\ promise' = [u \in Vms |-> IF u = v THEN copy[v] ELSE None]
  /\ takenOver' = {}
  /\ UNCHANGED <<made, copy>>

Next ==
  \E v \in Vms :
    \/ Write(v) \/ Spoil(v) \/ Refresh(v) \/ Promise(v)
    \/ TakeOver(v) \/ Release(v) \/ Forget(v) \/ StartAnew(v)

Spec == Init /\ [][Next]_<<made, copy, promise, takenOver>>

(* A copy that is whole holds all that was promised of it, also after the  *)
(* standby has taken over.                                                 *)
PromiseKept == \A v \in Vms : copy[v] # None => promise[v] <= copy[v]
=============================================================================
