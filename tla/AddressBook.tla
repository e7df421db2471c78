---------------------------- MODULE AddressBook ----------------------------
(***************************************************************************)
(* What the life of an address comes to, whoever manages it: a VM is       *)
(* booked for an address that nobody is booked for, it is given the        *)
(* address it is booked for, it gives it back, and only then does the      *)
(* booking end.  So two VMs never have one address at a time.              *)
(***************************************************************************)

CONSTANTS
  Vms, Addresses,
  Nobody,   \* not a VM
  Nowhere   \* not an address

VARIABLES
  book,     \* who is booked for each address, or Nobody
  given     \* the address each VM has, or Nowhere

Init ==
  /\ book = [a \in Addresses |-> Nobody]
  /\ given = [v \in Vms |-> Nowhere]

Book(v, a) ==
  /\ book[a] = Nobody
  /\ \A b \in Addresses : book[b] # v
  /\ book' = [book EXCEPT ![a] = v]

Give(v, a) ==
  /\ given[v] = Nowhere
  /\ given' = [given EXCEPT ![v] = a]

BookOnly(v, a) == Book(v, a) /\ UNCHANGED given

BookAndGive(v, a) == Book(v, a) /\ Give(v, a)

GiveBooked(v, a) == book[a] = v /\ Give(v, a) /\ UNCHANGED book

Return(v) ==
  /\ given[v] # Nowhere
  /\ given' = [given EXCEPT ![v] = Nowhere]
  /\ UNCHANGED book

EndBooking(v) ==
  /\ given[v] = Nowhere
  /\ book' = [a \in Addresses |-> IF book[a] = v THEN Nobody ELSE book[a]]
  /\ UNCHANGED given

Next ==
  \E v \in Vms :
    \/ \E a \in Addresses : BookOnly(v, a) \/ BookAndGive(v, a) \/ GiveBooked(v, a)
    \/ Return(v) \/ EndBooking(v)

Spec == Init /\ [][Next]_<<book, given>>

(* A VM has only an address that it is booked for. *)
HoldersBooked ==
  \A v \in Vms : given[v] # Nowhere => given[v] \in Addresses /\ book[given[v]] = v
=============================================================================
