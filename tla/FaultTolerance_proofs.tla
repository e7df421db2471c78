------------------------ MODULE FaultTolerance_proofs ------------------------
(***************************************************************************)
(* Proofs about FaultTolerance, for any number of pairs and writes.  That  *)
(* a reported failover is final needs no assumption; the age of the copy   *)
(* rests on qemu's image locks and on operators who leave the primary      *)
(* alone, and that the two VMs never run at once on the latter.            *)
(***************************************************************************)
EXTENDS FaultTolerance, TLAPS

CopyCalls == {"copy", "copying", "define", "stamp", "save"}
PairCalls == {"stop", "wait", "start", "promote", "destroy", "undefine", "forget"}

(* What the running handler still knows of the file it loaded.  A pair     *)
(* that was reported as failed over is not being copied onto, unless the   *)
(* file could not be read.                                                 *)
HubKnows ==
  /\ hub.at \in PairCalls => pairs[hub.vm] # NoPair
  /\ hub.at \in CopyCalls => hub.vm \notin reported \/ "lost" \in hub.notes
  /\ "lost" \in hub.notes => hub.at \in CopyCalls
  /\ \A v \in reported : pairs[v] # NoPair /\ pairs[v].status = "failover"

PairInv == TypeOK /\ HubKnows

LEMMA PairInit == Init => PairInv
<1> SUFFICES ASSUME Init PROVE PairInv
  OBVIOUS
<1>1. Idle \in HubState
  BY FtConstants DEF Idle, HubState, Calls, Writes
<1> QED
  BY <1>1, FtConstants DEF Init, PairInv, TypeOK, HubKnows, Idle, Writes, CopyCalls, PairCalls

(* A handler that raises leaves everything but the hub as it was. *)
LEMMA PairRaise == PairInv /\ Raise => PairInv'
<1>1. Idle \in HubState
  BY FtConstants DEF Idle, HubState, Calls, Writes
<1> QED
  BY <1>1 DEF Raise, PairInv, TypeOK, HubKnows, Idle, domains, CopyCalls, PairCalls

(* Whatever it sees of the secondary, remove_ft goes on to one of three    *)
(* commands.                                                               *)
LEMMA RemoveBegins ==
  ASSUME NEW v, RemoveFt(v)
  PROVE  \E call \in {"destroy", "undefine", "forget"} : Begin(v, call, {})
<1> DEFINE seen == IF v \in running THEN "running"
                   ELSE IF v \in defined THEN "shut off" ELSE "not-found"
           next(state) == CASE state = "running"   -> "destroy"
                            [] state = "shut off"  -> "undefine"
                            [] state = "not-found" -> "forget"
<1>1. PICK state \in Sees(seen) : Begin(v, next(state), {})
  BY DEF RemoveFt
<1>2. state \in {"running", "shut off", "not-found"}
  BY <1>1 DEF Sees
<1>3. next(state) \in {"destroy", "undefine", "forget"}
  BY <1>2
<1> HIDE DEF next
<1> QED  BY <1>1, <1>3

LEMMA PairBegin ==
  ASSUME PairInv, NEW v \in Vms, NEW call \in Calls, NEW notes \in SUBSET Notes,
         Begin(v, call, notes),
         call \in PairCalls => pairs[v] # NoPair,
         call \in CopyCalls => v \notin reported \/ "lost" \in notes,
         "lost" \in notes => call \in CopyCalls
  PROVE  PairInv'
<1>1. hub' = [at |-> call, vm |-> v, seen |-> 0, notes |-> notes]
  BY DEF Begin, Idle
<1>2. hub' \in HubState
  BY <1>1, FtConstants DEF HubState, Writes
<1> QED
  BY <1>1, <1>2 DEF Begin, PairInv, TypeOK, HubKnows, domains

LEMMA PairStart ==
  ASSUME PairInv, NEW v \in Vms,
         CreatePair(v) \/ SyncCheckpoint(v) \/ TriggerFailover(v) \/ RemoveFt(v)
  PROVE  PairInv'
<1> USE DEF Calls, Notes, PairCalls, CopyCalls
<1>1. CASE CreatePair(v)
  <2>1. CASE pairs[v] = NoPair /\ Begin(v, "copy", {"new"})
    <3>1. v \notin reported
      BY <2>1 DEF PairInv, HubKnows
    <3> QED  BY <2>1, <3>1, PairBegin
  <2>2. CASE Begin(v, "copy", {"new", "lost"})
    BY <2>2, PairBegin
  <2> QED  BY <1>1, <2>1, <2>2 DEF CreatePair
<1>2. CASE SyncCheckpoint(v)
  <2>1. v \notin reported /\ Begin(v, "copy", {})
    BY <1>2 DEF SyncCheckpoint, PairInv, HubKnows
  <2> QED  BY <2>1, PairBegin
<1>3. CASE TriggerFailover(v)
  <2>1. PICK call \in {"stop", "start"}, notes \in SUBSET {"blind"} : Begin(v, call, notes)
    BY <1>3 DEF TriggerFailover, Blind
  <2> QED  BY <1>3, <2>1, PairBegin DEF TriggerFailover
<1>4. CASE RemoveFt(v)
  <2>1. PICK call \in {"destroy", "undefine", "forget"} : Begin(v, call, {})
    BY <1>4, RemoveBegins
  <2> QED  BY <1>4, <2>1, PairBegin DEF RemoveFt
<1> QED  BY <1>1, <1>2, <1>3, <1>4

LEMMA PairEnvironment ==
  ASSUME PairInv, NEW v \in Vms, Environment(v)
  PROVE  PairInv'
<1>1. UNCHANGED <<pairs, hub, reported>>
  BY DEF Environment, PrimaryWrites, SecondaryWrites, Power, StartByHand, SecondaryStops
<1>2. /\ primary' \in [Vms -> {"off", "running", "paused"}]
      /\ written' \in [Vms -> Writes]
      /\ defined' \subseteq Vms /\ running' \subseteq Vms
      /\ disk' \in [Vms -> Copy \cup {NoDisk, Fragment}]
      /\ misled' \subseteq Vms
  <2> USE DEF PairInv, TypeOK
  <2>1. CASE PrimaryWrites(v)
    BY <2>1, FtConstants DEF PrimaryWrites, Writes
  <2>2. CASE SecondaryWrites(v)
    <3>1. [disk[v] EXCEPT !.own = TRUE] \in Copy
      BY <2>2 DEF SecondaryWrites, Copy
    <3>2. disk' = [disk EXCEPT ![v] = [disk[v] EXCEPT !.own = TRUE]]
      BY <2>2 DEF SecondaryWrites
    <3> QED  BY <2>2, <3>1, <3>2 DEF SecondaryWrites
  <2>3. CASE \E state \in {"off", "running", "paused"} : Power(v, state)
    BY <2>3 DEF Power
  <2>4. CASE StartByHand(v)
    BY <2>4 DEF StartByHand
  <2>5. CASE SecondaryStops(v)
    BY <2>5 DEF SecondaryStops
  <2> QED  BY <2>1, <2>2, <2>3, <2>4, <2>5 DEF Environment
<1> QED  BY <1>1, <1>2 DEF PairInv, TypeOK, HubKnows

(* A handler goes on from one command to the next. *)
LEMMA HubMoves ==
  ASSUME TypeOK, NEW call \in Calls, NEW notes \in SUBSET Notes,
         \/ notes = hub.notes /\ hub' = [hub EXCEPT !.at = call]
         \/ hub' = [hub EXCEPT !.at = call, !.notes = notes]
  PROVE  /\ hub' \in HubState /\ hub'.at = call /\ hub'.notes = notes
         /\ hub'.vm = hub.vm /\ hub'.seen = hub.seen
BY DEF TypeOK, HubState

(* What it knows, it knows after that as before. *)
LEMMA HubKeeps ==
  ASSUME PairInv, hub.at # "idle", UNCHANGED <<pairs, reported>>,
         hub'.vm = hub.vm, hub'.at # "idle",
         hub'.at \in PairCalls => hub.at \in PairCalls,
         hub'.at \in CopyCalls => hub.at \in CopyCalls /\ hub'.notes = hub.notes,
         hub'.at \notin CopyCalls => "lost" \notin hub'.notes
  PROVE  HubKnows' /\ hub'.vm \in Vms
BY DEF PairInv, TypeOK, HubKnows

LEMMA PairStep ==
  ASSUME PairInv, NEW v \in Vms, Handler(v)
  PROVE  PairInv'
<1> USE DEF PairInv, TypeOK, HubKnows, At, Step, CopyCalls, PairCalls
<1>0. /\ Idle \in HubState /\ hub.notes \subseteq Notes
      /\ hub.vm \in Vms \cup {NoVm} /\ hub.seen \in Writes
  BY FtConstants DEF Idle, HubState, Writes, Calls
<1>1. CASE CreatePair(v) \/ SyncCheckpoint(v) \/ TriggerFailover(v) \/ RemoveFt(v)
  BY <1>1, PairStart
<1>2. CASE CopyRefused(v) \/ CopyFails(v) \/ DefineFails(v) \/ SaveFails(v) \/ StartFails(v)
  <2>1. Raise
    BY <1>2 DEF CopyRefused, CopyFails, DefineFails, SaveFails, StartFails
  <2> QED  BY <2>1, PairRaise
<1>3. CASE BeginCopy(v)
  <2>1. hub' \in HubState
    BY <1>3 DEF BeginCopy, HubState, Calls
  <2> QED  BY <1>3, <2>1 DEF BeginCopy, HubState
<1>4. CASE EndCopy(v)
  <2>1. hub' \in HubState
    BY <1>4 DEF EndCopy, HubState, Calls
  <2>2. [holds |-> hub.seen, own |-> FALSE] \in Copy
    BY <1>0 DEF Copy
  <2>3. disk' \in [Vms -> Copy \cup {NoDisk, Fragment}]
    BY <1>4, <2>2 DEF EndCopy
  <2>4. hub'.at \in {"define", "stamp"} /\ hub'.vm = hub.vm /\ hub'.notes = hub.notes
    BY <1>4 DEF EndCopy, HubState
  <2> QED  BY <1>4, <2>1, <2>3, <2>4 DEF EndCopy
<1>5. CASE DefineSecondary(v)
  <2>1. hub.at = "define" /\ hub' = [hub EXCEPT !.at = "stamp"]
    BY <1>5 DEF DefineSecondary
  <2>2. /\ hub' \in HubState /\ hub'.at = "stamp" /\ hub'.notes = hub.notes
        /\ hub'.vm = hub.vm
    BY <1>0, <2>1, HubMoves DEF Calls
  <2> QED  BY <1>5, <2>1, <2>2 DEF DefineSecondary
<1>6. CASE SaveProtected(v)
  <2> DEFINE entry == [status |-> "protected", synced |-> hub.seen]
  <2>1. entry \in Entry
    BY <1>0 DEF Entry
  <2>2. \/ pairs' = [u \in Vms |-> IF u = v THEN entry ELSE NoPair] /\ reported' = {}
        \/ "lost" \notin hub.notes /\ pairs' = [pairs EXCEPT ![v] = entry] /\ reported' = reported
    BY <1>6 DEF SaveProtected, SavePair
  <2>3. pairs' \in [Vms -> Entry \cup {NoPair}]
    BY <2>1, <2>2
  <2>4. "lost" \notin hub.notes => v \notin reported
    BY <1>6 DEF SaveProtected, SavePair
  <2>5. \A u \in reported' : pairs'[u] # NoPair /\ pairs'[u].status = "failover"
    BY <2>2, <2>4
  <2> QED  BY <1>0, <1>6, <2>2, <2>3, <2>5 DEF SaveProtected, SavePair, domains, Idle
<1>7. CASE Stamp(v)
  <2>1. /\ hub.at = "stamp" /\ hub'.at = "save" /\ hub'.notes = hub.notes /\ hub'.vm = hub.vm
        /\ hub' \in HubState /\ UNCHANGED <<pairs, reported, domains>>
    BY <1>7 DEF Stamp, HubState, Calls
  <2> QED  BY <2>1 DEF domains
<1>8. CASE ShutDown(v) \/ SeesStopped(v) \/ DestroyPrimary(v) \/ StartSecondary(v)
  <2>1. PICK call \in {"wait", "start", "promote"}, notes \in SUBSET Notes :
          /\ \/ notes = hub.notes /\ hub' = [hub EXCEPT !.at = call]
             \/ hub' = [hub EXCEPT !.at = call, !.notes = notes]
          /\ "lost" \in notes => "lost" \in hub.notes
    <3>1. CASE ShutDown(v) \/ StartSecondary(v)
      BY <1>0, <3>1 DEF ShutDown, StartSecondary
    <3>2. CASE SeesStopped(v)
      <4>1. PICK state : hub' = [hub EXCEPT !.at = "start", !.notes = Blind(state)]
        BY <3>2 DEF SeesStopped
      <4>2. Blind(state) \subseteq {"blind"} /\ Blind(state) \subseteq Notes
        BY DEF Blind, Notes
      <4> QED  BY <4>1, <4>2
    <3>3. CASE DestroyPrimary(v)
      <4>1. {"blind"} \subseteq Notes
        BY DEF Notes
      <4> QED  BY <1>0, <3>3, <4>1 DEF DestroyPrimary
    <3> QED  BY <1>8, <3>1, <3>2, <3>3
  <2>2. /\ hub' \in HubState /\ hub'.at = call /\ hub'.notes = notes /\ hub'.vm = hub.vm
    BY <2>1, HubMoves DEF Calls
  <2>3. /\ hub.at \in {"stop", "wait", "start"} /\ UNCHANGED <<pairs, reported>>
        /\ primary' \in [Vms -> {"off", "running", "paused"}]
        /\ running' \subseteq Vms /\ misled' \subseteq Vms
        /\ UNCHANGED <<written, defined, disk>>
    BY <1>8 DEF ShutDown, SeesStopped, DestroyPrimary, StartSecondary, domains
  <2>4. HubKnows' /\ hub'.vm \in Vms
    BY <2>1, <2>2, <2>3, HubKeeps
  <2> QED  BY <2>2, <2>3, <2>4
<1>10. CASE SaveFailover(v)
  <2>1. pairs[v] \in Entry
    BY <1>10 DEF SaveFailover
  <2>2. /\ [pairs[v] EXCEPT !.status = "failover"] \in Entry
        /\ [pairs[v] EXCEPT !.status = "failover"].status = "failover"
    BY <2>1 DEF Entry
  <2>3. pairs' = [pairs EXCEPT ![v] = [pairs[v] EXCEPT !.status = "failover"]]
    BY <1>10 DEF SaveFailover
  <2>4. pairs' \in [Vms -> Entry \cup {NoPair}]
    BY <2>2, <2>3
  <2>5. \A u \in reported' : pairs'[u] # NoPair /\ pairs'[u].status = "failover"
    BY <1>10, <2>2, <2>3, FtConstants DEF SaveFailover
  <2> QED  BY <1>0, <1>10, <2>4, <2>5 DEF SaveFailover, domains, Idle
<1>11. CASE DestroySecondary(v) \/ Undefine(v)
  <2>1. PICK call \in {"undefine", "forget"} : hub' = [hub EXCEPT !.at = call]
    BY <1>11 DEF DestroySecondary, Undefine
  <2>2. /\ hub' \in HubState /\ hub'.at = call /\ hub'.notes = hub.notes /\ hub'.vm = hub.vm
    BY <1>0, <2>1, HubMoves DEF Calls
  <2>3. /\ hub.at \in {"destroy", "undefine"} /\ UNCHANGED <<pairs, reported>>
        /\ UNCHANGED <<primary, written>> /\ defined' \subseteq Vms
        /\ disk' \in [Vms -> Copy \cup {NoDisk, Fragment}]
        /\ running' \subseteq Vms /\ misled' \subseteq Vms
    BY <1>11 DEF DestroySecondary, Undefine
  <2>4. HubKnows' /\ hub'.vm \in Vms
    BY <2>1, <2>2, <2>3, HubKeeps
  <2> QED  BY <2>2, <2>3, <2>4
<1>13. CASE Forget(v)
  BY <1>13, <1>0 DEF Forget, domains, Idle
<1> QED
  BY <1>1, <1>2, <1>3, <1>4, <1>5, <1>6, <1>7, <1>8, <1>10, <1>11, <1>13
  DEF Handler

LEMMA PairNext == PairInv /\ [Next]_vars => PairInv'
<1> SUFFICES ASSUME PairInv, [Next]_vars PROVE PairInv'
  OBVIOUS
<1>1. CASE Crash
  BY <1>1, PairRaise DEF Crash
<1>2. CASE \E v \in Vms : Environment(v) \/ Handler(v)
  BY <1>2, PairEnvironment, PairStep
<1>3. CASE UNCHANGED vars
  BY <1>3 DEF vars, PairInv, TypeOK, HubKnows
<1> QED  BY <1>1, <1>2, <1>3 DEF Next

(* The file, the domains, the disks and the handler keep their types,      *)
(* whatever fails and wherever the process is killed.                      *)
THEOREM TypeCorrect == Spec => []TypeOK
<1>1. PairInv => TypeOK
  BY DEF PairInv
<1> QED  BY <1>1, PairInit, PairNext, PTL DEF Spec

-----------------------------------------------------------------------------
(* A failover that trigger_failover has answered is final: until remove_ft *)
(* nobody but the secondary itself changes its disk.                       *)
THEOREM FailoverIsFinal == Spec => PromotedKept
<1> DEFINE Kept == \A v \in reported :
                     \/ disk'[v] = disk[v]
                     \/ v \in running /\ disk'[v] = [disk[v] EXCEPT !.own = TRUE]
                     \/ At(v, "undefine")
                     \/ Unread(v)
<1>1. PairInv /\ [Next]_vars => [Kept]_vars
  <2> SUFFICES ASSUME PairInv, Next PROVE Kept
    OBVIOUS
  <2>1. CASE Crash
    BY <2>1 DEF Crash, Raise, domains
  <2>2. ASSUME NEW u \in Vms, Environment(u) PROVE Kept
    <3>1. CASE SecondaryWrites(u)
      BY <3>1 DEF SecondaryWrites, PairInv, TypeOK
    <3> QED
      BY <2>2, <3>1 DEF Environment, PrimaryWrites, Power, StartByHand, SecondaryStops
  <2>3. ASSUME NEW u \in Vms, Handler(u) PROVE Kept
    <3>1. CASE BeginCopy(u) \/ EndCopy(u)
      BY <3>1 DEF BeginCopy, EndCopy, At, Unread, PairInv, TypeOK, HubKnows, CopyCalls
    <3>2. CASE Undefine(u)
      BY <3>2 DEF Undefine, At, PairInv, TypeOK
    <3>3. CASE ~(BeginCopy(u) \/ EndCopy(u) \/ Undefine(u))
      <4>1. disk' = disk
        BY <2>3, <3>3 DEF Handler, CreatePair, SyncCheckpoint, TriggerFailover, RemoveFt,
           Begin, CopyRefused, CopyFails, DefineSecondary, DefineFails, SaveProtected,
           SavePair, Stamp, SaveFails, ShutDown, SeesStopped, DestroyPrimary, StartSecondary, StartFails,
           SaveFailover, DestroySecondary, Forget, Raise, domains
      <4> QED  BY <4>1
    <3> QED  BY <3>1, <3>2, <3>3
  <2> QED  BY <2>1, <2>2, <2>3 DEF Next
<1> QED  BY <1>1, PairInit, PairNext, PTL DEF Spec, PromotedKept

-----------------------------------------------------------------------------
(* Nobody writes a disk that is being copied, nor one whose copy is yet to *)
(* be stamped, so the copy is as new as the stamp; what the file says lies *)
(* in the past.                                                            *)
CopyStill ==
  hub.at \in {"copying", "define", "stamp"} =>
    primary[hub.vm] = "off" /\ hub.seen = written[hub.vm]

CopyFresh ==
  hub.at \in {"define", "stamp", "save"} =>
    /\ hub.seen <= written[hub.vm]
    /\ disk[hub.vm] \in Copy /\ disk[hub.vm].holds = hub.seen

SyncedPast == \A v \in Vms : pairs[v] # NoPair => pairs[v].synced <= written[v]

AgeInv == PairInv /\ CopyStill /\ CopyFresh /\ SyncedPast /\ CopyAsNewAsReported

LEMMA AgeEnvironment ==
  ASSUME Locking, Careful, AgeInv, NEW v \in Vms, Environment(v)
  PROVE  (CopyStill /\ CopyFresh /\ SyncedPast /\ CopyAsNewAsReported)'
<1> USE DEF AgeInv, PairInv, TypeOK, HubState, Calls, Writes
<1>1. CASE PrimaryWrites(v)
  <2>1. /\ written' = [written EXCEPT ![v] = @ + 1] /\ primary[v] = "running"
        /\ UNCHANGED <<pairs, primary, disk, hub>>
    BY <1>1 DEF PrimaryWrites
  <2>2. \A u \in Vms : /\ written[u] \in Nat /\ written'[u] >= written[u]
                       /\ u # v => written'[u] = written[u]
    BY <2>1, FtConstants
  <2>3. CopyStill'
    BY <2>1, <2>2 DEF CopyStill
  <2>4. CopyFresh'
    BY <2>1, <2>2, FtConstants DEF CopyFresh
  <2>5. SyncedPast' /\ CopyAsNewAsReported'
    <3>1. \A u \in Vms : pairs[u] # NoPair => pairs[u].synced \in Nat
      BY FtConstants DEF Entry
    <3> QED  BY <2>1, <2>2, <3>1 DEF SyncedPast, CopyAsNewAsReported
  <2> QED  BY <2>3, <2>4, <2>5
<1>2. CASE SecondaryWrites(v)
  <2>1. /\ disk[v] \in Copy /\ disk' = [disk EXCEPT ![v] = [disk[v] EXCEPT !.own = TRUE]]
        /\ UNCHANGED <<pairs, primary, written, hub>>
    BY <1>2 DEF SecondaryWrites
  <2>2. /\ disk'[v] \in Copy /\ disk'[v].holds = disk[v].holds
        /\ \A u \in Vms : u # v => disk'[u] = disk[u]
    BY <2>1 DEF Copy
  <2> QED
    BY <2>1, <2>2 DEF CopyStill, CopyFresh, SyncedPast, CopyAsNewAsReported
<1>3. CASE \E state \in {"off", "running", "paused"} : Power(v, state)
  <2>1. PICK state \in {"off", "running", "paused"} : Power(v, state)
    BY <1>3
  <2>2. UNCHANGED <<pairs, written, disk, hub>>
    BY <2>1 DEF Power
  <2>3. CopyStill'
    BY <2>1, <2>2 DEF CopyStill, Power, Copying, InHand
  <2> QED  BY <2>2, <2>3 DEF CopyFresh, SyncedPast, CopyAsNewAsReported
<1>4. CASE StartByHand(v) \/ SecondaryStops(v)
  BY <1>4 DEF StartByHand, SecondaryStops, CopyStill, CopyFresh, SyncedPast, CopyAsNewAsReported
<1> QED  BY <1>1, <1>2, <1>3, <1>4 DEF Environment

(* The first step of a handler changes nothing but the hub. *)
LEMMA Beginning ==
  ASSUME NEW v, NEW call, NEW notes, Begin(v, call, notes)
  PROVE  /\ hub.at = "idle" /\ hub'.vm = v /\ hub'.at = call /\ hub'.notes = notes
         /\ UNCHANGED <<pairs, primary, written, defined, running, disk, reported, misled>>
<1>1. hub' = [at |-> call, vm |-> v, seen |-> 0, notes |-> notes]
  BY DEF Begin, Idle
<1> QED  BY <1>1 DEF Begin, domains

LEMMA RemovalBegins ==
  ASSUME NEW v, RemoveFt(v)
  PROVE  /\ hub.at = "idle" /\ hub'.vm = v /\ "lost" \notin hub'.notes
         /\ hub'.at \in {"destroy", "undefine", "forget"}
         /\ UNCHANGED <<pairs, primary, written, defined, running, disk, reported, misled>>
<1>1. PICK call \in {"destroy", "undefine", "forget"} : Begin(v, call, {})
  BY RemoveBegins
<1> QED  BY <1>1, Beginning

LEMMA Beginnings ==
  ASSUME NEW v, CreatePair(v) \/ SyncCheckpoint(v) \/ TriggerFailover(v)
  PROVE  /\ hub.at = "idle" /\ hub'.vm = v /\ hub'.at \in {"copy", "stop", "start"}
         /\ hub'.at = "copy" \/ TriggerFailover(v)
         /\ UNCHANGED <<pairs, primary, written, defined, running, disk, reported, misled>>
<1>1. CASE CreatePair(v)
  <2>1. PICK notes : Begin(v, "copy", notes)
    BY <1>1 DEF CreatePair
  <2> QED  BY <2>1, Beginning
<1>2. CASE SyncCheckpoint(v)
  BY <1>2, Beginning DEF SyncCheckpoint
<1>3. CASE TriggerFailover(v)
  <2>1. PICK call \in {"stop", "start"}, notes \in {{}, {"blind"}} : Begin(v, call, notes)
    BY <1>3 DEF TriggerFailover, Blind
  <2> QED  BY <1>3, <2>1, Beginning
<1> QED  BY <1>1, <1>2, <1>3

LEMMA AgeHandler ==
  ASSUME Locking, Careful, AgeInv, NEW v \in Vms, Handler(v)
  PROVE  (CopyStill /\ CopyFresh /\ SyncedPast /\ CopyAsNewAsReported)'
<1> USE DEF AgeInv, PairInv, TypeOK, At, Step
<1>0. hub.seen \in Nat /\ \A u \in Vms : written[u] \in Nat
  BY FtConstants DEF HubState, Writes
<1>1. CASE BeginCopy(v)
  <2>1. /\ disk' = [disk EXCEPT ![v] = Fragment] /\ hub.vm = v /\ primary[v] = "off"
        /\ hub' = [hub EXCEPT !.at = "copying", !.seen = written[v]]
        /\ UNCHANGED <<pairs, primary, written>>
    BY <1>1 DEF BeginCopy, Locked
  <2>2. hub'.at = "copying" /\ hub'.vm = v /\ hub'.seen = written[v]
    BY <2>1 DEF HubState
  <2> QED
    BY <2>1, <2>2, FtConstants DEF CopyStill, CopyFresh, SyncedPast, CopyAsNewAsReported
<1>2. CASE EndCopy(v)
  <2>1. /\ hub.at = "copying" /\ hub.vm = v
        /\ disk' = [disk EXCEPT ![v] = [holds |-> hub.seen, own |-> FALSE]]
        /\ UNCHANGED <<pairs, primary, written>>
    BY <1>2 DEF EndCopy
  <2>2. hub.seen = written[v]
    BY <2>1 DEF CopyStill
  <2>3. hub'.at \in {"define", "stamp"} /\ hub'.vm = v /\ hub'.seen = written[v]
    BY <1>2, <2>1, <2>2 DEF EndCopy, HubState
  <2>4. /\ disk'[v] \in Copy /\ disk'[v].holds = written[v]
        /\ \A u \in Vms : u # v => disk'[u] = disk[u]
    BY <1>0, <2>1, <2>2 DEF Copy, HubState
  <2>5. CopyStill' /\ SyncedPast'
    BY <2>1, <2>3 DEF CopyStill, SyncedPast
  <2>6. CopyFresh'
    BY <1>0, <2>1, <2>3, <2>4 DEF CopyFresh
  <2>7. CopyAsNewAsReported'
    BY <2>1, <2>4 DEF SyncedPast, CopyAsNewAsReported
  <2> QED  BY <2>5, <2>6, <2>7
<1>3. CASE SaveProtected(v)
  <2>1. /\ hub.at = "save" /\ hub.vm = v /\ hub' = Idle
        /\ UNCHANGED <<primary, written, disk>>
    BY <1>3 DEF SaveProtected, SavePair, domains
  <2>2. /\ pairs'[v].synced = hub.seen
        /\ \A u \in Vms \ {v} : pairs'[u] \in {pairs[u], NoPair}
    BY <1>3 DEF SaveProtected, SavePair
  <2> QED
    BY <1>0, <2>1, <2>2 DEF Idle, CopyStill, CopyFresh, SyncedPast, CopyAsNewAsReported
<1>4. CASE SaveFailover(v)
  <2>1. /\ hub' = Idle /\ UNCHANGED <<primary, written, disk>>
        /\ pairs' = [pairs EXCEPT ![v] = [pairs[v] EXCEPT !.status = "failover"]]
    BY <1>4 DEF SaveFailover, domains
  <2>2. pairs[v] \in Entry
    BY <1>4 DEF SaveFailover, HubKnows, PairCalls
  <2>3. \A u \in Vms : pairs'[u] # NoPair => pairs[u] # NoPair /\ pairs'[u].synced = pairs[u].synced
    BY <2>1, <2>2, FtConstants DEF Entry
  <2> QED
    BY <2>1, <2>3 DEF Idle, CopyStill, CopyFresh, SyncedPast, CopyAsNewAsReported
<1>5. CASE Forget(v)
  BY <1>5 DEF Forget, domains, Idle, CopyStill, CopyFresh, SyncedPast, CopyAsNewAsReported
<1>6. CASE Undefine(v)
  <2>1. /\ UNCHANGED <<pairs, primary, written>> /\ hub'.at = "forget"
        /\ \A u \in Vms : disk'[u] = disk[u] \/ disk'[u] = NoDisk
    BY <1>6 DEF Undefine, HubState
  <2> QED
    BY <2>1, FtConstants DEF CopyStill, CopyFresh, SyncedPast, CopyAsNewAsReported
<1>7. CASE DestroyPrimary(v)
  BY <1>7 DEF DestroyPrimary, HubState, CopyStill, CopyFresh, SyncedPast, CopyAsNewAsReported
<1>8. CASE DefineSecondary(v)
  <2>1. hub.at = "define" /\ hub'.at = "stamp" /\ hub'.vm = hub.vm /\ hub'.seen = hub.seen
    BY <1>8 DEF DefineSecondary, HubState
  <2> QED
    BY <1>8, <2>1 DEF DefineSecondary, CopyStill, CopyFresh, SyncedPast, CopyAsNewAsReported
<1>12. CASE Stamp(v)
  <2>1. /\ hub.at = "stamp" /\ hub'.at = "save" /\ hub'.vm = hub.vm /\ hub.vm = v
        /\ hub'.seen = written[v] /\ UNCHANGED <<pairs, primary, written, disk>>
    BY <1>12 DEF Stamp, HubState, domains
  <2> QED
    BY <1>0, <2>1 DEF CopyStill, CopyFresh, SyncedPast, CopyAsNewAsReported
<1>9. CASE ShutDown(v) \/ SeesStopped(v) \/ StartSecondary(v) \/ DestroySecondary(v)
  <2>1. /\ UNCHANGED <<pairs, primary, written, disk>>
        /\ hub'.at \in {"wait", "start", "promote", "undefine"}
    BY <1>9 DEF ShutDown, SeesStopped, StartSecondary, DestroySecondary, domains, HubState
  <2> QED
    BY <2>1 DEF CopyStill, CopyFresh, SyncedPast, CopyAsNewAsReported
<1>10. CASE CreatePair(v) \/ SyncCheckpoint(v) \/ TriggerFailover(v) \/ RemoveFt(v)
  <2>1. /\ UNCHANGED <<pairs, primary, written, disk>>
        /\ hub'.at \in {"copy", "stop", "start", "destroy", "undefine", "forget"}
    BY <1>10, Beginnings, RemovalBegins
  <2> QED
    BY <2>1 DEF CopyStill, CopyFresh, SyncedPast, CopyAsNewAsReported
<1>11. CASE CopyRefused(v) \/ CopyFails(v) \/ DefineFails(v) \/ SaveFails(v) \/ StartFails(v)
  BY <1>11 DEF CopyRefused, CopyFails, DefineFails, SaveFails, StartFails, Raise, Idle,
     domains, CopyStill, CopyFresh, SyncedPast, CopyAsNewAsReported
<1> QED
  BY <1>1, <1>2, <1>3, <1>4, <1>5, <1>6, <1>7, <1>8, <1>9, <1>10, <1>11, <1>12 DEF Handler

LEMMA AgeInvariant ==
  ASSUME Locking, Careful
  PROVE  Spec => []AgeInv
<1>1. Init => AgeInv
  BY PairInit DEF Init, Idle, AgeInv, CopyStill, CopyFresh, SyncedPast, CopyAsNewAsReported
<1>2. AgeInv /\ [Next]_vars => AgeInv'
  <2> SUFFICES ASSUME AgeInv, [Next]_vars PROVE AgeInv'
    OBVIOUS
  <2>1. PairInv'
    BY PairNext DEF AgeInv
  <2>2. (CopyStill /\ CopyFresh /\ SyncedPast /\ CopyAsNewAsReported)'
    <3>1. CASE Crash
      BY <3>1 DEF Crash, Raise, Idle, domains, AgeInv, CopyStill, CopyFresh, SyncedPast,
         CopyAsNewAsReported
    <3>2. CASE \E v \in Vms : Environment(v) \/ Handler(v)
      BY <3>2, AgeEnvironment, AgeHandler
    <3>3. CASE UNCHANGED vars
      BY <3>3 DEF vars, AgeInv, CopyStill, CopyFresh, SyncedPast, CopyAsNewAsReported
    <3> QED  BY <3>1, <3>2, <3>3 DEF Next
  <2> QED  BY <2>1, <2>2 DEF AgeInv
<1> QED  BY <1>1, <1>2, PTL DEF Spec

(* With image locks and a primary that nobody starts between the end of    *)
(* its copy and the stamp, a complete copy holds every write made by       *)
(* last_sync, whatever fails or is killed, and so does the disk of a       *)
(* secondary that runs.                                                    *)
THEOREM LagIsHonest ==
  ASSUME Locking, Careful
  PROVE  Spec => []CopyAsNewAsReported
<1>1. AgeInv => CopyAsNewAsReported
  BY DEF AgeInv
<1> QED  BY <1>1, AgeInvariant, PTL

-----------------------------------------------------------------------------
(* What Standby sees of a pair. *)
Copies == [v \in Vms |-> IF disk[v] \in Copy THEN disk[v].holds ELSE -1]
Promises == [v \in Vms |-> IF pairs[v] = NoPair THEN -1 ELSE pairs[v].synced]
Taken == {v \in reported : ~Withdrawn(v)}

StandbyStep == [Standby!Next]_<<written, Copies, Promises, Taken>>

(* Where the disks hold what they held, Standby sees the same copies. *)
LEMMA CopiesSame ==
  ASSUME \A v \in Vms : disk'[v] = disk[v]
  PROVE  Copies' = Copies
BY DEF Copies

LEMMA PromisesSame ==
  ASSUME \A v \in Vms : /\ pairs'[v] = NoPair <=> pairs[v] = NoPair
                        /\ pairs[v] # NoPair => pairs'[v].synced = pairs[v].synced
  PROVE  Promises' = Promises
BY DEF Promises

(* A whole copy counts its writes from zero, so it is not None. *)
LEMMA Counts ==
  ASSUME PairInv, NEW v \in Vms
  PROVE  /\ disk[v] \in Copy => Copies[v] = disk[v].holds /\ Copies[v] \in Nat
         /\ disk[v] \notin Copy => Copies[v] = -1
         /\ pairs[v] # NoPair => Promises[v] = pairs[v].synced /\ Promises[v] \in Nat
BY FtConstants DEF Copies, Promises, PairInv, TypeOK, Copy, Entry, Writes

(* A command that is not part of a removal, before or after it. *)
LEMMA StandbyIdles ==
  ASSUME UNCHANGED <<written, disk, pairs, reported>>,
         \A v \in reported : Withdrawn(v)' <=> Withdrawn(v)
  PROVE  StandbyStep
<1>1. Copies' = Copies /\ Promises' = Promises
  BY CopiesSame, PromisesSame
<1>2. Taken' = Taken
  BY DEF Taken
<1> QED  BY <1>1, <1>2 DEF StandbyStep

(* A handler that is killed or raises in the middle of a removal leaves    *)
(* the secondary as the one that has taken over.                           *)
LEMMA RaiseIsStandby ==
  ASSUME PairInv, Raise
  PROVE  StandbyStep
<1>1. /\ UNCHANGED <<written, disk, pairs, reported>> /\ hub'.at = "idle"
      /\ hub'.notes = {}
  BY DEF Raise, Idle, domains
<1>2. \A v \in Vms : ~Withdrawn(v)'
  BY <1>1 DEF Withdrawn
<1>3. CASE \A v \in reported : ~Withdrawn(v)
  BY <1>1, <1>2, <1>3, StandbyIdles DEF PairInv, TypeOK
<1>4. CASE \E v \in reported : Withdrawn(v)
  <2>1. PICK v \in reported : Withdrawn(v)
    BY <1>4
  <2>2. v \in Vms /\ pairs[v] # NoPair
    BY DEF PairInv, TypeOK, HubKnows
  <2>3. \A u \in reported : Withdrawn(u) => u = v
    BY <2>1 DEF Withdrawn
  <2>4. Taken' = Taken \cup {v}
    BY <1>1, <1>2, <2>1, <2>3 DEF Taken, PairInv, TypeOK
  <2>5. Promises[v] # -1
    BY <2>2, Counts
  <2>6. Copies' = Copies /\ Promises' = Promises
    BY <1>1, CopiesSame, PromisesSame
  <2>7. Standby!TakeOver(v)
    BY <1>1, <2>4, <2>5, <2>6 DEF Standby!TakeOver, Standby!None, Taken, Copies, Promises
  <2> QED  BY <2>2, <2>7 DEF StandbyStep, Standby!Next
<1> QED  BY <1>3, <1>4

LEMMA EnvironmentIsStandby ==
  ASSUME PairInv, NEW v \in Vms, Environment(v)
  PROVE  StandbyStep
<1>0. UNCHANGED <<pairs, reported, hub>>
  BY DEF Environment, PrimaryWrites, SecondaryWrites, Power, StartByHand, SecondaryStops
<1>1. Promises' = Promises /\ Taken' = Taken
  BY <1>0, PromisesSame DEF Taken, Withdrawn
<1>2. CASE PrimaryWrites(v)
  <2>1. written' = [written EXCEPT ![v] = @ + 1] /\ Copies' = Copies
    BY <1>2, CopiesSame DEF PrimaryWrites
  <2>2. Standby!Write(v)
    BY <1>1, <2>1 DEF Standby!Write, Taken, Copies, Promises
  <2> QED  BY <2>2 DEF StandbyStep, Standby!Next
<1>3. CASE SecondaryWrites(v)
  <2>1. /\ disk[v] \in Copy /\ disk' = [disk EXCEPT ![v] = [disk[v] EXCEPT !.own = TRUE]]
        /\ written' = written
    BY <1>3 DEF SecondaryWrites
  <2>2. /\ disk'[v] \in Copy /\ disk'[v].holds = disk[v].holds
        /\ \A u \in Vms : u # v => disk'[u] = disk[u]
    BY <2>1 DEF Copy, PairInv, TypeOK
  <2>3. Copies' = Copies
    <3>1. \A u \in Vms : /\ disk'[u] \in Copy <=> disk[u] \in Copy
                         /\ disk[u] \in Copy => disk'[u].holds = disk[u].holds
      BY <2>1, <2>2
    <3> QED  BY <3>1 DEF Copies
  <2> QED  BY <1>1, <2>1, <2>3 DEF StandbyStep
<1>4. CASE ~(PrimaryWrites(v) \/ SecondaryWrites(v))
  <2>1. UNCHANGED <<written, disk>>
    BY <1>4 DEF Environment, Power, StartByHand, SecondaryStops
  <2> QED  BY <1>1, <2>1, CopiesSame DEF StandbyStep
<1> QED  BY <1>2, <1>3, <1>4

(* create_ft_pair and sync_checkpoint: a copy is spoilt, made anew, and    *)
(* then promised.                                                          *)
LEMMA CopyingIsStandby ==
  ASSUME AgeInv, NEW v \in Vms, BeginCopy(v) \/ EndCopy(v) \/ SaveProtected(v)
  PROVE  StandbyStep
<1> USE DEF AgeInv, At
<1>1. /\ hub.vm = v /\ hub.at \in CopyCalls
      /\ v \notin reported \/ "lost" \in hub.notes
      /\ written' = written
  BY DEF BeginCopy, EndCopy, SaveProtected, SavePair, PairInv, HubKnows, CopyCalls, domains
<1>2. v \notin Taken
  BY <1>1 DEF Taken, Withdrawn
<1>3. BeginCopy(v) \/ EndCopy(v) => Taken' = Taken
  <2>1. BeginCopy(v) \/ EndCopy(v) =>
          /\ hub'.at \in CopyCalls /\ hub'.vm = hub.vm /\ hub'.notes = hub.notes
          /\ reported' = reported
    BY DEF BeginCopy, EndCopy, Step, PairInv, TypeOK, HubState, CopyCalls
  <2> QED  BY <1>1, <2>1 DEF Taken, Withdrawn, CopyCalls
<1>4. CASE BeginCopy(v)
  <2>1. disk' = [disk EXCEPT ![v] = Fragment] /\ Promises' = Promises
    BY <1>4, PromisesSame DEF BeginCopy
  <2>2. Copies' = [Copies EXCEPT ![v] = -1]
    BY <2>1, FtConstants DEF Copies, PairInv, TypeOK
  <2>3. Standby!Spoil(v)
    BY <1>1, <1>2, <1>3, <1>4, <2>1, <2>2 DEF Standby!Spoil, Standby!None, Taken, Copies, Promises
  <2> QED  BY <2>3 DEF StandbyStep, Standby!Next
<1>5. CASE EndCopy(v)
  <2>1. /\ hub.at = "copying" /\ Promises' = Promises
        /\ disk' = [disk EXCEPT ![v] = [holds |-> hub.seen, own |-> FALSE]]
    BY <1>5, PromisesSame DEF EndCopy
  <2>2. hub.seen = written[v] /\ hub.seen \in Writes
    BY <1>1, <2>1 DEF CopyStill, PairInv, TypeOK, HubState
  <2>3. [holds |-> hub.seen, own |-> FALSE] \in Copy
    BY <2>2 DEF Copy
  <2>4. Copies' = [Copies EXCEPT ![v] = written[v]]
    BY <2>1, <2>2, <2>3 DEF Copies, PairInv, TypeOK
  <2>5. Standby!Refresh(v)
    BY <1>1, <1>2, <1>3, <1>5, <2>1, <2>4 DEF Standby!Refresh, Taken, Copies, Promises
  <2> QED  BY <2>5 DEF StandbyStep, Standby!Next
<1>6. CASE SaveProtected(v)
  <2> DEFINE entry == [status |-> "protected", synced |-> hub.seen]
  <2>1. /\ hub.at = "save" /\ disk' = disk /\ hub'.at = "idle" /\ hub'.notes = {}
        /\ \/ /\ "lost" \in hub.notes /\ reported' = {}
              /\ pairs' = [u \in Vms |-> IF u = v THEN entry ELSE NoPair]
           \/ /\ "lost" \notin hub.notes /\ reported' = reported
              /\ pairs' = [pairs EXCEPT ![v] = entry]
    BY <1>6 DEF SaveProtected, SavePair, Idle, domains
  <2>2. disk[v] \in Copy /\ disk[v].holds = hub.seen
    BY <1>1, <2>1 DEF CopyFresh
  <2>3. Copies[v] = hub.seen /\ Copies[v] # -1 /\ Copies' = Copies
    BY <2>1, <2>2, Counts, CopiesSame
  <2>4. entry \in Entry /\ entry # NoPair /\ entry.synced = hub.seen
    BY FtConstants DEF Entry, PairInv, TypeOK, HubState
  <2>5. CASE "lost" \notin hub.notes
    <3>1. Promises' = [Promises EXCEPT ![v] = hub.seen]
      BY <2>1, <2>4, <2>5 DEF Promises, PairInv, TypeOK
    <3>2. Taken' = Taken
      BY <1>1, <2>1, <2>5 DEF Taken, Withdrawn
    <3>3. Standby!Promise(v)
      BY <1>1, <1>2, <2>3, <3>1, <3>2
      DEF Standby!Promise, Standby!None, Taken, Copies, Promises
    <3> QED  BY <3>3 DEF StandbyStep, Standby!Next
  <2>6. CASE "lost" \in hub.notes
    <3>1. Promises' = [u \in Vms |-> IF u = v THEN hub.seen ELSE -1]
      BY <2>1, <2>4, <2>6 DEF Promises, PairInv, TypeOK
    <3>2. Taken' = {}
      BY <2>1, <2>6 DEF Taken
    <3>3. Standby!StartAnew(v)
      BY <1>1, <1>2, <2>3, <3>1, <3>2
      DEF Standby!StartAnew, Standby!None, Taken, Copies, Promises
    <3> QED  BY <3>3 DEF StandbyStep, Standby!Next
  <2> QED  BY <2>5, <2>6
<1> QED  BY <1>4, <1>5, <1>6

(* remove_ft: the standby is released, its copy goes, then its promise. *)
LEMMA RemovingIsStandby ==
  ASSUME PairInv, NEW v \in Vms,
         RemoveFt(v) \/ DestroySecondary(v) \/ Undefine(v) \/ Forget(v)
  PROVE  StandbyStep
<1> USE DEF At
<1>0. "lost" \in hub.notes => hub.at \in CopyCalls
  BY DEF PairInv, HubKnows
<1>1. CASE RemoveFt(v)
  <2>1. /\ UNCHANGED <<written, disk, pairs, reported>> /\ hub.at = "idle" /\ "lost" \notin hub.notes
        /\ hub'.at \in {"destroy", "undefine", "forget"} /\ hub'.vm = v
    BY <1>0, <1>1, RemovalBegins DEF CopyCalls
  <2>2. Copies' = Copies /\ Promises' = Promises
    BY <2>1, CopiesSame, PromisesSame
  <2>3. Taken' = Taken \ {v}
    BY <2>1 DEF Taken, Withdrawn
  <2>4. Standby!Release(v)
    BY <2>1, <2>2, <2>3 DEF Standby!Release, Taken, Copies, Promises
  <2> QED  BY <2>4 DEF StandbyStep, Standby!Next
<1>2. CASE DestroySecondary(v)
  <2>1. /\ UNCHANGED <<written, disk, pairs, reported>>
        /\ hub.at = "destroy" /\ hub'.at = "undefine" /\ hub'.vm = hub.vm
        /\ hub'.notes = hub.notes
    BY <1>2 DEF DestroySecondary, Step, PairInv, TypeOK, HubState
  <2> QED  BY <2>1, StandbyIdles DEF Withdrawn
<1>3. CASE Undefine(v)
  <2>1. /\ UNCHANGED <<written, pairs, reported>>
        /\ hub.at = "undefine" /\ hub'.at = "forget" /\ hub.vm = v /\ hub'.vm = v
        /\ hub'.notes = hub.notes
    BY <1>3 DEF Undefine, Step, PairInv, TypeOK, HubState
  <2>2. CASE disk' = disk
    BY <2>1, <2>2, StandbyIdles DEF Withdrawn
  <2>3. CASE disk' = [disk EXCEPT ![v] = NoDisk]
    <3>1. Copies' = [Copies EXCEPT ![v] = -1]
      BY <2>3, FtConstants DEF Copies, PairInv, TypeOK
    <3>2. v \notin Taken /\ Taken' = Taken /\ Promises' = Promises
      BY <2>1, PromisesSame DEF Taken, Withdrawn
    <3>3. Standby!Spoil(v)
      BY <2>1, <3>1, <3>2 DEF Standby!Spoil, Standby!None, Taken, Copies, Promises
    <3> QED  BY <3>3 DEF StandbyStep, Standby!Next
  <2> QED  BY <1>3, <2>2, <2>3 DEF Undefine
<1>4. CASE Forget(v)
  <2>1. /\ UNCHANGED <<written, disk>> /\ hub.at = "forget" /\ hub.vm = v /\ hub'.at = "idle"
        /\ pairs' = [pairs EXCEPT ![v] = NoPair] /\ reported' = reported \ {v}
        /\ "lost" \notin hub.notes /\ "lost" \notin hub'.notes
    BY <1>0, <1>4 DEF Forget, domains, Idle, CopyCalls
  <2>2. v \notin Taken /\ Taken' = Taken
    BY <2>1 DEF Taken, Withdrawn
  <2>3. Copies' = Copies /\ Promises' = [Promises EXCEPT ![v] = -1]
    BY <2>1, CopiesSame DEF Promises, PairInv, TypeOK
  <2>4. Standby!Forget(v)
    BY <2>1, <2>2, <2>3 DEF Standby!Forget, Standby!None, Taken, Copies, Promises
  <2> QED  BY <2>4 DEF StandbyStep, Standby!Next
<1> QED  BY <1>1, <1>2, <1>3, <1>4

LEMMA HandlerIsStandby ==
  ASSUME AgeInv, NEW v \in Vms, Handler(v)
  PROVE  StandbyStep
<1> USE DEF AgeInv, At
<1>1. CASE CopyRefused(v) \/ CopyFails(v) \/ DefineFails(v) \/ SaveFails(v) \/ StartFails(v)
  BY <1>1, RaiseIsStandby DEF CopyRefused, CopyFails, DefineFails, SaveFails, StartFails
<1>2. CASE BeginCopy(v) \/ EndCopy(v) \/ SaveProtected(v)
  BY <1>2, CopyingIsStandby
<1>3. CASE RemoveFt(v) \/ DestroySecondary(v) \/ Undefine(v) \/ Forget(v)
  BY <1>3, RemovingIsStandby
<1>0. "lost" \in hub.notes => hub.at \in CopyCalls
  BY DEF PairInv, HubKnows
<1>4. CASE CreatePair(v) \/ SyncCheckpoint(v) \/ TriggerFailover(v)
  <2>1. /\ UNCHANGED <<written, disk, pairs, reported>> /\ hub'.vm = v /\ "lost" \notin hub.notes
        /\ hub.at = "idle" /\ hub'.at \in {"copy", "stop", "start"}
    BY <1>0, <1>4, Beginnings DEF CopyCalls
  <2>2. CASE "lost" \notin hub'.notes
    BY <2>1, <2>2, StandbyIdles DEF Withdrawn
  <2>3. CASE "lost" \in hub'.notes
    <3>1. Copies' = Copies /\ Promises' = Promises
      BY <2>1, CopiesSame, PromisesSame
    <3>2. Taken' = Taken \ {v}
      BY <2>1, <2>3 DEF Taken, Withdrawn
    <3>3. Standby!Release(v)
      BY <2>1, <3>1, <3>2 DEF Standby!Release, Taken, Copies, Promises
    <3> QED  BY <3>3 DEF StandbyStep, Standby!Next
  <2> QED  BY <2>2, <2>3
<1>5. CASE \/ DefineSecondary(v) \/ ShutDown(v) \/ SeesStopped(v) \/ Stamp(v)
           \/ DestroyPrimary(v) \/ StartSecondary(v)
  <2>1. /\ UNCHANGED <<written, disk, pairs, reported>>
        /\ hub'.vm = hub.vm
        /\ hub.at \in {"define", "stamp", "stop", "wait", "start"}
        /\ hub'.at \in {"stamp", "save", "wait", "start", "promote"}
    BY <1>5 DEF DefineSecondary, Stamp, ShutDown, SeesStopped, DestroyPrimary, StartSecondary,
       Step, PairInv, TypeOK, HubState, domains
  <2>2. \/ hub'.notes = hub.notes
        \/ hub.at = "wait" /\ "lost" \notin hub'.notes
    <3>1. CASE SeesStopped(v)
      <4>1. PICK state : hub.at = "wait" /\ hub' = [hub EXCEPT !.at = "start", !.notes = Blind(state)]
        BY <3>1 DEF SeesStopped
      <4> QED  BY <4>1 DEF Blind, PairInv, TypeOK, HubState
    <3>2. CASE DestroyPrimary(v)
      <4>1. /\ hub.at = "wait"
            /\ \/ hub' = [hub EXCEPT !.at = "start"]
               \/ hub' = [hub EXCEPT !.at = "start", !.notes = {"blind"}]
        BY <3>2 DEF DestroyPrimary, Step
      <4>2. CASE hub' = [hub EXCEPT !.at = "start"]
        BY <4>2 DEF PairInv, TypeOK, HubState
      <4>3. CASE hub' = [hub EXCEPT !.at = "start", !.notes = {"blind"}]
        <5>1. hub'.notes = {"blind"}
          BY <4>3 DEF PairInv, TypeOK, HubState
        <5> QED  BY <4>1, <5>1
      <4> QED  BY <4>1, <4>2, <4>3
    <3>3. CASE DefineSecondary(v) \/ ShutDown(v) \/ Stamp(v) \/ StartSecondary(v)
      BY <3>3 DEF DefineSecondary, ShutDown, Stamp, StartSecondary, Step, PairInv, TypeOK,
         HubState
    <3> QED  BY <1>5, <3>1, <3>2, <3>3
  <2>3. "lost" \in hub'.notes <=> "lost" \in hub.notes
    BY <1>0, <2>2 DEF CopyCalls
  <2> QED  BY <2>1, <2>3, StandbyIdles DEF Withdrawn
<1>6. CASE SaveFailover(v)
  <2>1. /\ UNCHANGED <<written, disk>> /\ hub.at = "promote" /\ hub.vm = v /\ hub'.at = "idle"
        /\ reported' = reported \cup {v}
        /\ pairs' = [pairs EXCEPT ![v] = [pairs[v] EXCEPT !.status = "failover"]]
        /\ "lost" \notin hub.notes /\ "lost" \notin hub'.notes
    BY <1>0, <1>6 DEF SaveFailover, domains, Idle, CopyCalls
  <2>2. pairs[v] # NoPair /\ pairs[v] \in Entry
    BY <2>1 DEF PairInv, TypeOK, HubKnows, PairCalls
  <2>3. /\ pairs'[v] \in Entry /\ pairs'[v].synced = pairs[v].synced
        /\ \A u \in Vms : u # v => pairs'[u] = pairs[u]
    BY <2>1, <2>2 DEF Entry, PairInv, TypeOK
  <2>4. Copies' = Copies /\ Promises' = Promises
    <3>1. \A u \in Vms : /\ pairs'[u] = NoPair <=> pairs[u] = NoPair
                         /\ pairs[u] # NoPair => pairs'[u].synced = pairs[u].synced
      BY <2>2, <2>3, FtConstants
    <3> QED  BY <2>1, <3>1, CopiesSame, PromisesSame
  <2>5. Taken' = Taken \cup {v} /\ Promises[v] # -1
    <3>1. Promises[v] # -1
      BY <2>2, Counts
    <3> QED  BY <2>1, <3>1 DEF Taken, Withdrawn
  <2>6. Standby!TakeOver(v)
    BY <2>1, <2>4, <2>5 DEF Standby!TakeOver, Standby!None, Taken, Copies, Promises
  <2> QED  BY <2>6 DEF StandbyStep, Standby!Next
<1> QED  BY <1>1, <1>2, <1>3, <1>4, <1>5, <1>6 DEF Handler

(* With image locks and primaries left alone, the pairs implement Standby, *)
(* for any number of pairs and writes, whatever fails and wherever the     *)
(* process is killed: what last_sync promises is what the copy holds, a    *)
(* secondary that took over keeps its disk until it is removed, and what a *)
(* create that cannot read the file costs is all the other promises.       *)
THEOREM ImplementsStandby ==
  ASSUME Locking, Careful
  PROVE  Spec => PairsAreStandbys
<1>1. Init => Standby!Init
  BY FtConstants DEF Init, Standby!Init, Standby!None, Copy, Withdrawn
<1>2. AgeInv /\ [Next]_vars => StandbyStep
  <2>1. CASE UNCHANGED vars
    BY <2>1, StandbyIdles DEF vars, Withdrawn
  <2>2. ASSUME AgeInv, Crash PROVE StandbyStep
    BY <2>2, RaiseIsStandby DEF Crash, AgeInv
  <2>3. ASSUME AgeInv, NEW v \in Vms, Environment(v) \/ Handler(v) PROVE StandbyStep
    BY <2>3, EnvironmentIsStandby, HandlerIsStandby DEF AgeInv
  <2> QED  BY <2>1, <2>2, <2>3 DEF Next
<1>3. Spec => []AgeInv
  BY AgeInvariant
<1> QED
  BY <1>1, <1>2, <1>3, PTL DEF Spec, PairsAreStandbys, Standby!Spec, StandbyStep,
     Copies, Promises, Taken

(* The promise holds because a copy is never older than the one before. *)
KeptBy(made, copy, promise) ==
  /\ made \in [Vms -> Nat]
  /\ \A v \in Vms : /\ promise[v] \in Int /\ promise[v] <= made[v]
                    /\ copy[v] # -1 => copy[v] \in Nat /\ promise[v] <= copy[v]
                                       /\ copy[v] <= made[v]

LEMMA StandbyKeeps ==
  ASSUME KeptBy(written, Copies, Promises), StandbyStep
  PROVE  KeptBy(written', Copies', Promises')
<1>0. /\ Copies = [v \in Vms |-> Copies[v]] /\ Promises = [v \in Vms |-> Promises[v]]
      /\ written = [v \in Vms |-> written[v]]
  BY DEF Copies, Promises, KeptBy
<1>1. CASE UNCHANGED <<written, Copies, Promises>>
  BY <1>1
<1>2. ASSUME NEW v \in Vms,
             \/ Standby!Write(v) \/ Standby!Spoil(v) \/ Standby!Refresh(v) \/ Standby!Promise(v)
             \/ Standby!TakeOver(v) \/ Standby!Release(v) \/ Standby!Forget(v)
             \/ Standby!StartAnew(v)
      PROVE  KeptBy(written', Copies', Promises')
  <2>1. \/ /\ written' = [written EXCEPT ![v] = @ + 1]
           /\ Copies' = Copies /\ Promises' = Promises
        \/ /\ Copies' = [Copies EXCEPT ![v] = -1]
           /\ written' = written /\ Promises' = Promises
        \/ /\ Copies' = [Copies EXCEPT ![v] = written[v]]
           /\ written' = written /\ Promises' = Promises
        \/ /\ Promises' = [Promises EXCEPT ![v] = Copies[v]] /\ Copies[v] # -1
           /\ written' = written /\ Copies' = Copies
        \/ /\ Promises' = [Promises EXCEPT ![v] = -1]
           /\ written' = written /\ Copies' = Copies
        \/ /\ Promises' = [u \in Vms |-> IF u = v THEN Copies[v] ELSE -1] /\ Copies[v] # -1
           /\ written' = written /\ Copies' = Copies
        \/ written' = written /\ Copies' = Copies /\ Promises' = Promises
    BY <1>2 DEF Standby!Write, Standby!Spoil, Standby!Refresh, Standby!Promise,
       Standby!TakeOver, Standby!Release, Standby!Forget, Standby!StartAnew, Standby!None,
       Copies, Promises
  <2>2. written' \in [Vms -> Nat]
    BY <2>1 DEF KeptBy
  <2> QED  BY <1>0, <2>1, <2>2 DEF KeptBy
<1> QED  BY <1>1, <1>2 DEF StandbyStep, Standby!Next, Taken

(* What Standby promises its readers: a whole copy, also one that has      *)
(* taken over and is written since, holds all that its owner was told.     *)
THEOREM StandbyPromises == Standby!Spec => []Standby!PromiseKept
<1> DEFINE Kept == KeptBy(written, Copies, Promises)
<1>1. Standby!Init => Kept
  BY DEF Standby!Init, Standby!None, KeptBy, Copies, Promises
<1>2. Kept /\ StandbyStep => Kept'
  BY StandbyKeeps
<1>3. Kept => Standby!PromiseKept
  BY DEF KeptBy, Standby!PromiseKept, Standby!None, Copies, Promises
<1> QED  BY <1>1, <1>2, <1>3, PTL DEF Standby!Spec, StandbyStep, Copies, Promises, Taken

-----------------------------------------------------------------------------
(* What the failover handler knows when it starts the secondary. *)
StoppedFirst == hub.at = "start" => "blind" \in hub.notes \/ primary[hub.vm] # "running"

OneRuns == PairInv /\ StoppedFirst /\ NeverBoth

(* Where nobody starts a primary that is in hand, a secondary runs beside  *)
(* its primary only if a domstate or a destroy of the failover that        *)
(* started it failed, kills and repeated failovers included.               *)
THEOREM NeverBothRun ==
  ASSUME Careful
  PROVE  Spec => []NeverBoth
<1>1. Init => OneRuns
  BY PairInit DEF Init, Idle, OneRuns, StoppedFirst, NeverBoth
<1>2. OneRuns /\ [Next]_vars => OneRuns'
  <2> SUFFICES ASSUME OneRuns, [Next]_vars PROVE (StoppedFirst /\ NeverBoth)'
    BY PairNext DEF OneRuns
  <2> USE DEF OneRuns, PairInv, TypeOK, StoppedFirst, NeverBoth, At, Step
  <2>1. ASSUME NEW v \in Vms, Environment(v) PROVE (StoppedFirst /\ NeverBoth)'
    <3>1. CASE \E state \in {"off", "running", "paused"} : Power(v, state)
      BY <3>1 DEF Power, InHand
    <3>2. CASE StartByHand(v)
      BY <3>2 DEF StartByHand
    <3>3. CASE PrimaryWrites(v) \/ SecondaryWrites(v) \/ SecondaryStops(v)
      BY <3>3 DEF PrimaryWrites, SecondaryWrites, SecondaryStops
    <3> QED  BY <2>1, <3>1, <3>2, <3>3 DEF Environment
  <2>2. ASSUME NEW v \in Vms, Handler(v) PROVE (StoppedFirst /\ NeverBoth)'
    <3>1. CASE TriggerFailover(v)
      <4>1. PICK state \in Sees(primary[v]) :
              Begin(v, IF state = "running" THEN "stop" ELSE "start", Blind(state))
        BY <3>1 DEF TriggerFailover
      <4>2. state = "not-found" \/ state = primary[v]
        BY <4>1 DEF Sees
      <4>3. /\ hub'.vm = v /\ hub'.notes = Blind(state)
            /\ hub'.at = "start" => state # "running"
            /\ UNCHANGED <<primary, running, misled>>
        BY <4>1 DEF Begin, Idle, domains
      <4> QED  BY <4>2, <4>3 DEF Blind
    <3>2. CASE SeesStopped(v)
      <4>1. PICK state \in Sees(primary[v]) \ {"running"} :
              hub' = [hub EXCEPT !.at = "start", !.notes = Blind(state)]
        BY <3>2 DEF SeesStopped
      <4>2. state = "not-found" \/ state = primary[v]
        BY <4>1 DEF Sees
      <4>3. hub.vm = v /\ hub'.vm = v /\ hub'.notes = Blind(state)
            /\ UNCHANGED <<primary, running, misled>>
        BY <3>2, <4>1 DEF SeesStopped, HubState, domains
      <4> QED  BY <4>1, <4>2, <4>3 DEF Blind
    <3>3. CASE DestroyPrimary(v)
      <4>1. /\ hub'.vm = v /\ UNCHANGED <<running, misled>>
            /\ \/ primary' = [primary EXCEPT ![v] = "off"]
               \/ primary' = primary /\ hub'.notes = {"blind"}
        BY <3>3 DEF DestroyPrimary, HubState
      <4> QED  BY <4>1
    <3>4. CASE StartSecondary(v)
      <4>1. /\ hub.at = "start" /\ hub.vm = v /\ hub'.at = "promote"
            /\ running' = running \cup {v} /\ primary' = primary
            /\ misled' = IF "blind" \in hub.notes THEN misled \cup {v} ELSE misled
        BY <3>4 DEF StartSecondary, HubState
      <4> QED  BY <4>1
    <3>5. CASE ~(TriggerFailover(v) \/ SeesStopped(v) \/ DestroyPrimary(v) \/ StartSecondary(v))
      <4>1. /\ primary' = primary /\ running' \ misled' \subseteq running \ misled
            /\ hub'.at # "start"
        <5>1. CASE CreatePair(v) \/ SyncCheckpoint(v) \/ RemoveFt(v)
          BY <3>5, <5>1, Beginnings, RemovalBegins
        <5>2. CASE \/ BeginCopy(v) \/ EndCopy(v) \/ DefineSecondary(v)
                   \/ Stamp(v) \/ ShutDown(v)
          BY <5>2 DEF BeginCopy, EndCopy, DefineSecondary, Stamp, ShutDown, HubState, domains
        <5>3. CASE DestroySecondary(v) \/ Undefine(v)
          BY <5>3 DEF DestroySecondary, Undefine, HubState
        <5>4. CASE SaveProtected(v) \/ SaveFailover(v) \/ Forget(v)
          BY <5>4 DEF SaveProtected, SavePair, SaveFailover, Forget, Idle, domains
        <5>5. CASE \/ CopyRefused(v) \/ CopyFails(v) \/ DefineFails(v)
                   \/ SaveFails(v) \/ StartFails(v)
          <6>1. Raise
            BY <5>5 DEF CopyRefused, CopyFails, DefineFails, SaveFails, StartFails
          <6> QED  BY <6>1 DEF Raise, Idle, domains
        <5> QED  BY <2>2, <3>5, <5>1, <5>2, <5>3, <5>4, <5>5 DEF Handler
      <4> QED  BY <4>1
    <3> QED  BY <3>1, <3>2, <3>3, <3>4, <3>5
  <2>3. CASE Crash
    BY <2>3 DEF Crash, Raise, Idle, domains
  <2>4. CASE UNCHANGED vars
    BY <2>4 DEF vars
  <2> QED  BY <2>1, <2>2, <2>3, <2>4 DEF Next
<1>3. OneRuns => NeverBoth
  BY DEF OneRuns
<1> QED  BY <1>1, <1>2, <1>3, PTL DEF Spec
=============================================================================
