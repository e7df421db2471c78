-------------------------- MODULE AutoScaler_proofs --------------------------
(***************************************************************************)
(* Proofs about AutoScaler, for any policies, limits and number of passes: *)
(* the type invariant, the band that the VM stays in even when a triggered *)
(* pass overlaps the worker's, and the cool-down when there is no trigger, *)
(* no restart and no failed save.                                          *)
(***************************************************************************)
EXTENDS AutoScaler, TLAPS

(***************************************************************************)
(* The band is not inductive alone.  A pass acts on a size and a policy it *)
(* read before: the size it saw is no larger than the bound and no smaller *)
(* than the floor unless it could not be read, and the copy has every      *)
(* policy the pass has still to look at.                                   *)
(***************************************************************************)
Plausible(seen) ==
  \A r \in Resources : seen[r] <= Top[r] /\ (Smallest[r] <= seen[r] \/ r \in Unreadable)

SeenInBand == \A a \in Scalers : Plausible(pass[a].seen)

CopyKnown ==
  \A a \in Scalers :
    /\ pass[a].id # NoId => pass[a].copy[pass[a].id] # None
    /\ \A i \in pass[a].todo : pass[a].copy[i] # None

BandInv == TypeOK /\ WithinBand /\ SeenInBand /\ CopyKnown

(* The initial pass state is a pass state. *)
LEMMA IdleTyped ==
  Idle \in PassState /\ Empty \in Files
BY ScalerConstants DEF Idle, PassState, Empty, Files, Times

(* The sizes a policy may choose from a measured size lie in the band. *)
LEMMA NextSizeInBand ==
  ASSUME NEW r \in Resources, NEW limits \in Settings,
         NEW seen \in Nat, seen <= Top[r], Smallest[r] <= seen \/ r \in Unreadable,
         NEW n \in Larger(limits, r, seen) \cup Smaller(limits, r, seen)
  PROVE  n \in Nat /\ Smallest[r] <= n /\ n <= Top[r]
<1> DEFINE step == limits.step[r]
           lo   == limits.min[r]
           hi   == limits.max[r]
<1>1. /\ step \in Nat /\ lo \in Nat /\ hi \in Nat
      /\ Smallest[r] \in Nat /\ Top[r] \in Nat
  BY ScalerConstants DEF Limits, Sizes
<1>2. /\ 1 <= step /\ hi + step - 1 <= Top[r]
      /\ Smallest[r] <= seen \/ Smallest[r] <= step
      /\ Smallest[r] <= Top[r]
  <2>1. Smallest[r] <= StartSize[r] /\ StartSize[r] <= Top[r] /\ StartSize[r] \in Nat
    BY ScalerConstants DEF Sizes
  <2> QED  BY <1>1, <2>1, ScalerConstants
<1>3. CASE n \in Larger(limits, r, seen)
  <2>1. n = seen + step /\ seen < hi
    BY <1>3 DEF Larger
  <2> HIDE DEF step, hi
  <2> QED  BY <1>1, <1>2, <2>1
<1>4. CASE n \in Smaller(limits, r, seen)
  <2>1. n = IF seen - step < Smallest[r] THEN Smallest[r] ELSE seen - step
    BY <1>4 DEF Smaller
  <2> HIDE DEF step
  <2> QED  BY <1>1, <1>2, <2>1
<1> QED  BY <1>3, <1>4

-----------------------------------------------------------------------------
LEMMA BandInit == Init => BandInv
<1> SUFFICES ASSUME Init PROVE BandInv
  OBVIOUS
<1>1. TypeOK
  BY ScalerConstants, IdleTyped DEF Init, TypeOK, Times
<1>2. WithinBand
  BY ScalerConstants DEF Init, WithinBand, Sizes
<1>3. \A a \in Scalers : pass[a] = Idle
  BY DEF Init
<1>4. SeenInBand
  <2>1. \A r \in Resources : Smallest[r] <= Top[r]
    BY ScalerConstants DEF Sizes
  <2> QED  BY <1>3, <2>1, ScalerConstants DEF SeenInBand, Idle, Plausible, Sizes
<1>5. CopyKnown
  BY <1>3 DEF CopyKnown, Idle
<1> QED  BY <1>1, <1>2, <1>4, <1>5 DEF BandInv

(* The handlers change the file and nothing a pass has read. *)
LEMMA BandHandler == BandInv /\ Handler => BandInv'
<1> SUFFICES ASSUME BandInv, Handler PROVE BandInv'
  OBVIOUS
<1>1. UNCHANGED <<now, size, pass, scaled>>
  BY DEF Handler, CreatePolicy, UpdatePolicy, DeletePolicy
<1>2. born' \subseteq Ids /\ file' \in Files
  <2> USE IdleTyped DEF BandInv, TypeOK, Files, Save, Loaded
  <2>1. ASSUME NEW i \in Ids, NEW limits \in Settings, CreatePolicy(i, limits)
        PROVE  born' \subseteq Ids /\ file' \in Files
    <3>1. [limits |-> limits, enabled |-> TRUE, last |-> Never] \in Policy
      BY DEF Policy
    <3> QED  BY <2>1, <3>1 DEF CreatePolicy
  <2>2. ASSUME NEW i \in Ids, NEW limits \in Settings, NEW enabled \in BOOLEAN,
               UpdatePolicy(i, limits, enabled)
        PROVE  born' \subseteq Ids /\ file' \in Files
    <3>1. file[i] \in Policy
      BY <2>2 DEF UpdatePolicy
    <3>2. [[file[i] EXCEPT !.limits = limits] EXCEPT !.enabled = enabled] \in Policy
      BY <3>1 DEF Policy
    <3>3. [file EXCEPT ![i].limits = limits, ![i].enabled = enabled]
            = [file EXCEPT ![i] = [[file[i] EXCEPT !.limits = limits] EXCEPT !.enabled = enabled]]
      BY <3>1 DEF Policy
    <3> QED  BY <2>2, <3>2, <3>3 DEF UpdatePolicy
  <2>3. ASSUME NEW i \in Ids, DeletePolicy(i)
        PROVE  born' \subseteq Ids /\ file' \in Files
    BY <2>3 DEF DeletePolicy
  <2> QED  BY <2>1, <2>2, <2>3 DEF Handler
<1> QED  BY <1>1, <1>2 DEF BandInv, TypeOK, WithinBand, SeenInBand, CopyKnown

(* A step of pass a that keeps its own state in order keeps the invariant. *)
LEMMA BandFrame ==
  ASSUME BandInv, NEW a \in Scalers, NEW p \in PassState,
         pass' = [pass EXCEPT ![a] = p],
         Plausible(p.seen),
         p.id # NoId => p.copy[p.id] # None,
         \A i \in p.todo : p.copy[i] # None,
         UNCHANGED <<born, now>>, file' \in Files,
         size' \in Sizes, WithinBand', scaled' \in [Ids -> Times \cup {Never}]
  PROVE  BandInv'
<1>1. pass' \in [Scalers -> PassState]
  BY DEF BandInv, TypeOK
<1>2. \A b \in Scalers : pass'[b] = IF b = a THEN p ELSE pass[b]
  BY DEF BandInv, TypeOK
<1>3. TypeOK'
  BY <1>1 DEF BandInv, TypeOK
<1>4. SeenInBand'
  BY <1>2 DEF BandInv, SeenInBand
<1>5. CopyKnown'
  BY <1>2 DEF BandInv, CopyKnown
<1> QED  BY <1>3, <1>4, <1>5 DEF BandInv

LEMMA BandPass == ASSUME BandInv, NEW a \in Scalers, Pass(a) PROVE BandInv'
<1>0. /\ pass[a] \in PassState /\ pass \in [Scalers -> PassState]
      /\ file \in Files /\ now \in Times /\ size \in Sizes
      /\ scaled \in [Ids -> Times \cup {Never}]
      /\ Plausible(pass[a].seen)
      /\ pass[a].id # NoId => pass[a].copy[pass[a].id] # None
      /\ \A i \in pass[a].todo : pass[a].copy[i] # None
  BY DEF BandInv, TypeOK, SeenInBand, CopyKnown
<1>b. UNCHANGED size => WithinBand'
  BY DEF BandInv, WithinBand
<1>1. CASE Begin(a)
  <2>0. PICK data \in Loaded :
          pass' = [pass EXCEPT ![a] =
            [Idle EXCEPT !.busy = TRUE, !.start = now, !.copy = data,
                         !.todo = {i \in Ids : data[i] # None}]]
    BY <1>1 DEF Begin
  <2>a. data \in Files
    BY <1>0, IdleTyped DEF Loaded
  <2> DEFINE p == [Idle EXCEPT !.busy = TRUE, !.start = now, !.copy = data,
                               !.todo = {i \in Ids : data[i] # None}]
  <2>1. p \in PassState
    BY <1>0, <2>a, IdleTyped DEF PassState
  <2>2. /\ p.seen = Smallest /\ p.id = NoId /\ p.copy = data
        /\ p.todo = {i \in Ids : data[i] # None}
    BY DEF Idle
  <2>3. Plausible(p.seen)
    BY <2>2, ScalerConstants DEF Sizes, Plausible
  <2>4. pass' = [pass EXCEPT ![a] = p]
    BY <2>0
  <2> HIDE DEF p
  <2> QED  BY <1>0, <1>1, <1>b, <2>1, <2>2, <2>3, <2>4, BandFrame DEF Begin
<1>2. ASSUME NEW i \in Ids, Skip(a, i) PROVE BandInv'
  <2> DEFINE p == [pass[a] EXCEPT !.todo = @ \ {i}]
  <2>1. p \in PassState
    BY <1>0 DEF PassState
  <2>2. /\ p.seen = pass[a].seen /\ p.id = pass[a].id /\ p.copy = pass[a].copy
        /\ p.todo = pass[a].todo \ {i}
    BY <1>0 DEF PassState
  <2>3. pass' = [pass EXCEPT ![a] = p]
    BY <1>0, <1>2 DEF Skip
  <2> HIDE DEF p
  <2>4. /\ Plausible(p.seen)
        /\ p.id # NoId => p.copy[p.id] # None
        /\ \A j \in p.todo : p.copy[j] # None
    BY <1>0, <2>2
  <2>5. UNCHANGED <<file, born, now, size, scaled>>
    BY <1>2 DEF Skip
  <2> QED  BY <1>0, <1>b, <2>1, <2>3, <2>4, <2>5, BandFrame
<1>3. ASSUME NEW i \in Ids, Measure(a, i) PROVE BandInv'
  <2>1. PICK seen \in Readings :
          pass' = [pass EXCEPT ![a].todo = @ \ {i}, ![a].id = i,
                               ![a].seen = seen, ![a].left = Resources]
    BY <1>3 DEF Measure
  <2> DEFINE p == [pass[a] EXCEPT !.todo = @ \ {i}, !.id = i, !.seen = seen,
                                  !.left = Resources]
  <2>2. seen \in Sizes
    BY <1>0 DEF Readings, Sizes
  <2>3. Plausible(seen)
    BY <1>0, ScalerConstants DEF Readings, Sizes, BandInv, WithinBand, Plausible
  <2>4. p \in PassState
    BY <1>0, <2>2 DEF PassState
  <2>5. /\ p.seen = seen /\ p.id = i /\ p.copy = pass[a].copy
        /\ p.todo = pass[a].todo \ {i}
    BY <1>0 DEF PassState
  <2>6. pass[a].copy[i] # None
    BY <1>0, <1>3 DEF Measure, Ready
  <2>7. pass' = [pass EXCEPT ![a] = p]
    BY <1>0, <2>1 DEF PassState
  <2> HIDE DEF p
  <2>8. /\ Plausible(p.seen)
        /\ p.id # NoId => p.copy[p.id] # None
        /\ \A j \in p.todo : p.copy[j] # None
    BY <1>0, <2>3, <2>5, <2>6
  <2>9. UNCHANGED <<file, born, now, size, scaled>>
    BY <1>3 DEF Measure
  <2> QED  BY <1>0, <1>b, <2>4, <2>7, <2>8, <2>9, BandFrame
<1>4. ASSUME NEW r \in Resources, Resize(a, r) PROVE BandInv'
  <2> DEFINE i == pass[a].id
             q == [pass[a].copy[i] EXCEPT !.last = now]
             p == [pass[a] EXCEPT !.left = @ \ {r}, !.copy = [pass[a].copy EXCEPT ![i] = q]]
  <2>1. i \in Ids /\ pass[a].copy \in Files /\ pass[a].copy[i] \in Policy
    BY <1>0, <1>4 DEF Resize, PassState, Files
  <2>2. q \in Policy /\ q # None
    BY <1>0, <2>1, ScalerConstants DEF Policy
  <2>3. p \in PassState
    BY <1>0, <2>1, <2>2 DEF PassState, Files
  <2>4. /\ p.seen = pass[a].seen /\ p.id = i /\ p.todo = pass[a].todo
        /\ p.copy = [pass[a].copy EXCEPT ![i] = q]
    BY <1>0 DEF PassState
  <2>5. \A j \in Ids : pass[a].copy[j] # None => p.copy[j] # None
    BY <2>1, <2>2, <2>4 DEF Files
  <2>6. pass[a].todo \subseteq Ids
    BY <1>0 DEF PassState
  <2>7. pass' = [pass EXCEPT ![a] = p]
    <3>1. pass' = [pass EXCEPT ![a].left = @ \ {r}, ![a].copy[pass[a].id].last = now]
      BY <1>4 DEF Resize, Stamp
    <3> QED  BY <1>0, <3>1, <2>1 DEF PassState, Files, Policy
  <2>8. size' \in Sizes /\ WithinBand'
    <3>1. PICK n \in Larger(Current(a).limits, r, pass[a].seen[r])
                       \cup Smaller(Current(a).limits, r, pass[a].seen[r]) :
            size' = [size EXCEPT ![r] = n] \/ UNCHANGED size
      BY <1>4 DEF Resize
    <3>2. pass[a].seen[r] \in Nat /\ Current(a).limits \in Settings
      BY <1>0, <2>1 DEF PassState, Sizes, Current, Policy
    <3>3. n \in Nat /\ Smallest[r] <= n /\ n <= Top[r]
      BY <1>0, <3>2, NextSizeInBand DEF Plausible
    <3> QED  BY <1>0, <3>1, <3>3 DEF Sizes, WithinBand, BandInv
  <2>9. scaled' \in [Ids -> Times \cup {Never}]
    BY <1>0, <1>4, <2>1 DEF Resize
  <2> HIDE DEF p
  <2>10. /\ Plausible(p.seen)
         /\ p.id # NoId => p.copy[p.id] # None
         /\ \A j \in p.todo : p.copy[j] # None
    BY <1>0, <2>1, <2>2, <2>4, <2>5, <2>6
  <2>11. UNCHANGED <<file, born, now>>
    BY <1>4 DEF Resize
  <2> HIDE DEF q, i
  <2> QED  BY <1>0, <2>3, <2>7, <2>8, <2>9, <2>10, <2>11, BandFrame
<1>5. ASSUME NEW r \in Resources, LeaveSize(a, r) PROVE BandInv'
  <2> DEFINE p == [pass[a] EXCEPT !.left = @ \ {r}]
  <2>1. p \in PassState
    BY <1>0 DEF PassState
  <2>2. /\ p.seen = pass[a].seen /\ p.id = pass[a].id /\ p.copy = pass[a].copy
        /\ p.todo = pass[a].todo
    BY <1>0 DEF PassState
  <2>3. pass' = [pass EXCEPT ![a] = p]
    BY <1>0, <1>5 DEF LeaveSize
  <2> HIDE DEF p
  <2>4. /\ Plausible(p.seen)
        /\ p.id # NoId => p.copy[p.id] # None
        /\ \A j \in p.todo : p.copy[j] # None
    BY <1>0, <2>2
  <2>5. UNCHANGED <<file, born, now, size, scaled>>
    BY <1>5 DEF LeaveSize
  <2> QED  BY <1>0, <1>b, <2>1, <2>3, <2>4, <2>5, BandFrame
<1>6. CASE EndRound(a)
  <2> DEFINE p == [pass[a] EXCEPT !.id = NoId]
  <2>1. p \in PassState
    BY <1>0 DEF PassState
  <2>2. /\ p.seen = pass[a].seen /\ p.id = NoId /\ p.copy = pass[a].copy
        /\ p.todo = pass[a].todo
    BY <1>0 DEF PassState
  <2>3. pass' = [pass EXCEPT ![a] = p]
    BY <1>0, <1>6 DEF EndRound
  <2> HIDE DEF p
  <2>4. /\ Plausible(p.seen)
        /\ p.id # NoId => p.copy[p.id] # None
        /\ \A j \in p.todo : p.copy[j] # None
    BY <1>0, <2>2
  <2>5. UNCHANGED <<file, born, now, size, scaled>>
    BY <1>6 DEF EndRound
  <2> QED  BY <1>0, <1>b, <2>1, <2>3, <2>4, <2>5, BandFrame
<1>7. CASE EndPass(a)
  <2>1. file' \in Files
    BY <1>0, <1>7, IdleTyped DEF EndPass, Save, PassState
  <2>2. /\ Idle.seen = Smallest /\ Idle.id = NoId /\ Idle.todo = {}
    BY DEF Idle
  <2>3. Plausible(Idle.seen)
    BY <2>2, ScalerConstants DEF Sizes, Plausible
  <2> QED  BY <1>0, <1>7, <1>b, <2>1, <2>2, <2>3, IdleTyped, BandFrame DEF EndPass
<1> QED  BY <1>1, <1>2, <1>3, <1>4, <1>5, <1>6, <1>7 DEF Pass

LEMMA BandStep == BandInv /\ [Next]_vars => BandInv'
<1> SUFFICES ASSUME BandInv, [Next]_vars PROVE BandInv'
  OBVIOUS
<1>1. CASE Handler
  BY <1>1, BandHandler
<1>2. ASSUME NEW a \in Scalers, Pass(a) PROVE BandInv'
  BY <1>2, BandPass
<1>3. CASE Tick
  <2>1. now' \in Times
    BY <1>3, ScalerConstants DEF Tick, BandInv, TypeOK, Times
  <2> QED  BY <1>3, <2>1 DEF Tick, BandInv, TypeOK, WithinBand, SeenInBand, CopyKnown
<1>4. CASE Crash
  <2>1. TypeOK'
    BY <1>4, IdleTyped DEF Crash, BandInv, TypeOK
  <2>2. \A a \in Scalers : pass'[a] = Idle
    BY <1>4 DEF Crash
  <2>3. SeenInBand'
    <3>1. \A r \in Resources : Smallest[r] <= Top[r]
      BY ScalerConstants DEF Sizes
    <3> QED  BY <2>2, <3>1, ScalerConstants DEF SeenInBand, Idle, Plausible, Sizes
  <2>4. CopyKnown'
    BY <2>2 DEF CopyKnown, Idle
  <2> QED  BY <1>4, <2>1, <2>3, <2>4 DEF Crash, BandInv, WithinBand
<1>5. CASE UNCHANGED vars
  BY <1>5 DEF vars, BandInv, TypeOK, WithinBand, SeenInBand, CopyKnown
<1> QED  BY <1>1, <1>2, <1>3, <1>4, <1>5 DEF Next

(* Every behaviour keeps the types, failures, restarts and overlaps        *)
(* included.                                                               *)
THEOREM TypeCorrect == Spec => []TypeOK
<1>1. BandInv => TypeOK
  BY DEF BandInv
<1> QED  BY <1>1, BandInit, BandStep, PTL DEF Spec

(* The VM stays within the band of its policies, however many passes       *)
(* overlap, whatever sizes cannot be read and whichever calls fail.        *)
THEOREM BandHolds == Spec => []WithinBand
<1>1. BandInv => WithinBand
  BY DEF BandInv
<1> QED  BY <1>1, BandInit, BandStep, PTL DEF Spec
-----------------------------------------------------------------------------
(***************************************************************************)
(* The cool-down of a single scaler.  What a pass decides by is last_action*)
(* of its copy; that this is the time of the last resize is what has to be *)
(* carried along: in the copy while a pass runs, in the file otherwise.    *)
(***************************************************************************)
Alone == ~Triggers /\ ~Crashes /\ ~Faults

InForce == IF pass["worker"].busy THEN pass["worker"].copy ELSE file

Stamped == \A i \in Ids : InForce[i] # None => InForce[i].last = scaled[i]

Unborn ==
  \A i \in Ids \ born :
    scaled[i] = Never /\ file[i] = None /\ pass["worker"].copy[i] = None

Begun ==
  /\ ~pass["hub"].busy /\ pass["hub"].id = NoId
  /\ pass["worker"].start <= now
  /\ pass["worker"].id # NoId => pass["worker"].busy

CoolInv == BandInv /\ Stamped /\ Unborn /\ Begun

LEMMA CoolInit == Init => CoolInv
<1> SUFFICES ASSUME Init PROVE CoolInv
  OBVIOUS
<1>1. /\ pass["worker"] = Idle /\ pass["hub"] = Idle
      /\ file = Empty /\ now = 0 /\ \A i \in Ids : scaled[i] = Never
  BY DEF Init, Scalers
<1>2. Stamped /\ Unborn
  BY <1>1 DEF Stamped, Unborn, InForce, Idle, Empty
<1>3. Begun
  BY <1>1 DEF Begun, Idle
<1> QED  BY <1>2, <1>3, BandInit DEF CoolInv

LEMMA CoolHandler == ASSUME Alone, CoolInv, Handler PROVE Stamped' /\ Unborn' /\ Begun'
<1>1. UNCHANGED <<now, size, pass, scaled>>
  BY DEF Handler, CreatePolicy, UpdatePolicy, DeletePolicy
<1>2. Begun'
  BY <1>1 DEF CoolInv, Begun
<1>3. file \in Files
  BY DEF CoolInv, BandInv, TypeOK
<1> USE DEF Alone, Save, Loaded, Files
<1>4. ASSUME NEW i \in Ids, NEW limits \in Settings, CreatePolicy(i, limits)
      PROVE  Stamped' /\ Unborn'
  <2> DEFINE new == [limits |-> limits, enabled |-> TRUE, last |-> Never]
  <2>1. file' = [file EXCEPT ![i] = new] /\ born' = born \cup {i} /\ i \notin born
    BY <1>4 DEF CreatePolicy
  <2>2. scaled[i] = Never /\ new.last = Never
    BY <2>1 DEF CoolInv, Unborn
  <2> HIDE DEF new
  <2>3. \A j \in Ids : file'[j] = IF j = i THEN new ELSE file[j]
    BY <1>3, <2>1
  <2> QED  BY <1>1, <2>1, <2>2, <2>3 DEF CoolInv, Stamped, Unborn, InForce
<1>5. ASSUME NEW i \in Ids, NEW limits \in Settings, NEW enabled \in BOOLEAN,
             UpdatePolicy(i, limits, enabled)
      PROVE  Stamped' /\ Unborn'
  <2> DEFINE new == [[file[i] EXCEPT !.limits = limits] EXCEPT !.enabled = enabled]
  <2>1. file[i] # None /\ file[i] \in Policy /\ born' = born
    BY <1>3, <1>5 DEF UpdatePolicy
  <2>2. new.last = file[i].last
    BY <2>1 DEF Policy
  <2>3. file' = [file EXCEPT ![i] = new]
    <3>1. file' = [file EXCEPT ![i].limits = limits, ![i].enabled = enabled]
      BY <1>5 DEF UpdatePolicy
    <3> QED  BY <1>3, <2>1, <3>1 DEF Policy
  <2> HIDE DEF new
  <2>4. \A j \in Ids : file'[j] = IF j = i THEN new ELSE file[j]
    BY <1>3, <2>3
  <2> QED  BY <1>1, <2>1, <2>2, <2>4 DEF CoolInv, Stamped, Unborn, InForce
<1>6. ASSUME NEW i \in Ids, DeletePolicy(i) PROVE Stamped' /\ Unborn'
  <2>1. born' = born /\ \A j \in Ids : file'[j] = IF j = i THEN None ELSE file[j]
    BY <1>3, <1>6 DEF DeletePolicy
  <2> QED  BY <1>1, <2>1 DEF CoolInv, Stamped, Unborn, InForce
<1> QED  BY <1>2, <1>4, <1>5, <1>6 DEF Handler

LEMMA CoolWorker == ASSUME Alone, CoolInv, Pass("worker") PROVE Stamped' /\ Unborn' /\ Begun'
<1> DEFINE w == pass["worker"]
<1>0. /\ w \in PassState /\ pass \in [Scalers -> PassState]
      /\ "worker" \in Scalers /\ "hub" \in Scalers /\ "worker" # "hub"
      /\ file \in Files /\ now \in Times
      /\ scaled \in [Ids -> Times \cup {Never}]
      /\ w.id # NoId => w.copy[w.id] # None
      /\ w.start <= now /\ ~pass["hub"].busy /\ pass["hub"].id = NoId
  BY DEF CoolInv, BandInv, TypeOK, CopyKnown, Begun, Scalers
<1>1. CASE Begin("worker")
  <2>1. ~w.busy /\ UNCHANGED <<file, born, now, size, scaled>>
    BY <1>1 DEF Begin
  <2>2. /\ pass'["worker"].busy /\ pass'["worker"].copy = file
        /\ pass'["worker"].start = now /\ pass'["hub"] = pass["hub"]
    BY <1>0, <1>1 DEF Begin, Idle, Loaded, Alone
  <2>3. now <= now
    BY <1>0 DEF Times
  <2> QED  BY <1>0, <2>1, <2>2, <2>3 DEF CoolInv, Stamped, Unborn, InForce, Begun
<1>2. ASSUME UNCHANGED <<file, born, now, size, scaled>>,
             pass'["hub"] = pass["hub"], pass'["worker"].busy = w.busy,
             pass'["worker"].copy = w.copy, pass'["worker"].start = w.start,
             pass'["worker"].id # NoId => w.busy
      PROVE  Stamped' /\ Unborn' /\ Begun'
  BY <1>0, <1>2 DEF CoolInv, Stamped, Unborn, InForce, Begun
<1>5. ASSUME NEW i \in Ids, Skip("worker", i) PROVE Stamped' /\ Unborn' /\ Begun'
  <2>1. pass' = [pass EXCEPT !["worker"].todo = @ \ {i}]
    BY <1>5 DEF Skip
  <2>2. /\ pass'["worker"].busy = w.busy /\ pass'["worker"].copy = w.copy
        /\ pass'["worker"].start = w.start /\ pass'["worker"].id = w.id
        /\ pass'["hub"] = pass["hub"]
    BY <1>0, <2>1 DEF PassState
  <2> QED  BY <1>2, <1>5, <2>2 DEF Skip, CoolInv, Begun
<1>6. ASSUME NEW i \in Ids, Measure("worker", i) PROVE Stamped' /\ Unborn' /\ Begun'
  <2>1. PICK seen \in Readings :
          pass' = [pass EXCEPT !["worker"].todo = @ \ {i}, !["worker"].id = i,
                               !["worker"].seen = seen, !["worker"].left = Resources]
    BY <1>6 DEF Measure
  <2>2. /\ pass'["worker"].busy = w.busy /\ pass'["worker"].copy = w.copy
        /\ pass'["worker"].start = w.start /\ pass'["hub"] = pass["hub"]
    BY <1>0, <2>1 DEF PassState
  <2> QED  BY <1>2, <1>6, <2>2 DEF Measure, Ready
<1>7. ASSUME NEW r \in Resources, LeaveSize("worker", r)
      PROVE  Stamped' /\ Unborn' /\ Begun'
  <2>1. pass' = [pass EXCEPT !["worker"].left = @ \ {r}]
    BY <1>7 DEF LeaveSize
  <2>2. /\ pass'["worker"].busy = w.busy /\ pass'["worker"].copy = w.copy
        /\ pass'["worker"].start = w.start /\ pass'["worker"].id = w.id
        /\ pass'["hub"] = pass["hub"]
    BY <1>0, <2>1 DEF PassState
  <2> QED  BY <1>2, <1>7, <2>2 DEF LeaveSize, CoolInv, Begun
<1>8. CASE EndRound("worker")
  <2>1. pass' = [pass EXCEPT !["worker"].id = NoId]
    BY <1>8 DEF EndRound
  <2>2. /\ pass'["worker"].busy = w.busy /\ pass'["worker"].copy = w.copy
        /\ pass'["worker"].start = w.start /\ pass'["worker"].id = NoId
        /\ pass'["hub"] = pass["hub"]
    BY <1>0, <2>1 DEF PassState
  <2> QED  BY <1>2, <1>8, <2>2 DEF EndRound
<1>3. ASSUME NEW r \in Resources, Resize("worker", r)
      PROVE  Stamped' /\ Unborn' /\ Begun'
  <2> DEFINE i == w.id
             q == [w.copy[i] EXCEPT !.last = now]
  <2>1. i \in Ids /\ w.copy \in Files /\ w.copy[i] \in Policy /\ w.copy[i] # None
    BY <1>0, <1>3 DEF Resize, PassState, Files
  <2>2. /\ UNCHANGED <<file, born, now>> /\ scaled' = [scaled EXCEPT ![i] = now]
    BY <1>3 DEF Resize
  <2>3. /\ pass'["worker"].copy = [w.copy EXCEPT ![i] = q]
        /\ pass'["worker"].busy = w.busy /\ pass'["worker"].start = w.start
        /\ pass'["hub"] = pass["hub"]
    <3>1. pass' = [pass EXCEPT !["worker"].left = @ \ {r},
                               !["worker"].copy[pass["worker"].id].last = now]
      BY <1>3 DEF Resize, Stamp
    <3> QED  BY <1>0, <2>1, <3>1 DEF PassState, Files, Policy
  <2>4. q.last = now
    BY <2>1 DEF Policy
  <2>5. i \in born
    BY <2>1 DEF CoolInv, Unborn
  <2> HIDE DEF q, i
  <2>6. \A j \in Ids : /\ scaled'[j] = IF j = i THEN now ELSE scaled[j]
                       /\ pass'["worker"].copy[j] = IF j = i THEN q ELSE w.copy[j]
    BY <1>0, <2>1, <2>2, <2>3 DEF Files
  <2>7. w.busy
    BY <1>3 DEF Resize, CoolInv, Begun
  <2>8. pass'["worker"].id = i
    <3>1. pass' = [pass EXCEPT !["worker"].left = @ \ {r},
                               !["worker"].copy[pass["worker"].id].last = now]
      BY <1>3 DEF Resize, Stamp
    <3> QED  BY <1>0, <3>1 DEF PassState, i
  <2>9. /\ \A j \in Ids : w.copy[j] # None => w.copy[j].last = scaled[j]
        /\ \A j \in Ids \ born : /\ scaled[j] = Never /\ file[j] = None
                                 /\ w.copy[j] = None
    BY <2>7 DEF CoolInv, Stamped, Unborn, InForce
  <2> HIDE DEF w
  <2>10. Stamped'
    BY <2>3, <2>4, <2>6, <2>7, <2>9 DEF Stamped, InForce
  <2>11. Unborn'
    BY <2>2, <2>5, <2>6, <2>9 DEF Unborn
  <2>12. Begun'
    BY <1>0, <2>2, <2>3, <2>7 DEF Begun
  <2> QED  BY <2>10, <2>11, <2>12
<1>4. CASE EndPass("worker")
  <2>1. w.busy /\ file' = w.copy /\ UNCHANGED <<born, now, size, scaled>>
    BY <1>4 DEF EndPass, Save, Alone
  <2>2. pass'["worker"] = Idle /\ pass'["hub"] = pass["hub"]
    BY <1>0, <1>4 DEF EndPass
  <2>3. ~Idle.busy /\ Idle.copy = Empty /\ Idle.start = 0 /\ Idle.id = NoId
    BY DEF Idle
  <2>4. 0 <= now
    BY <1>0 DEF Times
  <2> QED  BY <1>0, <2>1, <2>2, <2>3, <2>4
           DEF CoolInv, Stamped, Unborn, InForce, Begun, Empty
<1> QED
  BY <1>1, <1>3, <1>4, <1>5, <1>6, <1>7, <1>8 DEF Pass

LEMMA CoolStep == Alone /\ CoolInv /\ [Next]_vars => CoolInv'
<1> SUFFICES ASSUME Alone, CoolInv, [Next]_vars PROVE CoolInv'
  OBVIOUS
<1>1. BandInv'
  BY BandStep DEF CoolInv
<1>2. CASE Handler
  BY <1>1, <1>2, CoolHandler DEF CoolInv
<1>3. ASSUME NEW a \in Scalers, Pass(a) PROVE CoolInv'
  <2>1. a = "worker"
    <3>1. SUFFICES ASSUME a = "hub" PROVE FALSE
      BY DEF Scalers
    <3>2. ~pass["hub"].busy /\ pass["hub"].id = NoId
      BY DEF CoolInv, Begun
    <3> QED  BY <1>3, <3>1, <3>2
             DEF Alone, Pass, Begin, Skip, Measure, Ready, Resize, LeaveSize, EndRound, EndPass
  <2> QED  BY <1>1, <1>3, <2>1, CoolWorker DEF CoolInv
<1>4. CASE Tick
  <2>1. pass["worker"].start \in Nat /\ now \in Nat /\ now' = now + 1
    BY <1>4 DEF Tick, CoolInv, BandInv, TypeOK, Times, PassState, Scalers
  <2>2. pass["worker"].start <= now'
    BY <2>1 DEF CoolInv, Begun
  <2>3. UNCHANGED <<file, born, size, pass, scaled>>
    BY <1>4 DEF Tick
  <2> QED  BY <1>1, <2>2, <2>3 DEF CoolInv, Stamped, Unborn, InForce, Begun
<1>5. CASE Crash
  BY <1>5 DEF Crash, Alone
<1>6. CASE UNCHANGED vars
  BY <1>1, <1>6 DEF vars, CoolInv, Stamped, Unborn, InForce, Begun
<1> QED  BY <1>2, <1>3, <1>4, <1>5, <1>6 DEF Next

LEMMA CoolGuard ==
  ASSUME CoolInv, NEW a \in Scalers, NEW i \in Ids, Measure(a, i)
  PROVE  scaled[i] = Never \/ now - scaled[i] >= Cooldown
<1>1. pass[a].busy /\ i \in pass[a].todo
  BY DEF Measure, Ready
<1>2. a = "worker"
  BY <1>1 DEF CoolInv, Begun, Scalers
<1>3. pass["worker"].copy[i] # None
  BY <1>1, <1>2 DEF CoolInv, BandInv, CopyKnown
<1>4. pass["worker"].copy[i].last = scaled[i]
  BY <1>1, <1>2, <1>3 DEF CoolInv, Stamped, InForce
<1>5. scaled[i] \in {Never} \cup 0 .. pass["worker"].start - Cooldown
  BY <1>2, <1>4 DEF Measure, Eligible, Cooled
<1>6. pass["worker"].start \in Nat /\ now \in Nat /\ pass["worker"].start <= now
  BY DEF CoolInv, Begun, BandInv, TypeOK, Times, PassState, Scalers
<1> QED  BY <1>5, <1>6, ScalerConstants

(* One scaler alone keeps the cool-down: without a triggered pass, a       *)
(* restart or a failed save, no policy begins a round too early, however   *)
(* slow its passes are and whatever the handlers save in between.          *)
THEOREM AloneKeepsCooldown == ASSUME Alone PROVE Spec => CooldownKept
<1>1. CoolInv =>
        [\A a \in Scalers, i \in Ids :
           Measure(a, i) => scaled[i] = Never \/ now - scaled[i] >= Cooldown]_vars
  BY CoolGuard
<1>2. CoolInv /\ [Next]_vars => CoolInv'
  BY CoolStep, Alone
<1> QED  BY <1>1, <1>2, CoolInit, PTL DEF Spec, CooldownKept

(* One scaler alone also records what it did: between two passes every     *)
(* policy on disk has the time of its last resize, although each pass      *)
(* saves a list that is as old as the pass.                                *)
THEOREM AloneSavesStamps == ASSUME Alone PROVE Spec => []StampSaved
<1>1. CoolInv => StampSaved
  BY DEF CoolInv, Stamped, InForce, StampSaved, Scalers
<1>2. CoolInv /\ [Next]_vars => CoolInv'
  BY CoolStep, Alone
<1> QED  BY <1>1, <1>2, CoolInit, PTL DEF Spec
=============================================================================
