---------------------------- MODULE MCAutoScaler ----------------------------
(***************************************************************************)
(* Small instances of AutoScaler: two policies of one VM.                  *)
(***************************************************************************)
EXTENDS AutoScaler, TLC

CONSTANTS p1, p2, cpu, mem

TwoIds   == {p1, p2}
OneId    == {p1}
CpuOnly  == {cpu}
Both     == {cpu, mem}

All(n)   == [r \in Resources |-> n]

(* Steps of one and of two between limits a step does not divide.          *)
Fine     == [min |-> All(0), max |-> All(2), step |-> All(1)]
Coarse   == [min |-> All(1), max |-> All(3), step |-> All(2)]
TwoKinds == {Fine, Coarse}
OneKind  == {Coarse}
(* The floor of the memory lies above its finest step.                     *)
Floors   == [r \in Both |-> IF r = mem THEN 2 ELSE 1]
Ones     == All(1)
Twos     == All(2)
Fours    == All(4)
=============================================================================
