--------------------------- MODULE SnapshotWindow ---------------------------
(***************************************************************************)
(* What a retention policy promises, whoever applies it: points in time    *)
(* are kept, in whatever order they come, and one is dropped only while at *)
(* least Floor later ones are kept.  So once Floor points exist there are  *)
(* never fewer, and the latest is never dropped.                           *)
(***************************************************************************)
EXTENDS Integers, FiniteSets

CONSTANTS
  Moments,  \* when a point can be taken: some naturals
  Floor     \* how many of the newest points no pruning touches: at least one

VARIABLE kept

Newer(S, s) == {x \in S : x > s}

Init == kept = {}

Take ==
  \E m \in Moments \ kept : kept' = kept \cup {m}

Drop ==
  \E s \in kept :
    /\ Cardinality(Newer(kept, s)) >= Floor
    /\ kept' = kept \ {s}

Next == Take \/ Drop

Spec == Init /\ [][Next]_kept

(* Once Floor points are kept there are never fewer, and what is dropped   *)
(* leaves a newer one behind.                                              *)
NewestStay ==
  [][/\ Cardinality(kept) >= Floor => Cardinality(kept') >= Floor
     /\ \A s \in kept \ kept' : \E x \in kept' : x > s]_kept
=============================================================================
