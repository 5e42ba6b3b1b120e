------------------------------ MODULE MCCheckpoint ------------------------------
(* Three events for a buffer of two, two saves under way, three starts: the *)
(* second instance has stale events from the second start on, and what it   *)
(* writes is recovered by the third.                                        *)
EXTENDS Checkpoint, TLC

CONSTANTS e1, e2, e3, s1, s2

Events2 == {e1, e2}
Events3 == {e1, e2, e3}
Saves2 == {s1, s2}

Symmetry2 == Permutations(Events2) \cup Permutations(Saves2)
Symmetry3 == Permutations(Events3) \cup Permutations(Saves2)

================================================================================
