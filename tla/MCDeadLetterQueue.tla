--------------------------- MODULE MCDeadLetterQueue ---------------------------
(* Two events, two worker calls and two requests: two additions of the same *)
(* event, a deletion and a reprocessing may all be under way at once.       *)
EXTENDS DeadLetterQueue, TLC

CONSTANTS e1, e2, w1, w2, r1, r2

MCEvent == {e1, e2}
MCWorker == {w1, w2}
MCRequest == {r1, r2}

Symmetry == Permutations(MCEvent) \cup Permutations(MCWorker) \cup Permutations(MCRequest)

================================================================================
