---------------------------- MODULE MCBatchPipeline ----------------------------
(* Two overlapping process() calls.  With four client events, a buffer and  *)
(* batches of three and two individual inserts at most, batches overlap, a  *)
(* retry meets a full buffer, and a batch has events beyond the limit.      *)
EXTENDS BatchPipeline, TLC

CONSTANTS e1, e2, e3, e4, w1, w2

Sources2 == {e1, e2}
Sources3 == {e1, e2, e3}
Sources4 == {e1, e2, e3, e4}
Workers2 == {w1, w2}

(* Sources and calls are only compared for equality.                       *)
Symmetry4 == Permutations(Sources4) \cup Permutations(Workers2)

================================================================================
