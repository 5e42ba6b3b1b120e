--------------------------- MODULE MCWorkerShutdown ---------------------------
(* One call of the timer beside the calls stop() makes itself, and clients *)
(* that never stop posting.                                                *)
EXTENDS WorkerShutdown

CONSTANTS e1, e2, e3, timer, own

MCSource == {e1, e2, e3}
MCWorker == {timer, own}

================================================================================
