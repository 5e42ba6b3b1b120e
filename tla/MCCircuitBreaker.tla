---------------------------- MODULE MCCircuitBreaker ----------------------------
(* Two inserts, a purge and a search under way at once: enough for answers  *)
(* to arrive in every state other than the one the call was admitted in.    *)
EXTENDS CircuitBreaker

CONSTANTS i1, i2, p1, s1

MCInsert == {i1, i2}
MCPurge == {p1}
MCSearch == {s1}

================================================================================
