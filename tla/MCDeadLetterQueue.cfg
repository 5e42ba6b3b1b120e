CONSTANTS
  e1 = e1
  e2 = e2
  w1 = w1
  w2 = w2
  r1 = r1
  r2 = r2
  Event <- MCEvent
  Worker <- MCWorker
  Request <- MCRequest
  MaxSize = 2
  AddsFail = TRUE
  MaxRows = 3
  MaxRuns = 2

SPECIFICATION Spec
SYMMETRY Symmetry

INVARIANTS
  TypeOK
  NoEventVanishes

PROPERTY ImplementsFailedEvents

\* Every event may come to rest in a table.
CHECK_DEADLOCK FALSE
