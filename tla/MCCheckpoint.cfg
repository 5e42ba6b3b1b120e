CONSTANTS
  e1 = e1
  e2 = e2
  e3 = e3
  s1 = s1
  s2 = s2
  Event <- Events3
  Save <- Saves2
  MaxSize = 2
  BatchSize = 1
  MaxStarts = 3
  SelfOverlap = FALSE
  IoFails = TRUE

SPECIFICATION Spec
SYMMETRY Symmetry3

INVARIANTS
  TypeOK
  AcceptedSurvives
  OneRowPerStart

PROPERTY ImplementsRecovery

\* The bounds on events and starts let the model stop.
CHECK_DEADLOCK FALSE
