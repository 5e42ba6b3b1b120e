CONSTANTS
  e1 = e1
  e2 = e2
  e3 = e3
  e4 = e4
  w1 = w1
  w2 = w2
  Source <- Sources4
  Worker <- Workers2
  MaxSize = 3
  BatchSize = 3
  MaxRetries = 3
  IndividualLimit = 2
  AnswersGetLost = TRUE

SPECIFICATION Spec
SYMMETRY Symmetry4

INVARIANTS
  TypeOK
  NoSilentLoss
  OneLiveCopy
  StoredAtMostTwice
  AttemptsBounded
  DlqMeansExhausted

PROPERTY ImplementsFate

\* Every client event accepted and settled: nothing is left to do.
CHECK_DEADLOCK FALSE
