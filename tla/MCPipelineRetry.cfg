CONSTANTS
  e1 = e1
  e2 = e2
  e3 = e3
  e4 = e4
  w1 = w1
  w2 = w2
  Source <- Sources2
  Worker <- Workers2
  MaxSize = 2
  BatchSize = 2
  MaxRetries = 3
  IndividualLimit = 100
  AnswersGetLost = FALSE

SPECIFICATION Spec

INVARIANT StoredIsNotRetried

CHECK_DEADLOCK FALSE
