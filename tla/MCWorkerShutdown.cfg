CONSTANTS
  e1 = e1
  e2 = e2
  e3 = e3
  timer = timer
  own = own
  Source <- MCSource
  Worker <- MCWorker
  StopCall = own
  MaxSize = 2
  BatchSize = 2
  MaxRetries = 2
  IndividualLimit = 1
  AnswersGetLost = FALSE

SPECIFICATION BusySpec

INVARIANTS
  STypeOK
  CleanStopDrains

PROPERTIES
  EventuallySettled
  StopReturns

\* After stop() nothing has to happen any more.
CHECK_DEADLOCK FALSE
