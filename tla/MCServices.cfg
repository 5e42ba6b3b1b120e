CONSTANTS
  a = a
  b = b
  Enriched <- MCEnriched
  Checkpoints <- MCCheckpoints
  MaxSize = 3
  BatchSizes = {0, 1, 2, 5}
  MaxAttempts = 9

  x1 = x1
  x2 = x2
  x3 = x3
  y1 = y1
  y2 = y2

  Event <- MCItem
  Zone <- MCZone
  OddPlace <- MCOddPlace
  MaxDay = 2
  RetentionDays = 1
  MaxRange = 2
  MaxCleanups = 2
  PageSize = 1
  MaxPage = 2
  DtoMaxPage = 4

  Caller <- MCPair
  Query <- MCPair
  CacheTtl = 2
  MaxDuration = 2
  MaxClock = 6

  MaxSaves = 5
  MaxInFlight = 2

  Load <- MCLoad
  Capacity = 10
  MaxChanges = 3

  Entry <- MCItem
  Service <- MCService
  NoService = "no service"
  DefaultLimit = 2
  MaxDlqChanges = 4

  MaxDepth = 3
  MaxKeys = 3
  Levels = 4
  Width = 3

SPECIFICATION ServicesSpec
SYMMETRY Symmetry

INVARIANTS
  ServicesTypeOK
  BufferTypeOK
  MemoryBounded
  ExactDelivery
  CountersAgree
  WalkSeesAllThatStayed
  FreshWhileQueriesSucceed
  NeverFarBehind
  OneTearOneLoss
  LastSavesReadable
  VerdictInBetween
  ReportCountsWhatStayed
  

PROPERTIES
  ImplementsFifo
  RetentionSparesYoung

\* The calls of enqueue(), a history, a walk or a document may have come to its end.
CHECK_DEADLOCK FALSE
