CONSTANTS
  i1 = i1
  i2 = i2
  p1 = p1
  s1 = s1
  Insert <- MCInsert
  Purge <- MCPurge
  Search <- MCSearch
  FailureThreshold = 3
  SuccessThreshold = 2
  Timeout = 2
  MaxFailureCount = 6

SPECIFICATION FairSpec

INVARIANTS
  TypeOK
  CountersFitState

PROPERTIES
  ChangesHaveCauses
  Recovers
