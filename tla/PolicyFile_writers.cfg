CONSTANTS
  a = a
  b = b
  c = c
  stump = stump
  Stumps <- OneStump
  Values <- Three
  Lists <- OnlyTheLast
  Deployments <- OneWriter
  MaxSeen = 2
  Faults = TRUE
  MaxCrashes = 1
SPECIFICATION FairSpec
INVARIANTS
  TypeOK
  ReportedIsInFile
PROPERTIES
  IsAllowlist
  EveryValueArrives
CHECK_DEADLOCK FALSE
