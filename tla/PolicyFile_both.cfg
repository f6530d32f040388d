CONSTANTS
  a = a
  b = b
  c = c
  stump = stump
  Stumps <- OneStump
  Values <- Two
  Lists <- AnyOfTwo
  Deployments <- BothWriters
  MaxSeen = 2
  Faults = FALSE
  MaxCrashes = 0
SPECIFICATION Spec
INVARIANT ReportedIsInFile
CHECK_DEADLOCK FALSE
