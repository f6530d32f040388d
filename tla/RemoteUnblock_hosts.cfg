CONSTANTS
  h1 = h1
  h2 = h2
  a = a
  b = b
  All = All
  Hosts <- TwoHosts
  Named <- TwoHosts
  Values <- TwoValues
  Acceptable <- OneValue
  Targets <- FirstOrAll
  MaxPending = 2
  MaxCompleted = 1
  MaxIds = 3
  MaxRestarts = 1
SPECIFICATION FairSpec
INVARIANTS
  TypeOK
  CompletedWasApplied
  NothingForgotten
PROPERTIES
  IsApproved
  RequestsSettle
CHECK_DEADLOCK FALSE
