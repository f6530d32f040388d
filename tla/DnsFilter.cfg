CONSTANTS
  h1 = h1
  h2 = h2
  s1 = s1
  s2 = s2
  s3 = s3
  i1 = i1
  i2 = i2
  Handlers <- MCHandlers
  Sources <- MCSources
  Requests <- MCRequests
  Responses <- MCResponses
  Settings <- MCSettings
  Allowlist <- MCAllowlist
  Denylist <- MCDenylist
  Stopped <- MCStopped
  Ports = 2
  Burst = 1
  Qps = 1
  MaxSources = 2
  IdleEvict = 1
  MaxTime = 2
SPECIFICATION FairSpec
CHECK_DEADLOCK FALSE
INVARIANTS
  TypeOK
  RateHolds
  VerdictIsTrue
  FallsBack
PROPERTIES
  BucketsLast
  EveryQueryAnswered
