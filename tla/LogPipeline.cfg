CONSTANTS
  e1 = e1
  e2 = e2
  e3 = e3
  w1 = w1
  w2 = w2
  p1 = p1
  p2 = p2
  NoJob = NoJob
  Events <- MCEvents
  Workers <- MCWorkers
  Streams <- MCStreams
  Size = 2
  QueueSize = 1
  ChanSize = 1
  Settings <- MCSettings
SPECIFICATION FairSpec
CHECK_DEADLOCK FALSE
INVARIANTS
  NothingVanishes
  PagesFollow
PROPERTIES
  IsRecentLog
  Shipped
