SPECIFICATION FairSpec
CONSTANTS
  p1 = p1
  p2 = p2
  p3 = p3
  broken = broken
  Contents <- MCContents
  Readable <- MCReadable
  Absent = Absent
  NoHash = NoHash
  MaxEdits = 3
CHECK_DEADLOCK FALSE
INVARIANTS TypeOK InSync
PROPERTIES ImplementsLivePolicy EditsApply ServicesFollow
