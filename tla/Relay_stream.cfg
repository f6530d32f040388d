SPECIFICATION Spec
CONSTANTS
  Options <- MCOptions
  Requests <- MCRequests
  AllowDomains <- MCAllow
  DenyDomains <- MCDeny
  Stopped <- MCStopped
  HeadLen = 2
  MaxUp = 3
  MaxDown = 1
INVARIANTS TypeOK StreamIntact VerdictIsTrue
PROPERTIES Ends
CHECK_DEADLOCK FALSE
