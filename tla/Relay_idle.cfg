SPECIFICATION Spec
CONSTANTS
  Options <- OneOption
  Requests <- OneRequest
  AllowDomains <- MCAllow
  DenyDomains <- MCDeny
  Stopped <- MCStopped
  HeadLen = 1
  MaxUp = 2
  MaxDown = 1
PROPERTIES OnlyIdleEnds
CHECK_DEADLOCK FALSE
