CONSTANTS
  h1 = h1
  h2 = h2
  d1 = d1
  d2 = d2
  i1 = i1
  i2 = i2
  Handlers <- MCHandlers
  Domains <- MCDomains
  Ips <- OneIp
  Policies <- MCPolicies
  TTLs <- MCTTLs
  Floor = 2
  Ceiling = 3
  MaxReloads = 2
  Faults = TRUE
SPECIFICATION Spec
SYMMETRY Symmetric
INVARIANTS
  TypeOK
  AnsweredIsOpen
  OpenIsRecent
