CONSTANTS
  a = a
  b = b
  Remote <- MCRemote
  Policies <- MCPolicies
  Settings <- MCSettings
  Flows <- MCFlows
SPECIFICATION Spec
INVARIANTS
  TypeOK
  OnlyAllowedLeave
  AllowlistPasses
  ProxiesSeeTheirTraffic
  ConnectionsSurvive
  ReportsTellTheTruth
