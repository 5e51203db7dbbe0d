SPECIFICATION Spec
CONSTANTS
  NumReplicas = 2
  NumRequests = 4
  BlockSize = 2
  TotalBlocks = 3
  Prompt <- MCPrompt
  Limit <- MCLimit
  PrefixGroup <- MCPrefixGroup
  Routers <- MCRouters
  MaxFaults = 1
INVARIANTS
  RecordsMatch
  ResultReconciled
PROPERTIES
  IdlePreferred
  AllServed
