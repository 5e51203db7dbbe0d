CONSTANTS
  Policies <- AllPolicies
  Arrival <- ArrivalTimes
  Full <- FullBlocks
  MaxOutput <- OutputTokens
  Capacity = 3
  MaxWait = 3
  EtaPrefill = 1
  EtaDecode = 1
  EtaMargin = 2
  MaxRun = 6
  MaxStep = 2
SPECIFICATION Spec
INVARIANTS  LogFollowsLoop
