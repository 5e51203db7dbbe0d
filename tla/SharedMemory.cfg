CONSTANTS
  NumRanks = 3
  Calls <- SampledCalls
  MaxCalls = 4
SPECIFICATION Spec
INVARIANTS SameCalls
PROPERTIES EngineExits
CHECK_DEADLOCK FALSE
