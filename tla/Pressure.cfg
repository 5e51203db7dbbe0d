CONSTANTS
  NumBlocks = 4
  BlockSize = 2
  NumSeqs = 3
  MaxNumSeqs = 2
  MaxBatched = 4
  Kinds <- AllKinds
  Configs <- UnderPressure
  DecodeBudget = 3
  StepGuard = 2
  IgnoreEos = FALSE
  MinPrefill = 1
  MixedAgeThreshold = 2
  PressureBudget = 2
  PressureGuard = 1
  HighUsed = 3
  CriticalUsed = 4
  PreemptWindow = 2
  PreemptThreshold = 2
  HysteresisSteps = 2
  AgeThreshold = 2
  ChunkBudget = 2
  MaxDrainSteps = 2
  WaitingAgeLimit = 3
SPECIFICATION MCSpec
INVARIANTS EngineSound DrainBounded
PROPERTIES ForcedServed OverdueEndsDrain EventuallyFinished
