CONSTANTS
  NumBlocks = 4
  BlockSize = 2
  NumSeqs = 3
  DecodeBudget = 0
  StepGuard = 0
  IgnoreEos = FALSE
  Kinds <- MixedKinds
  MaxNumSeqs = 2
  MaxBatched = 4
  Configs <- PrefillFirst
  AdmissionPolicies = {"prefix_aware_fifo"}
SPECIFICATION Spec
INVARIANTS ReservationsCover
