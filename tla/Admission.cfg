CONSTANTS
  NumBlocks = 4
  BlockSize = 2
  NumSeqs = 3
  DecodeBudget = 0
  StepGuard = 0
  IgnoreEos = FALSE
  Kinds <- MixedKinds
  MaxNumSeqs = 2
  MaxBatched = 4
  Configs <- PrefillFirst
  AdmissionPolicies = {"disabled", "kv_aware_fifo", "prefix_aware_fifo", "slack_aware_prefix_fifo"}
SPECIFICATION Spec
INVARIANTS ReservationsExact FullReservationsCover NoPreemption
PROPERTIES EventuallyTerminal
