CONSTANTS
  NumBlocks = 3
  BlockSize = 2
  Seqs = {s1, s2}
  Token = {1, 2}
  Prompts <- SharedPrompts
  MaxLen = 6
  Incremental = TRUE
  AllowImport = FALSE
SYMMETRY SeqSymmetry
SPECIFICATION MCSpec
INVARIANTS TypeOK PoolConsistent KVSound WritesPrivate AdmittedAllocationFits PreviewHonoured ReplayAgrees
CHECK_DEADLOCK FALSE
