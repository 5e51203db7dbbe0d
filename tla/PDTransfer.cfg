CONSTANTS
  NumRequests = 4
  BlockSize = 2
  TotalBlocks = 3
  Prompt <- MCPrompt
  Limits <- MCLimits
  MaxFaults = 1
SPECIFICATION Spec
INVARIANTS HandedOn ImportsFit ResultReconciled
PROPERTIES AllServed
