CONSTANTS
  Process = {p1, p2}
  p1 = p1
  p2 = p2
  Configs <- RunConfigs
  Specs <- TwoSpecs
  MaxFaults = 1
  MaxEdits = 1
SPECIFICATION Spec
INVARIANTS SummaryLast PassedWhole EvidenceKept ValidatorsAgree
PROPERTIES NoOverwrite
SYMMETRY ProcessesAlike
