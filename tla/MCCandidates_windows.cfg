CONSTANTS
  Domain <- MCDomain
  Grid <- MCGrid
  GridOf <- MCGridOf
  Fragmented <- MCFragmented
  Exclusion <- MCExclusion
  Publication <- SplitPublication
  Request <- SplitRequest
  MaxCandidates = 2
  MaxDiagnostics = 1
  SlotWord = 16
  MaxId = 2
  MaxGeneration = 2
SPECIFICATION Spec
INVARIANTS
  InsideEveryWindow
