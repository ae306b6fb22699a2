CONSTANTS
  Domain <- MCDomain
  Grid <- MCGrid
  GridOf <- MCGridOf
  Fragmented <- MCFragmented
  Exclusion <- MCExclusion
  Publication <- MCPublication
  Request <- MCRequest
  MaxCandidates = 2
  MaxDiagnostics = 1
  SlotWord = 16
  MaxId = 2
  MaxGeneration = 2
SPECIFICATION Spec
INVARIANTS
  TypeOK
  NobodyDisplaced
  AsRequested
  NothingOverlooked
  LowestFirst
  UsageAgrees
