CONSTANTS
  Domain <- MCDomain
  NumSlots = 3
  Exclusion <- PairedExclusion
  RequestId = {1, 2}
  Request <- RivalRequest
  Extension = {}
  RenewalCap = {0}
  MaxReservations = 2
  Durable = FALSE
  MaxInstant = 3
  MaxEpoch = 3
  Lag = 0
  AllowReset = TRUE
  MaxClock = 2
  MaxId = 2
SPECIFICATION Spec
INVARIANTS
  NoOverlap
  ImageLoadable
PROPERTIES
  EnforcedExclusionKept
