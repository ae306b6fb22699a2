CONSTANTS
  Domain <- MCDomain
  NumSlots = 3
  Exclusion <- PairedExclusion
  RequestId = {1, 2}
  Request <- PairedRequest
  Extension = {1}
  RenewalCap = {0}
  MaxReservations = 3
  Durable = TRUE
  MaxInstant = 5
  MaxEpoch = 2
  Lag = 0
  AllowReset = FALSE
  MaxClock = 3
  MaxId = 3
SPECIFICATION Spec
INVARIANTS
  ExclusionRespected
