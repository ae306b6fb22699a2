CONSTANTS
  Domain <- MCDomain
  NumSlots = 2
  Exclusion <- MCExclusion
  RequestId = {1, 2}
  Request <- MCRequest
  Extension = {1}
  RenewalCap = {0}
  MaxReservations = 2
  Durable = TRUE
  MaxInstant = 5
  MaxEpoch = 2
  Lag = 1
  AllowReset = FALSE
  MaxClock = 2
  MaxId = 3
SPECIFICATION Spec
INVARIANTS
  TypeOK
  DurableOwnership
  OneGrantPerRequest
  LiveIndexExact
  IdNeverReused
  RequestIndexTracksLive
PROPERTIES
  OnlyLateRenewalsOverlap
  OwnsSpectrum
