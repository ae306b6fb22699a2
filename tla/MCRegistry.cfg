CONSTANTS
  Grid = {"g", "h"}
  Span = {"s"}
  Port = {}
  Domain = {1, 2}
  Exclusion = {"x", "y"}
  GridDef <- MCGridDef
  DomainDef <- MCDomainDef
  ExclusionDef <- MCExclusionDef
  CapabilityDef <- MCCapabilityDef
  NoSpan = "none"
  Kind = {"eligibility", "reservation"}
  MaxGrids = 1
  MaxDomains = 2
  MaxExclusions = 2
  MaxPerMember = 1
  MaxReferences = 1
  MaxAnchor = 1
  MaxAuthority = 2
  RecoverInPlace = FALSE
  MaxBoots = 2
SPECIFICATION Spec
INVARIANTS
  TypeOK
  CurrentImageLoads
  EnforcedThroughoutOrNowhere
  GenerationsIdentify
PROPERTIES
  StaleAuthorityStaysStale
