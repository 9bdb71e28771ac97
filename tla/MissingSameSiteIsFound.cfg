SPECIFICATION Spec
CONSTANTS
  Names <- NamesDef
  Pages <- PagesDef
  Policies <- PoliciesDef
  NP = 1
  maxReasonablePreflightCacheSeconds = 2
  MaxInt = 3
  MaxLost = 0
INVARIANT
  MissingSameSiteIsFound
CHECK_DEADLOCK FALSE
