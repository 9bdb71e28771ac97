SPECIFICATION Spec
CONSTANTS
  Names <- NamesDef
  Pages <- PagesDef
  Policies <- PoliciesDef
  NP = 2
  maxReasonablePreflightCacheSeconds = 2
  MaxInt = 3
  MaxLost = 1
INVARIANTS
  ReadsAreFound
  FindingsAreReadable
  CleanMeansRemediated
PROPERTY
  ChecksEnd
CHECK_DEADLOCK FALSE
