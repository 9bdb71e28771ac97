SPECIFICATION Spec
CONSTANTS
  Signatures <- signatures
  Words <- MCWords
  Genuine <- MCGenuine
  Fallbacks <- MCFallbacks
  Prefixes = 3
  MaxOpen = 2
  MaxFailures = 1
  MaxDrift = 1
INVARIANTS
  FindingsHaveACause
  OpenOnesAreFound
PROPERTIES
  ReportIsHonest
  ProbesEnd
CHECK_DEADLOCK FALSE
