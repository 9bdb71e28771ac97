SPECIFICATION Spec
CONSTANTS
  Signatures <- signatures
  Words <- MCWords
  Genuine <- MCGenuine
  Fallbacks <- MCFallbacks
  Prefixes = 3
  MaxOpen = 1
  MaxFailures = 0
  MaxDrift = 0
INVARIANT
  ListedPathsAreProbed
CHECK_DEADLOCK FALSE
