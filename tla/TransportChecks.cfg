SPECIFICATION Spec
CONSTANTS
  Servers <- ServersDef
  MinSaneMaxAge = 2
  MaxLost = 1
INVARIANTS
  OldVersionsAreFound
  WeakFindingsAreTrue
  ExpiryIsNamed
  VisitorsAreProtected
CHECK_DEADLOCK FALSE
