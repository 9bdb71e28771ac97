SPECIFICATION Spec
CONSTANTS
  HeaderChecks = {"x_real_ip"}
  NP = 2
  NH = 2
INVARIANTS
  FindingsHaveACause
  BothIsTrue
  UncachedFindingsAreExact
  NoBackendIsMissed
CHECK_DEADLOCK FALSE
