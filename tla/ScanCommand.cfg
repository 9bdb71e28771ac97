SPECIFICATION Spec
CONSTANTS
  Registered <- MCRegistered
  MaxFlaps = 1
INVARIANTS
  TelemetryShutOnce
  SinksClosedBeforeExit
  CleanExitMeansReached
PROPERTIES
  VerdictSpec
  CommandEnds
CHECK_DEADLOCK FALSE
