SPECIFICATION MethodSpec
CONSTANTS
  NP = 2
  NV = 2
  Answers = {"content", "denied", "login", "reset"}
  MaxDrift = 1
INVARIANTS
  ReportsExactlyTheBypasses
  OneFindingPerPath
  OnlyDeniedPathsAreWritten
PROPERTIES
  ReportIsHonest
  CheckEnds
CHECK_DEADLOCK FALSE
