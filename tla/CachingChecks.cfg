SPECIFICATION Spec
CONSTANTS
  Adapters <- MCAdapters
  Adapted <- MCAdapted
  Senders <- MCSenders
INVARIANTS
  OneClientForAll
  PlantedOnlyOnRequest
  VerdictStandsOnTheAnalysis
CHECK_DEADLOCK FALSE
