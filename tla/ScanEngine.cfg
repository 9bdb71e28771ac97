SPECIFICATION EngineSpec
CONSTANTS
  Registered <- MCRegistered
  MaxFlaps = 1
INVARIANTS
  InputsAvailable
  NoSpuriousSkip
  BadChainIsReported
PROPERTIES
  TLSChecksReturn
  EngineFinishes
CHECK_DEADLOCK FALSE
