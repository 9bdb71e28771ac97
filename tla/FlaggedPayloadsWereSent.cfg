SPECIFICATION Spec
CONSTANTS
  NP = 1
  NB = 1
  NT = 1
  Answers = {"ok", "forbidden"}
  MaxFlips = 0
INVARIANT
  FlaggedPayloadsWereSent
CHECK_DEADLOCK FALSE
