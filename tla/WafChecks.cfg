SPECIFICATION Spec
CONSTANTS
  NP = 2
  NB = 1
  NT = 2
  Answers = {"ok", "forbidden"}
  MaxFlips = 1
INVARIANTS
  PassedMeansNotRejected
  NothingFallsThrough
  NoContradiction
  NoFilterClaimIsTrue
CHECK_DEADLOCK FALSE
