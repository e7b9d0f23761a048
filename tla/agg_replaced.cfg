SPECIFICATION FairSpec
CONSTANTS
  Keys = {k1}
  Calls = {c1, c2}
  None = None
  MayFail = FALSE
PROPERTIES
  EveryFutureAnswered
CHECK_DEADLOCK FALSE
