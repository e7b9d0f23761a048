SPECIFICATION Spec
CONSTANTS
  Strings <- OddStrings
  Lanes = 16
  BufSize = 48
INVARIANTS
  SameBytes
CHECK_DEADLOCK FALSE
