SPECIFICATION Spec
CONSTANTS
  Strings <- AllStrings
  Lanes = 16
  BufSize = 48
INVARIANTS
  TypeOK
  BufferFits
  UnitsSurvive
PROPERTIES
  RefinesScalar
CHECK_DEADLOCK FALSE
