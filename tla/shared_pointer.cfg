SPECIFICATION Spec
CONSTANTS
  CppProcs = {p1}
  JavaProcs = {q1}
  Size = 5
  DataLen = 2
  Missing = Missing
  Empty = Empty
  CppFaults = {}
  JavaFaults = {"crash", "io"}
  MaxRuns = 4
INVARIANTS
  OwnPointerOnly
PROPERTIES
  CppEntriesStay
CHECK_DEADLOCK FALSE
