SPECIFICATION Spec
CONSTANTS
  Procs = {p1}
  Size = 5
  DataLen = 2
  Missing = Missing
  Empty = Empty
  Faults = {"crash"}
  MaxRuns = 3
PROPERTIES
  KeepsLog
CHECK_DEADLOCK FALSE
