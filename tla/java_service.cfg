SPECIFICATION Spec
CONSTANTS
  Procs = {p1, p2}
  Size = 5
  DataLen = 2
  Missing = Missing
  Empty = Empty
  Faults = {"crash", "io"}
  MaxRuns = 4
SYMMETRY Symmetry
INVARIANTS
  CountsWholeEntries
  PointerInBounds
  NoTornEntry
PROPERTIES
  KeepsLog
CHECK_DEADLOCK FALSE
