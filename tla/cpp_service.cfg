SPECIFICATION Spec
CONSTANTS
  Procs = {p1, p2}
  Size = 7
  DataLen = 2
  Missing = Missing
  Empty = Empty
  Faults = {"crash", "disk", "map", "reboot"}
  MaxRuns = 4
SYMMETRY Symmetry
INVARIANTS
  TypeOK
  NoHoles
  ReadsBack
  NoTornEntry
PROPERTIES
  KeepsLogOrLosesPointer
CHECK_DEADLOCK FALSE
