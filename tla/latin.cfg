SPECIFICATION BenchmarkSpec
CONSTANTS
  Strings <- LatinStrings
  AVX512Lanes = 64
  AVX2Lanes = 32
  SSE2Lanes = 16
  NEONLanes = 16
  VLMAX = 16
  Charset <- Letters
  Length = 33
INVARIANTS
  TypeOK
  SameAnswer
PROPERTIES
  Returns
  MeasuresText
CHECK_DEADLOCK FALSE
