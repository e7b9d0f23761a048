SPECIFICATION BenchmarkSpec
CONSTANTS
  Strings <- Arguments
  Length = 4
  Draws <- EdgeDraws
  Lanes = 2
  BufSize = 6
INVARIANTS
  RoundTrip
  ThrowsIffIllFormed
  TextSurvives
  ConversionsAgree
CHECK_DEADLOCK FALSE
