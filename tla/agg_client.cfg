SPECIFICATION ClientSpec
CONSTANTS
  Keys = {k1, k2}
  Calls = {c1, c2, c3}
  None = None
  MayFail = TRUE
  Call1 = c1
  Call2 = c2
  Request1 = k1
  Request2 = k2
INVARIANTS
  TypeOK
  HitsArePending
  RightAnswer
  OnePlace
  NoStranding
  RemovalFindsFuture
  PrintsRightly
PROPERTIES
  ReturnsAnswered
  BrokersFutures
  CallsFinish
  AnsweredUnlessDropped
  PrintsUnlessDropped
CHECK_DEADLOCK FALSE
