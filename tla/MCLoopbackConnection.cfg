SPECIFICATION FairSpec
CONSTANTS
  MaxRequests = 3
  RequestLength = 2
  ResponseLength = 3
  StreamSpace = 2
CHECK_DEADLOCK FALSE
INVARIANTS
  TypeOK
  ResponsesWhole
PROPERTIES
  ExchangeKept
  AnswersArrive
  ReleasedCloses
