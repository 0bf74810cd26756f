SPECIFICATION FairSpec
CONSTANTS
  MaxCalls = 2
  OutboxSize = 1
  PipeSize = 1
  StdoutSize = 1
  MaxRequests = 1
INVARIANTS
  TypeOK
  ReaderNeverBlocks
  RequestsAnswered
PROPERTIES
  ReasonWins
  WriterGoneReleasesCall
  CloseReturns
CHECK_DEADLOCK FALSE
