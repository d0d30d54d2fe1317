SPECIFICATION FairSpec
CONSTANTS
  MTU = 2
  NumPath = 3
  TableLen = 2
  MaxOutstd = 4
  Depth = 2
  Sizes <- MCSizes
  MaxMsgs = 4
  PollIdle = FALSE
INVARIANTS
  TypeOK
  NoEarlyCompletion
  ReportsExactly
  LiveWqes
  CursorsAgree
  QueueBounded
  TurnInSync
PROPERTIES
  AllReported
  PostReturns
CHECK_DEADLOCK FALSE
