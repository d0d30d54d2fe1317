SPECIFICATION FailoverSpec
CONSTANTS
  MTU = 2
  NumPath = 2
  TableLen = 4
  Sizes <- MCLong
  MaxMsgs = 2
  SendMax = 1
  RecvMax = 5
  TxDepth = 1
  RxDepth = 2
  SendRecMax = 1
  RecvRecMax = 2
  MayOverrun = FALSE
INVARIANT
  SameSplit
CHECK_DEADLOCK FALSE
