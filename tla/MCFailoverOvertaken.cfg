SPECIFICATION FailoverSpec
CONSTANTS
  MTU = 2
  NumPath = 3
  TableLen = 2
  Sizes <- MCThree
  MaxMsgs = 1
  SendMax = 1
  RecvMax = 5
  TxDepth = 1
  RxDepth = 1
  SendRecMax = 1
  RecvRecMax = 2
  MayOverrun = FALSE
INVARIANT
  ResentInOrder
CHECK_DEADLOCK FALSE
