SPECIFICATION LossyFailoverSpec
CONSTANTS
  MTU = 2
  NumPath = 2
  TableLen = 2
  Sizes <- MCShort
  MaxMsgs = 1
  SendMax = 1
  RecvMax = 5
  TxDepth = 1
  RxDepth = 1
  SendRecMax = 1
  RecvRecMax = 2
  MayOverrun = FALSE
PROPERTY
  ClientGoesOn
CHECK_DEADLOCK FALSE
