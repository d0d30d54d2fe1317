SPECIFICATION FairSpec
CONSTANTS
  MTU = 2
  NumPath = 2
  TableLen = 2
  Sizes <- MCSizes
  MaxMsgs = 3
  SendMax = 2
  RecvMax = 3
  TxDepth = 2
  RxDepth = 2
  MayOverrun = FALSE
INVARIANTS
  TypeOK
  SamePacket
  DeliveredWhole
PROPERTY
  IsStream
CHECK_DEADLOCK FALSE
