SPECIFICATION Spec
CONSTANTS
  MTU = 2
  NumPath = 2
  TableLen = 2
  Sizes <- MCSizes
  MaxMsgs = 2
  SendMax = 2
  RecvMax = 3
  TxDepth = 2
  RxDepth = 2
  MayOverrun = TRUE
INVARIANTS
  ReturnedMemoryIsQuiet
  NeverStale
PROPERTY
  IsStreamWhileItLasts
CHECK_DEADLOCK FALSE
