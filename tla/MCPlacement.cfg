SPECIFICATION Spec
CONSTANTS
  MTU = 3
  NumPath = 2
  GRH = 2
  Control = 1
  Sizes <- MCSizes
  MaxMsgs = 2
  Depth = 2
INVARIANTS
  TypeOK
  DirectBytesStay
  NothingStrays
CHECK_DEADLOCK FALSE
