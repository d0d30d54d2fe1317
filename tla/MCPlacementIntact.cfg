SPECIFICATION Spec
CONSTANTS
  MTU = 3
  NumPath = 2
  GRH = 2
  Control = 1
  Sizes <- MCSizes
  MaxMsgs = 1
  Depth = 1
INVARIANTS
  MessageIntact
CHECK_DEADLOCK FALSE
