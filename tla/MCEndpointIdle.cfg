SPECIFICATION Spec
CONSTANTS
  MTU = 2
  NumPath = 3
  TableLen = 2
  MaxOutstd = 4
  Depth = 2
  Sizes <- MCSizes
  MaxMsgs = 4
  PollIdle = TRUE
INVARIANT
  NoSpuriousCompletion
CHECK_DEADLOCK FALSE
