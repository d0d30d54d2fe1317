SPECIFICATION FairSpec
CONSTANTS
  Qps = {q1}
  SqBlocks = 4
  SqMaxPost = 2
  WqeBlocks = {1, 2}
  RqCnt = 1
  ListMax = 2
  CtrMod = 8
  NumMod = 3
INVARIANTS
  TypeOK
  RightCompletion
  NoOverwrite
  SlotsExact
PROPERTY
  RoomReturns
