SPECIFICATION FairSpec
CONSTANTS
  Task <- FanTask
  Order <- FanOrder
  Kind <- FanKind
  Pad <- FanPad
  InQ <- FanIn
  OutQ <- FanOut
  MayFail <- FanFail
  MaxItems = 3
INVARIANTS
  DealsInTurn
  TakesInTurn
  SinkInOrder
  ReturnsCleanedUp
PROPERTIES
  StopReturns
  FramesArrive
