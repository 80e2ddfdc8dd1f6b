SPECIFICATION FairSpec
CONSTANTS
  v1 = v1
  v2 = v2
  app = app
  other = other
  Viewer <- TwoViewers
  Stopper <- TwoStoppers
  MaxImage = 3
  Unsavable <- SecondImage
INVARIANTS
  OnlyNewer
  ClosedAfterEnd
PROPERTIES
  Delivered
  StopReturns
