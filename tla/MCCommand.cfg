SPECIFICATION FairSpec
CONSTANTS
  c1 = c1
  c2 = c2
  NoConn = NoConn
  Conn <- TwoConn
  HasHandler = TRUE
  Unsavable <- LastImage
  Sent <- PhotoAndAll
  MaxImage = 2
  MaxCrash = 1
PROPERTIES
  Served
  UpdateReturns
INVARIANTS
  PhotoIsCurrent
  ServesUntilStopped
