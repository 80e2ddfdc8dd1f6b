SPECIFICATION FairSpec
CONSTANTS
  c1 = c1
  c2 = c2
  NoCall = NoCall
  Call <- TwoCalls
  Sent <- Everything
  Patient = FALSE
  MaxCrash = 1
CHECK_DEADLOCK FALSE
INVARIANTS
  FailsOnlyByCaller
  NobodyLeftBehind
PROPERTIES
  CallsEnd
  JoinReturns
