SPECIFICATION FairSpec
CONSTANTS
  c1 = c1
  c2 = c2
  NoCall = NoCall
  Call <- OneCall
  Sent <- Client
  Patient = TRUE
  MaxCrash = 1
CHECK_DEADLOCK FALSE
PROPERTIES
  EndOfStreamRaises
