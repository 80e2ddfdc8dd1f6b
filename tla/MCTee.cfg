SPECIFICATION Spec
CONSTANTS
  Task <- TeeTask
  Order <- TeeOrder
  Kind <- TeeKind
  Pad <- TeePad
  InQ <- TeeIn
  OutQ <- TeeOut
  MayFail <- TeeFail
  MaxItems = 2
INVARIANTS
  NeverOvertaken
  JoinPairs
  CaptureNeverBlocks
PROPERTIES
  StoppedWindsDown
