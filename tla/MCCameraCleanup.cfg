SPECIFICATION Spec
CONSTANTS
  Task <- CameraTask
  Order <- CameraOrder
  Kind <- CameraKind
  Pad <- CameraPad
  InQ <- CameraIn
  OutQ <- CameraOut
  MayFail <- NoTask
  MaxItems = 2
INVARIANTS
  CleanupAtEndOfRun
