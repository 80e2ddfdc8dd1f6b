SPECIFICATION Spec
CONSTANTS
  FocusMin = 0
  FocusMax = 6
  FocusDefault = 2
  StepCoarse = 3
  StepFine = 1
  MaxSlew = 2
  StepFrames = 2
  PdafSquelch = 1
  PdafFrames = {3}
  DropoutFrames = {2}
  SkipFrames = 1
  ConfEpsilon = 4
  Confidences <- MCConfidences
  Phases <- MCPhases
  Contrasts <- MCContrasts
  Modes = {"Auto"}
  MapY0 = 4
  MapSlope = 2
  Values <- MCValues
  MaxCalls = 2
PROPERTIES
  AutoScanEnds
