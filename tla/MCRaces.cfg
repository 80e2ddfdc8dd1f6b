SPECIFICATION AnySpec
CONSTANTS
  p1 = p1
  p2 = p2
  p3 = p3
  Putter <- ThreePutters
  MaxPut = 6
  Window = {left, right}
  MaxWindows = 2
  MaxCalls = 2
  MaxSet = 2
  DoAgc = {TRUE}
  Shutters <- ThreeShutters
  Gains <- ThreeGains
  Wanted <- WantedExposures
  Times <- ManualTimes
  Factors <- ManualGains
INVARIANTS
  FullOnlyByRace
  KeepsOne
  ExposureOnTarget
  WindowsSettle
PROPERTIES
  SettingsReachSensor
