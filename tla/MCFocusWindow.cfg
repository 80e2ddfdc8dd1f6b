SPECIFICATION AnySpec
CONSTANTS
  Buffer = {1, 2}
  Raw = {1, 2}
  MaxStats = 1
  MaxPicture = 4
  CaptureKinds <- JustWindows
INVARIANTS
  WholeImageWhole
