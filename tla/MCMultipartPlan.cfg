SPECIFICATION Spec
CONSTANTS
  MinPartSize = 3
  MaxPartSize = 12
  MaxParts = 5
  Unit = 2
  FileSizes <- MCFileSizes
  DesiredSizes <- MCDesiredSizes
  PartLimits <- MCPartLimits
INVARIANTS
  WithinLimits
  PartsTileFile
  UniformParts
  ProgressIsOffset
CHECK_DEADLOCK FALSE
