SPECIFICATION KdfSpec
CONSTANTS
  Uint32Size = 16
  SizeTSize = 16
  kMaxKdfLanes = 3
  kMaxKdfBlocks = 8
  BlocksPerLane = 2
  BlockBytes = 2
INVARIANT
  WorkAreaIsWhole
CHECK_DEADLOCK FALSE
