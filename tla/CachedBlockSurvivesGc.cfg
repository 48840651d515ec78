SPECIFICATION Spec
CONSTANTS
  PoolSize = 2
  BlocksPerSegment = 2
  NrLba = 3
  MaxWrite = 5
INVARIANT CachedBlockSurvivesGc
CHECK_DEADLOCK FALSE
