SPECIFICATION FairSpec
CONSTANTS
  PoolSize = 2
  BlocksPerSegment = 1
  NrLba = 2
  MaxWrite = 2
PROPERTIES PushReturns RemovalEnds
CHECK_DEADLOCK FALSE
