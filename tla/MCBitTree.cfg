SPECIFICATION Spec
CONSTANTS
  LeafLen = 2
  Degree = 2
  Capacity = 8
  LeafSize = 4
  InnerSize = 3
  BufferSize = 16
  NrKey = 6
INVARIANTS FileReadsBack NodesPlaced
CHECK_DEADLOCK FALSE
