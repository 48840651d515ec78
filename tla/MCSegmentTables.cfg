SPECIFICATION Spec
CONSTANTS
  NrSegment = 2
  BlocksPerSegment = 2
  NrLba = 2
  Flushers = {f1, f2}
  GcThreshold = 1
  GcTarget = 2
  MaxFlush = 3
  MaxReopen = 1
SYMMETRY FlusherSymmetry
CONSTRAINT RacesBound
INVARIANTS TypeOK CountExact VictimExact NoSegmentLeak LiveUnlessRaced
CHECK_DEADLOCK FALSE
