SPECIFICATION Spec
CONSTANTS
  PoolSize = 2
  BlocksPerSegment = 2
  NrLba = 3
  MaxWrite = 4
CONSTRAINT HazardsBound
INVARIANTS TypeOK YoungerIsNewer KeptUnlessHazard FreshUnlessHazard
PROPERTIES NoRollback
CHECK_DEADLOCK FALSE
