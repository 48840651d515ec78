SPECIFICATION Spec
CONSTANTS
  NrLba = 2
  Capacity = 2
  NrBlock = 2
  MaxPut = 4
  MaxNegative = 1
  MaxRestart = 3
  NrSearch = 1
INVARIANTS FreshUnlessHazard RangeFreshUnlessHazard UndefinedOnlyIf
CHECK_DEADLOCK FALSE
