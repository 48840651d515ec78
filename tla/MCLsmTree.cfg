SPECIFICATION Spec
CONSTANTS
  NrLba = 3
  Capacity = 2
  NrBlock = 3
  MaxPut = 4
  MaxNegative = 2
  MaxRestart = 1
  NrSearch = 0
INVARIANTS TypeOK LiveUnlessLost LeakOnlyNegatedOrLost LevelsOrdered VersionsOrdered SlotsSuffice
PROPERTIES IndexSpec
CHECK_DEADLOCK FALSE
