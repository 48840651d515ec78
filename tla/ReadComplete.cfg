SPECIFICATION Spec
CONSTANTS
  Bios = {b1, b2, b3}
  MaxReader = 1
  MaxRange = 2
  MaxError = 0
INVARIANT ReadComplete
CHECK_DEADLOCK FALSE
