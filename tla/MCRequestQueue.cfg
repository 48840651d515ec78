SPECIFICATION FairSpec
CONSTANTS
  Bios = {b1, b2}
  MaxReader = 1
  MaxRange = 3
  MaxError = 1
INVARIANTS TypeOK WritesFirst CompleteUnlessEarly ReadersCounted
PROPERTIES EveryBioEnds
CHECK_DEADLOCK FALSE
