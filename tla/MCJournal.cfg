SPECIFICATION Spec
CONSTANTS
  RecordsPerBlock = 2
  BlocksPerSegment = 2
  NrJournalSegment = 2
  MaxIds = 14
  MaxFails = 1
  MaxOpens = 3
INVARIANTS WindowWrittenUnlessAstray UnsyncedBufferedUnlessAstray StuckOnlyAstray CommitKeptUnlessAstray
CHECK_DEADLOCK FALSE
