SPECIFICATION Spec
CONSTANTS
  Devices <- AllDevices
  SectorsPerBlock = 8
  BlocksPerSegment = 1024
  NrGcPreserved = 320
  NrJournalSegment = 16
  SuperBlocks = 1
  BlockSize = 4096
  BitBlocks = 1419
  BitBytes = 3289
  FileCapacity = 131072
  Level0Files = 1
  BitsPerLong = 64
  LongsPerBlock = 512
  DstPerBlock = 30
  RitPerBlock = 512
  StatPerBlock = 46
  MaxReloads = 1
INVARIANTS TypeOK AvailIsMaximum DataInDevice OwnFormatUnlessHazard
CHECK_DEADLOCK FALSE
