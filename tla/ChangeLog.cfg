\* Rows, rotation, compaction, clears, mode changes, refused files and short writes, and a fair loop.
SPECIFICATION FairSpec
CONSTANTS
  Mode = {sniff, listen}
  Feeding = {sniff}
  Cap = 3
  ChunkRows = 2
  CompactAt = 1
  FileMax = 3
  MaxRows = 3
  MaxDropped = 1
  MaxFlash = 3
  ModeChanges = TRUE
  OpenMayFail = TRUE
  ShortWrites = TRUE
INVARIANTS NothingLost NothingTwice
PROPERTIES RowsReachFlash
CHECK_DEADLOCK FALSE
