\* One call of retention after another, opens, writes, acks and resets between.
SPECIFICATION FairSpec
CONSTANTS
  MaxFiles = 3
  TierACap = 1
  UsedLimit = 2
  Budget = 2
  FileMax = 1
  MaxIndex = 5
  BootTables <- MCBootTables
PROPERTIES NoNeedlessDeletion LongRecordLast BacklogDrains
