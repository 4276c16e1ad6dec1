SPECIFICATION FairSpec
CONSTANTS
  Thread = {t1, t2}
  NoThread = NoThread
  FileSizes = {0, 2}
  Sizes = {1, 2, 63}
  Seeks <- FarSeeks
  SizeT = 64
  MaxSize = 5
  MaxCalls = 3
  MayFail = TRUE
INVARIANTS
  OneWriter
  PartsInFile
  ReadsDisjoint
PROPERTIES
  CallsReturn
CHECK_DEADLOCK FALSE
