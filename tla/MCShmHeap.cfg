CONSTANTS
  Proc = {1, 2}
  HeapWords = 9
  Sizes = {1, 3}
  SemValues = {0, 1, 2}
  NumObjects = 3
  MaxLine = 2
  MaxCommands = 4
SPECIFICATION FairRunnerSpec
INVARIANTS
  BlocksDisjoint
  ChainWhole
  HandlesNameBlocks
PROPERTIES
  UsesHeap
  RunEnds
CHECK_DEADLOCK FALSE
