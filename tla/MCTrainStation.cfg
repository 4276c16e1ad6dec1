CONSTANTS
  Train = {t1, t2, t3}
  Priority <- MCPriority
  LoadingBays = {1, 2}
  InitialCounts <- MCInitialCounts
  MaxCount = 3
SPECIFICATION FairSpec
INVARIANT NoComplaint
PROPERTIES
  EnterInOrder
  AllLeave
