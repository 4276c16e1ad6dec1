SPECIFICATION ElectionSpec
CONSTANTS
  Members = {1, 2, 3}
  MissLimit = 2
  Second = 3
  MaxCrashes = 1
  MaxLost = 1
INVARIANTS NobodySuspected OneLeader
PROPERTIES Settled CrashNoticed
CHECK_DEADLOCK FALSE
