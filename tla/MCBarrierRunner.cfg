CONSTANTS
  Threads = {t1, t2, t3, t4}
  Rounds = 1
SPECIFICATION RunnerFairSpec
INVARIANT NoErrorFound
PROPERTIES ImplementsRendezvous AllJoined
CHECK_DEADLOCK FALSE
