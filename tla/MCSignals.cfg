CONSTANTS
  r1 = r1
  r2 = r2
  usr1 = usr1
  usr2 = usr2
  Reporter = reporter
  Generator = {g1, g2}
  Receiver <- MCReceiver
  Listens <- MCListens
  tids <- MCtids
  Every = 2
  NumberOfSignals = 1
  MaxSignals = 2
SPECIFICATION FairSpec
CHECK_DEADLOCK FALSE
INVARIANTS
  NoMoreReceivedThanSent
  ReportTellsTen
PROPERTIES
  GroupEnds
