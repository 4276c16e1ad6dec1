CONSTANTS
  Starts <- MCStarts
  MaxServices = 2
  MaxLength = 3
  MaxFd = 9
  MaxCommands = 3
  MaxClients = 2
  MaxInterrupts = 1
SPECIFICATION FairSpec
INVARIANTS
  EndOfInputArrives
  OwnAnswer
PROPERTIES
  ShutdownEndsAll
  Answered
CHECK_DEADLOCK FALSE
