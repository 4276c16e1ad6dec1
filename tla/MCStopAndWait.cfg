CONSTANTS
  a = a
  b = b
  c = c
  Bar = Bar
  Char <- MCChar
  Lines <- PlainLines
  SEGMENT_SIZE = 2
  HeaderSize = 3
  max_packet_size = 5
  MaxInFlight = 3
SPECIFICATION FairSpec
INVARIANTS DeliveredInOrder
PROPERTIES Termination ImplementsTransfer
CHECK_DEADLOCK FALSE
