CONSTANTS
  N = 6
  F = 2
  B = 3
  MaxPrinted = 8
SPECIFICATION Spec
INVARIANT NumbersInOrder
PROPERTY OutputInOrder
CHECK_DEADLOCK FALSE
