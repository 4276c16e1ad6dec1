SPECIFICATION Spec
CONSTANTS
  Member = {1, 2, 3}
  Initial = {1, 2}
  Founder = 1
  Budgets <- MCBudgets
INVARIANT
  SameOrder
CHECK_DEADLOCK FALSE
