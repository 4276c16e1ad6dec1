SPECIFICATION DecentralSpec
CONSTANTS
  Member = {1, 2}
  Founder = 1
  Budgets <- MCBudgets
INVARIANTS SenderOrderKept NumberAgreed DeliveredWhenQuiet
CHECK_DEADLOCK FALSE
