CONSTANTS
  Callers = {a, b}
  small = small
  large = large
  Ops = {small, large}
  NoOp = NoOp
  Amount <- MCAmount
  PerCall = 3
  Limit = 4
  Budgets = {6}
  Charges = {0, 2, 4}
  MaxQueries = 2
  Bound <- MCBoundFault
SPECIFICATION Spec
INVARIANTS LimitBindsHeld
CHECK_DEADLOCK FALSE
