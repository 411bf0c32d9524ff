CONSTANTS
  Callers = {a, b}
  small = small
  large = large
  Ops = {small}
  NoOp = NoOp
  Amount <- MCAmountOne
  PerCall = 2
  Limit = 3
  Budgets = {6}
  Charges = {4}
  MaxQueries = 1
  Bound <- MCBoundAll
SPECIFICATION ToggleSpec
PROPERTIES OnlyTheUserBlocks
CHECK_DEADLOCK FALSE
