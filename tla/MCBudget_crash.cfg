CONSTANTS
  Callers = {a, b}
  small = small
  large = large
  Ops = {small, large}
  NoOp = NoOp
  Amount <- MCAmount
  PerCall = 2
  Limit = 3
  Budgets = {6}
  Charges = {0, 4}
  MaxQueries = 2
  Bound <- MCBoundCrash
SPECIFICATION Spec
SYMMETRY CallerSymmetry
INVARIANTS SpendingCeiling OneShotApproval ReservedCoversHeld FinalizedIsDurable
CHECK_DEADLOCK FALSE
