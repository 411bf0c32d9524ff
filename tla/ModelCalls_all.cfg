CONSTANTS
  Callers = {c1, c2}
  c1 = c1
  c2 = c2
  Primaries = {"blockrun", "venice", "openrouter-x402-proxy", "venice-direct"}
  Modes = {"ask", "auto"}
  MaxSlots = 1
  Threshold = 1
  MaxCalls = 2
  MayAbort = TRUE
SPECIFICATION Spec
INVARIANTS PaidIsAccounted PaidOnceButForCuts
PROPERTY CallsEnd
CHECK_DEADLOCK FALSE
