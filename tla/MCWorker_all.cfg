CONSTANTS
  r1 = r1
  r2 = r2
  Runs = {r1}
  NoRun = NoRun
  Commands <- MCCommands
  ToolNames = {"run_shell", "call_paid_service"}
  Pauses = {"waiting_for_approval", "payment_unknown"}
  MaxTurns = 2
  MaxLines = 4
  Mishaps = {"crash", "disk"}
  MaxMishaps = 1
SPECIFICATION Spec
INVARIANTS ShownIsDurable ToolsRunOnce PauseLeadsBack
CHECK_DEADLOCK FALSE
