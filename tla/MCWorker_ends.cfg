CONSTANTS
  r1 = r1
  r2 = r2
  Runs = {r1, r2}
  NoRun = NoRun
  Commands <- MCTwoRuns
  ToolNames = {"run_shell", "read_file"}
  Pauses = {"payment_unknown"}
  MaxTurns = 1
  MaxLines = 3
  Mishaps = {"crash", "disk"}
  MaxMishaps = 1
SPECIFICATION FairSpec
INVARIANTS OneUnfinishedRun
PROPERTIES EndedStaysEnded RunnerEnds
CHECK_DEADLOCK FALSE
