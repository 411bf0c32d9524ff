CONSTANTS
  Limit = 40
  Costs = {30, 40}
  Tools = 1
  Small = 2
  Paste = 4
  MaxLines = 6
  Sizes = {2, 6}
  Refusals = 1
  MaxSaid = 9
  MaxText = 1
  MaxEntries = 2
  MaxTimeout = 2
  Timeouts = {0, 1, 3}
  Chunks = 1
  Generations = 2
  PerGeneration = 1
  EvalTasks = {1}
  Rows <- MCRows
  MaxRestarts = 1
  MaxQueries = 2
  MaxReplies = 2
  MaxBatch = 2
  MaxRemarks = 1
  MaxStops = 2
  k1 = k1
  k2 = k2
  Kids = {k1, k2}
  MaxTurns = 1
  Replies <- MCReplies
  MaxParallel = 1
  ChildTurns = 2
  MaxRuns = 2
  MaxCrashes = 1
SPECIFICATION Spec
INVARIANTS NothingIsForgotten RunIsWhole ReadableUnlessEndLost ReceiptsAreListed TakenIsWhole NeverHangs ScoreIsOfItsTree OneInstance LimiterBound
CHECK_DEADLOCK FALSE
