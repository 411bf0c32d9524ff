CONSTANTS
  Jobs = {1, 2}
  Plans <- MCPlans
  MaxRetry = 1
  PostWait <- MCPostWait
  Follow = 3
  Deadline <- MCDeadline
  MaxLosses = 1
  MaxCrashes = 1
SPECIFICATION Spec
PROPERTIES PaysOnce JobsEnd
CHECK_DEADLOCK FALSE
