CONSTANTS
  MaxReviewAttempts = 2
  MaxServiceFailures = 3
  MaxTurns = 3
  MaxQueries = 2
  MaxRequests = 4
  Mishaps = {"crash", "disk", "outage", "switch", "network"}
  MaxMishaps = 1
SPECIFICATION Spec
INVARIANTS OneReviewDue OneReceiptPerCall RepeatedOnlyAfterLoss ChargedIsRecorded
PROPERTY ImplementsReviewGate
CHECK_DEADLOCK FALSE
