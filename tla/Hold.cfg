SPECIFICATION Spec
CONSTANTS
  NumRuns = 3
  MaxTroubles = 1
  Prompt = TRUE
CHECK_DEADLOCK FALSE
INVARIANT NoHoldOnStopped
