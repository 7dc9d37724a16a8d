SPECIFICATION HandoffSpec
CONSTANTS
  NumWorkers = 1
  MaxUp = 1
  Proc <- Lifetimes
  MaxTroubles = 1
INVARIANTS HandoffTypeOK EpochsAreOwn ActivePassHolds OnePassAtATime
PROPERTIES ImplementsFence LoopKeepsRunning
CHECK_DEADLOCK FALSE
