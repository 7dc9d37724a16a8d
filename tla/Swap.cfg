SPECIFICATION Spec
CONSTANTS
  NumRuns = 3
  MaxTroubles = 1
  Prompt = TRUE
CHECK_DEADLOCK FALSE
INVARIANT SlotTypeOK
INVARIANT AlwaysServing
INVARIANT RecordServes
INVARIANT OnlyHealthyStays
PROPERTY TrafficConverges
PROPERTY Rescued
