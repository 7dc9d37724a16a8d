SPECIFICATION Spec
CONSTANTS
  Builds = {b1, b2}
  Peers = {p1}
  Limits = {1, 2}
  TargetLimit = 1
  MaxTroubles = 1
  None = None
  b1 = b1
  b2 = b2
  p1 = p1
CHECK_DEADLOCK FALSE
INVARIANT GateTypeOK
INVARIANT SweepsAlone
INVARIANT WithinLimits
INVARIANT PeaksAreOwn
PROPERTY StartsClean
PROPERTY EveryBuildEnds
