SPECIFICATION FairSpec
CONSTANTS
  d1 = d1
  d2 = d2
  d3 = d3
  worker = worker
  console = console
  console2 = console2
  app = app
  app2 = app2
  self = self
  Deploys = {d1, d2}
  Scopes = {app, self}
  SelfScope = self
  Executors = {worker, console, console2}
  ClaimScope <- SplitClaims
  SlotOf <- Slots
  Kinds = {"head"}
  HeldKinds = {}
  Capacity = 1
  TargetSlots = 1
  MaxPlaces = 1
  MaxClaims = 2
  InOrder = TRUE
  Started = {worker, console}
  Survivors = {worker, console2}
  CancelReasons = {}
  MaxStalls = 0
  NoScope = NoScope
  NoExec = NoExec
  NoDeploy = NoDeploy
INVARIANTS SelfSwapsAlone NewSlotResumes WithinCapacity
PROPERTIES SelfKeepsItsSlot HoldEnds WaiterKeepsItsSlot
CHECK_DEADLOCK FALSE
