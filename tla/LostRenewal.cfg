SPECIFICATION SysSpec
CONSTANTS
  d1 = d1
  d2 = d2
  d3 = d3
  worker = worker
  console = console
  console2 = console2
  app = app
  app2 = app2
  self = self
  Deploys = {d1, d2}
  Scopes = {app, app2}
  SelfScope = self
  Executors = {worker}
  ClaimScope <- AllClaims
  SlotOf <- Slots
  Kinds = {"head"}
  HeldKinds = {}
  Capacity = 1
  TargetSlots = 1
  MaxPlaces = 1
  MaxClaims = 2
  InOrder = TRUE
  Started = {worker}
  Survivors = {worker}
  CancelReasons = {}
  MaxStalls = 0
  NoScope = NoScope
  NoExec = NoExec
  NoDeploy = NoDeploy
INVARIANTS ClaimsRenewed
CHECK_DEADLOCK FALSE
