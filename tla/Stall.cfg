SPECIFICATION SysSpec
CONSTANTS
  d1 = d1
  d2 = d2
  d3 = d3
  worker = worker
  console = console
  console2 = console2
  app = app
  app2 = app2
  self = self
  Deploys = {d1, d2}
  Scopes = {app}
  SelfScope = self
  Executors = {worker}
  ClaimScope <- AllClaims
  SlotOf <- Slots
  Kinds = {"push"}
  HeldKinds = {}
  Capacity = 2
  TargetSlots = 0
  MaxPlaces = 0
  MaxClaims = 2
  InOrder = TRUE
  Started = {worker}
  Survivors = {worker}
  CancelReasons = {}
  MaxStalls = 1
  NoScope = NoScope
  NoExec = NoExec
  NoDeploy = NoDeploy
SYMMETRY Symmetry
PROPERTIES ImplementsLifecycle SwapNeverRequeued
CHECK_DEADLOCK FALSE
