SPECIFICATION Spec
CONSTANTS
  Objects = {1, 2}
  Cells = {0, 1, 2}
  Area = {1}
  Origin = 0
  Near = 1
  MaxCmds = 4
  NoObject = NoObject
  Text = Text
  Fences <- MCFences
  Conns = {c1, c2}
  Keys = {k1, k2}
  MaxWrites = 2
  Endpoints = {"a", "b"}
  Clients = {i1, i2, i3}
  Names = {1, 2}
  EndpointLists <- MCEndpointLists
  MaxMsgs = 2
  MaxHookCmds = 3
  MaxCrashes = 1
  InitialLogs <- MCInitialLogs
  FaultSets <- MCFaultSets
INVARIANTS
  Conserved
  Informed OneGroupPerVisit
  LivePipeline
PROPERTIES
  InOrder  LiveDelivers
CHECK_DEADLOCK FALSE
