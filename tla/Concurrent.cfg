SPECIFICATION Spec
CONSTANTS
  l1 = l1
  l2 = l2
  Leaders = {l1, l2}
  NoOne = NoOne
  CmdSize = 2
  checksumsz = 3
  MaxWrites = 5
  MaxFollows = 2
  Worlds <- MCWorlds
  TtlKeys = {1}
  TtlIds = {1, 2}
  Ttls = {0, 1}
  SampleSize = 2
  BusyRound = 1
  MaxClock = 2
  MaxEntries = 3
  c1 = c1
  c2 = c2
  Callers = {c1, c2}
  NoCaller = NoCaller
  Orders = {"write", "read", "plain", "jdel", "eval", "evalro", "evalna", "readonly", "follow", "noone"}
  MaxOrders <- MCMaxOrders
  MaxFollowed = 2
  MaxCalls = 2
INVARIANTS
   
  TimeoutsTracked
  LoggedBeforeUnlock
PROPERTIES
  OnlyFromLeader 
  NeverEarly EventuallyPurged
  Isolated RoleRespected 
CHECK_DEADLOCK FALSE
