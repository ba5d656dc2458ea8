SPECIFICATION FollowSpec
CONSTANTS
  l1 = l1
  l2 = l2
  Leaders = {l1, l2}
  NoOne = NoOne
  CmdSize = 2
  checksumsz = 3
  MaxWrites = 5
  MaxFollows = 2
  Worlds <- MCWorlds
INVARIANT StartsRight
CHECK_DEADLOCK FALSE
