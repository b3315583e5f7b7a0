SPECIFICATION Spec
CONSTANTS
  NbThreads = 2  Maxsize = 13  Sizes = {1}
  MaxPushes = 4
INVARIANT RoomLeavesAClause
CHECK_DEADLOCK FALSE
