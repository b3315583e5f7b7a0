SPECIFICATION FairSpec
CONSTANTS
  NbThreads = 3  Maxsize = 9  Sizes = {1, 2}
  MaxPushes = 3
INVARIANTS CursorsOnBoundaries UnreadIsExact HandedOverWhole
PROPERTIES IsClauseFifo AllDelivered Drained
CHECK_DEADLOCK FALSE
