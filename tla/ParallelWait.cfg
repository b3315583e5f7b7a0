SPECIFICATION FairSpec
CONSTANTS
  NbVars = 2
  MaxThreads = 3
  Problems <- SmallProblems
PROPERTY WaitEnds
CHECK_DEADLOCK FALSE
