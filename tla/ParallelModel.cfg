SPECIFICATION FairSpec
CONSTANTS
  NbVars = 2
  MaxThreads = 3
  Problems <- SmallProblems
INVARIANT ModelIsTheFormulas
CHECK_DEADLOCK FALSE
