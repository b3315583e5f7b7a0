SPECIFICATION SimpSpec
CONSTANTS
  NbVars = 5
  Problems <- RcheckProblems
INVARIANT ImpliedAreNotMissed
CHECK_DEADLOCK FALSE
