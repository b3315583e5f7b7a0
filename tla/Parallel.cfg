SPECIFICATION FairSpec
CONSTANTS
  NbVars = 2
  MaxThreads = 3
  Problems <- SmallProblems
INVARIANTS TypeOK AnswerIsWinners UnitsAgree KnowsWhatItRead
PROPERTIES FirstOneOnly JobEnds
CHECK_DEADLOCK FALSE
