SPECIFICATION SimpSpec
CONSTANTS
  NbVars = 5
  Problems <- SmallProblems
INVARIANTS SimpTypeOK ExtendedModelIsRight EliminationKeepsModels OccurrencesExact CheapestFirst
           NothingLeft WatchersMatch
PROPERTIES SimplificationEnds
CHECK_DEADLOCK FALSE
