SPECIFICATION Spec
CONSTANTS
  NbVars = 5
  Problems <- SmallProblems
INVARIANTS TypeOK AnswerIsRight OnlyConsequences PropagationComplete WatchersMatch
           ReasonsSupport HeapHoldsTheFree
PROPERTIES LearntIsNew LearntAsserts
CHECK_DEADLOCK FALSE
