SPECIFICATION FairSpec
CONSTANTS
  a1 = a1  a2 = a2  a3 = a3
  Assignments = {a1, a2, a3}
  Unsat = Unsat  Empty = Empty  Absent = Absent  Null = Null
  Failures <- AllFailures
INVARIANTS AllSolutionsFound VerdictIsRight CutOffIsVisible NothingInvented
PROPERTIES NoModelTwice Termination
CHECK_DEADLOCK FALSE
