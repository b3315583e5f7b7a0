SPECIFICATION LeftoverSpec
CONSTANTS
  MaxVars = 13
  Unsat = Unsat  Empty = Empty  Absent = Absent  Null = Null
  Failures <- NoFailures
  VarNames <- Names
  Inputs <- LooseBound
INVARIANT SolutionsAreModels
CHECK_DEADLOCK FALSE
