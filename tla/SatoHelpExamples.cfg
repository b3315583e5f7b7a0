SPECIFICATION LeftoverSpec
CONSTANTS
  MaxVars = 13
  Unsat = Unsat  Empty = Empty  Absent = Absent  Null = Null
  Failures <- NoFailures
  VarNames <- Names
  Inputs <- HelpExamples
INVARIANT DisplaysTheSolutions
CHECK_DEADLOCK FALSE
