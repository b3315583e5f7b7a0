SPECIFICATION Spec
CONSTANTS
  VarNames <- Names
  Inputs <- Lines
INVARIANTS ModelsAreSolutions SolutionsKept EveryLiteralIsNumbered PredicatesAreOrdered
CHECK_DEADLOCK FALSE
