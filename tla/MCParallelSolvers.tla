-------------------------- MODULE MCParallelSolvers --------------------------
(* Two or three threads, with formulas of two variables. *)
EXTENDS ParallelSolvers

Problem(formula, nthreads, maxnbthreads, maxmemory, mem) ==
  [formula |-> formula, nthreads |-> nthreads, maxnbthreads |-> maxnbthreads,
   maxmemory |-> maxmemory, mem |-> mem]

Contradiction == << {1, 2}, {-1, 2}, {1, -2}, {-1, -2} >>
OneModel      == << {1, 2}, {-1, 2}, {1, -2} >>
TwoModels     == << {1, 2}, {-1, -2} >>
ByPropagation == << {1}, {-1, 2}, {-2, -1} >>
UnitsRead     == << {-1}, {1, 2} >>

SmallProblems ==
  { Problem(f, 2, 4, 3000, 100) : f \in {Contradiction, OneModel, TwoModels, ByPropagation} }
  \cup { Problem(UnitsRead, 3, 4, 3000, 100), Problem(UnitsRead, 0, 4, 3000, 500),
         Problem(TwoModels, 0, 4, 0, 100),
         Problem(OneModel, 0, 1, 3000, 100) }
=============================================================================
