---------------------------- MODULE MCSimpSolver ----------------------------
(* Small formulas for the simplifier, some of them interrupted. *)
EXTENDS SimpSolver

Problem(formula, options, interruptible) ==
  [formula |-> formula, offers |-> {}, maxConflicts |-> 2,
   options |-> options, interruptible |-> interruptible]

\* Unsatisfiable: x1, x2 and x3 sum to an even and to an odd number.
Parity == << {5}, {4}, {1, 2, 3}, {1, -2, -3}, {-1, 2, -3}, {-1, -2, 3},
             {-1, -2, -3}, {-1, 2, 3}, {1, -2, 3}, {1, 2, -3} >>

\* Three values, each of them taken by one of two.
Chain == << {1, 2}, {-1, -2}, {2, 3}, {-2, -3}, {3, 4, 5}, {-4, -5}, {-3, -4} >>

\* Clauses that subsume others or strengthen them.
Subsuming == << {1, 2, 3, 4}, {1, 2}, {-1, 2, 5}, {1, -3, 4, 5}, {-4, 5, 1}, {-5, 3, 2}, {-2, 4, 3} >>

\* Too costly to eliminate: every variable with every sign, four times.
Dense == << {1, 2, 3}, {-1, 2, 4}, {1, -2, 5}, {-1, -2, 3}, {-3, 4, 5}, {3, -4, 5}, {-3, -4, -5},
            {1, 4, -5}, {-1, -4, 5}, {2, -3, -5} >>

\* Units found while variables are eliminated.
Units == << {1, 2}, {1, -2, 3}, {-1, 3, 4}, {-3, 4, 5}, {-4, 5, 3}, {-5, 4, -1}, {-3, -4, 2} >>

Formulas == {Parity, Chain, Subsuming, Dense, Units}

SmallProblems ==
  { Problem(f, {"elim"}, TRUE) : f \in Formulas }
  \cup { Problem(f, o, FALSE) : f \in Formulas, o \in {{"elim", "asymm"}, {"asymm"}, {"rcheck"}} }

RcheckProblems == { Problem(f, {"elim", "rcheck"}, FALSE) : f \in Formulas }
=============================================================================
