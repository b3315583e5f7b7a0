------------------------------- MODULE MCCdcl -------------------------------
(* Small instances of the search.  Variable 5 is fixed where four will do. *)
EXTENDS Cdcl

Problem(formula, offers, maxConflicts) ==
  [formula |-> formula, offers |-> offers, maxConflicts |-> maxConflicts]

\* Unsatisfiable: x1, x2 and x3 sum to an even and to an odd number.
Parity == << {5}, {4}, {1, 2, 3}, {1, -2, -3}, {-1, 2, -3}, {-1, -2, 3},
             {-1, -2, -3}, {-1, 2, 3}, {1, -2, 3}, {1, 2, -3} >>

\* Learns ternary clauses.
Ternary == << {5}, {1, 2, 3, 4}, {1, 2, 3, -4}, {2, -3, 4}, {-3, -4}, {1, 3} >>

\* Learns clauses whose literals are of several levels.
Levels == << {5}, {-2, 1, 4}, {-4, 1}, {-1, 2, 3}, {1, 2, 4} >>

\* Finds some of the literals it learns redundant, and others not.
Redundant == << {5}, {-1, 2, 3, 4}, {1, 2, 4}, {1, 3, 4}, {-2, -1, 3}, {-3, -1, 2, 4}, {-3, -1} >>

\* Unit, tautological, true and false parts.
Units == << {5}, {4}, {1, -1, 2}, {-4, 1, 2}, {4, 3}, {-4, 1, -2}, {-4, -1, 2, 3}, {-3, -4, -1} >>

\* The purgatory may get a clause whose first literal is false already.
Guarded == << {5}, {4}, {-1, -2, 3}, {1, 2, 3}, {1, -2, 3} >>

\* Promotes a clause with two literals of the level of the conflict.
Promoting == << {2, -3}, {2, -4}, {1, 3, 4, 5}, {1, 3, 4, -5}, {-1, -2}, {-1, 3}, {-1, 5} >>

\* Other threads may send what follows from the formula, for Parity even two
\* contradictory units.
SmallProblems ==
  { Problem(Parity, {<<1>>, <<-1>>}, 4),
    Problem(Ternary, {<<1, -4>>, <<2, 1, -3>>}, 3),
    Problem(Levels, {<<-2, 3, 1>>}, 3),
    Problem(Redundant, {}, 3),
    Problem(Units, {<<1>>, <<2, -3>>}, 3),
    Problem(Guarded, {<<-4, 1, 3>>, <<-2, 3, -1>>}, 3),
    Problem(Promoting, {<<3, 1, 4>>}, 1) }
=============================================================================
