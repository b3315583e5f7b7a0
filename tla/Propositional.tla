----------------------------- MODULE Propositional -----------------------------
(***************************************************************************)
(* Literals and models.  A literal is a number, negative for a negated     *)
(* variable (core/SolverTypes.h); a clause, here, is a set of literals; a  *)
(* model is the set of the variables it makes true.                        *)
(***************************************************************************)
EXTENDS Integers

CONSTANT NbVars

ASSUME NbVarsAssumption == NbVars \in Nat \ {0}

Vars == 1 .. NbVars
Lits == Vars \cup {-v : v \in Vars}
Var(l) == IF l < 0 THEN -l ELSE l

Satisfies(m, c) == \E l \in c : (l > 0) = (Var(l) \in m)
ModelsOf(clauses) == {m \in SUBSET Vars : \A c \in clauses : Satisfies(m, c)}
=============================================================================
