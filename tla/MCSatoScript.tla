--------------------------- MODULE MCSatoScript ---------------------------
(***************************************************************************)
(* The usage examples of the script's help, and other command lines that   *)
(* each show one thing.                                                    *)
(***************************************************************************)
EXTENDS SatoScript

NoFailures == {}

x == <<"x">>
y == <<"y">>
Names == {x, y}
Var(v, l, u) == [v |-> v, l |-> l, u |-> u]
Lit(lhs, op, rhs) == [neg |-> FALSE, lhs |-> lhs, op |-> op, rhs |-> rhs]
T(a, v) == [v |-> v, a |-> a]
K(k) == <<Constant(k)>>
Line(declared, arguments) == [vars |-> declared, args |-> arguments]
Sum == <<T(1, x), T(1, y)>>
Difference == <<T(-1, x), T(1, y)>>

\* sato:82-84 and 89-90
Solvable ==
  { Line(<<Var(x, 0, 2), Var(y, 0, 2)>>,
         << <<Lit(<<T(1, x), T(-1, y)>>, "<=", K(-1)), Lit(Difference, "<=", K(-1))>> >>),
    Line(<<Var(x, 1, 3), Var(y, -1, 0)>>,
         << <<Lit(Sum, "<", K(1))>>, <<Lit(Difference, ">=", K(-3))>> >>),
    Line(<<Var(x, 1, 3), Var(y, 0, 1)>>,
         << <<Lit(Sum, "<", K(1))>>, <<Lit(Difference, ">=", K(-3))>> >>),
    Line(<<Var(x, 0, 2), Var(y, 0, 2)>>,
         << <<Lit(<<T(1, x)>>, "!=", <<T(1, y)>>)>>, <<Lit(<<T(1, x)>>, "=", <<T(1, y)>>)>> >>) }

LargerExample ==
  { Line(<<Var(x, 2, 6), Var(y, 2, 6)>>, << <<Lit(Sum, "<=", K(7))>> >>) }

HelpExamples == Solvable \cup LargerExample

\* What an earlier run may have left: nothing, no answer, or a model, be it one
\* of these lines or of another.
Leftovers == {Absent, Unsat, Empty, {}, {1, 2}, {2, 4}, 1 .. MaxVars}

LeftoverInit == output \in Leftovers /\ ScriptInit
LeftoverSpec == LeftoverInit /\ [][ScriptNext]_<<vars, solveVars>>

\* x <= 5 of a variable that is never more than 2.
LooseBound == { Line(<<Var(x, 0, 2)>>, << <<Lit(<<T(1, x)>>, "<=", K(5))>> >>) }
===========================================================================
