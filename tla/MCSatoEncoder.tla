--------------------------- MODULE MCSatoEncoder ---------------------------
(***************************************************************************)
(* Small command lines for the encoder.                                    *)
(***************************************************************************)
EXTENDS SatoEncoder

x == <<"x">>
y == <<"y">>
Names == {x, y}
Var(v, l, u) == [v |-> v, l |-> l, u |-> u]
Lit(lhs, op, rhs) == [neg |-> FALSE, lhs |-> lhs, op |-> op, rhs |-> rhs]
T(a, v) == [v |-> v, a |-> a]
K(k) == <<Constant(k)>>
Ops == {"<=", ">=", "<", ">", "=", "!="}

\* One comparison a.x + b.y op k: every operator, coefficients of both signs
\* that do and do not divide the constant, constants beyond the bounds.
Comparisons ==
  {[vars |-> <<Var(x, lx, 2), Var(y, 0, 1)>>,
    args |-> << <<Lit(<<T(a, x)>> \o (IF b = 0 THEN << >> ELSE <<T(b, y)>>), op, K(k))>> >>] :
     lx \in {-1, 1}, a \in {-2, -1, 1, 3}, b \in {-1, 0, 2}, op \in Ops, k \in -4 .. 4}

\* The literals of the clause run: variables on both sides, a repeated
\* variable, a vanishing one, a comparison of constants, a negation.
Menu ==
  { Lit(<<T(1, x)>>, "!=", <<T(1, y)>>), Lit(<<T(1, x)>>, "=", K(1)),
    Lit(<<T(1, x), T(1, x)>>, ">", <<T(1, y)>>), Lit(<<T(1, x)>>, "<", <<T(1, x)>>),
    Lit(K(3), "<=", K(2)), Lit(<<T(2, y), Constant(-1)>>, "<=", <<T(1, x)>>),
    [Lit(<<T(1, x)>>, "<=", K(0)) EXCEPT !.neg = TRUE] }

Args == {<<l>> : l \in Menu} \cup {<<l, m>> : l, m \in Menu}

ClauseInputs ==
  {[vars |-> <<Var(x, 0, 1), Var(y, 0, u)>>, args |-> <<a, <<l>> >>] :
     a \in Args, l \in Menu, u \in {-1, 1}}
  \cup {[vars |-> <<Var(x, 0, 1), Var(y, 0, 1)>>,   \* sato:86
         args |-> << <<Lit(<<T(1, x)>>, "!=", <<T(1, y)>>), Lit(<<T(1, x)>>, "=", <<T(1, y)>>)>> >>]}
  \cup {[vars |-> <<Var(x, 0, 2), Var(y, 0, 1), Var(x, 1, 3)>>, args |-> <<a>>] : a \in Args}

Lines == Comparisons \cup ClauseInputs
=============================================================================
