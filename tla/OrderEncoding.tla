--------------------------- MODULE OrderEncoding ---------------------------
(***************************************************************************)
(* The pure part of the PHP encoder: how a comparison between two linear   *)
(* expressions is rewritten into inequations, and how an inequation, a     *)
(* clause of inequations and a domain become Boolean clauses.              *)
(*                                                                         *)
(* A name is a sequence, the pieces of the PHP string between its          *)
(* underscores (<<"x">> is x, <<"x", 1>> is x_1).  A token is a signed     *)
(* piece of an expression, [v |-> name, a |-> coefficient], with the empty *)
(* name for a constant.  A Boolean literal is <<boolean variable, sign>>.  *)
(***************************************************************************)
EXTENDS Lists, FiniteSetsExt

NoName == << >>
Constant(k) == [v |-> NoName, a |-> k]

\* The bracket left over when the two sides of '-(l op r)' are cut apart:
\* a name no declaration can have.
StrayBracket == [v |-> <<")">>, a |-> 1]

-----------------------------------------------------------------------------
(* CSP::normalizeExpression and CSP::distribute                            *)

Negated(e) == [i \in DOMAIN e |-> [e[i] EXCEPT !.a = -@]]

\* Everything is moved to the left-hand side, textually.
MoveLeft(l) ==
  LET moved == IF l.rhs = <<Constant(0)>> THEN l.lhs ELSE l.lhs \o Negated(l.rhs)
  IN  IF l.neg THEN Append(moved, StrayBracket) ELSE moved

\* A normal literal stands for the string 'e op k', or '-(e op k)' if neg.
Normal(e, op, k, neg) == [e |-> e, op |-> op, k |-> k, neg |-> neg]

NormalizeLiteral(l) ==
  LET e == MoveLeft(l)
  IN  CASE l.op = "!=" -> << <<Normal(e, "<=", -1, FALSE), Normal(e, "<=", 0, TRUE)>> >>
        [] l.op = "="  -> << <<Normal(e, "<=", 0, FALSE)>>, <<Normal(e, "<=", -1, TRUE)>> >>
        [] OTHER       -> << <<Normal(e, l.op, 0, FALSE)>> >>

Distribute(cnf1, cnf2) ==
  IF cnf1 = << >> THEN cnf2
  ELSE IF cnf2 = << >> THEN cnf1
  ELSE LET n == Len(cnf2)
       IN  [k \in 1 .. Len(cnf1) * n |->
              Unique(cnf1[((k - 1) \div n) + 1] \o cnf2[((k - 1) % n) + 1])]

-----------------------------------------------------------------------------
(* Inequation::normalizeExpression and Inequation::parseExpression         *)

\* 'e > k' is '-(e <= k)', 'e >= k' is '-(1+e <= k)', 'e < k' is '1+e <= k'.
NegatesSign(op) == op \in {">", ">="}

\* Mutant: '<' is read as '<='.
AddsOneForAtLeast(op) == op = ">="

AddsOne(op)     == op \in {"<", ">="}

FirstUse(ts, i) == \A j \in 1 .. i - 1 : ts[j].v # ts[i].v

\* Tokens of the same variable are added into the term of its first use.
LinearTerms(e) ==
  LET coeff(v) == SumOf([i \in DOMAIN e |-> IF e[i].v = v THEN e[i].a ELSE 0])
  IN  Selected([i \in DOMAIN e |-> [v |-> e[i].v, a |-> coeff(e[i].v)]],
               {i \in DOMAIN e : e[i].v # NoName /\ FirstUse(e, i)})

ParseInequation(l) ==
  LET consts == SumOf([i \in DOMAIN l.e |-> IF l.e[i].v = NoName THEN l.e[i].a ELSE 0])
  IN  [terms |-> LinearTerms(l.e),
       c     |-> l.k - consts - (IF AddsOne(l.op) THEN 1 ELSE 0),
       sign  |-> l.neg = NegatesSign(l.op)]

\* What makes Inequation::parseExpression throw.
ParseFails(l, declared) ==
  \E i \in DOMAIN l.e : /\ l.e[i].v # NoName
                        /\ l.e[i].a = 0 \/ l.e[i].v \notin declared

-----------------------------------------------------------------------------
(* Inequation::computeCNF, for domains dom[name] = [l |-> _, u |-> _]      *)

LowerBound(t, dom) == IF t.a > 0 THEN t.a * dom[t.v].l ELSE t.a * dom[t.v].u
UpperBound(t, dom) == IF t.a > 0 THEN t.a * dom[t.v].u ELSE t.a * dom[t.v].l

TermsDomain(ineq, dom) ==
  [i \in DOMAIN ineq.terms |->
     (LowerBound(ineq.terms[i], dom) - 1) .. UpperBound(ineq.terms[i], dom)]

\* Every way to take one value from each set of the sequence; of an empty
\* sequence there is none (and not the empty one).
Combinaisons(data) ==
  IF data = << >> THEN {}
  ELSE {b \in [DOMAIN data -> UNION {data[i] : i \in DOMAIN data}] :
          \A i \in DOMAIN data : b[i] \in data[i]}

\* The same when the data are clauses, n literals each, and what is built are
\* clauses: every way to take one literal from each clause.
ClauseCombinaisons(cnf, n) ==
  IF cnf = {} THEN {}
  ELSE {{clause[taken[clause]] : clause \in cnf} : taken \in [cnf -> 1 .. n]}

\* Mutant: the quotient is truncated instead of rounded down.
TruncatedQuotient(v, a, b) ==
  IF a > 0 THEN [v |-> v, c |-> IF b < 0 THEN -((-b) \div a) ELSE b \div a, pos |-> TRUE]
           ELSE [v |-> v, c |-> -(b \div (-a)) - 1, pos |-> FALSE]

\* Mutant: x >= c is written -(x <= c), without the -1.
StrictAtLeast(v, a, b) ==
  IF a > 0 THEN [v |-> v, c |-> b \div a, pos |-> TRUE]
           ELSE [v |-> v, c |-> -(b \div (-a)), pos |-> FALSE]

\* a.x <= b as a comparison of x alone, for a # 0.
HashTranslation(v, a, b) ==
  IF a > 0 THEN [v |-> v, c |-> b \div a, pos |-> TRUE]
           ELSE [v |-> v, c |-> -(b \div (-a)) - 1, pos |-> FALSE]

MatchingCombinaisons(ineq, dom) ==
  LET sum == ineq.c - Len(ineq.terms) + 1
  IN  {b \in Combinaisons(TermsDomain(ineq, dom)) : SumOf(b) = sum}

\* PrimitiveComparison::hashTranslation throws on a coefficient that has
\* become 0, but only when some combination gets that far.
EncodingFails(ineq, dom) ==
  /\ \E i \in DOMAIN ineq.terms : ineq.terms[i].a = 0
  /\ MatchingCombinaisons(ineq, dom) # {}

\* What a constant gives for the i-th term, inverted in a negated inequation.
Primitive(ineq, i, b) ==
  LET h == HashTranslation(ineq.terms[i].v, ineq.terms[i].a, b)
  IN  [h EXCEPT !.pos = (@ = ineq.sign)]

DirectClauses(ineq, dom) ==
  {[i \in DOMAIN ineq.terms |-> Primitive(ineq, i, b[i])] : b \in MatchingCombinaisons(ineq, dom)}

ComputeCNF(ineq, dom) ==
  LET direct == DirectClauses(ineq, dom)
      cnf == IF ineq.sign
               THEN {{clause[i] : i \in DOMAIN ineq.terms} : clause \in direct}
               ELSE ClauseCombinaisons(direct, Len(ineq.terms))
  IN  IF cnf = {} THEN {{}} ELSE cnf

\* An inequation for which no combination has the wanted sum is encoded as
\* false (the last line of computeCNF).  It is a mistake when the inequation
\* is true of every valuation.
LostTautology(ineq, dom) ==
  /\ MatchingCombinaisons(ineq, dom) = {}
  /\ LET least    == SumOf([i \in DOMAIN ineq.terms |-> LowerBound(ineq.terms[i], dom)])
         greatest == SumOf([i \in DOMAIN ineq.terms |-> UpperBound(ineq.terms[i], dom)])
     IN  IF ineq.sign THEN greatest <= ineq.c ELSE least > ineq.c

-----------------------------------------------------------------------------
(* Boolean variables: the predicate p<name>_<const> of 'name <= const' and *)
(* the indicator q<index><i> of the i-th inequation of a clause.           *)

P(v, c) == [kind |-> "p", pieces |-> v \o <<c>>]

Digits(n) == CHOOSE d \in 1 .. 9 : /\ n < 10 ^ d
                                   /\ d = 1 \/ n >= 10 ^ (d - 1)

\* The two numbers are written one after the other with nothing between.
Q(index, i) == [kind |-> "q", pieces |-> <<"", index * (10 ^ Digits(i)) + i, Digits(index) + Digits(i)>>]

PredicateEquivalent(prim) == <<P(prim.v, prim.c), prim.pos>>

\* CSP::computeClauseCNF; index and i count from 0, as in PHP.
ClauseIndicators(index, clause) == [i \in DOMAIN clause |-> Q(index, i - 1)]

ClauseCNF(index, clause, dom) ==
  LET qs == ClauseIndicators(index, clause)
  IN  {{<<qs[i], TRUE>> : i \in DOMAIN qs}}
      \cup UNION {{{<<qs[i], FALSE>>} \cup {PredicateEquivalent(prim) : prim \in F} :
                       F \in ComputeCNF(clause[i], dom)} : i \in DOMAIN clause}

\* Mutant: nothing says that the variable is at most its upper bound.
OnlyLowerBound(v, d) == {{<<P(v, d.l - 1), FALSE>>}}

\* IntegerVariable::predicateBounds and predicateOrderRelation.
PredicateBounds(v, d) == {{<<P(v, d.l - 1), FALSE>>}, {<<P(v, d.u), TRUE>>}}

PredicateOrderRelation(v, d) ==
  {{<<P(v, i - 1), FALSE>>, <<P(v, i), TRUE>>} : i \in d.l .. d.u}

\* The predicates those two add to $boolVars, in the order they are met.
PredicateVariables(v, d) ==
  Unique(<<P(v, d.l - 1), P(v, d.u)>> \o [k \in 1 .. d.u - d.l + 2 |-> P(v, d.l + k - 2)])

=============================================================================
