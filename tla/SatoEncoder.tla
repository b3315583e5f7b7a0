---------------------------- MODULE SatoEncoder ----------------------------
(***************************************************************************)
(* The encoder as a program: from the arguments of the script to the       *)
(* DIMACS file (CSP::parseExpression, Encoder::encode,                     *)
(* SAT::exportToDimacs), one action per stage and per item of the stage.   *)
(***************************************************************************)
EXTENDS OrderEncoding

CONSTANTS
  VarNames,  \* the names a command line may use
  Inputs     \* the command lines considered

\* What the regular expressions of CSP::parseExpression let through: names,
\* integers and one comparison operator per literal.
Operators == {"<=", ">=", "<", ">", "=", "!="}
Token     == [v : VarNames \cup {NoName}, a : Int]
Literal   == [neg : BOOLEAN, lhs : Seq(Token), op : Operators, rhs : Seq(Token)]

CommandLine == [vars : Seq([v : VarNames, l : Int, u : Int]), args : Seq(Seq(Literal))]

ASSUME InputsAssumption == Inputs \subseteq CommandLine

\* A name is a word: it has at least one piece and is no bracket.
ASSUME NamesAssumption ==
  \A v \in VarNames : /\ Len(v) \in Nat \ {0} /\ v = [i \in 1 .. Len(v) |-> v[i]]
                      /\ v # StrayBracket.v

VARIABLES
  input,        \* the declarations and the bracketed arguments
  pc,           \* the stage the script is in
  constraints,  \* $constraints: clauses of normal literals
  clauses,      \* $clauses: clauses of Inequation objects
  encoded,      \* how many clauses, then how many variables, are encoded
  boolVars,     \* $boolVars, the Boolean variables in numbering order
  cnf,          \* the clauses of the SAT object
  dimacs        \* [vars, clauses] of sat.dimacs, a clause a set of numbers

vars == <<input, pc, constraints, clauses, encoded, boolVars, cnf, dimacs>>

NoDimacs == [vars |-> 0, clauses |-> {}]

Init ==
  /\ input \in Inputs
  /\ pc = "variables"
  /\ constraints = << >> /\ clauses = << >>
  /\ encoded = 0
  /\ boolVars = << >> /\ cnf = {}
  /\ dimacs = NoDimacs

Declared == {input.vars[i].v : i \in DOMAIN input.vars}

\* IntegerVariable::varExistsInArray: the first declaration of a name wins.
Dom == [v \in Declared |->
          LET i == Min({j \in DOMAIN input.vars : input.vars[j].v = v})
          IN  [l |-> input.vars[i].l, u |-> input.vars[i].u]]

Fail == pc' = "error"

\* The declarations become IntegerVariable objects; an empty domain throws.
ParseVariables ==
  /\ pc = "variables"
  /\ IF \E i \in DOMAIN input.vars : input.vars[i].u < input.vars[i].l
       THEN Fail ELSE pc' = "arguments"
  /\ UNCHANGED <<input, constraints, clauses, encoded, boolVars, cnf, dimacs>>

NormalizeArgument(arg) ==
  LET set[i \in 0 .. Len(arg)] ==
        IF i = 0 THEN << >> ELSE Distribute(set[i - 1], NormalizeLiteral(arg[i]))
  IN  set[Len(arg)]

\* One bracketed argument is normalised and distributed into clauses.
ParseArgument ==
  /\ pc = "arguments"
  /\ encoded < Len(input.args)
  /\ constraints' = constraints \o NormalizeArgument(input.args[encoded + 1])
  /\ encoded' = encoded + 1
  /\ UNCHANGED <<input, pc, clauses, boolVars, cnf, dimacs>>

ArgumentsParsed ==
  /\ pc = "arguments"
  /\ encoded = Len(input.args)
  /\ pc' = "inequations"
  /\ UNCHANGED <<input, constraints, clauses, encoded, boolVars, cnf, dimacs>>

\* Every clause of literals becomes a clause of Inequation objects.
ParseInequations ==
  /\ pc = "inequations"
  /\ IF \E c \in ToSet(constraints) : \E l \in ToSet(c) : ParseFails(l, Declared)
       THEN Fail /\ UNCHANGED clauses
       ELSE /\ pc' = "clauses"
            /\ clauses' = [i \in DOMAIN constraints |->
                 [j \in DOMAIN constraints[i] |-> ParseInequation(constraints[i][j])]]
  /\ encoded' = 0
  /\ UNCHANGED <<input, constraints, boolVars, cnf, dimacs>>

\* CSP::computeClauseCNF for the next clause.
ComputeClauseCNF ==
  /\ pc = "clauses"
  /\ encoded < Len(clauses)
  /\ LET c == clauses[encoded + 1]
     IN  IF \E j \in DOMAIN c : EncodingFails(c[j], Dom)
           THEN Fail /\ UNCHANGED <<encoded, boolVars, cnf>>
           ELSE /\ cnf' = cnf \cup ClauseCNF(encoded, c, Dom)
                /\ boolVars' = boolVars \o ClauseIndicators(encoded, c)
                /\ encoded' = encoded + 1
                /\ UNCHANGED pc
  /\ UNCHANGED <<input, constraints, clauses, dimacs>>

ClausesEncoded ==
  /\ pc = "clauses"
  /\ encoded = Len(clauses)
  /\ pc' = "order" /\ encoded' = 0
  /\ UNCHANGED <<input, constraints, clauses, boolVars, cnf, dimacs>>

\* CSP::predicateOrderRelations for the next variable.
PredicateOrderRelations ==
  /\ pc = "order"
  /\ encoded < Len(input.vars)
  /\ LET x   == input.vars[encoded + 1]
         ps  == PredicateVariables(x.v, x)
         new == Selected(ps, {i \in DOMAIN ps : ~Contains(boolVars, ps[i])})
     IN  /\ boolVars' = boolVars \o new
         /\ cnf' = cnf \cup PredicateBounds(x.v, x) \cup PredicateOrderRelation(x.v, x)
  /\ encoded' = encoded + 1
  /\ UNCHANGED <<input, pc, constraints, clauses, dimacs>>

\* SAT::varIndexNumber (array_search gives the first key), literalToNumber.
VarIndexNumber(b) == Min({i \in DOMAIN boolVars : boolVars[i] = b})
LiteralToNumber(lit) == IF lit[2] THEN VarIndexNumber(lit[1]) ELSE -VarIndexNumber(lit[1])

\* SAT::exportToDimacs; a literal whose variable has no number throws.
ExportToDimacs ==
  /\ pc = "order"
  /\ encoded = Len(input.vars)
  /\ IF \E c \in cnf : \E lit \in c : ~Contains(boolVars, lit[1])
       THEN Fail /\ UNCHANGED dimacs
       ELSE /\ pc' = "exported"
            /\ dimacs' = [vars |-> Len(boolVars),
                          clauses |-> {{LiteralToNumber(lit) : lit \in c} : c \in cnf}]
  /\ UNCHANGED <<input, constraints, clauses, encoded, boolVars, cnf>>

Next ==
  \/ ParseVariables \/ ParseArgument \/ ArgumentsParsed \/ ParseInequations
  \/ ComputeClauseCNF \/ ClausesEncoded \/ PredicateOrderRelations \/ ExportToDimacs

Spec == Init /\ [][Next]_vars /\ WF_vars(Next)

-----------------------------------------------------------------------------
(* What a command line means, from the text of its comparisons alone.      *)

Holds(op, a, b) ==
  CASE op = "<=" -> a <= b [] op = ">=" -> a >= b [] op = "<" -> a < b
    [] op = ">"  -> a > b  [] op = "="  -> a = b  [] op = "!=" -> a # b

Value(e, val) ==
  SumOf([i \in DOMAIN e |-> IF e[i].v = NoName THEN e[i].a ELSE e[i].a * val[e[i].v]])

LiteralHolds(l, val) == Holds(l.op, Value(l.lhs, val), Value(l.rhs, val)) # l.neg

Valuations ==
  {val \in [Declared -> UNION {input.vars[i].l .. input.vars[i].u : i \in DOMAIN input.vars}] :
     \A i \in DOMAIN input.vars : val[input.vars[i].v] \in input.vars[i].l .. input.vars[i].u}

Solutions ==
  {val \in Valuations :
     \A i \in DOMAIN input.args : \E l \in ToSet(input.args[i]) : LiteralHolds(l, val)}

-----------------------------------------------------------------------------
(* What the DIMACS file means to a SAT solver: a model is the set of the   *)
(* numbers it makes true; its valuation is read back as Solver::interprete *)
(* does, with the least constant of the true predicates of each variable.  *)

IsModel(m, f) ==
  \A c \in f : \E n \in c : IF n > 0 THEN n \in m ELSE -n \notin m

Models == {m \in SUBSET (1 .. dimacs.vars) : IsModel(m, dimacs.clauses)}

TruePredicates(m) == {boolVars[n].pieces : n \in {k \in m : boolVars[k].kind = "p"}}

\* PrimitiveComparison::parseExpression keeps the pieces before and after the
\* first underscore only.
Parsed(pieces) == [name |-> <<pieces[1]>>, const |-> pieces[2]]

Interpretation(m) ==
  LET ps == {Parsed(pieces) : pieces \in TruePredicates(m)}
  IN  [v \in {p.name : p \in ps} |-> Min({p.const : p \in {r \in ps : r.name = v}})]

-----------------------------------------------------------------------------
(* Properties                                                              *)

\* The stage, the counters and the DIMACS file have their types.
TypeOK ==
  /\ input \in Inputs
  /\ pc \in {"variables", "arguments", "inequations", "clauses", "order", "exported", "error"}
  /\ encoded \in 0 .. Max({Len(input.vars), Len(input.args), Len(clauses)})
  /\ Len(clauses) \in {0, Len(constraints)}
  /\ \A i \in DOMAIN boolVars : boolVars[i].kind \in {"p", "q"}
  /\ dimacs.vars \in {0, Len(boolVars)}
  /\ \A c \in dimacs.clauses : c \subseteq (-dimacs.vars .. dimacs.vars) \ {0}

\* Every model of the exported file reads back as a solution of the
\* constraints typed by the user (Encoder::encode followed by
\* Solver::interprete): hash translation, negation by distribution and the
\* order axioms together never admit a wrong valuation.
ModelsAreSolutions ==
  pc = "exported" => \A m \in Models : Interpretation(m) \in Solutions

\* Every solution of the constraints is read back from some model (Encoder::
\* encode loses no solution).
SolutionsAreModels ==
  pc = "exported" => Solutions \subseteq {Interpretation(m) : m \in Models}

\* The same, of the inputs none of whose inequations is a lost tautology.
SolutionsKept ==
  (\A i \in DOMAIN clauses : \A j \in DOMAIN clauses[i] : ~LostTautology(clauses[i][j], Dom))
     => SolutionsAreModels

\* Once every variable has its order relation, every literal of the CNF has
\* a number, so SAT::exportToDimacs never throws: the constant of a primitive
\* comparison never leaves l-1 .. u of its variable, whatever the
\* coefficients (Inequation::computeCNF against IntegerVariable's axioms); and
\* the literals of the file are within the number of variables it declares.
EveryLiteralIsNumbered ==
  /\ TypeOK
  /\ pc = "order" /\ encoded = Len(input.vars) =>
       \A c \in cnf : \A lit \in c : Contains(boolVars, lit[1])

\* In every model the true predicates of a variable are an upward closed
\* range, from a value inside every domain declared for it, so the minimum
\* Solver::interprete takes is the only value of the variable they allow.
PredicatesAreOrdered ==
  pc = "exported" =>
     \A m \in Models : \A i \in DOMAIN input.vars :
        LET v  == input.vars[i].v
            cs == {p[Len(v) + 1] : p \in {q \in TruePredicates(m) : Front(q) = v}}
        IN  /\ cs \cap (input.vars[i].l .. input.vars[i].u) # {}
            /\ cs = Min(cs) .. Max({input.vars[j].u : j \in {k \in DOMAIN input.vars : input.vars[k].v = v}})
            /\ Min(cs) >= input.vars[i].l
=============================================================================
