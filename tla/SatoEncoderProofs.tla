------------------------ MODULE SatoEncoderProofs ------------------------
(***************************************************************************)
(* The order encoding is right for every inequation, domain and valuation, *)
(* and the stages of the encoder, for every command line, build objects    *)
(* that are well formed and a CNF whose every literal has a number.        *)
(***************************************************************************)
EXTENDS SatoEncoder, RecursionProofs

-----------------------------------------------------------------------------
(* The order encoding.  The translation of 'a.x <= b' into a comparison of x*)
(* alone is exact (PrimitiveComparison::hashTranslation) and its constant is*)
(* one the order axioms know; the clauses of an inequation hold exactly when*)
(* the inequation does (Inequation::computeCNF), unless it is a tautology for*)
(* which no combination has the wanted sum; and the Boolean clauses and the*)
(* order axioms say the same of truth assignments.                         *)

\* The quotient is the floor.
LEMMA FloorBounds ==
  ASSUME NEW a \in Nat \ {0}, NEW b \in Int
  PROVE  /\ b \div a \in Int
         /\ a * (b \div a) <= b
         /\ b < a * ((b \div a) + 1)
<1>1. b \div a \in Int
  BY Z3
<1>2. a * (b \div a) <= b
  BY Z3
<1>3. b < a * ((b \div a) + 1)
  BY Z3
<1> QED
  BY <1>1, <1>2, <1>3

LEMMA TimesMonotone ==
  ASSUME NEW a \in Nat \ {0}, NEW m \in Int, NEW n \in Int, m <= n
  PROVE  a * m <= a * n
<1>1. n - m \in Nat
  OBVIOUS
<1>2. a * (n - m) >= 0
  BY <1>1, Z3
<1>3. a * (n - m) = a * n - a * m
  BY Z3
<1> QED
  BY <1>2, <1>3, Z3

\* The least and the greatest quotient of the values a term can take, and of
\* the one below them.
LEMMA FloorRange ==
  ASSUME NEW a \in Nat \ {0}, NEW l \in Int, NEW u \in Int,
         NEW b \in (a * l - 1) .. (a * u)
  PROVE  b \div a \in (l - 1) .. u
<1> DEFINE q == b \div a
<1>0. /\ a * l \in Int /\ a * u \in Int
      /\ b \in Int /\ a * l - 1 <= b /\ b <= a * u
  BY Z3
<1>1. q \in Int /\ a * q <= b /\ b < a * (q + 1)
  BY <1>0, FloorBounds
<1>2. q <= u
  <2> SUFFICES ASSUME ~(q <= u) PROVE FALSE
    OBVIOUS
  <2>1. u + 1 <= q /\ u + 1 \in Int
    BY <1>1
  <2> HIDE DEF q
  <2>2. a * (u + 1) <= a * q
    BY <1>1, <2>1, TimesMonotone
  <2>3. a * (u + 1) = a * u + a
    BY Z3
  <2> QED
    BY <1>0, <1>1, <2>2, <2>3, Z3
<1>3. l - 1 <= q
  <2> SUFFICES ASSUME ~(l - 1 <= q) PROVE FALSE
    OBVIOUS
  <2>1. q + 1 <= l - 1 /\ q + 1 \in Int /\ l - 1 \in Int
    BY <1>1
  <2> HIDE DEF q
  <2>2. a * (q + 1) <= a * (l - 1)
    BY <2>1, TimesMonotone
  <2>3. a * (l - 1) = a * l - a
    BY Z3
  <2> QED
    BY <1>0, <1>1, <2>2, <2>3, Z3
<1> QED
  BY <1>1, <1>2, <1>3

LEMMA AtMostFloor ==
  ASSUME NEW a \in Nat \ {0}, NEW b \in Int, NEW x \in Int
  PROVE  a * x <= b <=> x <= b \div a
<1> DEFINE q == b \div a
<1>1. q \in Int /\ a * q <= b /\ b < a * (q + 1) /\ a * q \in Int /\ a * (q + 1) \in Int
  BY FloorBounds, Z3
<1> HIDE DEF q
<1>2. a * x \in Int
  BY Z3
<1>3. ASSUME x <= q PROVE a * x <= b
  BY <1>1, <1>2, <1>3, TimesMonotone
<1>4. ASSUME ~(x <= q) PROVE ~(a * x <= b)
  <2>1. q + 1 <= x /\ q + 1 \in Int
    BY <1>1, <1>4
  <2>2. a * (q + 1) <= a * x
    BY <2>1, TimesMonotone
  <2> QED
    BY <1>1, <1>2, <2>2
<1> QED
  BY <1>3, <1>4 DEF q

-----------------------------------------------------------------------------
\* For every non-null coefficient, the comparison hashTranslation puts in place
\* of 'a.x <= b' holds of exactly the same integers.
THEOREM HashTranslationExact ==
  ASSUME NEW v, NEW a \in Int \ {0}, NEW b \in Int, NEW x \in Int
  PROVE  LET h == HashTranslation(v, a, b)
         IN  h.c \in Int /\ (a * x <= b <=> (x <= h.c <=> h.pos))
<1>1. CASE a > 0
  <2>1. b \div a \in Int /\ (a * x <= b <=> x <= b \div a)
    BY <1>1, AtMostFloor, FloorBounds
  <2> QED
    BY <1>1, <2>1 DEF HashTranslation
<1>2. CASE a < 0
  <2> DEFINE d == -a
             q == b \div d
  <2>1. d \in Nat \ {0} /\ -x \in Int
    BY <1>2
  <2>2. q \in Int
    BY <2>1, FloorBounds
  <2>3. d * (-x) <= b <=> -x <= q
    BY <2>1, AtMostFloor
  <2>4. d * (-x) = a * x
    BY Z3
  <2>5. HashTranslation(v, a, b) = [v |-> v, c |-> -q - 1, pos |-> FALSE]
    BY <1>2 DEF HashTranslation
  <2> HIDE DEF q, d
  <2>6. -x <= q <=> ~(x <= -q - 1)
    BY <2>2
  <2> QED
    BY <2>2, <2>3, <2>4, <2>5, <2>6
<1> QED
  BY <1>1, <1>2

\* For every domain and coefficient, the constants computeCNF compares a
\* variable with are ones predicateOrderRelation numbers: l-1 .. u.
THEOREM HashTranslationInRange ==
  ASSUME NEW v, NEW a \in Int \ {0}, NEW dom, dom[v].l \in Int, dom[v].u \in Int,
         NEW b \in (LowerBound([v |-> v, a |-> a], dom) - 1) .. UpperBound([v |-> v, a |-> a], dom)
  PROVE  HashTranslation(v, a, b).c \in (dom[v].l - 1) .. dom[v].u
<1> DEFINE l == dom[v].l
           u == dom[v].u
<1>1. CASE a > 0
  <2>1. b \in (a * l - 1) .. (a * u)
    BY <1>1 DEF LowerBound, UpperBound
  <2>2. b \div a \in (l - 1) .. u
    BY <1>1, <2>1, FloorRange
  <2> QED
    BY <1>1, <2>2 DEF HashTranslation
<1>2. CASE a < 0
  <2> DEFINE d == -a
             q == b \div d
  <2>1. d \in Nat \ {0} /\ -u \in Int /\ -l \in Int
    BY <1>2
  <2>2. b \in (a * u - 1) .. (a * l)
    BY <1>2 DEF LowerBound, UpperBound
  <2>3. d * (-u) = a * u /\ d * (-l) = a * l
    BY Z3
  <2>4. q \in (-u - 1) .. (-l)
    <3>1. b \in (d * (-u) - 1) .. (d * (-l))
      BY <2>2, <2>3
    <3> HIDE DEF d
    <3> QED
      BY <2>1, <3>1, FloorRange
  <2>5. HashTranslation(v, a, b).c = -q - 1
    BY <1>2 DEF HashTranslation
  <2> HIDE DEF q, l, u
  <2>6. l \in Int /\ u \in Int
    BY DEF l, u
  <2> QED
    BY <2>4, <2>5, <2>6 DEF l, u
<1> QED
  BY <1>1, <1>2

-----------------------------------------------------------------------------
(* The clauses of an inequation hold of a valuation exactly when the       *)
(* inequation does, unless it is a lost tautology.                         *)

PrimitiveHolds(prim, val) == (val[prim.v] <= prim.c) <=> prim.pos

ClausesHold(F, val) == \A clause \in F : \E prim \in clause : PrimitiveHolds(prim, val)

\* The values of the terms, and their least and greatest values.
Values(ineq, val) == [i \in DOMAIN ineq.terms |-> ineq.terms[i].a * val[ineq.terms[i].v]]
Least(ineq, dom)  == [i \in DOMAIN ineq.terms |-> LowerBound(ineq.terms[i], dom)]
Most(ineq, dom)   == [i \in DOMAIN ineq.terms |-> UpperBound(ineq.terms[i], dom)]

InequationHolds(ineq, val) == (SumOf(Values(ineq, val)) <= ineq.c) <=> ineq.sign

\* An inequation over the variables of a domain, as parseExpression makes them.
IsInequation(ineq, Names) ==
  /\ ineq.terms \in Seq([v : Names, a : Int])
  /\ ineq.c \in Int /\ ineq.sign \in BOOLEAN

IsDomain(dom, Names) ==
  \A v \in Names : dom[v].l \in Int /\ dom[v].u \in Int /\ dom[v].l <= dom[v].u

InDomain(val, dom, Names) ==
  \A v \in Names : val[v] \in Int /\ dom[v].l <= val[v] /\ val[v] <= dom[v].u

LEMMA ProductInt ==
  ASSUME NEW a \in Int, NEW x \in Int
  PROVE  a * x \in Int
BY Z3

LEMMA ProductMonotone ==
  ASSUME NEW a \in Int, NEW x \in Int, NEW y \in Int, x <= y
  PROVE  IF a > 0 THEN a * x <= a * y ELSE a * y <= a * x
<1>1. CASE a > 0
  BY <1>1, TimesMonotone
<1>2. CASE a = 0
  BY <1>2, Z3
<1>3. CASE a < 0
  <2> DEFINE d == -a
  <2>1. d \in Nat \ {0} /\ d * x = -(a * x) /\ d * y = -(a * y)
    <3>1. d \in Nat \ {0}
      BY <1>3
    <3>2. d * x = -(a * x) /\ d * y = -(a * y)
      BY Z3
    <3> QED BY <3>1, <3>2
  <2>2. a * x \in Int /\ a * y \in Int
    BY ProductInt
  <2>3. d * x <= d * y
    <3> HIDE DEF d
    <3> QED BY <2>1, TimesMonotone
  <2> QED BY <1>3, <2>1, <2>2, <2>3
<1> QED BY <1>1, <1>2, <1>3

\* The terms of an inequation, and their bounds.
LEMMA Terms ==
  ASSUME NEW Names, NEW ineq, IsInequation(ineq, Names)
  PROVE  /\ Len(ineq.terms) \in Nat /\ DOMAIN ineq.terms = 1 .. Len(ineq.terms)
         /\ \A i \in 1 .. Len(ineq.terms) : ineq.terms[i].v \in Names /\ ineq.terms[i].a \in Int
<1>1. ineq.terms \in Seq([v : Names, a : Int])
  BY DEF IsInequation
<1>2. Len(ineq.terms) \in Nat /\ DOMAIN ineq.terms = 1 .. Len(ineq.terms)
  BY <1>1, LenProperties
<1>3. \A i \in 1 .. Len(ineq.terms) : ineq.terms[i] \in [v : Names, a : Int]
  BY <1>1, ElementOfSeq
<1> QED BY <1>2, <1>3

LEMMA TermBounds ==
  ASSUME NEW Names, NEW ineq, IsInequation(ineq, Names), NEW dom, IsDomain(dom, Names),
         NEW x, NEW i \in 1 .. Len(ineq.terms),
         LET v == ineq.terms[i].v IN x \in Int /\ dom[v].l <= x /\ x <= dom[v].u
  PROVE  LET t == ineq.terms[i]
         IN  /\ t.a * x \in Int /\ LowerBound(t, dom) \in Int /\ UpperBound(t, dom) \in Int
             /\ LowerBound(t, dom) <= t.a * x /\ t.a * x <= UpperBound(t, dom)
<1> DEFINE t == ineq.terms[i]
           a == t.a
           l == dom[t.v].l
           u == dom[t.v].u
<1>1. t.v \in Names /\ a \in Int
  BY Terms
<1>2. l \in Int /\ u \in Int /\ x \in Int /\ l <= x /\ x <= u
  BY <1>1 DEF IsDomain
<1>3. /\ LowerBound(t, dom) = IF a > 0 THEN a * l ELSE a * u
      /\ UpperBound(t, dom) = IF a > 0 THEN a * u ELSE a * l
  BY DEF LowerBound, UpperBound
<1> HIDE DEF a, l, u
<1>4. a * x \in Int /\ a * l \in Int /\ a * u \in Int
  BY <1>1, <1>2, ProductInt
<1>5. IF a > 0 THEN a * l <= a * x /\ a * x <= a * u ELSE a * x <= a * l /\ a * u <= a * x
  BY <1>1, <1>2, ProductMonotone
<1> QED BY <1>3, <1>4, <1>5 DEF a

LEMMA BoundsAreInts ==
  ASSUME NEW Names, NEW ineq, IsInequation(ineq, Names), NEW dom, IsDomain(dom, Names)
  PROVE  LET n == Len(ineq.terms)
         IN  /\ Least(ineq, dom) \in [1 .. n -> Int] /\ Most(ineq, dom) \in [1 .. n -> Int]
             /\ \A i \in 1 .. n : Least(ineq, dom)[i] <= Most(ineq, dom)[i]
<1> DEFINE n == Len(ineq.terms)
<1>1. DOMAIN ineq.terms = 1 .. n
  BY Terms
<1>2. ASSUME NEW i \in 1 .. n
      PROVE  LET t == ineq.terms[i]
             IN  /\ LowerBound(t, dom) \in Int /\ UpperBound(t, dom) \in Int
                 /\ LowerBound(t, dom) <= UpperBound(t, dom)
  <2> DEFINE t == ineq.terms[i]
             l == dom[t.v].l
  <2>1. t.v \in Names /\ t.a \in Int
    BY Terms
  <2>2. l \in Int /\ dom[t.v].l <= l /\ l <= dom[t.v].u
    BY <2>1 DEF IsDomain
  <2> HIDE DEF l
  <2>3. /\ t.a * l \in Int /\ LowerBound(t, dom) \in Int /\ UpperBound(t, dom) \in Int
        /\ LowerBound(t, dom) <= t.a * l /\ t.a * l <= UpperBound(t, dom)
    BY <2>2, TermBounds
  <2> DEFINE lb == LowerBound(t, dom)
             ub == UpperBound(t, dom)
             al == t.a * l
  <2>4. lb \in Int /\ ub \in Int /\ al \in Int /\ lb <= al /\ al <= ub
    BY <2>3
  <2> HIDE DEF lb, ub, al
  <2>5. lb <= ub
    BY <2>4
  <2> QED BY <2>4, <2>5 DEF lb, ub
<1> HIDE DEF n
<1>3. /\ \A i \in 1 .. n : /\ Least(ineq, dom)[i] = LowerBound(ineq.terms[i], dom)
                           /\ Most(ineq, dom)[i] = UpperBound(ineq.terms[i], dom)
      /\ Least(ineq, dom) = [i \in 1 .. n |-> LowerBound(ineq.terms[i], dom)]
      /\ Most(ineq, dom) = [i \in 1 .. n |-> UpperBound(ineq.terms[i], dom)]
  BY <1>1 DEF Least, Most
<1>4. Least(ineq, dom) \in [1 .. n -> Int] /\ Most(ineq, dom) \in [1 .. n -> Int]
  BY <1>2, <1>3
<1>5. \A i \in 1 .. n : Least(ineq, dom)[i] <= Most(ineq, dom)[i]
  BY <1>2, <1>3
<1> QED BY <1>4, <1>5 DEF n

LEMMA ValuesAreBetween ==
  ASSUME NEW Names, NEW ineq, IsInequation(ineq, Names), NEW dom, IsDomain(dom, Names),
         NEW val, InDomain(val, dom, Names)
  PROVE  LET n == Len(ineq.terms)
         IN  /\ Values(ineq, val) \in [1 .. n -> Int]
             /\ \A i \in 1 .. n : /\ Least(ineq, dom)[i] <= Values(ineq, val)[i]
                                  /\ Values(ineq, val)[i] <= Most(ineq, dom)[i]
<1> DEFINE n == Len(ineq.terms)
<1>1. DOMAIN ineq.terms = 1 .. n
  BY Terms
<1>2. ASSUME NEW i \in 1 .. n
      PROVE  LET t == ineq.terms[i]
             IN  /\ t.a * val[t.v] \in Int
                 /\ LowerBound(t, dom) <= t.a * val[t.v] /\ t.a * val[t.v] <= UpperBound(t, dom)
  <2> DEFINE v == ineq.terms[i].v
             x == val[v]
  <2>1. v \in Names
    BY Terms
  <2>2. x \in Int /\ dom[v].l <= x /\ x <= dom[v].u
    BY <2>1 DEF InDomain
  <2> HIDE DEF x
  <2> QED BY <2>2, TermBounds DEF x
<1> HIDE DEF n
<1>3. \A i \in 1 .. n : /\ Least(ineq, dom)[i] = LowerBound(ineq.terms[i], dom)
                        /\ Most(ineq, dom)[i] = UpperBound(ineq.terms[i], dom)
                        /\ Values(ineq, val)[i] = ineq.terms[i].a * val[ineq.terms[i].v]
  BY <1>1 DEF Least, Most, Values
<1>4. Values(ineq, val) = [i \in 1 .. n |-> ineq.terms[i].a * val[ineq.terms[i].v]]
  BY <1>1 DEF Values
<1>5. Values(ineq, val) \in [1 .. n -> Int]
  BY <1>2, <1>4
<1>6. \A i \in 1 .. n : /\ Least(ineq, dom)[i] <= Values(ineq, val)[i]
                        /\ Values(ineq, val)[i] <= Most(ineq, dom)[i]
  BY <1>2, <1>3
<1> QED BY <1>5, <1>6 DEF n

-----------------------------------------------------------------------------
LEMMA SumOfNothing ==
  ASSUME NEW n, n = 0, NEW s \in [1 .. n -> Int]
  PROVE  SumOf(s) = 0
<1>1. PICK p \in [0 .. n -> Int] : p[0] = 0 /\ SumOf(s) = p[n]
  <2>1. n \in Nat
    OBVIOUS
  <2> QED BY <2>1, PartialSums
<1> QED BY <1>1

\* The combinations computeCNF keeps, apart from the inequation they are of.
Kept(lo, hi, n, c) ==
  {b \in [1 .. n -> Int] : /\ \A i \in 1 .. n : lo[i] - 1 <= b[i] /\ b[i] <= hi[i]
                           /\ SumOf(b) = c - n + 1}

\* No combination is kept only when the inequation is true, or false, of every
\* valuation.
LEMMA NoneKept ==
  ASSUME NEW n \in Nat, NEW c \in Int,
         NEW lo \in [1 .. n -> Int], NEW hi \in [1 .. n -> Int],
         \A i \in 1 .. n : lo[i] <= hi[i], Kept(lo, hi, n, c) = {}
  PROVE  /\ SumOf(lo) \in Int /\ SumOf(hi) \in Int
         /\ SumOf(lo) > c + 1 \/ SumOf(hi) < c - n + 1
<1> DEFINE r == [i \in 1 .. n |-> lo[i] - 1]
<1>1. r \in [1 .. n -> Int] /\ \A i \in 1 .. n : r[i] <= hi[i] /\ r[i] = lo[i] - 1
  OBVIOUS
<1>2. SumOf(lo) \in Int /\ SumOf(r) = SumOf(lo) - n
  BY SumOfPredecessors
<1> HIDE DEF r
<1>3. SumOf(hi) \in Int
  BY SumMonotone
<1>4. SUFFICES ASSUME SumOf(lo) <= c + 1, c - n + 1 <= SumOf(hi) PROVE FALSE
  BY <1>2, <1>3
<1>5. c - n + 1 \in SumOf(r) .. SumOf(hi)
  BY <1>2, <1>3, <1>4
<1>6. PICK b \in [1 .. n -> Int] :
        (\A i \in 1 .. n : b[i] \in r[i] .. hi[i]) /\ SumOf(b) = c - n + 1
  <2>1. /\ n \in Nat /\ r \in [1 .. n -> Int] /\ hi \in [1 .. n -> Int]
        /\ \A i \in 1 .. n : r[i] <= hi[i]
    BY <1>1
  <2> QED BY ONLY <2>1, <1>5, SumReaches
<1>7. \A i \in 1 .. n : lo[i] - 1 <= b[i] /\ b[i] <= hi[i]
  <2> TAKE i \in 1 .. n
  <2>1. r[i] \in Int /\ hi[i] \in Int /\ b[i] \in r[i] .. hi[i]
    BY <1>1, <1>6
  <2> QED BY <1>1, <2>1
<1> QED BY <1>6, <1>7 DEF Kept

\* A valuation satisfies, for every kept combination, one of the comparisons
\* with its members exactly when it satisfies the inequation.
LEMMA KeptExact ==
  ASSUME NEW n \in Nat, NEW c \in Int, NEW s \in [1 .. n -> Int],
         NEW lo \in [1 .. n -> Int], NEW hi \in [1 .. n -> Int],
         \A i \in 1 .. n : lo[i] <= s[i] /\ s[i] <= hi[i], Kept(lo, hi, n, c) # {}
  PROVE  (\A b \in Kept(lo, hi, n, c) : \E i \in 1 .. n : s[i] <= b[i]) <=> SumOf(s) <= c
<1>1. ASSUME SumOf(s) <= c, NEW b \in Kept(lo, hi, n, c)
      PROVE  \E i \in 1 .. n : s[i] <= b[i]
  <2> SUFFICES ASSUME \A i \in 1 .. n : ~(s[i] <= b[i]) PROVE FALSE
    OBVIOUS
  <2>1. b \in [1 .. n -> Int] /\ SumOf(b) = c - n + 1
    BY DEF Kept
  <2>2. \A i \in 1 .. n : b[i] < s[i]
    BY <2>1
  <2>3. SumOf(b) \in Int /\ SumOf(s) \in Int /\ SumOf(b) + n <= SumOf(s)
    BY <2>1, <2>2, SumStrict
  <2> QED BY <1>1, <2>1, <2>3
<1>2. ASSUME \A b \in Kept(lo, hi, n, c) : \E i \in 1 .. n : s[i] <= b[i], ~(SumOf(s) <= c)
      PROVE  FALSE
  <2> DEFINE r == [i \in 1 .. n |-> lo[i] - 1]
             t == [i \in 1 .. n |-> s[i] - 1]
  <2>1. /\ r \in [1 .. n -> Int] /\ t \in [1 .. n -> Int]
        /\ \A i \in 1 .. n : r[i] = lo[i] - 1 /\ t[i] = s[i] - 1 /\ r[i] <= t[i]
    OBVIOUS
  <2>2. SumOf(s) \in Int /\ SumOf(t) = SumOf(s) - n
    BY SumOfPredecessors
  <2> HIDE DEF r, t
  <2>3. PICK k \in Kept(lo, hi, n, c) : TRUE
    OBVIOUS
  <2>4. k \in [1 .. n -> Int] /\ SumOf(k) = c - n + 1 /\ \A i \in 1 .. n : r[i] <= k[i]
    BY <2>1 DEF Kept
  <2>5. SumOf(r) \in Int /\ SumOf(r) <= c - n + 1
    BY <2>1, <2>4, SumMonotone
  <2>6. c - n + 1 \in SumOf(r) .. SumOf(t)
    BY <1>2, <2>2, <2>5
  <2> DEFINE m == c - n + 1
  <2>7. r \in [1 .. n -> Int] /\ t \in [1 .. n -> Int]
    BY <2>1
  <2>8. \A i \in 1 .. n : r[i] <= t[i]
    BY <2>1
  <2>9. m \in SumOf(r) .. SumOf(t)
    BY <2>6
  <2> HIDE DEF m
  <2>10. \E b \in [1 .. n -> Int] : (\A i \in 1 .. n : b[i] \in r[i] .. t[i]) /\ SumOf(b) = m
    BY <2>7, <2>8, <2>9, SumReaches, Zenon
  <2>12. PICK b \in [1 .. n -> Int] :
          (\A i \in 1 .. n : b[i] \in r[i] .. t[i]) /\ SumOf(b) = c - n + 1
    BY <2>10 DEF m
  <2>13. \A i \in 1 .. n : lo[i] - 1 <= b[i] /\ b[i] <= hi[i] /\ ~(s[i] <= b[i])
    <3> TAKE i \in 1 .. n
    <3>1. /\ r[i] \in Int /\ t[i] \in Int /\ lo[i] \in Int /\ hi[i] \in Int /\ s[i] \in Int
          /\ s[i] <= hi[i] /\ b[i] \in r[i] .. t[i] /\ r[i] = lo[i] - 1 /\ t[i] = s[i] - 1
      BY <2>1, <2>12
    <3> QED BY <3>1
  <2>14. b \in Kept(lo, hi, n, c)
    BY <2>12, <2>13 DEF Kept
  <2> QED BY <1>2, <2>13, <2>14
<1> QED BY <1>1, <1>2

LEMMA MatchingIsKept ==
  ASSUME NEW Names, NEW ineq, IsInequation(ineq, Names), NEW dom, IsDomain(dom, Names)
  PROVE  LET n == Len(ineq.terms)
         IN  MatchingCombinaisons(ineq, dom) =
               IF n = 0 THEN {} ELSE Kept(Least(ineq, dom), Most(ineq, dom), n, ineq.c)
<1> DEFINE n    == Len(ineq.terms)
           lo   == Least(ineq, dom)
           hi   == Most(ineq, dom)
           data == [i \in 1 .. n |-> (lo[i] - 1) .. hi[i]]
<1>1. n \in Nat /\ DOMAIN ineq.terms = 1 .. n
  BY Terms
<1>2. lo \in [1 .. n -> Int] /\ hi \in [1 .. n -> Int]
  BY BoundsAreInts
<1>3. TermsDomain(ineq, dom) = data
  <2>1. \A i \in 1 .. n : lo[i] = LowerBound(ineq.terms[i], dom) /\ hi[i] = UpperBound(ineq.terms[i], dom)
    BY <1>1 DEF Least, Most
  <2> HIDE DEF n, lo, hi
  <2> QED BY <1>1, <2>1 DEF TermsDomain
<1>4. MatchingCombinaisons(ineq, dom) = {b \in Combinaisons(data) : SumOf(b) = ineq.c - n + 1}
  BY <1>3 DEF MatchingCombinaisons
<1> HIDE DEF n, lo, hi
<1>5. CASE n = 0
  <2>1. data = << >>
    BY <1>5
  <2>2. Combinaisons(data) = {}
    BY <2>1 DEF Combinaisons
  <2> HIDE DEF data
  <2> QED BY <1>4, <1>5, <2>2 DEF n
<1>6. CASE n # 0
  <2>1. DOMAIN data = 1 .. n /\ \A i \in 1 .. n : data[i] = (lo[i] - 1) .. hi[i]
    OBVIOUS
  <2> HIDE DEF data
  <2>2. data # << >>
    <3>1. 1 \in DOMAIN data
      BY <1>1, <1>6, <2>1
    <3> QED BY <3>1
  <2> DEFINE values == UNION {data[i] : i \in 1 .. n}
  <2>3. Combinaisons(data) = {b \in [1 .. n -> values] : \A i \in 1 .. n : b[i] \in data[i]}
    BY <2>1, <2>2 DEF Combinaisons
  <2>4. \A i \in 1 .. n : \A x \in data[i] : x \in values
    OBVIOUS
  <2> HIDE DEF values
  <2>5. ASSUME NEW b \in Combinaisons(data)
        PROVE  b \in [1 .. n -> Int] /\ \A i \in 1 .. n : lo[i] - 1 <= b[i] /\ b[i] <= hi[i]
    <3>1. b = [i \in 1 .. n |-> b[i]] /\ \A i \in 1 .. n : b[i] \in (lo[i] - 1) .. hi[i]
      BY <2>1, <2>3
    <3>2. \A i \in 1 .. n : b[i] \in Int /\ lo[i] - 1 <= b[i] /\ b[i] <= hi[i]
      BY <1>2, <3>1
    <3> QED BY <3>1, <3>2
  <2>6. ASSUME NEW b \in [1 .. n -> Int], \A i \in 1 .. n : lo[i] - 1 <= b[i] /\ b[i] <= hi[i]
        PROVE  b \in Combinaisons(data)
    <3>1. \A i \in 1 .. n : b[i] \in data[i]
      BY <1>2, <2>1, <2>6
    <3>2. b \in [1 .. n -> values]
      BY <2>4, <3>1
    <3> QED BY <2>3, <3>1, <3>2
  <2> DEFINE m == ineq.c - n + 1
  <2>7. MatchingCombinaisons(ineq, dom) = {b \in Combinaisons(data) : SumOf(b) = m}
    BY <1>4
  <2>8. Kept(lo, hi, n, ineq.c) =
          {b \in [1 .. n -> Int] : /\ \A i \in 1 .. n : lo[i] - 1 <= b[i] /\ b[i] <= hi[i]
                                   /\ SumOf(b) = m}
    BY DEF Kept
  <2> HIDE DEF m
  <2>9. MatchingCombinaisons(ineq, dom) = Kept(lo, hi, n, ineq.c)
    BY <2>5, <2>6, <2>7, <2>8
  <2> QED BY <1>6, <2>9 DEF n, lo, hi
<1> QED BY <1>5, <1>6

\* What a constant gives for a term compares the term's value with it.
LEMMA PrimitiveMeans ==
  ASSUME NEW Names, NEW ineq, IsInequation(ineq, Names), NEW dom, NEW val, InDomain(val, dom, Names),
         NEW i \in 1 .. Len(ineq.terms), ineq.terms[i].a # 0, NEW b \in Int
  PROVE  PrimitiveHolds(Primitive(ineq, i, b), val) <=> ((Values(ineq, val)[i] <= b) <=> ineq.sign)
<1> DEFINE v == ineq.terms[i].v
           a == ineq.terms[i].a
           x == val[v]
           h == HashTranslation(v, a, b)
<1>1. v \in Names /\ a \in Int \ {0} /\ ineq.sign \in BOOLEAN
  BY Terms DEF IsInequation
<1>2. x \in Int
  BY <1>1 DEF InDomain
<1>3. h.c \in Int /\ (a * x <= b <=> (x <= h.c <=> h.pos))
  <2> HIDE DEF v, a, x
  <2> QED BY <1>1, <1>2, HashTranslationExact
<1>4. /\ h.pos \in BOOLEAN /\ h.v = v
      /\ h = [v |-> h.v, c |-> h.c, pos |-> h.pos]
  BY DEF HashTranslation
<1>5. Values(ineq, val)[i] = a * x
  BY Terms DEF Values
<1>6. Primitive(ineq, i, b) = [h EXCEPT !.pos = (@ = ineq.sign)]
  BY DEF Primitive
<1> HIDE DEF h
<1>7. /\ Primitive(ineq, i, b).v = v /\ Primitive(ineq, i, b).c = h.c
      /\ Primitive(ineq, i, b).pos = (h.pos = ineq.sign)
  BY <1>4, <1>6
<1> DEFINE le == x <= h.c
           lt == a * x <= b
           p  == h.pos
           s  == ineq.sign
           q  == Primitive(ineq, i, b).pos
<1>8. PrimitiveHolds(Primitive(ineq, i, b), val) <=> (le <=> q)
  BY <1>7 DEF PrimitiveHolds
<1>9. (lt <=> (le <=> p)) /\ q = (p = s) /\ p \in BOOLEAN /\ s \in BOOLEAN
  BY <1>1, <1>3, <1>4, <1>7
<1>10. (Values(ineq, val)[i] <= b) <=> lt
  BY <1>5
<1> HIDE DEF le, lt, p, s, q
<1>11. (le <=> q) <=> (lt <=> s)
  BY <1>9
<1> QED BY <1>8, <1>10, <1>11 DEF s

\* With a combination left, the clauses say what the comparisons with its
\* members say: all of them when the inequation is positive, and none of them
\* together when it is negated.
LEMMA ClausesMean ==
  ASSUME NEW Names, NEW ineq, IsInequation(ineq, Names), NEW dom, NEW val, InDomain(val, dom, Names),
         MatchingCombinaisons(ineq, dom) # {}, Len(ineq.terms) # 0,
         \A b \in MatchingCombinaisons(ineq, dom) : b \in [1 .. Len(ineq.terms) -> Int],
         \A i \in 1 .. Len(ineq.terms) : ineq.terms[i].a # 0
  PROVE  ClausesHold(ComputeCNF(ineq, dom), val) <=>
           ((\A b \in MatchingCombinaisons(ineq, dom) :
               \E i \in 1 .. Len(ineq.terms) : Values(ineq, val)[i] <= b[i]) <=> ineq.sign)
<1> DEFINE n  == Len(ineq.terms)
           M  == MatchingCombinaisons(ineq, dom)
           D  == DirectClauses(ineq, dom)
           prims(b) == [i \in 1 .. n |-> Primitive(ineq, i, b[i])]
           Below(b, i) == Values(ineq, val)[i] <= b[i]
<1>1. n \in Nat \ {0} /\ DOMAIN ineq.terms = 1 .. n /\ ineq.sign \in BOOLEAN
  BY Terms DEF IsInequation
<1>2. D = {prims(b) : b \in M}
  BY <1>1 DEF DirectClauses
<1>3. \A b \in M : \A i \in 1 .. n :
        PrimitiveHolds(prims(b)[i], val) <=> (Below(b, i) <=> ineq.sign)
  BY PrimitiveMeans
<1>4. D # {}
  BY <1>2
<1> HIDE DEF n, M, D, prims, Below
<1>5. CASE ineq.sign
  <2> DEFINE Literals(clause) == {clause[i] : i \in 1 .. n}
             F == {Literals(clause) : clause \in D}
  <2>1. \A clause \in D : (\E prim \in Literals(clause) : PrimitiveHolds(prim, val))
                            <=> \E i \in 1 .. n : PrimitiveHolds(clause[i], val)
    OBVIOUS
  <2>2. ComputeCNF(ineq, dom) = IF F = {} THEN {{}} ELSE F
    <3> DEFINE G == {{clause[i] : i \in DOMAIN ineq.terms} : clause \in D}
    <3>1. ComputeCNF(ineq, dom) = IF G = {} THEN {{}} ELSE G
      BY <1>5, Zenon DEF ComputeCNF, D
    <3>2. G = F
      BY <1>1, Zenon
    <3> HIDE DEF G, F
    <3> QED BY <3>1, <3>2
  <2> HIDE DEF Literals
  <2>3. F # {}
    BY <1>4
  <2>8. (\A clause \in F : \E prim \in clause : PrimitiveHolds(prim, val))
          <=> \A clause \in D : \E prim \in Literals(clause) : PrimitiveHolds(prim, val)
    OBVIOUS
  <2>9. ClausesHold(ComputeCNF(ineq, dom), val)
          <=> \A clause \in D : \E i \in 1 .. n : PrimitiveHolds(clause[i], val)
    <3> HIDE DEF F
    <3> QED BY <2>1, <2>2, <2>3, <2>8 DEF ClausesHold
  <2>4. (\A clause \in D : \E i \in 1 .. n : PrimitiveHolds(clause[i], val))
          <=> \A b \in M : \E i \in 1 .. n : PrimitiveHolds(prims(b)[i], val)
    BY <1>2
  <2>5. (\A b \in M : \E i \in 1 .. n : PrimitiveHolds(prims(b)[i], val))
          <=> \A b \in M : \E i \in 1 .. n : Below(b, i)
    BY <1>3, <1>5
  <2> HIDE DEF F
  <2> QED BY <1>5, <2>9, <2>4, <2>5 DEF M, n, Below
<1>6. CASE ~ineq.sign
  <2> DEFINE T == [D -> 1 .. n]
             Taken(taken) == {clause[taken[clause]] : clause \in D}
             F == {Taken(taken) : taken \in T}
  <2>1. \A taken \in T : (\E prim \in Taken(taken) : PrimitiveHolds(prim, val))
                           <=> \E clause \in D : PrimitiveHolds(clause[taken[clause]], val)
    OBVIOUS
  <2>2. ClauseCombinaisons(D, n) = F
    BY <1>4 DEF ClauseCombinaisons
  <2>3. [clause \in D |-> 1] \in T
    BY <1>1
  <2> HIDE DEF Taken, T
  <2>4. F # {}
    BY <2>3
  <2>8. (\A clause \in F : \E prim \in clause : PrimitiveHolds(prim, val))
          <=> \A taken \in T : \E prim \in Taken(taken) : PrimitiveHolds(prim, val)
    OBVIOUS
  <2> HIDE DEF F
  <2>9. ComputeCNF(ineq, dom) = F
    BY <1>6, <2>2, <2>4 DEF ComputeCNF, D, n
  <2>10. ClausesHold(F, val) <=>
           \A taken \in T : \E clause \in D : PrimitiveHolds(clause[taken[clause]], val)
    BY <2>1, <2>8 DEF ClausesHold
  <2> USE DEF T
  <2>5. (\A taken \in T : \E clause \in D : PrimitiveHolds(clause[taken[clause]], val))
          <=> \E clause \in D : \A i \in 1 .. n : PrimitiveHolds(clause[i], val)
    <3>1. ASSUME NEW clause \in D, \A i \in 1 .. n : PrimitiveHolds(clause[i], val), NEW taken \in T
          PROVE  PrimitiveHolds(clause[taken[clause]], val)
      BY <3>1
    <3>2. ASSUME \A clause \in D : \E i \in 1 .. n : ~PrimitiveHolds(clause[i], val)
          PROVE  \E taken \in T : \A clause \in D : ~PrimitiveHolds(clause[taken[clause]], val)
      <4> DEFINE first(clause) == CHOOSE i \in 1 .. n : ~PrimitiveHolds(clause[i], val)
                 taken == [clause \in D |-> first(clause)]
      <4>1. \A clause \in D : first(clause) \in 1 .. n /\ ~PrimitiveHolds(clause[first(clause)], val)
        BY <3>2
      <4> HIDE DEF first
      <4>2. taken \in T /\ \A clause \in D : taken[clause] = first(clause)
        BY <4>1
      <4> QED BY <4>1, <4>2
    <3> HIDE DEF T
    <3> QED BY <3>1, <3>2
  <2>6. (\E clause \in D : \A i \in 1 .. n : PrimitiveHolds(clause[i], val))
          <=> \E b \in M : \A i \in 1 .. n : PrimitiveHolds(prims(b)[i], val)
    BY <1>2
  <2>7. (\E b \in M : \A i \in 1 .. n : PrimitiveHolds(prims(b)[i], val))
          <=> \E b \in M : \A i \in 1 .. n : ~Below(b, i)
    BY <1>3, <1>6
  <2> HIDE DEF T
  <2> QED BY <1>6, <2>9, <2>10, <2>5, <2>6, <2>7 DEF M, n, Below
<1> QED BY <1>5, <1>6

\* For every inequation, domain and valuation in it: unless the encoder throws,
\* the clauses computeCNF makes hold of the valuation exactly when the
\* inequation does, except that a tautology for which no combination is left is
\* encoded as false (Inequation.php:88, the last line of computeCNF).
THEOREM EncodingExact ==
  ASSUME NEW Names, NEW ineq, IsInequation(ineq, Names), NEW dom, IsDomain(dom, Names),
         NEW val, InDomain(val, dom, Names), ~EncodingFails(ineq, dom)
  PROVE  ClausesHold(ComputeCNF(ineq, dom), val)
           <=> InequationHolds(ineq, val) /\ ~LostTautology(ineq, dom)
<1> DEFINE n  == Len(ineq.terms)
           lo == Least(ineq, dom)
           hi == Most(ineq, dom)
           s  == Values(ineq, val)
           M  == MatchingCombinaisons(ineq, dom)
<1>1. n \in Nat /\ DOMAIN ineq.terms = 1 .. n /\ ineq.c \in Int /\ ineq.sign \in BOOLEAN
  BY Terms DEF IsInequation
<1>2. lo \in [1 .. n -> Int] /\ hi \in [1 .. n -> Int] /\ \A i \in 1 .. n : lo[i] <= hi[i]
  BY BoundsAreInts
<1>3. s \in [1 .. n -> Int] /\ \A i \in 1 .. n : lo[i] <= s[i] /\ s[i] <= hi[i]
  BY ValuesAreBetween
<1>4. M = IF n = 0 THEN {} ELSE Kept(lo, hi, n, ineq.c)
  BY MatchingIsKept
<1>5. InequationHolds(ineq, val) <=> ((SumOf(s) <= ineq.c) <=> ineq.sign)
  BY DEF InequationHolds
<1>6. LostTautology(ineq, dom) <=>
        M = {} /\ IF ineq.sign THEN SumOf(hi) <= ineq.c ELSE SumOf(lo) > ineq.c
  BY DEF LostTautology, Least, Most
<1>7. CASE M = {}
  <2>1. DirectClauses(ineq, dom) = {}
    BY <1>7 DEF DirectClauses
  <2>2. ComputeCNF(ineq, dom) = {{}}
    BY <2>1 DEF ComputeCNF, ClauseCombinaisons
  <2>3. ~ClausesHold(ComputeCNF(ineq, dom), val)
    BY <2>2 DEF ClausesHold
  <2> HIDE DEF n, lo, hi, s, M
  <2>4. /\ SumOf(lo) \in Int /\ SumOf(hi) \in Int /\ SumOf(s) \in Int
        /\ SumOf(lo) <= SumOf(s) /\ SumOf(s) <= SumOf(hi)
    <3>1. (\A i \in 1 .. n : lo[i] <= s[i]) /\ \A i \in 1 .. n : s[i] <= hi[i]
      BY <1>3
    <3>2. lo \in [1 .. n -> Int] /\ hi \in [1 .. n -> Int] /\ s \in [1 .. n -> Int]
      BY <1>2, <1>3
    <3>3. SumOf(lo) \in Int /\ SumOf(s) \in Int /\ SumOf(lo) <= SumOf(s)
      BY <1>1, <3>1, <3>2, SumMonotone, Zenon
    <3>4. SumOf(hi) \in Int /\ SumOf(s) <= SumOf(hi)
      BY <1>1, <3>1, <3>2, SumMonotone, Zenon
    <3> QED BY <3>3, <3>4
  <2>5. SumOf(lo) > ineq.c \/ SumOf(hi) <= ineq.c
    <3>1. CASE n = 0
      <4>1. SumOf(lo) = 0 /\ SumOf(hi) = 0
        <5>1. lo \in [1 .. n -> Int] /\ hi \in [1 .. n -> Int]
          BY <1>2
        <5> QED BY <3>1, <5>1, SumOfNothing
      <4> QED BY <1>1, <4>1
    <3>2. CASE n # 0
      <4>1. Kept(lo, hi, n, ineq.c) = {}
        BY <1>4, <1>7, <3>2
      <4>2. SumOf(lo) > ineq.c + 1 \/ SumOf(hi) < ineq.c - n + 1
        BY <1>1, <1>2, <4>1, NoneKept
      <4> QED BY <1>1, <2>4, <3>2, <4>2
    <3> QED BY <3>1, <3>2
  <2>6. InequationHolds(ineq, val) => LostTautology(ineq, dom)
    <3>1. CASE ineq.sign
      <4>1. InequationHolds(ineq, val) => SumOf(s) <= ineq.c
        BY <1>5, <3>1
      <4>2. SumOf(s) <= ineq.c => SumOf(hi) <= ineq.c
        BY <1>1, <2>4, <2>5
      <4> QED BY <1>6, <1>7, <3>1, <4>1, <4>2
    <3>2. CASE ~ineq.sign
      <4>1. InequationHolds(ineq, val) => ~(SumOf(s) <= ineq.c)
        BY <1>5, <3>2
      <4>2. ~(SumOf(s) <= ineq.c) => SumOf(lo) > ineq.c
        BY <1>1, <2>4, <2>5
      <4> QED BY <1>6, <1>7, <3>2, <4>1, <4>2
    <3> QED BY <3>1, <3>2
  <2> QED BY <2>3, <2>6
<1>8. CASE M # {}
  <2>1. n # 0 /\ M = Kept(lo, hi, n, ineq.c)
    BY <1>4, <1>8
  <2>2. \A i \in 1 .. n : ineq.terms[i].a # 0
    BY <1>1, <1>8 DEF EncodingFails
  <2>3. \A b \in M : b \in [1 .. n -> Int]
    BY <2>1 DEF Kept
  <2>4. ClausesHold(ComputeCNF(ineq, dom), val) <=>
          ((\A b \in M : \E i \in 1 .. n : s[i] <= b[i]) <=> ineq.sign)
    BY <1>8, <2>1, <2>2, <2>3, ClausesMean
  <2> HIDE DEF n, lo, hi, s, M
  <2>5. (\A b \in M : \E i \in 1 .. n : s[i] <= b[i]) <=> SumOf(s) <= ineq.c
    <3>1. Kept(lo, hi, n, ineq.c) # {}
      BY <1>8, <2>1
    <3>2. (\A b \in Kept(lo, hi, n, ineq.c) : \E i \in 1 .. n : s[i] <= b[i]) <=> SumOf(s) <= ineq.c
      BY <1>1, <1>2, <1>3, <3>1, KeptExact
    <3> QED BY <2>1, <3>2
  <2> QED BY <1>5, <1>6, <1>8, <2>4, <2>5
<1> QED BY <1>7, <1>8

\* The inequation that is then encoded as false does hold of every valuation of
\* the domain: EncodingExact loses a valuation only for a tautology.
THEOREM LostTautologyHolds ==
  ASSUME NEW Names, NEW ineq, IsInequation(ineq, Names), NEW dom, IsDomain(dom, Names),
         NEW val, InDomain(val, dom, Names), LostTautology(ineq, dom)
  PROVE  InequationHolds(ineq, val)
<1> DEFINE n  == Len(ineq.terms)
           lo == Least(ineq, dom)
           hi == Most(ineq, dom)
           s  == Values(ineq, val)
<1>1. n \in Nat /\ ineq.c \in Int
  BY Terms DEF IsInequation
<1>2. lo \in [1 .. n -> Int] /\ hi \in [1 .. n -> Int]
  BY BoundsAreInts
<1>3. s \in [1 .. n -> Int] /\ (\A i \in 1 .. n : lo[i] <= s[i]) /\ \A i \in 1 .. n : s[i] <= hi[i]
  BY ValuesAreBetween
<1>4. IF ineq.sign THEN SumOf(hi) <= ineq.c ELSE SumOf(lo) > ineq.c
  BY DEF LostTautology, Least, Most
<1>5. InequationHolds(ineq, val) <=> ((SumOf(s) <= ineq.c) <=> ineq.sign)
  BY DEF InequationHolds
<1> HIDE DEF n, lo, hi, s
<1>6. SumOf(lo) \in Int /\ SumOf(s) \in Int /\ SumOf(lo) <= SumOf(s)
  BY <1>1, <1>2, <1>3, SumMonotone, Zenon
<1>7. SumOf(hi) \in Int /\ SumOf(s) <= SumOf(hi)
  BY <1>1, <1>2, <1>3, SumMonotone, Zenon
<1>8. CASE ineq.sign
  <2>1. SumOf(s) <= ineq.c
    BY <1>1, <1>4, <1>6, <1>7, <1>8
  <2> QED BY <1>5, <1>8, <2>1
<1>9. CASE ~ineq.sign
  <2>1. ~(SumOf(s) <= ineq.c)
    BY <1>1, <1>4, <1>6, <1>9
  <2> QED BY <1>5, <1>9, <2>1
<1> QED BY <1>8, <1>9

-----------------------------------------------------------------------------
(* From comparisons to Boolean clauses.  T gives the truth of each Boolean *)
(* variable.                                                               *)

Satisfied(F, T) == \A clause \in F : \E lit \in clause : T[lit[1]] <=> lit[2]

OrderAxioms(v, d) == PredicateBounds(v, d) \cup PredicateOrderRelation(v, d)

\* The predicates of a variable tell that its value is x.
Tells(T, v, d, x) == \A c \in (d.l - 1) .. d.u : T[P(v, c)] <=> x <= c

\* For every domain, the order axioms hold exactly of the truth assignments in
\* which the predicates of the variable tell one value of the domain
\* (IntegerVariable::predicateBounds and predicateOrderRelation).
THEOREM OrderAxiomsExact ==
  ASSUME NEW v, NEW d, d.l \in Int, d.u \in Int, d.l <= d.u, NEW T
  PROVE  Satisfied(OrderAxioms(v, d), T) <=> \E x \in d.l .. d.u : Tells(T, v, d, x)
<1> DEFINE l == d.l
           u == d.u
           t(c) == T[P(v, c)]
           Monotone == ~t(l - 1) /\ t(u) /\ \A i \in l .. u : ~t(i - 1) \/ t(i)
<1>1. l \in Int /\ u \in Int /\ l <= u
  OBVIOUS
<1>2. Satisfied(OrderAxioms(v, d), T) <=> Monotone
  <2>1. Satisfied(PredicateBounds(v, d), T) <=> ~t(l - 1) /\ t(u)
    BY DEF Satisfied, PredicateBounds
  <2>2. Satisfied(PredicateOrderRelation(v, d), T) <=> \A i \in l .. u : ~t(i - 1) \/ t(i)
    <3> DEFINE Order(i) == {<<P(v, i - 1), FALSE>>, <<P(v, i), TRUE>>}
    <3>1. \A i \in l .. u : (\E lit \in Order(i) : T[lit[1]] <=> lit[2]) <=> ~t(i - 1) \/ t(i)
      OBVIOUS
    <3>2. PredicateOrderRelation(v, d) = {Order(i) : i \in l .. u}
      BY DEF PredicateOrderRelation
    <3> HIDE DEF Order, t, l, u
    <3> QED BY <3>1, <3>2 DEF Satisfied
  <2>3. Satisfied(OrderAxioms(v, d), T) <=>
          Satisfied(PredicateBounds(v, d), T) /\ Satisfied(PredicateOrderRelation(v, d), T)
    BY DEF Satisfied, OrderAxioms
  <2> QED BY <2>1, <2>2, <2>3
<1>3. \A x : Tells(T, v, d, x) <=> \A c \in (l - 1) .. u : t(c) <=> x <= c
  BY DEF Tells
<1> HIDE DEF l, u, t
<1>4. ASSUME NEW x \in l .. u, \A c \in (l - 1) .. u : t(c) <=> x <= c
      PROVE  Monotone
  <2>1. ~t(l - 1) /\ t(u)
    BY <1>1, <1>4
  <2>2. ASSUME NEW i \in l .. u PROVE ~t(i - 1) \/ t(i)
    <3>1. i \in (l - 1) .. u /\ i - 1 \in (l - 1) .. u /\ i \in Int
      BY <1>1
    <3> QED BY <1>4, <3>1
  <2> QED BY <2>1, <2>2
<1>5. ASSUME Monotone PROVE \E x \in l .. u : \A c \in (l - 1) .. u : t(c) <=> x <= c
  <2> DEFINE True == {k \in Nat : k <= u - l /\ t(l + k)}
  <2>1. u - l \in True
    <3>1. u - l \in Nat /\ l + (u - l) = u
      BY <1>1
    <3> QED BY <1>5, <3>1
  <2>2. PICK m \in True : \A k \in True : m <= k
    <3> HIDE DEF True
    <3>1. True \subseteq Nat
      BY DEF True
    <3> QED BY <2>1, <3>1, LeastElement
  <2> DEFINE x == l + m
             S == {k \in Nat : m + k <= u - l => t(x + k)}
  <2>3. m \in Nat /\ m <= u - l /\ t(x) /\ x \in l .. u /\ x \in Int
    BY <1>1, <2>2
  <2>4. Nat \subseteq S
    <3>1. 0 \in S
      <4>1. x + 0 = x
        BY <2>3
      <4> QED BY <2>3, <4>1
    <3>2. ASSUME NEW k \in Nat, k \in S PROVE k + 1 \in S
      <4> SUFFICES ASSUME m + (k + 1) <= u - l PROVE t(x + (k + 1))
        OBVIOUS
      <4>1. t(x + k)
        BY <1>1, <2>3, <3>2
      <4> DEFINE i == x + (k + 1)
      <4>2. i \in l .. u /\ i - 1 = x + k
        BY <1>1, <2>3
      <4> HIDE DEF i, x
      <4>3. t(i)
        BY <1>5, <4>1, <4>2
      <4> QED BY <4>3 DEF i
    <3> HIDE DEF S
    <3> QED BY <3>1, <3>2, NatInductionOnSet
  <2>5. ASSUME NEW c \in (l - 1) .. u PROVE t(c) <=> x <= c
    <3>1. CASE x <= c
      <4>1. c - x \in Nat /\ m + (c - x) <= u - l /\ x + (c - x) = c
        BY <1>1, <2>3, <3>1
      <4>2. c - x \in S
        BY <2>4, <4>1
      <4> QED BY <3>1, <4>1, <4>2
    <3>2. CASE ~(x <= c)
      <4>1. CASE c = l - 1
        BY <1>5, <3>2, <4>1
      <4>2. CASE c # l - 1
        <5>1. c - l \in Nat /\ c - l <= u - l /\ l + (c - l) = c /\ ~(m <= c - l)
          BY <1>1, <2>3, <3>2, <4>2
        <5>2. c - l \notin True
          BY <2>2, <5>1
        <5> QED BY <3>2, <5>1, <5>2
      <4> QED BY <4>1, <4>2
    <3> QED BY <3>1, <3>2
  <2> HIDE DEF x
  <2> QED BY <2>3, <2>5
<1>6. (\E x \in l .. u : Tells(T, v, d, x)) <=> \E x \in l .. u : \A c \in (l - 1) .. u : t(c) <=> x <= c
  BY <1>3
<1> HIDE DEF Monotone
<1> QED BY <1>2, <1>4, <1>5, <1>6 DEF l, u

\* Every literal of the clauses of an inequation comes from a member of a kept
\* combination.
LEMMA PrimitiveOrigin ==
  ASSUME NEW Names, NEW ineq, IsInequation(ineq, Names), NEW dom,
         NEW F \in ComputeCNF(ineq, dom), NEW prim \in F
  PROVE  \E b \in MatchingCombinaisons(ineq, dom) : \E i \in 1 .. Len(ineq.terms) :
            prim = Primitive(ineq, i, b[i])
<1> DEFINE n == Len(ineq.terms)
           D == DirectClauses(ineq, dom)
           From(p) == \E clause \in D : \E i \in 1 .. n : p = clause[i]
<1>1. DOMAIN ineq.terms = 1 .. n
  BY Terms
<1>2. From(prim)
  <2>1. CASE ineq.sign
    <3>1. F \in {{clause[i] : i \in 1 .. n} : clause \in D}
      <4> DEFINE G == {{clause[i] : i \in DOMAIN ineq.terms} : clause \in D}
      <4>1. ComputeCNF(ineq, dom) = IF G = {} THEN {{}} ELSE G
        BY <2>1, Zenon DEF ComputeCNF
      <4>2. F \in G
        <5> HIDE DEF G
        <5> QED BY <4>1
      <4> QED BY <1>1, <4>2, Zenon
    <3> HIDE DEF D, n
    <3> QED BY <3>1
  <2>2. CASE ~ineq.sign
    <3> DEFINE G == ClauseCombinaisons(D, n)
    <3>1. ComputeCNF(ineq, dom) = IF G = {} THEN {{}} ELSE G
      BY <2>2 DEF ComputeCNF
    <3>2. F \in G
      <4> HIDE DEF G
      <4> QED BY <3>1
    <3>3. PICK taken \in [D -> 1 .. n] : F = {clause[taken[clause]] : clause \in D}
      <4> HIDE DEF D, n
      <4> QED BY <3>2 DEF ClauseCombinaisons
    <3> HIDE DEF D, n
    <3> QED BY <3>3
  <2> QED BY <2>1, <2>2
<1>3. D = {[i \in 1 .. n |-> Primitive(ineq, i, b[i])] : b \in MatchingCombinaisons(ineq, dom)}
  BY <1>1, Zenon DEF DirectClauses
<1> HIDE DEF D, n
<1> QED BY <1>2, <1>3 DEF n

\* For every inequation and domain, the comparisons computeCNF makes are of
\* declared variables with constants of their order axioms, so a predicate of
\* the encoding always has its place in the order.
THEOREM PrimitivesInRange ==
  ASSUME NEW Names, NEW ineq, IsInequation(ineq, Names), NEW dom, IsDomain(dom, Names),
         ~EncodingFails(ineq, dom), NEW F \in ComputeCNF(ineq, dom), NEW prim \in F
  PROVE  /\ prim.v \in Names /\ prim.pos \in BOOLEAN
         /\ prim.c \in (dom[prim.v].l - 1) .. dom[prim.v].u
<1> DEFINE n  == Len(ineq.terms)
           lo == Least(ineq, dom)
           hi == Most(ineq, dom)
<1>1. PICK b \in MatchingCombinaisons(ineq, dom), i \in 1 .. n : prim = Primitive(ineq, i, b[i])
  BY PrimitiveOrigin
<1>2. DOMAIN ineq.terms = 1 .. n
  BY Terms
<1>3. b \in Kept(lo, hi, n, ineq.c)
  BY MatchingIsKept
<1>4. b[i] \in Int /\ lo[i] - 1 <= b[i] /\ b[i] <= hi[i]
  <2> HIDE DEF n, lo, hi
  <2> QED BY <1>3 DEF Kept
<1>5. lo[i] \in Int /\ hi[i] \in Int
  <2>1. lo \in [1 .. n -> Int] /\ hi \in [1 .. n -> Int]
    BY BoundsAreInts
  <2> HIDE DEF n, lo, hi
  <2> QED BY <2>1
<1> DEFINE v == ineq.terms[i].v
           a == ineq.terms[i].a
           t == [v |-> v, a |-> a]
           h == HashTranslation(v, a, b[i])
<1>6. v \in Names /\ a \in Int \ {0}
  <2>1. v \in Names /\ a \in Int
    BY Terms
  <2>2. a # 0
    BY <1>1, <1>2 DEF EncodingFails
  <2> QED BY <2>1, <2>2
<1>7. lo[i] = LowerBound(t, dom) /\ hi[i] = UpperBound(t, dom)
  BY <1>2 DEF Least, Most, LowerBound, UpperBound
<1>8. b[i] \in (LowerBound(t, dom) - 1) .. UpperBound(t, dom)
  BY <1>4, <1>5, <1>7
<1>9. dom[v].l \in Int /\ dom[v].u \in Int
  BY <1>6 DEF IsDomain
<1>10. h.c \in (dom[v].l - 1) .. dom[v].u
  <2> HIDE DEF v, a
  <2> QED BY <1>6, <1>8, <1>9, HashTranslationInRange
<1>11. /\ h.pos \in BOOLEAN /\ h.v = v
       /\ h = [v |-> h.v, c |-> h.c, pos |-> h.pos]
  BY DEF HashTranslation
<1>12. prim = [h EXCEPT !.pos = (@ = ineq.sign)]
  BY <1>1 DEF Primitive
<1> HIDE DEF h
<1>13. prim.v = v /\ prim.c = h.c /\ prim.pos = (h.pos = ineq.sign)
  BY <1>11, <1>12
<1>14. (h.pos = ineq.sign) \in BOOLEAN
  OBVIOUS
<1> HIDE DEF v
<1> QED BY <1>6, <1>10, <1>13, <1>14

\* A truth assignment that tells the value of every variable satisfies the
\* clauses of a constraint exactly when it makes one of its indicators true and
\* every inequation whose indicator it makes true holds and is encoded
\* (CSP::computeClauseCNF).
THEOREM ClauseExact ==
  ASSUME NEW Names, NEW dom, IsDomain(dom, Names), NEW index, NEW clause,
         \A i \in DOMAIN clause : IsInequation(clause[i], Names) /\ ~EncodingFails(clause[i], dom),
         NEW val, InDomain(val, dom, Names),
         NEW T, \A v \in Names : Tells(T, v, dom[v], val[v])
  PROVE  Satisfied(ClauseCNF(index, clause, dom), T) <=>
           /\ \E i \in DOMAIN clause : T[Q(index, i - 1)]
           /\ \A i \in DOMAIN clause :
                T[Q(index, i - 1)] => InequationHolds(clause[i], val) /\ ~LostTautology(clause[i], dom)
<1> DEFINE q(i) == Q(index, i - 1)
           F(i) == ComputeCNF(clause[i], dom)
           Some == {<<q(i), TRUE>> : i \in DOMAIN clause}
           Cut(i, C) == {<<q(i), FALSE>>} \cup {PredicateEquivalent(prim) : prim \in C}
           Cuts(i) == {Cut(i, C) : C \in F(i)}
<1>1. ClauseCNF(index, clause, dom) = {Some} \cup UNION {Cuts(i) : i \in DOMAIN clause}
  <2> DEFINE qs == ClauseIndicators(index, clause)
  <2>1. DOMAIN qs = DOMAIN clause /\ \A i \in DOMAIN clause : qs[i] = q(i)
    BY DEF ClauseIndicators
  <2>2. {<<qs[i], TRUE>> : i \in DOMAIN qs} = Some
    <3> HIDE DEF qs, q
    <3> QED BY <2>1
  <2> DEFINE X(i) == {{<<qs[i], FALSE>>} \cup {PredicateEquivalent(prim) : prim \in C} : C \in F(i)}
  <2>3. \A i \in DOMAIN clause : Cuts(i) = X(i)
    BY <2>1, Zenon
  <2>4. UNION {Cuts(i) : i \in DOMAIN clause} = UNION {X(i) : i \in DOMAIN clause}
    <3> HIDE DEF Cuts, X
    <3> QED BY <2>3
  <2>5. ClauseCNF(index, clause, dom) =
          {{<<qs[i], TRUE>> : i \in DOMAIN qs}} \cup UNION {X(i) : i \in DOMAIN clause}
    BY Zenon DEF ClauseCNF
  <2> HIDE DEF Cuts, Some, qs, X
  <2> QED BY <2>2, <2>4, <2>5, Zenon
<1>2. (\E lit \in Some : T[lit[1]] <=> lit[2]) <=> \E i \in DOMAIN clause : T[q(i)]
  <2> DEFINE L(i) == <<q(i), TRUE>>
  <2>1. \A i \in DOMAIN clause : (T[L(i)[1]] <=> L(i)[2]) <=> T[q(i)]
    OBVIOUS
  <2>2. Some = {L(i) : i \in DOMAIN clause}
    OBVIOUS
  <2> HIDE DEF L, q, Some
  <2> QED BY <2>1, <2>2
<1>3. ASSUME NEW i \in DOMAIN clause, NEW C \in F(i), NEW prim \in C
      PROVE  LET lit == PredicateEquivalent(prim)
             IN  (T[lit[1]] <=> lit[2]) <=> PrimitiveHolds(prim, val)
  <2>1. prim.v \in Names /\ prim.c \in (dom[prim.v].l - 1) .. dom[prim.v].u
    BY PrimitivesInRange
  <2>2. T[P(prim.v, prim.c)] <=> val[prim.v] <= prim.c
    BY <2>1 DEF Tells
  <2>3. PredicateEquivalent(prim) = <<P(prim.v, prim.c), prim.pos>>
    BY DEF PredicateEquivalent
  <2> QED BY <2>2, <2>3 DEF PrimitiveHolds
<1>4. ASSUME NEW i \in DOMAIN clause, NEW C \in F(i)
      PROVE  (\E lit \in Cut(i, C) : T[lit[1]] <=> lit[2])
               <=> ~T[q(i)] \/ \E prim \in C : PrimitiveHolds(prim, val)
  <2> DEFINE Lits == {PredicateEquivalent(prim) : prim \in C}
  <2>1. (\E lit \in Lits : T[lit[1]] <=> lit[2]) <=> \E prim \in C : PrimitiveHolds(prim, val)
    <3> HIDE DEF F
    <3> QED BY <1>3
  <2> DEFINE L == <<q(i), FALSE>>
  <2>2. (T[L[1]] <=> L[2]) <=> ~T[q(i)]
    OBVIOUS
  <2>3. Cut(i, C) = {L} \cup Lits
    OBVIOUS
  <2> HIDE DEF Lits, q, L, Cut
  <2>4. (\E lit \in Cut(i, C) : T[lit[1]] <=> lit[2])
          <=> (T[L[1]] <=> L[2]) \/ \E lit \in Lits : T[lit[1]] <=> lit[2]
    BY <2>3
  <2> QED BY <2>1, <2>2, <2>4
<1>5. ASSUME NEW i \in DOMAIN clause
      PROVE  (\A cut \in Cuts(i) : \E lit \in cut : T[lit[1]] <=> lit[2])
               <=> (T[q(i)] => ClausesHold(F(i), val))
  <2>1. (\A cut \in Cuts(i) : \E lit \in cut : T[lit[1]] <=> lit[2])
          <=> \A C \in F(i) : \E lit \in Cut(i, C) : T[lit[1]] <=> lit[2]
    <3> HIDE DEF Cut, F
    <3> QED OBVIOUS
  <2> HIDE DEF Cuts, Cut, F, q
  <2> QED BY <1>4, <2>1 DEF ClausesHold
<1>6. ASSUME NEW i \in DOMAIN clause
      PROVE  ClausesHold(F(i), val) <=> InequationHolds(clause[i], val) /\ ~LostTautology(clause[i], dom)
  BY EncodingExact
<1>7. Satisfied(ClauseCNF(index, clause, dom), T) <=>
        /\ \E lit \in Some : T[lit[1]] <=> lit[2]
        /\ \A i \in DOMAIN clause : \A cut \in Cuts(i) : \E lit \in cut : T[lit[1]] <=> lit[2]
  <2> HIDE DEF Some, Cuts
  <2> QED BY <1>1 DEF Satisfied
<1> HIDE DEF Some, Cuts, F
<1>8. Satisfied(ClauseCNF(index, clause, dom), T) <=>
        /\ \E i \in DOMAIN clause : T[q(i)]
        /\ \A i \in DOMAIN clause :
             T[q(i)] => InequationHolds(clause[i], val) /\ ~LostTautology(clause[i], dom)
  <2> HIDE DEF q
  <2> QED BY <1>2, <1>5, <1>6, <1>7
<1> QED BY <1>8 DEF q

-----------------------------------------------------------------------------
(* Parsing.  Tokens may carry, beside a declared name, the empty name of a *)
(* constant or the stray bracket.                                          *)

Names == VarNames \cup {NoName, <<")">>}
Tokens == [v : Names, a : Int]
NormalLiteral == [e : Seq(Tokens), op : Operators, k : Int, neg : BOOLEAN]
NormalCNF == Seq(Seq(NormalLiteral))

LEMMA SeqOfFunction ==
  ASSUME NEW S, NEW n \in Nat, NEW f \in [1 .. n -> S]
  PROVE  f \in Seq(S) /\ Len(f) = n
BY SeqDef, LenProperties

LEMMA TokensOfToken ==
  ASSUME NEW e \in Seq(Token)
  PROVE  e \in Seq(Tokens)
<1>1. Len(e) \in Nat /\ e \in [1 .. Len(e) -> Token]
  BY LenProperties
<1>2. Token \subseteq Tokens
  BY DEF Token, Tokens, Names
<1>3. e \in [1 .. Len(e) -> Tokens]
  BY <1>1, <1>2
<1> QED BY <1>1, <1>3, SeqOfFunction

LEMMA NegatedType ==
  ASSUME NEW e \in Seq(Tokens)
  PROVE  Negated(e) \in Seq(Tokens)
<1>1. Len(e) \in Nat /\ e \in [1 .. Len(e) -> Tokens]
  BY LenProperties
<1>2. \A t \in Tokens : [t EXCEPT !.a = -@] \in Tokens
  BY DEF Tokens
<1>3. Negated(e) = [i \in 1 .. Len(e) |-> [e[i] EXCEPT !.a = -@]]
  BY <1>1 DEF Negated
<1>4. \A i \in 1 .. Len(e) : [e[i] EXCEPT !.a = -@] \in Tokens
  BY <1>1, <1>2
<1>5. Negated(e) \in [1 .. Len(e) -> Tokens]
  BY <1>3, <1>4
<1> QED BY <1>1, <1>5, SeqOfFunction

LEMMA MoveLeftType ==
  ASSUME NEW l \in Literal
  PROVE  MoveLeft(l) \in Seq(Tokens)
<1>1. l.lhs \in Seq(Token) /\ l.rhs \in Seq(Token)
  BY DEF Literal
<1>2. l.lhs \in Seq(Tokens) /\ Negated(l.rhs) \in Seq(Tokens)
  BY <1>1, TokensOfToken, NegatedType
<1>3. l.lhs \o Negated(l.rhs) \in Seq(Tokens)
  BY <1>2, ConcatProperties
<1>4. StrayBracket \in Tokens
  BY DEF StrayBracket, Tokens, Names
<1> DEFINE moved == IF l.rhs = <<Constant(0)>> THEN l.lhs ELSE l.lhs \o Negated(l.rhs)
<1>5. moved \in Seq(Tokens)
  BY <1>2, <1>3
<1>6. MoveLeft(l) = IF l.neg THEN Append(moved, StrayBracket) ELSE moved
  BY DEF MoveLeft
<1> HIDE DEF moved
<1>7. Append(moved, StrayBracket) \in Seq(Tokens)
  BY <1>4, <1>5, AppendProperties
<1> QED BY <1>5, <1>6, <1>7

LEMMA NormalizeLiteralType ==
  ASSUME NEW l \in Literal
  PROVE  NormalizeLiteral(l) \in NormalCNF
<1> DEFINE e == MoveLeft(l)
<1>1. e \in Seq(Tokens) /\ l.op \in Operators
  BY MoveLeftType DEF Literal
<1> HIDE DEF e
<1>2. \A op \in Operators, k \in Int, neg \in BOOLEAN : Normal(e, op, k, neg) \in NormalLiteral
  BY <1>1 DEF Normal, NormalLiteral
<1>3. "<=" \in Operators /\ -1 \in Int /\ 0 \in Int
  BY DEF Operators
<1> DEFINE a == Normal(e, "<=", -1, FALSE)
           b == Normal(e, "<=", 0, TRUE)
           c == Normal(e, "<=", 0, FALSE)
           d == Normal(e, "<=", -1, TRUE)
           o == Normal(e, l.op, 0, FALSE)
<1>4. a \in NormalLiteral /\ b \in NormalLiteral /\ c \in NormalLiteral /\ d \in NormalLiteral
      /\ o \in NormalLiteral
  BY <1>1, <1>2, <1>3
<1>5. NormalizeLiteral(l) = CASE l.op = "!=" -> << <<a, b>> >>
                              [] l.op = "="  -> << <<c>>, <<d>> >>
                              [] OTHER       -> << <<o>> >>
  BY DEF NormalizeLiteral, e
<1> HIDE DEF a, b, c, d, o
<1>6. <<a, b>> \in Seq(NormalLiteral) /\ <<c>> \in Seq(NormalLiteral) /\ <<d>> \in Seq(NormalLiteral)
      /\ <<o>> \in Seq(NormalLiteral)
  BY <1>4
<1> DEFINE ab == <<a, b>>
           c1 == <<c>>
           d1 == <<d>>
           o1 == <<o>>
<1>7. NormalizeLiteral(l) = <<ab>> \/ NormalizeLiteral(l) = <<c1, d1>> \/ NormalizeLiteral(l) = <<o1>>
  BY <1>5
<1>8. ab \in Seq(NormalLiteral) /\ c1 \in Seq(NormalLiteral) /\ d1 \in Seq(NormalLiteral)
      /\ o1 \in Seq(NormalLiteral)
  BY <1>6
<1> HIDE DEF ab, c1, d1, o1
<1>9. <<ab>> \in NormalCNF /\ <<c1, d1>> \in NormalCNF /\ <<o1>> \in NormalCNF
  BY <1>8 DEF NormalCNF
<1> QED BY <1>7, <1>9

\* The positions Distribute reads: the quotient and the remainder.
LEMMA Positions ==
  ASSUME NEW m \in Nat, NEW n \in Nat \ {0}, NEW k \in 1 .. m * n
  PROVE  ((k - 1) \div n) + 1 \in 1 .. m /\ ((k - 1) % n) + 1 \in 1 .. n
<1> DEFINE b == k - 1
           q == b \div n
<1>1. m * n \in Int /\ b \in Int /\ 0 <= b /\ b < m * n
  <2>1. m * n \in Int
    BY ProductInt
  <2> QED BY <2>1
<1>2. q \in Int
  BY <1>1, FloorBounds
<1>3. n * 0 <= b <=> 0 <= q
  <2> HIDE DEF b
  <2> QED BY <1>1, AtMostFloor
<1>4. n * m <= b <=> m <= q
  <2> HIDE DEF b
  <2> QED BY <1>1, AtMostFloor
<1>5. n * 0 = 0 /\ n * m = m * n
  BY Z3
<1>6. q + 1 \in 1 .. m
  <2> HIDE DEF q, b
  <2>1. 0 <= q
    BY <1>1, <1>3, <1>5
  <2>2. ~(m <= q)
    BY <1>1, <1>4, <1>5
  <2> QED BY <1>2, <2>1, <2>2
<1>7. b % n \in 0 .. n - 1
  <2> HIDE DEF b
  <2> QED BY <1>1
<1>8. (b % n) + 1 \in 1 .. n
  <2> HIDE DEF b
  <2> QED BY <1>7
<1> QED BY <1>6, <1>8

LEMMA DistributeType ==
  ASSUME NEW cnf1 \in NormalCNF, NEW cnf2 \in NormalCNF
  PROVE  Distribute(cnf1, cnf2) \in NormalCNF
<1>1. CASE cnf1 = << >> \/ cnf2 = << >>
  BY <1>1 DEF Distribute
<1>2. CASE cnf1 # << >> /\ cnf2 # << >>
  <2> DEFINE m == Len(cnf1)
             n == Len(cnf2)
             at(k) == Unique(cnf1[((k - 1) \div n) + 1] \o cnf2[((k - 1) % n) + 1])
  <2>1. m \in Nat /\ n \in Nat \ {0}
    BY <1>2, LenProperties, EmptySeq DEF NormalCNF
  <2>2. (\A i \in 1 .. m : cnf1[i] \in Seq(NormalLiteral)) /\ \A j \in 1 .. n : cnf2[j] \in Seq(NormalLiteral)
    BY ElementOfSeq DEF NormalCNF
  <2>3. ASSUME NEW k \in 1 .. m * n PROVE at(k) \in Seq(NormalLiteral)
    <3> DEFINE i == ((k - 1) \div n) + 1
               j == ((k - 1) % n) + 1
    <3>1. i \in 1 .. m /\ j \in 1 .. n
      <4> HIDE DEF m, n
      <4> QED BY <2>1, Positions
    <3>2. at(k) = Unique(cnf1[i] \o cnf2[j])
      OBVIOUS
    <3> HIDE DEF i, j, at, m, n
    <3>3. cnf1[i] \o cnf2[j] \in Seq(NormalLiteral)
      BY <2>2, <3>1, ConcatProperties
    <3> QED BY <3>2, <3>3, UniqueItems
  <2>4. Distribute(cnf1, cnf2) = [k \in 1 .. m * n |-> at(k)]
    BY <1>2 DEF Distribute
  <2>5. m * n \in Nat
    <3> HIDE DEF m, n
    <3> QED BY <2>1, Z3
  <2> HIDE DEF at, m, n
  <2>6. Distribute(cnf1, cnf2) \in [1 .. m * n -> Seq(NormalLiteral)]
    BY <2>3, <2>4
  <2> DEFINE k == m * n
  <2>7. k \in Nat /\ Distribute(cnf1, cnf2) \in [1 .. k -> Seq(NormalLiteral)]
    BY <2>5, <2>6
  <2> HIDE DEF k
  <2> QED BY <2>7, SeqOfFunction DEF NormalCNF
<1> QED BY <1>1, <1>2

\* The clauses after each literal of an argument.
NormalizeSteps(set, arg) ==
  /\ set[0] = << >> /\ NormalizeArgument(arg) = set[Len(arg)]
  /\ \A i \in 1 .. Len(arg) : set[i] = Distribute(set[i - 1], NormalizeLiteral(arg[i]))

LEMMA ArgumentSteps ==
  ASSUME NEW arg \in Seq(Literal)
  PROVE  \E set \in [0 .. Len(arg) -> NormalCNF] : NormalizeSteps(set, arg)
<1> DEFINE n == Len(arg)
           V == NormalCNF
           step == [i \in 1 .. n |-> [c \in V |-> Distribute(c, NormalizeLiteral(arg[i]))]]
           Next1(f, i) == IF i = 0 THEN << >> ELSE Distribute(f[i - 1], NormalizeLiteral(arg[i]))
           set[i \in 0 .. n] == IF i = 0 THEN << >> ELSE Distribute(set[i - 1], NormalizeLiteral(arg[i]))
<1>1. n \in Nat /\ \A i \in 1 .. n : NormalizeLiteral(arg[i]) \in V
  BY LenProperties, ElementOfSeq, NormalizeLiteralType
<1>2. << >> \in V
  BY DEF NormalCNF
<1>3. \A i \in 1 .. n : \A c \in V : Distribute(c, NormalizeLiteral(arg[i])) \in V
  BY <1>1, DistributeType
<1>4. step \in Steps(n, V)
  <2>1. \A i \in 1 .. n : [c \in V |-> Distribute(c, NormalizeLiteral(arg[i]))] \in [V -> V]
    <3> HIDE DEF n, V
    <3> QED BY <1>3
  <2> HIDE DEF n, V
  <2> QED BY <2>1 DEF Steps
<1>5. PICK f : Follows(f, n, V, << >>, step)
  <2> HIDE DEF n, V, step, set
  <2> QED BY <1>1, <1>2, <1>4, RecursiveFunction
<1>6. f = [i \in 0 .. n |-> Next1(f, i)]
  <2>1. ASSUME NEW i \in 1 .. n PROVE step[i][f[i - 1]] = Next1(f, i)
    <3>1. i - 1 \in 0 .. n /\ i # 0
      BY <1>1
    <3>2. f[i - 1] \in V
      BY <1>5, <3>1 DEF Follows
    <3> HIDE DEF V, n
    <3> QED BY <3>1, <3>2
  <2>2. ASSUME NEW i \in 0 .. n PROVE f[i] = Next1(f, i)
    <3>1. f[0] = << >> /\ \A j \in 1 .. n : f[j] = step[j][f[j - 1]]
      BY <1>5 DEF Follows
    <3>2. i # 0 => i \in 1 .. n
      BY <1>1
    <3> HIDE DEF step, n, V
    <3> QED BY <2>1, <3>1, <3>2
  <2>3. f = [i \in 0 .. n |-> f[i]]
    <3> HIDE DEF V, step, n
    <3> QED BY <1>5 DEF Follows
  <2> HIDE DEF Next1, step, n, V
  <2> QED BY <2>2, <2>3
<1>7. set = [i \in 0 .. n |-> Next1(set, i)]
  <2>1. \E g : g = [i \in 0 .. n |-> Next1(g, i)]
    BY <1>6
  <2> QED BY <2>1, Zenon
<1>8. NormalizeArgument(arg) = set[n]
  BY DEF NormalizeArgument
<1> HIDE DEF set, step, n, V
<1>9. \A i \in 0 .. n : set[i] = Next1(set, i)
  BY <1>7
<1>10. set[0] = << >> /\ \A i \in 1 .. n : set[i] = Distribute(set[i - 1], NormalizeLiteral(arg[i]))
  <2>1. 0 \in 0 .. n /\ \A i \in 1 .. n : i \in 0 .. n /\ i # 0
    BY <1>1
  <2> QED BY <1>9, <2>1
<1>11. NormalizeSteps(set, arg)
  BY <1>8, <1>10 DEF NormalizeSteps, n
<1> DEFINE Typable == {i \in 0 .. n : set[i] \in V}
<1>12. 0 \in Typable
  <2>1. 0 \in 0 .. n
    BY <1>1
  <2> QED BY <1>2, <1>10, <2>1
<1>13. ASSUME NEW i \in 1 .. n, i - 1 \in Typable PROVE i \in Typable
  <2>1. i \in 0 .. n
    BY <1>1
  <2> QED BY <1>3, <1>10, <1>13, <2>1
<1>14. \A i \in 0 .. n : set[i] \in V
  <2>1. 0 .. n \subseteq Typable
    <3> HIDE DEF Typable
    <3> QED BY <1>1, <1>12, <1>13, BoundedInduction
  <2> QED BY <2>1
<1>15. set \in [0 .. n -> V]
  BY <1>7, <1>14
<1> QED BY <1>11, <1>15 DEF V, n

LEMMA NormalizeArgumentType ==
  ASSUME NEW arg \in Seq(Literal)
  PROVE  NormalizeArgument(arg) \in NormalCNF
<1>1. PICK set \in [0 .. Len(arg) -> NormalCNF] : NormalizeSteps(set, arg)
  BY ArgumentSteps
<1>2. Len(arg) \in 0 .. Len(arg)
  BY LenProperties
<1> QED BY <1>1, <1>2 DEF NormalizeSteps

LEMMA SumIsInt ==
  ASSUME NEW n \in Nat, NEW s \in [1 .. n -> Int]
  PROVE  SumOf(s) \in Int
BY SumOfPredecessors

LEMMA TokenItems ==
  ASSUME NEW e \in Seq(Tokens)
  PROVE  /\ Len(e) \in Nat /\ DOMAIN e = 1 .. Len(e)
         /\ \A i \in 1 .. Len(e) : e[i].v \in Names /\ e[i].a \in Int
<1>1. Len(e) \in Nat /\ DOMAIN e = 1 .. Len(e) /\ \A i \in 1 .. Len(e) : e[i] \in Tokens
  BY LenProperties, ElementOfSeq
<1>2. \A t \in Tokens : t.v \in Names /\ t.a \in Int
  BY DEF Tokens
<1> QED BY <1>1, <1>2

LEMMA LinearTermsType ==
  ASSUME NEW e \in Seq(Tokens), NEW D, \A i \in DOMAIN e : e[i].v # NoName => e[i].v \in D
  PROVE  LinearTerms(e) \in Seq([v : D, a : Int])
<1> DEFINE n == Len(e)
           coeff(v) == SumOf([i \in DOMAIN e |-> IF e[i].v = v THEN e[i].a ELSE 0])
           f == [i \in DOMAIN e |-> [v |-> e[i].v, a |-> coeff(e[i].v)]]
           I == {i \in DOMAIN e : e[i].v # NoName /\ FirstUse(e, i)}
           R == [v : Names, a : Int]
           ts == Selected(f, I)
<1>1. n \in Nat /\ DOMAIN e = 1 .. n /\ \A i \in 1 .. n : e[i].v \in Names /\ e[i].a \in Int
  BY TokenItems
<1>2. \A v : coeff(v) \in Int
  <2> TAKE v
  <2> DEFINE g == [i \in DOMAIN e |-> IF e[i].v = v THEN e[i].a ELSE 0]
  <2>1. g \in [1 .. n -> Int]
    <3> HIDE DEF n
    <3> QED BY <1>1
  <2> HIDE DEF g, n
  <2>2. SumOf(g) \in Int
    BY <1>1, <2>1, SumIsInt
  <2> QED BY <2>2 DEF g
<1> HIDE DEF coeff, n
<1>3. f \in [1 .. n -> R] /\ \A i \in 1 .. n : f[i].v = e[i].v
  BY <1>1, <1>2
<1> HIDE DEF f, I, R
<1>4. f \in Seq(R) /\ Len(f) = n
  BY <1>1, <1>3, SeqOfFunction
<1>5. ts \in Seq(R) /\ Chosen(ts, f, I)
  BY <1>4, SelectedItems
<1> HIDE DEF ts
<1>6. Len(ts) \in Nat /\ DOMAIN ts = 1 .. Len(ts) /\ ts \in [1 .. Len(ts) -> R]
  BY <1>5, LenProperties
<1>7. \A k \in 1 .. Len(ts) : ts[k] \in [v : D, a : Int]
  <2> TAKE k \in 1 .. Len(ts)
  <2>1. PICK i \in 1 .. n : i \in I /\ f[i] = ts[k]
    BY <1>4, <1>5, <1>6 DEF Chosen
  <2>2. ts[k].v \in D
    BY <1>1, <1>3, <2>1 DEF I
  <2>3. ts[k] \in R
    BY <1>6
  <2> QED BY <2>2, <2>3 DEF R
<1>8. ts \in [1 .. Len(ts) -> [v : D, a : Int]]
  BY <1>6, <1>7
<1>9. LinearTerms(e) = ts
  BY DEF LinearTerms, ts, f, I, coeff
<1> QED BY <1>6, <1>8, <1>9, SeqOfFunction

LEMMA ParseInequationType ==
  ASSUME NEW l \in NormalLiteral, NEW D, ~ParseFails(l, D)
  PROVE  IsInequation(ParseInequation(l), D)
<1> DEFINE e == l.e
           n == Len(e)
           g == [i \in DOMAIN e |-> IF e[i].v = NoName THEN e[i].a ELSE 0]
           one == IF AddsOne(l.op) THEN 1 ELSE 0
           s == (l.neg = NegatesSign(l.op))
<1>1. e \in Seq(Tokens) /\ l.k \in Int
  BY DEF NormalLiteral
<1>2. \A i \in DOMAIN e : e[i].v # NoName => e[i].v \in D
  BY DEF ParseFails
<1>3. LinearTerms(e) \in Seq([v : D, a : Int])
  <2> HIDE DEF e
  <2> QED BY <1>1, <1>2, LinearTermsType
<1>4. SumOf(g) \in Int
  <2> HIDE DEF e
  <2>1. n \in Nat /\ DOMAIN e = 1 .. n /\ \A i \in 1 .. n : e[i].a \in Int
    BY <1>1, TokenItems
  <2> HIDE DEF n
  <2>2. g \in [1 .. n -> Int]
    BY <2>1
  <2> HIDE DEF g
  <2> QED BY <2>1, <2>2, SumIsInt
<1>5. one \in Int /\ s \in BOOLEAN
  OBVIOUS
<1>6. ParseInequation(l) = [terms |-> LinearTerms(e), c |-> l.k - SumOf(g) - one, sign |-> s]
  BY DEF ParseInequation
<1> HIDE DEF e, g, one, s
<1>7. l.k - SumOf(g) - one \in Int
  BY <1>1, <1>4, <1>5
<1> QED BY <1>3, <1>5, <1>6, <1>7 DEF IsInequation

LEMMA MinIsLeast ==
  ASSUME NEW S, S \subseteq Nat, S # {}
  PROVE  Min(S) \in S /\ \A x \in S : Min(S) <= x
<1>1. \E m \in S : \A x \in S : m <= x
  BY LeastElement
<1> QED BY <1>1 DEF Min

LEMMA MaxOfThree ==
  ASSUME NEW a \in Nat, NEW b \in Nat, NEW c \in Nat
  PROVE  Max({a, b, c}) \in Nat /\ Max({a, b, c}) >= a /\ Max({a, b, c}) >= b /\ Max({a, b, c}) >= c
<1>1. \E m \in {a, b, c} : \A x \in {a, b, c} : m >= x
  <2>1. CASE a >= b /\ a >= c
    BY <2>1
  <2>2. CASE b >= a /\ b >= c
    BY <2>2
  <2>3. CASE c >= a /\ c >= b
    BY <2>3
  <2> QED BY <2>1, <2>2, <2>3
<1>2. Max({a, b, c}) \in {a, b, c} /\ \A x \in {a, b, c} : Max({a, b, c}) >= x
  BY <1>1 DEF Max
<1> QED BY <1>2

-----------------------------------------------------------------------------
(* The command line and its domains.                                       *)

LEMMA InputType ==
  ASSUME input \in Inputs
  PROVE  /\ Len(input.vars) \in Nat /\ DOMAIN input.vars = 1 .. Len(input.vars)
         /\ \A i \in 1 .. Len(input.vars) :
               /\ input.vars[i].v \in VarNames
               /\ input.vars[i].l \in Int /\ input.vars[i].u \in Int
         /\ Len(input.args) \in Nat
         /\ \A i \in 1 .. Len(input.args) : input.args[i] \in Seq(Literal)
<1> DEFINE R == [v : VarNames, l : Int, u : Int]
<1>1. input.vars \in Seq(R) /\ input.args \in Seq(Seq(Literal))
  BY InputsAssumption DEF CommandLine
<1>2. \A r \in R : r.v \in VarNames /\ r.l \in Int /\ r.u \in Int
  OBVIOUS
<1> HIDE DEF R
<1> DEFINE args == input.args
<1>3. args \in Seq(Seq(Literal))
  BY <1>1
<1> HIDE DEF args
<1>4. Len(args) \in Nat /\ \A i \in 1 .. Len(args) : args[i] \in Seq(Literal)
  BY <1>3, LenProperties, ElementOfSeq
<1> DEFINE xs == input.vars
<1>5. xs \in Seq(R)
  BY <1>1
<1> HIDE DEF xs
<1>6. Len(xs) \in Nat /\ DOMAIN xs = 1 .. Len(xs) /\ \A i \in 1 .. Len(xs) : xs[i] \in R
  BY <1>5, LenProperties, ElementOfSeq
<1>7. \A i \in 1 .. Len(xs) : xs[i].v \in VarNames /\ xs[i].l \in Int /\ xs[i].u \in Int
  BY <1>2, <1>6
<1> QED BY <1>4, <1>6, <1>7 DEF args, xs

\* The domain of a declared name is the one of its first declaration.
LEMMA DomOfFirst ==
  ASSUME input \in Inputs, NEW v \in Declared
  PROVE  \E i \in 1 .. Len(input.vars) :
            /\ input.vars[i].v = v
            /\ Dom[v].l = input.vars[i].l /\ Dom[v].u = input.vars[i].u
<1> DEFINE I == {j \in DOMAIN input.vars : input.vars[j].v = v}
           i == Min(I)
<1>1. Len(input.vars) \in Nat /\ DOMAIN input.vars = 1 .. Len(input.vars)
  BY InputType
<1>2. I \subseteq 1 .. Len(input.vars) /\ I # {}
  BY <1>1 DEF Declared
<1>3. I \subseteq Nat
  BY <1>1, <1>2
<1>4. i \in I
  <2> HIDE DEF I
  <2> QED BY <1>2, <1>3, MinIsLeast
<1>5. Dom[v] = [l |-> input.vars[i].l, u |-> input.vars[i].u]
  BY DEF Dom
<1> HIDE DEF i
<1> QED BY <1>1, <1>4, <1>5

-----------------------------------------------------------------------------
(* The inductive invariant.                                                *)

InequationsOver(D) == [terms : Seq([v : D, a : Int]), c : Int, sign : BOOLEAN]

BoolVars == {P(v, c) : v \in VarNames, c \in Int} \cup {Q(i, j) : i \in Nat, j \in Nat}

Typed ==
  /\ input \in Inputs
  /\ pc \in {"variables", "arguments", "inequations", "clauses", "order", "exported", "error"}
  /\ encoded \in Nat
  /\ constraints \in NormalCNF
  /\ clauses \in Seq(Seq(InequationsOver(Declared)))
  /\ boolVars \in Seq(BoolVars)

\* The counter counts the items of the stage.
Counted ==
  /\ pc = "variables" => encoded = 0
  /\ pc \in {"arguments", "inequations"} => encoded <= Len(input.args)
  /\ pc = "clauses" => encoded <= Len(clauses)
  /\ pc = "order" => encoded <= Len(input.vars)
  /\ pc = "exported" => encoded = Len(input.vars)
  /\ pc = "error" => \/ encoded <= Len(input.args)
                     \/ encoded <= Len(clauses)
                     \/ encoded <= Len(input.vars)

\* Nothing is encoded before the inequations are known, and nothing exported
\* before everything is encoded.
Staged ==
  /\ Len(clauses) = 0 \/ Len(clauses) = Len(constraints)
  /\ pc \in {"variables", "arguments", "inequations"} =>
       /\ Len(clauses) = 0
       /\ boolVars = << >> /\ cnf = {}
  /\ pc # "exported" => dimacs = NoDimacs

DomainsNotEmpty ==
  pc \notin {"variables", "error"} =>
    \A i \in 1 .. Len(input.vars) : input.vars[i].l <= input.vars[i].u

\* A predicate the order relations of a declared variable speak of.
OfDomain(b) == \E v \in Declared : \E c \in (Dom[v].l - 1) .. Dom[v].u : b = P(v, c)

\* A literal of the CNF has a number or will get it with the order relations.
LiteralsFound == \A c \in cnf : \A lit \in c : Contains(boolVars, lit[1]) \/ OfDomain(lit[1])

\* Every order relation added so far has numbered its predicates.
OrdersNumbered ==
  pc \in {"order", "exported"} =>
    \A k \in 1 .. encoded : \A c \in (input.vars[k].l - 1) .. input.vars[k].u :
       Contains(boolVars, P(input.vars[k].v, c))

\* The file declares the variables and its literals are among them.
FileInRange ==
  pc = "exported" =>
    /\ dimacs.vars = Len(boolVars)
    /\ \A c \in dimacs.clauses : c \subseteq (-dimacs.vars .. dimacs.vars) \ {0}

IInv ==
  /\ Typed /\ Counted /\ Staged /\ DomainsNotEmpty
  /\ LiteralsFound /\ OrdersNumbered /\ FileInRange

-----------------------------------------------------------------------------
(* What a step adds to the Boolean variables and to the CNF.               *)

LEMMA ContainsConcat ==
  ASSUME NEW S, NEW s \in Seq(S), NEW t \in Seq(S), NEW x
  PROVE  Contains(s \o t, x) <=> Contains(s, x) \/ Contains(t, x)
<1>1. Len(s) \in Nat /\ Len(t) \in Nat
  BY LenProperties
<1>2. s \o t \in Seq(S) /\ Len(s \o t) = Len(s) + Len(t)
      /\ \A i \in 1 .. Len(s) + Len(t) : (s \o t)[i] = IF i <= Len(s) THEN s[i] ELSE t[i - Len(s)]
  BY ConcatProperties
<1> DEFINE m == Len(s)
           n == Len(t)
           st == s \o t
<1>3. \A i \in 1 .. m : st[i] = s[i] /\ i \in 1 .. m + n
  BY <1>1, <1>2
<1>4. \A i \in 1 .. n : st[m + i] = t[i] /\ m + i \in 1 .. m + n
  <2> TAKE i \in 1 .. n
  <2>1. m + i \in 1 .. m + n /\ ~(m + i <= m) /\ (m + i) - m = i
    BY <1>1
  <2> QED BY <1>2, <2>1
<1>5. \A i \in 1 .. m + n : i \in 1 .. m \/ \E j \in 1 .. n : i = m + j
  <2> TAKE i \in 1 .. m + n
  <2>1. i \in 1 .. m \/ (i - m \in 1 .. n /\ i = m + (i - m))
    BY <1>1
  <2> QED BY <2>1
<1>6. Len(st) = m + n
  BY <1>2
<1> HIDE DEF st, m, n
<1>7. Contains(st, x) <=> (\E i \in 1 .. m : s[i] = x) \/ \E i \in 1 .. n : t[i] = x
  BY <1>3, <1>4, <1>5, <1>6 DEF Contains
<1> QED BY <1>7 DEF Contains, m, n, st

LEMMA NewPredicates ==
  ASSUME NEW S, NEW s \in Seq(S), NEW ps \in Seq(S)
  PROVE  LET new == Selected(ps, {i \in DOMAIN ps : ~Contains(s, ps[i])})
         IN  /\ new \in Seq(S)
             /\ \A x : Contains(s, x) \/ Contains(ps, x) => Contains(s \o new, x)
<1> DEFINE I == {i \in DOMAIN ps : ~Contains(s, ps[i])}
           new == Selected(ps, I)
<1>1. Len(ps) \in Nat /\ DOMAIN ps = 1 .. Len(ps)
  BY LenProperties
<1>2. new \in Seq(S) /\ Chosen(new, ps, I)
  <2> HIDE DEF I
  <2> QED BY SelectedItems
<1>3. ASSUME NEW x, Contains(s, x) \/ Contains(ps, x) PROVE Contains(s \o new, x)
  <2>1. CASE Contains(s, x)
    BY <1>2, <2>1, ContainsConcat
  <2>2. CASE ~Contains(s, x)
    <3>1. PICK i \in 1 .. Len(ps) : ps[i] = x
      BY <1>3, <2>2 DEF Contains
    <3>2. i \in I
      BY <1>1, <2>2, <3>1
    <3> HIDE DEF new, I
    <3>3. \E k \in 1 .. Len(new) : new[k] = x
      <4>1. \E k \in DOMAIN new : new[k] = x
        BY ONLY <1>2, <3>1, <3>2 DEF Chosen
      <4>2. DOMAIN new = 1 .. Len(new)
        BY ONLY <1>2, LenProperties
      <4> QED BY ONLY <4>1, <4>2
    <3>4. Contains(new, x)
      BY <3>3 DEF Contains
    <3> QED BY <1>2, <3>4, ContainsConcat
  <2> QED BY <2>1, <2>2
<1> QED BY <1>2, <1>3

LEMMA PredicateVariablesType ==
  ASSUME NEW v \in VarNames, NEW d, d.l \in Int, d.u \in Int, d.l <= d.u
  PROVE  /\ PredicateVariables(v, d) \in Seq(BoolVars)
         /\ \A c \in (d.l - 1) .. d.u : Contains(PredicateVariables(v, d), P(v, c))
<1> DEFINE l == d.l
           u == d.u
           n == u - l + 2
           f == [k \in 1 .. n |-> P(v, l + k - 2)]
           g == <<P(v, l - 1), P(v, u)>>
           s == g \o f
<1>1. l \in Int /\ u \in Int /\ n \in Nat
  OBVIOUS
<1> HIDE DEF l, u, n
<1>2. \A c \in Int : P(v, c) \in BoolVars
  BY DEF BoolVars
<1>3. f \in Seq(BoolVars) /\ Len(f) = n
  <2>1. \A k \in 1 .. n : l + k - 2 \in Int
    BY <1>1
  <2>2. f \in [1 .. n -> BoolVars]
    BY <1>2, <2>1
  <2> HIDE DEF f
  <2> QED BY <1>1, <2>2, SeqOfFunction
<1>4. g \in Seq(BoolVars) /\ Len(g) = 2
  <2>1. l - 1 \in Int
    BY <1>1
  <2>2. P(v, l - 1) \in BoolVars /\ P(v, u) \in BoolVars
    BY <1>1, <1>2, <2>1
  <2> DEFINE p == P(v, l - 1)
             q == P(v, u)
  <2> HIDE DEF p, q
  <2> QED BY <2>2 DEF p, q
<1>5. s \in Seq(BoolVars)
  <2> HIDE DEF f, g
  <2> QED BY <1>3, <1>4, ConcatProperties
<1>6. ASSUME NEW c \in (l - 1) .. u PROVE Contains(Unique(s), P(v, c))
  <2> DEFINE k == c - l + 2
  <2>1. k \in 1 .. n /\ l + k - 2 = c
    BY <1>1 DEF n
  <2>2. f[k] = P(v, c)
    <3> HIDE DEF k
    <3> QED BY <2>1
  <2> HIDE DEF k, f, g
  <2>3. 2 + k \in 1 .. 2 + n /\ ~(2 + k <= 2) /\ (2 + k) - 2 = k
    BY <1>1, <2>1
  <2>4. s[2 + k] = f[k] /\ Len(s) = 2 + n
    <3>1. Len(s) = Len(g) + Len(f) /\ \A i \in 1 .. Len(g) + Len(f) :
            s[i] = IF i <= Len(g) THEN g[i] ELSE f[i - Len(g)]
      BY <1>3, <1>4, ConcatProperties
    <3> HIDE DEF s
    <3>2. Len(s) = 2 + n /\ \A i \in 1 .. 2 + n : s[i] = IF i <= 2 THEN g[i] ELSE f[i - 2]
      BY <1>3, <1>4, <3>1
    <3> QED BY <2>3, <3>2
  <2> HIDE DEF s
  <2>5. \A i \in 1 .. Len(s) : Contains(Unique(s), s[i])
    BY <1>5, UniqueItems
  <2> QED BY <2>2, <2>3, <2>4, <2>5
<1>7. Unique(s) \in Seq(BoolVars)
  <2> HIDE DEF s
  <2> QED BY <1>5, UniqueItems
<1>8. PredicateVariables(v, d) = Unique(s)
  BY DEF PredicateVariables, s, f, g, n, l, u
<1> HIDE DEF s
<1> QED BY <1>6, <1>7, <1>8 DEF l, u

LEMMA IndicatorsType ==
  ASSUME NEW index \in Nat, NEW S, NEW clause \in Seq(S)
  PROVE  /\ ClauseIndicators(index, clause) \in Seq(BoolVars)
         /\ \A i \in 1 .. Len(clause) : Contains(ClauseIndicators(index, clause), Q(index, i - 1))
<1> DEFINE n == Len(clause)
           qs == ClauseIndicators(index, clause)
<1>1. n \in Nat /\ DOMAIN clause = 1 .. n
  BY LenProperties
<1>2. qs = [i \in 1 .. n |-> Q(index, i - 1)]
  BY <1>1 DEF ClauseIndicators
<1>3. \A i \in 1 .. n : i - 1 \in Nat
  BY <1>1
<1>4. \A j \in Nat : Q(index, j) \in BoolVars
  BY DEF BoolVars
<1> HIDE DEF n, qs
<1>5. qs \in [1 .. n -> BoolVars]
  BY <1>2, <1>3, <1>4
<1>6. qs \in Seq(BoolVars) /\ Len(qs) = n
  BY <1>1, <1>5, SeqOfFunction
<1>7. \A i \in 1 .. n : Contains(qs, Q(index, i - 1))
  BY <1>2, <1>6 DEF Contains
<1> QED BY <1>6, <1>7 DEF qs, n

LEMMA IsInequationOver ==
  ASSUME NEW D, NEW ineq \in InequationsOver(D)
  PROVE  IsInequation(ineq, D)
BY DEF InequationsOver, IsInequation

\* A literal of the clauses of a clause is one of its indicators or a
\* predicate the order relations speak of.
LEMMA ClauseLiterals ==
  ASSUME NEW D, NEW dom, IsDomain(dom, D), NEW index \in Nat,
         NEW clause \in Seq(InequationsOver(D)),
         \A i \in DOMAIN clause : ~EncodingFails(clause[i], dom),
         NEW c \in ClauseCNF(index, clause, dom), NEW lit \in c
  PROVE  \/ Contains(ClauseIndicators(index, clause), lit[1])
         \/ \E v \in D : \E k \in (dom[v].l - 1) .. dom[v].u : lit[1] = P(v, k)
<1> DEFINE qs == ClauseIndicators(index, clause)
           n == Len(clause)
           Head1 == {<<qs[i], TRUE>> : i \in DOMAIN qs}
           Lits(F) == {PredicateEquivalent(prim) : prim \in F}
           Cut(i, F) == {<<qs[i], FALSE>>} \cup Lits(F)
           Cuts(i) == {Cut(i, F) : F \in ComputeCNF(clause[i], dom)}
<1>1. n \in Nat /\ DOMAIN clause = 1 .. n /\ \A i \in 1 .. n : clause[i] \in InequationsOver(D)
  BY LenProperties, ElementOfSeq
<1>2. DOMAIN qs = 1 .. n /\ \A i \in 1 .. n : qs[i] = Q(index, i - 1)
  BY <1>1 DEF ClauseIndicators
<1>3. \A i \in 1 .. n : Contains(qs, qs[i])
  <2>1. \A i \in 1 .. n : Contains(qs, Q(index, i - 1))
    BY IndicatorsType
  <2> HIDE DEF qs
  <2> QED BY <1>2, <2>1
<1>4. ClauseCNF(index, clause, dom) = {Head1} \cup (UNION {Cuts(i) : i \in DOMAIN clause})
  BY Zenon DEF ClauseCNF
<1> HIDE DEF Cuts, Cut, Lits, Head1, qs
<1>5. CASE c = Head1
  <2>1. PICK i \in 1 .. n : lit = <<qs[i], TRUE>>
    BY <1>2, <1>5 DEF Head1
  <2> QED BY <1>3, <2>1 DEF qs
<1>6. CASE c # Head1
  <2>1. PICK i \in 1 .. n : c \in Cuts(i)
    BY <1>1, <1>4, <1>6
  <2>2. PICK F \in ComputeCNF(clause[i], dom) : c = Cut(i, F)
    BY <2>1 DEF Cuts
  <2>3. CASE lit = <<qs[i], FALSE>>
    BY <1>3, <2>3 DEF qs
  <2>4. CASE lit # <<qs[i], FALSE>>
    <3>1. lit \in Lits(F)
      BY <2>2, <2>4 DEF Cut
    <3>2. PICK prim \in F : lit = PredicateEquivalent(prim)
      BY <3>1 DEF Lits
    <3>3. lit[1] = P(prim.v, prim.c)
      BY <3>2 DEF PredicateEquivalent
    <3>4. IsInequation(clause[i], D) /\ ~EncodingFails(clause[i], dom)
      BY <1>1, IsInequationOver
    <3>5. prim.v \in D /\ prim.c \in (dom[prim.v].l - 1) .. dom[prim.v].u
      BY <2>2, <3>2, <3>4, PrimitivesInRange
    <3> QED BY <3>3, <3>5
  <2> QED BY <2>3, <2>4
<1> QED BY <1>5, <1>6

LEMMA OrderLiterals ==
  ASSUME NEW v, NEW d, d.l \in Int, d.u \in Int, d.l <= d.u,
         NEW c \in PredicateBounds(v, d) \cup PredicateOrderRelation(v, d), NEW lit \in c
  PROVE  \E k \in (d.l - 1) .. d.u : lit[1] = P(v, k)
<1> DEFINE l == d.l
           u == d.u
<1>1. l \in Int /\ u \in Int /\ l <= u
  OBVIOUS
<1> HIDE DEF l, u
<1>2. l - 1 \in (l - 1) .. u /\ u \in (l - 1) .. u
  BY <1>1
<1>3. CASE c = {<<P(v, l - 1), FALSE>>}
  BY <1>2, <1>3 DEF l, u
<1>4. CASE c = {<<P(v, u), TRUE>>}
  BY <1>2, <1>4 DEF l, u
<1>5. CASE c \in PredicateOrderRelation(v, d)
  <2>1. PICK i \in l .. u : c = {<<P(v, i - 1), FALSE>>, <<P(v, i), TRUE>>}
    BY <1>5, Zenon DEF PredicateOrderRelation, l, u
  <2>2. i \in (l - 1) .. u /\ i - 1 \in (l - 1) .. u
    BY <1>1
  <2>3. lit[1] = P(v, i - 1) \/ lit[1] = P(v, i)
    <3> DEFINE p == P(v, i - 1)
               q == P(v, i)
    <3>1. c = {<<p, FALSE>>, <<q, TRUE>>}
      BY <2>1
    <3> HIDE DEF p, q
    <3>2. lit = <<p, FALSE>> \/ lit = <<q, TRUE>>
      BY <3>1, Zenon
    <3>3. lit[1] = p \/ lit[1] = q
      <4>1. CASE lit = <<p, FALSE>>
        BY <4>1
      <4>2. CASE lit = <<q, TRUE>>
        BY <4>2
      <4> QED BY <3>2, <4>1, <4>2
    <3> QED BY <3>3 DEF p, q
  <2> QED BY <2>2, <2>3 DEF l, u
<1> QED BY <1>3, <1>4, <1>5 DEF PredicateBounds, l, u

-----------------------------------------------------------------------------
(* The initial state and every stage keep the invariant.                   *)

LEMMA SameInput ==
  ASSUME input' = input
  PROVE  /\ Declared' = Declared /\ Dom' = Dom
         /\ \A b : OfDomain(b)' <=> OfDomain(b)
<1>1. Declared' = Declared /\ Dom' = Dom
  BY DEF Declared, Dom
<1> QED BY <1>1 DEF OfDomain

LEMMA SameCNF ==
  ASSUME LiteralsFound, input' = input, boolVars' = boolVars, cnf' = cnf
  PROVE  LiteralsFound'
BY SameInput DEF LiteralsFound

LEMMA IsDomainDom ==
  ASSUME Typed, DomainsNotEmpty, pc \notin {"variables", "error"}
  PROVE  IsDomain(Dom, Declared)
<1>1. \A i \in 1 .. Len(input.vars) :
        input.vars[i].l \in Int /\ input.vars[i].u \in Int /\ input.vars[i].l <= input.vars[i].u
  BY InputType DEF Typed, DomainsNotEmpty
<1>2. \A v \in Declared : \E i \in 1 .. Len(input.vars) :
        Dom[v].l = input.vars[i].l /\ Dom[v].u = input.vars[i].u
  BY DomOfFirst DEF Typed
<1> QED BY <1>1, <1>2 DEF IsDomain

LEMMA InequationRecord ==
  ASSUME NEW l \in NormalLiteral, NEW D, ~ParseFails(l, D)
  PROVE  ParseInequation(l) \in InequationsOver(D)
<1>1. IsInequation(ParseInequation(l), D)
  BY ParseInequationType
<1> DEFINE t == ParseInequation(l).terms
           c == ParseInequation(l).c
           s == ParseInequation(l).sign
<1>2. ParseInequation(l) = [terms |-> t, c |-> c, sign |-> s]
  BY DEF ParseInequation
<1>3. t \in Seq([v : D, a : Int]) /\ c \in Int /\ s \in BOOLEAN
  BY <1>1 DEF IsInequation
<1> HIDE DEF t, c, s
<1> QED BY <1>2, <1>3 DEF InequationsOver

LEMMA InitIInv ==
  ASSUME Init
  PROVE  IInv
<1>1. Typed
  BY DEF Init, Typed, NormalCNF
<1>2. Counted /\ Staged /\ DomainsNotEmpty /\ OrdersNumbered /\ FileInRange
  BY DEF Init, Counted, Staged, DomainsNotEmpty, OrdersNumbered, FileInRange
<1>3. LiteralsFound
  BY DEF Init, LiteralsFound
<1> QED BY <1>1, <1>2, <1>3 DEF IInv

LEMMA ParseVariablesStep ==
  ASSUME IInv, ParseVariables
  PROVE  IInv'
<1> USE DEF IInv, ParseVariables, Fail
<1>1. Typed'
  BY SameInput DEF Typed
<1>2. Len(input.args) \in Nat /\ DOMAIN input.vars = 1 .. Len(input.vars)
      /\ \A i \in 1 .. Len(input.vars) : input.vars[i].l \in Int /\ input.vars[i].u \in Int
  BY InputType DEF Typed
<1>3. Counted'
  BY <1>2 DEF Counted
<1>4. Staged'
  BY DEF Staged
<1>5. DomainsNotEmpty'
  BY SMTT(30), <1>2 DEF DomainsNotEmpty
<1>6. LiteralsFound'
  BY SameCNF
<1>7. OrdersNumbered' /\ FileInRange'
  BY DEF OrdersNumbered, FileInRange
<1> QED BY <1>1, <1>3, <1>4, <1>5, <1>6, <1>7

LEMMA ParseArgumentStep ==
  ASSUME IInv, ParseArgument
  PROVE  IInv'
<1> USE DEF IInv, ParseArgument
<1>1. Len(input.args) \in Nat /\ encoded \in Nat /\ encoded + 1 \in 1 .. Len(input.args)
      /\ input.args[encoded + 1] \in Seq(Literal)
  <2>1. Len(input.args) \in Nat /\ \A i \in 1 .. Len(input.args) : input.args[i] \in Seq(Literal)
    BY InputType DEF Typed
  <2>2. encoded \in Nat /\ encoded + 1 \in 1 .. Len(input.args)
    BY <2>1 DEF Typed
  <2> QED BY <2>1, <2>2
<1>2. constraints' \in NormalCNF
  <2>1. NormalizeArgument(input.args[encoded + 1]) \in NormalCNF
    BY <1>1, NormalizeArgumentType
  <2> QED BY <2>1, ConcatProperties DEF Typed, NormalCNF
<1>3. Typed'
  BY <1>1, <1>2, SameInput DEF Typed
<1>4. Counted'
  BY <1>1 DEF Counted
<1>5. Staged' /\ DomainsNotEmpty'
  BY DEF Staged, DomainsNotEmpty
<1>6. LiteralsFound'
  BY SameCNF
<1>7. OrdersNumbered' /\ FileInRange'
  BY DEF OrdersNumbered, FileInRange
<1> QED BY <1>3, <1>4, <1>5, <1>6, <1>7

LEMMA ArgumentsParsedStep ==
  ASSUME IInv, ArgumentsParsed
  PROVE  IInv'
<1> USE DEF IInv, ArgumentsParsed
<1>1. Typed'
  BY SameInput DEF Typed
<1>2. Counted'
  BY DEF Counted
<1>3. Staged' /\ DomainsNotEmpty'
  BY DEF Staged, DomainsNotEmpty
<1>4. LiteralsFound'
  BY SameCNF
<1>5. OrdersNumbered' /\ FileInRange'
  BY DEF OrdersNumbered, FileInRange
<1> QED BY <1>1, <1>2, <1>3, <1>4, <1>5

\* The Inequation objects of a CNF of literals that all parse.
LEMMA ParsedType ==
  ASSUME NEW c \in NormalCNF, NEW D, \A x \in ToSet(c) : \A l \in ToSet(x) : ~ParseFails(l, D)
  PROVE  LET p == [i \in DOMAIN c |-> [j \in DOMAIN c[i] |-> ParseInequation(c[i][j])]]
         IN  p \in Seq(Seq(InequationsOver(D))) /\ Len(p) = Len(c)
<1> DEFINE n == Len(c)
           S == InequationsOver(D)
           row(i) == [j \in DOMAIN c[i] |-> ParseInequation(c[i][j])]
           p == [i \in DOMAIN c |-> row(i)]
<1>1. n \in Nat /\ DOMAIN c = 1 .. n /\ \A i \in 1 .. n : c[i] \in Seq(NormalLiteral)
  BY LenProperties, ElementOfSeq DEF NormalCNF
<1>2. ASSUME NEW i \in 1 .. n PROVE row(i) \in Seq(S)
  <2> DEFINE x == c[i]
             m == Len(x)
  <2>1. x \in Seq(NormalLiteral) /\ x \in ToSet(c)
    BY <1>1 DEF ToSet
  <2> HIDE DEF x
  <2>2. m \in Nat /\ DOMAIN x = 1 .. m /\ \A j \in 1 .. m : x[j] \in NormalLiteral
    BY <2>1, LenProperties, ElementOfSeq
  <2>3. ASSUME NEW j \in 1 .. m PROVE ParseInequation(x[j]) \in S
    <3>1. x[j] \in ToSet(x)
      BY <2>2 DEF ToSet
    <3>2. ~ParseFails(x[j], D)
      BY <2>1, <3>1
    <3> QED BY <2>2, <3>2, InequationRecord
  <2> HIDE DEF m, S
  <2> DEFINE r == [j \in 1 .. m |-> ParseInequation(x[j])]
  <2>4. r \in [1 .. m -> S]
    BY <2>3
  <2>5. row(i) = r
    BY <2>2 DEF x
  <2> HIDE DEF r
  <2> QED BY <2>2, <2>4, <2>5, SeqOfFunction
<1> HIDE DEF row, S, n
<1>3. p \in [1 .. n -> Seq(S)]
  BY <1>1, <1>2
<1> HIDE DEF p
<1>4. p \in Seq(Seq(S)) /\ Len(p) = n
  BY <1>1, <1>3, SeqOfFunction
<1> QED BY <1>4 DEF p, row, S, n

LEMMA ParseInequationsStep ==
  ASSUME IInv, ParseInequations
  PROVE  IInv'
<1> USE DEF IInv, ParseInequations, Fail
<1> DEFINE Fails == \E c \in ToSet(constraints) : \E l \in ToSet(c) : ParseFails(l, Declared)
<1>1. clauses' \in Seq(Seq(InequationsOver(Declared)))
      /\ (Len(clauses') = 0 \/ Len(clauses') = Len(constraints))
  <2>1. CASE Fails
    BY <2>1 DEF Typed, Staged
  <2>2. CASE ~Fails
    BY <2>2, ParsedType DEF Typed
  <2> QED BY <2>1, <2>2
<1>2. Typed'
  BY <1>1, SameInput DEF Typed
<1>3. Len(clauses') \in Nat /\ Len(input.args) \in Nat
  <2>1. Len(clauses') \in Nat
    BY <1>1, LenProperties
  <2> QED BY <2>1, InputType DEF Typed
<1>4. Counted'
  BY <1>3 DEF Counted
<1>5. Staged'
  BY <1>1 DEF Staged
<1>6. DomainsNotEmpty'
  BY DEF DomainsNotEmpty
<1>7. LiteralsFound'
  BY SameCNF
<1>8. OrdersNumbered' /\ FileInRange'
  BY DEF OrdersNumbered, FileInRange
<1> QED BY <1>2, <1>4, <1>5, <1>6, <1>7, <1>8

LEMMA ComputeClauseCNFStep ==
  ASSUME IInv, ComputeClauseCNF
  PROVE  IInv'
<1> USE DEF IInv
<1> DEFINE c == clauses[encoded + 1]
           qs == ClauseIndicators(encoded, c)
           new == ClauseCNF(encoded, c, Dom)
           Fails == \E j \in DOMAIN c : EncodingFails(c[j], Dom)
<1>1. Len(clauses) \in Nat /\ encoded \in Nat /\ encoded + 1 \in 1 .. Len(clauses)
      /\ c \in Seq(InequationsOver(Declared))
  <2>1. Len(clauses) \in Nat /\ \A i \in 1 .. Len(clauses) : clauses[i] \in Seq(InequationsOver(Declared))
    BY LenProperties, ElementOfSeq DEF Typed
  <2>2. encoded \in Nat /\ encoded + 1 \in 1 .. Len(clauses)
    BY <2>1 DEF Typed, ComputeClauseCNF
  <2> QED BY <2>1, <2>2
<1>2. /\ pc = "clauses"
      /\ IF Fails
           THEN pc' = "error" /\ UNCHANGED <<encoded, boolVars, cnf>>
           ELSE /\ cnf' = cnf \cup new
                /\ boolVars' = boolVars \o qs
                /\ encoded' = encoded + 1
                /\ UNCHANGED pc
      /\ UNCHANGED <<input, constraints, clauses, dimacs>>
  BY DEF ComputeClauseCNF, Fail
<1> HIDE DEF c
<1>3. CASE Fails
  <2>1. Typed'
    BY <1>2, <1>3, SameInput DEF Typed
  <2>2. Counted' /\ Staged' /\ DomainsNotEmpty'
    BY <1>2, <1>3 DEF Counted, Staged, DomainsNotEmpty
  <2>3. LiteralsFound'
    BY <1>2, <1>3, SameCNF
  <2>4. OrdersNumbered' /\ FileInRange'
    BY <1>2, <1>3 DEF OrdersNumbered, FileInRange
  <2> QED BY <2>1, <2>2, <2>3, <2>4
<1>4. CASE ~Fails
  <2>1. qs \in Seq(BoolVars)
    BY <1>1, IndicatorsType
  <2>2. ASSUME NEW x \in new, NEW lit \in x
        PROVE  Contains(qs, lit[1]) \/ OfDomain(lit[1])
    <3>1. IsDomain(Dom, Declared)
      BY <1>2, IsDomainDom
    <3>2. \/ Contains(qs, lit[1])
          \/ \E v \in Declared : \E k \in (Dom[v].l - 1) .. Dom[v].u : lit[1] = P(v, k)
      BY <1>1, <1>4, <3>1, ClauseLiterals
    <3> QED BY <3>2 DEF OfDomain
  <2> HIDE DEF qs, new, Fails
  <2>3. boolVars \in Seq(BoolVars) /\ boolVars \o qs \in Seq(BoolVars)
    BY <2>1, ConcatProperties DEF Typed
  <2>4. Typed'
    <3>1. /\ pc' = pc /\ boolVars' = boolVars \o qs /\ encoded' = encoded + 1
          /\ UNCHANGED <<input, constraints, clauses>>
      BY <1>2, <1>4
    <3>2. encoded' \in Nat /\ boolVars' \in Seq(BoolVars)
      BY <1>1, <2>3, <3>1
    <3> QED BY <3>1, <3>2, SameInput DEF Typed
  <2>5. Counted' /\ Staged' /\ DomainsNotEmpty'
    BY <1>1, <1>2, <1>4 DEF Counted, Staged, DomainsNotEmpty
  <2>6. LiteralsFound'
    <3>1. \A b : Contains(boolVars, b) \/ Contains(qs, b) => Contains(boolVars', b)
      BY <1>2, <1>4, <2>1, <2>3, ContainsConcat
    <3>2. \A b : OfDomain(b)' <=> OfDomain(b)
      BY <1>2, SameInput
    <3>3. cnf' = cnf \cup new
      BY <1>2, <1>4
    <3> QED BY <2>2, <3>1, <3>2, <3>3 DEF LiteralsFound
  <2>7. OrdersNumbered' /\ FileInRange'
    BY <1>2, <1>4 DEF OrdersNumbered, FileInRange
  <2> QED BY <2>4, <2>5, <2>6, <2>7
<1> QED BY <1>3, <1>4

LEMMA ClausesEncodedStep ==
  ASSUME IInv, ClausesEncoded
  PROVE  IInv'
<1> USE DEF IInv, ClausesEncoded
<1>1. Typed'
  BY SameInput DEF Typed
<1>2. Len(input.vars) \in Nat
  BY InputType DEF Typed
<1>3. Counted' /\ Staged' /\ DomainsNotEmpty'
  BY <1>2 DEF Counted, Staged, DomainsNotEmpty
<1>4. LiteralsFound'
  BY SameCNF
<1>5. OrdersNumbered' /\ FileInRange'
  BY DEF OrdersNumbered, FileInRange
<1> QED BY <1>1, <1>3, <1>4, <1>5

LEMMA PredicateOrderRelationsStep ==
  ASSUME IInv, PredicateOrderRelations
  PROVE  IInv'
<1> USE DEF IInv
<1> DEFINE n == encoded + 1
           x == input.vars[n]
           ps == PredicateVariables(x.v, x)
           new == Selected(ps, {i \in DOMAIN ps : ~Contains(boolVars, ps[i])})
           axioms == PredicateBounds(x.v, x) \cup PredicateOrderRelation(x.v, x)
<1>1. Len(input.vars) \in Nat /\ encoded \in Nat /\ n \in 1 .. Len(input.vars)
      /\ x.v \in VarNames /\ x.l \in Int /\ x.u \in Int /\ x.l <= x.u
  <2>1. Len(input.vars) \in Nat /\ \A i \in 1 .. Len(input.vars) :
          /\ input.vars[i].v \in VarNames
          /\ input.vars[i].l \in Int /\ input.vars[i].u \in Int
    BY InputType DEF Typed
  <2>2. encoded \in Nat /\ n \in 1 .. Len(input.vars)
    <3>1. encoded \in Nat
      BY DEF Typed
    <3>2. encoded < Len(input.vars)
      BY DEF PredicateOrderRelations
    <3> QED BY ONLY <2>1, <3>1, <3>2
  <2>3. pc = "order"
    BY DEF PredicateOrderRelations
  <2> HIDE DEF n
  <2> QED BY <2>1, <2>2, <2>3 DEF DomainsNotEmpty
<1>2. /\ pc = "order" /\ boolVars' = boolVars \o new /\ encoded' = n
      /\ UNCHANGED <<input, pc, constraints, clauses, dimacs>>
  BY DEF PredicateOrderRelations
<1>3. cnf' = cnf \cup axioms
  BY DEF PredicateOrderRelations
<1>4. boolVars \in Seq(BoolVars)
  BY DEF Typed
<1>5. ps \in Seq(BoolVars) /\ \A c \in (x.l - 1) .. x.u : Contains(ps, P(x.v, c))
  <2> HIDE DEF x
  <2> QED BY <1>1, PredicateVariablesType
<1>6. new \in Seq(BoolVars) /\ \A b : Contains(boolVars, b) \/ Contains(ps, b) => Contains(boolVars \o new, b)
  <2> HIDE DEF ps
  <2> QED BY <1>4, <1>5, NewPredicates
<1>7. boolVars' \in Seq(BoolVars) /\ \A b : Contains(boolVars, b) \/ Contains(ps, b) => Contains(boolVars', b)
  <2> HIDE DEF new, ps
  <2> QED BY <1>2, <1>4, <1>6, ConcatProperties
<1>8. ASSUME NEW c \in axioms, NEW lit \in c PROVE Contains(ps, lit[1])
  <2> HIDE DEF x, ps
  <2>1. \E k \in (x.l - 1) .. x.u : lit[1] = P(x.v, k)
    BY <1>1, OrderLiterals
  <2> QED BY <1>5, <2>1
<1> HIDE DEF new, ps, axioms
<1>9. Typed'
  BY <1>1, <1>2, <1>7, SameInput DEF Typed
<1>10. Counted' /\ Staged' /\ DomainsNotEmpty'
  BY <1>1, <1>2 DEF Counted, Staged, DomainsNotEmpty
<1>11. LiteralsFound'
  <2>1. \A b : OfDomain(b)' <=> OfDomain(b)
    BY <1>2, SameInput
  <2> QED BY <1>3, <1>7, <1>8, <2>1 DEF LiteralsFound
<1>12. OrdersNumbered'
  <2>1. \A k \in 1 .. encoded : \A c \in (input.vars[k].l - 1) .. input.vars[k].u :
          Contains(boolVars', P(input.vars[k].v, c))
    BY <1>2, <1>7 DEF OrdersNumbered
  <2>2. \A c \in (x.l - 1) .. x.u : Contains(boolVars', P(x.v, c))
    BY <1>5, <1>7
  <2>3. \A k \in 1 .. n : k \in 1 .. encoded \/ k = n
    BY <1>1
  <2> HIDE DEF n
  <2> QED BY <1>2, <2>1, <2>2, <2>3 DEF OrdersNumbered
<1>13. FileInRange'
  BY <1>2 DEF FileInRange
<1> QED BY <1>9, <1>10, <1>11, <1>12, <1>13

\* A Boolean variable that is in the list has one of its positions as number.
LEMMA VarIndexNumberInRange ==
  ASSUME Typed, NEW b, Contains(boolVars, b)
  PROVE  VarIndexNumber(b) \in 1 .. Len(boolVars)
<1> DEFINE I == {i \in DOMAIN boolVars : boolVars[i] = b}
<1>1. Len(boolVars) \in Nat /\ DOMAIN boolVars = 1 .. Len(boolVars)
  BY LenProperties DEF Typed
<1>2. I # {} /\ I \subseteq 1 .. Len(boolVars)
  BY <1>1 DEF Contains
<1>3. I \subseteq Nat
  BY <1>1, <1>2
<1>4. VarIndexNumber(b) = Min(I)
  BY DEF VarIndexNumber
<1> HIDE DEF I
<1> QED BY <1>2, <1>3, <1>4, MinIsLeast

LEMMA AllNumbered ==
  ASSUME IInv, pc = "order", encoded = Len(input.vars)
  PROVE  \A c \in cnf : \A lit \in c : Contains(boolVars, lit[1])
<1> USE DEF IInv
<1>1. ASSUME NEW b, OfDomain(b) PROVE Contains(boolVars, b)
  <2>1. PICK v \in Declared : \E c \in (Dom[v].l - 1) .. Dom[v].u : b = P(v, c)
    BY <1>1 DEF OfDomain
  <2>2. PICK k \in 1 .. Len(input.vars) :
           input.vars[k].v = v /\ Dom[v].l = input.vars[k].l /\ Dom[v].u = input.vars[k].u
    BY DomOfFirst DEF Typed
  <2> QED BY <2>1, <2>2 DEF OrdersNumbered
<1> QED BY <1>1 DEF LiteralsFound

LEMMA ExportToDimacsStep ==
  ASSUME IInv, ExportToDimacs
  PROVE  IInv' /\ pc' = "exported"
<1> DEFINE file == {{LiteralToNumber(lit) : lit \in c} : c \in cnf}
<1>1. \A c \in cnf : \A lit \in c : Contains(boolVars, lit[1])
  BY AllNumbered DEF ExportToDimacs
<1>2. /\ pc' = "exported" /\ dimacs' = [vars |-> Len(boolVars), clauses |-> file]
      /\ UNCHANGED <<input, constraints, clauses, encoded, boolVars, cnf>>
      /\ pc = "order" /\ encoded = Len(input.vars)
  BY <1>1 DEF ExportToDimacs
<1> DEFINE n == Len(boolVars)
<1>3. n \in Nat
  BY LenProperties DEF IInv, Typed
<1>4. ASSUME NEW c \in cnf, NEW lit \in c
      PROVE  LiteralToNumber(lit) \in (-n .. n) \ {0}
  <2>1. VarIndexNumber(lit[1]) \in 1 .. n
    BY <1>1, VarIndexNumberInRange DEF IInv
  <2> HIDE DEF n
  <2> QED BY <1>3, <2>1 DEF LiteralToNumber
<1>5. \A c \in file : c \subseteq (-n .. n) \ {0}
  BY <1>4
<1> HIDE DEF file
<1>6. FileInRange'
  BY <1>2, <1>5 DEF FileInRange
<1> USE DEF IInv
<1>7. Typed'
  BY <1>2, SameInput DEF Typed
<1>8. Counted'
  BY <1>2 DEF Counted
<1>9. Staged' /\ DomainsNotEmpty'
  BY <1>2 DEF Staged, DomainsNotEmpty
<1>10. LiteralsFound'
  BY <1>2, SameCNF
<1>11. OrdersNumbered'
  BY <1>2 DEF OrdersNumbered
<1> QED BY <1>2, <1>6, <1>7, <1>8, <1>9, <1>10, <1>11

LEMMA NextIInv ==
  ASSUME IInv, [Next]_vars
  PROVE  IInv'
<1>1. CASE UNCHANGED vars
  <2> USE <1>1 DEF vars, IInv
  <2>1. Typed'
    BY SameInput DEF Typed
  <2>2. Counted' /\ Staged' /\ DomainsNotEmpty'
    BY DEF Counted, Staged, DomainsNotEmpty
  <2>3. LiteralsFound'
    BY SameCNF
  <2>4. OrdersNumbered' /\ FileInRange'
    BY DEF OrdersNumbered, FileInRange
  <2> QED BY <2>1, <2>2, <2>3, <2>4
<1> QED BY <1>1, ParseVariablesStep, ParseArgumentStep, ArgumentsParsedStep, ParseInequationsStep,
           ComputeClauseCNFStep, ClausesEncodedStep, PredicateOrderRelationsStep,
           ExportToDimacsStep DEF Next

LEMMA IInvTypeOK ==
  ASSUME IInv
  PROVE  TypeOK
<1> USE DEF IInv
<1>1. Len(input.vars) \in Nat /\ Len(input.args) \in Nat /\ input \in Inputs
  BY InputType DEF Typed
<1>2. Len(clauses) \in Nat /\ DOMAIN boolVars = 1 .. Len(boolVars)
      /\ \A i \in 1 .. Len(boolVars) : boolVars[i] \in BoolVars
  <2>1. Len(clauses) \in Nat
    BY LenProperties DEF Typed
  <2> QED BY <2>1, LenProperties, ElementOfSeq DEF Typed
<1>3. encoded \in 0 .. Max({Len(input.vars), Len(input.args), Len(clauses)})
  <2> DEFINE a == Len(input.vars)
             b == Len(input.args)
             c == Len(clauses)
             m == Max({a, b, c})
  <2>1. encoded \in Nat /\ (encoded <= a \/ encoded <= b \/ encoded <= c)
    BY <1>1, <1>2 DEF Typed, Counted
  <2>2. a \in Nat /\ b \in Nat /\ c \in Nat
    BY <1>1, <1>2
  <2> HIDE DEF a, b, c
  <2>3. m \in Nat /\ m >= a /\ m >= b /\ m >= c
    BY <2>2, MaxOfThree
  <2> HIDE DEF m
  <2>4. encoded \in 0 .. m
    BY <2>1, <2>2, <2>3
  <2> QED BY <2>4 DEF m, a, b, c
<1>4. \A i \in DOMAIN boolVars : boolVars[i].kind \in {"p", "q"}
  <2>1. \A b \in BoolVars : b.kind \in {"p", "q"}
    <3>1. \A v, c : P(v, c).kind = "p"
      BY DEF P
    <3>2. \A i, j : Q(i, j).kind = "q"
      BY Zenon DEF Q
    <3> QED BY <3>1, <3>2 DEF BoolVars
  <2> QED BY <1>2, <2>1
<1>5. dimacs.vars \in {0, Len(boolVars)}
  BY DEF Staged, FileInRange, NoDimacs
<1>6. \A c \in dimacs.clauses : c \subseteq (-dimacs.vars .. dimacs.vars) \ {0}
  BY DEF Staged, FileInRange, NoDimacs
<1>7. Len(clauses) \in {0, Len(constraints)}
  BY DEF Staged
<1>8. pc \in {"variables", "arguments", "inequations", "clauses", "order", "exported", "error"}
  BY DEF Typed
<1> QED BY <1>1, <1>3, <1>4, <1>5, <1>6, <1>7, <1>8 DEF TypeOK

LEMMA SpecIInv == Spec => []IInv
<1>1. Init => IInv
  BY InitIInv
<1>2. IInv /\ [Next]_vars => IInv'
  BY NextIInv
<1> QED BY <1>1, <1>2, PTL DEF Spec

-----------------------------------------------------------------------------
(* What the invariant gives.                                               *)

\* For every command line the counters, the list of Boolean variables and the
\* DIMACS file are well formed, and once every variable has its order relation
\* every literal of the CNF has a number (SAT::exportToDimacs finds all the
\* Boolean variables of the literals Encoder::encode has made).
THEOREM LiteralsAreNumbered == Spec => []EveryLiteralIsNumbered
<1>1. IInv => EveryLiteralIsNumbered
  BY IInvTypeOK, AllNumbered DEF EveryLiteralIsNumbered
<1> QED BY <1>1, SpecIInv, PTL

\* The exceptions of SAT::literalToNumber are never thrown: an encoder whose
\* constraints parse and translate reaches the DIMACS file (CSP::encode and
\* SAT::exportToDimacs).
THEOREM ExportNeverFails == Spec => [][pc = "order" => pc' # "error"]_vars
<1>1. IInv /\ [Next]_vars => [pc = "order" => pc' # "error"]_vars
  <2> SUFFICES ASSUME IInv, Next, pc = "order" PROVE pc' # "error"
    OBVIOUS
  <2>1. CASE ExportToDimacs
    BY <2>1, ExportToDimacsStep
  <2>2. CASE PredicateOrderRelations
    BY <2>2 DEF PredicateOrderRelations
  <2> QED BY <2>1, <2>2 DEF Next, ParseVariables, ParseArgument, ArgumentsParsed, ParseInequations,
             ComputeClauseCNF, ClausesEncoded
<1> QED BY <1>1, SpecIInv, PTL DEF Spec

-----------------------------------------------------------------------------
(* What the CNF says: the clauses of the constraints encoded so far and    *)
(* the order axioms added so far, and nothing else.                        *)

\* How many clauses and how many variables have been encoded.
ClausesDone == IF pc = "clauses" THEN encoded ELSE Len(clauses)
OrdersDone  == IF pc \in {"order", "exported"} THEN encoded ELSE 0

CNFOfClause(k) == ClauseCNF(k - 1, clauses[k], Dom)
AxiomsOf(k)    == OrderAxioms(input.vars[k].v, input.vars[k])

CNFIsTheClauses ==
  pc \in {"clauses", "order", "exported"} =>
    /\ cnf = (UNION {CNFOfClause(k) : k \in 1 .. ClausesDone}) \cup (UNION {AxiomsOf(k) : k \in 1 .. OrdersDone})
    /\ \A k \in 1 .. ClausesDone : \A j \in DOMAIN clauses[k] : ~EncodingFails(clauses[k][j], Dom)

SInv == IInv /\ CNFIsTheClauses

\* Steps that add nothing.
LEMMA SameClauses ==
  ASSUME input' = input, clauses' = clauses
  PROVE  /\ Dom' = Dom
         /\ \A k : CNFOfClause(k)' = CNFOfClause(k) /\ AxiomsOf(k)' = AxiomsOf(k)
<1>1. Dom' = Dom
  BY SameInput
<1>2. \A k : CNFOfClause(k)' = CNFOfClause(k)
  BY <1>1 DEF CNFOfClause
<1>3. \A k : AxiomsOf(k)' = AxiomsOf(k)
  BY DEF AxiomsOf
<1> QED BY <1>1, <1>2, <1>3

LEMMA NextClauses ==
  ASSUME SInv, [Next]_vars
  PROVE  CNFIsTheClauses'
<1> DEFINE C(k) == CNFOfClause(k)
           A(k) == AxiomsOf(k)
<1>1. CASE UNCHANGED vars
  <2>1. /\ input' = input /\ clauses' = clauses /\ cnf' = cnf /\ pc' = pc /\ encoded' = encoded
        /\ ClausesDone' = ClausesDone /\ OrdersDone' = OrdersDone
    BY <1>1 DEF vars, ClausesDone, OrdersDone
  <2> QED BY <2>1, SameClauses DEF SInv, CNFIsTheClauses
<1>2. CASE ParseVariables \/ ParseArgument \/ ArgumentsParsed
  <2>1. pc' \in {"arguments", "inequations", "error"}
    BY <1>2 DEF ParseVariables, ParseArgument, ArgumentsParsed, Fail
  <2> QED BY <2>1 DEF CNFIsTheClauses
<1>3. CASE ParseInequations
  <2>1. pc' = "error" \/ (pc' = "clauses" /\ encoded' = 0 /\ cnf' = cnf)
    BY <1>3 DEF ParseInequations, Fail
  <2>2. cnf = {}
    BY <1>3 DEF SInv, IInv, Staged, ParseInequations
  <2>3. CASE pc' = "clauses" /\ encoded' = 0 /\ cnf' = cnf
    <3>1. ClausesDone' = 0 /\ OrdersDone' = 0
      BY <2>3 DEF ClausesDone, OrdersDone
    <3>2. ~\E k \in 1 .. 0 : TRUE
      OBVIOUS
    <3> QED BY <2>2, <2>3, <3>1, <3>2 DEF CNFIsTheClauses
  <2>4. CASE pc' = "error"
    BY <2>4 DEF CNFIsTheClauses
  <2> QED BY <2>1, <2>3, <2>4
<1>4. CASE ComputeClauseCNF
  <2> DEFINE n == encoded
             m == encoded + 1
  <2>1. CASE \E j \in DOMAIN clauses[m] : EncodingFails(clauses[m][j], Dom)
    <3>1. pc' = "error"
      BY <1>4, <2>1 DEF ComputeClauseCNF, Fail
    <3> QED BY <3>1 DEF CNFIsTheClauses
  <2>2. CASE ~\E j \in DOMAIN clauses[m] : EncodingFails(clauses[m][j], Dom)
    <3>1. /\ pc = "clauses" /\ pc' = "clauses" /\ encoded' = m /\ input' = input /\ clauses' = clauses
          /\ cnf' = cnf \cup ClauseCNF(n, clauses[m], Dom)
      BY <1>4, <2>2 DEF ComputeClauseCNF
    <3>2. n \in Nat /\ m - 1 = n
      BY DEF SInv, IInv, Typed
    <3>3. C(m) = ClauseCNF(n, clauses[m], Dom)
      BY <3>2 DEF CNFOfClause
    <3>4. ClausesDone = n /\ OrdersDone = 0 /\ ClausesDone' = m /\ OrdersDone' = 0
      BY <3>1 DEF ClausesDone, OrdersDone
    <3>5. /\ cnf = (UNION {C(k) : k \in 1 .. n}) \cup (UNION {A(k) : k \in 1 .. 0})
          /\ \A k \in 1 .. n : \A j \in DOMAIN clauses[k] : ~EncodingFails(clauses[k][j], Dom)
      BY <3>1, <3>4 DEF SInv, CNFIsTheClauses
    <3>6. \A k : k \in 1 .. m <=> k \in 1 .. n \/ k = m
      BY <3>2
    <3>7. /\ Dom' = Dom
          /\ \A k : CNFOfClause(k)' = C(k) /\ AxiomsOf(k)' = A(k)
      BY <3>1, SameClauses
    <3>8. (UNION {CNFOfClause(k)' : k \in 1 .. m}) = (UNION {C(k) : k \in 1 .. n}) \cup C(m)
      <4> HIDE DEF C, m
      <4> QED BY <3>6, <3>7
    <3>9. (UNION {AxiomsOf(k)' : k \in 1 .. 0}) = (UNION {A(k) : k \in 1 .. 0})
      <4> HIDE DEF A
      <4> QED BY <3>7
    <3>10. cnf' = (UNION {CNFOfClause(k)' : k \in 1 .. m}) \cup (UNION {AxiomsOf(k)' : k \in 1 .. 0})
      <4>1. cnf' = cnf \cup C(m)
        BY <3>1, <3>3
      <4> HIDE DEF C, A, m
      <4> QED BY <3>5, <3>8, <3>9, <4>1
    <3>11. \A k \in 1 .. m : \A j \in DOMAIN clauses'[k] : ~EncodingFails(clauses'[k][j], Dom')
      BY <2>2, <3>1, <3>5, <3>6, <3>7
    <3> QED BY <3>4, <3>10, <3>11 DEF CNFIsTheClauses
  <2> QED BY <2>1, <2>2
<1>5. CASE ClausesEncoded
  <2>1. /\ pc = "clauses" /\ encoded = Len(clauses) /\ pc' = "order" /\ encoded' = 0
        /\ input' = input /\ clauses' = clauses /\ cnf' = cnf
    BY <1>5 DEF ClausesEncoded
  <2>2. ClausesDone' = ClausesDone /\ OrdersDone' = OrdersDone
    BY <2>1 DEF ClausesDone, OrdersDone
  <2> QED BY <2>1, <2>2, SameClauses DEF SInv, CNFIsTheClauses
<1>6. CASE PredicateOrderRelations
  <2> DEFINE n == encoded
             m == encoded + 1
             d == Len(clauses)
  <2>1. /\ pc = "order" /\ pc' = "order" /\ encoded' = m /\ input' = input /\ clauses' = clauses
    BY <1>6 DEF PredicateOrderRelations
  <2>2. cnf' = cnf \cup A(m)
    <3>1. cnf' = cnf \cup PredicateBounds(input.vars[m].v, input.vars[m])
                     \cup PredicateOrderRelation(input.vars[m].v, input.vars[m])
      BY <1>6 DEF PredicateOrderRelations
    <3> QED BY <3>1 DEF AxiomsOf, OrderAxioms
  <2>3. n \in Nat
    BY DEF SInv, IInv, Typed
  <2>4. ClausesDone = d /\ OrdersDone = n /\ ClausesDone' = d /\ OrdersDone' = m
    BY <2>1 DEF ClausesDone, OrdersDone
  <2>5. /\ cnf = (UNION {C(k) : k \in 1 .. d}) \cup (UNION {A(k) : k \in 1 .. n})
        /\ \A k \in 1 .. d : \A j \in DOMAIN clauses[k] : ~EncodingFails(clauses[k][j], Dom)
    BY <2>1, <2>4 DEF SInv, CNFIsTheClauses
  <2>6. \A k : k \in 1 .. m <=> k \in 1 .. n \/ k = m
    BY <2>3
  <2>7. /\ Dom' = Dom
        /\ \A k : CNFOfClause(k)' = C(k) /\ AxiomsOf(k)' = A(k)
    BY <2>1, SameClauses
  <2>8. (UNION {AxiomsOf(k)' : k \in 1 .. m}) = (UNION {A(k) : k \in 1 .. n}) \cup A(m)
    <3> HIDE DEF A, m
    <3> QED BY <2>6, <2>7
  <2>9. (UNION {CNFOfClause(k)' : k \in 1 .. d}) = (UNION {C(k) : k \in 1 .. d})
    <3> HIDE DEF C, d
    <3> QED BY <2>7
  <2>10. cnf' = (UNION {CNFOfClause(k)' : k \in 1 .. d}) \cup (UNION {AxiomsOf(k)' : k \in 1 .. m})
    <3> HIDE DEF C, A, m, d
    <3> QED BY <2>2, <2>5, <2>8, <2>9
  <2>11. \A k \in 1 .. d : \A j \in DOMAIN clauses'[k] : ~EncodingFails(clauses'[k][j], Dom')
    BY <2>1, <2>5, <2>7
  <2> QED BY <2>4, <2>10, <2>11 DEF CNFIsTheClauses
<1>7. CASE ExportToDimacs
  <2>1. /\ pc = "order" /\ encoded' = encoded /\ input' = input /\ clauses' = clauses /\ cnf' = cnf
    BY <1>7 DEF ExportToDimacs
  <2>2. pc' = "exported"
    BY <1>7, ExportToDimacsStep DEF SInv
  <2>3. ClausesDone' = ClausesDone /\ OrdersDone' = OrdersDone
    BY <2>1, <2>2 DEF ClausesDone, OrdersDone
  <2> QED BY <2>1, <2>2, <2>3, SameClauses DEF SInv, CNFIsTheClauses
<1> QED BY <1>1, <1>2, <1>3, <1>4, <1>5, <1>6, <1>7 DEF Next

LEMMA SpecSInv == Spec => []SInv
<1>1. Init => SInv
  <2>1. Init => CNFIsTheClauses
    BY DEF Init, CNFIsTheClauses
  <2> QED BY <2>1, InitIInv DEF SInv
<1>2. SInv /\ [Next]_vars => SInv'
  BY NextIInv, NextClauses DEF SInv
<1> QED BY <1>1, <1>2, PTL DEF Spec

\* A truth assignment that satisfies the CNF tells a value of every declaration
\* of a variable, and one of the inequations of every clause holds of the
\* values: the constraints parsed, encoded by CSP::computeGlobalCNF and
\* CSP::predicateOrderRelations, are what the CNF of the SAT object says.
CNFMeansTheClauses ==
  pc = "exported" =>
    \A T : Satisfied(cnf, T) =>
      /\ \A i \in 1 .. Len(input.vars) : \E x \in input.vars[i].l .. input.vars[i].u :
            Tells(T, input.vars[i].v, input.vars[i], x)
      /\ \A val : (\A v \in Declared : val[v] \in Dom[v].l .. Dom[v].u /\ Tells(T, v, Dom[v], val[v])) =>
            \A k \in 1 .. Len(clauses) : \E j \in DOMAIN clauses[k] : InequationHolds(clauses[k][j], val)

LEMMA SInvMeans ==
  ASSUME SInv
  PROVE  CNFMeansTheClauses
<1> SUFFICES ASSUME pc = "exported", NEW T, Satisfied(cnf, T)
             PROVE  /\ \A i \in 1 .. Len(input.vars) : \E x \in input.vars[i].l .. input.vars[i].u :
                          Tells(T, input.vars[i].v, input.vars[i], x)
                    /\ \A val : (\A v \in Declared : val[v] \in Dom[v].l .. Dom[v].u
                                                     /\ Tells(T, v, Dom[v], val[v])) =>
                          \A k \in 1 .. Len(clauses) : \E j \in DOMAIN clauses[k] :
                             InequationHolds(clauses[k][j], val)
  BY DEF CNFMeansTheClauses
<1> DEFINE C(k) == CNFOfClause(k)
           A(k) == AxiomsOf(k)
           d == Len(clauses)
           n == Len(input.vars)
<1>1. /\ cnf = (UNION {C(k) : k \in 1 .. d}) \cup (UNION {A(k) : k \in 1 .. n})
      /\ \A k \in 1 .. d : \A j \in DOMAIN clauses[k] : ~EncodingFails(clauses[k][j], Dom)
  <2>1. ClausesDone = d /\ OrdersDone = n
    BY DEF SInv, IInv, Counted, ClausesDone, OrdersDone
  <2> QED BY <2>1 DEF SInv, CNFIsTheClauses
<1>2. (\A k \in 1 .. d : Satisfied(C(k), T)) /\ \A k \in 1 .. n : Satisfied(A(k), T)
  <2> HIDE DEF C, A, d, n
  <2> QED BY <1>1 DEF Satisfied
<1>3. ASSUME NEW i \in 1 .. n
      PROVE  \E x \in input.vars[i].l .. input.vars[i].u : Tells(T, input.vars[i].v, input.vars[i], x)
  <2>1. input.vars[i].l \in Int /\ input.vars[i].u \in Int /\ input.vars[i].l <= input.vars[i].u
    BY InputType DEF SInv, IInv, Typed, DomainsNotEmpty
  <2>2. Satisfied(OrderAxioms(input.vars[i].v, input.vars[i]), T)
    BY <1>2 DEF AxiomsOf
  <2> QED BY <2>1, <2>2, OrderAxiomsExact
<1>4. ASSUME NEW val, \A v \in Declared : val[v] \in Dom[v].l .. Dom[v].u /\ Tells(T, v, Dom[v], val[v]),
             NEW k \in 1 .. d
      PROVE  \E j \in DOMAIN clauses[k] : InequationHolds(clauses[k][j], val)
  <2>1. IsDomain(Dom, Declared)
    BY IsDomainDom DEF SInv, IInv
  <2>2. InDomain(val, Dom, Declared)
    BY <1>4, <2>1 DEF InDomain, IsDomain
  <2>3. clauses[k] \in Seq(InequationsOver(Declared))
    BY ElementOfSeq DEF SInv, IInv, Typed
  <2> DEFINE c == clauses[k]
  <2>4. \A j \in DOMAIN c : IsInequation(c[j], Declared) /\ ~EncodingFails(c[j], Dom)
    <3>1. \A j \in DOMAIN c : c[j] \in InequationsOver(Declared)
      BY <2>3, LenProperties, ElementOfSeq
    <3> QED BY <1>1, <3>1, IsInequationOver
  <2>5. Satisfied(ClauseCNF(k - 1, c, Dom), T)
    BY <1>2 DEF CNFOfClause
  <2>6. /\ \E j \in DOMAIN c : T[Q(k - 1, j - 1)]
        /\ \A j \in DOMAIN c : T[Q(k - 1, j - 1)] => InequationHolds(c[j], val)
    <3> HIDE DEF c
    <3> QED BY <1>4, <2>1, <2>2, <2>4, <2>5, ClauseExact
  <2> QED BY <2>6
<1> QED BY <1>3, <1>4

(* Every step keeps SInv, so whatever the command line is, the file the      *)
(* encoder exports says exactly what its clauses say: a solver's assignment  *)
(* that satisfies the file gives every declaration of a variable a value of  *)
(* its domain, and the integers that assignment stands for satisfy one       *)
(* inequality of every clause (Encoder.php encode, SATObject.php exportCNF). *)
THEOREM ClausesAreWhatTheFileSays == Spec => []CNFMeansTheClauses
<1>1. Spec => []SInv
  BY SpecSInv
<1>2. SInv => CNFMeansTheClauses
  BY SInvMeans
<1> QED BY <1>1, <1>2, PTL
=============================================================================
