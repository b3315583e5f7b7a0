--------------------------- MODULE MeaningProofs ---------------------------
(***************************************************************************)
(* What a command line means and what the exported file means agree: the   *)
(* rewriting of the comparisons typed into inequations, their distribution *)
(* into clauses, and the reading of a model; and what the whole script     *)
(* displays, from the command line to the solutions.                       *)
(***************************************************************************)
EXTENDS SatoScript, SatoEncoderProofs

-----------------------------------------------------------------------------
(* Sums.                                                                   *)

LEMMA SumConcat ==
  ASSUME NEW n \in Nat, NEW k \in Nat, NEW s \in [1 .. n -> Int], NEW t \in [1 .. k -> Int],
         NEW w \in [1 .. n + k -> Int],
         \A i \in 1 .. n : w[i] = s[i], \A j \in 1 .. k : w[n + j] = t[j]
  PROVE  SumOf(s) \in Int /\ SumOf(t) \in Int /\ SumOf(w) = SumOf(s) + SumOf(t)
<1>1. PICK p \in [0 .. n -> Int] :
        p[0] = 0 /\ (\A i \in 1 .. n : p[i] = p[i - 1] + s[i]) /\ SumOf(s) = p[n]
  BY PartialSums
<1>2. PICK q \in [0 .. k -> Int] :
        q[0] = 0 /\ (\A i \in 1 .. k : q[i] = q[i - 1] + t[i]) /\ SumOf(t) = q[k]
  BY PartialSums
<1> DEFINE m == n + k
           r == [i \in 0 .. m |-> IF i <= n THEN p[i] ELSE p[n] + q[i - n]]
<1>3. m \in Nat /\ w \in [1 .. m -> Int] /\ n \in 0 .. n /\ 0 \in 0 .. n /\ 0 \in 0 .. k /\ k \in 0 .. k
  OBVIOUS
<1>4. (\A i \in 0 .. n : p[i] \in Int) /\ \A i \in 0 .. k : q[i] \in Int
  OBVIOUS
<1>5. \A i \in 0 .. m : IF i <= n THEN i \in 0 .. n ELSE i - n \in 0 .. k
  OBVIOUS
<1>6. \A i \in 0 .. m : (IF i <= n THEN p[i] ELSE p[n] + q[i - n]) \in Int
  <2> TAKE i \in 0 .. m
  <2> HIDE DEF m
  <2>1. CASE i <= n
    BY <1>4, <1>5, <2>1
  <2>2. CASE ~(i <= n)
    <3>1. q[i - n] \in Int /\ p[n] \in Int
      BY <1>3, <1>4, <1>5, <2>2
    <3> QED BY <2>2, <3>1
  <2> QED BY <2>1, <2>2
<1>7. r \in [0 .. m -> Int] /\ \A i \in 0 .. m : r[i] = IF i <= n THEN p[i] ELSE p[n] + q[i - n]
  <2> HIDE DEF m
  <2> QED BY <1>6
<1> HIDE DEF r
<1>8. ASSUME NEW i \in n .. m PROVE r[i] = p[n] + q[i - n] /\ i - n \in 0 .. k
  <2>1. i \in 0 .. m /\ i - n \in 0 .. k
    OBVIOUS
  <2>2. CASE i = n
    <3>1. r[i] = p[n] /\ i - n = 0 /\ p[n] \in Int /\ q[0] = 0
      BY <1>2, <1>3, <1>4, <1>7, <2>1, <2>2
    <3> QED BY <2>1, <3>1
  <2>3. CASE i # n
    BY <1>7, <2>1, <2>3
  <2> QED BY <2>2, <2>3
<1>9. ASSUME NEW i \in 1 .. m PROVE r[i] - r[i - 1] = w[i]
  <2>1. CASE i <= n
    <3>1. i \in 0 .. m /\ i - 1 \in 0 .. m /\ i \in 1 .. n /\ i - 1 \in 0 .. n /\ i - 1 <= n
      BY <2>1
    <3>2. r[i] = p[i] /\ r[i - 1] = p[i - 1] /\ p[i - 1] \in Int /\ w[i] = s[i] /\ s[i] \in Int
      BY <1>4, <1>7, <2>1, <3>1
    <3>3. p[i] = p[i - 1] + s[i]
      BY <1>1, <3>1
    <3> QED BY <3>2, <3>3
  <2>2. CASE ~(i <= n)
    <3> DEFINE j == i - n
    <3>1. i \in n .. m /\ i - 1 \in n .. m /\ j \in 1 .. k /\ i = n + j /\ (i - 1) - n = j - 1
      BY <2>2
    <3>2. r[i] = p[n] + q[j] /\ r[i - 1] = p[n] + q[j - 1]
      BY <1>8, <3>1
    <3> HIDE DEF j
    <3>3. q[j] = q[j - 1] + t[j] /\ w[i] = t[j] /\ t[j] \in Int /\ j - 1 \in 0 .. k
      BY <1>2, <3>1
    <3>4. q[j - 1] \in Int /\ p[n] \in Int
      BY <1>3, <1>4, <3>3
    <3> QED BY ONLY SMTT(30), <3>2, <3>3, <3>4
  <2> QED BY <2>1, <2>2
<1>10. r[0] = 0
  <2>1. 0 \in 0 .. m /\ 0 <= n
    OBVIOUS
  <2> QED BY <1>1, <1>7, <2>1
<1>11. SumOf(w) = r[m]
  <2> HIDE DEF m
  <2> QED BY <1>3, <1>7, <1>9, <1>10, SumIs
<1>12. m \in n .. m /\ m - n = k
  OBVIOUS
<1>13. r[m] = p[n] + q[k]
  BY <1>8, <1>12
<1> QED BY <1>1, <1>2, <1>3, <1>4, <1>11, <1>13

LEMMA SumNegated ==
  ASSUME NEW n \in Nat, NEW s \in [1 .. n -> Int], NEW t \in [1 .. n -> Int],
         \A i \in 1 .. n : t[i] = -s[i]
  PROVE  SumOf(s) \in Int /\ SumOf(t) = -SumOf(s)
<1> DEFINE w == [i \in 1 .. n |-> s[i] + t[i]]
<1>1. w \in [1 .. n -> Int] /\ \A i \in 1 .. n : w[i] = 0
  <2>1. \A i \in 1 .. n : s[i] \in Int /\ s[i] + t[i] = 0
    OBVIOUS
  <2> QED BY <2>1
<1>2. SumOf(s) \in Int /\ SumOf(t) \in Int /\ SumOf(w) = SumOf(s) + SumOf(t)
  BY SumAdd
<1> HIDE DEF w
<1>3. SumOf(w) = 0
  BY <1>1, SumOfZeros
<1> DEFINE a == SumOf(s)
           b == SumOf(t)
<1>4. a \in Int /\ b \in Int /\ a + b = 0
  BY <1>2, <1>3
<1> HIDE DEF a, b
<1>5. b = -a
  BY <1>4
<1> QED BY <1>4, <1>5 DEF a, b

-----------------------------------------------------------------------------
(* Inequation::normalizeExpression adds the tokens of a variable up.       *)

LEMMA ValueOfTerms ==
  ASSUME NEW e \in Seq(Tokens), NEW D, NoName \notin D, NEW val, \A v \in D : val[v] \in Int,
         \A i \in DOMAIN e : e[i].v # NoName => e[i].v \in D
  PROVE  LET consts == SumOf([i \in DOMAIN e |-> IF e[i].v = NoName THEN e[i].a ELSE 0])
             ts == LinearTerms(e)
             values == [k \in DOMAIN ts |-> ts[k].a * val[ts[k].v]]
         IN  consts \in Int /\ SumOf(values) \in Int /\ Value(e, val) = consts + SumOf(values)
<1> DEFINE n == Len(e)
           coeff(v) == SumOf([i \in DOMAIN e |-> IF e[i].v = v THEN e[i].a ELSE 0])
           f == [i \in DOMAIN e |-> [v |-> e[i].v, a |-> coeff(e[i].v)]]
           I == {i \in DOMAIN e : e[i].v # NoName /\ FirstUse(e, i)}
           X == [v : D \cup {NoName}, a : Int]
           g == [r \in X |-> IF r.v = NoName THEN 0 ELSE r.a * val[r.v]]
           ts == LinearTerms(e)
           x == [i \in 1 .. n |-> IF e[i].v = NoName THEN 0 ELSE val[e[i].v]]
           cs == [i \in 1 .. n |-> IF e[i].v = NoName THEN e[i].a ELSE 0]
           ys == [i \in 1 .. n |-> IF e[i].v = NoName THEN 0 ELSE e[i].a * val[e[i].v]]
           m == [i \in 1 .. n |-> [j \in 1 .. n |->
                   IF i \in I /\ e[j].v = e[i].v THEN e[j].a * x[i] ELSE 0]]
           row(i) == [j \in 1 .. n |-> m[i][j]]
           col(j) == [i \in 1 .. n |-> m[i][j]]
<1>1. n \in Nat /\ DOMAIN e = 1 .. n /\ \A i \in 1 .. n : e[i].v \in Names /\ e[i].a \in Int
  BY TokenItems
<1>2. \A i \in 1 .. n : e[i].v # NoName => val[e[i].v] \in Int
  BY <1>1
<1>3. x \in [1 .. n -> Int] /\ \A i \in 1 .. n : x[i] = IF e[i].v = NoName THEN 0 ELSE val[e[i].v]
  BY <1>2
<1>4. \A a \in Int, b \in Int : a * b \in Int
  BY ProductInt
<1>5. cs \in [1 .. n -> Int] /\ \A i \in 1 .. n : cs[i] = IF e[i].v = NoName THEN e[i].a ELSE 0
  <2> HIDE DEF n
  <2> QED BY <1>1
<1>6. ys \in [1 .. n -> Int] /\ \A i \in 1 .. n : ys[i] = IF e[i].v = NoName THEN 0 ELSE e[i].a * val[e[i].v]
  <2>1. \A i \in 1 .. n : (IF e[i].v = NoName THEN 0 ELSE e[i].a * val[e[i].v]) \in Int
    <3> HIDE DEF n
    <3> QED BY <1>1, <1>2, <1>4
  <2> HIDE DEF n
  <2> QED BY <2>1
<1>7. \A i \in 1 .. n : \A j \in 1 .. n :
         m[i][j] = (IF i \in I /\ e[j].v = e[i].v THEN e[j].a * x[i] ELSE 0) /\ m[i][j] \in Int
  <2>1. \A i \in 1 .. n : \A j \in 1 .. n : e[j].a * x[i] \in Int
    <3> HIDE DEF n, x
    <3> QED BY <1>1, <1>3, <1>4
  <2> HIDE DEF n, x, I
  <2> QED BY <2>1
<1> HIDE DEF m
<1>8. \A v : [i \in DOMAIN e |-> IF e[i].v = v THEN e[i].a ELSE 0] \in [1 .. n -> Int]
  <2> HIDE DEF n
  <2> QED BY <1>1
<1>9. \A v : coeff(v) \in Int
  <2> HIDE DEF n
  <2> QED BY <1>1, <1>8, SumIsInt
<1>10. f \in [1 .. n -> X] /\ \A i \in 1 .. n : f[i] = [v |-> e[i].v, a |-> coeff(e[i].v)]
  <2> HIDE DEF n, coeff
  <2> QED BY <1>1, <1>9
<1>11. f \in Seq(X) /\ Len(f) = n
  <2> HIDE DEF n, f, X
  <2> QED BY <1>1, <1>10, SeqOfFunction
<1>12. g \in [X -> Int]
  <2>1. \A r \in X : (IF r.v = NoName THEN 0 ELSE r.a * val[r.v]) \in Int
    <3> TAKE r \in X
    <3>1. r.v \in D \cup {NoName} /\ r.a \in Int
      OBVIOUS
    <3> HIDE DEF X
    <3> QED BY <1>4, <3>1
  <2> HIDE DEF X
  <2> QED BY <2>1
<1>13. ts = Selected(f, I)
  BY DEF LinearTerms
<1>14. ts \in Seq([v : D, a : Int])
  BY LinearTermsType
<1>15. \A r \in X : g[r] = IF r.v = NoName THEN 0 ELSE r.a * val[r.v]
  <2> HIDE DEF X
  <2> QED OBVIOUS
<1> HIDE DEF g, f, I, coeff, ts, x, cs, ys, n
<1>16. Len(ts) \in Nat /\ DOMAIN ts = 1 .. Len(ts) /\ \A k \in 1 .. Len(ts) : ts[k] \in [v : D, a : Int]
  BY <1>14, LenProperties, ElementOfSeq
<1>17. [k \in 1 .. Len(ts) |-> g[ts[k]]] = [k \in DOMAIN ts |-> ts[k].a * val[ts[k].v]]
  <2>1. ASSUME NEW k \in 1 .. Len(ts) PROVE g[ts[k]] = ts[k].a * val[ts[k].v]
    <3>1. ts[k].v \in D /\ ts[k] \in X
      BY <1>16
    <3> HIDE DEF X
    <3> QED BY <1>15, <3>1
  <2> QED BY <1>16, <2>1
<1>18. SumOf([k \in 1 .. Len(ts) |-> g[ts[k]]]) = SumOf([i \in 1 .. n |-> IF i \in I THEN g[f[i]] ELSE 0])
  <2> DEFINE u == [k \in 1 .. Len(ts) |-> g[ts[k]]]
             w == [i \in 1 .. n |-> IF i \in I THEN g[f[i]] ELSE 0]
  <2>1. u \in [1 .. Len(ts) -> Int] /\ \A k \in 1 .. Len(ts) : u[k] = g[ts[k]]
    <3>1. \A k \in 1 .. Len(ts) : g[ts[k]] \in Int
      <4>1. ASSUME NEW k \in 1 .. Len(ts) PROVE ts[k] \in X
        BY <1>16
      <4> HIDE DEF X
      <4> QED BY <4>1, <1>12
    <3> HIDE DEF X
    <3> QED BY <3>1
  <2>2. w \in [1 .. n -> Int] /\ \A i \in 1 .. n : w[i] = IF i \in I THEN g[f[i]] ELSE 0
    <3>1. \A i \in 1 .. n : g[f[i]] \in Int
      <4> HIDE DEF X
      <4> QED BY <1>10, <1>12
    <3> HIDE DEF X
    <3> QED BY <3>1
  <2>3. SumOf(u) = SumOf(w)
    <3> HIDE DEF X, u, w
    <3>1. w \in [1 .. Len(f) -> Int] /\ \A i \in 1 .. Len(f) : w[i] = IF i \in I THEN g[f[i]] ELSE 0
      BY ONLY <2>2, <1>11
    <3> QED BY ONLY SMTT(30), <1>11, <1>12, <1>13, <2>1, <3>1, SumOfSelected
  <2> QED BY <2>3
<1>19. \A i \in 1 .. n : e[i].v # NoName => x[i] = val[e[i].v] /\ x[i] \in Int
  BY <1>2, <1>3
<1>20. ASSUME NEW i \in 1 .. n PROVE SumOf(row(i)) = IF i \in I THEN g[f[i]] ELSE 0
  <2>1. row(i) \in [1 .. n -> Int] /\ \A j \in 1 .. n : row(i)[j] = m[i][j]
    BY <1>7
  <2> HIDE DEF row
  <2>2. CASE i \in I
    <3> DEFINE v == e[i].v
               own == [j \in 1 .. n |-> IF e[j].v = v THEN e[j].a ELSE 0]
               xi == x[i]
    <3>1. own \in [1 .. n -> Int] /\ \A j \in 1 .. n : own[j] = IF e[j].v = v THEN e[j].a ELSE 0
      BY <1>1
    <3>2. v # NoName /\ xi = val[v] /\ xi \in Int
      BY <1>19, <2>2 DEF I
    <3>3. SumOf(own) = coeff(v)
      BY <1>1 DEF coeff
    <3>4. g[f[i]] = coeff(v) * xi
      <4>1. f[i] \in X /\ f[i].v = v /\ f[i].a = coeff(v)
        BY <1>10
      <4> HIDE DEF X, v, xi
      <4> QED BY <1>15, <3>2, <4>1
    <3> HIDE DEF own, xi
    <3>5. row(i) = [j \in 1 .. n |-> own[j] * xi]
      <4>1. \A j \in 1 .. n : row(i)[j] = own[j] * xi
        <5> TAKE j \in 1 .. n
        <5>1. row(i)[j] = IF e[j].v = v THEN e[j].a * xi ELSE 0
          BY <1>7, <2>1, <2>2 DEF xi
        <5>2. 0 * xi = 0
          BY <3>2, Z3
        <5> HIDE DEF v
        <5> QED BY <3>1, <5>1, <5>2
      <4> QED BY <2>1, <4>1
    <3> HIDE DEF v
    <3>6. SumOf(row(i)) = SumOf(own) * xi
      <4>1. n \in Nat /\ own \in [1 .. n -> Int] /\ xi \in Int
        BY <1>1, <3>1, <3>2
      <4>2. SumOf([j \in 1 .. n |-> own[j] * xi]) = SumOf(own) * xi
        BY <4>1, SumScale, Zenon
      <4> QED BY <3>5, <4>2, Zenon
    <3> QED BY <2>2, <3>3, <3>4, <3>6
  <2>3. CASE i \notin I
    <3>1. \A j \in 1 .. n : row(i)[j] = 0
      BY <1>7, <2>1, <2>3
    <3> QED BY <1>1, <2>1, <2>3, <3>1, SumOfZeros
  <2> QED BY <2>2, <2>3
<1>21. ASSUME NEW j \in 1 .. n PROVE SumOf(col(j)) = ys[j]
  <2>1. col(j) \in [1 .. n -> Int] /\ \A i \in 1 .. n : col(j)[i] = m[i][j]
    BY <1>7
  <2> HIDE DEF col
  <2>2. CASE e[j].v = NoName
    <3>1. \A i \in 1 .. n : col(j)[i] = 0
      BY <1>7, <2>1, <2>2 DEF I
    <3>2. ys[j] = 0
      BY <1>6, <2>2
    <3> QED BY <1>1, <2>1, <3>1, <3>2, SumOfZeros
  <2>3. CASE e[j].v # NoName
    <3> DEFINE same == {i \in 1 .. n : e[i].v = e[j].v}
               y == e[j].a * val[e[j].v]
    <3>1. \E k \in same : \A i \in same : k <= i
      <4>1. same \subseteq Nat /\ same # {}
        OBVIOUS
      <4> HIDE DEF same
      <4> QED BY <4>1, LeastElement
    <3>2. PICK k \in same : \A i \in same : k <= i
      BY <3>1
    <3>3. k \in 1 .. n /\ e[k].v = e[j].v /\ k \in I
      <4>1. \A i \in 1 .. k - 1 : i \in 1 .. n /\ ~(k <= i)
        BY <1>1
      <4>2. FirstUse(e, k)
        BY <3>2, <4>1 DEF FirstUse
      <4> QED BY <1>1, <2>3, <4>2 DEF I
    <3>4. ASSUME NEW i \in 1 .. n, i \in I, e[i].v = e[j].v PROVE i = k
      <4>1. k <= i /\ ~(k < i)
        <5>1. \A h \in 1 .. i - 1 : e[h].v # e[i].v
          BY <3>4 DEF I, FirstUse
        <5>2. k < i => k \in 1 .. i - 1
          BY <3>3
        <5> QED BY <3>2, <3>3, <3>4, <5>1, <5>2
      <4> QED BY <3>3, <4>1
    <3>5. y \in Int /\ y = ys[j]
      BY <1>6, <2>3
    <3>6. \A i \in 1 .. n : col(j)[i] = IF i = k THEN y ELSE 0
      <4> TAKE i \in 1 .. n
      <4>1. CASE i = k
        <5>1. col(j)[i] = e[j].a * x[k]
          BY <1>7, <2>1, <3>3, <4>1
        <5>2. x[k] = val[e[j].v]
          BY <1>19, <2>3, <3>3
        <5> QED BY <4>1, <5>1, <5>2
      <4>2. CASE i # k
        BY <1>7, <2>1, <3>4, <4>2
      <4> QED BY <4>1, <4>2
    <3> HIDE DEF y, same
    <3> QED BY ZenonT(40), <1>1, <2>1, <3>3, <3>5, <3>6, SumSingle
  <2> QED BY <2>2, <2>3
<1>22. SumOf([i \in 1 .. n |-> SumOf([j \in 1 .. n |-> m[i][j]])])
         = SumOf([j \in 1 .. n |-> SumOf([i \in 1 .. n |-> m[i][j]])])
  <2>1. n \in Nat /\ \A i \in 1 .. n : \A j \in 1 .. n : m[i][j] \in Int
    BY <1>1, <1>7
  <2> QED BY <2>1, SumSwap, ZenonT(40)
<1>23. [i \in 1 .. n |-> SumOf(row(i))] = [i \in 1 .. n |-> IF i \in I THEN g[f[i]] ELSE 0]
  <2> HIDE DEF row
  <2> QED BY <1>20
<1>24. [j \in 1 .. n |-> SumOf(col(j))] = ys
  <2> HIDE DEF col
  <2> QED BY <1>6, <1>21
<1>25. SumOf([i \in 1 .. n |-> IF i \in I THEN g[f[i]] ELSE 0]) = SumOf(ys)
  BY <1>22, <1>23, <1>24
<1>26. Value(e, val) = SumOf([i \in 1 .. n |-> cs[i] + ys[i]])
  <2>1. ASSUME NEW i \in 1 .. n
        PROVE  (IF e[i].v = NoName THEN e[i].a ELSE e[i].a * val[e[i].v]) = cs[i] + ys[i]
    <3>1. CASE e[i].v = NoName
      <4>1. cs[i] = e[i].a /\ ys[i] = 0 /\ cs[i] \in Int
        BY <1>5, <1>6, <3>1
      <4> QED BY <3>1, <4>1
    <3>2. CASE e[i].v # NoName
      <4>1. cs[i] = 0 /\ ys[i] = e[i].a * val[e[i].v] /\ ys[i] \in Int
        BY <1>5, <1>6, <3>2
      <4> QED BY <3>2, <4>1
    <3> QED BY <3>1, <3>2
  <2>2. [i \in DOMAIN e |-> IF e[i].v = NoName THEN e[i].a ELSE e[i].a * val[e[i].v]]
          = [i \in 1 .. n |-> cs[i] + ys[i]]
    BY <1>1, <2>1
  <2> QED BY <2>2 DEF Value
<1>27. SumOf(cs) \in Int /\ SumOf(ys) \in Int /\ Value(e, val) = SumOf(cs) + SumOf(ys)
  BY <1>1, <1>5, <1>6, <1>26, SumAdd
<1>28. SumOf(cs) = SumOf([i \in DOMAIN e |-> IF e[i].v = NoName THEN e[i].a ELSE 0])
  BY <1>1 DEF cs
<1>29. SumOf([k \in DOMAIN ts |-> ts[k].a * val[ts[k].v]]) = SumOf(ys)
  BY <1>17, <1>18, <1>25
<1> QED BY <1>27, <1>28, <1>29 DEF ts

-----------------------------------------------------------------------------
(* Inequation::parseExpression keeps the meaning of a normal literal.      *)

\* The operators normalisation leaves.
Inequalities == {"<=", ">=", "<", ">"}

NormalHolds(l, val) == Holds(l.op, Value(l.e, val), l.k) # l.neg

\* Every name of an expression is declared, with a coefficient.
Readable(e, D) == \A i \in DOMAIN e : e[i].v # NoName => e[i].v \in D /\ e[i].a # 0

LEMMA Differ ==
  ASSUME NEW a \in BOOLEAN, NEW b \in BOOLEAN
  PROVE  /\ (a # b) <=> (a <=> (b = FALSE))
         /\ (a # b) <=> (~a <=> (b = TRUE))
OBVIOUS

LEMMA SignsAgree ==
  ASSUME NEW op \in Inequalities, NEW neg \in BOOLEAN,
         NEW K \in Int, NEW sum \in Int, NEW k \in Int
  PROVE  (Holds(op, K + sum, k) # neg)
           <=> ((sum <= k - K - (IF AddsOne(op) THEN 1 ELSE 0)) <=> (neg = NegatesSign(op)))
<1> DEFINE x == K + sum
           one == IF AddsOne(op) THEN 1 ELSE 0
           c == k - K - one
<1>1. CASE op = "<="
  <2>1. Holds(op, x, k) = (x <= k)
    BY <1>1 DEF Holds
  <2>2. ~AddsOne(op) /\ NegatesSign(op) = FALSE
    BY <1>1 DEF AddsOne, NegatesSign
  <2>3. one = 0
    BY <2>2
  <2> HIDE DEF one
  <2>4. (x <= k) <=> sum <= c
    BY <2>3 DEF x, c
  <2> DEFINE h == x <= k
             r == sum <= c
  <2>5. h \in BOOLEAN /\ Holds(op, x, k) = h /\ (h <=> r)
    BY <2>1, <2>4
  <2> HIDE DEF h, r, x
  <2>6. (h # neg) <=> (h <=> (neg = FALSE))
    BY <2>5, Differ
  <2>7. (Holds(op, x, k) # neg) <=> (r <=> (neg = NegatesSign(op)))
    BY <2>2, <2>5, <2>6
  <2> QED BY <2>7 DEF x, r, c, one
<1>2. CASE op = ">="
  <2>1. Holds(op, x, k) = (x >= k)
    BY <1>2 DEF Holds
  <2>2. AddsOne(op) /\ NegatesSign(op) = TRUE
    BY <1>2 DEF AddsOne, NegatesSign
  <2>3. one = 1
    BY <2>2
  <2> HIDE DEF one
  <2>4. (x >= k) <=> ~(sum <= c)
    BY <2>3 DEF x, c
  <2> DEFINE h == x >= k
             r == sum <= c
  <2>5. h \in BOOLEAN /\ Holds(op, x, k) = h /\ (h <=> ~r)
    BY <2>1, <2>4
  <2> HIDE DEF h, r, x
  <2>6. (h # neg) <=> (~h <=> (neg = TRUE))
    BY <2>5, Differ
  <2>7. (Holds(op, x, k) # neg) <=> (r <=> (neg = NegatesSign(op)))
    BY <2>2, <2>5, <2>6
  <2> QED BY <2>7 DEF x, r, c, one
<1>3. CASE op = "<"
  <2>1. Holds(op, x, k) = (x < k)
    BY <1>3 DEF Holds
  <2>2. AddsOne(op) /\ NegatesSign(op) = FALSE
    BY <1>3 DEF AddsOne, NegatesSign
  <2>3. one = 1
    BY <2>2
  <2> HIDE DEF one
  <2>4. (x < k) <=> sum <= c
    BY <2>3 DEF x, c
  <2> DEFINE h == x < k
             r == sum <= c
  <2>5. h \in BOOLEAN /\ Holds(op, x, k) = h /\ (h <=> r)
    BY <2>1, <2>4
  <2> HIDE DEF h, r, x
  <2>6. (h # neg) <=> (h <=> (neg = FALSE))
    BY <2>5, Differ
  <2>7. (Holds(op, x, k) # neg) <=> (r <=> (neg = NegatesSign(op)))
    BY <2>2, <2>5, <2>6
  <2> QED BY <2>7 DEF x, r, c, one
<1>4. CASE op = ">"
  <2>1. Holds(op, x, k) = (x > k)
    BY <1>4 DEF Holds
  <2>2. ~AddsOne(op) /\ NegatesSign(op) = TRUE
    BY <1>4 DEF AddsOne, NegatesSign
  <2>3. one = 0
    BY <2>2
  <2> HIDE DEF one
  <2>4. (x > k) <=> ~(sum <= c)
    BY <2>3 DEF x, c
  <2> DEFINE h == x > k
             r == sum <= c
  <2>5. h \in BOOLEAN /\ Holds(op, x, k) = h /\ (h <=> ~r)
    BY <2>1, <2>4
  <2> HIDE DEF h, r, x
  <2>6. (h # neg) <=> (~h <=> (neg = TRUE))
    BY <2>5, Differ
  <2>7. (Holds(op, x, k) # neg) <=> (r <=> (neg = NegatesSign(op)))
    BY <2>2, <2>5, <2>6
  <2> QED BY <2>7 DEF x, r, c, one
<1> QED BY <1>1, <1>2, <1>3, <1>4 DEF Inequalities

LEMMA ParseMeans ==
  ASSUME NEW l \in NormalLiteral, l.op \in Inequalities,
         NEW D, NoName \notin D, NEW val, \A v \in D : val[v] \in Int, Readable(l.e, D)
  PROVE  NormalHolds(l, val) <=> InequationHolds(ParseInequation(l), val)
<1> DEFINE e == l.e
           K == SumOf([i \in DOMAIN e |-> IF e[i].v = NoName THEN e[i].a ELSE 0])
           ts == LinearTerms(e)
           values == [k \in DOMAIN ts |-> ts[k].a * val[ts[k].v]]
           sum == SumOf(values)
           ineq == ParseInequation(l)
<1>1. e \in Seq(Tokens) /\ l.k \in Int /\ l.neg \in BOOLEAN
  BY DEF NormalLiteral
<1>2. \A i \in DOMAIN e : e[i].v # NoName => e[i].v \in D
  BY DEF Readable
<1>3. K \in Int /\ sum \in Int /\ Value(e, val) = K + sum
  <2> HIDE DEF e
  <2> QED BY <1>1, <1>2, ValueOfTerms
<1>4. ineq.terms = ts /\ ineq.c = l.k - K - (IF AddsOne(l.op) THEN 1 ELSE 0)
      /\ ineq.sign = (l.neg = NegatesSign(l.op))
  BY DEF ParseInequation
<1>5. Values(ineq, val) = values
  <2> HIDE DEF ts, ineq
  <2> QED BY <1>4 DEF Values
<1> HIDE DEF K, sum, ineq, values, ts
<1>6. InequationHolds(ineq, val)
        <=> ((sum <= l.k - K - (IF AddsOne(l.op) THEN 1 ELSE 0)) <=> (l.neg = NegatesSign(l.op)))
  BY <1>4, <1>5 DEF InequationHolds, sum
<1>7. NormalHolds(l, val) <=> (Holds(l.op, K + sum, l.k) # l.neg)
  BY <1>3 DEF NormalHolds
<1> QED BY <1>1, <1>3, <1>6, <1>7, SignsAgree DEF ineq

-----------------------------------------------------------------------------
(* CSP::normalizeExpression moves everything to the left-hand side.        *)


\* What the tokens of an expression add to its value.
Weights(e, val) == [i \in DOMAIN e |-> IF e[i].v = NoName THEN e[i].a ELSE e[i].a * val[e[i].v]]

\* The valuation has an integer for every name of the expression.
Known(e, val) == \A i \in DOMAIN e : e[i].v # NoName => val[e[i].v] \in Int

LEMMA ValueIsInt ==
  ASSUME NEW e \in Seq(Tokens), NEW val, Known(e, val)
  PROVE  /\ Weights(e, val) \in [1 .. Len(e) -> Int]
         /\ Value(e, val) = SumOf(Weights(e, val)) /\ Value(e, val) \in Int
         /\ \A i \in 1 .. Len(e) :
               Weights(e, val)[i] = IF e[i].v = NoName THEN e[i].a ELSE e[i].a * val[e[i].v]
<1>1. Len(e) \in Nat /\ DOMAIN e = 1 .. Len(e) /\ \A i \in 1 .. Len(e) : e[i].v \in Names /\ e[i].a \in Int
  BY TokenItems
<1>2. \A a \in Int, b \in Int : a * b \in Int
  BY ProductInt
<1>3. \A i \in 1 .. Len(e) : (IF e[i].v = NoName THEN e[i].a ELSE e[i].a * val[e[i].v]) \in Int
  BY <1>1, <1>2 DEF Known
<1> DEFINE w == Weights(e, val)
<1>4. w \in [1 .. Len(e) -> Int]
      /\ \A i \in 1 .. Len(e) : w[i] = IF e[i].v = NoName THEN e[i].a ELSE e[i].a * val[e[i].v]
  BY <1>1, <1>3 DEF Weights
<1>5. Value(e, val) = SumOf(w)
  BY DEF Value, Weights
<1> HIDE DEF w
<1>6. SumOf(w) \in Int
  BY <1>1, <1>4, SumIsInt
<1> QED BY <1>4, <1>5, <1>6 DEF w

LEMMA ConcatItems ==
  ASSUME NEW S, NEW a \in Seq(S), NEW b \in Seq(S)
  PROVE  /\ a \o b \in Seq(S) /\ Len(a) \in Nat /\ Len(b) \in Nat /\ Len(a \o b) = Len(a) + Len(b)
         /\ DOMAIN a = 1 .. Len(a) /\ DOMAIN b = 1 .. Len(b) /\ DOMAIN (a \o b) = 1 .. (Len(a) + Len(b))
         /\ \A i \in 1 .. Len(a) : i \in 1 .. (Len(a) + Len(b)) /\ (a \o b)[i] = a[i]
         /\ \A j \in 1 .. Len(b) : Len(a) + j \in 1 .. (Len(a) + Len(b)) /\ (a \o b)[Len(a) + j] = b[j]
         /\ \A i \in 1 .. (Len(a) + Len(b)) :
               i \in 1 .. Len(a) \/ (i - Len(a) \in 1 .. Len(b) /\ i = Len(a) + (i - Len(a)))
<1> DEFINE n == Len(a)
           k == Len(b)
           e == a \o b
<1>1. n \in Nat /\ k \in Nat /\ DOMAIN a = 1 .. n /\ DOMAIN b = 1 .. k
  BY LenProperties
<1>2. e \in Seq(S) /\ Len(e) = n + k /\ \A i \in 1 .. n + k : e[i] = IF i <= n THEN a[i] ELSE b[i - n]
  BY ConcatProperties
<1>3. Len(e) \in Nat /\ DOMAIN e = 1 .. Len(e)
  BY <1>2, LenProperties
<1> HIDE DEF n, k, e
<1>4. \A i \in 1 .. n : i \in 1 .. n + k /\ i <= n
  BY <1>1
<1>5. \A j \in 1 .. k : n + j \in 1 .. n + k /\ ~(n + j <= n) /\ (n + j) - n = j
  BY <1>1
<1>6. \A i \in 1 .. n + k : i \in 1 .. n \/ (i - n \in 1 .. k /\ i = n + (i - n))
  BY <1>1
<1>7. \A j \in 1 .. k : e[n + j] = b[j]
  BY <1>2, <1>5
<1>8. \A i \in 1 .. n : e[i] = a[i]
  BY <1>2, <1>4
<1>9. DOMAIN e = 1 .. n + k
  BY <1>2, <1>3
<1> QED BY <1>1, <1>2, <1>4, <1>5, <1>6, <1>7, <1>8, <1>9 DEF n, k, e

LEMMA ValueConcat ==
  ASSUME NEW a \in Seq(Tokens), NEW b \in Seq(Tokens), NEW val, Known(a, val), Known(b, val)
  PROVE  Known(a \o b, val) /\ Value(a \o b, val) = Value(a, val) + Value(b, val)
<1> DEFINE e == a \o b
           n == Len(a)
           k == Len(b)
           wa == Weights(a, val)
           wb == Weights(b, val)
           we == Weights(e, val)
<1>1. /\ e \in Seq(Tokens) /\ n \in Nat /\ k \in Nat /\ Len(e) = n + k
      /\ DOMAIN a = 1 .. n /\ DOMAIN b = 1 .. k /\ DOMAIN e = 1 .. (n + k)
      /\ \A i \in 1 .. n : i \in 1 .. (n + k) /\ e[i] = a[i]
      /\ \A j \in 1 .. k : n + j \in 1 .. (n + k) /\ e[n + j] = b[j]
      /\ \A i \in 1 .. (n + k) : i \in 1 .. n \/ (i - n \in 1 .. k /\ i = n + (i - n))
  BY ConcatItems
<1>2. wa \in [1 .. n -> Int] /\ Value(a, val) = SumOf(wa)
      /\ \A i \in 1 .. n : wa[i] = IF a[i].v = NoName THEN a[i].a ELSE a[i].a * val[a[i].v]
  BY ValueIsInt
<1>3. wb \in [1 .. k -> Int] /\ Value(b, val) = SumOf(wb)
      /\ \A i \in 1 .. k : wb[i] = IF b[i].v = NoName THEN b[i].a ELSE b[i].a * val[b[i].v]
  BY ValueIsInt
<1> HIDE DEF e, n, k
<1>4. Known(e, val)
  <2> SUFFICES ASSUME NEW i \in 1 .. (n + k), e[i].v # NoName PROVE val[e[i].v] \in Int
    BY <1>1 DEF Known
  <2>1. CASE i \in 1 .. n
    BY <1>1, <2>1 DEF Known
  <2>2. CASE i - n \in 1 .. k /\ i = n + (i - n)
    <3> DEFINE j == i - n
    <3>1. e[i] = b[j] /\ j \in DOMAIN b
      BY <1>1, <2>2
    <3> HIDE DEF j
    <3> QED BY <3>1 DEF Known
  <2> QED BY <1>1, <2>1, <2>2
<1>5. we \in [1 .. (n + k) -> Int] /\ Value(e, val) = SumOf(we)
      /\ \A i \in 1 .. (n + k) : we[i] = IF e[i].v = NoName THEN e[i].a ELSE e[i].a * val[e[i].v]
  <2> HIDE DEF wa, wb
  <2>1. /\ we \in [1 .. Len(e) -> Int] /\ Value(e, val) = SumOf(we)
        /\ \A i \in 1 .. Len(e) : we[i] = IF e[i].v = NoName THEN e[i].a ELSE e[i].a * val[e[i].v]
    <3>1. e \in Seq(Tokens)
      BY <1>1
    <3> QED BY <1>4, <3>1, ValueIsInt, Zenon
  <2> HIDE DEF we
  <2> QED BY <1>1, <2>1
<1> HIDE DEF wa, wb, we
<1>6. (\A i \in 1 .. n : we[i] = wa[i]) /\ (\A j \in 1 .. k : we[n + j] = wb[j])
  <2>1. ASSUME NEW i \in 1 .. n PROVE we[i] = wa[i]
    <3>1. i \in 1 .. (n + k) /\ e[i] = a[i]
      BY <1>1
    <3> QED BY <1>2, <1>5, <3>1
  <2>2. ASSUME NEW j \in 1 .. k PROVE we[n + j] = wb[j]
    <3> DEFINE i == n + j
    <3>1. i \in 1 .. (n + k) /\ e[i] = b[j]
      BY <1>1
    <3> HIDE DEF i
    <3>2. we[i] = wb[j]
      BY <1>3, <1>5, <3>1
    <3> QED BY <3>2 DEF i
  <2> QED BY <2>1, <2>2
<1>7. SumOf(we) = SumOf(wa) + SumOf(wb)
  BY <1>1, <1>2, <1>3, <1>5, <1>6, SumConcat
<1> QED BY <1>2, <1>3, <1>4, <1>5, <1>7 DEF e

LEMMA NegatedItems ==
  ASSUME NEW b \in Seq(Tokens)
  PROVE  /\ Negated(b) \in Seq(Tokens) /\ Len(Negated(b)) = Len(b) /\ DOMAIN Negated(b) = 1 .. Len(b)
         /\ \A i \in 1 .. Len(b) : Negated(b)[i].v = b[i].v /\ Negated(b)[i].a = -b[i].a
<1> DEFINE c == Negated(b)
<1>1. Len(b) \in Nat /\ DOMAIN b = 1 .. Len(b) /\ \A i \in 1 .. Len(b) : b[i] \in Tokens
  BY LenProperties, ElementOfSeq
<1>2. c \in Seq(Tokens) /\ DOMAIN c = 1 .. Len(b) /\ \A i \in 1 .. Len(b) : c[i] = [b[i] EXCEPT !.a = -@]
  BY <1>1, NegatedType DEF Negated
<1>3. \A t \in Tokens : [t EXCEPT !.a = -@].v = t.v /\ [t EXCEPT !.a = -@].a = -t.a
  BY DEF Tokens
<1> HIDE DEF c
<1>4. Len(c) = Len(b)
  BY <1>1, <1>2, LenProperties
<1>5. \A i \in 1 .. Len(b) : c[i].v = b[i].v /\ c[i].a = -b[i].a
  BY <1>1, <1>2, <1>3
<1> QED BY <1>2, <1>4, <1>5 DEF c

LEMMA ValueNegated ==
  ASSUME NEW b \in Seq(Tokens), NEW val, Known(b, val)
  PROVE  Known(Negated(b), val) /\ Value(Negated(b), val) = -Value(b, val)
<1> DEFINE c == Negated(b)
           k == Len(b)
           wb == Weights(b, val)
           wc == Weights(c, val)
<1>1. c \in Seq(Tokens) /\ Len(c) = k /\ DOMAIN c = 1 .. k
      /\ \A i \in 1 .. k : c[i].v = b[i].v /\ c[i].a = -b[i].a
  BY NegatedItems
<1>2. k \in Nat /\ DOMAIN b = 1 .. k /\ \A i \in 1 .. k : b[i].v \in Names /\ b[i].a \in Int
  BY TokenItems
<1>3. wb \in [1 .. k -> Int] /\ Value(b, val) = SumOf(wb)
      /\ \A i \in 1 .. k : wb[i] = IF b[i].v = NoName THEN b[i].a ELSE b[i].a * val[b[i].v]
  BY ValueIsInt
<1> HIDE DEF c, k
<1>4. Known(c, val)
  BY <1>1, <1>2 DEF Known
<1>5. wc \in [1 .. k -> Int] /\ Value(c, val) = SumOf(wc)
      /\ \A i \in 1 .. k : wc[i] = IF c[i].v = NoName THEN c[i].a ELSE c[i].a * val[c[i].v]
  BY <1>1, <1>4, ValueIsInt
<1> HIDE DEF wb, wc
<1>6. ASSUME NEW j \in 1 .. k PROVE wc[j] = -wb[j]
  <2>1. CASE b[j].v = NoName
    BY <1>1, <1>3, <1>5, <2>1
  <2>2. CASE b[j].v # NoName
    <3> DEFINE z == b[j].a
               y == val[b[j].v]
    <3>1. wb[j] = z * y /\ wc[j] = (-z) * y
      BY <1>1, <1>3, <1>5, <2>2
    <3>2. z \in Int /\ y \in Int
      BY <1>2, <2>2 DEF Known
    <3> HIDE DEF z, y
    <3>3. (-z) * y = -(z * y)
      BY <3>2, Z3
    <3> QED BY <3>1, <3>3
  <2> QED BY <2>1, <2>2
<1>7. SumOf(wc) = -SumOf(wb)
  BY <1>2, <1>3, <1>5, <1>6, SumNegated
<1> QED BY <1>3, <1>4, <1>5, <1>7 DEF c

LEMMA ReadableKnown ==
  ASSUME NEW e, NEW D, NEW val, \A v \in D : val[v] \in Int, Readable(e, D)
  PROVE  Known(e, val)
BY DEF Readable, Known

LEMMA ValueMoved ==
  ASSUME NEW l \in Literal, ~l.neg, NEW val, Known(MoveLeft(l), val)
  PROVE  /\ Value(l.lhs, val) \in Int /\ Value(l.rhs, val) \in Int
         /\ Value(MoveLeft(l), val) = Value(l.lhs, val) - Value(l.rhs, val)
<1> DEFINE a == l.lhs
           b == l.rhs
           x == Value(a, val)
           y == Value(b, val)
           z == Value(MoveLeft(l), val)
<1>1. a \in Seq(Tokens) /\ b \in Seq(Tokens)
  BY TokensOfToken DEF Literal
<1>2. CASE b = <<Constant(0)>>
  <2>1. MoveLeft(l) = a
    BY <1>2 DEF MoveLeft
  <2>2. x \in Int /\ z = x
    <3> HIDE DEF a
    <3> QED BY <1>1, <2>1, ValueIsInt
  <2>3. y = 0
    <3> DEFINE one == <<Constant(0)>>
    <3>1. DOMAIN one = 1 .. 1 /\ Len(one) = 1 /\ \A i \in 1 .. 1 : one[i].v = NoName /\ one[i].a = 0
      BY DEF Constant
    <3>2. one \in Seq(Tokens) /\ Known(one, val)
      <4> HIDE DEF one, b
      <4> QED BY <1>1, <1>2, <3>1 DEF Known, one
    <3> DEFINE w == Weights(one, val)
    <3> HIDE DEF one
    <3>3. w \in [1 .. 1 -> Int] /\ (\A i \in 1 .. 1 : w[i] = 0) /\ Value(one, val) = SumOf(w)
      BY <3>1, <3>2, ValueIsInt
    <3> HIDE DEF w
    <3>4. SumOf(w) = 0
      BY <3>3, SumOfZeros
    <3> QED BY <1>2, <3>3, <3>4 DEF one
  <2> HIDE DEF x, y, z
  <2>4. x \in Int /\ y \in Int /\ z = x - y
    BY <2>2, <2>3
  <2> QED BY <2>4 DEF x, y, z
<1>3. CASE b # <<Constant(0)>>
  <2> DEFINE c == Negated(b)
             e == a \o c
  <2>1. MoveLeft(l) = e
    BY <1>3 DEF MoveLeft
  <2>2. c \in Seq(Tokens) /\ Len(c) = Len(b) /\ DOMAIN c = 1 .. Len(b) /\ \A i \in 1 .. Len(b) : c[i].v = b[i].v
    <3> HIDE DEF b
    <3> QED BY <1>1, NegatedItems
  <2>3. /\ DOMAIN a = 1 .. Len(a) /\ DOMAIN e = 1 .. (Len(a) + Len(c)) /\ DOMAIN b = 1 .. Len(b)
        /\ \A i \in 1 .. Len(a) : i \in 1 .. (Len(a) + Len(c)) /\ e[i] = a[i]
        /\ \A j \in 1 .. Len(c) : Len(a) + j \in 1 .. (Len(a) + Len(c)) /\ e[Len(a) + j] = c[j]
    <3>1. DOMAIN b = 1 .. Len(b)
      <4> HIDE DEF b
      <4> QED BY <1>1, LenProperties
    <3> HIDE DEF a, b, c, x, y, z
    <3>2. a \in Seq(Tokens) /\ c \in Seq(Tokens)
      BY <1>1, <2>2
    <3>3. /\ DOMAIN a = 1 .. Len(a) /\ DOMAIN e = 1 .. (Len(a) + Len(c))
          /\ \A i \in 1 .. Len(a) : i \in 1 .. (Len(a) + Len(c)) /\ e[i] = a[i]
          /\ \A j \in 1 .. Len(c) : Len(a) + j \in 1 .. (Len(a) + Len(c)) /\ e[Len(a) + j] = c[j]
      <4>1. /\ a \o c \in Seq(Tokens) /\ Len(a) \in Nat /\ Len(c) \in Nat /\ Len(a \o c) = Len(a) + Len(c)
            /\ DOMAIN a = 1 .. Len(a) /\ DOMAIN c = 1 .. Len(c) /\ DOMAIN (a \o c) = 1 .. (Len(a) + Len(c))
            /\ \A i \in 1 .. Len(a) : i \in 1 .. (Len(a) + Len(c)) /\ (a \o c)[i] = a[i]
            /\ \A j \in 1 .. Len(c) : Len(a) + j \in 1 .. (Len(a) + Len(c)) /\ (a \o c)[Len(a) + j] = c[j]
        BY <3>2, ConcatItems
      <4> HIDE DEF e
      <4> QED BY <4>1 DEF e
    <3> QED BY <3>1, <3>3
  <2>4. \A i \in DOMAIN e : e[i].v # NoName => val[e[i].v] \in Int
    BY <2>1 DEF Known
  <2> HIDE DEF a, b, c, e
  <2>5. Known(a, val) /\ Known(b, val)
    BY <2>2, <2>3, <2>4 DEF Known
  <2>6. Known(c, val) /\ Value(c, val) = -y
    BY <1>1, <2>5, ValueNegated DEF c
  <2>7. Value(e, val) = x + Value(c, val)
    BY <1>1, <2>2, <2>5, <2>6, ValueConcat DEF e
  <2>8. x \in Int /\ y \in Int
    BY <1>1, <2>5, ValueIsInt
  <2>9. z = x + (-y)
    BY <2>1, <2>6, <2>7
  <2> HIDE DEF x, y, z
  <2>10. x \in Int /\ y \in Int /\ z = x - y
    BY <2>8, <2>9
  <2> QED BY <2>10 DEF x, y, z, a, b
<1> QED BY <1>2, <1>3

-----------------------------------------------------------------------------
(* A set S of literals meets a CNF if every clause has one of them.        *)

Meets(f, S) == \A i \in DOMAIN f : \E j \in DOMAIN f[i] : f[i][j] \in S

Within(f, S) == \A i \in DOMAIN f : \A j \in DOMAIN f[i] : f[i][j] \in S

LEMMA ShortCNFs ==
  ASSUME NEW a, NEW b, NEW S
  PROVE  /\ Meets(<< <<a, b>> >>, S) <=> (a \in S \/ b \in S)
         /\ Meets(<< <<a>>, <<b>> >>, S) <=> (a \in S /\ b \in S)
         /\ Meets(<< <<a>> >>, S) <=> a \in S
         /\ Within(<< <<a, b>> >>, S) <=> (a \in S /\ b \in S)
         /\ Within(<< <<a>>, <<b>> >>, S) <=> (a \in S /\ b \in S)
         /\ Within(<< <<a>> >>, S) <=> a \in S
<1> DEFINE ab == <<a, b>>
           a1 == <<a>>
           b1 == <<b>>
<1>1. DOMAIN ab = {1, 2} /\ ab[1] = a /\ ab[2] = b
  OBVIOUS
<1>2. DOMAIN a1 = {1} /\ a1[1] = a /\ DOMAIN b1 = {1} /\ b1[1] = b
  OBVIOUS
<1> HIDE DEF ab, a1, b1
<1> DEFINE f == <<ab>>
           g == <<a1, b1>>
           h == <<a1>>
<1>3. DOMAIN f = {1} /\ f[1] = ab /\ DOMAIN h = {1} /\ h[1] = a1 /\ DOMAIN g = {1, 2} /\ g[1] = a1 /\ g[2] = b1
  OBVIOUS
<1> HIDE DEF f, g, h
<1>4. /\ Meets(f, S) <=> (a \in S \/ b \in S)
      /\ Meets(g, S) <=> (a \in S /\ b \in S)
      /\ Meets(h, S) <=> a \in S
      /\ Within(f, S) <=> (a \in S /\ b \in S)
      /\ Within(g, S) <=> (a \in S /\ b \in S)
      /\ Within(h, S) <=> a \in S
  BY <1>1, <1>2, <1>3 DEF Meets, Within
<1> QED BY <1>4 DEF f, g, h, ab, a1, b1

LEMMA HoldsMeans ==
  ASSUME NEW a \in Int, NEW b \in Int, NEW op \in Operators
  PROVE  /\ Holds(op, a, b) \in BOOLEAN
         /\ (Holds(op, a, b) # FALSE) <=> Holds(op, a, b)
         /\ (Holds(op, a, b) # TRUE) <=> ~Holds(op, a, b)
         /\ op = "<=" => (Holds(op, a, b) <=> a <= b)
         /\ op = ">=" => (Holds(op, a, b) <=> a >= b)
         /\ op = "<" => (Holds(op, a, b) <=> a < b)
         /\ op = ">" => (Holds(op, a, b) <=> a > b)
         /\ op = "=" => (Holds(op, a, b) <=> a = b)
         /\ op = "!=" => (Holds(op, a, b) <=> a # b)
<1> DEFINE h == Holds(op, a, b)
<1>1. /\ op = "<=" => h = (a <= b)
      /\ op = ">=" => h = (a >= b)
      /\ op = "<" => h = (a < b)
      /\ op = ">" => h = (a > b)
      /\ op = "=" => h = (a = b)
      /\ op = "!=" => h = (a # b)
  BY DEF Holds
<1>2. h \in BOOLEAN
  <2>1. /\ (a <= b) \in BOOLEAN /\ (a >= b) \in BOOLEAN /\ (a < b) \in BOOLEAN
        /\ (a > b) \in BOOLEAN /\ (a = b) \in BOOLEAN /\ (a # b) \in BOOLEAN
    OBVIOUS
  <2> HIDE DEF h
  <2>2. op = "<=" \/ op = ">=" \/ op = "<" \/ op = ">" \/ op = "=" \/ op = "!="
    BY DEF Operators
  <2> QED BY <1>1, <2>1, <2>2, Zenon
<1> HIDE DEF h
<1>3. ((h # FALSE) <=> h) /\ ((h # TRUE) <=> ~h)
  BY <1>2
<1> QED BY <1>1, <1>2, <1>3 DEF h

LEMMA NormalFields ==
  ASSUME NEW l \in Literal, NEW op \in Inequalities, NEW k \in Int, NEW neg \in BOOLEAN
  PROVE  LET e == MoveLeft(l)
             n == Normal(e, op, k, neg)
         IN  n \in NormalLiteral /\ n.e = e /\ n.op = op /\ n.k = k /\ n.neg = neg
<1> DEFINE e == MoveLeft(l)
<1>1. e \in Seq(Tokens)
  BY MoveLeftType
<1>2. op \in Operators
  BY DEF Operators, Inequalities
<1> HIDE DEF e
<1>3. LET n == Normal(e, op, k, neg)
      IN  n \in NormalLiteral /\ n.e = e /\ n.op = op /\ n.k = k /\ n.neg = neg
  BY <1>1, <1>2 DEF Normal, NormalLiteral
<1> QED BY <1>3 DEF e

\* What a literal is rewritten to.
LEMMA NormalizeShape ==
  ASSUME NEW l \in Literal
  PROVE  LET e == MoveLeft(l)
         IN  /\ l.op = "!=" => NormalizeLiteral(l) =
                                 << <<Normal(e, "<=", -1, FALSE), Normal(e, "<=", 0, TRUE)>> >>
             /\ l.op = "=" => NormalizeLiteral(l) =
                                 << <<Normal(e, "<=", 0, FALSE)>>, <<Normal(e, "<=", -1, TRUE)>> >>
             /\ l.op \in Inequalities => NormalizeLiteral(l) = << <<Normal(e, l.op, 0, FALSE)>> >>
             /\ l.op \in Operators /\ l.op \in Inequalities \cup {"=", "!="}
<1> DEFINE e == MoveLeft(l)
<1>1. e \in Seq(Tokens) /\ l.op \in Operators
  BY MoveLeftType DEF Literal
<1>2. l.op \in Inequalities \cup {"=", "!="}
  BY <1>1 DEF Operators, Inequalities
<1> HIDE DEF e
<1>5. l.op = "!=" => NormalizeLiteral(l) =
        << <<Normal(e, "<=", -1, FALSE), Normal(e, "<=", 0, TRUE)>> >>
  BY DEF NormalizeLiteral, e
<1>6. l.op = "=" => NormalizeLiteral(l) =
        << <<Normal(e, "<=", 0, FALSE)>>, <<Normal(e, "<=", -1, TRUE)>> >>
  BY DEF NormalizeLiteral, e
<1>7. l.op \in Inequalities => NormalizeLiteral(l) = << <<Normal(e, l.op, 0, FALSE)>> >>
  BY DEF NormalizeLiteral, e, Inequalities
<1> QED BY <1>1, <1>2, <1>5, <1>6, <1>7 DEF e

\* The literals written as inequalities of e.
Over(e) == {l \in NormalLiteral : l.e = e /\ l.op \in Inequalities}

LEMMA NormalizeOver ==
  ASSUME NEW l \in Literal
  PROVE  /\ NormalizeLiteral(l) # << >>
         /\ Within(NormalizeLiteral(l), Over(MoveLeft(l)))
         /\ \A S : Within(NormalizeLiteral(l), S) => \E n \in S : n \in Over(MoveLeft(l))
<1> DEFINE e == MoveLeft(l)
           a == Normal(e, "<=", -1, FALSE)
           b == Normal(e, "<=", 0, TRUE)
           c == Normal(e, "<=", 0, FALSE)
           d == Normal(e, "<=", -1, TRUE)
           o == Normal(e, l.op, 0, FALSE)
           f == NormalizeLiteral(l)
<1>1. "<=" \in Inequalities /\ -1 \in Int /\ 0 \in Int
  BY DEF Inequalities
<1>2. \A op \in Inequalities, k \in Int, neg \in BOOLEAN : Normal(e, op, k, neg) \in Over(e)
  BY NormalFields DEF Over
<1>3. a \in Over(e) /\ b \in Over(e) /\ c \in Over(e) /\ d \in Over(e)
      /\ (l.op \in Inequalities => o \in Over(e))
  BY <1>1, <1>2
<1>4. \/ f = << <<a, b>> >>
      \/ f = << <<c>>, <<d>> >>
      \/ l.op \in Inequalities /\ f = << <<o>> >>
  BY NormalizeShape
<1> HIDE DEF a, b, c, d, o, f, e
<1>5. \A S : (Within(<< <<a, b>> >>, S) <=> (a \in S /\ b \in S))
             /\ (Within(<< <<c>>, <<d>> >>, S) <=> (c \in S /\ d \in S))
             /\ (Within(<< <<o>> >>, S) <=> o \in S)
  BY ShortCNFs
<1>6. f # << >>
  BY <1>4
<1>7. Within(f, Over(e))
  BY <1>3, <1>4, <1>5
<1>8. \A S : Within(f, S) => \E n \in S : n \in Over(e)
  BY <1>3, <1>4, <1>5
<1> QED BY <1>6, <1>7, <1>8 DEF f, e

LEMMA NormalizeMeans ==
  ASSUME NEW l \in Literal, NEW D, StrayBracket.v \notin D, NEW val, \A v \in D : val[v] \in Int,
         Readable(MoveLeft(l), D)
  PROVE  Meets(NormalizeLiteral(l), {n \in NormalLiteral : NormalHolds(n, val)}) <=> LiteralHolds(l, val)
<1> DEFINE e == MoveLeft(l)
           a == Normal(e, "<=", -1, FALSE)
           b == Normal(e, "<=", 0, TRUE)
           c == Normal(e, "<=", 0, FALSE)
           d == Normal(e, "<=", -1, TRUE)
           o == Normal(e, l.op, 0, FALSE)
           f == NormalizeLiteral(l)
           S == {n \in NormalLiteral : NormalHolds(n, val)}
           x == Value(l.lhs, val)
           y == Value(l.rhs, val)
<1>1. l.neg = FALSE
  <2>1. l.neg \in BOOLEAN
    BY DEF Literal
  <2>2. ASSUME l.neg PROVE FALSE
    <3> DEFINE moved == IF l.rhs = <<Constant(0)>> THEN l.lhs ELSE l.lhs \o Negated(l.rhs)
    <3>1. MoveLeft(l) = Append(moved, StrayBracket)
      BY <2>2 DEF MoveLeft
    <3>2. moved \in Seq(Tokens)
      <4>1. l.lhs \in Seq(Tokens) /\ Negated(l.rhs) \in Seq(Tokens)
        BY TokensOfToken, NegatedType DEF Literal
      <4>2. l.lhs \o Negated(l.rhs) \in Seq(Tokens)
        BY <4>1, ConcatProperties
      <4> QED BY <4>1, <4>2
    <3> HIDE DEF moved
    <3>3. StrayBracket \in Tokens /\ StrayBracket.v # NoName
      BY DEF StrayBracket, Tokens, Names, NoName
    <3> DEFINE k == Len(moved) + 1
    <3>4. Len(moved) \in Nat /\ e[k] = StrayBracket /\ Len(e) = k /\ e \in Seq(Tokens)
      BY <3>1, <3>2, <3>3, AppendProperties, LenProperties
    <3> HIDE DEF e
    <3>5. k \in DOMAIN e
      <4>1. DOMAIN e = 1 .. Len(e)
        BY <3>4, LenProperties
      <4> QED BY <3>4, <4>1
    <3> QED BY <3>3, <3>4, <3>5 DEF Readable, e
  <2> QED BY <2>1, <2>2
<1>2. x \in Int /\ y \in Int /\ Value(e, val) = x - y
  BY <1>1, ReadableKnown, ValueMoved
<1> DEFINE z == x - y
<1>3. z \in Int /\ Value(e, val) = z
  BY <1>2
<1>4. \A op \in Inequalities, k \in Int, neg \in BOOLEAN :
         Normal(e, op, k, neg) \in S <=> (Holds(op, z, k) # neg)
  <2> TAKE op \in Inequalities, k \in Int, neg \in BOOLEAN
  <2> DEFINE n == Normal(e, op, k, neg)
  <2>1. n \in NormalLiteral /\ n.e = e /\ n.op = op /\ n.k = k /\ n.neg = neg
    BY NormalFields
  <2> HIDE DEF n, e, z
  <2> QED BY <1>3, <2>1 DEF NormalHolds, n
<1>5. "<=" \in Inequalities /\ -1 \in Int /\ 0 \in Int
  BY DEF Inequalities
<1> HIDE DEF S, e, f
<1>6. /\ a \in S <=> (Holds("<=", z, -1) # FALSE)
      /\ b \in S <=> (Holds("<=", z, 0) # TRUE)
      /\ c \in S <=> (Holds("<=", z, 0) # FALSE)
      /\ d \in S <=> (Holds("<=", z, -1) # TRUE)
      /\ l.op \in Inequalities => (o \in S <=> (Holds(l.op, z, 0) # FALSE))
  BY <1>4, <1>5
<1>7. \A k \in Int : ((Holds("<=", z, k) # FALSE) <=> z <= k) /\ ((Holds("<=", z, k) # TRUE) <=> ~(z <= k))
  <2>1. "<=" \in Operators
    BY DEF Operators
  <2> HIDE DEF z
  <2> QED BY <1>3, <2>1, HoldsMeans
<1>8. /\ a \in S <=> z <= -1
      /\ b \in S <=> ~(z <= 0)
      /\ c \in S <=> z <= 0
      /\ d \in S <=> ~(z <= -1)
  BY <1>5, <1>6, <1>7
<1> HIDE DEF a, b, c, d, o
<1>9. LiteralHolds(l, val) <=> Holds(l.op, x, y)
  <2>1. LiteralHolds(l, val) <=> (Holds(l.op, x, y) # FALSE)
    BY <1>1 DEF LiteralHolds
  <2>2. l.op \in Operators
    BY NormalizeShape
  <2> HIDE DEF x, y
  <2> QED BY <1>2, <2>1, <2>2, HoldsMeans
<1>10. CASE l.op = "!="
  <2>1. f = << <<a, b>> >>
    BY <1>10, NormalizeShape DEF f, a, b, e
  <2>2. Meets(f, S) <=> (a \in S \/ b \in S)
    BY <2>1, ShortCNFs
  <2>3. Holds(l.op, x, y) <=> x # y
    BY <1>2, <1>10, NormalizeShape, HoldsMeans
  <2>4. (z <= -1 \/ ~(z <= 0)) <=> x # y
    BY <1>2
  <2> QED BY <1>8, <1>9, <2>2, <2>3, <2>4 DEF f, S
<1>11. CASE l.op = "="
  <2>1. f = << <<c>>, <<d>> >>
    BY <1>11, NormalizeShape DEF f, c, d, e
  <2>2. Meets(f, S) <=> (c \in S /\ d \in S)
    BY <2>1, ShortCNFs
  <2>3. Holds(l.op, x, y) <=> x = y
    BY <1>2, <1>11, NormalizeShape, HoldsMeans
  <2>4. (z <= 0 /\ ~(z <= -1)) <=> x = y
    BY <1>2
  <2> QED BY <1>8, <1>9, <2>2, <2>3, <2>4 DEF f, S
<1>12. CASE l.op \in Inequalities
  <2>1. f = << <<o>> >>
    BY <1>12, NormalizeShape DEF f, o, e
  <2>2. Meets(f, S) <=> o \in S
    BY <2>1, ShortCNFs
  <2>3. (Holds(l.op, z, 0) # FALSE) <=> Holds(l.op, x, y)
    <3>1. (z <= 0 <=> x <= y) /\ (z >= 0 <=> x >= y) /\ (z < 0 <=> x < y) /\ (z > 0 <=> x > y)
      BY <1>2
    <3>2. l.op \in Operators
      BY NormalizeShape
    <3> HIDE DEF x, y, z
    <3>3. (Holds(l.op, z, 0) # FALSE) <=> Holds(l.op, z, 0)
      <4>1. 0 \in Int
        OBVIOUS
      <4> QED BY <1>3, <3>2, <4>1, HoldsMeans, Zenon
    <3>4. Holds(l.op, z, 0) <=> Holds(l.op, x, y)
      <4>1. /\ l.op = "<=" => (Holds(l.op, z, 0) <=> z <= 0)
            /\ l.op = ">=" => (Holds(l.op, z, 0) <=> z >= 0)
            /\ l.op = "<" => (Holds(l.op, z, 0) <=> z < 0)
            /\ l.op = ">" => (Holds(l.op, z, 0) <=> z > 0)
        <5>1. 0 \in Int
          OBVIOUS
        <5> QED BY <1>3, <3>2, <5>1, HoldsMeans, Zenon
      <4>2. /\ l.op = "<=" => (Holds(l.op, x, y) <=> x <= y)
            /\ l.op = ">=" => (Holds(l.op, x, y) <=> x >= y)
            /\ l.op = "<" => (Holds(l.op, x, y) <=> x < y)
            /\ l.op = ">" => (Holds(l.op, x, y) <=> x > y)
        BY <1>2, <3>2, HoldsMeans, Zenon
      <4>3. l.op = "<=" \/ l.op = ">=" \/ l.op = "<" \/ l.op = ">"
        BY <1>12 DEF Inequalities
      <4> QED BY <3>1, <4>1, <4>2, <4>3, Zenon
    <3> QED BY <3>3, <3>4
  <2> QED BY <1>6, <1>9, <1>12, <2>2, <2>3 DEF f, S
<1> QED BY <1>10, <1>11, <1>12, NormalizeShape

-----------------------------------------------------------------------------
(* CSP::distribute: the conjunction of the clauses it makes is the         *)
(* disjunction of the two CNFs.                                            *)

\* Which clauses the k-th clause of a distribution is made of.
Row(k, n)    == ((k - 1) \div n) + 1
Column(k, n) == ((k - 1) % n) + 1

LEMMA Place ==
  ASSUME NEW m \in Nat, NEW n \in Nat \ {0}, NEW i \in 1 .. m, NEW j \in 1 .. n
  PROVE  \E k \in 1 .. m * n : Row(k, n) = i /\ Column(k, n) = j
<1> DEFINE a == i - 1
           b == j - 1
           d == a * n + b
<1>1. a \in Int /\ b \in 0 .. n - 1 /\ a + 1 = i /\ b + 1 = j /\ 0 <= a /\ a + 1 <= m
  OBVIOUS
<1> HIDE DEF a, b
<1>2. d \in Int
  BY <1>1, Z3
<1>3. d \div n = a /\ d % n = b
  BY <1>1, Z3
<1>4. 0 <= d
  BY <1>1, Z3
<1>5. d + 1 <= m * n
  <2>1. n * (a + 1) <= n * m
    BY <1>1, TimesMonotone
  <2>2. n * (a + 1) = a * n + n /\ n * m = m * n /\ a * n \in Int /\ m * n \in Int
    BY <1>1, Z3
  <2> QED BY <1>1, <2>1, <2>2
<1>6. m * n \in Int
  BY Z3
<1> HIDE DEF d
<1> DEFINE k == d + 1
<1>7. k \in 1 .. m * n /\ k - 1 = d
  BY <1>2, <1>4, <1>5, <1>6
<1> HIDE DEF k
<1> QED BY <1>1, <1>3, <1>7 DEF Row, Column

LEMMA Places ==
  ASSUME NEW m \in Nat, NEW n \in Nat \ {0}
  PROVE  \A i \in 1 .. m : \A j \in 1 .. n : \E k \in 1 .. m * n : Row(k, n) = i /\ Column(k, n) = j
BY Place

\* A clause without its repetitions has the same literals.
LEMMA UniqueClause ==
  ASSUME NEW X, NEW a \in Seq(X), NEW b \in Seq(X), NEW S
  PROVE  LET u == Unique(a \o b)
         IN  /\ (\E h \in DOMAIN u : u[h] \in S) <=>
                  (\E h \in DOMAIN a : a[h] \in S) \/ (\E h \in DOMAIN b : b[h] \in S)
             /\ (\A h \in DOMAIN u : u[h] \in S) <=>
                  (\A h \in DOMAIN a : a[h] \in S) /\ (\A h \in DOMAIN b : b[h] \in S)
<1> DEFINE s == a \o b
           u == Unique(s)
<1>1. /\ s \in Seq(X)
      /\ \A x : Contains(s, x) <=> Contains(a, x) \/ Contains(b, x)
  BY ConcatProperties, ContainsConcat
<1> HIDE DEF s
<1>2. /\ u \in Seq(X)
      /\ \A i \in 1 .. Len(s) : Contains(u, s[i])
      /\ \A k \in DOMAIN u : \E i \in 1 .. Len(s) : u[k] = s[i]
  BY <1>1, UniqueItems
<1> HIDE DEF u
<1>3. DOMAIN u = 1 .. Len(u) /\ DOMAIN a = 1 .. Len(a) /\ DOMAIN b = 1 .. Len(b)
  BY <1>2, LenProperties
<1>4. \A x : Contains(u, x) <=> Contains(s, x)
  BY <1>2, <1>3 DEF Contains
<1>5. \A x : (\E h \in DOMAIN u : u[h] = x) <=>
               (\E h \in DOMAIN a : a[h] = x) \/ (\E h \in DOMAIN b : b[h] = x)
  BY <1>1, <1>3, <1>4 DEF Contains
<1>6. (\E h \in DOMAIN u : u[h] \in S) <=>
        (\E h \in DOMAIN a : a[h] \in S) \/ (\E h \in DOMAIN b : b[h] \in S)
  BY <1>5
<1>7. (\A h \in DOMAIN u : u[h] \in S) <=>
        (\A h \in DOMAIN a : a[h] \in S) /\ (\A h \in DOMAIN b : b[h] \in S)
  BY <1>5
<1> QED BY <1>6, <1>7 DEF u, s

LEMMA DistributeMeans ==
  ASSUME NEW f \in NormalCNF, f # << >>, NEW g \in NormalCNF, g # << >>
  PROVE  /\ Distribute(f, g) # << >>
         /\ \A S : Meets(Distribute(f, g), S) <=> Meets(f, S) \/ Meets(g, S)
         /\ \A S : Within(Distribute(f, g), S) <=> Within(f, S) /\ Within(g, S)
<1> DEFINE m == Len(f)
           n == Len(g)
           at(i, j) == Unique(f[i] \o g[j])
           left(k) == Row(k, n)
           right(k) == Column(k, n)
           d == Distribute(f, g)
<1>1. m \in Nat \ {0} /\ n \in Nat \ {0} /\ DOMAIN f = 1 .. m /\ DOMAIN g = 1 .. n
  BY LenProperties, EmptySeq DEF NormalCNF
<1>2. (\A i \in 1 .. m : f[i] \in Seq(NormalLiteral)) /\ \A j \in 1 .. n : g[j] \in Seq(NormalLiteral)
  BY ElementOfSeq DEF NormalCNF
<1>3. d = [k \in 1 .. m * n |-> at(left(k), right(k))]
  BY DEF Distribute, Row, Column
<1> HIDE DEF at, m, n, d
<1>4. \A k \in 1 .. m * n : left(k) \in 1 .. m /\ right(k) \in 1 .. n
  BY <1>1, Positions DEF Row, Column
<1>5. \A i \in 1 .. m : \A j \in 1 .. n : \E k \in 1 .. m * n : left(k) = i /\ right(k) = j
  <2>1. m \in Nat /\ n \in Nat \ {0}
    BY <1>1
  <2> QED BY ONLY <2>1, Places
<1> HIDE DEF left, right
<1>6. DOMAIN d = 1 .. m * n /\ \A k \in 1 .. m * n : d[k] = at(left(k), right(k))
  BY <1>3
<1>7. d # << >>
  <2>1. 1 \in 1 .. m /\ 1 \in 1 .. n
    BY <1>1
  <2>2. \E k \in DOMAIN d : TRUE
    BY <1>5, <1>6, <2>1
  <2>3. DOMAIN << >> = {}
    OBVIOUS
  <2> QED BY <2>2, <2>3
<1>8. ASSUME NEW S
      PROVE  (Meets(d, S) <=> Meets(f, S) \/ Meets(g, S)) /\ (Within(d, S) <=> Within(f, S) /\ Within(g, S))
  <2> DEFINE one(s) == \E h \in DOMAIN s : s[h] \in S
             all(s) == \A h \in DOMAIN s : s[h] \in S
  <2>1. \A i \in 1 .. m : \A j \in 1 .. n :
           (one(at(i, j)) <=> one(f[i]) \/ one(g[j])) /\ (all(at(i, j)) <=> all(f[i]) /\ all(g[j]))
    <3> TAKE i \in 1 .. m
    <3> TAKE j \in 1 .. n
    <3> DEFINE a == f[i]
               b == g[j]
    <3>1. a \in Seq(NormalLiteral) /\ b \in Seq(NormalLiteral)
      BY <1>2
    <3> HIDE DEF a, b
    <3>2. LET u == Unique(a \o b)
          IN  (one(u) <=> one(a) \/ one(b)) /\ (all(u) <=> all(a) /\ all(b))
      BY <3>1, UniqueClause, Zenon
    <3> QED BY <3>2 DEF at, a, b
  <2>2. /\ Meets(d, S) <=> \A k \in 1 .. m * n : one(at(left(k), right(k)))
        /\ Within(d, S) <=> \A k \in 1 .. m * n : all(at(left(k), right(k)))
    BY <1>6 DEF Meets, Within
  <2>3. /\ Meets(f, S) <=> \A i \in 1 .. m : one(f[i])
        /\ Meets(g, S) <=> \A j \in 1 .. n : one(g[j])
        /\ Within(f, S) <=> \A i \in 1 .. m : all(f[i])
        /\ Within(g, S) <=> \A j \in 1 .. n : all(g[j])
    BY <1>1 DEF Meets, Within
  <2> HIDE DEF one, all
  <2>4. /\ Meets(d, S) <=> \A i \in 1 .. m : \A j \in 1 .. n : one(at(i, j))
        /\ Within(d, S) <=> \A i \in 1 .. m : \A j \in 1 .. n : all(at(i, j))
    BY <1>4, <1>5, <2>2
  <2>5. Meets(d, S) <=> Meets(f, S) \/ Meets(g, S)
    BY <2>1, <2>3, <2>4
  <2>6. 1 \in 1 .. m /\ 1 \in 1 .. n
    BY <1>1
  <2>7. Within(d, S) <=> Within(f, S) /\ Within(g, S)
    BY <2>1, <2>3, <2>4, <2>6
  <2> QED BY <2>5, <2>7
<1> QED BY <1>7, <1>8 DEF d

\* The clauses of an argument: one of its literals.
LEMMA ArgumentMeans ==
  ASSUME NEW arg \in Seq(Literal), arg # << >>
  PROVE  /\ \A S : Meets(NormalizeArgument(arg), S) <=>
                      \E i \in 1 .. Len(arg) : Meets(NormalizeLiteral(arg[i]), S)
         /\ \A S : Within(NormalizeArgument(arg), S) <=>
                      \A i \in 1 .. Len(arg) : Within(NormalizeLiteral(arg[i]), S)
<1> DEFINE n == Len(arg)
           f(i) == NormalizeLiteral(arg[i])
<1>1. PICK set \in [0 .. n -> NormalCNF] : NormalizeSteps(set, arg)
  BY ArgumentSteps
<1>2. n \in Nat \ {0} /\ \A i \in 1 .. n : arg[i] \in Literal
  BY LenProperties, EmptySeq, ElementOfSeq
<1>3. \A i \in 1 .. n : f(i) \in NormalCNF /\ f(i) # << >>
  BY <1>2, NormalizeLiteralType, NormalizeOver
<1>4. set[0] = << >> /\ NormalizeArgument(arg) = set[n] /\ \A i \in 1 .. n : set[i] = Distribute(set[i - 1], f(i))
  BY <1>1 DEF NormalizeSteps
<1> HIDE DEF f, n
<1> DEFINE Good(i) == /\ set[i] # << >>
                      /\ \A S : Meets(set[i], S) <=> \E h \in 1 .. i : Meets(f(h), S)
                      /\ \A S : Within(set[i], S) <=> \A h \in 1 .. i : Within(f(h), S)
           G == {i \in 0 .. n : i # 0 => Good(i)}
<1>5. ASSUME NEW i \in 1 .. n, i - 1 \in G PROVE Good(i)
  <2>1. i - 1 \in 0 .. n /\ set[i - 1] \in NormalCNF
    BY <1>2
  <2>2. CASE i = 1
    <3>1. set[i] = f(1)
      <4>1. 1 - 1 = 0 /\ set[i] = Distribute(set[i - 1], f(i))
        BY <1>4
      <4>2. set[i] = Distribute(<< >>, f(1))
        BY <1>4, <2>2, <4>1
      <4> QED BY <4>2 DEF Distribute
    <3>2. \A h : h \in 1 .. i <=> h = 1
      BY <2>2
    <3> QED BY <1>3, <2>2, <3>1, <3>2
  <2>3. CASE i # 1
    <3>1. i - 1 # 0 /\ \A h : h \in 1 .. i <=> h \in 1 .. i - 1 \/ h = i
      BY <2>1, <2>3
    <3> DEFINE j == i - 1
    <3>2. Good(j)
      BY <1>5, <3>1
    <3>3. j \in 0 .. n /\ (\A h : h \in 1 .. i <=> h \in 1 .. j \/ h = i) /\ set[j] \in NormalCNF
      BY <2>1, <3>1
    <3>4. set[i] = Distribute(set[j], f(i))
      BY <1>4
    <3> HIDE DEF j
    <3>5. /\ set[i] # << >>
          /\ \A S : Meets(set[i], S) <=> Meets(set[j], S) \/ Meets(f(i), S)
          /\ \A S : Within(set[i], S) <=> Within(set[j], S) /\ Within(f(i), S)
      BY <1>3, <3>2, <3>3, <3>4, DistributeMeans
    <3>6. \A S : Meets(set[i], S) <=> \E h \in 1 .. i : Meets(f(h), S)
      BY <3>2, <3>3, <3>5
    <3>7. \A S : Within(set[i], S) <=> \A h \in 1 .. i : Within(f(h), S)
      BY <3>2, <3>3, <3>5
    <3> QED BY <3>5, <3>6, <3>7
  <2> QED BY <2>2, <2>3
<1>6. 0 \in G /\ \A i \in 1 .. n : i - 1 \in G => i \in G
  <2>1. 0 \in 0 .. n /\ \A i \in 1 .. n : i \in 0 .. n
    BY <1>2
  <2> HIDE DEF Good
  <2>2. \A i \in 1 .. n : i - 1 \in G => Good(i)
    BY <1>5 DEF G
  <2> QED BY <2>1, <2>2
<1>7. n \in G
  <2> HIDE DEF G
  <2>1. 0 .. n \subseteq G
    BY <1>2, <1>6, BoundedInduction
  <2>2. n \in 0 .. n
    BY <1>2
  <2> QED BY <2>1, <2>2
<1>8. Good(n)
  BY <1>2, <1>7
<1> QED BY <1>4, <1>8 DEF f, n

-----------------------------------------------------------------------------
(* Names and predicates.                                                   *)

Pieces == UNION {ToSet(v) : v \in VarNames}

LEMMA NameIsSequence ==
  ASSUME NEW v \in VarNames
  PROVE  /\ v \in Seq(Pieces) /\ Len(v) \in Nat \ {0} /\ v = [i \in 1 .. Len(v) |-> v[i]]
         /\ v # NoName /\ v # StrayBracket.v
<1>1. Len(v) \in Nat \ {0} /\ v = [i \in 1 .. Len(v) |-> v[i]] /\ v # StrayBracket.v
  BY NamesAssumption
<1> DEFINE n == Len(v)
<1>2. n \in Nat /\ v = [i \in 1 .. n |-> v[i]]
  BY <1>1
<1> HIDE DEF n
<1>3. \A i \in 1 .. n : v[i] \in Pieces
  BY <1>2 DEF Pieces, ToSet
<1>4. v \in [1 .. n -> Pieces]
  BY <1>2, <1>3
<1>5. v \in Seq(Pieces)
  BY <1>2, <1>4, SeqOfFunction
<1>6. v # NoName
  BY <1>1 DEF NoName
<1> QED BY <1>1, <1>5, <1>6

\* The pieces of a predicate are those of its variable and its constant.
LEMMA PredicatePieces ==
  ASSUME NEW v \in VarNames, NEW c \in Int
  PROVE  /\ P(v, c).kind = "p" /\ P(v, c).pieces = v \o <<c>>
         /\ v \o <<c>> \in Seq(Pieces \cup Int) /\ Len(v \o <<c>>) = Len(v) + 1
         /\ (v \o <<c>>)[Len(v) + 1] = c
         /\ \A i \in 1 .. Len(v) : (v \o <<c>>)[i] = v[i]
<1> DEFINE X == Pieces \cup Int
           one == <<c>>
<1>1. Len(v) \in Nat /\ v \in [1 .. Len(v) -> Pieces]
  BY NameIsSequence, LenProperties
<1>2. v \in Seq(X)
  <2>1. v \in [1 .. Len(v) -> X]
    BY <1>1
  <2> HIDE DEF X
  <2> QED BY <1>1, <2>1, SeqOfFunction
<1>3. one \in Seq(X) /\ Len(one) = 1 /\ one[1] = c
  <2>1. c \in X
    OBVIOUS
  <2> HIDE DEF X
  <2> QED BY <2>1
<1> HIDE DEF X, one
<1>4. /\ v \o one \in Seq(X) /\ Len(v \o one) = Len(v) + Len(one)
      /\ \A i \in 1 .. Len(v) : (v \o one)[i] = v[i]
      /\ \A j \in 1 .. Len(one) : (v \o one)[Len(v) + j] = one[j]
  <2>1. one \in Seq(X)
    BY <1>3
  <2>2. /\ v \o one \in Seq(X) /\ Len(v) \in Nat /\ Len(one) \in Nat /\ Len(v \o one) = Len(v) + Len(one)
        /\ DOMAIN v = 1 .. Len(v) /\ DOMAIN one = 1 .. Len(one) /\ DOMAIN (v \o one) = 1 .. (Len(v) + Len(one))
        /\ \A i \in 1 .. Len(v) : i \in 1 .. (Len(v) + Len(one)) /\ (v \o one)[i] = v[i]
        /\ \A j \in 1 .. Len(one) : Len(v) + j \in 1 .. (Len(v) + Len(one)) /\ (v \o one)[Len(v) + j] = one[j]
    BY <1>2, <2>1, ConcatItems
  <2> QED BY <2>2
<1>5. 1 \in 1 .. Len(one)
  BY <1>3
<1>6. Len(v \o one) = Len(v) + 1 /\ (v \o one)[Len(v) + 1] = c
  BY <1>3, <1>4, <1>5
<1>7. P(v, c).kind = "p" /\ P(v, c).pieces = v \o one
  BY DEF P, one
<1> QED BY <1>4, <1>6, <1>7 DEF X, one

LEMMA PredicatesDiffer ==
  ASSUME NEW v \in VarNames, NEW c \in Int, NEW w \in VarNames, NEW d \in Int,
         P(v, c).pieces = P(w, d).pieces
  PROVE  v = w /\ c = d
<1> DEFINE s == v \o <<c>>
           t == w \o <<d>>
<1>1. Len(s) = Len(v) + 1 /\ s[Len(v) + 1] = c /\ \A i \in 1 .. Len(v) : s[i] = v[i]
  BY PredicatePieces
<1>2. Len(t) = Len(w) + 1 /\ t[Len(w) + 1] = d /\ \A i \in 1 .. Len(w) : t[i] = w[i]
  BY PredicatePieces
<1>3. s = t
  BY DEF P
<1> HIDE DEF s, t
<1>4. Len(v) \in Nat /\ Len(w) \in Nat
  BY NameIsSequence
<1>5. Len(v) = Len(w) /\ c = d
  BY <1>1, <1>2, <1>3, <1>4
<1>6. v = [i \in 1 .. Len(v) |-> v[i]] /\ w = [i \in 1 .. Len(w) |-> w[i]]
  BY NameIsSequence
<1>7. \A i \in 1 .. Len(v) : v[i] = w[i]
  BY <1>1, <1>2, <1>3, <1>5
<1> QED BY <1>5, <1>6, <1>7

-----------------------------------------------------------------------------
(* What every stage has made of the command line.                          *)

ArgsDone == IF pc = "variables" THEN 0 ELSE IF pc = "arguments" THEN encoded ELSE Len(input.args)

ConstraintsAreTheArguments ==
  pc # "error" =>
    ToSet(constraints) = UNION {ToSet(NormalizeArgument(input.args[i])) : i \in 1 .. ArgsDone}

ClausesAreParsed ==
  pc \in {"clauses", "order", "exported"} =>
    /\ \A c \in ToSet(constraints) : \A l \in ToSet(c) : ~ParseFails(l, Declared)
    /\ clauses = [i \in DOMAIN constraints |->
                    [j \in DOMAIN constraints[i] |-> ParseInequation(constraints[i][j])]]

FileIsTheCNF ==
  pc = "exported" =>
    /\ \A c \in cnf : \A lit \in c : Contains(boolVars, lit[1])
    /\ dimacs = [vars |-> Len(boolVars), clauses |-> {{LiteralToNumber(lit) : lit \in c} : c \in cnf}]

\* A predicate is numbered once, and only by an order relation.
PredicatesNumberedOnce ==
  \A i \in DOMAIN boolVars : boolVars[i].kind = "p" =>
    /\ \E k \in 1 .. OrdersDone : \E c \in (input.vars[k].l - 1) .. input.vars[k].u :
          boolVars[i] = P(input.vars[k].v, c)
    /\ \A j \in DOMAIN boolVars : boolVars[j] = boolVars[i] => j = i

MInv ==
  /\ SInv
  /\ ConstraintsAreTheArguments /\ ClausesAreParsed /\ FileIsTheCNF /\ PredicatesNumberedOnce

LEMMA ItemsOfConcat ==
  ASSUME NEW S, NEW s \in Seq(S), NEW t \in Seq(S)
  PROVE  ToSet(s \o t) = ToSet(s) \cup ToSet(t)
<1> DEFINE st == s \o t
<1>1. st \in Seq(S) /\ \A x : Contains(st, x) <=> Contains(s, x) \/ Contains(t, x)
  BY ConcatProperties, ContainsConcat
<1> HIDE DEF st
<1>2. \A q \in Seq(S) : \A x : x \in ToSet(q) <=> Contains(q, x)
  <2> TAKE q \in Seq(S)
  <2>1. DOMAIN q = 1 .. Len(q)
    BY LenProperties
  <2> QED BY <2>1 DEF ToSet, Contains
<1>3. \A x : x \in ToSet(st) <=> x \in ToSet(s) \/ x \in ToSet(t)
  BY <1>1, <1>2
<1> QED BY <1>3 DEF st

LEMMA NextConstraints ==
  ASSUME IInv, ConstraintsAreTheArguments, [Next]_vars
  PROVE  ConstraintsAreTheArguments'
<1> DEFINE N(i) == ToSet(NormalizeArgument(input.args[i]))
<1>1. input' = input
  BY DEF Next, vars, ParseVariables, ParseArgument, ArgumentsParsed, ParseInequations, ComputeClauseCNF,
         ClausesEncoded, PredicateOrderRelations, ExportToDimacs
<1>2. CASE ParseArgument
  <2> DEFINE m == encoded + 1
  <2>1. /\ pc = "arguments" /\ pc' = "arguments" /\ encoded' = m
        /\ constraints' = constraints \o NormalizeArgument(input.args[m])
    BY <1>2 DEF ParseArgument
  <2>2. encoded \in Nat /\ m \in 1 .. Len(input.args) /\ input.args[m] \in Seq(Literal)
    <3>1. Len(input.args) \in Nat /\ \A i \in 1 .. Len(input.args) : input.args[i] \in Seq(Literal)
      BY InputType DEF IInv, Typed
    <3>2. encoded \in Nat /\ m \in 1 .. Len(input.args)
      BY <1>2, <3>1 DEF IInv, Typed, ParseArgument
    <3> QED BY <3>1, <3>2
  <2>3. \A i : i \in 1 .. m <=> i \in 1 .. encoded \/ i = m
    BY <2>2
  <2> HIDE DEF m
  <2>4. ToSet(constraints') = ToSet(constraints) \cup N(m)
    <3>1. NormalizeArgument(input.args[m]) \in NormalCNF /\ constraints \in NormalCNF
      BY <2>2, NormalizeArgumentType DEF IInv, Typed
    <3> QED BY <2>1, <3>1, ItemsOfConcat DEF NormalCNF
  <2>5. ArgsDone = encoded /\ ArgsDone' = m
    BY <2>1 DEF ArgsDone
  <2>6. ToSet(constraints) = UNION {N(i) : i \in 1 .. encoded}
    BY <2>1, <2>5 DEF ConstraintsAreTheArguments
  <2> HIDE DEF N
  <2>7. ToSet(constraints') = UNION {N(i) : i \in 1 .. m}
    BY <2>3, <2>4, <2>6
  <2> QED BY <1>1, <2>5, <2>7 DEF ConstraintsAreTheArguments, N
<1>3. CASE ~ParseArgument
  <2>1. constraints' = constraints
    BY <1>3 DEF Next, vars, ParseVariables, ArgumentsParsed, ParseInequations, ComputeClauseCNF,
                ClausesEncoded, PredicateOrderRelations, ExportToDimacs
  <2>2. pc' # "error" => pc # "error" /\ ArgsDone' = ArgsDone
    <3>1. CASE ParseVariables
      BY <3>1 DEF ParseVariables, Fail, ArgsDone, IInv, Counted
    <3>2. CASE ~ParseVariables
      BY <1>1, <1>3, <3>2 DEF Next, vars, ArgumentsParsed, ParseInequations, ComputeClauseCNF,
                ClausesEncoded, PredicateOrderRelations, ExportToDimacs, Fail, ArgsDone
    <3> QED BY <3>1, <3>2
  <2> QED BY <1>1, <2>1, <2>2 DEF ConstraintsAreTheArguments
<1> QED BY <1>2, <1>3

LEMMA NextParsed ==
  ASSUME IInv, ClausesAreParsed, [Next]_vars
  PROVE  ClausesAreParsed'
<1>1. CASE ParseInequations
  <2>1. input' = input /\ constraints' = constraints /\ Declared' = Declared
    BY <1>1, SameInput DEF ParseInequations
  <2>2. CASE \E c \in ToSet(constraints) : \E l \in ToSet(c) : ParseFails(l, Declared)
    <3>1. pc' = "error"
      BY <1>1, <2>2 DEF ParseInequations, Fail
    <3> QED BY <3>1 DEF ClausesAreParsed
  <2>3. CASE ~\E c \in ToSet(constraints) : \E l \in ToSet(c) : ParseFails(l, Declared)
    <3>1. clauses' = [i \in DOMAIN constraints |->
                        [j \in DOMAIN constraints[i] |-> ParseInequation(constraints[i][j])]]
      BY <1>1, <2>3 DEF ParseInequations
    <3> QED BY <2>1, <2>3, <3>1 DEF ClausesAreParsed
  <2> QED BY <2>2, <2>3
<1>2. CASE ParseVariables \/ ParseArgument \/ ArgumentsParsed
  <2>1. pc' \in {"arguments", "inequations", "error"}
    BY <1>2 DEF ParseVariables, ParseArgument, ArgumentsParsed, Fail
  <2> QED BY <2>1 DEF ClausesAreParsed
<1>3. CASE ComputeClauseCNF \/ ClausesEncoded \/ PredicateOrderRelations \/ ExportToDimacs \/ UNCHANGED vars
  <2>1. input' = input /\ constraints' = constraints /\ clauses' = clauses
        /\ (pc \in {"clauses", "order", "exported"} \/ pc' = pc)
    BY <1>3 DEF vars, ComputeClauseCNF, ClausesEncoded, PredicateOrderRelations, ExportToDimacs
  <2>2. Declared' = Declared
    BY <2>1, SameInput
  <2> QED BY <2>1, <2>2 DEF ClausesAreParsed
<1> QED BY <1>1, <1>2, <1>3 DEF Next

LEMMA NextFile ==
  ASSUME IInv, FileIsTheCNF, [Next]_vars
  PROVE  FileIsTheCNF'
<1> DEFINE written == [vars |-> Len(boolVars), clauses |-> {{LiteralToNumber(lit) : lit \in c} : c \in cnf}]
<1>2. CASE ExportToDimacs
  <2>1. \A c \in cnf : \A lit \in c : Contains(boolVars, lit[1])
    BY <1>2, AllNumbered DEF ExportToDimacs
  <2>2. dimacs' = written /\ cnf' = cnf /\ boolVars' = boolVars
    BY <1>2, <2>1 DEF ExportToDimacs
  <2>3. written' = written
    BY <2>2 DEF LiteralToNumber, VarIndexNumber
  <2> QED BY <2>1, <2>2, <2>3 DEF FileIsTheCNF
<1>3. CASE UNCHANGED vars
  <2>1. pc' = pc /\ dimacs' = dimacs /\ cnf' = cnf /\ boolVars' = boolVars
    BY <1>3 DEF vars
  <2>2. written' = written
    BY <2>1 DEF LiteralToNumber, VarIndexNumber
  <2> QED BY <2>1, <2>2 DEF FileIsTheCNF
<1>4. CASE ~ExportToDimacs /\ ~UNCHANGED vars
  <2>1. pc' # "exported"
    BY <1>4 DEF Next, ParseVariables, ParseArgument, ArgumentsParsed, ParseInequations,
                ComputeClauseCNF, ClausesEncoded, PredicateOrderRelations, Fail
  <2> QED BY <2>1 DEF FileIsTheCNF
<1> QED BY <1>2, <1>3, <1>4

\* Each item of K has one place in s.
OnceOf(s, K) == \A i, j \in DOMAIN s : s[i] \in K /\ s[i] = s[j] => i = j

LEMMA OnceInConcat ==
  ASSUME NEW S, NEW s \in Seq(S), NEW t \in Seq(S), NEW K,
         OnceOf(s, K), OnceOf(t, K), \A x \in ToSet(t) : x \notin ToSet(s)
  PROVE  OnceOf(s \o t, K)
<1> DEFINE w == s \o t
           m == Len(s)
           n == Len(t)
<1>1. /\ m \in Nat /\ n \in Nat
      /\ DOMAIN s = 1 .. m /\ DOMAIN t = 1 .. n /\ DOMAIN w = 1 .. (m + n)
      /\ \A i \in 1 .. m : i \in 1 .. (m + n) /\ w[i] = s[i]
      /\ \A j \in 1 .. n : m + j \in 1 .. (m + n) /\ w[m + j] = t[j]
      /\ \A i \in 1 .. (m + n) : i \in 1 .. m \/ (i - m \in 1 .. n /\ i = m + (i - m))
  BY ConcatItems
<1> HIDE DEF w, m, n
<1>2. \A i \in 1 .. m : \A j \in 1 .. n : s[i] # t[j]
  BY <1>1 DEF ToSet
<1>3. ASSUME NEW i \in 1 .. (m + n), NEW j \in 1 .. (m + n), w[i] \in K, w[i] = w[j] PROVE i = j
  <2> DEFINE a == i - m
             b == j - m
  <2>1. i \in 1 .. m \/ (a \in 1 .. n /\ i = m + a)
    BY <1>1
  <2>2. j \in 1 .. m \/ (b \in 1 .. n /\ j = m + b)
    BY <1>1
  <2> HIDE DEF a, b
  <2>3. CASE i \in 1 .. m
    <3>1. CASE j \in 1 .. m
      BY <1>1, <1>3, <2>3, <3>1 DEF OnceOf
    <3>2. CASE b \in 1 .. n /\ j = m + b
      BY <1>1, <1>2, <1>3, <2>3, <3>2
    <3> QED BY <2>2, <3>1, <3>2
  <2>4. CASE a \in 1 .. n /\ i = m + a
    <3>1. CASE j \in 1 .. m
      BY <1>1, <1>2, <1>3, <2>4, <3>1
    <3>2. CASE b \in 1 .. n /\ j = m + b
      BY ZenonT(40), <1>1, <1>3, <2>4, <3>2 DEF OnceOf
    <3> QED BY <2>2, <3>1, <3>2
  <2> QED BY <2>1, <2>3, <2>4
<1> QED BY <1>1, <1>3 DEF OnceOf, w

LEMMA NewAreOnce ==
  ASSUME NEW S, NEW s \in Seq(S), NEW ps \in Seq(S), Distinct(ps)
  PROVE  LET new == Selected(ps, {i \in DOMAIN ps : ~Contains(s, ps[i])})
         IN  /\ new \in Seq(S) /\ Distinct(new)
             /\ \A x \in ToSet(new) : x \in ToSet(ps) /\ x \notin ToSet(s)
<1> DEFINE I == {i \in DOMAIN ps : ~Contains(s, ps[i])}
           new == Selected(ps, I)
<1>1. DOMAIN ps = 1 .. Len(ps) /\ DOMAIN s = 1 .. Len(s)
  BY LenProperties
<1>2. \A i \in I : i \in DOMAIN ps /\ ps[i] \notin ToSet(s)
  BY <1>1 DEF Contains, ToSet
<1> HIDE DEF I
<1>3. new \in Seq(S) /\ Chosen(new, ps, I)
  BY SelectedItems
<1>4. Distinct(new)
  <2>1. \A i, j \in 1 .. Len(ps) : i \in I /\ j \in I /\ ps[i] = ps[j] => i = j
    BY <1>1 DEF Distinct
  <2> QED BY <2>1, SelectedDistinct
<1> HIDE DEF new
<1>5. \A x \in ToSet(new) : x \in ToSet(ps) /\ x \notin ToSet(s)
  <2> TAKE x \in ToSet(new)
  <2>1. PICK k \in DOMAIN new : new[k] = x
    BY DEF ToSet
  <2>2. PICK i \in 1 .. Len(ps) : i \in I /\ ps[i] = x
    BY <1>3, <2>1 DEF Chosen
  <2> QED BY <1>2, <2>2 DEF ToSet
<1> QED BY <1>3, <1>4, <1>5 DEF new, I

\* An order relation adds the predicates of its domain.
LEMMA PredicateVariablesItems ==
  ASSUME NEW v \in VarNames, NEW d, d.l \in Int, d.u \in Int, d.l <= d.u
  PROVE  /\ PredicateVariables(v, d) \in Seq(BoolVars) /\ Distinct(PredicateVariables(v, d))
         /\ \A x \in ToSet(PredicateVariables(v, d)) : \E c \in (d.l - 1) .. d.u : x = P(v, c)
<1> DEFINE l == d.l
           u == d.u
           n == u - l + 2
           f == [k \in 1 .. n |-> P(v, l + k - 2)]
           g == <<P(v, l - 1), P(v, u)>>
           s == g \o f
           K == {P(v, c) : c \in (l - 1) .. u}
<1>1. l \in Int /\ u \in Int /\ l <= u
  OBVIOUS
<1> HIDE DEF l, u
<1>2. n \in Nat
  BY <1>1
<1>3. \A k \in 1 .. n : l + k - 2 \in (l - 1) .. u
  BY <1>1
<1>4. f \in Seq(K)
  <2>1. f \in [1 .. n -> K]
    BY <1>3
  <2> HIDE DEF f, n, K
  <2> QED BY <1>2, <2>1, SeqOfFunction
<1>5. g \in Seq(K)
  <2>1. P(v, l - 1) \in K /\ P(v, u) \in K
    BY <1>1
  <2> DEFINE p == P(v, l - 1)
             q == P(v, u)
  <2> HIDE DEF p, q, K
  <2> QED BY <2>1 DEF p, q
<1> HIDE DEF f, g, n
<1>6. s \in Seq(K)
  <2> HIDE DEF K
  <2> QED BY <1>4, <1>5, ConcatProperties
<1>7. PredicateVariables(v, d) = Unique(s)
  BY DEF PredicateVariables, s, f, g, n, l, u
<1> HIDE DEF s, K
<1>8. Unique(s) \in Seq(K) /\ Distinct(Unique(s))
  BY <1>6, UniqueItems, UniqueDistinct
<1>9. \A x \in ToSet(Unique(s)) : x \in K
  BY <1>8, LenProperties, ElementOfSeq DEF ToSet
<1>10. PredicateVariables(v, d) \in Seq(BoolVars)
  BY PredicateVariablesType
<1> QED BY <1>7, <1>8, <1>9, <1>10 DEF K, l, u

Predicates == {b \in BoolVars : b.kind = "p"}

\* The invariant of the predicates, in the terms of the lemmas above.
LEMMA NumberedOnceItems ==
  ASSUME boolVars \in Seq(BoolVars)
  PROVE  PredicatesNumberedOnce <=>
           /\ OnceOf(boolVars, Predicates)
           /\ \A x \in ToSet(boolVars) : x.kind = "p" =>
                \E k \in 1 .. OrdersDone : \E c \in (input.vars[k].l - 1) .. input.vars[k].u :
                   x = P(input.vars[k].v, c)
<1>1. \A i \in DOMAIN boolVars : boolVars[i] \in BoolVars
  BY LenProperties, ElementOfSeq
<1>2. OnceOf(boolVars, Predicates) <=>
        \A i \in DOMAIN boolVars : boolVars[i].kind = "p" =>
           \A j \in DOMAIN boolVars : boolVars[j] = boolVars[i] => j = i
  BY <1>1 DEF OnceOf, Predicates
<1> DEFINE Src(x) == \E k \in 1 .. OrdersDone : \E c \in (input.vars[k].l - 1) .. input.vars[k].u :
                        x = P(input.vars[k].v, c)
<1>3. PredicatesNumberedOnce <=>
        \A i \in DOMAIN boolVars : boolVars[i].kind = "p" =>
           Src(boolVars[i]) /\ \A j \in DOMAIN boolVars : boolVars[j] = boolVars[i] => j = i
  BY DEF PredicatesNumberedOnce
<1> HIDE DEF Src
<1>4. (\A x \in ToSet(boolVars) : x.kind = "p" => Src(x))
        <=> \A i \in DOMAIN boolVars : boolVars[i].kind = "p" => Src(boolVars[i])
  BY DEF ToSet
<1>5. PredicatesNumberedOnce <=>
        OnceOf(boolVars, Predicates) /\ \A x \in ToSet(boolVars) : x.kind = "p" => Src(x)
  BY <1>2, <1>3, <1>4
<1> QED BY <1>5 DEF Src

LEMMA NextPredicates ==
  ASSUME IInv, PredicatesNumberedOnce, [Next]_vars
  PROVE  PredicatesNumberedOnce'
<1> DEFINE Src(x) == \E k \in 1 .. OrdersDone : \E c \in (input.vars[k].l - 1) .. input.vars[k].u :
                        x = P(input.vars[k].v, c)
<1>1. IInv' /\ boolVars \in Seq(BoolVars) /\ boolVars' \in Seq(BoolVars)
  BY NextIInv DEF IInv, Typed
<1>2. OnceOf(boolVars, Predicates) /\ \A x \in ToSet(boolVars) : x.kind = "p" => Src(x)
  BY <1>1, NumberedOnceItems
<1>3. PredicatesNumberedOnce' <=>
        OnceOf(boolVars', Predicates) /\ \A x \in ToSet(boolVars') : x.kind = "p" => Src(x)'
  <2>1. Predicates' = Predicates
    BY DEF Predicates, BoolVars, P, Q
  <2>2. (boolVars \in Seq(BoolVars))'
    <3>1. BoolVars' = BoolVars
      BY DEF BoolVars, P, Q
    <3> QED BY <1>1, <3>1
  <2>3. (PredicatesNumberedOnce <=>
           OnceOf(boolVars, Predicates) /\ \A x \in ToSet(boolVars) : x.kind = "p" => Src(x))'
    BY <2>2, NumberedOnceItems, PTL
  <2> QED BY <2>3
<1>4. input' = input
  BY DEF Next, vars, ParseVariables, ParseArgument, ArgumentsParsed, ParseInequations, ComputeClauseCNF,
         ClausesEncoded, PredicateOrderRelations, ExportToDimacs
<1>5. CASE boolVars' = boolVars /\ OrdersDone' = OrdersDone
  <2>1. \A x : Src(x)' = Src(x)
    BY <1>4, <1>5
  <2> HIDE DEF Src
  <2> QED BY <1>2, <1>3, <1>5, <2>1
<1>6. CASE ComputeClauseCNF /\ boolVars' # boolVars
  <2> DEFINE c == clauses[encoded + 1]
             qs == ClauseIndicators(encoded, c)
  <2>1. pc = "clauses" /\ pc' = "clauses" /\ boolVars' = boolVars \o qs
    BY <1>6 DEF ComputeClauseCNF
  <2>2. encoded \in Nat /\ c \in Seq(InequationsOver(Declared))
    <3>1. Len(clauses) \in Nat /\ \A i \in 1 .. Len(clauses) : clauses[i] \in Seq(InequationsOver(Declared))
      BY LenProperties, ElementOfSeq DEF IInv, Typed
    <3>2. encoded \in Nat /\ encoded + 1 \in 1 .. Len(clauses)
      BY <1>6, <3>1 DEF IInv, Typed, ComputeClauseCNF
    <3> QED BY <3>1, <3>2
  <2>3. qs \in Seq(BoolVars)
    <3> HIDE DEF c
    <3> QED BY <2>2, IndicatorsType
  <2>4. \A x \in ToSet(qs) : x.kind = "q"
    <3>1. \A i, j : Q(i, j).kind = "q"
      BY Zenon DEF Q
    <3> HIDE DEF c
    <3> QED BY <3>1 DEF ToSet, ClauseIndicators
  <2> HIDE DEF qs
  <2>5. ToSet(boolVars') = ToSet(boolVars) \cup ToSet(qs)
    BY <1>1, <2>1, <2>3, ItemsOfConcat
  <2>6. OrdersDone = 0
    BY <2>1 DEF OrdersDone
  <2>7. \A x \in ToSet(boolVars) : x.kind # "p"
    <3>1. ~\E k \in 1 .. 0 : TRUE
      OBVIOUS
    <3> QED BY <1>2, <2>6, <3>1
  <2>8. \A x \in ToSet(boolVars') : x.kind # "p"
    BY <2>4, <2>5, <2>7
  <2>9. OnceOf(boolVars', Predicates)
    BY <2>8 DEF OnceOf, Predicates, ToSet
  <2> HIDE DEF Src
  <2> QED BY <1>3, <2>8, <2>9
<1>7. CASE PredicateOrderRelations
  <2> DEFINE n == encoded + 1
             x == input.vars[n]
             ps == PredicateVariables(x.v, x)
             new == Selected(ps, {i \in DOMAIN ps : ~Contains(boolVars, ps[i])})
  <2>1. pc = "order" /\ pc' = "order" /\ boolVars' = boolVars \o new /\ encoded' = n
    BY <1>7 DEF PredicateOrderRelations
  <2>2. encoded \in Nat /\ x.v \in VarNames /\ x.l \in Int /\ x.u \in Int /\ x.l <= x.u
    <3>1. Len(input.vars) \in Nat /\ \A i \in 1 .. Len(input.vars) :
            /\ input.vars[i].v \in VarNames
            /\ input.vars[i].l \in Int /\ input.vars[i].u \in Int
      BY InputType DEF IInv, Typed
    <3>2. encoded \in Nat /\ n \in 1 .. Len(input.vars)
      <4>1. encoded \in Nat
        BY DEF IInv, Typed
      <4>2. encoded < Len(input.vars)
        BY <1>7 DEF PredicateOrderRelations
      <4> QED BY ONLY <3>1, <4>1, <4>2
    <3> HIDE DEF n
    <3> QED BY <2>1, <3>1, <3>2 DEF IInv, DomainsNotEmpty
  <2>3. OrdersDone = encoded /\ OrdersDone' = n
    BY <2>1 DEF OrdersDone
  <2>4. /\ ps \in Seq(BoolVars) /\ Distinct(ps)
        /\ \A y \in ToSet(ps) : \E c \in (x.l - 1) .. x.u : y = P(x.v, c)
    <3> HIDE DEF x
    <3> QED BY <2>2, PredicateVariablesItems
  <2>5. new \in Seq(BoolVars) /\ Distinct(new) /\ \A y \in ToSet(new) : y \in ToSet(ps) /\ y \notin ToSet(boolVars)
    <3> HIDE DEF ps
    <3> QED BY <1>1, <2>4, NewAreOnce
  <2> HIDE DEF new, ps
  <2>6. OnceOf(new, Predicates)
    BY <2>5 DEF Distinct, OnceOf
  <2>7. OnceOf(boolVars', Predicates)
    BY <1>1, <1>2, <2>1, <2>5, <2>6, OnceInConcat
  <2>8. ToSet(boolVars') = ToSet(boolVars) \cup ToSet(new)
    BY <1>1, <2>1, <2>5, ItemsOfConcat
  <2>9. \A y \in ToSet(boolVars') : y.kind = "p" =>
          \E k \in 1 .. n : \E c \in (input.vars[k].l - 1) .. input.vars[k].u : y = P(input.vars[k].v, c)
    <3> TAKE y \in ToSet(boolVars')
    <3>1. n \in 1 .. n /\ \A k : k \in 1 .. n <=> k \in 1 .. encoded \/ k = n
      BY <2>2
    <3> HIDE DEF n
    <3>2. CASE y \in ToSet(boolVars)
      BY <1>2, <2>3, <3>1, <3>2
    <3>3. CASE y \in ToSet(new)
      BY <2>4, <2>5, <3>1, <3>3
    <3> QED BY <2>8, <3>2, <3>3
  <2>10. \A y : Src(y)' <=>
          \E k \in 1 .. n : \E c \in (input.vars[k].l - 1) .. input.vars[k].u : y = P(input.vars[k].v, c)
    <3> HIDE DEF n
    <3> QED BY <1>4, <2>3
  <2> HIDE DEF Src
  <2> QED BY <1>3, <2>7, <2>9, <2>10
<1>8. CASE ~(ComputeClauseCNF /\ boolVars' # boolVars) /\ ~PredicateOrderRelations
  <2>1. CASE ExportToDimacs
    <3>1. pc' = "exported"
      BY <2>1, ExportToDimacsStep
    <3> QED BY <1>5, <2>1, <3>1 DEF ExportToDimacs, OrdersDone
  <2>2. CASE ParseVariables \/ ParseArgument \/ ArgumentsParsed \/ ParseInequations
    BY <1>5, <2>2 DEF ParseVariables, ParseArgument, ArgumentsParsed, ParseInequations, Fail, OrdersDone
  <2>3. CASE ClausesEncoded
    BY <1>5, <2>3 DEF ClausesEncoded, OrdersDone
  <2>4. CASE ComputeClauseCNF
    <3>1. pc = "clauses" /\ pc' \in {"clauses", "error"}
      BY <2>4 DEF ComputeClauseCNF, Fail
    <3> QED BY <1>5, <1>8, <2>4, <3>1 DEF OrdersDone
  <2>5. CASE UNCHANGED vars
    BY <1>5, <2>5 DEF vars, OrdersDone
  <2> QED BY <1>8, <2>1, <2>2, <2>3, <2>4, <2>5 DEF Next
<1> QED BY <1>6, <1>7, <1>8

LEMMA InitMInv == Init => MInv
<1> SUFFICES ASSUME Init PROVE MInv
  OBVIOUS
<1>1. SInv
  BY InitIInv DEF Init, SInv, CNFIsTheClauses
<1>2. ConstraintsAreTheArguments
  <2>1. ToSet(<< >>) = {} /\ ~\E i \in 1 .. 0 : TRUE
    BY DEF ToSet
  <2>2. constraints = << >> /\ ArgsDone = 0
    BY DEF Init, ArgsDone
  <2>3. (UNION {ToSet(NormalizeArgument(input.args[i])) : i \in 1 .. 0}) = {}
    BY <2>1
  <2> QED BY <2>1, <2>2, <2>3 DEF ConstraintsAreTheArguments
<1>3. ClausesAreParsed /\ FileIsTheCNF /\ PredicatesNumberedOnce
  BY DEF Init, ClausesAreParsed, FileIsTheCNF, PredicatesNumberedOnce
<1> QED BY <1>1, <1>2, <1>3 DEF MInv

LEMMA NextMInv == MInv /\ [Next]_vars => MInv'
BY NextIInv, NextClauses, NextConstraints, NextParsed, NextFile, NextPredicates DEF MInv, SInv

LEMMA SpecMInv == Spec => []MInv
BY InitMInv, NextMInv, PTL DEF Spec

-----------------------------------------------------------------------------
(* A model of the file as a truth assignment.                              *)

TruthOf(m) == [b \in BoolVars |-> VarIndexNumber(b) \in m]

LEMMA LiteralNumber ==
  ASSUME MInv, pc = "exported", NEW m \in SUBSET (1 .. Len(boolVars)), NEW lit, Contains(boolVars, lit[1])
  PROVE  LET n == LiteralToNumber(lit)
         IN  (IF n > 0 THEN n \in m ELSE -n \notin m) <=> (TruthOf(m)[lit[1]] <=> lit[2])
<1> DEFINE k == VarIndexNumber(lit[1])
           n == LiteralToNumber(lit)
<1>1. boolVars \in Seq(BoolVars) /\ Typed /\ Len(boolVars) \in Nat
  BY LenProperties DEF MInv, SInv, IInv, Typed
<1>2. k \in 1 .. Len(boolVars)
  BY <1>1, VarIndexNumberInRange
<1>3. lit[1] \in BoolVars
  BY <1>1, ElementOfSeq DEF Contains
<1>4. TruthOf(m)[lit[1]] = (k \in m)
  BY <1>3 DEF TruthOf
<1>5. n = IF lit[2] THEN k ELSE -k
  BY DEF LiteralToNumber
<1> HIDE DEF k, n
<1>6. CASE lit[2]
  <2>1. n = k /\ n > 0
    BY <1>1, <1>2, <1>5, <1>6
  <2> QED BY <1>4, <1>6, <2>1 DEF n
<1>7. CASE ~lit[2]
  <2>1. n = -k /\ ~(n > 0) /\ -n = k
    BY <1>1, <1>2, <1>5, <1>7
  <2> QED BY <1>4, <1>7, <2>1 DEF n
<1> QED BY <1>6, <1>7

LEMMA ModelsSatisfy ==
  ASSUME MInv, pc = "exported", NEW m
  PROVE  m \in Models <=> m \in SUBSET (1 .. Len(boolVars)) /\ Satisfied(cnf, TruthOf(m))
<1> DEFINE Good(n) == IF n > 0 THEN n \in m ELSE -n \notin m
           Is(lit) == TruthOf(m)[lit[1]] <=> lit[2]
           f == {{LiteralToNumber(lit) : lit \in c} : c \in cnf}
<1>1. dimacs.vars = Len(boolVars) /\ dimacs.clauses = f
      /\ \A c \in cnf : \A lit \in c : Contains(boolVars, lit[1])
  BY DEF MInv, FileIsTheCNF
<1>2. m \in Models <=> m \in SUBSET (1 .. Len(boolVars)) /\ \A c \in f : \E n \in c : Good(n)
  BY <1>1 DEF Models, IsModel
<1>3. ASSUME m \in SUBSET (1 .. Len(boolVars))
      PROVE  \A c \in cnf : \A lit \in c : Good(LiteralToNumber(lit)) <=> Is(lit)
  BY <1>1, <1>3, LiteralNumber
<1>4. Satisfied(cnf, TruthOf(m)) <=> \A c \in cnf : \E lit \in c : Is(lit)
  BY DEF Satisfied
<1> HIDE DEF Is, Good
<1>5. (\A c \in f : \E n \in c : Good(n)) <=> \A c \in cnf : \E lit \in c : Good(LiteralToNumber(lit))
  <2> DEFINE numbers(c) == {LiteralToNumber(lit) : lit \in c}
  <2>1. \A c : (\E n \in numbers(c) : Good(n)) <=> \E lit \in c : Good(LiteralToNumber(lit))
    OBVIOUS
  <2>2. f = {numbers(c) : c \in cnf}
    OBVIOUS
  <2> HIDE DEF numbers, f
  <2> QED BY <2>1, <2>2
<1> QED BY <1>2, <1>3, <1>4, <1>5

\* The predicates a model makes true are those of the declared domains that
\* are true in its truth assignment.
LEMMA TruePredicatesAre ==
  ASSUME MInv, pc = "exported", NEW m \in SUBSET (1 .. Len(boolVars)), NEW x
  PROVE  x \in TruePredicates(m) <=>
           \E k \in 1 .. Len(input.vars) : \E c \in (input.vars[k].l - 1) .. input.vars[k].u :
              TruthOf(m)[P(input.vars[k].v, c)] /\ x = P(input.vars[k].v, c).pieces
<1>1. boolVars \in Seq(BoolVars) /\ Typed
  BY DEF MInv, SInv, IInv, Typed
<1>2. Len(boolVars) \in Nat /\ DOMAIN boolVars = 1 .. Len(boolVars)
      /\ \A n \in 1 .. Len(boolVars) : boolVars[n] \in BoolVars
  BY <1>1, LenProperties, ElementOfSeq
<1>3. encoded = Len(input.vars) /\ OrdersDone = Len(input.vars)
  BY DEF MInv, SInv, IInv, Counted, OrdersDone
<1>4. \A b : Contains(boolVars, b) =>
        /\ VarIndexNumber(b) \in 1 .. Len(boolVars) /\ boolVars[VarIndexNumber(b)] = b
        /\ b \in BoolVars /\ (TruthOf(m)[b] <=> VarIndexNumber(b) \in m)
  <2> SUFFICES ASSUME NEW b, Contains(boolVars, b)
               PROVE  /\ VarIndexNumber(b) \in 1 .. Len(boolVars) /\ boolVars[VarIndexNumber(b)] = b
                      /\ b \in BoolVars /\ (TruthOf(m)[b] <=> VarIndexNumber(b) \in m)
    OBVIOUS
  <2> DEFINE I == {i \in DOMAIN boolVars : boolVars[i] = b}
  <2>1. I # {} /\ I \subseteq Nat /\ VarIndexNumber(b) = Min(I)
    BY <1>2 DEF Contains, VarIndexNumber
  <2>2. VarIndexNumber(b) \in I
    <3> HIDE DEF I
    <3> QED BY <2>1, MinIsLeast
  <2>3. b \in BoolVars
    BY <1>2 DEF Contains
  <2> QED BY <1>2, <2>2, <2>3 DEF TruthOf
<1>5. ASSUME NEW k \in 1 .. Len(input.vars), NEW c \in (input.vars[k].l - 1) .. input.vars[k].u,
             TruthOf(m)[P(input.vars[k].v, c)], x = P(input.vars[k].v, c).pieces
      PROVE  x \in TruePredicates(m)
  <2> DEFINE b == P(input.vars[k].v, c)
             n == VarIndexNumber(b)
  <2>1. Contains(boolVars, b)
    BY <1>3 DEF MInv, SInv, IInv, OrdersNumbered
  <2>2. n \in m /\ boolVars[n] = b
    BY <1>4, <1>5, <2>1
  <2>3. b.kind = "p"
    BY DEF P
  <2> HIDE DEF b, n
  <2> QED BY <1>5, <2>2, <2>3 DEF TruePredicates, b
<1>6. ASSUME x \in TruePredicates(m)
      PROVE  \E k \in 1 .. Len(input.vars) : \E c \in (input.vars[k].l - 1) .. input.vars[k].u :
                TruthOf(m)[P(input.vars[k].v, c)] /\ x = P(input.vars[k].v, c).pieces
  <2>1. PICK n \in m : boolVars[n].kind = "p" /\ x = boolVars[n].pieces
    BY <1>6 DEF TruePredicates
  <2>2. n \in DOMAIN boolVars
    BY <1>2
  <2>3. /\ \E k \in 1 .. OrdersDone : \E c \in (input.vars[k].l - 1) .. input.vars[k].u :
             boolVars[n] = P(input.vars[k].v, c)
        /\ \A j \in DOMAIN boolVars : boolVars[j] = boolVars[n] => j = n
    BY <2>1, <2>2 DEF MInv, PredicatesNumberedOnce
  <2>4. Contains(boolVars, boolVars[n])
    BY <1>2, <2>2 DEF Contains
  <2>5. TruthOf(m)[boolVars[n]]
    BY <1>2, <1>4, <2>3, <2>4
  <2> QED BY <1>3, <2>1, <2>3, <2>5
<1> QED BY <1>5, <1>6

-----------------------------------------------------------------------------
(* The value a truth assignment tells.                                     *)

LEMMA LeastIs ==
  ASSUME NEW S, S \subseteq Int, NEW x \in S, \A y \in S : x <= y
  PROVE  Min(S) = x
<1>1. Min(S) \in S /\ \A y \in S : Min(S) <= y
  BY DEF Min
<1>2. Min(S) \in Int /\ x \in Int /\ Min(S) <= x /\ x <= Min(S)
  BY <1>1
<1> QED BY <1>2

LEMMA GreatestIs ==
  ASSUME NEW S, S \subseteq Int, NEW x \in S, \A y \in S : y <= x
  PROVE  Max(S) = x
<1>1. Max(S) \in S /\ \A y \in S : Max(S) >= y
  BY DEF Max
<1>2. Max(S) \in Int /\ x \in Int /\ Max(S) >= x /\ Max(S) <= x
  BY <1>1
<1> QED BY <1>2

LEMMA GreatestOf ==
  ASSUME NEW n \in Nat, NEW f, NEW I, \A i \in I : i \in 1 .. n /\ f[i] \in Int, NEW h \in I
  PROVE  \E i \in I : \A j \in I : f[j] <= f[i]
<1> DEFINE Greatest(k, i) == i \in I /\ i \in 1 .. k /\ \A j \in I : j \in 1 .. k => f[j] <= f[i]
           G == {k \in 0 .. n : (\E i \in I : i \in 1 .. k) => \E i : Greatest(k, i)}
<1>1. 0 \in G
  OBVIOUS
<1>2. ASSUME NEW k \in 1 .. n, k - 1 \in G PROVE k \in G
  <2> DEFINE p == k - 1
  <2>1. k \in 0 .. n /\ p \in 0 .. n /\ k \in 1 .. k /\ \A j : j \in 1 .. k <=> j \in 1 .. p \/ j = k
    OBVIOUS
  <2>2. (\E i \in I : i \in 1 .. p) => \E i : Greatest(p, i)
    BY <1>2
  <2> HIDE DEF p
  <2>3. ASSUME \E i \in I : i \in 1 .. k PROVE \E i : Greatest(k, i)
    <3>1. CASE k \notin I
      BY <2>1, <2>2, <2>3, <3>1
    <3>2. CASE k \in I /\ ~\E i \in I : i \in 1 .. p
      <4>1. \A j \in I : j \in 1 .. k => j = k
        BY <2>1, <3>2
      <4>2. f[k] \in Int /\ f[k] <= f[k]
        BY <3>2
      <4>3. Greatest(k, k)
        BY <2>1, <3>2, <4>1, <4>2
      <4> QED BY <4>3
    <3>3. CASE k \in I /\ \E i \in I : i \in 1 .. p
      <4>1. PICK i : Greatest(p, i)
        BY <2>2, <3>3
      <4>2. f[i] \in Int /\ f[k] \in Int /\ \A j \in I : f[j] \in Int
        BY <3>3, <4>1
      <4>3. CASE f[k] <= f[i]
        <5>1. Greatest(k, i)
          BY <2>1, <4>1, <4>3
        <5> QED BY <5>1
      <4>4. CASE ~(f[k] <= f[i])
        <5>1. \A j \in I : j \in 1 .. k => f[j] <= f[k]
          BY <2>1, <4>1, <4>2, <4>4
        <5>2. Greatest(k, k)
          BY <2>1, <3>3, <5>1
        <5> QED BY <5>2
      <4> QED BY <4>3, <4>4
    <3> QED BY <3>1, <3>2, <3>3
  <2> HIDE DEF Greatest
  <2> QED BY <2>1, <2>3
<1>3. n \in G
  <2> HIDE DEF G
  <2>1. 0 .. n \subseteq G
    BY <1>1, <1>2, BoundedInduction
  <2> QED BY <2>1
<1>4. \E i : Greatest(n, i)
  BY <1>3
<1> QED BY <1>4

\* Where two domains of a variable meet, they tell the same value.
LEMMA NotBelow ==
  ASSUME NEW v, NEW T, NEW d, NEW e, d.l \in Int, d.u \in Int, e.l \in Int, e.u \in Int, e.l <= d.u + 1,
         NEW x \in d.l .. d.u, NEW y \in e.l .. e.u, Tells(T, v, d, x), Tells(T, v, e, y)
  PROVE  ~(x < y)
<1> SUFFICES ASSUME x < y PROVE FALSE
  OBVIOUS
<1> DEFINE c == IF x <= e.l - 1 THEN e.l - 1 ELSE x
<1>1. c \in (d.l - 1) .. d.u /\ x <= c
  OBVIOUS
<1>2. c \in (e.l - 1) .. e.u /\ ~(y <= c)
  OBVIOUS
<1> HIDE DEF c
<1> QED BY <1>1, <1>2 DEF Tells

\* The domains declared for a name leave no gap between them.
NoGaps ==
  \A i, j \in DOMAIN input.vars :
     input.vars[i].v = input.vars[j].v => input.vars[j].l <= input.vars[i].u + 1

\* The integers val are what the predicates tell, for every declaration.
Told(T, val) ==
  \A i \in 1 .. Len(input.vars) :
    LET x == input.vars[i]
    IN  val[x.v] \in x.l .. x.u /\ Tells(T, x.v, x, val[x.v])

LEMMA OneValue ==
  ASSUME IInv, NoGaps, NEW T,
         \A i \in 1 .. Len(input.vars) : \E x \in input.vars[i].l .. input.vars[i].u :
            Tells(T, input.vars[i].v, input.vars[i], x)
  PROVE  \E val \in [Declared -> Int] : Told(T, val)
<1> DEFINE n == Len(input.vars)
           d(i) == input.vars[i]
           Is(i, x) == x \in d(i).l .. d(i).u /\ Tells(T, d(i).v, d(i), x)
           val == [v \in Declared |-> CHOOSE x : \E i \in 1 .. n : d(i).v = v /\ Is(i, x)]
<1>1. /\ n \in Nat /\ DOMAIN input.vars = 1 .. n
      /\ \A i \in 1 .. n : d(i).l \in Int /\ d(i).u \in Int
  BY InputType DEF IInv, Typed
<1>2. \A i \in 1 .. n : \E x : Is(i, x)
  OBVIOUS
<1>3. Declared = {d(i).v : i \in 1 .. n}
  BY <1>1 DEF Declared
<1>4. \A i, j \in 1 .. n : d(i).v = d(j).v => d(j).l <= d(i).u + 1
  BY <1>1 DEF NoGaps
<1>5. ASSUME NEW i \in 1 .. n, NEW j \in 1 .. n, d(i).v = d(j).v, NEW x, NEW y, Is(i, x), Is(j, y)
      PROVE  x = y
  <2> DEFINE a == d(i)
             b == d(j)
  <2>1. /\ a.l \in Int /\ a.u \in Int /\ b.l \in Int /\ b.u \in Int /\ b.l <= a.u + 1 /\ a.l <= b.u + 1
        /\ x \in a.l .. a.u /\ y \in b.l .. b.u /\ Tells(T, a.v, a, x) /\ Tells(T, a.v, b, y)
    BY <1>1, <1>4, <1>5
  <2> HIDE DEF a, b
  <2>2. ~(x < y)
    BY <2>1, NotBelow
  <2>3. ~(y < x)
    BY <2>1, NotBelow
  <2> QED BY <2>1, <2>2, <2>3
<1>6. \A i \in 1 .. n : \A x : Is(i, x) => x \in Int
  BY <1>1
<1> HIDE DEF Is, d, n
<1>7. ASSUME NEW i \in 1 .. n PROVE Is(i, val[d(i).v])
  <2> DEFINE v == d(i).v
  <2>1. val[v] = CHOOSE x : \E j \in 1 .. n : d(j).v = v /\ Is(j, x)
    BY <1>3
  <2>2. \E x : \E j \in 1 .. n : d(j).v = v /\ Is(j, x)
    BY <1>2
  <2>3. \E j \in 1 .. n : d(j).v = v /\ Is(j, val[v])
    BY <2>1, <2>2
  <2>4. PICK j \in 1 .. n : d(j).v = v /\ Is(j, val[v])
    BY <2>3
  <2>5. PICK x : Is(i, x)
    BY <1>2
  <2>6. x = val[v]
    BY <1>5, <2>4, <2>5
  <2> QED BY <2>5, <2>6
<1>8. val \in [Declared -> Int]
  <2>1. \A v \in Declared : val[v] \in Int
    BY <1>3, <1>6, <1>7
  <2> QED BY <2>1
<1>9. Told(T, val)
  <2> HIDE DEF val
  <2>1. \A i \in 1 .. n : val[d(i).v] \in d(i).l .. d(i).u /\ Tells(T, d(i).v, d(i), val[d(i).v])
    BY <1>7 DEF Is
  <2> QED BY <2>1 DEF Told, d, n
<1> QED BY <1>8, <1>9

-----------------------------------------------------------------------------
(* Reading the predicates back.                                            *)

LEMMA FrontOfPredicate ==
  ASSUME NEW v \in VarNames, NEW c \in Int
  PROVE  Front(P(v, c).pieces) = v /\ P(v, c).pieces[Len(v) + 1] = c
<1> DEFINE s == v \o <<c>>
<1>1. /\ P(v, c).pieces = s /\ s \in Seq(Pieces \cup Int) /\ Len(s) = Len(v) + 1
      /\ s[Len(v) + 1] = c /\ \A i \in 1 .. Len(v) : s[i] = v[i]
  BY PredicatePieces
<1>2. Len(v) \in Nat /\ v = [i \in 1 .. Len(v) |-> v[i]]
  BY NameIsSequence
<1> HIDE DEF s
<1> DEFINE n == Len(v)
<1>3. n \in Nat /\ Len(s) = n + 1 /\ n = Len(s) - 1
  BY <1>1, <1>2
<1> HIDE DEF n
<1>4. SubSeq(s, 1, n) = [i \in 1 .. n |-> s[i]]
  BY <1>1, <1>3
<1>5. Front(s) = SubSeq(s, 1, n)
  BY <1>3 DEF Front
<1>6. [i \in 1 .. n |-> s[i]] = [i \in 1 .. n |-> v[i]]
  BY <1>1 DEF n
<1> QED BY <1>1, <1>2, <1>4, <1>5, <1>6 DEF n

\* The constants of the true predicates of a name.
Constants(m, v) == {p[Len(v) + 1] : p \in {q \in TruePredicates(m) : Front(q) = v}}

LEMMA ConstantsAre ==
  ASSUME MInv, pc = "exported", NEW m \in SUBSET (1 .. Len(boolVars)), NEW v \in VarNames, NEW c
  PROVE  c \in Constants(m, v) <=>
           \E k \in 1 .. Len(input.vars) :
              /\ input.vars[k].v = v /\ c \in (input.vars[k].l - 1) .. input.vars[k].u
              /\ TruthOf(m)[P(v, c)]
<1> DEFINE n == Len(input.vars)
           d(k) == input.vars[k]
<1>1. \A k \in 1 .. n : d(k).v \in VarNames /\ d(k).l \in Int /\ d(k).u \in Int
  BY InputType DEF MInv, SInv, IInv, Typed
<1>2. \A x : x \in TruePredicates(m) <=>
        \E k \in 1 .. n : \E b \in (d(k).l - 1) .. d(k).u :
           TruthOf(m)[P(d(k).v, b)] /\ x = P(d(k).v, b).pieces
  BY TruePredicatesAre
<1>3. \A k \in 1 .. n : \A b \in (d(k).l - 1) .. d(k).u :
        b \in Int /\ Front(P(d(k).v, b).pieces) = d(k).v /\ P(d(k).v, b).pieces[Len(d(k).v) + 1] = b
  <2> SUFFICES ASSUME NEW k \in 1 .. n, NEW b \in (d(k).l - 1) .. d(k).u
               PROVE b \in Int /\ Front(P(d(k).v, b).pieces) = d(k).v
                     /\ P(d(k).v, b).pieces[Len(d(k).v) + 1] = b
    OBVIOUS
  <2>1. b \in Int /\ d(k).v \in VarNames
    BY <1>1
  <2> HIDE DEF d
  <2> QED BY <2>1, FrontOfPredicate
<1> HIDE DEF n, d
<1>4. ASSUME c \in Constants(m, v)
      PROVE  \E k \in 1 .. n : d(k).v = v /\ c \in (d(k).l - 1) .. d(k).u /\ TruthOf(m)[P(v, c)]
  <2>1. PICK p \in TruePredicates(m) : Front(p) = v /\ c = p[Len(v) + 1]
    BY <1>4 DEF Constants
  <2>2. PICK k \in 1 .. n : \E b \in (d(k).l - 1) .. d(k).u :
           TruthOf(m)[P(d(k).v, b)] /\ p = P(d(k).v, b).pieces
    BY <1>2, <2>1
  <2>3. PICK b \in (d(k).l - 1) .. d(k).u : TruthOf(m)[P(d(k).v, b)] /\ p = P(d(k).v, b).pieces
    BY <2>2
  <2>4. d(k).v = v /\ b = c
    BY <1>3, <2>1, <2>3
  <2> QED BY <2>3, <2>4
<1>5. ASSUME NEW k \in 1 .. n, d(k).v = v, c \in (d(k).l - 1) .. d(k).u, TruthOf(m)[P(v, c)]
      PROVE  c \in Constants(m, v)
  <2> DEFINE p == P(v, c).pieces
  <2>1. p \in TruePredicates(m)
    BY <1>2, <1>5
  <2>2. Front(p) = v /\ p[Len(v) + 1] = c
    BY <1>3, <1>5
  <2> HIDE DEF p
  <2> QED BY <2>1, <2>2 DEF Constants
<1> QED BY <1>4, <1>5 DEF n, d

\* They are the values from the one that is told to the greatest declared.
LEMMA ConstantsFrom ==
  ASSUME MInv, pc = "exported", NEW m \in SUBSET (1 .. Len(boolVars)), NEW val,
         Told(TruthOf(m), val), NEW i \in 1 .. Len(input.vars)
  PROVE  LET v == input.vars[i].v
             u == Max({input.vars[j].u : j \in {k \in DOMAIN input.vars : input.vars[k].v = v}})
         IN  Constants(m, v) = val[v] .. u /\ val[v] \in Constants(m, v) /\ val[v] \in Int /\ u \in Int
<1> DEFINE n == Len(input.vars)
           d(k) == input.vars[k]
           v == d(i).v
           x == val[v]
           I == {k \in DOMAIN input.vars : input.vars[k].v = v}
           U == {input.vars[j].u : j \in I}
           T == TruthOf(m)
<1>1. /\ n \in Nat /\ DOMAIN input.vars = 1 .. n
      /\ \A k \in 1 .. n : d(k).v \in VarNames /\ d(k).l \in Int /\ d(k).u \in Int
  BY InputType DEF MInv, SInv, IInv, Typed
<1>2. \A k \in 1 .. n : d(k).v = v =>
         x \in d(k).l .. d(k).u /\ \A c \in (d(k).l - 1) .. d(k).u : T[P(v, c)] <=> x <= c
  BY DEF Told, Tells
<1>3. \A c : c \in Constants(m, v) <=>
         \E k \in 1 .. n : d(k).v = v /\ c \in (d(k).l - 1) .. d(k).u /\ T[P(v, c)]
  <2>1. v \in VarNames
    BY <1>1
  <2> HIDE DEF v
  <2> QED BY <2>1, ConstantsAre
<1>4. I = {k \in 1 .. n : d(k).v = v} /\ i \in I
  BY <1>1
<1>5. PICK g \in I : \A j \in I : d(j).u <= d(g).u
  <2> DEFINE f == [k \in 1 .. n |-> d(k).u]
  <2>1. \A k \in I : k \in 1 .. n /\ f[k] \in Int /\ f[k] = d(k).u
    BY <1>1, <1>4
  <2> HIDE DEF f, I, d, n
  <2>2. \E g \in I : \A j \in I : f[j] <= f[g]
    BY <1>1, <1>4, <2>1, GreatestOf
  <2> QED BY <2>1, <2>2
<1>6. Max(U) = d(g).u
  <2>1. U \subseteq Int /\ d(g).u \in U /\ \A y \in U : y <= d(g).u
    BY <1>1, <1>4, <1>5
  <2> HIDE DEF U, I, d
  <2> QED BY <2>1, GreatestIs
<1>7. x \in Int /\ d(g).u \in Int /\ x <= d(g).u /\ g \in 1 .. n /\ d(g).v = v
  BY <1>1, <1>2, <1>4
<1>8. \A c : c \in Constants(m, v) => c \in x .. d(g).u
  <2> SUFFICES ASSUME NEW c \in Constants(m, v) PROVE c \in x .. d(g).u
    OBVIOUS
  <2>1. PICK k \in 1 .. n : d(k).v = v /\ c \in (d(k).l - 1) .. d(k).u /\ T[P(v, c)]
    BY <1>3
  <2>2. x <= c /\ c \in Int /\ c <= d(k).u /\ d(k).u \in Int
    BY <1>1, <1>2, <2>1
  <2>3. d(k).u <= d(g).u
    BY <1>4, <1>5, <2>1
  <2> HIDE DEF x, d
  <2> QED BY <1>7, <2>2, <2>3
<1>9. \A c \in x .. d(g).u : c \in Constants(m, v)
  <2> SUFFICES ASSUME NEW c \in x .. d(g).u PROVE c \in Constants(m, v)
    OBVIOUS
  <2>1. x \in d(g).l .. d(g).u /\ d(g).l \in Int
    BY <1>1, <1>2, <1>7
  <2>2. c \in (d(g).l - 1) .. d(g).u /\ x <= c
    <3> HIDE DEF x, d
    <3> QED BY <1>7, <2>1
  <2>3. T[P(v, c)]
    BY <1>2, <1>7, <2>2
  <2> QED BY <1>3, <1>7, <2>2, <2>3
<1>10. Constants(m, v) = x .. d(g).u /\ x \in Constants(m, v)
  <2> HIDE DEF x, d, v
  <2>1. x \in x .. d(g).u
    BY <1>7
  <2> QED BY <1>8, <1>9, <2>1
<1> QED BY <1>6, <1>7, <1>10

LEMMA ModelTells ==
  ASSUME MInv, pc = "exported", NoGaps, NEW m \in Models
  PROVE  /\ m \in SUBSET (1 .. Len(boolVars)) /\ Satisfied(cnf, TruthOf(m))
         /\ \E val \in [Declared -> Int] : Told(TruthOf(m), val)
<1>1. m \in SUBSET (1 .. Len(boolVars)) /\ Satisfied(cnf, TruthOf(m))
  BY ModelsSatisfy
<1>2. IInv /\ CNFMeansTheClauses
  BY SInvMeans DEF MInv, SInv
<1>3. \A i \in 1 .. Len(input.vars) : \E x \in input.vars[i].l .. input.vars[i].u :
         Tells(TruthOf(m), input.vars[i].v, input.vars[i], x)
  BY <1>1, <1>2 DEF CNFMeansTheClauses
<1> DEFINE T == TruthOf(m)
<1>4. \E val \in [Declared -> Int] : Told(T, val)
  <2>1. \A i \in 1 .. Len(input.vars) : \E x \in input.vars[i].l .. input.vars[i].u :
           Tells(T, input.vars[i].v, input.vars[i], x)
    BY <1>3
  <2> HIDE DEF T
  <2> QED BY <1>2, <2>1, OneValue
<1> QED BY <1>1, <1>4

LEMMA OrdersOfModels ==
  ASSUME MInv, NoGaps
  PROVE  PredicatesAreOrdered
<1> SUFFICES ASSUME pc = "exported", NEW m \in Models, NEW i \in DOMAIN input.vars
             PROVE  LET v  == input.vars[i].v
                        cs == Constants(m, v)
                    IN  /\ cs \cap (input.vars[i].l .. input.vars[i].u) # {}
                        /\ cs = Min(cs) .. Max({input.vars[j].u :
                                                  j \in {k \in DOMAIN input.vars : input.vars[k].v = v}})
                        /\ Min(cs) >= input.vars[i].l
  BY DEF PredicatesAreOrdered, Constants
<1> DEFINE v  == input.vars[i].v
           cs == Constants(m, v)
           u == Max({input.vars[j].u : j \in {k \in DOMAIN input.vars : input.vars[k].v = v}})
<1>1. i \in 1 .. Len(input.vars) /\ input.vars[i].l \in Int
  BY InputType DEF MInv, SInv, IInv, Typed
<1>2. m \in SUBSET (1 .. Len(boolVars)) /\ \E val \in [Declared -> Int] : Told(TruthOf(m), val)
  BY ModelTells
<1>3. PICK val : Told(TruthOf(m), val)
  BY <1>2
<1>4. cs = val[v] .. u /\ val[v] \in cs /\ val[v] \in Int /\ u \in Int
  BY <1>1, <1>2, <1>3, ConstantsFrom
<1>5. val[v] \in input.vars[i].l .. input.vars[i].u
  BY <1>1, <1>3 DEF Told
<1> HIDE DEF u, cs, v
<1>6. Min(cs) = val[v]
  <2>1. cs \subseteq Int /\ \A y \in cs : val[v] <= y
    BY <1>4
  <2> QED BY <1>4, <2>1, LeastIs
<1>7. /\ cs \cap (input.vars[i].l .. input.vars[i].u) # {}
      /\ cs = Min(cs) .. u
      /\ Min(cs) >= input.vars[i].l
  BY <1>1, <1>4, <1>5, <1>6
<1> QED BY <1>7 DEF u, cs, v

(* Whenever the domains declared for a name leave no gap between them, in    *)
(* every model of the exported file the true predicates of a variable are    *)
(* an upward closed range from a value of every domain declared for it       *)
(* (IntegerVariable.php predicateBounds and predicateOrderRelation): the     *)
(* value Solver::interprete reads is the only one they allow.                *)
THEOREM PredicatesOfModelsAreOrdered == Spec => [](NoGaps => PredicatesAreOrdered)
<1>1. Spec => []MInv
  BY SpecMInv
<1>2. MInv => (NoGaps => PredicatesAreOrdered)
  BY OrdersOfModels
<1> QED BY <1>1, <1>2, PTL

LEMMA DeclaredNames ==
  ASSUME input \in Inputs
  PROVE  Declared \subseteq VarNames /\ NoName \notin Declared /\ StrayBracket.v \notin Declared
<1>1. Declared \subseteq VarNames
  BY InputType DEF Declared
<1> QED BY <1>1, NameIsSequence

LEMMA ParsedPredicate ==
  ASSUME NEW v \in VarNames, Len(v) = 1, NEW c \in Int
  PROVE  Parsed(P(v, c).pieces) = [name |-> v, const |-> c]
<1> DEFINE s == P(v, c).pieces
<1>1. s[1 + 1] = c /\ s[1] = v[1]
  <2>1. /\ P(v, c).pieces = v \o <<c>> /\ (v \o <<c>>)[Len(v) + 1] = c
        /\ \A i \in 1 .. Len(v) : (v \o <<c>>)[i] = v[i]
    BY PredicatePieces
  <2>2. 1 \in 1 .. Len(v)
    OBVIOUS
  <2> QED BY <2>1, <2>2
<1>2. v = [i \in 1 .. 1 |-> v[i]]
  BY NameIsSequence
<1>3. <<v[1]>> = [i \in 1 .. 1 |-> v[i]]
  OBVIOUS
<1>4. s[2] = c
  BY <1>1
<1> HIDE DEF s
<1>5. Parsed(s) = [name |-> <<v[1]>>, const |-> c]
  BY <1>1, <1>4 DEF Parsed
<1> QED BY <1>2, <1>3, <1>5 DEF s

\* The values read from a model are the ones it tells, if every name is one
\* piece.
LEMMA InterpretationIs ==
  ASSUME MInv, pc = "exported", NEW m \in SUBSET (1 .. Len(boolVars)),
         NEW val \in [Declared -> Int], Told(TruthOf(m), val),
         \A i \in 1 .. Len(input.vars) : Len(input.vars[i].v) = 1
  PROVE  Interpretation(m) = val
<1> DEFINE n == Len(input.vars)
           d(k) == input.vars[k]
           ps == {Parsed(pieces) : pieces \in TruePredicates(m)}
           R(v, c) == [name |-> v, const |-> c]
           of(v) == {p.const : p \in {r \in ps : r.name = v}}
<1>1. /\ DOMAIN input.vars = 1 .. n
      /\ \A k \in 1 .. n : d(k).v \in VarNames /\ d(k).l \in Int /\ d(k).u \in Int
  BY InputType DEF MInv, SInv, IInv, Typed
<1>2. Declared = {d(k).v : k \in 1 .. n} /\ Declared \subseteq VarNames
  BY <1>1 DEF Declared
<1>3. \A x : x \in TruePredicates(m) <=>
        \E k \in 1 .. n : \E c \in (d(k).l - 1) .. d(k).u :
           TruthOf(m)[P(d(k).v, c)] /\ x = P(d(k).v, c).pieces
  BY TruePredicatesAre
<1>4. \A v \in Declared : \A c : c \in Constants(m, v) <=>
        \E k \in 1 .. n : d(k).v = v /\ c \in (d(k).l - 1) .. d(k).u /\ TruthOf(m)[P(v, c)]
  BY <1>2, ConstantsAre
<1>5. \A k \in 1 .. n : \A c \in (d(k).l - 1) .. d(k).u : Parsed(P(d(k).v, c).pieces) = R(d(k).v, c)
  <2> SUFFICES ASSUME NEW k \in 1 .. n, NEW c \in (d(k).l - 1) .. d(k).u
               PROVE  Parsed(P(d(k).v, c).pieces) = R(d(k).v, c)
    OBVIOUS
  <2>1. c \in Int /\ d(k).v \in VarNames /\ Len(d(k).v) = 1
    BY <1>1
  <2> HIDE DEF d
  <2> QED BY <2>1, ParsedPredicate
<1>6. \A v \in Declared : Constants(m, v) \subseteq Int /\ val[v] \in Constants(m, v)
                          /\ \A y \in Constants(m, v) : val[v] <= y
  <2> SUFFICES ASSUME NEW v \in Declared
               PROVE  Constants(m, v) \subseteq Int /\ val[v] \in Constants(m, v)
                      /\ \A y \in Constants(m, v) : val[v] <= y
    OBVIOUS
  <2>1. PICK i \in 1 .. n : d(i).v = v
    BY <1>2
  <2> DEFINE w == input.vars[i].v
             u == Max({input.vars[j].u : j \in {k \in DOMAIN input.vars : input.vars[k].v = w}})
  <2>2. Constants(m, w) = val[w] .. u /\ val[w] \in Constants(m, w) /\ val[w] \in Int /\ u \in Int
    BY ConstantsFrom
  <2>3. w = v
    BY <2>1
  <2> HIDE DEF u, w
  <2> QED BY <2>2, <2>3
<1> HIDE DEF d, n
<1>7. \A r : r \in ps <=> \E v \in Declared : \E c \in Constants(m, v) : r = R(v, c)
  <2>1. ASSUME NEW r \in ps PROVE \E v \in Declared : \E c \in Constants(m, v) : r = R(v, c)
    <3>1. PICK x \in TruePredicates(m) : r = Parsed(x)
      OBVIOUS
    <3>2. PICK k \in 1 .. n : \E c \in (d(k).l - 1) .. d(k).u :
             TruthOf(m)[P(d(k).v, c)] /\ x = P(d(k).v, c).pieces
      BY <1>3
    <3>3. PICK c \in (d(k).l - 1) .. d(k).u : TruthOf(m)[P(d(k).v, c)] /\ x = P(d(k).v, c).pieces
      BY <3>2
    <3>4. r = R(d(k).v, c) /\ d(k).v \in Declared
      BY <1>2, <1>5, <3>1, <3>3
    <3>5. c \in Constants(m, d(k).v)
      BY <1>4, <3>3, <3>4
    <3> QED BY <3>4, <3>5
  <2>2. ASSUME NEW v \in Declared, NEW c \in Constants(m, v) PROVE R(v, c) \in ps
    <3>1. PICK k \in 1 .. n : d(k).v = v /\ c \in (d(k).l - 1) .. d(k).u /\ TruthOf(m)[P(v, c)]
      BY <1>4
    <3>2. P(v, c).pieces \in TruePredicates(m)
      BY <1>3, <3>1
    <3>3. R(v, c) = Parsed(P(v, c).pieces)
      BY <1>5, <3>1
    <3> QED BY <3>2, <3>3
  <2> QED BY <2>1, <2>2
<1> HIDE DEF ps
<1>8. {p.name : p \in ps} = Declared
  <2>1. \A p \in ps : p.name \in Declared
    BY <1>7
  <2>2. ASSUME NEW v \in Declared PROVE \E p \in ps : p.name = v
    <3>1. R(v, val[v]) \in ps
      BY <1>6, <1>7
    <3>2. R(v, val[v]).name = v
      OBVIOUS
    <3> QED BY <3>1, <3>2
  <2> QED BY <2>1, <2>2
<1>9. \A v \in Declared : of(v) = Constants(m, v)
  <2> SUFFICES ASSUME NEW v \in Declared PROVE of(v) = Constants(m, v)
    OBVIOUS
  <2>1. \A p \in ps : p.name = v => p.const \in Constants(m, v)
    BY <1>7
  <2>2. ASSUME NEW c \in Constants(m, v) PROVE \E p \in ps : p.name = v /\ p.const = c
    <3>1. R(v, c) \in ps
      BY <1>7
    <3>2. R(v, c).name = v /\ R(v, c).const = c
      OBVIOUS
    <3> QED BY <3>1, <3>2
  <2> QED BY <2>1, <2>2
<1>10. \A v \in Declared : Min(of(v)) = val[v]
  <2> HIDE DEF of
  <2> QED BY <1>6, <1>9, LeastIs
<1>11. Interpretation(m) = [v \in {p.name : p \in ps} |-> Min(of(v))]
  BY DEF Interpretation, ps
<1> HIDE DEF of
<1>12. Interpretation(m) = [v \in Declared |-> Min(of(v))]
  BY <1>8, <1>11
<1>13. [v \in Declared |-> Min(of(v))] = [v \in Declared |-> val[v]]
  BY <1>10
<1> QED BY <1>12, <1>13

-----------------------------------------------------------------------------
(* The values a model tells solve the constraints.                         *)

LEMMA ClausesHoldOfModel ==
  ASSUME MInv, pc = "exported", NEW m \in Models, NEW val \in [Declared -> Int], Told(TruthOf(m), val)
  PROVE  \A c \in ToSet(constraints) :
           /\ \A j \in DOMAIN c : ~ParseFails(c[j], Declared)
           /\ \E j \in DOMAIN c : InequationHolds(ParseInequation(c[j]), val)
<1> DEFINE T == TruthOf(m)
<1>1. Satisfied(cnf, T)
  BY ModelsSatisfy
<1>2. \A v \in Declared : val[v] \in Dom[v].l .. Dom[v].u /\ Tells(T, v, Dom[v], val[v])
  <2> SUFFICES ASSUME NEW v \in Declared
               PROVE  val[v] \in Dom[v].l .. Dom[v].u /\ Tells(T, v, Dom[v], val[v])
    OBVIOUS
  <2>1. \E i \in 1 .. Len(input.vars) : /\ input.vars[i].v = v
                                         /\ Dom[v].l = input.vars[i].l /\ Dom[v].u = input.vars[i].u
    BY DomOfFirst DEF MInv, SInv, IInv, Typed
  <2>2. PICK i \in 1 .. Len(input.vars) : /\ input.vars[i].v = v
                                          /\ Dom[v].l = input.vars[i].l /\ Dom[v].u = input.vars[i].u
    BY <2>1
  <2> DEFINE d == input.vars[i]
  <2>3. val[d.v] \in d.l .. d.u /\ Tells(T, d.v, d, val[d.v])
    BY DEF Told
  <2>4. d.v = v /\ Dom[v].l = d.l /\ Dom[v].u = d.u
    BY <2>2
  <2> HIDE DEF d, T
  <2> QED BY <2>3, <2>4 DEF Tells
<1>3. \A k \in 1 .. Len(clauses) : \E j \in DOMAIN clauses[k] : InequationHolds(clauses[k][j], val)
  <2>1. CNFMeansTheClauses
    BY SInvMeans DEF MInv
  <2> HIDE DEF T
  <2> QED BY <1>1, <1>2, <2>1 DEF CNFMeansTheClauses
<1>4. constraints \in NormalCNF /\ clauses \in Seq(Seq(InequationsOver(Declared)))
  BY DEF MInv, SInv, IInv, Typed
<1>5. Len(constraints) \in Nat /\ DOMAIN constraints = 1 .. Len(constraints)
      /\ Len(clauses) \in Nat /\ DOMAIN clauses = 1 .. Len(clauses)
  BY <1>4, LenProperties DEF NormalCNF
<1>6. /\ \A c \in ToSet(constraints) : \A l \in ToSet(c) : ~ParseFails(l, Declared)
      /\ clauses = [i \in DOMAIN constraints |->
                      [j \in DOMAIN constraints[i] |-> ParseInequation(constraints[i][j])]]
  BY DEF MInv, ClausesAreParsed
<1>7. ASSUME NEW c \in ToSet(constraints)
      PROVE  \E j \in DOMAIN c : InequationHolds(ParseInequation(c[j]), val)
  <2>1. PICK k \in DOMAIN constraints : constraints[k] = c
    BY DEF ToSet
  <2>2. clauses[k] = [j \in DOMAIN c |-> ParseInequation(c[j])] /\ k \in DOMAIN clauses
    BY <1>6, <2>1
  <2>3. PICK j \in DOMAIN clauses[k] : InequationHolds(clauses[k][j], val)
    BY <1>3, <1>5, <2>2
  <2>4. j \in DOMAIN c /\ clauses[k][j] = ParseInequation(c[j])
    BY <2>2
  <2> QED BY <2>3, <2>4
<1> QED BY <1>6, <1>7 DEF ToSet

\* What the code parsed as an inequality, it read as the text says.
LEMMA NormalReads ==
  ASSUME input \in Inputs, NEW val \in [Declared -> Int], NEW n \in NormalLiteral, n.op \in Inequalities,
         ~ParseFails(n, Declared)
  PROVE  NormalHolds(n, val) <=> InequationHolds(ParseInequation(n), val)
<1>1. NoName \notin Declared /\ \A v \in Declared : val[v] \in Int
  BY DeclaredNames
<1>2. Readable(n.e, Declared)
  BY DEF Readable, ParseFails
<1> HIDE DEF Declared
<1> QED BY <1>1, <1>2, ParseMeans

\* One of the literals of an argument holds exactly if every clause it has
\* been distributed into, as parsed, has an inequation that holds.
LEMMA ArgumentReads ==
  ASSUME MInv, pc = "exported", NEW val \in [Declared -> Int],
         NEW a \in 1 .. Len(input.args), input.args[a] # << >>
  PROVE  (\E i \in 1 .. Len(input.args[a]) : LiteralHolds(input.args[a][i], val))
           <=> \A c \in ToSet(NormalizeArgument(input.args[a])) :
                 \E j \in DOMAIN c : InequationHolds(ParseInequation(c[j]), val)
<1> DEFINE arg == input.args[a]
           f == NormalizeArgument(arg)
           S == {n \in NormalLiteral : NormalHolds(n, val)}
           R == {n \in NormalLiteral : ~ ParseFails(n, Declared)}
           W == {n \in NormalLiteral : n.op \in Inequalities}
           n1 == Len(arg)
           H(n) == InequationHolds(ParseInequation(n), val)
<1>1. input \in Inputs /\ arg \in Seq(Literal) /\ arg # << >>
  BY InputType DEF MInv, SInv, IInv, Typed
<1>2. ToSet(f) \subseteq ToSet(constraints)
  <2>1. ArgsDone = Len(input.args)
    BY DEF ArgsDone
  <2>2. ToSet(constraints) = UNION {ToSet(NormalizeArgument(input.args[i])) : i \in 1 .. Len(input.args)}
    BY <2>1 DEF MInv, ConstraintsAreTheArguments
  <2> QED BY <2>2
<1>3. f \in NormalCNF
  BY <1>1, NormalizeArgumentType
<1>4. \A i \in DOMAIN f :
        \A j \in DOMAIN f[i] : f[i][j] \in NormalLiteral /\ ~ParseFails(f[i][j], Declared)
  <2> SUFFICES ASSUME NEW i \in DOMAIN f
               PROVE  \A j \in DOMAIN f[i] : f[i][j] \in NormalLiteral /\ ~ParseFails(f[i][j], Declared)
    OBVIOUS
  <2>1. f[i] \in ToSet(constraints)
    <3> HIDE DEF f
    <3> QED BY <1>2 DEF ToSet
  <2> HIDE DEF f
  <2>2. f[i] \in Seq(NormalLiteral)
    BY <1>3, LenProperties, ElementOfSeq DEF NormalCNF
  <2>3. \A j \in DOMAIN f[i] : f[i][j] \in NormalLiteral
    BY <2>2, LenProperties, ElementOfSeq
  <2>4. \A j \in DOMAIN f[i] : ~ParseFails(f[i][j], Declared)
    BY <2>1 DEF MInv, ClausesAreParsed, ToSet
  <2> QED BY <2>3, <2>4
<1>5. /\ \A X : Meets(f, X) <=> \E i \in 1 .. n1 : Meets(NormalizeLiteral(arg[i]), X)
      /\ \A X : Within(f, X) <=> \A i \in 1 .. n1 : Within(NormalizeLiteral(arg[i]), X)
  <2> HIDE DEF arg
  <2> QED BY <1>1, ArgumentMeans
<1>6. \A i \in 1 .. n1 : arg[i] \in Literal
  <2> HIDE DEF arg
  <2> QED BY <1>1, LenProperties, ElementOfSeq
<1> HIDE DEF f, n1, arg, H
<1>7. Within(f, R)
  BY <1>4 DEF Within
<1>8. Within(f, W)
  <2>1. ASSUME NEW i \in 1 .. n1 PROVE Within(NormalizeLiteral(arg[i]), W)
    <3>1. Within(NormalizeLiteral(arg[i]), Over(MoveLeft(arg[i])))
      BY <1>6, NormalizeOver
    <3>2. Over(MoveLeft(arg[i])) \subseteq W
      BY DEF Over
    <3> HIDE DEF W
    <3> QED BY <3>1, <3>2 DEF Within
  <2> HIDE DEF W
  <2> QED BY <1>5, <2>1
<1>9. \A i \in 1 .. n1 : Readable(MoveLeft(arg[i]), Declared)
  <2> SUFFICES ASSUME NEW i \in 1 .. n1 PROVE Readable(MoveLeft(arg[i]), Declared)
    OBVIOUS
  <2>1. Within(NormalizeLiteral(arg[i]), R)
    <3> HIDE DEF R
    <3> QED BY <1>5, <1>7
  <2>2. \E n \in R : n \in Over(MoveLeft(arg[i]))
    <3> HIDE DEF R
    <3> QED BY <1>6, <2>1, NormalizeOver
  <2>3. PICK n \in R : n \in Over(MoveLeft(arg[i]))
    BY <2>2
  <2>4. n.e = MoveLeft(arg[i]) /\ ~ParseFails(n, Declared)
    BY <2>3 DEF Over
  <2> QED BY <2>4 DEF Readable, ParseFails
<1>10. \A i \in DOMAIN f : \A j \in DOMAIN f[i] : f[i][j] \in S <=> H(f[i][j])
  <2> SUFFICES ASSUME NEW i \in DOMAIN f, NEW j \in DOMAIN f[i] PROVE f[i][j] \in S <=> H(f[i][j])
    OBVIOUS
  <2>1. f[i][j] \in NormalLiteral /\ f[i][j].op \in Inequalities /\ ~ParseFails(f[i][j], Declared)
    BY <1>4, <1>8 DEF Within
  <2>2. NormalHolds(f[i][j], val) <=> H(f[i][j])
    BY <1>1, <2>1, NormalReads DEF H
  <2> QED BY <2>1, <2>2
<1>11. \A i \in 1 .. n1 : Meets(NormalizeLiteral(arg[i]), S) <=> LiteralHolds(arg[i], val)
  <2> SUFFICES ASSUME NEW i \in 1 .. n1 PROVE Meets(NormalizeLiteral(arg[i]), S) <=> LiteralHolds(arg[i], val)
    OBVIOUS
  <2>1. StrayBracket.v \notin Declared /\ \A v \in Declared : val[v] \in Int
    BY <1>1, DeclaredNames
  <2>2. arg[i] \in Literal /\ Readable(MoveLeft(arg[i]), Declared)
    BY <1>6, <1>9
  <2> HIDE DEF Declared
  <2> QED BY <2>1, <2>2, NormalizeMeans
<1>12. Meets(f, S) <=> \A c \in ToSet(f) : \E j \in DOMAIN c : H(c[j])
  <2> HIDE DEF S
  <2>1. Meets(f, S) <=> \A i \in DOMAIN f : \E j \in DOMAIN f[i] : H(f[i][j])
    BY <1>10 DEF Meets
  <2> QED BY <2>1 DEF ToSet
<1>13. (\E i \in 1 .. n1 : LiteralHolds(arg[i], val)) <=> \A c \in ToSet(f) : \E j \in DOMAIN c : H(c[j])
  <2> HIDE DEF S
  <2> QED BY <1>5, <1>11, <1>12
<1> QED BY <1>13 DEF n1, arg, f, H

LEMMA ArgumentHoldsOfModel ==
  ASSUME MInv, pc = "exported", NEW m \in Models, NEW val \in [Declared -> Int], Told(TruthOf(m), val),
         NEW a \in 1 .. Len(input.args), input.args[a] # << >>
  PROVE  \E i \in 1 .. Len(input.args[a]) : LiteralHolds(input.args[a][i], val)
<1>1. ArgsDone = Len(input.args)
  BY DEF ArgsDone
<1>2. ToSet(NormalizeArgument(input.args[a])) \subseteq ToSet(constraints)
  BY <1>1 DEF MInv, ConstraintsAreTheArguments
<1>3. \A c \in ToSet(NormalizeArgument(input.args[a])) :
        \E j \in DOMAIN c : InequationHolds(ParseInequation(c[j]), val)
  BY <1>2, ClausesHoldOfModel
<1> QED BY <1>3, ArgumentReads

OnePieceNames == \A i \in DOMAIN input.vars : Len(input.vars[i].v) = 1

\* No argument is an empty bracket, which CSP::parseExpression skips, every
\* name is one piece, for Solver::interprete keeps the first only, and the
\* domains of a name leave no gap.
WellPosed ==
  /\ \A i \in DOMAIN input.args : input.args[i] # << >>
  /\ OnePieceNames
  /\ NoGaps

LEMMA ModelsSolve ==
  ASSUME MInv, WellPosed
  PROVE  ModelsAreSolutions
<1> SUFFICES ASSUME pc = "exported", NEW m \in Models
             PROVE  Interpretation(m) \in Solutions
  BY DEF ModelsAreSolutions
<1> DEFINE n == Len(input.vars)
           D == UNION {input.vars[i].l .. input.vars[i].u : i \in DOMAIN input.vars}
<1>1. input \in Inputs /\ DOMAIN input.vars = 1 .. n /\ NoGaps
  BY InputType DEF MInv, SInv, IInv, Typed, WellPosed
<1>2. m \in SUBSET (1 .. Len(boolVars)) /\ \E val \in [Declared -> Int] : Told(TruthOf(m), val)
  BY <1>1, ModelTells
<1>3. PICK val \in [Declared -> Int] : Told(TruthOf(m), val)
  BY <1>2
<1>4. Interpretation(m) = val
  <2>1. \A i \in 1 .. n : Len(input.vars[i].v) = 1
    BY <1>1 DEF WellPosed, OnePieceNames
  <2> HIDE DEF Declared
  <2> QED BY <1>2, <1>3, <2>1, InterpretationIs
<1>5. \A i \in DOMAIN input.vars : val[input.vars[i].v] \in input.vars[i].l .. input.vars[i].u
  BY <1>1, <1>3 DEF Told
<1>6. val \in Valuations
  <2>1. val \in [Declared -> D]
    <3>1. \A v \in Declared : val[v] \in D
      BY <1>5 DEF Declared
    <3> HIDE DEF D
    <3> QED BY <3>1
  <2> QED BY <1>5, <2>1 DEF Valuations
<1>7. ASSUME NEW a \in DOMAIN input.args
      PROVE  \E l \in ToSet(input.args[a]) : LiteralHolds(l, val)
  <2>1. input.args \in Seq(Seq(Literal))
    BY <1>1, InputsAssumption DEF CommandLine
  <2>2. a \in 1 .. Len(input.args) /\ input.args[a] \in Seq(Literal)
    <3> DEFINE s == input.args
    <3>1. s \in Seq(Seq(Literal)) /\ a \in DOMAIN s
      BY <2>1
    <3> HIDE DEF s
    <3>2. a \in 1 .. Len(s) /\ s[a] \in Seq(Literal)
      BY <3>1, LenProperties, ElementOfSeq
    <3> QED BY <3>2 DEF s
  <2>3. input.args[a] # << >>
    BY DEF WellPosed
  <2>4. PICK i \in 1 .. Len(input.args[a]) : LiteralHolds(input.args[a][i], val)
    <3> HIDE DEF Declared
    <3> QED BY <1>3, <2>2, <2>3, ArgumentHoldsOfModel
  <2>5. input.args[a][i] \in ToSet(input.args[a])
    BY <2>2, LenProperties DEF ToSet
  <2> QED BY <2>4, <2>5
<1> QED BY <1>4, <1>6, <1>7 DEF Solutions

(* Every model of the exported file reads back as a solution of the          *)
(* constraints typed: the rewriting of CSP::normalizeExpression, the         *)
(* distribution, the hash translation and the order axioms                   *)
(* (Encoder.php encode) never let Solver::interprete read a wrong valuation, *)
(* of any command line without empty brackets, with names of one piece and   *)
(* domains of a name that leave no gap.                                      *)
THEOREM ModelsOfTheFileAreSolutions == Spec => [](WellPosed => ModelsAreSolutions)
<1>1. Spec => []MInv
  BY SpecMInv
<1>2. MInv => (WellPosed => ModelsAreSolutions)
  BY ModelsSolve
<1> QED BY <1>1, <1>2, PTL

-----------------------------------------------------------------------------
(* Every solution is told by a model.                                      *)

\* The numbers of an indicator are written one after the other: with ten
\* literals at most the last digit is the literal's.
LEMMA OneDigit ==
  ASSUME NEW i \in 0 .. 9
  PROVE  Digits(i) = 1
<1>1. 10^1 = 10 /\ 10^2 = 100 /\ 10^3 = 1000 /\ 10^4 = 10000 /\ 10^5 = 100000 /\ 10^6 = 1000000
      /\ 10^7 = 10000000 /\ 10^8 = 100000000
  OBVIOUS
<1> DEFINE Is(d) == i < 10^d /\ (d = 1 \/ i >= 10^(d - 1))
<1>2. Is(1)
  BY <1>1
<1>3. \A d \in 1 .. 9 : Is(d) => d = 1
  <2> SUFFICES ASSUME NEW d \in 1 .. 9, d # 1 PROVE ~(i >= 10^(d - 1))
    OBVIOUS
  <2> DEFINE e == d - 1
             big == 10^e
  <2>1. e = 1 \/ e = 2 \/ e = 3 \/ e = 4 \/ e = 5 \/ e = 6 \/ e = 7 \/ e = 8
    OBVIOUS
  <2> HIDE DEF e
  <2>2. big \in {10^1, 10^2, 10^3, 10^4, 10^5, 10^6, 10^7, 10^8}
    BY <2>1, Zenon
  <2> HIDE DEF big
  <2>3. ~(i >= big)
    BY <1>1, <2>2
  <2> QED BY <2>3 DEF e, big
<1>4. Digits(i) = CHOOSE d \in 1 .. 9 : Is(d)
  BY DEF Digits
<1> HIDE DEF Is
<1> QED BY <1>2, <1>3, <1>4

LEMMA IndicatorsDiffer ==
  ASSUME NEW a \in Nat, NEW b \in Nat, NEW i \in 0 .. 9, NEW j \in 0 .. 9, Q(a, i) = Q(b, j)
  PROVE  a = b /\ i = j
<1>1. Digits(i) = 1 /\ Digits(j) = 1 /\ 10^1 = 10
  BY OneDigit
<1>2. Q(a, i).pieces = Q(b, j).pieces
  OBVIOUS
<1>3. Q(a, i).pieces = <<"", a * (10 ^ Digits(i)) + i, Digits(a) + Digits(i)>>
      /\ Q(b, j).pieces = <<"", b * (10 ^ Digits(j)) + j, Digits(b) + Digits(j)>>
  BY DEF Q
<1>4. a * (10 ^ Digits(i)) + i = b * (10 ^ Digits(j)) + j
  <2> DEFINE x == a * (10 ^ Digits(i)) + i
             y == b * (10 ^ Digits(j)) + j
             p == Digits(a) + Digits(i)
             q == Digits(b) + Digits(j)
  <2>1. <<"", x, p>> = <<"", y, q>>
    BY <1>2, <1>3
  <2> HIDE DEF x, y, p, q
  <2>2. x = y
    BY <2>1
  <2> QED BY <2>2 DEF x, y
<1>5. a * 10 + i = b * 10 + j
  BY <1>1, <1>4
<1> QED BY <1>5

TenAtMost == \A k \in DOMAIN clauses : Len(clauses[k]) <= 10

NoneLost == \A i \in DOMAIN clauses : \A j \in DOMAIN clauses[i] : ~LostTautology(clauses[i][j], Dom)

\* The truth assignment of a valuation: what it makes true of the predicates
\* and of the inequations.
TruthFrom(val) ==
  [b \in BoolVars |->
     \/ \E v \in Declared, c \in Int : b = P(v, c) /\ val[v] <= c
     \/ \E k \in 1 .. Len(clauses) : \E j \in DOMAIN clauses[k] :
           b = Q(k - 1, j - 1) /\ InequationHolds(clauses[k][j], val)]

LEMMA TruthOfPredicate ==
  ASSUME input \in Inputs, NEW val, NEW v \in Declared, NEW c \in Int
  PROVE  TruthFrom(val)[P(v, c)] <=> val[v] <= c
<1>1. Declared \subseteq VarNames
  BY DeclaredNames
<1> HIDE DEF Declared
<1>2. P(v, c) \in BoolVars
  BY <1>1 DEF BoolVars
<1>3. \A w \in Declared, d \in Int : P(v, c) = P(w, d) => v = w /\ c = d
  BY <1>1, PredicatesDiffer
<1>4. \A k, j : P(v, c) # Q(k, j)
  <2>1. P(v, c).kind = "p" /\ \A k, j : Q(k, j).kind = "q"
    BY DEF P, Q
  <2> QED BY <2>1
<1> DEFINE b == P(v, c)
<1>5. TruthFrom(val)[b] <=>
        \/ \E w \in Declared, d \in Int : b = P(w, d) /\ val[w] <= d
        \/ \E k \in 1 .. Len(clauses) : \E j \in DOMAIN clauses[k] :
             b = Q(k - 1, j - 1) /\ InequationHolds(clauses[k][j], val)
  <2> HIDE DEF b
  <2> QED BY <1>2 DEF TruthFrom, b
<1> QED BY <1>3, <1>4, <1>5

LEMMA TruthOfIndicator ==
  ASSUME Typed, TenAtMost, NEW val, NEW k \in 1 .. Len(clauses), NEW j \in DOMAIN clauses[k]
  PROVE  TruthFrom(val)[Q(k - 1, j - 1)] <=> InequationHolds(clauses[k][j], val)
<1>1. clauses \in Seq(Seq(InequationsOver(Declared)))
  BY DEF Typed
<1> HIDE DEF Declared
<1>2. Len(clauses) \in Nat /\ DOMAIN clauses = 1 .. Len(clauses)
  BY <1>1, LenProperties
<1>3. \A h \in 1 .. Len(clauses) : \A i \in DOMAIN clauses[h] : h - 1 \in Nat /\ i - 1 \in 0 .. 9
  <2> SUFFICES ASSUME NEW h \in 1 .. Len(clauses), NEW i \in DOMAIN clauses[h]
               PROVE  h - 1 \in Nat /\ i - 1 \in 0 .. 9
    OBVIOUS
  <2>1. clauses[h] \in Seq(InequationsOver(Declared))
    BY <1>1, ElementOfSeq
  <2>2. DOMAIN clauses[h] = 1 .. Len(clauses[h]) /\ Len(clauses[h]) \in Nat
    BY <2>1, LenProperties
  <2>3. Len(clauses[h]) <= 10
    BY <1>2 DEF TenAtMost
  <2> QED BY <1>2, <2>2, <2>3
<1> DEFINE b == Q(k - 1, j - 1)
<1>4. b \in BoolVars
  <2>1. k - 1 \in Nat /\ j - 1 \in Nat
    BY <1>3
  <2> QED BY <2>1 DEF BoolVars
<1>5. \A h \in 1 .. Len(clauses) : \A i \in DOMAIN clauses[h] : b = Q(h - 1, i - 1) => h = k /\ i = j
  <2> SUFFICES ASSUME NEW h \in 1 .. Len(clauses), NEW i \in DOMAIN clauses[h], b = Q(h - 1, i - 1)
               PROVE  h = k /\ i = j
    OBVIOUS
  <2>1. k - 1 \in Nat /\ h - 1 \in Nat /\ j - 1 \in 0 .. 9 /\ i - 1 \in 0 .. 9
    BY <1>3
  <2>2. k - 1 = h - 1 /\ j - 1 = i - 1
    BY SMTT(30), <2>1, IndicatorsDiffer
  <2>3. i \in 1 .. 10 /\ j \in 1 .. 10
    <3>1. \A g \in 1 .. Len(clauses) : \A e \in DOMAIN clauses[g] : e \in 1 .. 10
      <4> SUFFICES ASSUME NEW g \in 1 .. Len(clauses), NEW e \in DOMAIN clauses[g] PROVE e \in 1 .. 10
        OBVIOUS
      <4>1. clauses[g] \in Seq(InequationsOver(Declared))
        BY <1>1, ElementOfSeq
      <4>2. DOMAIN clauses[g] = 1 .. Len(clauses[g]) /\ Len(clauses[g]) \in Nat
        BY <4>1, LenProperties
      <4>3. e \in 1 .. Len(clauses[g]) /\ Len(clauses[g]) \in Int
        BY <4>2
      <4>4. e - 1 \in 0 .. 9
        BY <1>3
      <4> HIDE DEF b
      <4> QED BY <4>3, <4>4
    <3> QED BY <3>1
  <2> QED BY <1>2, <2>2, <2>3
<1>6. \A w, d : b # P(w, d)
  <2>1. b.kind = "q" /\ \A w, d : P(w, d).kind = "p"
    BY DEF P, Q
  <2> QED BY <2>1
<1> HIDE DEF b
<1>7. TruthFrom(val)[b] <=>
        \/ \E w \in Declared, d \in Int : b = P(w, d) /\ val[w] <= d
        \/ \E h \in 1 .. Len(clauses) : \E i \in DOMAIN clauses[h] :
             b = Q(h - 1, i - 1) /\ InequationHolds(clauses[h][i], val)
  BY <1>4 DEF TruthFrom
<1>8. b = Q(k - 1, j - 1)
  BY DEF b
<1> QED BY <1>5, <1>6, <1>7, <1>8

\* A valuation that satisfies the clauses satisfies the CNF.
LEMMA CNFHoldsOfSolution ==
  ASSUME MInv, pc = "exported", TenAtMost, NoneLost, NEW val \in [Declared -> Int],
         \A i \in 1 .. Len(input.vars) : val[input.vars[i].v] \in input.vars[i].l .. input.vars[i].u,
         \A k \in 1 .. Len(clauses) : \E j \in DOMAIN clauses[k] : InequationHolds(clauses[k][j], val)
  PROVE  /\ Satisfied(cnf, TruthFrom(val))
         /\ Told(TruthFrom(val), val)
<1> DEFINE T == TruthFrom(val)
           C(k) == CNFOfClause(k)
           A(k) == AxiomsOf(k)
           d == Len(clauses)
           n == Len(input.vars)
<1>1. /\ cnf = (UNION {C(k) : k \in 1 .. d}) \cup (UNION {A(k) : k \in 1 .. n})
      /\ \A k \in 1 .. d : \A j \in DOMAIN clauses[k] : ~EncodingFails(clauses[k][j], Dom)
  <2>1. ClausesDone = d /\ OrdersDone = n
    BY DEF MInv, SInv, IInv, Counted, ClausesDone, OrdersDone
  <2> QED BY <2>1 DEF MInv, SInv, CNFIsTheClauses
<1>2. Typed /\ input \in Inputs
  BY DEF MInv, SInv, IInv, Typed
<1>3. \A v \in Declared, c \in Int : T[P(v, c)] <=> val[v] <= c
  BY <1>2, TruthOfPredicate
<1>4. Told(T, val)
  <2> SUFFICES ASSUME NEW i \in 1 .. n
               PROVE  LET x == input.vars[i]
                      IN  val[x.v] \in x.l .. x.u /\ Tells(T, x.v, x, val[x.v])
    BY DEF Told
  <2> DEFINE x == input.vars[i]
  <2>1. x.v \in Declared /\ x.l \in Int /\ x.u \in Int
    BY <1>2, InputType DEF Declared
  <2>2. val[x.v] \in x.l .. x.u
    OBVIOUS
  <2> HIDE DEF x, T
  <2>3. Tells(T, x.v, x, val[x.v])
    BY <1>3, <2>1 DEF Tells
  <2> QED BY <2>2, <2>3 DEF x
<1>5. \A v \in Declared : val[v] \in Dom[v].l .. Dom[v].u /\ Tells(T, v, Dom[v], val[v])
  <2> SUFFICES ASSUME NEW v \in Declared
               PROVE  val[v] \in Dom[v].l .. Dom[v].u /\ Tells(T, v, Dom[v], val[v])
    OBVIOUS
  <2>1. \E i \in 1 .. Len(input.vars) : /\ input.vars[i].v = v
                                         /\ Dom[v].l = input.vars[i].l /\ Dom[v].u = input.vars[i].u
    BY <1>2, DomOfFirst
  <2>2. PICK i \in 1 .. Len(input.vars) : /\ input.vars[i].v = v
                                          /\ Dom[v].l = input.vars[i].l /\ Dom[v].u = input.vars[i].u
    BY <2>1
  <2> DEFINE x == input.vars[i]
  <2>3. val[x.v] \in x.l .. x.u /\ Tells(T, x.v, x, val[x.v])
    BY <1>4 DEF Told
  <2>4. x.v = v /\ Dom[v].l = x.l /\ Dom[v].u = x.u
    BY <2>2
  <2> HIDE DEF x, T
  <2> QED BY <2>3, <2>4 DEF Tells
<1>6. ASSUME NEW k \in 1 .. n PROVE Satisfied(A(k), T)
  <2> DEFINE x == input.vars[k]
  <2>1. x.l \in Int /\ x.u \in Int /\ x.l <= x.u
    BY InputType DEF MInv, SInv, IInv, Typed, DomainsNotEmpty
  <2>2. \E y \in x.l .. x.u : Tells(T, x.v, x, y)
    <3>1. val[x.v] \in x.l .. x.u /\ Tells(T, x.v, x, val[x.v])
      BY <1>4 DEF Told
    <3> HIDE DEF T, x
    <3> QED BY <3>1
  <2>3. Satisfied(OrderAxioms(x.v, x), T)
    <3> HIDE DEF T, x
    <3> QED BY <2>1, <2>2, OrderAxiomsExact
  <2> QED BY <2>3 DEF AxiomsOf
<1>7. ASSUME NEW k \in 1 .. d PROVE Satisfied(C(k), T)
  <2> DEFINE c == clauses[k]
  <2>1. IsDomain(Dom, Declared)
    BY IsDomainDom DEF MInv, SInv, IInv
  <2>2. InDomain(val, Dom, Declared)
    BY <1>5, <2>1 DEF InDomain, IsDomain
  <2>3. c \in Seq(InequationsOver(Declared)) /\ DOMAIN clauses = 1 .. d
    BY <1>2, ElementOfSeq, LenProperties DEF Typed
  <2>4. \A j \in DOMAIN c : IsInequation(c[j], Declared) /\ ~EncodingFails(c[j], Dom)
    <3>1. \A j \in DOMAIN c : c[j] \in InequationsOver(Declared)
      BY <2>3, LenProperties, ElementOfSeq
    <3> QED BY <1>1, <3>1, IsInequationOver
  <2>5. \A j \in DOMAIN c : T[Q(k - 1, j - 1)] <=> InequationHolds(c[j], val)
    <3> HIDE DEF T
    <3> QED BY <1>2, TruthOfIndicator DEF T
  <2>6. \A j \in DOMAIN c : ~LostTautology(c[j], Dom)
    BY <2>3 DEF NoneLost
  <2>7. \E j \in DOMAIN c : InequationHolds(c[j], val)
    OBVIOUS
  <2> HIDE DEF c, T
  <2>8. Satisfied(ClauseCNF(k - 1, c, Dom), T) <=>
           /\ \E j \in DOMAIN c : T[Q(k - 1, j - 1)]
           /\ \A j \in DOMAIN c :
                T[Q(k - 1, j - 1)] => InequationHolds(c[j], val) /\ ~LostTautology(c[j], Dom)
    BY <1>5, <2>1, <2>2, <2>4, ClauseExact
  <2>9. Satisfied(ClauseCNF(k - 1, c, Dom), T)
    BY <2>5, <2>6, <2>7, <2>8
  <2> QED BY <2>9 DEF CNFOfClause, c
<1>8. Satisfied(cnf, T)
  <2> HIDE DEF C, A, d, n, T
  <2> QED BY <1>1, <1>6, <1>7 DEF Satisfied
<1> QED BY <1>4, <1>8

LEMMA SolutionHasModel ==
  ASSUME MInv, pc = "exported", TenAtMost, NoneLost, OnePieceNames, NEW val \in Solutions
  PROVE  \E m \in Models : Interpretation(m) = val
<1> DEFINE n == Len(input.vars)
           T == TruthFrom(val)
           m == {k \in 1 .. Len(boolVars) : T[boolVars[k]]}
<1>1. /\ input \in Inputs /\ Typed /\ DOMAIN input.vars = 1 .. n
      /\ \A i \in 1 .. n : input.vars[i].v \in VarNames /\ input.vars[i].l \in Int /\ input.vars[i].u \in Int
  BY InputType DEF MInv, SInv, IInv, Typed
<1>2. /\ \A i \in 1 .. n : val[input.vars[i].v] \in input.vars[i].l .. input.vars[i].u
      /\ \A i \in DOMAIN input.args : \E l \in ToSet(input.args[i]) : LiteralHolds(l, val)
      /\ val = [v \in Declared |-> val[v]]
  BY <1>1 DEF Solutions, Valuations
<1>3. val \in [Declared -> Int]
  <2>1. \A v \in Declared : val[v] \in Int
    BY <1>1, <1>2 DEF Declared
  <2> HIDE DEF Declared
  <2> QED BY <1>2, <2>1
<1>4. \A c \in ToSet(constraints) : \E j \in DOMAIN c : InequationHolds(ParseInequation(c[j]), val)
  <2> SUFFICES ASSUME NEW c \in ToSet(constraints)
               PROVE  \E j \in DOMAIN c : InequationHolds(ParseInequation(c[j]), val)
    OBVIOUS
  <2>1. ArgsDone = Len(input.args)
    BY DEF ArgsDone
  <2>2. PICK a \in 1 .. Len(input.args) : c \in ToSet(NormalizeArgument(input.args[a]))
    BY <2>1 DEF MInv, ConstraintsAreTheArguments
  <2>3. a \in DOMAIN input.args /\ input.args[a] \in Seq(Literal)
    <3> DEFINE s == input.args
    <3>1. s \in Seq(Seq(Literal)) /\ a \in 1 .. Len(s)
      BY <1>1, InputsAssumption DEF CommandLine
    <3> HIDE DEF s
    <3>2. a \in DOMAIN s /\ s[a] \in Seq(Literal)
      BY <3>1, LenProperties, ElementOfSeq
    <3> QED BY <3>2 DEF s
  <2>4. PICK l \in ToSet(input.args[a]) : LiteralHolds(l, val)
    BY <1>2, <2>3
  <2>5. PICK i \in 1 .. Len(input.args[a]) : input.args[a][i] = l
    BY <2>3, LenProperties DEF ToSet
  <2>6. input.args[a] # << >>
    <3> DEFINE s == input.args[a]
    <3>1. i \in 1 .. Len(s)
      OBVIOUS
    <3> HIDE DEF s
    <3>2. s # << >>
      BY <3>1
    <3> QED BY <3>2 DEF s
  <2>7. \A b \in ToSet(NormalizeArgument(input.args[a])) :
           \E j \in DOMAIN b : InequationHolds(ParseInequation(b[j]), val)
    BY <1>3, <2>4, <2>5, <2>6, ArgumentReads
  <2> QED BY <2>2, <2>7
<1>5. \A k \in 1 .. Len(clauses) : \E j \in DOMAIN clauses[k] : InequationHolds(clauses[k][j], val)
  <2> SUFFICES ASSUME NEW k \in 1 .. Len(clauses)
               PROVE  \E j \in DOMAIN clauses[k] : InequationHolds(clauses[k][j], val)
    OBVIOUS
  <2>1. clauses = [i \in DOMAIN constraints |->
                     [j \in DOMAIN constraints[i] |-> ParseInequation(constraints[i][j])]]
    BY DEF MInv, ClausesAreParsed
  <2>2. k \in DOMAIN clauses
    <3>1. clauses \in Seq(Seq(InequationsOver(Declared)))
      BY <1>1 DEF Typed
    <3> HIDE DEF Declared
    <3> QED BY <3>1, LenProperties
  <2>3. k \in DOMAIN constraints /\ clauses[k] = [j \in DOMAIN constraints[k] |-> ParseInequation(constraints[k][j])]
    BY <2>1, <2>2
  <2>4. PICK j \in DOMAIN constraints[k] : InequationHolds(ParseInequation(constraints[k][j]), val)
    BY <1>4, <2>3 DEF ToSet
  <2>5. j \in DOMAIN clauses[k] /\ clauses[k][j] = ParseInequation(constraints[k][j])
    BY <2>3
  <2> QED BY <2>4, <2>5
<1>6. Satisfied(cnf, T) /\ Told(T, val)
  <2> HIDE DEF Declared
  <2> QED BY <1>2, <1>3, <1>5, CNFHoldsOfSolution
<1> HIDE DEF T
<1>7. m \in SUBSET (1 .. Len(boolVars))
  OBVIOUS
<1>8. \A b : Contains(boolVars, b) => (TruthOf(m)[b] <=> T[b])
  <2> SUFFICES ASSUME NEW b, Contains(boolVars, b) PROVE TruthOf(m)[b] <=> T[b]
    OBVIOUS
  <2> DEFINE I == {i \in DOMAIN boolVars : boolVars[i] = b}
             h == VarIndexNumber(b)
  <2>1. boolVars \in Seq(BoolVars)
    BY <1>1 DEF Typed
  <2>2. DOMAIN boolVars = 1 .. Len(boolVars) /\ \A k \in 1 .. Len(boolVars) : boolVars[k] \in BoolVars
    BY <2>1, LenProperties, ElementOfSeq
  <2>3. I # {} /\ I \subseteq Nat /\ h = Min(I)
    BY <2>2 DEF Contains, VarIndexNumber
  <2>4. h \in I
    <3> HIDE DEF I, h
    <3> QED BY <2>3, MinIsLeast
  <2>5. h \in 1 .. Len(boolVars) /\ boolVars[h] = b
    BY <2>2, <2>4
  <2>6. b \in BoolVars
    BY <2>2, <2>5
  <2>7. TruthOf(m)[b] <=> h \in m
    BY <2>6 DEF TruthOf
  <2> HIDE DEF h
  <2> QED BY <2>5, <2>7
<1> HIDE DEF m
<1>9. Satisfied(cnf, TruthOf(m))
  <2>1. \A c \in cnf : \A lit \in c : Contains(boolVars, lit[1])
    BY DEF MInv, FileIsTheCNF
  <2> QED BY <1>6, <1>8, <2>1 DEF Satisfied
<1>10. Told(TruthOf(m), val)
  <2> SUFFICES ASSUME NEW i \in 1 .. n
               PROVE  LET x == input.vars[i]
                      IN  val[x.v] \in x.l .. x.u /\ Tells(TruthOf(m), x.v, x, val[x.v])
    BY DEF Told
  <2> DEFINE x == input.vars[i]
  <2>1. val[x.v] \in x.l .. x.u /\ \A c \in (x.l - 1) .. x.u : T[P(x.v, c)] <=> val[x.v] <= c
    BY <1>6 DEF Told, Tells
  <2>2. \A c \in (x.l - 1) .. x.u : Contains(boolVars, P(x.v, c))
    BY DEF MInv, SInv, IInv, OrdersNumbered, Counted
  <2> HIDE DEF x
  <2>3. Tells(TruthOf(m), x.v, x, val[x.v])
    BY <1>8, <2>1, <2>2 DEF Tells
  <2> QED BY <2>1, <2>3 DEF x
<1>11. m \in Models
  BY <1>7, <1>9, ModelsSatisfy
<1>12. Interpretation(m) = val
  <2>1. \A i \in 1 .. n : Len(input.vars[i].v) = 1
    BY <1>1 DEF OnePieceNames
  <2> HIDE DEF Declared
  <2> QED BY <1>3, <1>7, <1>10, <2>1, InterpretationIs
<1> QED BY <1>11, <1>12

(* No solution is lost: unless an inequation is a tautology computeCNF       *)
(* encodes as false, every solution of the constraints typed is read back    *)
(* from a model of the exported file (Encoder::encode), of any command line  *)
(* with names of one piece and ten literals at most in a clause, so that the *)
(* indicators CSP::computeClauseCNF names by two numbers written one after   *)
(* the other are different.                                                  *)
THEOREM EverySolutionHasAModel == Spec => [](OnePieceNames /\ TenAtMost => SolutionsKept)
<1>1. Spec => []MInv
  BY SpecMInv
<1>2. MInv => (OnePieceNames /\ TenAtMost => SolutionsKept)
  <2> SUFFICES ASSUME MInv, OnePieceNames, TenAtMost, NoneLost, pc = "exported", NEW val \in Solutions
               PROVE  val \in {Interpretation(m) : m \in Models}
    BY DEF SolutionsKept, SolutionsAreModels, NoneLost
  <2>1. \E m \in Models : Interpretation(m) = val
    BY SolutionHasModel
  <2> QED BY <2>1
<1> QED BY <1>1, <1>2, PTL

-----------------------------------------------------------------------------
(* The whole script: the theorems about the encoder and about the loop of  *)
(* Solver::solve put together.                                             *)

Numbers == SUBSET (1 .. MaxVars)

Read == INSTANCE EnumerationProofs WITH Assignments <- Numbers, pc <- stage

\* What EnumerationProofs assumes of its constants.
LEMMA OutputsDiffer ==
  /\ {Unsat, Empty, Absent, Null} \cap Numbers = {}
  /\ Unsat # Empty /\ Unsat # Absent /\ Empty # Absent
  /\ Failures \subseteq {"cutOff", "neverStarts"}
BY ScriptAssumption DEF Numbers

\* The variables of the file are among the numbers the loop reads.
Fits == dimacs.vars <= MaxVars

\* The loop runs once the file is exported, on the models of the file.
InStep ==
  /\ pc # "exported" => stage = "prepare"
  /\ pc = "exported" => stage # "prepare" /\ original = Models

ScriptInv == MInv /\ InStep /\ (Fits => Read!IInv)

LEMMA InitScriptInv == ScriptInit => ScriptInv
<1> SUFFICES ASSUME ScriptInit PROVE ScriptInv
  OBVIOUS
<1>1. MInv
  BY InitMInv DEF ScriptInit
<1>2. InStep
  BY DEF ScriptInit, Init, Solve!Init, InStep
<1>3. Read!Init
  BY DEF ScriptInit, Solve!Init, Read!Init, Numbers
<1>4. Read!IInv
  BY <1>3, OutputsDiffer, Read!IInvInit
<1> QED BY <1>1, <1>2, <1>4 DEF ScriptInv

LEMMA NextScriptInv == ScriptInv /\ [ScriptNext]_<<vars, solveVars>> => ScriptInv'
<1> SUFFICES ASSUME ScriptInv, [ScriptNext]_<<vars, solveVars>> PROVE ScriptInv'
  OBVIOUS
<1>0. Read!IInv /\ [Read!Next]_Read!vars => Read!IInv'
  BY OutputsDiffer, Read!IInvStep
<1>1. MInv'
  <2>1. [Next]_vars
    BY DEF ScriptNext, Encode, PrepareSolver, RunSolver, Next
  <2> QED BY <2>1, NextMInv DEF ScriptInv
<1>2. CASE Encode \/ UNCHANGED <<vars, solveVars>>
  <2>1. UNCHANGED <<stage, original, dimacs>> /\ UNCHANGED Read!vars
    BY <1>2 DEF Encode, solveVars, Read!vars, vars, ParseVariables, ParseArgument, ArgumentsParsed,
            ParseInequations, ComputeClauseCNF, ClausesEncoded, PredicateOrderRelations
  <2>2. \/ pc # "exported" /\ pc' # "exported"
        \/ UNCHANGED <<pc, dimacs, boolVars>>
    BY <1>2 DEF Encode, vars, Fail, ParseVariables, ParseArgument, ArgumentsParsed,
            ParseInequations, ComputeClauseCNF, ClausesEncoded, PredicateOrderRelations
  <2>3. Models' = Models
    BY <2>1 DEF Models, IsModel
  <2>4. InStep'
    BY <2>1, <2>2, <2>3 DEF ScriptInv, InStep
  <2>5. (Fits => Read!IInv)'
    BY <1>0, <2>1 DEF ScriptInv, Fits
  <2> QED BY <1>1, <2>4, <2>5 DEF ScriptInv
<1>3. CASE PrepareSolver
  <2>1. pc = "order" /\ stage = "prepare" /\ dimacs = NoDimacs /\ Fits
    <3>1. pc = "order" /\ stage = "prepare"
      BY <1>3 DEF PrepareSolver, ExportToDimacs, ScriptInv, InStep
    <3>2. dimacs = NoDimacs
      BY <3>1 DEF ScriptInv, MInv, SInv, IInv, Staged
    <3> QED BY <3>1, <3>2, ScriptAssumption DEF NoDimacs, Fits
  <2>2. CASE pc' # "exported"
    <3>1. UNCHANGED solveVars /\ dimacs' = dimacs
      BY <1>3, <2>2 DEF PrepareSolver, ExportToDimacs, Fail
    <3>2. UNCHANGED Read!vars
      BY <3>1 DEF solveVars, Read!vars
    <3>3. Read!IInv' /\ stage' = "prepare"
      BY <1>0, <2>1, <3>1, <3>2 DEF ScriptInv, solveVars
    <3> QED BY <1>1, <2>2, <3>3 DEF ScriptInv, InStep
  <2>3. CASE pc' = "exported"
    <3>1. Solve!Prepare(Models')
      BY <1>3, <2>3 DEF PrepareSolver
    <3>2. stage' = "execute" /\ original' = Models'
      BY <3>1 DEF Solve!Prepare
    <3>3. ASSUME Fits' PROVE Read!IInv'
      <4>1. dimacs'.vars \in Nat
        <5>1. dimacs'.vars = Len(boolVars)
          BY <1>3, <2>1, <2>3 DEF PrepareSolver, ExportToDimacs, Fail
        <5>2. Len(boolVars) \in Nat
          BY LenProperties DEF ScriptInv, MInv, SInv, IInv, Typed
        <5> QED BY <5>1, <5>2
      <4>2. Models' \in SUBSET Numbers
        BY <3>3, <4>1, ScriptAssumption DEF Models, Numbers, Fits
      <4>3. Read!Prepare(Models')
        BY <3>1 DEF Solve!Prepare, Read!Prepare
      <4>4. Read!Next
        BY <4>2, <4>3 DEF Read!Next
      <4> QED BY <1>0, <2>1, <4>4 DEF ScriptInv
    <3> QED BY <1>1, <2>3, <3>2, <3>3 DEF ScriptInv, InStep
  <2> QED BY <2>2, <2>3
<1>4. CASE RunSolver
  <2>1. pc = "exported" /\ UNCHANGED vars /\ Solve!Loop
    BY <1>4 DEF RunSolver
  <2>2. Read!Loop
    BY <2>1 DEF Numbers, Solve!Loop, Read!Loop, Solve!Execute, Read!Execute, Solve!AfterExecute, Read!AfterExecute,
          Solve!ExecuteCutOff, Read!ExecuteCutOff, Solve!ExecuteNeverStarts, Read!ExecuteNeverStarts,
          Solve!Verdict, Read!Verdict, Solve!Test, Read!Test, Solve!CannotRead, Read!CannotRead,
          Solve!IsSatisfiable, Read!IsSatisfiable, Solve!Interprete, Read!Interprete,
          Solve!AddResultInDimacs, Read!AddResultInDimacs, Solve!Remaining, Read!Remaining
  <2>3. original' = original /\ stage' # "prepare"
    BY <2>1 DEF Solve!Loop, Solve!Execute, Solve!AfterExecute, Solve!ExecuteCutOff, Solve!ExecuteNeverStarts,
          Solve!Verdict, Solve!Test, Solve!Interprete, Solve!AddResultInDimacs
  <2>4. pc' = pc /\ dimacs' = dimacs
    BY <2>1 DEF vars
  <2>5. Models' = Models
    BY <2>4 DEF Models, IsModel
  <2>6. InStep'
    BY <2>1, <2>3, <2>4, <2>5 DEF ScriptInv, InStep
  <2>7. (Fits => Read!IInv)'
    BY <1>0, <2>2, <2>4 DEF ScriptInv, Fits, Read!Next
  <2> QED BY <1>1, <2>6, <2>7 DEF ScriptInv
<1> QED BY <1>2, <1>3, <1>4 DEF ScriptNext

LEMMA SpecScriptInv == ScriptSpec => []ScriptInv
BY InitScriptInv, NextScriptInv, PTL DEF ScriptSpec

\* On a command line the encoder keeps the meaning of, the models of the file
\* are the solutions.
Faithful == WellPosed /\ TenAtMost /\ NoneLost

LEMMA ModelsOfScript ==
  ASSUME ScriptInv, Faithful, Fits
  PROVE  stage # "prepare" => original = Models /\ {Interpretation(m) : m \in Models} = Solutions
<1> SUFFICES ASSUME stage # "prepare"
             PROVE  original = Models /\ {Interpretation(m) : m \in Models} = Solutions
  OBVIOUS
<1>1. pc = "exported" /\ original = Models /\ MInv
  BY DEF ScriptInv, InStep
<1>2. ModelsAreSolutions
  BY <1>1, ModelsSolve DEF Faithful
<1>3. \A val \in Solutions : \E m \in Models : Interpretation(m) = val
  BY <1>1, SolutionHasModel DEF Faithful, WellPosed
<1>4. \A m \in Models : Interpretation(m) \in Solutions
  BY <1>1, <1>2 DEF ModelsAreSolutions
<1> QED BY <1>1, <1>3, <1>4

(* When no run of glucose fails, option -i displays exactly the solutions of *)
(* the constraints typed (sato, Encoder.php encode, Solver.php solve and     *)
(* findAllSolutions), whatever an earlier run has left in output.txt, a      *)
(* model included, on every command line with: no empty brackets, names of   *)
(* one piece, no gap between two domains of a name, ten literals at most in  *)
(* a clause and no inequation lost as a tautology.                           *)
THEOREM ScriptDisplaysTheSolutions == ScriptSpec => [](Faithful /\ Fits => DisplaysTheSolutions)
<1>1. ScriptInv => (Faithful /\ Fits => DisplaysTheSolutions)
  <2> SUFFICES ASSUME ScriptInv, Faithful, Fits, stage = "done", interprete, failed = {}
               PROVE  {Interpretation(m) : m \in found} = Solutions
    BY DEF DisplaysTheSolutions
  <2>1. found = original
    BY DEF ScriptInv, Read!IInv, Read!Healthy
  <2> QED BY <2>1, ModelsOfScript
<1> QED BY <1>1, SpecScriptInv, PTL

(* And the satisfiability printed (Solver::isSatisfiable) is that of the     *)
(* constraints typed.                                                        *)
THEOREM ScriptPrintsTheSatisfiability ==
  ScriptSpec => [](Faithful /\ Fits => (verdict # "none" /\ failed = {} => ((verdict = "sat") <=> (Solutions # {}))))
<1>1. ScriptInv => (Faithful /\ Fits => (verdict # "none" /\ failed = {} => ((verdict = "sat") <=> (Solutions # {}))))
  <2> SUFFICES ASSUME ScriptInv, Faithful, Fits, verdict # "none", failed = {}
               PROVE  (verdict = "sat") <=> (Solutions # {})
    OBVIOUS
  <2>1. stage # "prepare" /\ ((verdict = "sat") <=> (original # {}))
    BY DEF ScriptInv, Read!IInv, Read!Healthy, Read!Untouched
  <2>2. original = Models /\ {Interpretation(m) : m \in Models} = Solutions
    BY <2>1, ModelsOfScript
  <2> QED BY <2>1, <2>2
<1> QED BY <1>1, SpecScriptInv, PTL
=============================================================================
