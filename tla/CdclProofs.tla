----------------------------- MODULE CdclProofs -------------------------------
(***************************************************************************)
(* The search of a solver is sound: what analyze returns follows and is to *)
(* be asserted, every action keeps the invariant, and what the invariant   *)
(* gives.  Then the search is complete: propagation leaves nothing to      *)
(* infer (Complete, below), and every clause added is satisfied by what is *)
(* assigned without a decision or is still in memory; so that a model      *)
(* found is one, and a clause learnt is new.                               *)
(***************************************************************************)
EXTENDS CdclInvariant

-----------------------------------------------------------------------------
(* Analyze.  Its folds.                                                    *)

LEMMA MinimizeFold ==
  ASSUME NEW st, NEW a, NEW n \in Nat, DOMAIN a.out = 1 .. n,
         NEW levels, levels = {Level(st, q) % 32 : q \in ToSet(a.out)},
         NEW base, base = [seen |-> a.seen, visited |-> a.visited, out |-> << >>],
         NEW G, base \in G[0],
         \A k \in 1 .. n : \A x \in G[k - 1] : MinimizeStep(st, levels, x, a.out[k]) \in G[k]
  PROVE  Minimized(st, a) \in G[n]
<1> DEFINE t == [op |-> "minimize", st |-> st, levels |-> levels, ws |-> a.out]
           lv == {Level(st, q) % 32 : q \in ToSet(a.out)}
           bs == [seen |-> a.seen, visited |-> a.visited, out |-> << >>]
           step(x, k) == MinimizeStep(st, lv, x, a.out[k])
           f == CHOOSE g : g = [T \in SUBSET (1 .. n) |->
                                  IF T = {} THEN bs ELSE step(g[T \ {Max(T)}], Max(T))]
<1>1. Minimized(st, a) = f[1 .. n]
  BY Zenon DEF FoldLeft, MapThenFoldSet, Minimized, MinimizeStep
<1>2. \A x, k : step(x, k) = Stage(t, x, k)
  BY DEF Stage
<1>3. \A k \in 1 .. n : \A x \in G[k - 1] : Stage(t, x, k) \in G[k]
  BY <1>2
<1>b. bs = base
  OBVIOUS
<1> HIDE DEF t, step, bs, lv
<1>4. PICK g : PrefixFolds(g, t, base, n)
  BY PrefixFoldsExist
<1>5. g = [T \in SUBSET (1 .. n) |-> IF T = {} THEN bs ELSE step(g[T \ {Max(T)}], Max(T))]
  BY <1>b, <1>2, <1>4 DEF PrefixFolds
<1>6. f = [T \in SUBSET (1 .. n) |-> IF T = {} THEN bs ELSE step(f[T \ {Max(T)}], Max(T))]
  BY <1>5, Zenon
<1> HIDE DEF f
<1>7. PrefixFolds(f, t, base, n)
  BY <1>b, <1>2, <1>6 DEF PrefixFolds
<1>8. f[1 .. n] \in G[n]
  BY <1>3, <1>7, PrefixFold
<1> QED BY <1>1, <1>8

LEMMA ExploreFold ==
  ASSUME NEW st, NEW q, NEW seen, NEW visited, NEW levels, NEW n, n = NbVars + 1,
         NEW base, base = [redundant |-> TRUE, stack |-> <<q>>, seen |-> seen, visited |-> visited],
         NEW G, base \in G[0],
         \A k \in 1 .. n : \A x \in G[k - 1] : ExploreTurn(st, seen, levels, x) \in G[k]
  PROVE  LitRedundant(st, q, seen, visited, levels) \in G[n]
<1> DEFINE t == [op |-> "explore", st |-> st, seen |-> seen, levels |-> levels]
           turn(x) == ExploreTurn(st, seen, levels, x)
           bs == [redundant |-> TRUE, stack |-> <<q>>, seen |-> seen, visited |-> visited]
           f == CHOOSE g : g = [i \in 0 .. NbVars + 1 |-> IF i = 0 THEN bs ELSE turn(g[i - 1])]
<1>0. n \in Nat
  BY NbVarsAssumption
<1>1. LitRedundant(st, q, seen, visited, levels) = f[NbVars + 1]
  BY Zenon DEF LitRedundant, ExploreTurn, ExploreAfter
<1>2. \A x, k : turn(x) = Stage(t, x, k)
  BY DEF Stage
<1>b. bs = base
  OBVIOUS
<1> HIDE DEF t, turn, bs
<1>4. PICK g : PrefixFolds(g, t, base, n)
  BY <1>0, PrefixFoldsExist
<1> DEFINE h == [i \in 0 .. n |-> g[1 .. i]]
<1>5. h = [i \in 0 .. n |-> IF i = 0 THEN base ELSE turn(h[i - 1])]
  <2>1. g = [T \in SUBSET (1 .. n) |-> IF T = {} THEN base ELSE Stage(t, g[T \ {Max(T)}], Max(T))]
    BY <1>4 DEF PrefixFolds
  <2>2. h[0] = base
    <3>1. 1 .. 0 = {} /\ {} \in SUBSET (1 .. n)
      OBVIOUS
    <3> QED BY <3>1, <2>1, <1>0
  <2>3. ASSUME NEW i \in 1 .. n PROVE h[i] = turn(h[i - 1])
    <3>1. 1 .. i \in SUBSET (1 .. n) /\ 1 .. i # {}
      <4>1. \A j \in 1 .. i : j \in 1 .. n
        BY <1>0
      <4>2. i \in 1 .. i
        OBVIOUS
      <4> QED BY <4>1, <4>2
    <3>2. Max(1 .. i) = i /\ (1 .. i) \ {i} = 1 .. i - 1
      BY <1>0, GreatestOfInterval
    <3>3. g[1 .. i] = Stage(t, g[1 .. i - 1], i)
      BY <2>1, <3>1, <3>2
    <3>4. i \in 0 .. n /\ i - 1 \in 0 .. n
      BY <1>0
    <3> QED BY <3>3, <3>4, <1>2
  <2>4. \A i \in 0 .. n : h[i] = IF i = 0 THEN base ELSE turn(h[i - 1])
    <3> SUFFICES ASSUME NEW i \in 0 .. n PROVE h[i] = IF i = 0 THEN base ELSE turn(h[i - 1])
      OBVIOUS
    <3>1. i = 0 \/ i \in 1 .. n
      BY <1>0
    <3> HIDE DEF h
    <3> QED BY <3>1, <2>2, <2>3
  <2>5. h = [i \in 0 .. n |-> h[i]]
    OBVIOUS
  <2> HIDE DEF h
  <2> QED BY <2>4, <2>5
<1> HIDE DEF h
<1>6. f = [i \in 0 .. n |-> IF i = 0 THEN base ELSE turn(f[i - 1])]
  <2>1. h = [i \in 0 .. NbVars + 1 |-> IF i = 0 THEN bs ELSE turn(h[i - 1])]
    BY <1>b, <1>5
  <2>2. f = [i \in 0 .. NbVars + 1 |-> IF i = 0 THEN bs ELSE turn(f[i - 1])]
    BY <2>1, Zenon
  <2> HIDE DEF f
  <2> QED BY <2>2, <1>b
<1> HIDE DEF f
<1> DEFINE S == {i \in 0 .. n : f[i] \in G[i]}
<1>7. 0 \in S
  BY <1>0, <1>6
<1>8. ASSUME NEW i \in 1 .. n, i - 1 \in S PROVE i \in S
  <2>1. i \in 0 .. n /\ i # 0
    BY <1>0
  <2>2. f[i] = turn(f[i - 1])
    BY <2>1, <1>6
  <2>3. turn(f[i - 1]) \in G[i]
    BY <1>8 DEF turn
  <2> QED BY <2>1, <2>2, <2>3
<1>9. n \in S
  <2> HIDE DEF S
  <2>1. 0 .. n \subseteq S
    BY <1>0, <1>7, <1>8, BoundedInduction
  <2> QED BY <2>1, <1>0
<1> QED BY <1>1, <1>9

-----------------------------------------------------------------------------
(* The clause that analyze builds.                                         *)

Analysis == [seen : SUBSET Vars, pathC : Nat, out : Seq(Lits), p : Lits \cup {NoLit}, index : Nat,
             confl : Nat, visited : SUBSET Nat]

\* The variables seen of the last level.
Open(st, a) == {v \in a.seen : st.level[v] = DecisionLevel(st)}

\* What was seen is assigned before the place the search has come to; what is
\* of an earlier level is in the clause, the rest is counted.
Analysing(st, a) ==
  /\ a \in Analysis
  /\ \A v \in a.seen : st.level[v] > 0 /\ \E k \in 1 .. a.index : Var(st.trail[k]) = v
  /\ a.pathC = Cardinality(Open(st, a))
  /\ DistinctVars(a.out)
  /\ \A k \in DOMAIN a.out : /\ Value(st, a.out[k]) = False /\ Level(st, a.out[k]) < DecisionLevel(st)
                             /\ Var(a.out[k]) \in a.seen
  /\ \A v \in a.seen : st.level[v] < DecisionLevel(st) => \E k \in DOMAIN a.out : Var(a.out[k]) = v
  /\ st.trailLim[DecisionLevel(st)] <= a.index /\ a.index <= Len(st.trail)

\* A literal that became false by place i of the trail.
FalseBy(st, q, i) == q \in Lits /\ Value(st, q) = False /\ \E k \in 1 .. i : st.trail[k] = -q

LEMMA LevelsBounded ==
  ASSUME NEW st \in Solver, OnTrail(st), Levelled(st), NEW l \in Lits, Value(st, l) # Undef
  PROVE  Level(st, l) \in Nat /\ Level(st, l) <= DecisionLevel(st)
<1>1. PICK k \in DOMAIN st.trail : Var(st.trail[k]) = Var(l)
  <2>1. st.assigns[Var(l)] # Undef
    BY ValueFacts, TrailFacts
  <2> QED BY <2>1, LitFacts DEF OnTrail
<1>2. Level(st, st.trail[k]) <= DecisionLevel(st)
  BY DEF Levelled
<1> QED BY <1>1, <1>2, TrailFacts DEF Level

LEMMA AppendDistinct ==
  ASSUME NEW c \in Seq(Lits), DistinctVars(c), NEW q \in Lits, \A k \in DOMAIN c : Var(c[k]) # Var(q)
  PROVE  /\ Append(c, q) \in Seq(Lits) /\ DistinctVars(Append(c, q))
         /\ DOMAIN Append(c, q) = 1 .. Len(c) + 1 /\ Len(c) \in Nat /\ DOMAIN c = 1 .. Len(c)
         /\ Append(c, q)[Len(c) + 1] = q /\ \A k \in DOMAIN c : Append(c, q)[k] = c[k]
<1> DEFINE d == Append(c, q)
<1>1. /\ d \in Seq(Lits) /\ Len(d) = Len(c) + 1 /\ d[Len(c) + 1] = q
      /\ \A k \in 1 .. Len(c) : d[k] = c[k]
  OBVIOUS
<1>2. Len(c) \in Nat /\ DOMAIN c = 1 .. Len(c) /\ DOMAIN d = 1 .. Len(c) + 1
  BY <1>1
<1> HIDE DEF d
<1>3. DistinctVars(d)
  <2> SUFFICES ASSUME NEW i \in 1 .. Len(c) + 1, NEW j \in 1 .. Len(c) + 1, Var(d[i]) = Var(d[j]) PROVE i = j
    BY <1>2 DEF DistinctVars
  <2>1. (i \in DOMAIN c \/ i = Len(c) + 1) /\ (j \in DOMAIN c \/ j = Len(c) + 1)
    BY <1>2
  <2> QED BY <2>1, <1>1, <1>2 DEF DistinctVars
<1> QED BY <1>1, <1>2, <1>3 DEF d

\* What See changes.
Saw(st, a, new, q) ==
  /\ new.p = a.p /\ new.index = a.index /\ new.confl = a.confl /\ new.visited = a.visited
  /\ a.seen \subseteq new.seen /\ (Var(q) \in new.seen \/ Level(st, q) = 0)

LEMMA SeeStep ==
  ASSUME NEW st \in Solver, OnTrail(st), Levelled(st), NEW a, Analysing(st, a),
         NEW q, FalseBy(st, q, a.index), NEW new, new = See(st, a, q)
  PROVE  Analysing(st, new) /\ Saw(st, a, new, q)
<1> DEFINE D == DecisionLevel(st)
<1>1. /\ a \in Analysis /\ a.seen \subseteq Vars /\ a.out \in Seq(Lits) /\ a.pathC \in Nat /\ a.index \in Nat
      /\ a.pathC = Cardinality(Open(st, a)) /\ DistinctVars(a.out)
  BY DEF Analysing, Analysis
<1>2. /\ q \in Lits /\ Var(q) \in Vars /\ D \in Nat /\ Level(st, q) \in Nat /\ Level(st, q) <= D
      /\ Level(st, q) = st.level[Var(q)]
  BY LitFacts, TrailFacts, LevelsBounded, SignsDiffer DEF FalseBy, Level
<1>3. PICK k \in 1 .. a.index : st.trail[k] = -q
  BY DEF FalseBy
<1>4. Var(st.trail[k]) = Var(q)
  BY <1>2, <1>3, LitFacts
<1>5. CASE Var(q) \in a.seen \/ Level(st, q) = 0
  <2>1. new = a
    BY <1>5 DEF See
  <2> QED BY <2>1, <1>5 DEF Saw
<1>6. CASE ~(Var(q) \in a.seen \/ Level(st, q) = 0) /\ Level(st, q) >= D
  <2> DEFINE S == a.seen \cup {Var(q)}
             n == a.pathC + 1
  <2>1. new = [a EXCEPT !.seen = S, !.pathC = n]
    BY <1>6 DEF See
  <2>2. S \in SUBSET Vars /\ n \in Nat
    BY <1>1, <1>2
  <2>3. S = a.seen \cup {Var(q)} /\ n = a.pathC + 1
    OBVIOUS
  <2> HIDE DEF S, n
  <2>4. /\ new \in Analysis /\ new.seen = S /\ new.pathC = n /\ new.out = a.out /\ new.p = a.p
        /\ new.index = a.index /\ new.confl = a.confl /\ new.visited = a.visited
    BY <2>1, <2>2, <1>1 DEF Analysis
  <2>5. Open(st, new) = Open(st, a) \cup {Var(q)} /\ Var(q) \notin Open(st, a)
    BY <1>2, <1>6, <2>3, <2>4 DEF Open
  <2>6. Cardinality(Open(st, new)) = Cardinality(Open(st, a)) + 1
    <3>1. IsFiniteSet(Vars)
      BY FS_Interval, NbVarsAssumption DEF Vars
    <3>2. IsFiniteSet(Open(st, a))
      BY <3>1, <1>1, FS_Subset DEF Open
    <3> QED BY <3>2, <2>5, FS_AddElement
  <2>7. \A v \in new.seen : st.level[v] > 0 /\ \E j \in 1 .. new.index : Var(st.trail[j]) = v
    BY <1>2, <1>4, <1>6, <2>3, <2>4 DEF Analysing
  <2>8. \A v \in new.seen : st.level[v] < D => \E j \in DOMAIN new.out : Var(new.out[j]) = v
    BY <1>2, <1>6, <2>3, <2>4 DEF Analysing
  <2>9. \A j \in DOMAIN new.out : /\ Value(st, new.out[j]) = False /\ Level(st, new.out[j]) < D
                                  /\ Var(new.out[j]) \in new.seen
    BY <2>3, <2>4 DEF Analysing
  <2>10. Analysing(st, new)
    BY <1>1, <2>3, <2>4, <2>6, <2>7, <2>8, <2>9 DEF Analysing
  <2> QED BY <2>3, <2>4, <2>10 DEF Saw
<1>7. CASE ~(Var(q) \in a.seen \/ Level(st, q) = 0) /\ ~(Level(st, q) >= D)
  <2> DEFINE S == a.seen \cup {Var(q)}
             o == Append(a.out, q)
  <2>1. new = [a EXCEPT !.seen = S, !.out = o]
    BY <1>7 DEF See
  <2>2. S \in SUBSET Vars
    BY <1>1, <1>2
  <2>3. S = a.seen \cup {Var(q)}
    OBVIOUS
  <2>4. \A j \in DOMAIN a.out : Var(a.out[j]) # Var(q)
    BY <1>7 DEF Analysing
  <2>5. /\ o \in Seq(Lits) /\ DistinctVars(o)
        /\ DOMAIN o = 1 .. Len(a.out) + 1 /\ Len(a.out) \in Nat /\ DOMAIN a.out = 1 .. Len(a.out)
        /\ o[Len(a.out) + 1] = q /\ \A j \in DOMAIN a.out : o[j] = a.out[j]
    BY <1>1, <1>2, <2>4, AppendDistinct
  <2> HIDE DEF S, o
  <2>6. /\ new \in Analysis /\ new.seen = S /\ new.pathC = a.pathC /\ new.out = o /\ new.p = a.p
        /\ new.index = a.index /\ new.confl = a.confl /\ new.visited = a.visited
    BY <2>1, <2>2, <2>5, <1>1 DEF Analysis
  <2>7. Open(st, new) = Open(st, a)
    BY <1>2, <1>7, <2>3, <2>6 DEF Open
  <2>8. \A v \in new.seen : st.level[v] > 0 /\ \E j \in 1 .. new.index : Var(st.trail[j]) = v
    BY <1>2, <1>4, <1>7, <2>3, <2>6 DEF Analysing
  <2>9. ASSUME NEW j \in DOMAIN o PROVE j \in DOMAIN a.out \/ j = Len(a.out) + 1
    BY <2>5
  <2>10. /\ Len(a.out) + 1 \in DOMAIN o
         /\ \A j \in DOMAIN a.out : j \in DOMAIN o
    BY <2>5
  <2>11. \A v \in new.seen : st.level[v] < D => \E j \in DOMAIN new.out : Var(new.out[j]) = v
    <3> SUFFICES ASSUME NEW v \in S, st.level[v] < D PROVE \E j \in DOMAIN o : Var(o[j]) = v
      BY <2>6
    <3>1. CASE v = Var(q)
      BY <3>1, <2>5, <2>10
    <3>2. CASE v \in a.seen
      <4>1. PICK j \in DOMAIN a.out : Var(a.out[j]) = v
        BY <3>2 DEF Analysing
      <4> QED BY <4>1, <2>5, <2>10
    <3> QED BY <3>1, <3>2, <2>3
  <2>12. ASSUME NEW j \in DOMAIN o
         PROVE  Value(st, o[j]) = False /\ Level(st, o[j]) < D /\ Var(o[j]) \in S
    <3>1. CASE j = Len(a.out) + 1
      BY <3>1, <2>3, <2>5, <1>2, <1>7 DEF FalseBy
    <3>2. CASE j \in DOMAIN a.out
      BY <3>2, <2>3, <2>5 DEF Analysing
    <3> QED BY <3>1, <3>2, <2>9
  <2>13. Analysing(st, new)
    BY <1>1, <2>5, <2>6, <2>7, <2>8, <2>11, <2>12 DEF Analysing
  <2> QED BY <2>3, <2>6, <2>13 DEF Saw
<1> QED BY <1>5, <1>6, <1>7

\* All the literals of a clause.
LEMMA SeeAll ==
  ASSUME NEW st \in Solver, OnTrail(st), Levelled(st), NEW a, Analysing(st, a),
         NEW n \in Nat, NEW ws, DOMAIN ws = 1 .. n, \A k \in 1 .. n : FalseBy(st, ws[k], a.index),
         NEW new, new = SeeFolded(st, a, ws)
  PROVE  /\ Analysing(st, new)
         /\ new.p = a.p /\ new.index = a.index /\ new.confl = a.confl /\ new.visited = a.visited
         /\ a.seen \subseteq new.seen
         /\ \A k \in 1 .. n : Var(ws[k]) \in new.seen \/ Level(st, ws[k]) = 0
<1> DEFINE G == [i \in 0 .. n |-> {x \in Analysis :
                   /\ Analysing(st, x)
                   /\ x.p = a.p /\ x.index = a.index /\ x.confl = a.confl /\ x.visited = a.visited
                   /\ a.seen \subseteq x.seen
                   /\ \A k \in 1 .. i : Var(ws[k]) \in x.seen \/ Level(st, ws[k]) = 0}]
<1>1. a \in G[0]
  BY DEF Analysing
<1>2. ASSUME NEW i \in 1 .. n, NEW x \in G[i - 1] PROVE See(st, x, ws[i]) \in G[i]
  <2> DEFINE y == See(st, x, ws[i])
  <2>0. i \in 0 .. n /\ i - 1 \in 0 .. n /\ i \in Nat
    OBVIOUS
  <2>1. /\ Analysing(st, x)
        /\ x.p = a.p /\ x.index = a.index /\ x.confl = a.confl /\ x.visited = a.visited
        /\ a.seen \subseteq x.seen
        /\ \A k \in 1 .. i - 1 : Var(ws[k]) \in x.seen \/ Level(st, ws[k]) = 0
    BY <2>0
  <2>2. FalseBy(st, ws[i], x.index)
    BY <2>1
  <2>3. Analysing(st, y) /\ Saw(st, x, y, ws[i])
    BY <2>1, <2>2, SeeStep
  <2> HIDE DEF y
  <2>4. /\ y.p = a.p /\ y.index = a.index /\ y.confl = a.confl /\ y.visited = a.visited
        /\ a.seen \subseteq y.seen
    BY <2>1, <2>3 DEF Saw
  <2>5. ASSUME NEW k \in 1 .. i PROVE Var(ws[k]) \in y.seen \/ Level(st, ws[k]) = 0
    <3>1. k = i \/ k \in 1 .. i - 1
      BY <2>0
    <3> QED BY <3>1, <2>1, <2>3 DEF Saw
  <2>6. y \in Analysis
    BY <2>3 DEF Analysing
  <2>7. y \in G[i]
    BY <2>0, <2>3, <2>4, <2>5, <2>6
  <2> QED BY <2>7 DEF y
<1>3. n \in 0 .. n
  OBVIOUS
<1>4. new \in G[n]
  <2> HIDE DEF G
  <2> QED BY <1>1, <1>2, SeeFold
<1> QED BY <1>3, <1>4

-----------------------------------------------------------------------------
(* The loop of analyze: one literal is resolved away.                      *)

\* The false literals of some variables.
FalseOf(st, S) == {q \in Lits : Value(st, q) = False /\ Var(q) \in S}

\* The literal p is the next one to resolve away: together with what was seen,
\* its negation follows.
Resolved(st, M, a) ==
  /\ Analysing(st, a)
  /\ a.p \in Lits /\ a.index + 1 \in DOMAIN st.trail /\ a.p = st.trail[a.index + 1]
  /\ Level(st, a.p) = DecisionLevel(st)
  /\ a.confl = st.reason[Var(a.p)]
  /\ \A m \in M : Satisfies(m, {-a.p} \cup FalseOf(st, a.seen))

Latest(st, i, S) == Max({k \in 1 .. i : Var(st.trail[k]) \in S})

Taken(st, b, i, p, V) ==
  [b EXCEPT !.seen = @ \ {Var(p)}, !.pathC = @ - 1, !.p = p, !.index = i - 1,
            !.confl = st.reason[Var(p)], !.visited = V]

\* The latest literal that was seen is taken.
LEMMA TakeLatest ==
  ASSUME NEW st, NEW M, Core(st, M), DecisionLevel(st) > 0, NEW b, Analysing(st, b), Open(st, b) # {},
         \A m \in M : Satisfies(m, FalseOf(st, b.seen)),
         NEW V \in SUBSET Nat, NEW i, i = Latest(st, b.index, b.seen),
         NEW p, p = st.trail[i],
         NEW new, new = Taken(st, b, i, p, V)
  PROVE  Resolved(st, M, new) /\ new.index < b.index
<1> DEFINE D == DecisionLevel(st)
<1>1. /\ st \in Solver /\ OnTrail(st) /\ Levelled(st)
  BY CoreFacts
<1>2. /\ st.trail \in Seq(Lits) /\ Len(st.trail) \in Nat /\ DOMAIN st.trail = 1 .. Len(st.trail)
      /\ \A k \in DOMAIN st.trail : st.trail[k] \in Lits
      /\ D \in Nat /\ DOMAIN st.trailLim = 1 .. D
      /\ \A d \in DOMAIN st.trailLim : st.trailLim[d] \in Nat
      /\ st.level \in [Vars -> Nat] /\ st.reason \in [Vars -> Nat]
  BY <1>1, TrailFacts
<1>3. D \in DOMAIN st.trailLim /\ st.trailLim[D] \in Nat
  BY <1>2
<1>4. /\ b \in Analysis /\ b.seen \subseteq Vars /\ b.out \in Seq(Lits) /\ b.pathC \in Nat /\ b.index \in Nat
      /\ b.pathC = Cardinality(Open(st, b)) /\ DistinctVars(b.out)
      /\ st.trailLim[D] <= b.index /\ b.index <= Len(st.trail)
  BY DEF Analysing, Analysis
<1>5. \A v \in b.seen : st.level[v] > 0 /\ \E k \in 1 .. b.index : Var(st.trail[k]) = v
  BY DEF Analysing
<1>6. /\ i \in 1 .. b.index /\ Var(st.trail[i]) \in b.seen
      /\ \A k \in 1 .. b.index : Var(st.trail[k]) \in b.seen => k <= i
  <2> DEFINE S == {k \in 1 .. b.index : Var(st.trail[k]) \in b.seen}
  <2>1. S \subseteq 1 .. b.index
    OBVIOUS
  <2>2. S # {}
    BY <1>5 DEF Open
  <2>3. i = Max(S)
    BY DEF Latest
  <2>4. Max(S) \in S /\ \A k \in S : k <= Max(S)
    <3> HIDE DEF S
    <3> QED BY <2>1, <2>2, <1>4, GreatestPosition
  <2>5. \A k \in 1 .. b.index : Var(st.trail[k]) \in b.seen => k \in S
    OBVIOUS
  <2>6. i \in S
    BY <2>3, <2>4
  <2> QED BY <2>3, <2>4, <2>5, <2>6
<1>7. i \in DOMAIN st.trail /\ i \in Nat /\ i > 0 /\ i - 1 \in Nat /\ i - 1 < b.index
  BY SMTT(30), <1>2, <1>4, <1>6
<1>8. p \in Lits /\ Var(p) \in Vars /\ Value(st, p) = True /\ Var(p) \in b.seen /\ Value(st, -p) = False
  <2>1. p \in Lits /\ Value(st, p) = True
    BY <1>1, <1>2, <1>7 DEF OnTrail
  <2> QED BY SMTT(30), <2>1, <1>1, <1>6, LitFacts, ValueFacts, TrailFacts
<1>9. i > st.trailLim[D]
  <2>1. PICK v \in b.seen : st.level[v] = D
    BY DEF Open
  <2>2. PICK k \in 1 .. b.index : Var(st.trail[k]) = v
    BY <2>1, <1>5
  <2>3. k \in DOMAIN st.trail /\ k <= i
    BY <2>2, <1>2, <1>4, <1>6
  <2>4. Level(st, st.trail[k]) >= D
    BY <2>1, <2>2, <1>2 DEF Level
  <2>5. k > st.trailLim[D]
    BY <2>3, <2>4, <1>1, <1>3 DEF Levelled
  <2> QED BY <2>3, <2>5, <1>3, <1>7
<1>10. Level(st, p) = D /\ st.level[Var(p)] = D
  <2>1. Level(st, p) <= D /\ Level(st, p) >= D
    BY <1>1, <1>3, <1>7, <1>9 DEF Levelled
  <2>2. Level(st, p) \in Nat
    BY <1>1, <1>8, TrailFacts
  <2> QED BY <2>1, <2>2, <1>2 DEF Level
<1> DEFINE S == b.seen \ {Var(p)}
           n == b.pathC - 1
           r == st.reason[Var(p)]
           j == i - 1
<1>11. new = [b EXCEPT !.seen = S, !.pathC = n, !.p = p, !.index = j, !.confl = r, !.visited = V]
  BY <1>4 DEF Analysis, Taken
<1>12. S = b.seen \ {Var(p)} /\ n = b.pathC - 1 /\ r = st.reason[Var(p)] /\ j = i - 1
  OBVIOUS
<1> HIDE DEF S, n, r, j
<1>13. IsFiniteSet(Open(st, b)) /\ Var(p) \in Open(st, b)
  <2>1. IsFiniteSet(Vars)
    BY FS_Interval, NbVarsAssumption DEF Vars
  <2> QED BY <2>1, <1>4, <1>8, <1>10, FS_Subset DEF Open
<1>14. Cardinality(Open(st, b) \ {Var(p)}) = n /\ n \in Nat
  <2>1. Cardinality(Open(st, b) \ {Var(p)}) = Cardinality(Open(st, b)) - 1
    BY <1>13, FS_RemoveElement
  <2>2. IsFiniteSet(Open(st, b) \ {Var(p)})
    BY <1>13, FS_Subset
  <2>3. Cardinality(Open(st, b) \ {Var(p)}) \in Nat
    BY <2>2, FS_CardinalityType
  <2> QED BY <2>1, <2>3, <1>4, <1>12
<1>15. S \in SUBSET Vars /\ r \in Nat /\ j \in Nat
  BY <1>2, <1>4, <1>7, <1>8, <1>12
<1>16. /\ new \in Analysis /\ new.seen = S /\ new.pathC = n /\ new.out = b.out /\ new.p = p
       /\ new.index = j /\ new.confl = r /\ new.visited = V
  BY <1>4, <1>8, <1>11, <1>14, <1>15 DEF Analysis
<1>17. Open(st, new) = Open(st, b) \ {Var(p)}
  BY <1>12, <1>16 DEF Open
<1>18. \A v \in new.seen : st.level[v] > 0 /\ \E k \in 1 .. new.index : Var(st.trail[k]) = v
  <2> SUFFICES ASSUME NEW v \in S PROVE st.level[v] > 0 /\ \E k \in 1 .. j : Var(st.trail[k]) = v
    BY <1>16
  <2>1. PICK k \in 1 .. b.index : Var(st.trail[k]) = v
    BY <1>5, <1>12
  <2>2. k <= i /\ k # i
    BY <2>1, <1>6, <1>12
  <2>3. k \in 1 .. j
    BY <2>2, <1>4, <1>7, <1>12
  <2> QED BY <2>1, <2>3, <1>5, <1>12
<1>19. \A k \in DOMAIN new.out : /\ Value(st, new.out[k]) = False /\ Level(st, new.out[k]) < D
                                 /\ Var(new.out[k]) \in new.seen
  <2> SUFFICES ASSUME NEW k \in DOMAIN b.out
               PROVE  Value(st, b.out[k]) = False /\ Level(st, b.out[k]) < D /\ Var(b.out[k]) \in S
    BY <1>16
  <2>1. Value(st, b.out[k]) = False /\ Level(st, b.out[k]) < D /\ Var(b.out[k]) \in b.seen
    BY DEF Analysing
  <2>2. Var(b.out[k]) # Var(p)
    BY <2>1, <1>2, <1>10 DEF Level
  <2> QED BY <2>1, <2>2, <1>12
<1>20. \A v \in new.seen : st.level[v] < D => \E k \in DOMAIN new.out : Var(new.out[k]) = v
  BY ZenonT(40), <1>12, <1>16 DEF Analysing
<1>21. st.trailLim[D] <= j /\ j <= Len(st.trail)
  BY <1>2, <1>3, <1>4, <1>7, <1>9, <1>12
<1>22. Analysing(st, new)
  BY <1>4, <1>14, <1>16, <1>17, <1>18, <1>19, <1>20, <1>21 DEF Analysing
<1>23. ASSUME NEW m \in M PROVE Satisfies(m, {-p} \cup FalseOf(st, S))
  <2>1. Satisfies(m, FalseOf(st, b.seen))
    OBVIOUS
  <2>2. FalseOf(st, b.seen) \subseteq {-p} \cup FalseOf(st, S)
    <3> SUFFICES ASSUME NEW q \in FalseOf(st, b.seen), q # -p PROVE q \in FalseOf(st, S)
      OBVIOUS
    <3>1. q \in Lits /\ Value(st, q) = False /\ Var(q) \in b.seen
      BY DEF FalseOf
    <3>2. q # p
      BY <3>1, <1>8, SignsDiffer
    <3>3. Var(q) # Var(p)
      BY <3>1, <3>2, <1>8, SameVar
    <3> QED BY <3>1, <3>3, <1>12 DEF FalseOf
  <2> QED BY <2>1, <2>2 DEF Satisfies
<1>24. j + 1 = i
  BY <1>7, <1>12
<1>25. Resolved(st, M, new)
  BY <1>7, <1>8, <1>10, <1>12, <1>16, <1>22, <1>23, <1>24 DEF Resolved
<1> QED BY <1>7, <1>12, <1>16, <1>25

\* The other literals of a reason.
Others(st, r) == Tail(TrueFirst(st, r))

\* Clause r is the reason of the literal p at place k of the trail.
IsReason(st, k, p, r) ==
  k \in DOMAIN st.trail /\ p = st.trail[k] /\ r = st.reason[Var(p)] /\ r # NoRef

LEMMA ReasonOthers ==
  ASSUME NEW st, NEW M, Core(st, M), NEW k, NEW p, NEW r, IsReason(st, k, p, r),
         NEW c, c = Others(st, r)
  PROVE  /\ r \in DOMAIN st.db /\ c \in Seq(Lits) /\ DistinctVars(c)
         /\ ToSet(st.db[r]) = {p} \cup ToSet(c)
         /\ \A i \in DOMAIN c : FalseBy(st, c[i], k - 1)
         /\ TrueFirst(st, r)[1] = p
<1>0. k \in DOMAIN st.trail /\ p = st.trail[k] /\ r = st.reason[Var(p)] /\ r # NoRef
  BY DEF IsReason
<1>1. /\ st \in Solver /\ OnTrail(st) /\ Reasoned(st) /\ Stored(st)
  BY CoreFacts
<1>2. r \in DOMAIN st.db /\ Forces(st, st.db[r], p, k)
  BY <1>0, <1>1 DEF Reasoned
<1> DEFINE b == st.db[r]
           d == TrueFirst(st, r)
<1>3. /\ b \in Seq(Lits) /\ Len(b) \in Nat /\ Len(b) >= 2 /\ DOMAIN b = 1 .. Len(b)
      /\ \A i \in DOMAIN b : b[i] \in Lits
      /\ 1 \in DOMAIN b /\ 2 \in DOMAIN b /\ DistinctVars(b)
  BY <1>1, <1>2, ClauseFacts DEF Stored
<1>4. p \in Lits /\ Value(st, p) = True /\ st.assigns \in [Vars -> Values]
  BY <1>0, <1>1, TrailFacts DEF OnTrail
<1>5. (p = b[1] \/ (Len(b) = 2 /\ p = b[2])) /\ \A i \in DOMAIN b : b[i] # p => \E j \in 1 .. k - 1 : st.trail[j] = -b[i]
  BY <1>2 DEF Forces
<1>6. \A i \in DOMAIN b : b[i] # p => FalseBy(st, b[i], k - 1)
  <2> SUFFICES ASSUME NEW i \in DOMAIN b, b[i] # p PROVE FalseBy(st, b[i], k - 1)
    OBVIOUS
  <2>1. PICK j \in 1 .. k - 1 : st.trail[j] = -b[i]
    BY <1>5
  <2>2. j \in DOMAIN st.trail
    <3>1. DOMAIN st.trail = 1 .. Len(st.trail) /\ Len(st.trail) \in Nat
      BY <1>1, TrailFacts
    <3> QED BY <3>1, <1>0
  <2>3. Value(st, -b[i]) = True
    BY <2>1, <2>2, <1>1 DEF OnTrail
  <2>4. Value(st, b[i]) = False
    BY <2>3, <1>3, <1>4, ValueFacts
  <2> QED BY <2>1, <2>4, <1>3 DEF FalseBy
<1>7. /\ d \in Seq(Lits) /\ Len(d) = Len(b) /\ ToSet(d) = ToSet(b) /\ DistinctVars(d) /\ d[1] = p
  <2>1. CASE p = b[1]
    <3>1. d = b
      BY <2>1, <1>4, SignsDiffer DEF TrueFirst
    <3> QED BY <3>1, <2>1, <1>3
  <2>2. CASE p # b[1]
    <3>1. Len(b) = 2 /\ p = b[2]
      BY <2>2, <1>5
    <3>2. Value(st, b[1]) = False
      BY <2>2, <1>3, <1>6 DEF FalseBy
    <3>3. d = Swapped(b, 1, 2)
      BY <3>1, <3>2 DEF TrueFirst
    <3> HIDE DEF d, b
    <3> QED BY <3>1, <3>3, <1>3, SwappedFacts, SwappedDistinct
  <2> QED BY <2>1, <2>2
<1> HIDE DEF d, b
<1>8. c = Tail(d)
  BY DEF d, Others
<1>9. /\ c \in Seq(Lits) /\ Len(c) = Len(d) - 1 /\ \A i \in 1 .. Len(d) - 1 : c[i] = d[i + 1]
  <2>1. d \in Seq(Lits) /\ Len(d) \in Nat /\ d # << >>
    BY <1>3, <1>7
  <2>2. /\ Tail(d) \in Seq(Lits) /\ Len(Tail(d)) = Len(d) - 1
        /\ \A i \in 1 .. Len(Tail(d)) : Tail(d)[i] = d[i + 1]
    BY ONLY <2>1, HeadTailProperties
  <2> QED BY <2>1, <2>2, <1>8
<1>10. /\ DOMAIN c = 1 .. Len(b) - 1 /\ DOMAIN d = 1 .. Len(b)
       /\ \A i \in DOMAIN c : c[i] = d[i + 1] /\ i + 1 \in DOMAIN d /\ i + 1 # 1 /\ 1 \in DOMAIN d
  BY <1>3, <1>7, <1>9
<1>11. DistinctVars(c)
  <2> SUFFICES ASSUME NEW i \in DOMAIN c, NEW j \in DOMAIN c, Var(c[i]) = Var(c[j]) PROVE i = j
    BY DEF DistinctVars
  <2>1. i + 1 = j + 1
    BY <1>7, <1>10 DEF DistinctVars
  <2> QED BY <2>1, <1>3, <1>10
<1>12. \A i \in DOMAIN c : c[i] # p /\ c[i] \in ToSet(b)
  <2> SUFFICES ASSUME NEW i \in DOMAIN c PROVE c[i] # p /\ c[i] \in ToSet(b)
    OBVIOUS
  <2>1. c[i] # p
    BY <1>7, <1>10 DEF DistinctVars
  <2>2. c[i] \in ToSet(d)
    BY <1>7, <1>10, SeqFacts
  <2> QED BY <2>1, <2>2, <1>7
<1>13. ToSet(b) = {p} \cup ToSet(c)
  <2>1. \A x \in ToSet(b) : x = p \/ x \in ToSet(c)
    <3> SUFFICES ASSUME NEW x \in ToSet(d), x # p PROVE x \in ToSet(c)
      BY <1>7
    <3>1. PICK i \in DOMAIN d : d[i] = x
      BY <1>7, SeqFacts
    <3>2. i # 1 /\ i - 1 \in DOMAIN c /\ (i - 1) + 1 = i
      <4>1. i \in 1 .. Len(b) /\ i # 1
        BY <3>1, <1>10, <1>7
      <4> QED BY <4>1, <1>3, <1>10
    <3>3. c[i - 1] = x
      BY <3>1, <3>2, <1>10
    <3> QED BY <3>2, <3>3 DEF ToSet
  <2>2. \A x \in ToSet(c) : x \in ToSet(b)
    <3> SUFFICES ASSUME NEW x \in ToSet(c) PROVE x \in ToSet(b)
      OBVIOUS
    <3>1. PICK i \in DOMAIN c : c[i] = x
      BY DEF ToSet
    <3> QED BY <3>1, <1>12
  <2>3. p \in ToSet(b)
    BY <1>3, <1>5, SeqFacts
  <2> QED BY <2>1, <2>2, <2>3
<1>14. \A i \in DOMAIN c : FalseBy(st, c[i], k - 1)
  <2> SUFFICES ASSUME NEW i \in DOMAIN c PROVE FalseBy(st, c[i], k - 1)
    OBVIOUS
  <2>1. PICK j \in DOMAIN b : b[j] = c[i]
    BY <1>12 DEF ToSet
  <2> QED BY <2>1, <1>6, <1>12
<1> QED BY <1>2, <1>7, <1>9, <1>11, <1>13, <1>14 DEF b, d

LEMMA OpenFinite ==
  ASSUME NEW st, NEW a, Analysing(st, a)
  PROVE  IsFiniteSet(Open(st, a)) /\ (a.pathC = 0 <=> Open(st, a) = {})
<1>1. IsFiniteSet(Vars)
  BY FS_Interval, NbVarsAssumption DEF Vars
<1>2. a.seen \subseteq Vars /\ a.pathC = Cardinality(Open(st, a))
  BY DEF Analysing, Analysis
<1>3. IsFiniteSet(Open(st, a))
  BY <1>1, <1>2, FS_Subset DEF Open
<1> QED BY <1>2, <1>3, FS_EmptySet

Unstarted(st) == [seen |-> {}, pathC |-> 0, out |-> << >>, p |-> NoLit, index |-> Len(st.trail),
                  confl |-> st.confl, visited |-> {}]

LEMMA StartAnalysing ==
  ASSUME NEW st, NEW M, Core(st, M), DecisionLevel(st) > 0
  PROVE  Analysing(st, Unstarted(st))
<1>1. /\ st \in Solver /\ OnTrail(st) /\ Levelled(st)
  BY CoreFacts
<1>2. Len(st.trail) \in Nat /\ DecisionLevel(st) \in DOMAIN st.trailLim /\ st.confl \in Nat
  <2>1. DecisionLevel(st) \in Nat /\ DOMAIN st.trailLim = 1 .. DecisionLevel(st)
    BY <1>1, TrailFacts
  <2>2. DecisionLevel(st) \in DOMAIN st.trailLim
    BY <2>1
  <2> QED BY <1>1, <2>2, TrailFacts DEF Solver
<1>3. st.trailLim[DecisionLevel(st)] <= Len(st.trail)
  BY <1>1, <1>2 DEF Levelled
<1> DEFINE a == Unstarted(st)
<1>4. /\ a \in Analysis /\ a.seen = {} /\ a.pathC = 0 /\ a.out = << >> /\ a.index = Len(st.trail)
  BY <1>2 DEF Unstarted, Analysis
<1>5. Open(st, a) = {} /\ Cardinality({}) = 0
  BY <1>4, FS_EmptySet DEF Open
<1> HIDE DEF a
<1>6. DOMAIN a.out = {}
  BY <1>4
<1>7. Analysing(st, a)
  BY <1>2, <1>3, <1>4, <1>5, <1>6 DEF Analysing, DistinctVars
<1> QED BY <1>7 DEF a

\* A literal of a satisfied clause whose other literals are false is seen.
LEMMA SeenOrRoot ==
  ASSUME NEW st, NEW M, Core(st, M), NEW m \in M, NEW S, NEW l \in Lits, Value(st, l) = False,
         Satisfies(m, {l}), Var(l) \in S \/ Level(st, l) = 0
  PROVE  Satisfies(m, FalseOf(st, S))
<1>1. Level(st, l) # 0
  BY FalseAtRoot
<1>2. l \in FalseOf(st, S)
  BY <1>1 DEF FalseOf
<1> QED BY <1>2 DEF Satisfies

\* The first turn: the clause in conflict.
LEMMA FirstTurn ==
  ASSUME NEW st, NEW M, Core(st, M), DecisionLevel(st) > 0, Conflicting(st),
         NEW new, new = Resolve(st, Unstarted(st))
  PROVE  Resolved(st, M, new) /\ new.index < Len(st.trail)
<1> DEFINE a == Unstarted(st)
           c == st.db[st.confl]
           n == Len(c)
           b == SeeFolded(st, a, c)
           i == Latest(st, b.index, b.seen)
           p == st.trail[i]
<1>1. /\ st \in Solver /\ OnTrail(st) /\ Levelled(st) /\ Implied(st, M)
  BY CoreFacts
<1>2. st.confl \in DOMAIN st.db
  BY DEF Conflicting
<1>3. /\ c \in Seq(Lits) /\ n \in Nat /\ DOMAIN c = 1 .. n
      /\ \A k \in DOMAIN c : c[k] \in Lits /\ c[k] \in ToSet(c)
  BY <1>1, <1>2, ClauseFacts, SeqFacts
<1>4. /\ a.p = NoLit /\ a.confl = st.confl /\ a.index = Len(st.trail) /\ a.visited = {}
  BY DEF Unstarted
<1>5. Analysing(st, a)
  BY StartAnalysing
<1>6. ASSUME NEW k \in 1 .. n PROVE FalseBy(st, c[k], a.index)
  <2>1. c[k] \in Lits /\ Value(st, c[k]) = False
    BY <1>3 DEF Conflicting
  <2>2. Value(st, -c[k]) = True /\ -c[k] \in Lits
    BY <2>1, <1>1, ValueFacts, LitFacts, TrailFacts
  <2>3. \E j \in DOMAIN st.trail : st.trail[j] = -c[k]
    BY <2>2, <1>1, TrailFacts
  <2>4. DOMAIN st.trail = 1 .. Len(st.trail)
    BY <1>1, TrailFacts
  <2> QED BY <2>1, <2>3, <2>4, <1>4 DEF FalseBy
<1>7. new = [b EXCEPT !.seen = @ \ {Var(p)}, !.pathC = @ - 1, !.p = p, !.index = i - 1,
                      !.confl = st.reason[Var(p)], !.visited = @]
  <2>1. b.index = a.index
    <3> HIDE DEF c, n, a
    <3> QED BY <1>1, <1>3, <1>5, <1>6, SeeAll
  <2> QED BY <1>4, <2>1 DEF Resolve, SeeFolded, Latest
<1> HIDE DEF c, n, a
<1>8. /\ Analysing(st, b) /\ b.index = a.index
      /\ \A k \in 1 .. n : Var(c[k]) \in b.seen \/ Level(st, c[k]) = 0
  BY <1>1, <1>3, <1>5, <1>6, SeeAll
<1> HIDE DEF b
<1>9. Open(st, b) # {}
  <2>1. PICK q \in ToSet(c) : Level(st, q) = DecisionLevel(st)
    BY DEF Conflicting, c
  <2>2. PICK k \in DOMAIN c : c[k] = q
    BY <2>1 DEF ToSet
  <2>3. Var(q) \in b.seen
    BY <2>1, <2>2, <1>3, <1>8
  <2> QED BY <2>1, <2>3 DEF Open, Level
<1>10. ASSUME NEW m \in M PROVE Satisfies(m, FalseOf(st, b.seen))
  <2>1. Satisfies(m, ToSet(c))
    BY <1>1, <1>2 DEF Implied, c
  <2>2. PICK l \in ToSet(c) : (l > 0) = (Var(l) \in m)
    BY <2>1 DEF Satisfies
  <2>3. PICK k \in DOMAIN c : c[k] = l
    BY <2>2 DEF ToSet
  <2>4. l \in Lits /\ Value(st, l) = False /\ (Var(l) \in b.seen \/ Level(st, l) = 0)
    BY <2>3, <1>3, <1>6, <1>8 DEF FalseBy
  <2>5. Satisfies(m, {l})
    BY <2>2 DEF Satisfies
  <2> QED BY <2>4, <2>5, SeenOrRoot
<1>11. b \in Analysis
  BY <1>8 DEF Analysing
<1> DEFINE V == b.visited
<1>12. V \in SUBSET Nat /\ new = Taken(st, b, i, p, V)
  BY <1>7, <1>11 DEF Analysis, Taken
<1> HIDE DEF V
<1>13. i = Latest(st, b.index, b.seen) /\ p = st.trail[i]
  OBVIOUS
<1> HIDE DEF i, p
<1>14. Resolved(st, M, new) /\ new.index < b.index
  BY <1>8, <1>9, <1>10, <1>12, <1>13, TakeLatest
<1> QED BY <1>4, <1>8, <1>14

\* The next ones: a reason.
LEMMA NextTurn ==
  ASSUME NEW st, NEW M, Core(st, M), DecisionLevel(st) > 0, NEW a, Resolved(st, M, a), a.pathC # 0,
         NEW new, new = Resolve(st, a)
  PROVE  Resolved(st, M, new) /\ new.index < a.index
<1> DEFINE D == DecisionLevel(st)
           q == a.p
           r == a.confl
           c == Others(st, r)
           b == SeeFolded(st, a, c)
           i == Latest(st, b.index, b.seen)
           p == st.trail[i]
<1>1. /\ st \in Solver /\ OnTrail(st) /\ Levelled(st) /\ Implied(st, M) /\ Decided(st)
  BY CoreFacts
<1>2. /\ Analysing(st, a) /\ q \in Lits /\ a.index + 1 \in DOMAIN st.trail /\ q = st.trail[a.index + 1]
      /\ Level(st, q) = D /\ r = st.reason[Var(q)] /\ a \in Analysis /\ a.index \in Nat
  BY DEF Resolved, Analysing, Analysis
<1>3. Open(st, a) # {}
  BY <1>2, OpenFinite
<1>4. DOMAIN st.trail = 1 .. Len(st.trail) /\ Len(st.trail) \in Nat /\ D \in DOMAIN st.trailLim
      /\ st.trailLim[D] \in Nat /\ a.index <= Len(st.trail)
  BY <1>1, <1>2, TrailFacts DEF Analysing
<1>5. r # NoRef
  <2>1. PICK v \in a.seen : st.level[v] = D
    BY <1>3 DEF Open
  <2>2. PICK k \in 1 .. a.index : Var(st.trail[k]) = v
    BY <2>1, <1>2 DEF Analysing
  <2>3. k \in DOMAIN st.trail /\ k < a.index + 1
    BY <2>2, <1>2, <1>4
  <2>4. Level(st, st.trail[k]) >= D
    <3>1. D \in Nat
      BY <1>1, TrailFacts
    <3>2. Level(st, st.trail[k]) = D
      BY <2>1, <2>2 DEF Level
    <3> QED BY <3>1, <3>2
  <2>5. k > st.trailLim[D]
    BY <2>3, <2>4, <1>1, <1>4 DEF Levelled
  <2>6. a.index + 1 # st.trailLim[D] + 1
    BY <2>3, <2>5, <1>2, <1>4
  <2> QED BY <2>6, <1>1, <1>2 DEF Decided
<1>6. /\ r \in DOMAIN st.db /\ c \in Seq(Lits)
      /\ ToSet(st.db[r]) = {q} \cup ToSet(c)
      /\ \A k \in DOMAIN c : FalseBy(st, c[k], (a.index + 1) - 1)
  <2> DEFINE j == a.index + 1
  <2>1. j \in DOMAIN st.trail /\ q = st.trail[j] /\ r = st.reason[Var(q)] /\ c = Others(st, r)
    BY <1>2
  <2> HIDE DEF j, c, q, r
  <2>2. /\ r \in DOMAIN st.db /\ c \in Seq(Lits)
        /\ ToSet(st.db[r]) = {q} \cup ToSet(c)
        /\ \A k \in DOMAIN c : FalseBy(st, c[k], j - 1)
    <3>1. IsReason(st, j, q, r)
      BY <2>1, <1>5 DEF IsReason
    <3> QED BY <2>1, <3>1, ReasonOthers
  <2> QED BY <2>2 DEF j
<1>7. (a.index + 1) - 1 = a.index
  BY <1>2
<1> DEFINE n == Len(c)
<1>8. n \in Nat /\ DOMAIN c = 1 .. n
  BY <1>6
<1>9. \A k \in 1 .. n : FalseBy(st, c[k], a.index)
  BY <1>6, <1>7, <1>8
<1>10. q # NoLit
  BY <1>2, LitFacts DEF NoLit
<1>11. /\ Analysing(st, b) /\ b.index = a.index /\ b.visited = a.visited /\ a.seen \subseteq b.seen
       /\ \A k \in 1 .. n : Var(c[k]) \in b.seen \/ Level(st, c[k]) = 0
  <2> HIDE DEF c, n
  <2> QED BY <1>1, <1>2, <1>8, <1>9, SeeAll
<1> DEFINE V == b.visited \cup {r}
<1>12. new = [b EXCEPT !.seen = @ \ {Var(p)}, !.pathC = @ - 1, !.p = p, !.index = i - 1,
                      !.confl = st.reason[Var(p)], !.visited = @ \cup {r}]
  BY <1>10, <1>11 DEF Resolve, SeeFolded, Latest, Others
<1> HIDE DEF c, b, n
<1>13. b \in Analysis
  BY <1>11 DEF Analysing
<1>14. new = Taken(st, b, i, p, V)
  BY <1>12, <1>13 DEF Analysis, Taken
<1>15. V \in SUBSET Nat
  BY <1>2, <1>13 DEF Analysis
<1>16. Open(st, b) # {}
  BY <1>3, <1>11 DEF Open
<1>17. ASSUME NEW m \in M PROVE Satisfies(m, FalseOf(st, b.seen))
  <2>1. Satisfies(m, {-q} \cup FalseOf(st, a.seen))
    BY DEF Resolved
  <2>2. CASE Satisfies(m, FalseOf(st, a.seen))
    BY <2>2, <1>11 DEF Satisfies, FalseOf
  <2>3. CASE ~Satisfies(m, FalseOf(st, a.seen))
    <3>1. (-q > 0) = (Var(-q) \in m)
      BY <2>1, <2>3 DEF Satisfies
    <3>2. ~((q > 0) = (Var(q) \in m))
      BY <3>1, <1>2, LitFacts
    <3>3. Satisfies(m, {q} \cup ToSet(c))
      BY <1>1, <1>6 DEF Implied
    <3>4. PICK l \in ToSet(c) : (l > 0) = (Var(l) \in m)
      BY <3>2, <3>3 DEF Satisfies
    <3>5. PICK k \in DOMAIN c : c[k] = l
      BY <3>4 DEF ToSet
    <3>6. l \in Lits /\ Value(st, l) = False /\ (Var(l) \in b.seen \/ Level(st, l) = 0)
      BY <3>5, <1>8, <1>9, <1>11 DEF FalseBy
    <3>7. Satisfies(m, {l})
      BY <3>4 DEF Satisfies
    <3> QED BY <3>6, <3>7, SeenOrRoot
  <2> QED BY <2>2, <2>3
<1>18. i = Latest(st, b.index, b.seen) /\ p = st.trail[i]
  OBVIOUS
<1> HIDE DEF i, p, V
<1>19. Resolved(st, M, new) /\ new.index < b.index
  BY <1>11, <1>14, <1>15, <1>16, <1>17, <1>18, TakeLatest
<1> QED BY <1>11, <1>19

\* The loop ends with a clause that has one literal of the last level.
LEMMA FirstUIPFacts ==
  ASSUME NEW st, NEW M, Core(st, M), DecisionLevel(st) > 0, Conflicting(st),
         NEW u, u = FirstUIP(st)
  PROVE  Resolved(st, M, u) /\ Open(st, u) = {}
<1> DEFINE n == Len(st.trail)
           G == [k \in 0 .. n |-> IF k = 0 THEN {Unstarted(st)}
                  ELSE {x \in Analysis : Resolved(st, M, x) /\ (x.pathC = 0 \/ x.index <= n - k)}]
<1>1. /\ st \in Solver /\ OnTrail(st) /\ Levelled(st)
  BY CoreFacts
<1>2. n \in Nat /\ DOMAIN st.trail = 1 .. n
  BY <1>1, TrailFacts
<1>3. ASSUME NEW x, Resolved(st, M, x)
      PROVE  x \in Analysis /\ x.index \in Nat /\ x.pathC \in Nat /\ x.p # NoLit /\ x.index + 1 \in DOMAIN st.trail
  BY <1>3, LitFacts DEF Resolved, Analysing, Analysis, NoLit
<1>4. Unstarted(st) \in G[0]
  BY <1>2
<1>5. ASSUME NEW k \in 1 .. n, NEW x \in G[k - 1] PROVE ResolveTurn(st, x) \in G[k]
  <2>0. k \in 0 .. n /\ k - 1 \in 0 .. n /\ k # 0 /\ k \in Nat
    BY <1>2
  <2>1. CASE k = 1
    <3>1. x = Unstarted(st)
      BY <2>0, <2>1
    <3>2. x.p = NoLit
      BY <3>1 DEF Unstarted
    <3>3. ResolveTurn(st, x) = Resolve(st, Unstarted(st))
      BY <3>1, <3>2 DEF ResolveTurn
    <3> DEFINE y == Resolve(st, Unstarted(st))
    <3>4. Resolved(st, M, y) /\ y.index < n
      BY FirstTurn
    <3> HIDE DEF y
    <3>5. y \in Analysis /\ y.index <= n - k
      BY <3>4, <1>2, <1>3, <2>1
    <3>6. y \in G[k]
      BY <3>4, <3>5, <2>0
    <3> QED BY <3>3, <3>6 DEF y
  <2>2. CASE k # 1
    <3>1. x \in Analysis /\ Resolved(st, M, x) /\ (x.pathC = 0 \/ x.index <= n - (k - 1))
      <4>1. k - 1 # 0
        BY <2>0, <2>2
      <4> QED BY <4>1, <2>0
    <3>2. CASE x.pathC = 0
      <4>1. ResolveTurn(st, x) = x
        BY <3>1, <3>2, <1>3 DEF ResolveTurn
      <4> QED BY <4>1, <3>1, <3>2, <2>0
    <3>3. CASE x.pathC # 0
      <4> DEFINE y == Resolve(st, x)
      <4>1. ResolveTurn(st, x) = y
        BY <3>3 DEF ResolveTurn
      <4>2. Resolved(st, M, y) /\ y.index < x.index
        BY <3>1, <3>3, NextTurn
      <4> HIDE DEF y
      <4>3. y \in Analysis /\ y.index <= n - k
        BY <3>1, <3>3, <4>2, <1>2, <1>3, <2>0
      <4> QED BY <4>1, <4>2, <4>3, <2>0
    <3> QED BY <3>2, <3>3
  <2> QED BY <2>1, <2>2
<1>6. FirstUIP(st) = ResolveFolded(st, Unstarted(st), st.trail)
  BY Zenon DEF FirstUIP, ResolveFolded, Unstarted
<1>7. u \in G[n]
  <2> HIDE DEF G
  <2>1. ResolveFolded(st, Unstarted(st), st.trail) \in G[n]
    BY <1>2, <1>4, <1>5, ResolveFold
  <2> QED BY <2>1, <1>6
<1>8. n # 0
  <2>1. Analysing(st, Unstarted(st)) /\ Unstarted(st).index = n
    BY StartAnalysing DEF Unstarted
  <2>2. Resolved(st, M, Resolve(st, Unstarted(st)))
    BY FirstTurn
  <2> QED BY <2>2, <1>2, <1>3
<1>9. Resolved(st, M, u) /\ (u.pathC = 0 \/ u.index <= n - n)
  <2>1. n \in 0 .. n
    BY <1>2
  <2> QED BY <2>1, <1>7, <1>8
<1>10. Analysing(st, u)
  BY <1>9 DEF Resolved
<1>11. CASE u.pathC = 0
  BY <1>9, <1>10, <1>11, OpenFinite
<1>12. CASE u.index <= n - n
  <2>1. 1 .. u.index = {}
    BY <1>2, <1>3, <1>9, <1>12
  <2>2. u.seen = {}
    BY <2>1, <1>10 DEF Analysing
  <2> QED BY <2>2, <1>9 DEF Open
<1> QED BY <1>9, <1>11, <1>12

-----------------------------------------------------------------------------
(* litRedundant.                                                           *)

\* The other literals of the reason of v are false without a decision, or of
\* variables of S.
Explained(st, v, S) ==
  /\ st.reason[v] # NoRef
  /\ \A q \in ToSet(Others(st, st.reason[v])) : Var(q) \in S \/ Level(st, q) = 0

LEMMA ExplainedMonotone ==
  ASSUME NEW st, NEW v, NEW S, NEW T, S \subseteq T, Explained(st, v, S)
  PROVE  Explained(st, v, T)
BY DEF Explained

Exploration == [redundant : BOOLEAN, stack : Seq(Lits), seen : SUBSET Vars, visited : SUBSET Nat]

\* A literal of the stack has a reason.
OnStack(st, l, S) == l \in Lits /\ Value(st, l) = False /\ st.reason[Var(l)] # NoRef /\ Var(l) \in S

\* The literals added to what was seen have a reason, which is looked at or
\* still to be.
Exploring(st, seen, q, e) ==
  /\ e \in Exploration
  /\ IF e.redundant
       THEN /\ seen \subseteq e.seen
            /\ \A v \in e.seen : st.assigns[v] # Undef
            /\ \A i \in DOMAIN e.stack : OnStack(st, e.stack[i], e.seen)
            /\ \A v \in (e.seen \ seen) \cup {Var(q)} :
                 Explained(st, v, e.seen) \/ \E i \in DOMAIN e.stack : Var(e.stack[i]) = v
       ELSE e.stack = << >> /\ e.seen = seen

VarsOf(ls) == {Var(l) : l \in ToSet(ls)}

LEMMA SelectedVars ==
  ASSUME NEW c \in Seq(Lits), DistinctVars(c), NEW I,
         NEW new, new = Selected(c, I), NEW W, W = VarsOf(new)
  PROVE  /\ new \in Seq(Lits)
         /\ \A l : l \in ToSet(new) <=> \E i \in DOMAIN c : i \in I /\ c[i] = l
         /\ IsFiniteSet(W) /\ W \subseteq Vars /\ Cardinality(W) = Len(new)
<1>0. W = {Var(l) : l \in ToSet(new)}
  BY DEF VarsOf
<1>1. new \in Seq(Lits) /\ Chosen(new, c, I)
  BY SelectedItems
<1>2. /\ DOMAIN c = 1 .. Len(c) /\ Len(c) \in Nat /\ \A i \in DOMAIN c : c[i] \in Lits
      /\ DOMAIN new = 1 .. Len(new) /\ Len(new) \in Nat /\ \A i \in DOMAIN new : new[i] \in Lits
  BY <1>1, SeqFacts
<1>3. \A l : l \in ToSet(new) <=> \E i \in DOMAIN c : i \in I /\ c[i] = l
  <2>1. \A l : l \in ToSet(new) <=> \E k \in DOMAIN new : new[k] = l
    BY DEF ToSet
  <2> QED BY <2>1, <1>1, <1>2 DEF Chosen
<1>4. Distinct(new)
  <2>1. \A i, j \in 1 .. Len(c) : i \in I /\ j \in I /\ c[i] = c[j] => i = j
    BY <1>2 DEF DistinctVars
  <2> QED BY <2>1, SelectedDistinct
<1> DEFINE f == [k \in 1 .. Len(new) |-> Var(new[k])]
<1>5. f \in [1 .. Len(new) -> W]
  <2>1. \A k \in 1 .. Len(new) : new[k] \in ToSet(new)
    BY <1>2 DEF ToSet
  <2> QED BY <2>1, <1>0
<1>6. \A j, k \in 1 .. Len(new) : f[j] = f[k] => j = k
  <2> SUFFICES ASSUME NEW j \in DOMAIN new, NEW k \in DOMAIN new, Var(new[j]) = Var(new[k]) PROVE j = k
    BY <1>2
  <2>1. new[j] \in ToSet(new) /\ new[k] \in ToSet(new)
    BY DEF ToSet
  <2>2. PICK x \in DOMAIN c : c[x] = new[j]
    BY <2>1, <1>3
  <2>3. PICK y \in DOMAIN c : c[y] = new[k]
    BY <2>1, <1>3
  <2>4. x = y
    BY <2>2, <2>3 DEF DistinctVars
  <2> QED BY <2>2, <2>3, <2>4, <1>4 DEF Distinct
<1>7. \A v \in W : \E k \in 1 .. Len(new) : f[k] = v
  <2> SUFFICES ASSUME NEW l \in ToSet(new) PROVE \E k \in 1 .. Len(new) : f[k] = Var(l)
    BY <1>0
  <2>1. PICK k \in DOMAIN new : new[k] = l
    BY DEF ToSet
  <2> QED BY <2>1, <1>2
<1> HIDE DEF f
<1>8. f \in Bijection(1 .. Len(new), W)
  <2>1. f \in Injection(1 .. Len(new), W)
    BY <1>5, <1>6 DEF Injection, IsInjective
  <2>2. f \in Surjection(1 .. Len(new), W)
    BY <1>5, <1>7 DEF Surjection
  <2> QED BY <2>1, <2>2 DEF Bijection
<1>9. ExistsBijection(1 .. Len(new), W)
  BY <1>8 DEF ExistsBijection
<1>10. Cardinality(W) = Len(new)
  BY <1>2, <1>9, FS_CountingElements
<1>11. W \subseteq Vars
  <2> SUFFICES ASSUME NEW l \in ToSet(new) PROVE Var(l) \in Vars
    BY <1>0
  <2>1. l \in Lits
    BY <1>1, SeqFacts
  <2> QED BY <2>1, LitFacts
<1>12. IsFiniteSet(W)
  <2>1. IsFiniteSet(Vars)
    BY FS_Interval, NbVarsAssumption DEF Vars
  <2> QED BY <2>1, <1>11, FS_Subset
<1> QED BY <1>1, <1>3, <1>10, <1>11, <1>12

LEMMA LitsConcat ==
  ASSUME NEW a \in Seq(Lits), NEW b \in Seq(Lits), NEW c, c = a \o b
  PROVE  /\ c \in Seq(Lits) /\ Len(c) = Len(a) + Len(b) /\ DOMAIN c = 1 .. Len(a) + Len(b)
         /\ DOMAIN a = 1 .. Len(a) /\ DOMAIN b = 1 .. Len(b) /\ Len(a) \in Nat /\ Len(b) \in Nat
         /\ \A i \in DOMAIN a : i \in DOMAIN c /\ c[i] = a[i]
         /\ \A j \in DOMAIN b : Len(a) + j \in DOMAIN c /\ c[Len(a) + j] = b[j]
         /\ \A i \in DOMAIN c : i \in DOMAIN a \/ (i - Len(a) \in DOMAIN b /\ c[i] = b[i - Len(a)])
<1>1. /\ c \in Seq(Lits) /\ Len(c) = Len(a) + Len(b)
      /\ \A i \in 1 .. Len(a) + Len(b) : c[i] = IF i <= Len(a) THEN a[i] ELSE b[i - Len(a)]
  BY ConcatProperties
<1> DEFINE m == Len(a)
           n == Len(b)
<1>2. /\ m \in Nat /\ n \in Nat /\ DOMAIN a = 1 .. m /\ DOMAIN b = 1 .. n /\ DOMAIN c = 1 .. m + n
      /\ \A i \in 1 .. m + n : c[i] = IF i <= m THEN a[i] ELSE b[i - m]
  BY <1>1, SeqFacts
<1> HIDE DEF m, n
<1>3. \A i \in 1 .. m : i \in 1 .. m + n /\ i <= m
  BY <1>2
<1>4. \A j \in 1 .. n : m + j \in 1 .. m + n /\ ~(m + j <= m) /\ (m + j) - m = j
  BY <1>2
<1>5. \A i \in 1 .. m + n : i \in 1 .. m \/ (i - m \in 1 .. n /\ ~(i <= m))
  BY <1>2
<1>6. /\ \A i \in DOMAIN a : i \in DOMAIN c /\ c[i] = a[i]
      /\ \A j \in DOMAIN b : m + j \in DOMAIN c /\ c[m + j] = b[j]
      /\ \A i \in DOMAIN c : i \in DOMAIN a \/ (i - m \in DOMAIN b /\ c[i] = b[i - m])
  BY <1>2, <1>3, <1>4, <1>5
<1> QED BY <1>1, <1>2, <1>6 DEF m, n

LEMMA FrontLast ==
  ASSUME NEW c \in Seq(Lits), c # << >>
  PROVE  /\ Front(c) \in Seq(Lits) /\ Len(Front(c)) = Len(c) - 1 /\ Len(c) \in Nat \ {0}
         /\ Last(c) \in Lits /\ Last(c) = c[Len(c)] /\ Len(c) \in DOMAIN c
         /\ \A i \in 1 .. Len(c) - 1 : Front(c)[i] = c[i] /\ i \in DOMAIN c
         /\ \A i \in DOMAIN c : i = Len(c) \/ i \in 1 .. Len(c) - 1
         /\ DOMAIN Front(c) = 1 .. Len(c) - 1
<1>1. Len(c) \in Nat \ {0} /\ DOMAIN c = 1 .. Len(c) /\ \A i \in DOMAIN c : c[i] \in Lits
  BY SeqFacts, EmptySeq
<1>2. Front(c) \in Seq(Lits) /\ Len(Front(c)) = Len(c) - 1 /\ \A i \in 1 .. Len(c) - 1 : Front(c)[i] = c[i]
  <2>1. Front(c) = SubSeq(c, 1, Len(c) - 1)
    BY DEF Front
  <2> QED BY <2>1, <1>1
<1>3. DOMAIN Front(c) = 1 .. Len(c) - 1
  BY <1>2
<1>4. Last(c) = c[Len(c)] /\ Len(c) \in DOMAIN c
  BY <1>1 DEF Last
<1> QED BY <1>1, <1>2, <1>3, <1>4

\* What is added to what was seen is put on the stack.
Grows(e, new) ==
  \E n \in Nat : /\ Len(new.stack) = Len(e.stack) - 1 + n
                 /\ Cardinality(new.seen) = Cardinality(e.seen) + n

LEMMA ExploreStep ==
  ASSUME NEW st, NEW M, Core(st, M), NEW seen \in SUBSET Vars, NEW q, NEW levels,
         NEW e, Exploring(st, seen, q, e), e.stack # << >>,
         NEW new, new = ExploreAfter(st, seen, levels, e)
  PROVE  Exploring(st, seen, q, new) /\ (new.redundant => Grows(e, new))
<1> DEFINE l == Last(e.stack)
           v == Var(l)
           r == st.reason[v]
           c == Others(st, r)
           I == {i \in DOMAIN c : Var(c[i]) \notin e.seen /\ Level(st, c[i]) > 0}
           more == Selected(c, I)
           W == VarsOf(more)
           known == e.visited \cup {r}
           bad == \E x \in ToSet(more) : st.reason[Var(x)] = NoRef \/ Level(st, x) % 32 \notin levels
<1>1. /\ st \in Solver /\ OnTrail(st)
  BY CoreFacts
<1>2. /\ e \in Exploration /\ e.redundant /\ seen \subseteq e.seen
      /\ \A x \in e.seen : st.assigns[x] # Undef
      /\ \A i \in DOMAIN e.stack : OnStack(st, e.stack[i], e.seen)
      /\ \A x \in (e.seen \ seen) \cup {Var(q)} :
           Explained(st, x, e.seen) \/ \E i \in DOMAIN e.stack : Var(e.stack[i]) = x
  BY DEF Exploring
<1>3. /\ e.stack \in Seq(Lits) /\ e.seen \subseteq Vars /\ e.visited \subseteq Nat
  BY <1>2 DEF Exploration
<1>4. /\ Front(e.stack) \in Seq(Lits) /\ Len(Front(e.stack)) = Len(e.stack) - 1 /\ Len(e.stack) \in Nat \ {0}
      /\ l \in Lits /\ l = e.stack[Len(e.stack)] /\ Len(e.stack) \in DOMAIN e.stack
      /\ \A i \in 1 .. Len(e.stack) - 1 : Front(e.stack)[i] = e.stack[i] /\ i \in DOMAIN e.stack
      /\ \A i \in DOMAIN e.stack : i = Len(e.stack) \/ i \in 1 .. Len(e.stack) - 1
      /\ DOMAIN Front(e.stack) = 1 .. Len(e.stack) - 1
  BY <1>3, FrontLast
<1>5. Value(st, l) = False /\ r # NoRef /\ v \in e.seen /\ v \in Vars
  BY <1>2, <1>3, <1>4 DEF OnStack
<1>6. PICK k \in DOMAIN st.trail : st.trail[k] = -l
  <2>1. -l \in Lits /\ Value(st, -l) = True
    BY SMTT(30), <1>1, <1>4, <1>5, LitFacts, ValueFacts, TrailFacts
  <2> QED BY <2>1, <1>1, TrailFacts
<1>7. Var(-l) = v /\ r \in Nat
  BY <1>1, <1>4, <1>5, LitFacts, TrailFacts
<1>8. new = IF bad THEN [redundant |-> FALSE, stack |-> << >>, seen |-> seen, visited |-> known]
            ELSE [redundant |-> TRUE, stack |-> Front(e.stack) \o more, seen |-> e.seen \cup W, visited |-> known]
  BY Zenon DEF ExploreAfter, Others, VarsOf
<1>9. known \subseteq Nat
  BY <1>3, <1>7
<1> HIDE DEF known, l
<1>10. /\ c \in Seq(Lits) /\ DistinctVars(c) /\ \A i \in DOMAIN c : FalseBy(st, c[i], k - 1)
  <2> DEFINE p == -l
  <2>1. IsReason(st, k, p, r)
    BY <1>5, <1>6, <1>7 DEF IsReason
  <2>2. c = Others(st, r)
    OBVIOUS
  <2> HIDE DEF p, c, r
  <2> QED BY <2>1, <2>2, ReasonOthers
<1>11. c = Others(st, r) /\ r = st.reason[v]
  OBVIOUS
<1>12. \A i \in DOMAIN c : i \in I \/ Var(c[i]) \in e.seen \/ Level(st, c[i]) = 0
  <2> SUFFICES ASSUME NEW i \in DOMAIN c PROVE i \in I \/ Var(c[i]) \in e.seen \/ Level(st, c[i]) = 0
    OBVIOUS
  <2>1. c[i] \in Lits
    BY <1>10 DEF FalseBy
  <2>2. Level(st, c[i]) \in Nat
    BY <2>1, <1>1, TrailFacts
  <2> QED BY <2>2
<1>13. \A i \in I : i \in DOMAIN c /\ Var(c[i]) \notin e.seen
  OBVIOUS
<1> HIDE DEF r, c, I
<1>14. /\ more \in Seq(Lits)
       /\ \A x : x \in ToSet(more) <=> \E i \in DOMAIN c : i \in I /\ c[i] = x
       /\ IsFiniteSet(W) /\ W \subseteq Vars /\ Cardinality(W) = Len(more)
  <2> DEFINE a == more
             X == W
  <2>1. a = Selected(c, I) /\ X = VarsOf(a)
    OBVIOUS
  <2> HIDE DEF a, X, more, W
  <2>2. /\ a \in Seq(Lits)
        /\ \A x : x \in ToSet(a) <=> \E i \in DOMAIN c : i \in I /\ c[i] = x
        /\ IsFiniteSet(X) /\ X \subseteq Vars /\ Cardinality(X) = Len(a)
    BY <2>1, <1>10, SelectedVars
  <2> QED BY <2>2 DEF a, X
<1>15. /\ \A x \in ToSet(more) : Var(x) \in W /\ FalseBy(st, x, k - 1)
       /\ \A x \in W : x \notin e.seen /\ \E y \in ToSet(more) : Var(y) = x
  BY <1>10, <1>13, <1>14 DEF VarsOf
<1>16. ~bad => \A x \in ToSet(more) : st.reason[Var(x)] # NoRef
  OBVIOUS
<1> HIDE DEF more, W, bad
<1>17. CASE bad
  <2>1. new = [redundant |-> FALSE, stack |-> << >>, seen |-> seen, visited |-> known]
    BY <1>8, <1>17
  <2>2. new \in Exploration /\ new.redundant = FALSE /\ new.stack = << >> /\ new.seen = seen
    BY <2>1, <1>9 DEF Exploration
  <2> QED BY <2>2 DEF Exploring
<1>18. CASE ~bad
  <2> DEFINE f == Front(e.stack)
             g == f \o more
             S == e.seen \cup W
  <2>1. new = [redundant |-> TRUE, stack |-> g, seen |-> S, visited |-> known]
    BY <1>8, <1>18
  <2>0. f \in Seq(Lits) /\ g = f \o more /\ Len(f) = Len(e.stack) - 1
    BY <1>4
  <2>3. S \subseteq Vars /\ S = e.seen \cup W
    BY <1>3, <1>14
  <2>a. /\ DOMAIN f = 1 .. Len(e.stack) - 1 /\ \A i \in DOMAIN f : f[i] = e.stack[i] /\ i \in DOMAIN e.stack
    BY <1>4
  <2> HIDE DEF g, S, f
  <2>2. /\ g \in Seq(Lits) /\ Len(g) = Len(f) + Len(more) /\ DOMAIN g = 1 .. Len(f) + Len(more)
        /\ DOMAIN f = 1 .. Len(f) /\ DOMAIN more = 1 .. Len(more) /\ Len(f) \in Nat /\ Len(more) \in Nat
        /\ \A i \in DOMAIN f : i \in DOMAIN g /\ g[i] = f[i]
        /\ \A j \in DOMAIN more : Len(f) + j \in DOMAIN g /\ g[Len(f) + j] = more[j]
        /\ \A i \in DOMAIN g : i \in DOMAIN f \/ (i - Len(f) \in DOMAIN more /\ g[i] = more[i - Len(f)])
    <3>1. f \in Seq(Lits) /\ more \in Seq(Lits) /\ g = f \o more
      BY <2>0, <1>14
    <3> QED BY ONLY <3>1, LitsConcat
  <2>4. new \in Exploration /\ new.redundant /\ new.stack = g /\ new.seen = S
    BY <2>1, <2>2, <2>3, <1>9 DEF Exploration
  <2>5. Cardinality(S) = Cardinality(e.seen) + Len(more)
    <3>1. IsFiniteSet(Vars)
      BY FS_Interval, NbVarsAssumption DEF Vars
    <3>2. IsFiniteSet(e.seen)
      BY <3>1, <1>3, FS_Subset
    <3>3. e.seen \cap W = {} /\ Cardinality({}) = 0
      BY <1>15, FS_EmptySet
    <3>4. Cardinality(e.seen) \in Nat /\ Cardinality(W) \in Nat
      BY <3>2, <1>14, FS_CardinalityType
    <3>5. Cardinality(S) = Cardinality(e.seen) + Cardinality(W) - Cardinality(e.seen \cap W)
      <4>1. S = e.seen \cup W /\ IsFiniteSet(e.seen) /\ IsFiniteSet(W)
        BY <3>2, <1>14, <2>3
      <4> QED BY ONLY <4>1, FS_Union
    <3>6. Cardinality(e.seen \cap W) = 0 /\ Cardinality(W) = Len(more)
      BY <3>3, <1>14
    <3> QED BY ONLY <3>4, <3>5, <3>6
  <2>6. Grows(e, new)
    <3>1. Len(g) = Len(e.stack) - 1 + Len(more)
      BY <2>0, <2>2, <1>4
    <3> QED BY <3>1, <2>2, <2>4, <2>5 DEF Grows
  <2>7. \A x \in ToSet(more) : OnStack(st, x, S)
    BY <1>15, <1>16, <1>18, <2>3 DEF OnStack, FalseBy
  <2>8. \A x \in S : st.assigns[x] # Undef
    <3>1. ASSUME NEW x \in W PROVE st.assigns[x] # Undef
      <4>1. PICK y \in ToSet(more) : Var(y) = x
        BY <1>15
      <4>2. y \in Lits /\ Value(st, y) = False
        BY <1>15 DEF FalseBy
      <4> QED BY <4>1, <4>2, <1>1, ValueFacts, SignsDiffer, TrailFacts
    <3> QED BY <3>1, <1>2, <2>3
  <2>10. ASSUME NEW i \in DOMAIN g PROVE OnStack(st, g[i], S)
    <3>1. CASE i \in DOMAIN f
      <4>1. OnStack(st, e.stack[i], e.seen) /\ g[i] = e.stack[i]
        BY <3>1, <2>2, <2>a, <1>2
      <4> QED BY <4>1, <2>3 DEF OnStack
    <3>2. CASE i - Len(f) \in DOMAIN more /\ g[i] = more[i - Len(f)]
      <4>2. g[i] \in ToSet(more)
        BY <3>2 DEF ToSet
      <4> QED BY <4>2, <2>7
    <3> QED BY <3>1, <3>2, <2>2
  <2>11. \A i \in 1 .. Len(e.stack) - 1 : i \in DOMAIN g /\ g[i] = e.stack[i]
    BY <2>2, <2>a
  <2>13. Explained(st, v, S)
    <3> SUFFICES ASSUME NEW x \in ToSet(c) PROVE Var(x) \in S \/ Level(st, x) = 0
      BY <1>5, <1>11 DEF Explained
    <3>1. PICK i \in DOMAIN c : c[i] = x
      BY DEF ToSet
    <3>2. i \in I => Var(x) \in W
      BY <3>1, <1>14, <1>15
    <3> QED BY <3>1, <3>2, <1>12, <2>3
  <2>14. ASSUME NEW x \in (S \ seen) \cup {Var(q)}
         PROVE  Explained(st, x, S) \/ \E i \in DOMAIN g : Var(g[i]) = x
    <3>1. CASE x \in W
      <4>1. PICK y \in ToSet(more) : Var(y) = x
        BY <3>1, <1>15
      <4>2. PICK j \in DOMAIN more : more[j] = y
        BY DEF ToSet
      <4> QED BY <4>1, <4>2, <2>2
    <3>2. CASE x \notin W
      <4>1. x \in (e.seen \ seen) \cup {Var(q)}
        BY <3>2, <2>3
      <4>2. CASE Explained(st, x, e.seen)
        BY <4>2, <2>3, ExplainedMonotone
      <4>3. CASE \E i \in DOMAIN e.stack : Var(e.stack[i]) = x
        <5>1. PICK i \in DOMAIN e.stack : Var(e.stack[i]) = x
          BY <4>3
        <5>2. CASE i = Len(e.stack)
          BY <5>1, <5>2, <1>4, <2>13
        <5>3. CASE i \in 1 .. Len(e.stack) - 1
          BY <5>1, <5>3, <2>11
        <5> QED BY <5>2, <5>3, <1>4
      <4> QED BY <4>1, <4>2, <4>3, <1>2
    <3> QED BY <3>1, <3>2
  <2>15. seen \subseteq S
    BY <1>2, <2>3
  <2> QED BY <2>4, <2>6, <2>8, <2>10, <2>14, <2>15 DEF Exploring
<1> QED BY <1>17, <1>18

\* The exploration ends: what was found redundant is explained.
Asked(st, seen, visited, q) ==
  /\ seen \subseteq Vars /\ \A v \in seen : st.assigns[v] # Undef
  /\ visited \subseteq Nat /\ OnStack(st, q, seen)
Answered(st, seen, q, r) ==
  /\ r \in Exploration
  /\ IF r.redundant
       THEN /\ seen \subseteq r.seen
            /\ \A v \in r.seen : st.assigns[v] # Undef
            /\ \A v \in (r.seen \ seen) \cup {Var(q)} : Explained(st, v, r.seen)
       ELSE r.seen = seen

LEMMA RedundantFacts ==
  ASSUME NEW st, NEW M, Core(st, M), NEW seen, NEW visited, NEW q, Asked(st, seen, visited, q), NEW levels,
         NEW r, r = LitRedundant(st, q, seen, visited, levels)
  PROVE  Answered(st, seen, q, r)
<1> USE DEF Asked, Answered, OnStack
<1> DEFINE n == NbVars + 1
           base == [redundant |-> TRUE, stack |-> <<q>>, seen |-> seen, visited |-> visited]
           G == [k \in 0 .. n |-> {x \in Exploration :
                  /\ Exploring(st, seen, q, x)
                  /\ x.redundant => x.stack = << >> \/ k + Len(x.stack) <= 1 + Cardinality(x.seen)}]
<1>0. n \in Nat /\ n \in 0 .. n /\ 0 \in 0 .. n /\ IsFiniteSet(Vars) /\ Cardinality(Vars) = NbVars
  BY NbVarsAssumption, FS_Interval DEF Vars
<1>1. base \in G[0]
  <2>1. /\ <<q>> \in Seq(Lits) /\ Len(<<q>>) = 1 /\ DOMAIN <<q>> = {1} /\ <<q>>[1] = q
    OBVIOUS
  <2>2. /\ base \in Exploration /\ base.redundant /\ base.stack = <<q>> /\ base.seen = seen
    BY <2>1 DEF Exploration
  <2> HIDE DEF base
  <2>3. Exploring(st, seen, q, base)
    BY <2>1, <2>2 DEF Exploring, OnStack
  <2>4. Cardinality(seen) \in Nat
    BY <1>0, FS_Subset, FS_CardinalityType
  <2>5. 0 + Len(base.stack) <= 1 + Cardinality(base.seen)
    BY <2>1, <2>2, <2>4
  <2> QED BY <1>0, <2>2, <2>3, <2>5
<1>2. ASSUME NEW k \in 1 .. n, NEW x \in G[k - 1] PROVE ExploreTurn(st, seen, levels, x) \in G[k]
  <2>0. k \in 0 .. n /\ k - 1 \in 0 .. n /\ k \in Nat
    BY <1>0
  <2>1. /\ x \in Exploration /\ Exploring(st, seen, q, x)
        /\ x.redundant => x.stack = << >> \/ (k - 1) + Len(x.stack) <= 1 + Cardinality(x.seen)
    BY <2>0
  <2>2. CASE x.stack = << >>
    <3>1. ExploreTurn(st, seen, levels, x) = x
      BY <2>2 DEF ExploreTurn
    <3> QED BY <3>1, <2>0, <2>1, <2>2
  <2>3. CASE x.stack # << >>
    <3> DEFINE y == ExploreAfter(st, seen, levels, x)
    <3>1. ExploreTurn(st, seen, levels, x) = y
      BY <2>3 DEF ExploreTurn
    <3>2. Exploring(st, seen, q, y) /\ (y.redundant => Grows(x, y))
      BY <2>1, <2>3, ExploreStep
    <3> HIDE DEF y
    <3>3. y \in Exploration /\ x.redundant
      BY <3>2, <2>1, <2>3 DEF Exploring
    <3>4. Len(x.stack) \in Nat /\ Len(y.stack) \in Nat /\ Cardinality(x.seen) \in Nat
      <4>1. x.stack \in Seq(Lits) /\ y.stack \in Seq(Lits) /\ x.seen \subseteq Vars
        BY <3>3, <2>1 DEF Exploration
      <4> QED BY <4>1, <1>0, FS_Subset, FS_CardinalityType
    <3>5. y.redundant => k + Len(y.stack) <= 1 + Cardinality(y.seen)
      <4> SUFFICES ASSUME y.redundant PROVE k + Len(y.stack) <= 1 + Cardinality(y.seen)
        OBVIOUS
      <4>1. PICK i \in Nat : Len(y.stack) = Len(x.stack) - 1 + i /\ Cardinality(y.seen) = Cardinality(x.seen) + i
        BY <3>2 DEF Grows
      <4>2. (k - 1) + Len(x.stack) <= 1 + Cardinality(x.seen)
        BY <2>1, <2>3, <3>3
      <4> QED BY ONLY <4>1, <4>2, <3>4, <2>0
    <3> QED BY <3>1, <3>2, <3>3, <3>5, <2>0
  <2> QED BY <2>2, <2>3
<1>3. r \in G[n]
  <2>1. n = NbVars + 1 /\ base = [redundant |-> TRUE, stack |-> <<q>>, seen |-> seen, visited |-> visited]
    OBVIOUS
  <2> HIDE DEF G, n, base
  <2> QED BY <1>1, <1>2, <2>1, ExploreFold
<1>4. /\ r \in Exploration /\ Exploring(st, seen, q, r)
      /\ r.redundant => r.stack = << >> \/ n + Len(r.stack) <= 1 + Cardinality(r.seen)
  BY <1>0, <1>3
<1> HIDE DEF G
<1>5. r.stack \in Seq(Lits) /\ Len(r.stack) \in Nat /\ r.seen \subseteq Vars
  BY <1>4 DEF Exploration
<1>6. Cardinality(r.seen) <= NbVars /\ Cardinality(r.seen) \in Nat
  BY <1>0, <1>5, FS_Subset, FS_CardinalityType
<1>7. r.redundant => r.stack = << >>
  <2> SUFFICES ASSUME r.redundant, n + Len(r.stack) <= 1 + Cardinality(r.seen) PROVE r.stack = << >>
    BY <1>4
  <2>1. Len(r.stack) = 0
    <3> DEFINE len  == Len(r.stack)
               card == Cardinality(r.seen)
    <3>1. len \in Nat /\ card \in Nat /\ NbVars \in Nat /\ card <= NbVars
      BY <1>5, <1>6, NbVarsAssumption
    <3>2. (NbVars + 1) + len <= 1 + card
      OBVIOUS
    <3> HIDE DEF len, card
    <3>3. len = 0
      BY ONLY <3>1, <3>2
    <3> QED BY <3>3 DEF len
  <2> QED BY <2>1, <1>5
<1>8. CASE r.redundant
  <2>1. DOMAIN r.stack = {}
    BY <1>7, <1>8
  <2> QED BY <2>1, <1>4, <1>8 DEF Exploring
<1>9. CASE ~r.redundant
  BY <1>4, <1>9 DEF Exploring
<1> QED BY <1>8, <1>9

-----------------------------------------------------------------------------
(* Minimisation.                                                           *)

Minimization == [seen : SUBSET Vars, visited : SUBSET Nat, out : Seq(Lits)]

\* After k literals of out: what was seen is explained, kept, or still to come.
Minimizing(st, a, k, x) ==
  /\ x \in Minimization
  /\ a.seen \subseteq x.seen /\ \A v \in x.seen : st.assigns[v] # Undef
  /\ DistinctVars(x.out)
  /\ \A i \in DOMAIN x.out : \E j \in 1 .. k : x.out[i] = a.out[j]
  /\ \A v \in x.seen : \/ Explained(st, v, x.seen)
                       \/ \E i \in DOMAIN x.out : Var(x.out[i]) = v
                       \/ \E j \in k + 1 .. Len(a.out) : Var(a.out[j]) = v

LEMMA KeepLiteral ==
  ASSUME NEW st, NEW a, a \in Analysis, DistinctVars(a.out), NEW k \in 1 .. Len(a.out), NEW x, Minimizing(st, a, k - 1, x),
         NEW y \in Minimization, y.seen = x.seen, y.out = Append(x.out, a.out[k])
  PROVE  Minimizing(st, a, k, y)
<1> DEFINE q == a.out[k]
           n == Len(a.out)
           m == Len(x.out)
<1>1. /\ a.out \in Seq(Lits) /\ n \in Nat /\ DOMAIN a.out = 1 .. n /\ q \in Lits /\ k \in Nat /\ k > 0
  BY DEF Analysis
<1>2. /\ x.out \in Seq(Lits) /\ DistinctVars(x.out)
  BY DEF Minimizing, Minimization
<1>3. ASSUME NEW i \in DOMAIN x.out PROVE Var(x.out[i]) # Var(q) /\ \E j \in 1 .. k : x.out[i] = a.out[j]
  <2>1. PICK j \in 1 .. k - 1 : x.out[i] = a.out[j]
    BY DEF Minimizing
  <2>2. j \in DOMAIN a.out /\ k \in DOMAIN a.out /\ j # k /\ j \in 1 .. k
    BY <1>1
  <2> QED BY <2>1, <2>2 DEF DistinctVars
<1>4. /\ y.out \in Seq(Lits) /\ DistinctVars(y.out)
      /\ DOMAIN y.out = 1 .. m + 1 /\ m \in Nat /\ DOMAIN x.out = 1 .. m
      /\ y.out[m + 1] = q /\ \A i \in DOMAIN x.out : y.out[i] = x.out[i]
  BY <1>1, <1>2, <1>3, AppendDistinct
<1>5. /\ \A i \in DOMAIN y.out : i \in DOMAIN x.out \/ i = m + 1
      /\ \A i \in DOMAIN x.out : i \in DOMAIN y.out
      /\ m + 1 \in DOMAIN y.out /\ k \in 1 .. k
  BY <1>1, <1>4
<1>6. \A i \in DOMAIN y.out : \E j \in 1 .. k : y.out[i] = a.out[j]
  BY <1>3, <1>4, <1>5
<1>7. ASSUME NEW v \in y.seen
      PROVE  \/ Explained(st, v, y.seen)
             \/ \E i \in DOMAIN y.out : Var(y.out[i]) = v
             \/ \E j \in k + 1 .. n : Var(a.out[j]) = v
  <2>1. CASE Explained(st, v, x.seen)
    BY <2>1
  <2>2. CASE \E i \in DOMAIN x.out : Var(x.out[i]) = v
    BY <2>2, <1>4, <1>5
  <2>3. CASE \E j \in (k - 1) + 1 .. n : Var(a.out[j]) = v
    <3>1. PICK j \in (k - 1) + 1 .. n : Var(a.out[j]) = v
      BY <2>3
    <3>2. j = k \/ j \in k + 1 .. n
      BY <1>1
    <3> QED BY <3>1, <3>2, <1>4, <1>5
  <2> QED BY <2>1, <2>2, <2>3 DEF Minimizing
<1> QED BY <1>4, <1>6, <1>7 DEF Minimizing

LEMMA MinimizingStep ==
  ASSUME NEW st, NEW M, Core(st, M), NEW a, Analysing(st, a), NEW k \in 1 .. Len(a.out),
         NEW x, Minimizing(st, a, k - 1, x), NEW levels,
         NEW y, y = MinimizeStep(st, levels, x, a.out[k])
  PROVE  Minimizing(st, a, k, y)
<1> DEFINE q == a.out[k]
           n == Len(a.out)
<1>1. /\ a \in Analysis /\ a.out \in Seq(Lits) /\ n \in Nat /\ DOMAIN a.out = 1 .. n /\ q \in Lits /\ k \in Nat /\ k > 0
      /\ DistinctVars(a.out) /\ Value(st, q) = False /\ Var(q) \in a.seen
  BY DEF Analysing, Analysis
<1>2. /\ x \in Minimization /\ x.out \in Seq(Lits) /\ DistinctVars(x.out) /\ x.seen \in SUBSET Vars
      /\ x.visited \in SUBSET Nat /\ a.seen \subseteq x.seen /\ \A v \in x.seen : st.assigns[v] # Undef
  BY DEF Minimizing, Minimization
<1>3. Append(x.out, q) \in Seq(Lits)
  BY <1>1, <1>2
<1>4. CASE st.reason[Var(q)] = NoRef
  <2> DEFINE o == Append(x.out, q)
  <2>1. y = [x EXCEPT !.out = o]
    BY <1>4 DEF MinimizeStep
  <2>2. o \in Seq(Lits) /\ o = Append(x.out, q)
    BY <1>3
  <2> HIDE DEF o
  <2>3. y \in Minimization /\ y.seen = x.seen /\ y.out = o
    BY <2>1, <2>2, <1>2 DEF Minimization
  <2> QED BY <2>2, <2>3, <1>1, KeepLiteral
<1>5. CASE st.reason[Var(q)] # NoRef
  <2> DEFINE r == LitRedundant(st, q, x.seen, x.visited, levels)
             o == IF r.redundant THEN x.out ELSE Append(x.out, q)
  <2>1. y = [seen |-> r.seen, visited |-> r.visited, out |-> o]
    BY <1>5, Zenon DEF MinimizeStep
  <2>2. Answered(st, x.seen, q, r)
    <3>1. Asked(st, x.seen, x.visited, q)
      BY <1>1, <1>2, <1>5 DEF Asked, OnStack
    <3>2. r = LitRedundant(st, q, x.seen, x.visited, levels)
      OBVIOUS
    <3> HIDE DEF r, q
    <3> QED BY <3>1, <3>2, RedundantFacts
  <2> HIDE DEF r
  <2> USE DEF Answered
  <2>3. o \in Seq(Lits) /\ r.seen \in SUBSET Vars /\ r.visited \in SUBSET Nat
    BY <1>2, <1>3, <2>2 DEF Exploration
  <2>4. (r.redundant => o = x.out) /\ (~r.redundant => o = Append(x.out, q))
    OBVIOUS
  <2> HIDE DEF o
  <2>5. y \in Minimization /\ y.seen = r.seen /\ y.out = o
    BY <2>1, <2>3 DEF Minimization
  <2>6. CASE ~r.redundant
    BY <2>2, <2>4, <2>5, <2>6, <1>1, KeepLiteral
  <2>7. CASE r.redundant
    <3>1. y.out = x.out /\ x.seen \subseteq y.seen
      BY <2>2, <2>4, <2>5, <2>7
    <3>2. \A i \in DOMAIN y.out : \E j \in 1 .. k : y.out[i] = a.out[j]
      <4> SUFFICES ASSUME NEW i \in DOMAIN x.out PROVE \E j \in 1 .. k : x.out[i] = a.out[j]
        BY <3>1
      <4>1. PICK j \in 1 .. k - 1 : x.out[i] = a.out[j]
        BY DEF Minimizing
      <4>2. j \in 1 .. k
        BY <1>1
      <4> QED BY <4>1, <4>2
    <3>3. ASSUME NEW v \in y.seen
          PROVE  \/ Explained(st, v, y.seen)
                 \/ \E i \in DOMAIN y.out : Var(y.out[i]) = v
                 \/ \E j \in k + 1 .. n : Var(a.out[j]) = v
      <4>1. CASE v \in (r.seen \ x.seen) \cup {Var(q)}
        BY <4>1, <2>2, <2>5, <2>7
      <4>2. CASE v \in x.seen /\ v # Var(q)
        <5>1. CASE Explained(st, v, x.seen)
          BY <5>1, <3>1, ExplainedMonotone
        <5>2. CASE \E i \in DOMAIN x.out : Var(x.out[i]) = v
          BY <5>2, <3>1
        <5>3. CASE \E j \in (k - 1) + 1 .. n : Var(a.out[j]) = v
          <6>1. PICK j \in (k - 1) + 1 .. n : Var(a.out[j]) = v
            BY <5>3
          <6>2. j = k \/ j \in k + 1 .. n
            BY <1>1
          <6> QED BY <6>1, <6>2, <4>2
        <5> QED BY <5>1, <5>2, <5>3, <4>2 DEF Minimizing
      <4> QED BY <4>1, <4>2, <2>5
    <3>4. \A v \in y.seen : st.assigns[v] # Undef
      BY <2>2, <2>5, <2>7
    <3> QED BY <3>1, <3>2, <3>3, <3>4, <2>5, <1>2 DEF Minimizing
  <2> QED BY <2>6, <2>7
<1> QED BY <1>4, <1>5

\* The clause {-p} and out is false but for its first literal, of the last
\* level, and follows.
Asserting(st, M, p, out) ==
  /\ out \in Seq(Lits) /\ DistinctVars(out)
  /\ \A k \in DOMAIN out : /\ Value(st, out[k]) = False
                           /\ 0 < Level(st, out[k]) /\ Level(st, out[k]) < DecisionLevel(st)
  /\ \A m \in M : Satisfies(m, {-p} \cup ToSet(out))

LEMMA MinimizedFold ==
  ASSUME NEW st, NEW M, Core(st, M), NEW a, Analysing(st, a), Open(st, a) = {},
         NEW x, x = Minimized(st, a)
  PROVE  Minimizing(st, a, Len(a.out), x)
<1> DEFINE n == Len(a.out)
           levels == {Level(st, q) % 32 : q \in ToSet(a.out)}
           base == [seen |-> a.seen, visited |-> a.visited, out |-> << >>]
           G == [k \in 0 .. n |-> {y \in Minimization : Minimizing(st, a, k, y)}]
<1>1. /\ a \in Analysis /\ a.out \in Seq(Lits) /\ n \in Nat /\ DOMAIN a.out = 1 .. n
      /\ a.seen \subseteq Vars /\ a.visited \subseteq Nat
  BY DEF Analysing, Analysis
<1>2. /\ base \in Minimization /\ base.seen = a.seen /\ base.out = << >>
  BY <1>1 DEF Minimization
<1> HIDE DEF base
<1>3. st \in Solver /\ OnTrail(st) /\ Levelled(st)
  BY CoreFacts
<1>4. ASSUME NEW v \in a.seen
      PROVE  st.assigns[v] # Undef /\ \E j \in DOMAIN a.out : Var(a.out[j]) = v
  <2>1. PICK k \in 1 .. a.index : Var(st.trail[k]) = v
    BY DEF Analysing
  <2>2. k \in DOMAIN st.trail
    BY <1>1, <1>3, TrailFacts DEF Analysing, Analysis
  <2> DEFINE l == st.trail[k]
  <2>3. l \in Lits /\ Value(st, l) = True /\ Var(l) = v
    BY <2>1, <2>2, <1>3, TrailFacts DEF OnTrail
  <2> HIDE DEF l
  <2>4. st.assigns[v] # Undef
    BY <2>3, <1>3, ValueFacts, SignsDiffer, TrailFacts
  <2>5. st.level[v] < DecisionLevel(st)
    <3>1. Level(st, l) \in Nat /\ Level(st, l) <= DecisionLevel(st) /\ DecisionLevel(st) \in Nat
      BY <2>3, <1>3, SignsDiffer, LevelsBounded, TrailFacts
    <3>2. st.level[v] # DecisionLevel(st)
      BY DEF Open
    <3> QED BY <3>1, <3>2, <2>3 DEF Level
  <2> QED BY <2>4, <2>5 DEF Analysing
<1>5. Minimizing(st, a, 0, base)
  BY <1>1, <1>2, <1>4 DEF Minimizing, DistinctVars
<1>6. 0 \in 0 .. n /\ n \in 0 .. n /\ \A k \in 1 .. n : k \in 0 .. n /\ k - 1 \in 0 .. n
  BY <1>1
<1>7. base \in G[0]
  BY <1>2, <1>5, <1>6
<1>8. ASSUME NEW k \in 1 .. n, NEW y \in G[k - 1]
      PROVE  MinimizeStep(st, levels, y, a.out[k]) \in G[k]
  <2> DEFINE z == MinimizeStep(st, levels, y, a.out[k])
  <2>1. Minimizing(st, a, k - 1, y) /\ z = MinimizeStep(st, levels, y, a.out[k])
    BY <1>6
  <2> HIDE DEF z, levels
  <2>2. Minimizing(st, a, k, z)
    BY <2>1, MinimizingStep
  <2>3. z \in Minimization
    BY <2>2 DEF Minimizing
  <2> QED BY <2>2, <2>3, <1>6 DEF z
<1>9. x \in G[n]
  <2>1. base = [seen |-> a.seen, visited |-> a.visited, out |-> << >>]
    BY DEF base
  <2>2. levels = {Level(st, q) % 32 : q \in ToSet(a.out)}
    OBVIOUS
  <2> HIDE DEF G, levels
  <2> QED BY <1>1, <1>7, <1>8, <2>1, <2>2, MinimizeFold
<1> QED BY <1>6, <1>9

\* A model that makes a literal explained away true makes one of the kept
\* literals true.
LEMMA ExplainedAway ==
  ASSUME NEW st, NEW M, Core(st, M), NEW a, NEW x, Analysing(st, a), Minimizing(st, a, Len(a.out), x),
         NEW m \in M, NEW l, l \in FalseOf(st, x.seen), Satisfies(m, {l})
  PROVE  Satisfies(m, ToSet(x.out))
<1> DEFINE n == Len(st.trail)
           S == {i \in 0 .. n : \A q \in Lits : FalseBy(st, q, i) /\ Var(q) \in x.seen /\ Satisfies(m, {q})
                                                  => Satisfies(m, ToSet(x.out))}
<1>1. st \in Solver /\ OnTrail(st) /\ Levelled(st) /\ Implied(st, M)
  BY CoreFacts
<1>2. n \in Nat /\ DOMAIN st.trail = 1 .. n /\ x.out \in Seq(Lits) /\ Len(a.out) \in Nat
  BY <1>1, TrailFacts DEF Minimizing, Minimization, Analysing, Analysis
<1>3. 0 \in S
  BY <1>2 DEF FalseBy
<1>4. ASSUME NEW i \in 1 .. n, i - 1 \in S PROVE i \in S
  <2> SUFFICES ASSUME NEW q \in Lits, FalseBy(st, q, i), Var(q) \in x.seen, Satisfies(m, {q})
               PROVE  Satisfies(m, ToSet(x.out))
    BY <1>2
  <2>1. PICK k \in 1 .. i : st.trail[k] = -q
    BY DEF FalseBy
  <2>2. Value(st, q) = False
    BY DEF FalseBy
  <2>3. CASE k # i
    <3>1. FalseBy(st, q, i - 1)
      BY <2>1, <2>2, <2>3, <1>2 DEF FalseBy
    <3> QED BY <3>1, <1>4
  <2>4. CASE k = i
    <3> DEFINE v == Var(q)
               r == st.reason[v]
               c == Others(st, r)
    <3>1. \/ Explained(st, v, x.seen)
          \/ \E j \in DOMAIN x.out : Var(x.out[j]) = v
      BY <1>2 DEF Minimizing
    <3>2. CASE Explained(st, v, x.seen)
      <4> DEFINE p == -q
      <4>1. Var(p) = v /\ i \in DOMAIN st.trail /\ st.trail[i] = p /\ r # NoRef
        BY <2>1, <2>4, <3>2, <1>2, LitFacts DEF Explained
      <4>2. IsReason(st, i, p, r)
        BY <4>1 DEF IsReason
      <4>3. c = Others(st, r)
        OBVIOUS
      <4>4. \A y \in ToSet(c) : Var(y) \in x.seen \/ Level(st, y) = 0
        BY <3>2 DEF Explained
      <4>5. p = -q
        OBVIOUS
      <4> HIDE DEF p, r, c
      <4>6. /\ r \in DOMAIN st.db /\ c \in Seq(Lits)
            /\ ToSet(st.db[r]) = {p} \cup ToSet(c)
            /\ \A j \in DOMAIN c : FalseBy(st, c[j], i - 1)
        BY <4>2, <4>3, ReasonOthers
      <4>7. Satisfies(m, {p} \cup ToSet(c))
        BY <4>6, <1>1 DEF Implied
      <4>8. ~Satisfies(m, {p})
        BY <4>5 DEF Satisfies, Lits, Vars, Var
      <4>9. PICK y \in ToSet(c) : Satisfies(m, {y})
        BY <4>7, <4>8 DEF Satisfies
      <4>10. PICK j \in DOMAIN c : c[j] = y
        BY DEF ToSet
      <4>11. FalseBy(st, y, i - 1) /\ y \in Lits /\ Value(st, y) = False
        BY <4>6, <4>10 DEF FalseBy
      <4>12. Level(st, y) # 0
        BY <4>9, <4>11, FalseAtRoot
      <4> QED BY <4>4, <4>9, <4>11, <4>12, <1>4
    <3>3. CASE \E j \in DOMAIN x.out : Var(x.out[j]) = v
      <4>1. PICK j \in DOMAIN x.out : Var(x.out[j]) = v
        BY <3>3
      <4>2. PICK h \in 1 .. Len(a.out) : x.out[j] = a.out[h]
        BY DEF Minimizing
      <4>3. a.out \in Seq(Lits) /\ h \in DOMAIN a.out
        BY <1>2 DEF Analysing, Analysis
      <4>4. x.out[j] \in Lits /\ Value(st, x.out[j]) = False /\ x.out[j] \in ToSet(x.out)
        BY <4>2, <4>3 DEF Analysing, ToSet
      <4>5. Value(st, -q) = True
        BY <1>1, <2>2, ValueFacts, TrailFacts
      <4>6. x.out[j] = q
        BY <4>1, <4>4, <4>5, SameVar, SignsDiffer
      <4> QED BY <4>4, <4>6 DEF Satisfies
    <3> QED BY <3>1, <3>2, <3>3
  <2> QED BY <2>3, <2>4
<1>5. n \in S
  <2> HIDE DEF S
  <2>1. 0 .. n \subseteq S
    BY <1>2, <1>3, <1>4, BoundedInduction
  <2> QED BY <1>2, <2>1
<1>6. l \in Lits /\ Value(st, l) = False /\ Var(l) \in x.seen
  BY DEF FalseOf
<1>7. FalseBy(st, l, n)
  <2>1. Value(st, -l) = True /\ -l \in Lits
    BY <1>1, <1>6, ValueFacts, LitFacts, TrailFacts
  <2>2. \E j \in DOMAIN st.trail : st.trail[j] = -l
    BY <2>1, <1>1, TrailFacts
  <2> QED BY <2>2, <1>2, <1>6 DEF FalseBy
<1> QED BY <1>5, <1>6, <1>7

\* The clause stays one that follows when it is minimised.
LEMMA MinimizedFacts ==
  ASSUME NEW st, NEW M, Core(st, M), DecisionLevel(st) > 0, NEW a, Resolved(st, M, a), Open(st, a) = {},
         NEW x, x = Minimized(st, a)
  PROVE  x \in Minimization /\ Asserting(st, M, a.p, x.out)
<1>1. Analysing(st, a) /\ a.p \in Lits
  BY DEF Resolved
<1>2. Minimizing(st, a, Len(a.out), x)
  BY <1>1, MinimizedFold
<1>3. x \in Minimization /\ x.out \in Seq(Lits) /\ DistinctVars(x.out) /\ a.seen \subseteq x.seen
  BY <1>2 DEF Minimizing, Minimization
<1>4. a.out \in Seq(Lits) /\ Len(a.out) \in Nat /\ DOMAIN a.out = 1 .. Len(a.out)
  BY <1>1 DEF Analysing, Analysis
<1>5. ASSUME NEW k \in DOMAIN x.out
      PROVE  /\ Value(st, x.out[k]) = False
             /\ 0 < Level(st, x.out[k]) /\ Level(st, x.out[k]) < DecisionLevel(st)
  <2>1. PICK h \in 1 .. Len(a.out) : x.out[k] = a.out[h]
    BY <1>2 DEF Minimizing
  <2>2. h \in DOMAIN a.out
    BY <1>4
  <2> QED BY <1>1, <2>1, <2>2 DEF Analysing, Level
<1>6. ASSUME NEW m \in M PROVE Satisfies(m, {-a.p} \cup ToSet(x.out))
  <2>1. Satisfies(m, {-a.p} \cup FalseOf(st, a.seen))
    BY DEF Resolved
  <2>2. PICK l \in {-a.p} \cup FalseOf(st, a.seen) : Satisfies(m, {l})
    BY <2>1 DEF Satisfies
  <2>3. CASE l = -a.p
    BY <2>2, <2>3 DEF Satisfies
  <2>4. CASE l \in FalseOf(st, a.seen)
    <3>1. l \in FalseOf(st, x.seen)
      BY <2>4, <1>3 DEF FalseOf
    <3>2. Satisfies(m, ToSet(x.out))
      BY <1>1, <1>2, <2>2, <3>1, ExplainedAway
    <3> QED BY <3>2 DEF Satisfies
  <2> QED BY <2>3, <2>4
<1> QED BY <1>3, <1>5, <1>6 DEF Asserting

-----------------------------------------------------------------------------
(* minimisationWithBinaryResolution and the literal that comes second.     *)

\* The place k, counted from the end, is as far as hole h from the start.
Fills(kept, holes, h, k) ==
  k \in kept /\ Cardinality({j \in kept : j >= k}) = Cardinality({j \in holes : j <= h})

Hollow(kept, n, holes) ==
  /\ \E m \in Nat : kept \subseteq 1 .. m
  /\ n = Cardinality(kept) /\ holes = {k \in 1 .. n : k \notin kept}

LEMMA HollowFacts ==
  ASSUME NEW kept, NEW n, NEW holes, Hollow(kept, n, holes)
  PROVE  /\ IsFiniteSet(kept) /\ IsFiniteSet(holes) /\ n \in Nat /\ kept \subseteq Nat /\ holes \subseteq Nat
         /\ Cardinality(holes) \in Nat /\ Cardinality(holes) <= n
         /\ Cardinality(kept \ (1 .. n)) = Cardinality(holes)
<1>1. PICK m \in Nat : kept \subseteq 1 .. m
  BY DEF Hollow
<1>2. IsFiniteSet(kept) /\ n \in Nat /\ kept \subseteq Nat
  <2> DEFINE J == 1 .. m
  <2>1. IsFiniteSet(J) /\ kept \in SUBSET J /\ J \subseteq Nat
    BY <1>1, FS_Interval
  <2> HIDE DEF J
  <2> QED BY <2>1, FS_Subset, FS_CardinalityType DEF Hollow
<1> DEFINE I == 1 .. n
<1>3. IsFiniteSet(I) /\ Cardinality(I) = n
  BY <1>2, FS_Interval
<1>4. holes = I \ kept
  BY DEF Hollow
<1>5. IsFiniteSet(holes) /\ Cardinality(holes) = n - Cardinality(I \cap kept)
  BY <1>3, <1>4, FS_Difference
<1>6. Cardinality(kept \ I) = n - Cardinality(kept \cap I)
  BY <1>2, FS_Difference DEF Hollow
<1>7. kept \cap I = I \cap kept
  OBVIOUS
<1>8. Cardinality(holes) \in Nat /\ Cardinality(holes) <= n
  <2>1. holes \in SUBSET I
    BY <1>4
  <2> QED BY <2>1, <1>3, <1>5, FS_Subset, FS_CardinalityType
<1>9. holes \subseteq Nat
  BY <1>4
<1> QED BY <1>2, <1>5, <1>6, <1>7, <1>8, <1>9

Ranks(R, key) == [r \in R |-> Cardinality({m \in R : key[m] <= key[r]})]

Keyed(R, key) ==
  /\ IsFiniteSet(R) /\ \A r \in R : key[r] \in Int
  /\ \A q, r \in R : key[q] = key[r] => q = r

LEMMA RanksFacts ==
  ASSUME NEW R, NEW key, Keyed(R, key),
         NEW to, to = Ranks(R, key), NEW n, n = Cardinality(R)
  PROVE  /\ \A r \in R : to[r] \in 1 .. n
         /\ \A q, r \in R : to[q] = to[r] => q = r
         /\ \A i \in 1 .. n : \E r \in R : to[r] = i
<1>1. to = [r \in R |-> Cardinality({m \in R : key[m] <= key[r]})]
  BY DEF Ranks
<1> QED BY <1>1, RankFacts DEF Keyed

LEMMA FillerFound ==
  ASSUME NEW kept, NEW n, NEW holes, Hollow(kept, n, holes), NEW h \in holes
  PROVE  /\ \E k : Fills(kept, holes, h, k)
         /\ \A k : Fills(kept, holes, h, k) => k \notin 1 .. n
         /\ \A k : \A g \in holes : Fills(kept, holes, h, k) /\ Fills(kept, holes, g, k) => g = h
<1>1. /\ IsFiniteSet(kept) /\ IsFiniteSet(holes) /\ n \in Nat /\ kept \subseteq Nat /\ holes \subseteq Nat
      /\ Cardinality(holes) \in Nat /\ Cardinality(holes) <= n
      /\ Cardinality(kept \ (1 .. n)) = Cardinality(holes)
  BY HollowFacts
<1>2. n = Cardinality(kept)
  BY DEF Hollow
<1> DEFINE key == [j \in kept |-> -j]
           up == Ranks(kept, key)
           id == [j \in holes |-> j]
           down == Ranks(holes, id)
           c == Cardinality(holes)
<1>3. \A k \in kept : up[k] = Cardinality({j \in kept : j >= k})
  <2> SUFFICES ASSUME NEW k \in kept PROVE up[k] = Cardinality({j \in kept : j >= k})
    OBVIOUS
  <2>1. {j \in kept : key[j] <= key[k]} = {j \in kept : j >= k}
    <3> SUFFICES ASSUME NEW j \in kept PROVE key[j] <= key[k] <=> j >= k
      OBVIOUS
    <3>1. j \in Nat /\ k \in Nat /\ key[j] = -j /\ key[k] = -k
      BY <1>1
    <3> QED BY ONLY <3>1
  <2>2. up[k] = Cardinality({j \in kept : key[j] <= key[k]})
    BY DEF Ranks
  <2> QED BY <2>1, <2>2
<1>4. \A g \in holes : down[g] = Cardinality({j \in holes : j <= g})
  <2> SUFFICES ASSUME NEW g \in holes PROVE down[g] = Cardinality({j \in holes : j <= g})
    OBVIOUS
  <2>1. {j \in holes : id[j] <= id[g]} = {j \in holes : j <= g}
    OBVIOUS
  <2>2. down[g] = Cardinality({j \in holes : id[j] <= id[g]})
    BY DEF Ranks
  <2> QED BY <2>1, <2>2
<1>5. Keyed(kept, key) /\ Keyed(holes, id)
  BY <1>1 DEF Keyed
<1>6. up = Ranks(kept, key) /\ down = Ranks(holes, id)
      /\ c = Cardinality(holes)
  OBVIOUS
<1> HIDE DEF key, up, id, down, c
<1>7. \A i \in 1 .. n : \E k \in kept : up[k] = i
  <2>1. Keyed(kept, key) /\ up = Ranks(kept, key) /\ n = Cardinality(kept)
    BY <1>2, <1>5, <1>6
  <2> QED BY ONLY <2>1, RanksFacts
<1>8. /\ \A g \in holes : down[g] \in 1 .. c
      /\ \A f, g \in holes : down[f] = down[g] => f = g
  BY <1>1, <1>5, <1>6, RanksFacts
<1>9. \E k : Fills(kept, holes, h, k)
  <2>1. down[h] \in 1 .. n
    BY <1>1, <1>6, <1>8
  <2> QED BY ZenonT(40), <2>1, <1>3, <1>4, <1>7 DEF Fills
<1>10. ASSUME NEW k, Fills(kept, holes, h, k), k \in 1 .. n PROVE FALSE
  <2> DEFINE B == kept \ (1 .. n)
             C == B \cup {k}
             D == {j \in kept : j >= k}
  <2>1. k \in kept /\ Cardinality(D) = down[h]
    BY <1>4, <1>10 DEF Fills
  <2>2. C \in SUBSET D
    <3> SUFFICES ASSUME NEW j \in B PROVE j >= k
      BY <1>1, <2>1
    <3>1. j \in Nat /\ ~(j \in 1 .. n) /\ k \in 1 .. n /\ n \in Nat /\ j # 0
      <4>1. PICK m \in Nat : kept \subseteq 1 .. m
        BY DEF Hollow
      <4> QED BY <1>1, <1>10, <4>1
    <3> QED BY ONLY <3>1
  <2>3. IsFiniteSet(B) /\ IsFiniteSet(D) /\ k \notin B
    BY <1>1, <1>10, FS_Subset
  <2>4. Cardinality(C) = Cardinality(B) + 1
    BY <2>3, FS_AddElement
  <2>5. Cardinality(C) <= Cardinality(D)
    BY <2>2, <2>3, FS_Subset
  <2>6. Cardinality(B) = c /\ c \in Nat /\ down[h] \in 1 .. c
    BY <1>1, <1>6, <1>8
  <2> QED BY ONLY <2>1, <2>4, <2>5, <2>6
<1>11. ASSUME NEW k, NEW g \in holes, Fills(kept, holes, h, k), Fills(kept, holes, g, k) PROVE g = h
  BY <1>4, <1>8, <1>11 DEF Fills
<1> QED BY <1>9, <1>10, <1>11

\* The places that the literals kept come from.
Places(kept, n, holes) ==
  [k \in 1 .. n |-> IF k \in kept THEN k ELSE CHOOSE j : Fills(kept, holes, k, j)]

LEMMA PlacesFacts ==
  ASSUME NEW kept, NEW n, NEW holes, Hollow(kept, n, holes), NEW g, g = Places(kept, n, holes)
  PROVE  /\ n \in Nat
         /\ \A k \in 1 .. n : g[k] \in kept
         /\ \A j, k \in 1 .. n : g[j] = g[k] => j = k
         /\ \A i \in kept : \E k \in 1 .. n : g[k] = i
<1>1. /\ IsFiniteSet(kept) /\ n \in Nat /\ n = Cardinality(kept)
  BY HollowFacts DEF Hollow
<1>2. ASSUME NEW k \in 1 .. n
      PROVE  IF k \in kept THEN g[k] = k ELSE k \in holes /\ Fills(kept, holes, k, g[k])
  <2>1. CASE k \in kept
    BY <2>1 DEF Places
  <2>2. CASE k \notin kept
    <3>1. k \in holes
      BY <2>2 DEF Hollow
    <3>2. \E j : Fills(kept, holes, k, j)
      BY <3>1, FillerFound
    <3>3. g[k] = CHOOSE j : Fills(kept, holes, k, j)
      BY <2>2 DEF Places
    <3> QED BY <2>2, <3>1, <3>2, <3>3
  <2> QED BY <2>1, <2>2
<1>3. \A k \in 1 .. n : g[k] \in kept
  BY <1>2 DEF Fills
<1>4. ASSUME NEW j \in 1 .. n, NEW k \in 1 .. n, g[j] = g[k] PROVE j = k
  <2>1. CASE j \in kept /\ k \in kept
    BY <2>1, <1>2, <1>4
  <2>2. CASE j \in kept /\ k \notin kept
    <3>1. g[k] = j /\ k \in holes /\ Fills(kept, holes, k, j)
      BY <2>2, <1>2, <1>4
    <3> QED BY <3>1, FillerFound
  <2>3. CASE j \notin kept /\ k \in kept
    <3>1. g[j] = k /\ j \in holes /\ Fills(kept, holes, j, k)
      BY <2>3, <1>2, <1>4
    <3> QED BY <3>1, FillerFound
  <2>4. CASE j \notin kept /\ k \notin kept
    <3>1. j \in holes /\ k \in holes /\ Fills(kept, holes, j, g[k]) /\ Fills(kept, holes, k, g[k])
      BY <2>4, <1>2, <1>4
    <3> QED BY <3>1, FillerFound
  <2> QED BY <2>1, <2>2, <2>3, <2>4
<1>5. \A i \in kept : \E k \in 1 .. n : g[k] = i
  <2> DEFINE I == 1 .. n
             f == [k \in I |-> g[k]]
  <2>1. Cardinality(I) = n
    BY <1>1, FS_Interval
  <2>2. f \in Injection(I, kept)
    BY <1>3, <1>4 DEF Injection, IsInjective
  <2>3. f \in Surjection(I, kept)
    <3>1. Cardinality(I) = Cardinality(kept)
      BY <2>1, <1>1
    <3> HIDE DEF f, I
    <3> QED BY <2>2, <3>1, <1>1, FS_Injection
  <2> QED BY <2>3 DEF Surjection
<1> QED BY <1>1, <1>3, <1>4, <1>5

\* What a binary clause says of the last literal.
LEMMA BinaryImplies ==
  ASSUME NEW st, NEW M, Sound(st, M), NEW p \in Lits, NEW w \in ToSet(st.watchesBin[p]), NEW m \in M
  PROVE  w.blocker \in Lits /\ Satisfies(m, {-p, w.blocker})
<1>1. st \in Solver /\ Stored(st) /\ Implied(st, M)
  BY CoreFacts DEF Sound
<1> DEFINE ws == ListOf(st, "binary", p)
<1>2. ws = st.watchesBin[p]
  BY KindFacts
<1>3. "binary" \in Kinds
  BY DEF Kinds
<1>4. ws \in Seq(Watchers) /\ WellListed(st, "binary", p, ws)
  BY <1>1, <1>3, ListFacts DEF Sound, Watching
<1> HIDE DEF ws
<1>5. w \in ToSet(ws) /\ w \in Watchers /\ w.cref \in Crefs(ws)
  BY <1>2, <1>4, SeqFacts DEF Crefs
<1>6. /\ ToSet(st.db[w.cref]) = {-p, w.blocker}
      /\ w.cref \in DOMAIN st.db
  BY <1>1, <1>4, <1>5 DEF WellListed, Attached, Live, Stored
<1>7. Satisfies(m, ToSet(st.db[w.cref]))
  BY <1>1, <1>6 DEF Implied
<1> QED BY <1>5, <1>6, <1>7 DEF Watchers

LEMMA ResolvedWithBinaryStep ==
  ASSUME NEW st, NEW M, Sound(st, M), NEW p \in Lits, NEW out, Asserting(st, M, p, out),
         NEW r, r = ResolvedWithBinary(st, p, out)
  PROVE  Asserting(st, M, p, r)
<1> DEFINE implied == {w.blocker : w \in ToSet(st.watchesBin[p])}
           kept == {k \in DOMAIN out : -out[k] \notin implied}
           n == Cardinality(kept)
           holes == {k \in 1 .. n : k \notin kept}
           g == Places(kept, n, holes)
<1>1. /\ out \in Seq(Lits) /\ DistinctVars(out) /\ Len(out) \in Nat /\ DOMAIN out = 1 .. Len(out)
      /\ \A k \in DOMAIN out : out[k] \in Lits
  BY DEF Asserting
<1>2. Hollow(kept, n, holes)
  BY <1>1 DEF Hollow
<1>3. r = [k \in 1 .. n |-> out[g[k]]]
  <2> DEFINE f(k) == IF k \in kept THEN k ELSE CHOOSE j \in kept : Cardinality({i \in kept : i >= j})
                                                                = Cardinality({i \in holes : i <= k})
  <2>1. r = [k \in 1 .. n |-> out[f(k)]]
    BY DEF ResolvedWithBinary
  <2>2. \A k \in 1 .. n : g[k] = f(k)
    BY DEF Places, Fills
  <2> HIDE DEF f
  <2> QED BY ONLY <2>1, <2>2
<1>4. g = Places(kept, n, holes)
  OBVIOUS
<1>5. \A k \in DOMAIN out : k \in kept \/ -out[k] \in implied
  OBVIOUS
<1>6. kept \subseteq DOMAIN out
  OBVIOUS
<1>7. \A y \in implied : \E w \in ToSet(st.watchesBin[p]) : y = w.blocker
  OBVIOUS
<1> HIDE DEF g, holes, n, kept, implied
<1>8. /\ n \in Nat
      /\ \A k \in 1 .. n : g[k] \in kept
      /\ \A j, k \in 1 .. n : g[j] = g[k] => j = k
      /\ \A i \in kept : \E k \in 1 .. n : g[k] = i
  BY <1>2, <1>4, PlacesFacts
<1>9. DOMAIN r = 1 .. n /\ \A k \in 1 .. n : r[k] = out[g[k]] /\ g[k] \in DOMAIN out
  BY <1>3, <1>6, <1>8
<1>10. r \in Seq(Lits)
  <2>1. \A k \in 1 .. n : out[g[k]] \in Lits
    BY <1>1, <1>9
  <2>2. r \in [1 .. n -> Lits]
    BY <1>3, <2>1
  <2> QED BY <1>8, <2>2
<1>11. DistinctVars(r)
  BY <1>1, <1>8, <1>9 DEF DistinctVars
<1>12. \A k \in DOMAIN r : /\ Value(st, r[k]) = False
                           /\ 0 < Level(st, r[k]) /\ Level(st, r[k]) < DecisionLevel(st)
  BY <1>9 DEF Asserting
<1>13. ASSUME NEW m \in M PROVE Satisfies(m, {-p} \cup ToSet(r))
  <2>1. PICK l \in {-p} \cup ToSet(out) : Satisfies(m, {l})
    BY DEF Asserting, Satisfies
  <2>2. CASE Satisfies(m, {-p})
    BY <2>2 DEF Satisfies
  <2>3. CASE l # -p
    <3>1. PICK k \in DOMAIN out : out[k] = l
      BY <2>1, <2>3 DEF ToSet
    <3>2. CASE k \in kept
      <4>1. PICK i \in 1 .. n : g[i] = k
        BY <3>2, <1>8
      <4>2. l \in ToSet(r)
        BY <4>1, <3>1, <1>9 DEF ToSet
      <4> QED BY <4>2, <2>1 DEF Satisfies
    <3>3. CASE -out[k] \in implied
      <4>1. PICK w \in ToSet(st.watchesBin[p]) : -l = w.blocker
        BY <3>1, <3>3, <1>7
      <4>2. Satisfies(m, {-p, -l})
        BY <4>1, BinaryImplies
      <4>3. l \in Lits
        BY <3>1, <1>1
      <4>4. ~Satisfies(m, {-l})
        <5>1. l \in Int /\ l # 0 /\ Var(-l) = Var(l)
          BY <4>3, LitFacts
        <5> QED BY <5>1, <2>1 DEF Satisfies
      <4>5. Satisfies(m, {-p})
        BY <4>2, <4>4 DEF Satisfies
      <4> QED BY <4>5, <2>2
    <3> QED BY <3>2, <3>3, <1>5
  <2> QED BY <2>1, <2>2, <2>3
<1> QED BY <1>10, <1>11, <1>12, <1>13 DEF Asserting

LEMMA HighestFirstStep ==
  ASSUME NEW st, NEW M, Core(st, M), NEW p, NEW out, Asserting(st, M, p, out),
         NEW r, r = HighestFirst(st, out)
  PROVE  Asserting(st, M, p, r) /\ \A k \in DOMAIN r : 1 \in DOMAIN r /\ Level(st, r[k]) <= Level(st, r[1])
<1>1. /\ out \in Seq(Lits) /\ DistinctVars(out) /\ Len(out) \in Nat /\ DOMAIN out = 1 .. Len(out)
      /\ \A k \in DOMAIN out : out[k] \in Lits
  BY DEF Asserting
<1>2. CASE out = << >>
  BY <1>1, <1>2 DEF HighestFirst
<1>3. CASE out # << >>
  <2> DEFINE L == {Level(st, q) : q \in ToSet(out)}
             high == Max(L)
             H == {k \in DOMAIN out : Level(st, out[k]) = high}
             j == Min(H)
  <2>1. st \in Solver /\ OnTrail(st) /\ DecisionLevel(st) \in Nat
    BY CoreFacts, TrailFacts
  <2>2. 1 \in DOMAIN out /\ out[1] \in ToSet(out)
    BY <1>1, <1>3 DEF ToSet
  <2>3. \A k \in DOMAIN out : Level(st, out[k]) \in Nat /\ Level(st, out[k]) <= DecisionLevel(st) /\ Level(st, out[k]) \in L
    <3> SUFFICES ASSUME NEW k \in DOMAIN out
                 PROVE  Level(st, out[k]) \in Nat /\ Level(st, out[k]) <= DecisionLevel(st) /\ Level(st, out[k]) \in L
      OBVIOUS
    <3>1. Level(st, out[k]) \in Nat /\ Level(st, out[k]) < DecisionLevel(st)
      BY <1>1, <2>1, TrailFacts DEF Asserting
    <3>2. out[k] \in ToSet(out)
      BY DEF ToSet
    <3> QED BY <3>1, <3>2, <2>1
  <2>4. \A x \in L : \E k \in DOMAIN out : x = Level(st, out[k])
    BY DEF ToSet
  <2>5. r = Swapped(out, 1, j)
    BY <1>3 DEF HighestFirst
  <2> HIDE DEF L
  <2>6. L \subseteq Nat /\ L # {} /\ \A x \in L : x <= DecisionLevel(st)
    BY <2>2, <2>3, <2>4
  <2>7. high \in L /\ \A x \in L : x <= high
    BY <2>1, <2>6, MaxFacts
  <2> HIDE DEF high
  <2>8. H \subseteq Nat /\ H # {} /\ H \subseteq DOMAIN out /\ \A k \in H : Level(st, out[k]) = high
    BY <1>1, <2>4, <2>7
  <2> HIDE DEF H
  <2>9. j \in DOMAIN out /\ Level(st, out[j]) = high
    BY <2>8, MinFacts
  <2> HIDE DEF j
  <2>10. /\ r \in Seq(Lits) /\ DOMAIN r = DOMAIN out /\ r[1] = out[j] /\ ToSet(r) = ToSet(out) /\ DistinctVars(r)
    BY <1>1, <2>2, <2>5, <2>9, SwappedFacts, SwappedDistinct
  <2>11. \A k \in DOMAIN r : \E i \in DOMAIN out : r[k] = out[i]
    <3> SUFFICES ASSUME NEW k \in DOMAIN r PROVE \E i \in DOMAIN out : r[k] = out[i]
      OBVIOUS
    <3>1. r[k] \in ToSet(out)
      BY <2>10 DEF ToSet
    <3> QED BY <3>1 DEF ToSet
  <2>12. \A k \in DOMAIN r : 1 \in DOMAIN r /\ Level(st, r[k]) <= Level(st, r[1])
    BY <2>2, <2>3, <2>7, <2>9, <2>10, <2>11
  <2>13. Asserting(st, M, p, r)
    BY <2>10, <2>11 DEF Asserting
  <2> QED BY <2>12, <2>13
<1> QED BY <1>2, <1>3

-----------------------------------------------------------------------------
(* What analyze returns.                                                   *)

\* What analyze returns: a clause that follows, false, of which only the first
\* literal is of the last level and the second one is of the level to go back to.
Taught(st, M, a) ==
  /\ a.visited \subseteq Nat /\ a.btlevel \in Nat /\ a.btlevel < DecisionLevel(st)
  /\ a.learnt \in Seq(Lits) /\ Len(a.learnt) \in Nat \ {0} /\ DistinctVars(a.learnt)
  /\ \A m \in M : Satisfies(m, ToSet(a.learnt))
  /\ Level(st, a.learnt[1]) = DecisionLevel(st)
  /\ \A k \in 2 .. Len(a.learnt) : Value(st, a.learnt[k]) = False /\ Level(st, a.learnt[k]) <= a.btlevel
  /\ IF Len(a.learnt) = 1 THEN a.btlevel = 0 ELSE Level(st, a.learnt[2]) = a.btlevel

ConsOf(q, o) == <<q>> \o o

LEMMA ConsFacts ==
  ASSUME NEW q \in Lits, NEW o \in Seq(Lits), NEW c, c = ConsOf(q, o)
  PROVE  /\ c \in Seq(Lits) /\ Len(c) = Len(o) + 1 /\ Len(o) \in Nat /\ c[1] = q
         /\ DOMAIN c = 1 .. Len(o) + 1 /\ DOMAIN o = 1 .. Len(o)
         /\ \A k \in 2 .. Len(c) : k - 1 \in DOMAIN o /\ c[k] = o[k - 1]
         /\ ToSet(c) = {q} \cup ToSet(o)
<1> DEFINE b == <<q>>
<1>1. b \in Seq(Lits) /\ Len(b) = 1 /\ b[1] = q /\ DOMAIN b = {1}
  OBVIOUS
<1>2. c = b \o o
  BY DEF ConsOf
<1> HIDE DEF b
<1>3. /\ c \in Seq(Lits) /\ Len(c) = 1 + Len(o) /\ DOMAIN c = 1 .. 1 + Len(o)
      /\ DOMAIN o = 1 .. Len(o) /\ Len(o) \in Nat
      /\ \A i \in DOMAIN b : i \in DOMAIN c /\ c[i] = b[i]
      /\ \A j \in DOMAIN o : 1 + j \in DOMAIN c /\ c[1 + j] = o[j]
      /\ \A i \in DOMAIN c : i \in DOMAIN b \/ (i - 1 \in DOMAIN o /\ c[i] = o[i - 1])
  <2>1. /\ c \in Seq(Lits) /\ Len(c) = Len(b) + Len(o) /\ DOMAIN c = 1 .. Len(b) + Len(o)
        /\ DOMAIN o = 1 .. Len(o) /\ Len(o) \in Nat
        /\ \A i \in DOMAIN b : i \in DOMAIN c /\ c[i] = b[i]
        /\ \A j \in DOMAIN o : Len(b) + j \in DOMAIN c /\ c[Len(b) + j] = o[j]
        /\ \A i \in DOMAIN c : i \in DOMAIN b \/ (i - Len(b) \in DOMAIN o /\ c[i] = o[i - Len(b)])
    <3>1. b \in Seq(Lits) /\ o \in Seq(Lits)
      BY <1>1
    <3> QED BY ONLY <3>1, <1>2, LitsConcat
  <2>2. Len(b) = 1
    BY <1>1
  <2> QED BY ONLY <2>1, <2>2
<1>4. \A k \in 2 .. Len(c) : k - 1 \in DOMAIN o /\ c[k] = o[k - 1]
  BY <1>1, <1>3
<1>5. \A x : x \in ToSet(c) <=> x = q \/ x \in ToSet(o)
  <2> SUFFICES ASSUME NEW x PROVE x \in ToSet(c) <=> x = q \/ x \in ToSet(o)
    OBVIOUS
  <2>1. ASSUME x \in ToSet(c) PROVE x = q \/ x \in ToSet(o)
    <3>1. PICK i \in DOMAIN c : c[i] = x
      BY <2>1 DEF ToSet
    <3> QED BY <3>1, <1>1, <1>3 DEF ToSet
  <2>2. ASSUME x = q PROVE x \in ToSet(c)
    BY <2>2, <1>1, <1>3 DEF ToSet
  <2>3. ASSUME x \in ToSet(o) PROVE x \in ToSet(c)
    <3>1. PICK j \in DOMAIN o : o[j] = x
      BY <2>3 DEF ToSet
    <3> QED BY <3>1, <1>3 DEF ToSet
  <2> QED BY <2>1, <2>2, <2>3
<1> QED BY <1>1, <1>3, <1>4, <1>5

LEMMA AnalyzeFacts ==
  ASSUME NEW st, NEW M, Sound(st, M), DecisionLevel(st) > 0, Conflicting(st),
         NEW a, a = Analyze(st)
  PROVE  Taught(st, M, a)
<1> DEFINE u == FirstUIP(st)
           m == Minimized(st, u)
           o1 == ResolvedWithBinary(st, u.p, m.out)
           o == HighestFirst(st, o1)
           c == <<-u.p>> \o o
<1>1. /\ a.learnt = c /\ a.visited = m.visited
      /\ a.btlevel = IF o = << >> THEN 0 ELSE Level(st, o[1])
  BY DEF Analyze
<1>2. Core(st, M) /\ st \in Solver /\ OnTrail(st) /\ DecisionLevel(st) \in Nat
  BY CoreFacts, TrailFacts DEF Sound
<1>3. Resolved(st, M, u) /\ Open(st, u) = {}
  BY <1>2, FirstUIPFacts
<1> HIDE DEF u
<1>4. m \in Minimization /\ Asserting(st, M, u.p, m.out)
  BY <1>2, <1>3, MinimizedFacts
<1>5. u.p \in Lits /\ Level(st, u.p) = DecisionLevel(st)
  BY <1>3 DEF Resolved
<1> DEFINE p == u.p
<1> HIDE DEF m, p
<1>6. p \in Lits /\ -p \in Lits /\ Level(st, -p) = DecisionLevel(st) /\ Var(-p) = Var(p) /\ p = u.p
  BY <1>5, LitFacts DEF Level, p
<1>7. Asserting(st, M, p, o1)
  <2> DEFINE x == m.out
  <2>1. Asserting(st, M, p, x) /\ o1 = ResolvedWithBinary(st, p, x)
    BY <1>4, <1>6
  <2> HIDE DEF x, o1
  <2> QED BY <1>6, <2>1, ResolvedWithBinaryStep
<1>8. o = HighestFirst(st, o1)
  OBVIOUS
<1> HIDE DEF o1, o
<1>9. Asserting(st, M, p, o) /\ \A k \in DOMAIN o : 1 \in DOMAIN o /\ Level(st, o[k]) <= Level(st, o[1])
  BY <1>2, <1>7, <1>8, HighestFirstStep
<1>10. /\ o \in Seq(Lits) /\ DistinctVars(o)
       /\ \A k \in DOMAIN o : /\ Value(st, o[k]) = False
                              /\ 0 < Level(st, o[k]) /\ Level(st, o[k]) < DecisionLevel(st)
       /\ \A x \in M : Satisfies(x, {-p} \cup ToSet(o))
  BY <1>9 DEF Asserting
<1>11. c = <<-p>> \o o
  BY <1>6
<1> HIDE DEF c
<1>12. /\ c \in Seq(Lits) /\ Len(c) = Len(o) + 1 /\ Len(o) \in Nat /\ c[1] = -p
       /\ DOMAIN c = 1 .. Len(o) + 1 /\ DOMAIN o = 1 .. Len(o)
       /\ \A k \in 2 .. Len(c) : k - 1 \in DOMAIN o /\ c[k] = o[k - 1]
       /\ ToSet(c) = {-p} \cup ToSet(o)
  <2> DEFINE q == -p
  <2>1. q \in Lits /\ c = ConsOf(q, o) /\ q = -p /\ o \in Seq(Lits)
    BY <1>6, <1>10, <1>11 DEF ConsOf
  <2> HIDE DEF q
  <2>2. /\ c \in Seq(Lits) /\ Len(c) = Len(o) + 1 /\ Len(o) \in Nat /\ c[1] = q
        /\ DOMAIN c = 1 .. Len(o) + 1 /\ DOMAIN o = 1 .. Len(o)
        /\ \A k \in 2 .. Len(c) : k - 1 \in DOMAIN o /\ c[k] = o[k - 1]
        /\ ToSet(c) = {q} \cup ToSet(o)
    BY ONLY <2>1, ConsFacts
  <2> QED BY <2>1, <2>2
<1>13. \A k \in DOMAIN o : o[k] \in Lits /\ Level(st, o[k]) \in Nat
  BY <1>2, <1>10, TrailFacts
<1>14. DistinctVars(c)
  <2> SUFFICES ASSUME NEW i \in DOMAIN c, NEW j \in DOMAIN c, Var(c[i]) = Var(c[j]) PROVE i = j
    BY DEF DistinctVars
  <2>1. \A k \in DOMAIN o : Var(o[k]) # Var(-p)
    BY <1>2, <1>6, <1>10, <1>13 DEF Level
  <2>2. \A k \in DOMAIN c : k = 1 \/ k \in 2 .. Len(c)
    BY <1>12
  <2>3. CASE i \in 2 .. Len(c) /\ j \in 2 .. Len(c)
    <3>1. i - 1 = j - 1
      BY <2>3, <1>10, <1>12 DEF DistinctVars
    <3> QED BY <2>3, <3>1
  <2> QED BY <2>1, <2>2, <2>3, <1>12
<1>15. a.btlevel \in Nat /\ a.btlevel < DecisionLevel(st)
  <2>1. CASE o = << >>
    BY <2>1, <1>1, <1>2
  <2>2. CASE o # << >>
    <3>1. 1 \in DOMAIN o
      BY <2>2, <1>10, <1>12
    <3> QED BY <3>1, <2>2, <1>1, <1>10, <1>13
  <2> QED BY <2>1, <2>2
<1>16. \A k \in 2 .. Len(c) : Value(st, c[k]) = False /\ Level(st, c[k]) <= a.btlevel
  <2> SUFFICES ASSUME NEW k \in 2 .. Len(c) PROVE Value(st, c[k]) = False /\ Level(st, c[k]) <= a.btlevel
    OBVIOUS
  <2>1. k - 1 \in DOMAIN o /\ c[k] = o[k - 1] /\ o # << >>
    BY <1>12
  <2>2. Value(st, o[k - 1]) = False /\ Level(st, o[k - 1]) <= Level(st, o[1])
    BY <2>1, <1>9, <1>10
  <2> QED BY <2>1, <2>2, <1>1
<1>17. IF Len(c) = 1 THEN a.btlevel = 0 ELSE Level(st, c[2]) = a.btlevel
  <2>1. CASE Len(c) = 1
    <3>1. o = << >>
      BY <2>1, <1>10, <1>12
    <3> QED BY <2>1, <3>1, <1>1
  <2>2. CASE Len(c) # 1
    <3>1. 2 \in 2 .. Len(c) /\ o # << >>
      BY <2>2, <1>12
    <3>2. c[2] = o[1]
      BY <3>1, <1>12
    <3> QED BY <2>2, <3>1, <3>2, <1>1
  <2> QED BY <2>1, <2>2
<1>18. m.visited \subseteq Nat
  BY <1>4 DEF Minimization
<1>19. Len(c) \in Nat \ {0}
  BY <1>12
<1> QED BY <1>1, <1>6, <1>10, <1>12, <1>14, <1>15, <1>16, <1>17, <1>18, <1>19 DEF Taught

-----------------------------------------------------------------------------
(* The actions.                                                            *)

\* The binary clauses that analyze has looked at, reordered.
Visited(st, V) ==
  [st EXCEPT !.confl = NoRef, !.db = [cr \in DOMAIN @ |-> IF cr \in V THEN TrueFirst(st, cr) ELSE @[cr]]]

LEMMA VisitedStep ==
  ASSUME NEW st, NEW M, Sound(st, M), NEW V, NEW new, new = Visited(st, V)
  PROVE  /\ Sound(new, M) /\ SameTrail(st, new) /\ new.confl = NoRef /\ Len(new.db) = Len(st.db)
         /\ new.decision = st.decision /\ new.orderHeap = st.orderHeap
<1>1. st \in Solver /\ Stored(st) /\ Core(st, M) /\ Watching(st) /\ Pending(st)
  BY CoreFacts DEF Sound
<1> DEFINE d == [cr \in DOMAIN st.db |-> IF cr \in V THEN TrueFirst(st, cr) ELSE st.db[cr]]
           n == Len(st.db)
<1>2. st.db \in Seq(Clauses) /\ n \in Nat /\ DOMAIN st.db = 1 .. n
  BY <1>1 DEF Solver
<1>3. ASSUME NEW cr \in DOMAIN st.db
      PROVE  /\ d[cr] \in Clauses /\ DistinctVars(d[cr]) /\ Reordered(st, st.db[cr], d[cr])
             /\ Len(d[cr]) = Len(st.db[cr]) /\ ToSet(d[cr]) = ToSet(st.db[cr])
             /\ Lists(st, cr) = IF cr \in st.oneWatched THEN {<<"unary", -d[cr][1]>>}
                                ELSE IF Len(d[cr]) = 2 THEN {<<"binary", -d[cr][1]>>, <<"binary", -d[cr][2]>>}
                                ELSE {<<"long", -d[cr][1]>>, <<"long", -d[cr][2]>>}
  <2> DEFINE b == st.db[cr]
             c == d[cr]
  <2>1. /\ b \in Clauses /\ b \in Seq(Lits) /\ 1 \in DOMAIN b /\ 2 \in DOMAIN b /\ DistinctVars(b)
        /\ Len(b) \in Nat /\ Len(b) >= 2
    BY <1>1, ClauseFacts DEF Stored
  <2>2. c = b \/ (Len(b) = 2 /\ c = Swapped(b, 1, 2))
    BY DEF TrueFirst
  <2>3. cr \in st.oneWatched => Len(b) > 2
    BY <1>1 DEF Stored
  <2>4. Lists(st, cr) = IF cr \in st.oneWatched THEN {<<"unary", -b[1]>>}
                        ELSE IF Len(b) = 2 THEN {<<"binary", -b[1]>>, <<"binary", -b[2]>>}
                        ELSE {<<"long", -b[1]>>, <<"long", -b[2]>>}
    BY DEF Lists
  <2> HIDE DEF b, c
  <2>5. CASE c = b
    BY <2>1, <2>4, <2>5 DEF Reordered, b, c
  <2>6. CASE Len(b) = 2 /\ c = Swapped(b, 1, 2)
    <3>1. /\ c \in Seq(Lits) /\ Len(c) = 2 /\ c[1] = b[2] /\ c[2] = b[1] /\ ToSet(c) = ToSet(b) /\ DistinctVars(c)
      BY <2>1, <2>6, SwappedFacts, SwappedDistinct
    <3>2. c \in Clauses /\ Reordered(st, b, c)
      BY <3>1, <2>6 DEF Clauses, Reordered
    <3>3. Lists(st, cr) = {<<"binary", -b[1]>>, <<"binary", -b[2]>>} /\ cr \notin st.oneWatched
      BY <2>3, <2>4, <2>6
    <3>4. Lists(st, cr) = {<<"binary", -c[1]>>, <<"binary", -c[2]>>}
      BY <3>1, <3>3
    <3> QED BY <3>1, <3>2, <3>3, <3>4, <2>6 DEF b, c
  <2> QED BY <2>2, <2>5, <2>6
<1>4. DOMAIN d = DOMAIN st.db
  OBVIOUS
<1>5. new = [st EXCEPT !.confl = NoRef, !.db = d]
  BY DEF Visited
<1> HIDE DEF d
<1>6. d \in Seq(Clauses) /\ Len(d) = n
  <2>1. d \in [1 .. n -> Clauses]
    <3>1. d = [cr \in DOMAIN st.db |-> d[cr]]
      BY DEF d
    <3> QED BY <3>1, <1>2, <1>3
  <2> QED BY <2>1, <1>2
<1>7. /\ new \in Solver /\ SameTrail(st, new) /\ SameLists(st, new) /\ new.confl = NoRef /\ new.db = d
      /\ new.deleted = st.deleted /\ new.oneWatched = st.oneWatched /\ new.clauses = st.clauses
      /\ new.learnts = st.learnts /\ new.unaryWatchedClauses = st.unaryWatchedClauses
      /\ new.decision = st.decision /\ new.orderHeap = st.orderHeap /\ new.qhead = st.qhead
  <2>1. NoRef \in Nat
    BY DEF NoRef
  <2> QED BY ZenonT(40), <1>1, <1>5, <1>6, <2>1 DEF Solver, SameTrail, SameLists
<1>8. Live(new) = Live(st)
  BY <1>4, <1>7 DEF Live
<1>9. Stored(new)
  BY <1>1, <1>3, <1>4, <1>7, <1>8 DEF Stored
<1>10. Core(new, M)
  <2>1. st.qhead \in Nat
    BY <1>1 DEF Solver
  <2>2. st.qhead <= new.qhead /\ new.qhead <= Len(st.trail)
    BY <1>1, <1>7, <2>1 DEF Pending
  <2>3. DOMAIN new.db \ DOMAIN st.db = {}
    BY <1>4, <1>7
  <2>4. \A cr \in DOMAIN st.db : cr \in DOMAIN new.db /\ Reordered(st, st.db[cr], new.db[cr])
    BY <1>3, <1>4, <1>7
  <2> QED BY <1>1, <1>7, <1>9, <2>2, <2>3, <2>4, MemoryCore
<1>11. \A cr \in DOMAIN st.db : Lists(new, cr) = Lists(st, cr)
  BY <1>3, <1>7 DEF Lists
<1>12. ASSUME NEW kind \in Kinds, NEW l \in Lits PROVE WellListed(new, kind, l, ListOf(new, kind, l))
  <2> DEFINE ws == ListOf(new, kind, l)
  <2>1. ws = ListOf(st, kind, l)
    BY <1>7 DEF ListOf, SameLists
  <2>2. WellListed(st, kind, l, ws)
    BY <1>1, <2>1 DEF Watching
  <2> HIDE DEF ws
  <2>3. Attached(new, kind, l) = Attached(st, kind, l)
    BY <1>8, <1>11 DEF Attached, Live
  <2>4. Crefs(ws) \subseteq DOMAIN st.db
    BY <1>1, <2>2 DEF WellListed, Attached, Live, Stored
  <2>5. \A w \in ToSet(ws) : w.cref \in DOMAIN st.db
    BY <2>4 DEF Crefs
  <2>6. \A w \in ToSet(ws) : ToSet(new.db[w.cref]) = ToSet(st.db[w.cref])
    BY <2>5, <1>3, <1>7
  <2>7. new.dirty = st.dirty
    BY <1>7 DEF SameLists
  <2> QED BY <2>2, <2>3, <2>6, <2>7, <1>7 DEF WellListed, ws
<1>13. Watching(new)
  BY <1>12 DEF Watching
<1> QED BY <1>6, <1>7, <1>10, <1>13 DEF Sound

\* What learning clause c, to go back to level b, leads to.
Learned(st, V, c, b) ==
  LET back == CancelUntil(Visited(st, V), b)
      cr   == NextRef(st)
  IN  IF Len(c) = 1 THEN UncheckedEnqueue(back, c[1], NoRef)
      ELSE UncheckedEnqueue(AttachClause([Alloc(back, c) EXCEPT !.learnts = @ \cup {cr}], cr), c[1], cr)

\* The clause learnt forces its first literal after the backjump.
Asserted(st, new, c, b) ==
  /\ Len(new.trail) > 0 /\ Last(new.trail) = c[1] /\ DecisionLevel(new) = b
  /\ \A k \in 2 .. Len(c) : Value(new, c[k]) = False
  /\ Len(c) > 1 => Level(new, c[2]) = b
  /\ IF Len(c) = 1 THEN new.reason[Var(c[1])] = NoRef
                   ELSE new.reason[Var(c[1])] # NoRef /\ new.db[new.reason[Var(c[1])]] = c

LEMMA EnqueueLast ==
  ASSUME NEW st \in Solver, OnTrail(st), NEW p \in Lits, Value(st, p) = Undef, NEW from \in Nat,
         NEW new, new = UncheckedEnqueue(st, p, from)
  PROVE  /\ Len(new.trail) > 0 /\ Last(new.trail) = p /\ DecisionLevel(new) = DecisionLevel(st)
         /\ new.reason[Var(p)] = from /\ new.db = st.db
         /\ \A l \in Lits : Value(st, l) # Undef => Value(new, l) = Value(st, l) /\ Level(new, l) = Level(st, l)
<1>1. /\ new \in Solver /\ OnTrail(new)
      /\ Len(new.trail) = Len(st.trail) + 1 /\ DOMAIN new.trail = 1 .. Len(st.trail) + 1
      /\ new.trail[Len(st.trail) + 1] = p
      /\ new.reason[Var(p)] = from /\ DecisionLevel(new) = DecisionLevel(st)
      /\ \A l \in Lits : Value(st, l) # Undef => Value(new, l) = Value(st, l) /\ Level(new, l) = Level(st, l)
  BY EnqueueFrame
<1>2. Len(st.trail) \in Nat
  BY TrailFacts
<1>3. Last(new.trail) = p
  BY <1>1 DEF Last
<1>4. new.db = st.db
  BY EnqueueFields DEF SameMemory
<1> QED BY <1>1, <1>2, <1>3, <1>4

\* Learn.
LEMMA LearnStep ==
  ASSUME NEW st, NEW M, Sound(st, M), HeapFull(st), DecisionLevel(st) > 0,
         NEW a, Taught(st, M, a), NEW c, c = a.learnt, NEW b, b = a.btlevel,
         NEW new, new = Learned(st, a.visited, c, b)
  PROVE  Sound(new, M) /\ HeapFull(new) /\ new.confl = NoRef /\ Asserted(st, new, c, b)
<1> DEFINE p == c[1]
           t == Visited(st, a.visited)
           u == CancelUntil(t, b)
           cr == NextRef(st)
           f == [Alloc(u, c) EXCEPT !.learnts = @ \cup {cr}]
           g == AttachClause(f, cr)
<1>1. /\ b \in Nat /\ b < DecisionLevel(st) /\ c \in Seq(Lits) /\ Len(c) \in Nat \ {0} /\ DistinctVars(c)
      /\ \A m \in M : Satisfies(m, ToSet(c))
      /\ Level(st, p) = DecisionLevel(st)
      /\ \A k \in 2 .. Len(c) : Value(st, c[k]) = False /\ Level(st, c[k]) <= b
      /\ IF Len(c) = 1 THEN b = 0 ELSE Level(st, c[2]) = b
  BY DEF Taught
<1>2. /\ DOMAIN c = 1 .. Len(c) /\ \A k \in 1 .. Len(c) : c[k] \in Lits
      /\ p \in Lits
  BY <1>1
<1>3. t = Visited(st, a.visited) /\ u = CancelUntil(t, b) /\ cr = NextRef(st)
  OBVIOUS
<1>4. new = IF Len(c) = 1 THEN UncheckedEnqueue(u, p, NoRef) ELSE UncheckedEnqueue(g, p, cr)
  BY DEF Learned
<1>5. f = [Alloc(u, c) EXCEPT !.learnts = @ \cup {cr}] /\ g = AttachClause(f, cr)
  OBVIOUS
<1>5a. p = c[1]
  OBVIOUS
<1> HIDE DEF p, t, u, cr, f, g
<1>6. /\ Sound(t, M) /\ SameTrail(st, t) /\ t.confl = NoRef /\ Len(t.db) = Len(st.db)
      /\ t.decision = st.decision /\ t.orderHeap = st.orderHeap
  BY <1>3, VisitedStep
<1>7. /\ \A l : Value(t, l) = Value(st, l) /\ Level(t, l) = Level(st, l)
      /\ DecisionLevel(t) = DecisionLevel(st)
  BY <1>6, TrailFrame
<1>8. HeapFull(t)
  BY <1>6 DEF HeapFull, SameTrail
<1>9. /\ Sound(u, M) /\ HeapFull(u)
      /\ DecisionLevel(u) = b /\ u.confl = NoRef
      /\ SameMemory(t, u)
      /\ \A l \in Lits : Level(t, l) <= b /\ Value(t, l) # Undef =>
           Value(u, l) = Value(t, l) /\ Level(u, l) = Level(t, l)
      /\ \A l \in Lits : Level(t, l) > b => Value(u, l) = Undef
  BY <1>1, <1>3, <1>6, <1>7, <1>8, CancelStep
<1>10. Value(u, p) = Undef
  BY <1>1, <1>2, <1>7, <1>9
<1>11. \A k \in 2 .. Len(c) : Value(u, c[k]) = False /\ Level(u, c[k]) = Level(st, c[k])
  <2> SUFFICES ASSUME NEW k \in 2 .. Len(c) PROVE Value(u, c[k]) = False /\ Level(u, c[k]) = Level(st, c[k])
    OBVIOUS
  <2>1. c[k] \in Lits /\ Value(t, c[k]) = False /\ Level(t, c[k]) = Level(st, c[k]) /\ Level(t, c[k]) <= b
    BY <1>1, <1>2, <1>7
  <2> QED BY <2>1, <1>9, SignsDiffer
<1>12. u \in Solver /\ OnTrail(u) /\ Core(u, M)
  BY <1>9, CoreFacts DEF Sound
<1>13. CASE Len(c) = 1
  <2>1. new = UncheckedEnqueue(u, p, NoRef)
    BY <1>4, <1>13
  <2>2. DecisionLevel(u) = 0
    BY <1>1, <1>9, <1>13
  <2>3. ASSUME NEW m \in M PROVE Satisfies(m, {p})
    <3>1. ToSet(c) = {p}
      BY <1>2, <1>5a, <1>13 DEF ToSet
    <3> QED BY <3>1, <1>1
  <2>4. Sound(new, M) /\ HeapFull(new) /\ new.confl = u.confl
    BY <1>9, <1>10, <1>2, <2>1, <2>2, <2>3, EnqueueFree
  <2>5. NoRef \in Nat
    BY DEF NoRef
  <2>6. /\ Len(new.trail) > 0 /\ Last(new.trail) = p /\ DecisionLevel(new) = DecisionLevel(u)
        /\ new.reason[Var(p)] = NoRef
    BY <1>2, <1>10, <1>12, <2>1, <2>5, EnqueueLast
  <2>7. Asserted(st, new, c, b)
    BY <2>6, <1>9, <1>13, <1>5a DEF Asserted
  <2> QED BY <2>4, <2>7, <1>9
<1>14. CASE Len(c) # 1
  <2>1. new = UncheckedEnqueue(g, p, cr)
    BY <1>4, <1>14
  <2>0. Len(c) >= 2 /\ c \in Seq(Lits)
    <3> DEFINE n == Len(c)
    <3>1. n \in Nat \ {0} /\ n # 1
      BY <1>1, <1>14
    <3> HIDE DEF n
    <3>2. n >= 2
      BY ONLY <3>1
    <3> QED BY <3>2, <1>1 DEF n
  <2>2. c \in Clauses
    BY <2>0 DEF Clauses
  <2>3. cr = NextRef(u)
    BY <1>3, <1>6, <1>9 DEF NextRef, SameMemory
  <2>4. Allocated(u, f, c, cr)
    BY <1>5 DEF Allocated
  <2>5. /\ Core(f, M) /\ cr \in Live(f) /\ cr \notin f.oneWatched /\ f.db[cr] = c
        /\ SameTrail(u, f) /\ f.confl = u.confl
        /\ f.decision = u.decision /\ f.orderHeap = u.orderHeap
        /\ \A kind \in Kinds : \A l \in Lits : ListedBut(f, cr, kind, l, ListOf(f, kind, l))
    BY <1>1, <1>9, <2>2, <2>3, <2>4, AllocStep
  <2>6. Sound(g, M) /\ SameRest(f, g) /\ SameMemory(f, g)
    BY <2>5, <1>5, AttachStep
  <2>7. /\ \A l : Value(g, l) = Value(u, l) /\ Level(g, l) = Level(u, l)
        /\ DecisionLevel(g) = DecisionLevel(u)
    <3>1. /\ \A l : Value(f, l) = Value(u, l) /\ Level(f, l) = Level(u, l)
          /\ DecisionLevel(f) = DecisionLevel(u)
      BY <2>5, TrailFrame
    <3>2. /\ \A l : Value(g, l) = Value(f, l) /\ Level(g, l) = Level(f, l)
          /\ DecisionLevel(g) = DecisionLevel(f)
      BY <2>6, SameRestFacts
    <3> QED BY <3>1, <3>2
  <2>8. HeapFull(g)
    BY <1>9, <2>5, <2>6 DEF HeapFull, SameRest, SameTrail
  <2>9. g.db[cr] = c /\ cr \in Live(g) /\ g.confl = NoRef
    BY <2>5, <2>6, <1>9 DEF SameMemory, SameRest, Live
  <2>10. Value(g, p) = Undef
    BY <2>7, <1>10
  <2>11. Unit(g, c, p)
    <3>1. \A i \in DOMAIN c : c[i] # p => i \in 2 .. Len(c)
      BY <1>2, <1>5a
    <3>2. \A k \in 2 .. Len(c) : Value(g, c[k]) = False
      BY <1>11, <2>7
    <3> QED BY <3>1, <3>2, <1>5a DEF Unit
  <2>12. Permitted(g, M, p, cr) /\ cr \in Nat /\ cr # NoRef
    <3>1. Permitted(g, M, p, cr)
      BY <2>9, <2>11 DEF Permitted
    <3>2. cr \in DOMAIN g.db /\ g \in Solver
      BY <2>6, <2>9, CoreFacts DEF Sound, Live
    <3> QED BY <3>1, <3>2, ClauseFacts DEF NoRef
  <2>13. Sound(new, M) /\ HeapFull(new) /\ new.confl = NoRef
    BY <1>2, <2>1, <2>6, <2>8, <2>9, <2>10, <2>12, EnqueueSound
  <2>14. g \in Solver /\ OnTrail(g)
    BY <2>6, CoreFacts DEF Sound
  <2>15. /\ Len(new.trail) > 0 /\ Last(new.trail) = p /\ DecisionLevel(new) = DecisionLevel(g)
         /\ new.reason[Var(p)] = cr /\ new.db = g.db
         /\ \A l \in Lits : Value(g, l) # Undef => Value(new, l) = Value(g, l) /\ Level(new, l) = Level(g, l)
    BY <1>2, <2>1, <2>10, <2>12, <2>14, EnqueueLast
  <2>16. \A k \in 2 .. Len(c) : Value(new, c[k]) = False /\ Level(new, c[k]) = Level(st, c[k])
    BY <1>2, <1>11, <2>7, <2>15, SignsDiffer
  <2>17. Level(st, c[2]) = b /\ 2 \in 2 .. Len(c)
    BY <1>1, <1>14, <2>0
  <2>18. Asserted(st, new, c, b)
    BY <1>5a, <1>9, <1>14, <2>7, <2>9, <2>12, <2>15, <2>16, <2>17 DEF Asserted
  <2> QED BY <2>13, <2>18
<1> QED BY <1>13, <1>14

-----------------------------------------------------------------------------
(* Decisions.                                                              *)

WithHeap(st, H) == [st EXCEPT !.orderHeap = H]

LEMMA WithHeapStep ==
  ASSUME NEW st, NEW M, Sound(st, M), NEW H \in SUBSET Vars, NEW new, new = WithHeap(st, H)
  PROVE  /\ Sound(new, M) /\ SameTrail(st, new) /\ SameMemory(st, new) /\ SameLists(st, new)
         /\ new.orderHeap = H /\ new.decision = st.decision
         /\ new.confl = st.confl /\ new.qhead = st.qhead
<1>1. st \in Solver /\ Stored(st) /\ Core(st, M) /\ Watching(st) /\ Pending(st)
  BY CoreFacts DEF Sound
<1>2. /\ new \in Solver /\ SameTrail(st, new) /\ SameMemory(st, new) /\ SameLists(st, new)
      /\ new.orderHeap = H /\ new.decision = st.decision
      /\ new.confl = st.confl /\ new.qhead = st.qhead
  BY <1>1 DEF Solver, WithHeap, SameTrail, SameMemory, SameLists
<1>3. Stored(new)
  BY <1>1, <1>2 DEF Stored, SameMemory, Live
<1>4. Core(new, M)
  <2>1. st.qhead \in Nat
    BY <1>1 DEF Solver
  <2>2. st.qhead <= new.qhead /\ new.qhead <= Len(st.trail)
    BY <1>1, <1>2, <2>1 DEF Pending
  <2>3. new.db = st.db /\ new.deleted = st.deleted
    BY <1>2 DEF SameMemory
  <2>4. DOMAIN new.db \ DOMAIN st.db = {}
    BY <2>3
  <2>5. \A cr \in DOMAIN st.db : cr \in DOMAIN new.db /\ Reordered(st, st.db[cr], new.db[cr])
    BY <2>3 DEF Reordered
  <2> QED BY <1>1, <1>2, <1>3, <2>2, <2>3, <2>4, <2>5, MemoryCore
<1>5. Watching(new)
  BY <1>1, <1>2, WatchingFrame
<1> QED BY <1>2, <1>4, <1>5 DEF Sound

\* The next decision opens a level.
LEMMA NewLevelStep ==
  ASSUME NEW st, NEW M, Sound(st, M), st.qhead = Len(st.trail), NEW new, new = NewDecisionLevel(st)
  PROVE  /\ Sound(new, M) /\ new.assigns = st.assigns /\ new.trail = st.trail
         /\ new.orderHeap = st.orderHeap /\ new.decision = st.decision
         /\ new.confl = st.confl /\ new.qhead = st.qhead
         /\ DecisionLevel(new) = DecisionLevel(st) + 1 /\ DecisionLevel(st) \in Nat
         /\ new.trailLim[DecisionLevel(new)] = Len(new.trail)
<1>1. /\ st \in Solver /\ Stored(st) /\ OnTrail(st) /\ Levelled(st) /\ Decided(st)
      /\ Reasoned(st) /\ Pending(st) /\ Implied(st, M) /\ Core(st, M) /\ Watching(st)
  BY CoreFacts DEF Sound
<1> DEFINE n == Len(st.trail)
           d == DecisionLevel(st)
           t == Append(st.trailLim, n)
<1>2. /\ st.trail \in Seq(Lits) /\ n \in Nat /\ DOMAIN st.trail = 1 .. n
      /\ st.trailLim \in Seq(Nat) /\ d \in Nat /\ DOMAIN st.trailLim = 1 .. d
      /\ \A k \in DOMAIN st.trail : st.trail[k] \in Lits
      /\ \A l \in Lits : Level(st, l) \in Nat
      /\ \A e \in DOMAIN st.trailLim : st.trailLim[e] \in Nat
  BY <1>1, TrailFacts
<1>3. /\ t \in Seq(Nat) /\ Len(t) = d + 1 /\ DOMAIN t = 1 .. d + 1 /\ t[d + 1] = n
      /\ \A e \in 1 .. d : t[e] = st.trailLim[e]
  BY <1>2 DEF DecisionLevel
<1>4. new = [st EXCEPT !.trailLim = t]
  BY DEF NewDecisionLevel
<1> HIDE DEF t
<1>5. /\ new \in Solver /\ new.trailLim = t /\ SameMemory(st, new) /\ SameLists(st, new)
      /\ new.assigns = st.assigns /\ new.level = st.level /\ new.reason = st.reason /\ new.trail = st.trail
      /\ new.orderHeap = st.orderHeap /\ new.decision = st.decision
      /\ new.confl = st.confl /\ new.qhead = st.qhead
  BY ZenonT(40), <1>1, <1>3, <1>4 DEF Solver, SameMemory, SameLists
<1>6. /\ \A l : Value(new, l) = Value(st, l) /\ Level(new, l) = Level(st, l)
      /\ DecisionLevel(new) = d + 1
  BY <1>3, <1>5 DEF Value, Level, DecisionLevel
<1>7. Stored(new)
  BY <1>1, <1>5 DEF Stored, SameMemory, Live
<1>8. OnTrail(new)
  BY <1>1, <1>5, <1>6 DEF OnTrail
<1>9. Levelled(new)
  <2>1. \A e \in DOMAIN t : e \in 1 .. d \/ e = d + 1
    BY <1>2, <1>3
  <2>2. \A e \in DOMAIN t : t[e] \in Nat /\ t[e] <= n
    <3> SUFFICES ASSUME NEW e \in DOMAIN t PROVE t[e] \in Nat /\ t[e] <= n
      OBVIOUS
    <3>1. CASE e = d + 1
      BY <3>1, <1>2, <1>3
    <3>2. CASE e \in 1 .. d
      <4>1. st.trailLim[e] <= n /\ st.trailLim[e] \in Nat
        BY <3>2, <1>1, <1>2 DEF Levelled
      <4>2. t[e] = st.trailLim[e]
        BY <3>2, <1>3
      <4> QED BY ONLY <4>1, <4>2
    <3> QED BY <3>1, <3>2, <2>1
  <2>3. ASSUME NEW e \in DOMAIN t, NEW f \in DOMAIN t, e <= f PROVE t[e] <= t[f]
    <3>1. CASE f = d + 1
      BY <3>1, <2>2, <1>3
    <3>2. CASE f \in 1 .. d
      <4>1. e \in 1 .. d
        BY <3>2, <2>1, <2>3, <1>2
      <4> QED BY <4>1, <3>2, <2>3, <1>1, <1>2, <1>3 DEF Levelled
    <3> QED BY <3>1, <3>2, <2>1
  <2>4. ASSUME NEW k \in DOMAIN st.trail
        PROVE  /\ Level(st, st.trail[k]) <= d + 1
               /\ \A e \in DOMAIN t : Level(st, st.trail[k]) >= e <=> k > t[e]
    <3>1. Level(st, st.trail[k]) <= d /\ Level(st, st.trail[k]) \in Nat
      BY <1>1, <1>2 DEF Levelled
    <3>2. ASSUME NEW e \in DOMAIN t PROVE Level(st, st.trail[k]) >= e <=> k > t[e]
      <4>1. CASE e = d + 1
        BY <4>1, <3>1, <1>2, <1>3
      <4>2. CASE e \in 1 .. d
        BY <4>2, <1>1, <1>2, <1>3 DEF Levelled
      <4> QED BY <4>1, <4>2, <2>1
    <3> QED BY <3>1, <3>2, <1>2
  <2> QED BY <2>2, <2>3, <2>4, <1>5, <1>6 DEF Levelled
<1>10. Decided(new)
  <2> SUFFICES ASSUME NEW k \in DOMAIN st.trail, Level(st, st.trail[k]) > 0, st.reason[Var(st.trail[k])] = NoRef
               PROVE  k = t[Level(st, st.trail[k])] + 1
    BY <1>1, <1>5, <1>6 DEF Decided
  <2>1. Level(st, st.trail[k]) \in 1 .. d
    BY <1>1, <1>2 DEF Levelled
  <2> QED BY <2>1, <1>1, <1>3 DEF Decided
<1>11. Reasoned(new)
  <2>1. new.db = st.db /\ new.deleted = st.deleted /\ new.trail = st.trail /\ new.reason = st.reason
    BY <1>5 DEF SameMemory
  <2>2. \A l : Level(new, l) = Level(st, l)
    BY <1>6
  <2>3. \A c, l, k : Forces(new, c, l, k) <=> Forces(st, c, l, k)
    BY ONLY <2>1 DEF Forces
  <2>4. Reasoned(st)
    BY <1>1
  <2> QED BY ONLY <2>1, <2>2, <2>3, <2>4 DEF Reasoned
<1>12. Pending(new)
  BY <1>2, <1>5 DEF Pending
<1>13. Implied(new, M)
  BY <1>1, <1>5, <1>6 DEF Implied, SameMemory
<1>14. Watching(new)
  BY <1>1, <1>5, WatchingFrame
<1>15. Sound(new, M)
  BY <1>5, <1>7, <1>8, <1>9, <1>10, <1>11, <1>12, <1>13, <1>14 DEF Sound, Core
<1> QED BY <1>2, <1>3, <1>5, <1>6, <1>15

\* A free variable is decided.
LEMMA DecideStep ==
  ASSUME NEW st, NEW M, Sound(st, M), HeapFull(st), st.confl = NoRef, st.qhead = Len(st.trail),
         NEW p \in Lits, Value(st, p) = Undef, NEW H \in SUBSET Vars,
         \A v \in st.decision : st.assigns[v] = Undef /\ v # Var(p) => v \in H,
         NEW new, new = UncheckedEnqueue(NewDecisionLevel(WithHeap(st, H)), p, NoRef)
  PROVE  Sound(new, M) /\ HeapFull(new) /\ new.confl = NoRef
<1> DEFINE t == WithHeap(st, H)
           u == NewDecisionLevel(t)
<1>1. t = WithHeap(st, H) /\ u = NewDecisionLevel(t) /\ new = UncheckedEnqueue(u, p, NoRef)
  OBVIOUS
<1> HIDE DEF t, u
<1>2. /\ Sound(t, M) /\ SameTrail(st, t)
      /\ t.orderHeap = H /\ t.decision = st.decision
      /\ t.confl = st.confl /\ t.qhead = st.qhead
  BY <1>1, WithHeapStep
<1>3. t.qhead = Len(t.trail) /\ t.assigns = st.assigns
  BY <1>2 DEF SameTrail
<1>4. /\ Sound(u, M) /\ u.assigns = t.assigns /\ u.trail = t.trail
      /\ u.orderHeap = t.orderHeap /\ u.decision = t.decision
      /\ u.confl = t.confl /\ u.qhead = t.qhead
      /\ DecisionLevel(u) = DecisionLevel(t) + 1 /\ DecisionLevel(t) \in Nat
      /\ u.trailLim[DecisionLevel(u)] = Len(u.trail)
  BY <1>1, <1>2, <1>3, NewLevelStep
<1>5. Core(u, M) /\ Watching(u) /\ u \in Solver
  BY <1>4, CoreFacts DEF Sound
<1>6. Value(u, p) = Undef
  BY <1>3, <1>4 DEF Value
<1>7. NoRef \in Nat /\ DecisionLevel(u) > 0
  BY <1>4 DEF NoRef
<1>8. Core(new, M)
  BY <1>1, <1>4, <1>5, <1>6, <1>7, EnqueueCore
<1>9. /\ SameMemory(u, new) /\ SameLists(u, new) /\ new.confl = u.confl
      /\ new.decision = u.decision /\ new.orderHeap = u.orderHeap
      /\ new.assigns[Var(p)] = IF p > 0 THEN True ELSE False
      /\ \A v \in Vars : v # Var(p) => new.assigns[v] = u.assigns[v]
  BY <1>1, <1>5, <1>7, EnqueueFields
<1>10. Watching(new)
  BY <1>5, <1>9, WatchingFrame
<1>11. HeapFull(new)
  <2> SUFFICES ASSUME NEW v \in new.decision, new.assigns[v] = Undef PROVE v \in new.orderHeap
    BY DEF HeapFull
  <2>1. v # Var(p)
    BY <1>9, SignsDiffer
  <2>2. v \in Vars /\ v \in st.decision
    BY <1>2, <1>4, <1>5, <1>9 DEF Solver
  <2>3. st.assigns[v] = Undef
    BY <2>1, <2>2, <1>3, <1>4, <1>9
  <2> QED BY <2>1, <2>2, <2>3, <1>2, <1>4, <1>9
<1> QED BY <1>2, <1>4, <1>8, <1>9, <1>10, <1>11 DEF Sound

\* A backjump to level 0, if there is a level to undo.
LEMMA CancelAll ==
  ASSUME NEW st, NEW M, Sound(st, M), HeapFull(st), NEW new, new = CancelUntil(st, 0)
  PROVE  Sound(new, M) /\ HeapFull(new) /\ new.confl = st.confl
<1>1. DecisionLevel(st) \in Nat
  BY CoreFacts, TrailFacts DEF Sound
<1>2. CASE DecisionLevel(st) <= 0
  BY <1>2 DEF CancelUntil
<1>3. CASE 0 < DecisionLevel(st)
  BY <1>3, CancelStep
<1> QED BY <1>1, <1>2, <1>3

LEMMA InitStep ==
  ASSUME NEW M
  PROVE  /\ Sound(EmptySolver, M) /\ HeapFull(EmptySolver) /\ DecisionLevel(EmptySolver) = 0
         /\ EmptySolver.confl = NoRef /\ EmptySolver.qhead = Len(EmptySolver.trail)
<1> DEFINE st == EmptySolver
<1>1. /\ << >> \in Seq(Clauses) /\ << >> \in Seq(Lits) /\ << >> \in Seq(Nat) /\ << >> \in Seq(Watchers)
      /\ Len(<< >>) = 0 /\ DOMAIN << >> = {} /\ ToSet(<< >>) = {}
  BY DEF ToSet
<1>2. NoWatches \in WatchLists
  BY <1>1 DEF NoWatches, WatchLists
<1>3. Undef \in Values /\ False \in Values /\ NoRef = 0
  BY DEF Values, NoRef
<1>4. /\ st.db = << >> /\ st.deleted = {} /\ st.clauses = {} /\ st.learnts = {} /\ st.unaryWatchedClauses = {}
      /\ st.watches = NoWatches /\ st.watchesBin = NoWatches /\ st.unaryWatches = NoWatches
      /\ st.dirty = {} /\ st.oneWatched = {}
      /\ st.assigns = [v \in Vars |-> Undef] /\ st.level = [v \in Vars |-> 0]
      /\ st.reason = [v \in Vars |-> NoRef] /\ st.trail = << >> /\ st.trailLim = << >> /\ st.qhead = 0
      /\ st.decision = Vars /\ st.orderHeap = Vars /\ st.polarity = [v \in Vars |-> False]
      /\ st.confl = NoRef
  BY DEF EmptySolver
<1>5. st \in Solver
  <2>1. {} \in References /\ {} \in SUBSET (Kinds \X Lits)
    BY DEF References
  <2>2. [v \in Vars |-> Undef] \in [Vars -> Values] /\ [v \in Vars |-> False] \in [Vars -> Values]
    BY <1>3
  <2>3. [v \in Vars |-> 0] \in [Vars -> Nat] /\ [v \in Vars |-> NoRef] \in [Vars -> Nat] /\ NoRef \in Nat
    BY <1>3
  <2> QED BY <1>1, <1>2, <2>1, <2>2, <2>3 DEF EmptySolver, Solver
<1> HIDE DEF st
<1>6. Live(st) = {}
  BY <1>1, <1>4 DEF Live
<1>7. Stored(st)
  BY <1>1, <1>4, <1>6 DEF Stored
<1>8. OnTrail(st) /\ Levelled(st) /\ Decided(st) /\ Reasoned(st) /\ Pending(st) /\ Implied(st, M)
  <2>1. DOMAIN st.trail = {} /\ DOMAIN st.trailLim = {} /\ DOMAIN st.db = {}
    BY <1>1, <1>4
  <2>2. \A v \in Vars : st.assigns[v] = Undef /\ st.reason[v] = NoRef
    BY <1>4
  <2>3. st.qhead <= Len(st.trail) /\ st.qhead + 1 .. Len(st.trail) = {}
    BY <1>1, <1>4
  <2>4. OnTrail(st)
    BY ONLY <2>1, <2>2 DEF OnTrail
  <2>5. Levelled(st) /\ Decided(st) /\ Reasoned(st)
    BY ONLY <2>1, <2>2 DEF Levelled, Decided, Reasoned
  <2>6. Pending(st)
    BY ONLY <2>3 DEF Pending
  <2>7. Implied(st, M)
    BY ONLY <2>1 DEF Implied
  <2> QED BY <2>4, <2>5, <2>6, <2>7
<1>9. Watching(st)
  <2> SUFFICES ASSUME NEW kind \in Kinds, NEW l \in Lits PROVE WellListed(st, kind, l, ListOf(st, kind, l))
    BY DEF Watching
  <2>1. NoWatches[l] = << >>
    BY DEF NoWatches
  <2>2. ListOf(st, kind, l) = << >>
    BY <2>1, <1>4 DEF ListOf, Kinds
  <2>3. Once(<< >>) /\ Crefs(<< >>) = {}
    BY <1>1 DEF Once, Crefs
  <2>4. Attached(st, kind, l) = {}
    BY <1>6 DEF Attached
  <2> QED BY <1>1, <2>2, <2>3, <2>4 DEF WellListed
<1>10. HeapFull(st)
  BY <1>4 DEF HeapFull
<1>11. Sound(st, M)
  BY <1>5, <1>7, <1>8, <1>9 DEF Sound, Core
<1>12. DecisionLevel(st) = 0 /\ st.confl = NoRef /\ st.qhead = Len(st.trail)
  BY <1>1, <1>4 DEF DecisionLevel
<1> QED BY <1>10, <1>11, <1>12 DEF st

LEMMA HeapSame ==
  ASSUME NEW st, NEW new, HeapFull(st), new.decision = st.decision, new.orderHeap = st.orderHeap,
         new.assigns = st.assigns
  PROVE  HeapFull(new)
BY DEF HeapFull

\* An imported clause.
Imported(st, c) ==
  LET cr == NextRef(st)
      z  == [Alloc(st, c) EXCEPT !.unaryWatchedClauses = @ \cup {cr}]
  IN  IF Len(c) = 2 THEN AttachClause(z, cr) ELSE AttachClausePurgatory(z, cr)

LEMMA ImportStep ==
  ASSUME NEW st, NEW M, Sound(st, M), HeapFull(st), DecisionLevel(st) = 0,
         NEW c \in Seq(Lits), Len(c) > 1, DistinctVars(c), \A m \in M : Satisfies(m, ToSet(c)),
         NEW new, new = Imported(st, c)
  PROVE  Sound(new, M) /\ HeapFull(new) /\ DecisionLevel(new) = 0 /\ new.confl = st.confl
<1> DEFINE cr == NextRef(st)
           z  == [Alloc(st, c) EXCEPT !.unaryWatchedClauses = @ \cup {cr}]
<1>1. Len(c) \in Nat /\ Len(c) >= 2
  BY LenProperties
<1>2. c \in Clauses
  BY <1>1 DEF Clauses
<1>3. cr = NextRef(st) /\ Allocated(st, z, c, cr)
  BY DEF Allocated
<1>4. new = IF Len(c) = 2 THEN AttachClause(z, cr) ELSE AttachClausePurgatory(z, cr)
  BY DEF Imported
<1>5. cr \in z.unaryWatchedClauses
  <2>1. st \in Solver
    BY CoreFacts DEF Sound
  <2> QED BY <2>1 DEF Alloc, Solver
<1> HIDE DEF cr, z
<1>6. /\ Core(z, M) /\ cr \in Live(z) /\ cr \notin z.oneWatched /\ z.db[cr] = c
      /\ SameTrail(st, z) /\ z.confl = st.confl /\ z.qhead = st.qhead
      /\ z.decision = st.decision /\ z.orderHeap = st.orderHeap
      /\ \A kind \in Kinds : \A l \in Lits : ListedBut(z, cr, kind, l, ListOf(z, kind, l))
  BY <1>2, <1>3, AllocStep
<1>7. Sound(new, M) /\ SameRest(z, new)
  <2>1. CASE Len(c) = 2
    <3>1. new = AttachClause(z, cr)
      BY <2>1, <1>4
    <3> QED BY <3>1, <1>6, AttachStep
  <2>2. CASE Len(c) # 2
    <3>1. new = AttachClausePurgatory(z, cr) /\ Len(z.db[cr]) > 2
      <4>0. \A n \in Nat : n >= 2 /\ n # 2 => n > 2
        OBVIOUS
      <4>1. Len(c) > 2
        BY ONLY <1>1, <2>2, <4>0
      <4>2. z.db[cr] = c
        BY <1>6
      <4> QED BY ONLY <4>1, <4>2, <2>2, <1>4
    <3> QED BY <3>1, <1>5, <1>6, AttachPurgatoryStep
  <2> QED BY <2>1, <2>2
<1>8. /\ new.decision = st.decision /\ new.orderHeap = st.orderHeap /\ new.assigns = st.assigns
      /\ new.trailLim = st.trailLim /\ new.confl = st.confl
  BY <1>6, <1>7 DEF SameRest, SameTrail
<1> QED BY <1>7, <1>8, HeapSame DEF DecisionLevel

LEMMA CInvFacts ==
  ASSUME CInv
  PROVE  /\ Given /\ Phase /\ Sound(s, FormulaModels) /\ HeapFull(s)
         /\ s \in Solver /\ Core(s, FormulaModels) /\ DecisionLevel(s) \in Nat
<1>1. Given /\ Phase /\ Sound(s, FormulaModels) /\ HeapFull(s)
  BY DEF CInv, HeapHoldsTheFree, HeapFull
<1>2. Core(s, FormulaModels)
  BY <1>1 DEF Sound
<1>3. s \in Solver /\ OnTrail(s)
  BY <1>2, CoreFacts
<1>4. DecisionLevel(s) \in Nat
  BY <1>3, TrailFacts
<1> QED BY <1>1, <1>2, <1>3, <1>4

\* What a step has to keep.
LEMMA CInvAfter ==
  ASSUME Given', Phase', Sound(s', FormulaModels'), HeapFull(s')
  PROVE  CInv'
BY DEF CInv, HeapHoldsTheFree, HeapFull

LEMMA SameProblem ==
  ASSUME Given, problem' = problem
  PROVE  Given' /\ FormulaModels' = FormulaModels
BY DEF Given, FormulaModels

\* An offer that is taken leaves the others.
LEMMA OfferTaken ==
  ASSUME Given, NEW c \in problem.offers, problem' = [problem EXCEPT !.offers = @ \ {c}]
  PROVE  /\ Given' /\ FormulaModels' = FormulaModels /\ problem'.formula = problem.formula
         /\ c \in Seq(Lits) /\ Len(c) > 0 /\ DistinctVars(c)
         /\ \A m \in FormulaModels : Satisfies(m, ToSet(c))
<1>1. /\ {"formula", "offers", "maxConflicts"} \subseteq DOMAIN problem
      /\ problem.formula \in Seq(SUBSET Lits) /\ problem.offers \subseteq Seq(Lits)
      /\ problem.maxConflicts \in Nat
      /\ \A d \in problem.offers :
           /\ Len(d) > 0 /\ DistinctVars(d)
           /\ \A m \in FormulaModels : Satisfies(m, ToSet(d))
  BY DEF Given
<1>2. /\ DOMAIN problem' = DOMAIN problem
      /\ problem'.formula = problem.formula /\ problem'.offers = problem.offers \ {c}
      /\ problem'.maxConflicts = problem.maxConflicts
  BY <1>1
<1>3. FormulaModels' = FormulaModels
  BY <1>2 DEF FormulaModels
<1>4. Given'
  BY <1>1, <1>2, <1>3 DEF Given
<1> QED BY <1>1, <1>2, <1>3, <1>4

LEMMA AddClauseKeeps == CInv /\ AddClause => CInv'
<1> SUFFICES ASSUME CInv, AddClause PROVE CInv'
  OBVIOUS
<1>1. /\ Given /\ Phase /\ Sound(s, FormulaModels) /\ HeapFull(s)
      /\ s \in Solver /\ Core(s, FormulaModels) /\ DecisionLevel(s) \in Nat
  BY CInvFacts
<1> DEFINE c == problem.formula[added + 1]
           r == WithClause(s, c)
<1>2. /\ pc = "add" /\ added < Len(problem.formula)
      /\ s' = r.s /\ pc' = (IF r.ok THEN "add" ELSE "unsat") /\ added' = added + 1 /\ problem' = problem
  BY DEF AddClause
<1>3. Given' /\ FormulaModels' = FormulaModels
  BY <1>1, <1>2, SameProblem
<1>4. added \in 0 .. Len(problem.formula) /\ DecisionLevel(s) = 0 /\ s.qhead = Len(s.trail) /\ s.confl = NoRef
  BY <1>1, <1>2 DEF Phase
<1>5. problem.formula \in Seq(SUBSET Lits) /\ Len(problem.formula) \in Nat
  BY <1>1 DEF Given
<1>6. added + 1 \in DOMAIN problem.formula /\ added' \in 0 .. Len(problem.formula)
  BY <1>2, <1>4, <1>5
<1>7. c \in SUBSET Lits /\ c \in ToSet(problem.formula)
  BY <1>5, <1>6 DEF ToSet
<1>8. \A m \in FormulaModels : Satisfies(m, c)
  BY <1>7 DEF FormulaModels, ModelsOf
<1>9. r = WithClause(s, c)
  OBVIOUS
<1> HIDE DEF c, r
<1>10. Taking(s, FormulaModels)
  BY <1>1, <1>4 DEF Taking
<1>11. /\ Taking(r.s, FormulaModels)
       /\ IF r.ok THEN r.s.confl = NoRef /\ r.s.qhead = Len(r.s.trail) ELSE FormulaModels = {}
  BY ONLY <1>4, <1>7, <1>8, <1>9, <1>10, WithClauseStep
<1>12. Sound(s', FormulaModels') /\ HeapFull(s') /\ DecisionLevel(s') = 0
  BY <1>2, <1>3, <1>11 DEF Taking
<1>13. Phase'
  <2>1. CASE r.ok
    <3>1. pc' = "add" /\ s'.confl = NoRef /\ s'.qhead = Len(s'.trail)
      BY <2>1, <1>2, <1>11
    <3> QED BY <3>1, <1>2, <1>6, <1>12 DEF Phase, Deciding
  <2>2. CASE ~r.ok
    <3>1. pc' = "unsat" /\ FormulaModels' = {}
      BY <2>2, <1>2, <1>3, <1>11
    <3> QED BY <3>1, <1>2, <1>6, <1>12 DEF Phase, Deciding
  <2> QED BY <2>1, <2>2
<1> QED BY <1>3, <1>12, <1>13, CInvAfter

LEMMA SolveKeeps == CInv /\ Solve => CInv'
<1> SUFFICES ASSUME CInv, Solve PROVE CInv'
  OBVIOUS
<1>1. /\ Given /\ Phase /\ Sound(s, FormulaModels) /\ HeapFull(s)
      /\ s \in Solver /\ Core(s, FormulaModels) /\ DecisionLevel(s) \in Nat
  BY CInvFacts
<1>2. pc = "add" /\ pc' = "search" /\ s' = s /\ problem' = problem /\ added' = added
  BY DEF Solve
<1>3. Given' /\ FormulaModels' = FormulaModels
  BY <1>1, <1>2, SameProblem
<1>4. Phase'
  BY <1>1, <1>2, <1>3 DEF Phase, Deciding
<1> QED BY <1>1, <1>2, <1>3, <1>4, CInvAfter

LEMMA ImportUnaryKeeps ==
  ASSUME CInv, NEW c \in problem.offers, ImportUnary(c)
  PROVE  CInv'
<1>1. /\ Given /\ Phase /\ Sound(s, FormulaModels) /\ HeapFull(s)
      /\ s \in Solver /\ Core(s, FormulaModels) /\ DecisionLevel(s) \in Nat
  BY CInvFacts
<1>2. /\ pc = "search" /\ DecisionLevel(s) = 0 /\ Len(c) = 1
      /\ problem' = [problem EXCEPT !.offers = @ \ {c}]
      /\ s' = (IF Value(s, c[1]) = Undef THEN UncheckedEnqueue(s, c[1], NoRef) ELSE s)
      /\ pc' = pc /\ added' = added
  BY DEF ImportUnary
<1>3. /\ Given' /\ FormulaModels' = FormulaModels /\ problem'.formula = problem.formula
      /\ c \in Seq(Lits) /\ Len(c) > 0 /\ DistinctVars(c)
      /\ \A m \in FormulaModels : Satisfies(m, ToSet(c))
  BY <1>1, <1>2, OfferTaken
<1>4. s.confl = NoRef
  BY <1>1, <1>2 DEF Phase
<1>5. c[1] \in Lits /\ ToSet(c) = {c[1]}
  BY <1>2, <1>3 DEF ToSet
<1>6. Sound(s', FormulaModels) /\ HeapFull(s') /\ s'.confl = NoRef /\ DecisionLevel(s') = 0
  <2>1. CASE Value(s, c[1]) = Undef
    <3>1. s' = UncheckedEnqueue(s, c[1], NoRef)
      BY <2>1, <1>2
    <3>2. \A m \in FormulaModels : Satisfies(m, {c[1]})
      BY <1>3, <1>5
    <3>3. Sound(s', FormulaModels) /\ HeapFull(s') /\ s'.confl = s.confl /\ s'.trailLim = s.trailLim
      BY <1>1, <1>2, <1>5, <2>1, <3>1, <3>2, EnqueueFree
    <3> QED BY <3>3, <1>2, <1>4 DEF DecisionLevel
  <2>2. CASE Value(s, c[1]) # Undef
    BY <2>2, <1>1, <1>2, <1>4
  <2> QED BY <2>1, <2>2
<1>7. Phase'
  BY <1>1, <1>2, <1>3, <1>6 DEF Phase, Deciding
<1> QED BY <1>3, <1>6, <1>7, CInvAfter

LEMMA ImportClauseKeeps ==
  ASSUME CInv, NEW c \in problem.offers, ImportClause(c)
  PROVE  CInv'
<1>1. /\ Given /\ Phase /\ Sound(s, FormulaModels) /\ HeapFull(s)
      /\ s \in Solver /\ Core(s, FormulaModels) /\ DecisionLevel(s) \in Nat
  BY CInvFacts
<1>2. /\ pc \in {"search", "import"} /\ DecisionLevel(s) = 0 /\ Len(c) > 1
      /\ problem' = [problem EXCEPT !.offers = @ \ {c}]
      /\ s' = Imported(s, c) /\ pc' = "import" /\ added' = added
  BY DEF ImportClause, Imported
<1>3. /\ Given' /\ FormulaModels' = FormulaModels /\ problem'.formula = problem.formula
      /\ c \in Seq(Lits) /\ Len(c) > 0 /\ DistinctVars(c)
      /\ \A m \in FormulaModels : Satisfies(m, ToSet(c))
  BY <1>1, <1>2, OfferTaken
<1>4. s.confl = NoRef
  BY <1>1, <1>2 DEF Phase
<1>5. Sound(s', FormulaModels) /\ HeapFull(s') /\ DecisionLevel(s') = 0 /\ s'.confl = s.confl
  BY <1>1, <1>2, <1>3, ImportStep
<1>6. Phase'
  BY <1>1, <1>2, <1>3, <1>4, <1>5 DEF Phase, Deciding
<1> QED BY <1>3, <1>5, <1>6, CInvAfter

LEMMA PropagateKeeps == CInv /\ Propagate => CInv'
<1> SUFFICES ASSUME CInv, Propagate PROVE CInv'
  OBVIOUS
<1>1. /\ Given /\ Phase /\ Sound(s, FormulaModels) /\ HeapFull(s)
      /\ s \in Solver /\ Core(s, FormulaModels) /\ DecisionLevel(s) \in Nat
  BY CInvFacts
<1>2. /\ pc \in {"search", "import"} /\ s' = Propagated(s)
      /\ pc' = (IF s'.confl # NoRef THEN "conflict" ELSE "noConflict")
      /\ problem' = problem /\ added' = added
  BY DEF Propagate
<1>3. Given' /\ FormulaModels' = FormulaModels
  BY <1>1, <1>2, SameProblem
<1>4. s.confl = NoRef /\ added \in 0 .. Len(problem.formula)
  BY <1>1, <1>2 DEF Phase
<1>5. /\ Sound(s', FormulaModels) /\ Extends(s, s')
      /\ IF s'.confl = NoRef THEN s'.qhead = Len(s'.trail) ELSE Conflicting(s')
  BY <1>1, <1>2, <1>4, PropagatedStep
<1>6. HeapFull(s')
  BY <1>1, <1>5, HeapExtends
<1>7. Phase'
  <2>1. CASE s'.confl = NoRef
    <3>1. pc' = "noConflict" /\ s'.qhead = Len(s'.trail)
      BY <2>1, <1>2, <1>5
    <3> QED BY <2>1, <3>1, <1>2, <1>4 DEF Phase, Deciding
  <2>2. CASE s'.confl # NoRef
    <3>1. pc' = "conflict" /\ Conflicting(s')
      BY <2>2, <1>2, <1>5
    <3> QED BY <3>1, <1>2, <1>4 DEF Phase, Deciding, Conflicting
  <2> QED BY <2>1, <2>2
<1> QED BY <1>3, <1>5, <1>6, <1>7, CInvAfter

LEMMA ContradictionKeeps == CInv /\ Contradiction => CInv'
<1> SUFFICES ASSUME CInv, Contradiction PROVE CInv'
  OBVIOUS
<1>1. /\ Given /\ Phase /\ Sound(s, FormulaModels) /\ HeapFull(s)
      /\ s \in Solver /\ Core(s, FormulaModels) /\ DecisionLevel(s) \in Nat
  BY CInvFacts
<1>2. /\ pc = "conflict" /\ DecisionLevel(s) = 0 /\ pc' = "unsat"
      /\ problem' = problem /\ added' = added /\ s' = s
  BY DEF Contradiction
<1>3. Given' /\ FormulaModels' = FormulaModels
  BY <1>1, <1>2, SameProblem
<1>4. Conflicting(s) /\ added \in 0 .. Len(problem.formula)
  BY <1>1, <1>2 DEF Phase
<1>5. FormulaModels' = {}
  BY <1>1, <1>2, <1>3, <1>4, ConflictAtRoot
<1>6. Phase'
  BY <1>2, <1>4, <1>5 DEF Phase, Deciding
<1> QED BY <1>1, <1>2, <1>3, <1>6, CInvAfter

LEMMA LearnKeeps ==
  CInv /\ Learn => CInv' /\ \E a : /\ a = Analyze(s) /\ Taught(s, FormulaModels, a)
                                   /\ Asserted(s, s', a.learnt, a.btlevel)
<1> SUFFICES ASSUME CInv, Learn
             PROVE  CInv' /\ \E a : /\ a = Analyze(s) /\ Taught(s, FormulaModels, a)
                                    /\ Asserted(s, s', a.learnt, a.btlevel)
  OBVIOUS
<1>1. /\ Given /\ Phase /\ Sound(s, FormulaModels) /\ HeapFull(s)
      /\ s \in Solver /\ Core(s, FormulaModels) /\ DecisionLevel(s) \in Nat
  BY CInvFacts
<1>2. /\ pc = "conflict" /\ DecisionLevel(s) > 0 /\ pc' = "search"
      /\ problem' = problem /\ added' = added
  BY DEF Learn
<1>3. PICK a \in {Analyze(s)} : s' = Learned(s, a.visited, a.learnt, a.btlevel)
  BY DEF Learn, Learned, Visited
<1>4. a = Analyze(s)
  BY <1>3
<1>5. Given' /\ FormulaModels' = FormulaModels
  BY <1>1, <1>2, SameProblem
<1>6. Conflicting(s) /\ added \in 0 .. Len(problem.formula)
  BY <1>1, <1>2 DEF Phase
<1>7. Taught(s, FormulaModels, a)
  BY <1>1, <1>2, <1>4, <1>6, AnalyzeFacts
<1>8. /\ Sound(s', FormulaModels) /\ HeapFull(s') /\ s'.confl = NoRef
      /\ Asserted(s, s', a.learnt, a.btlevel)
  BY <1>1, <1>2, <1>3, <1>7, LearnStep
<1>9. Phase'
  BY <1>2, <1>6, <1>8 DEF Phase, Deciding
<1> QED BY <1>4, <1>5, <1>7, <1>8, <1>9, CInvAfter

LEMMA RestartKeeps == CInv /\ Restart => CInv'
<1> SUFFICES ASSUME CInv, Restart PROVE CInv'
  OBVIOUS
<1>1. /\ Given /\ Phase /\ Sound(s, FormulaModels) /\ HeapFull(s)
      /\ s \in Solver /\ Core(s, FormulaModels) /\ DecisionLevel(s) \in Nat
  BY CInvFacts
<1>2. /\ pc = "noConflict" /\ s' = CancelUntil(s, 0) /\ pc' = "search"
      /\ problem' = problem /\ added' = added
  BY DEF Restart
<1>3. Given' /\ FormulaModels' = FormulaModels
  BY <1>1, <1>2, SameProblem
<1>4. s.confl = NoRef /\ added \in 0 .. Len(problem.formula)
  BY <1>1, <1>2 DEF Phase
<1>5. Sound(s', FormulaModels) /\ HeapFull(s') /\ s'.confl = s.confl
  BY <1>1, <1>2, CancelAll
<1>6. Phase'
  BY <1>2, <1>4, <1>5 DEF Phase, Deciding
<1> QED BY <1>3, <1>5, <1>6, CInvAfter

\* What removing clauses, then compacting memory or not, keeps.
LEMMA ForgetStep ==
  ASSUME NEW st, NEW M, Sound(st, M), HeapFull(st), st.confl = NoRef, NEW refs \in SUBSET Live(st),
         \/ DecisionLevel(st) = 0
         \/ \A cr \in refs : Len(st.db[cr]) > 2 /\ ~Locked(st, cr),
         NEW new, new \in MayCollect(RemoveClauses(st, refs))
  PROVE  /\ Sound(new, M) /\ HeapFull(new)
         /\ new.qhead = st.qhead /\ new.confl = NoRef
         /\ new.trail = st.trail /\ new.trailLim = st.trailLim /\ new.assigns = st.assigns
         /\ new.decision = st.decision
<1> DEFINE z == RemoveClauses(st, refs)
<1>1. z = RemoveClauses(st, refs) /\ new \in MayCollect(z)
  OBVIOUS
<1> HIDE DEF z
<1>2. /\ Sound(z, M) /\ HeapFull(z)
      /\ z.qhead = st.qhead /\ z.confl = st.confl
      /\ z.trail = st.trail /\ z.trailLim = st.trailLim /\ z.assigns = st.assigns
      /\ z.decision = st.decision
  BY <1>1, RemoveClausesStep
<1>3. z.confl = NoRef
  BY <1>2
<1>4. /\ Sound(new, M) /\ HeapFull(new)
      /\ new.qhead = z.qhead /\ new.confl = NoRef
      /\ new.trail = z.trail /\ new.trailLim = z.trailLim /\ new.assigns = z.assigns
      /\ new.decision = z.decision
  BY ONLY <1>1, <1>2, <1>3, GarbageCollectStep
<1> QED BY <1>2, <1>4

LEMMA SimplifyKeeps == CInv /\ Simplify => CInv'
<1> SUFFICES ASSUME CInv, Simplify PROVE CInv'
  OBVIOUS
<1>1. /\ Given /\ Phase /\ Sound(s, FormulaModels) /\ HeapFull(s)
      /\ s \in Solver /\ Core(s, FormulaModels) /\ DecisionLevel(s) \in Nat
  BY CInvFacts
<1> DEFINE refs == SatisfiedClauses(s.clauses \cup s.learnts \cup s.unaryWatchedClauses)
<1>2. /\ pc = "noConflict" /\ DecisionLevel(s) = 0 /\ pc' = "reduce"
      /\ problem' = problem /\ added' = added
      /\ \E st \in MayCollect(RemoveClauses(s, refs)) : s' = [st EXCEPT !.orderHeap = OrderHeap(st)]
  BY DEF Simplify
<1>3. PICK st \in MayCollect(RemoveClauses(s, refs)) : s' = WithHeap(st, OrderHeap(st))
  BY <1>2 DEF WithHeap
<1>4. Given' /\ FormulaModels' = FormulaModels
  BY <1>1, <1>2, SameProblem
<1>5. s.confl = NoRef /\ added \in 0 .. Len(problem.formula) /\ s.qhead = Len(s.trail)
  BY <1>1, <1>2 DEF Phase, Deciding
<1>6. refs \in SUBSET Live(s)
  <2>1. Stored(s)
    BY <1>1, CoreFacts
  <2> QED BY <2>1 DEF Stored, SatisfiedClauses
<1> HIDE DEF refs
<1>7. /\ Sound(st, FormulaModels) /\ HeapFull(st)
      /\ st.qhead = s.qhead /\ st.confl = NoRef
      /\ st.trail = s.trail /\ st.trailLim = s.trailLim /\ st.assigns = s.assigns
      /\ st.decision = s.decision
  BY <1>1, <1>2, <1>3, <1>5, <1>6, ForgetStep
<1>8. OrderHeap(st) \in SUBSET Vars
  BY <1>1, <1>7 DEF OrderHeap, Solver
<1>9. /\ Sound(s', FormulaModels) /\ SameTrail(st, s')
      /\ s'.orderHeap = OrderHeap(st) /\ s'.decision = st.decision
      /\ s'.confl = st.confl /\ s'.qhead = st.qhead
  BY <1>3, <1>7, <1>8, WithHeapStep
<1>10. HeapFull(s')
  BY <1>9 DEF HeapFull, OrderHeap, SameTrail
<1>11. s'.confl = NoRef /\ s'.qhead = Len(s'.trail)
  BY <1>5, <1>7, <1>9 DEF SameTrail
<1>12. Phase'
  BY <1>2, <1>5, <1>11 DEF Phase, Deciding
<1> QED BY <1>4, <1>9, <1>10, <1>12, CInvAfter

LEMMA ReduceDBKeeps == CInv /\ ReduceDB => CInv'
<1> SUFFICES ASSUME CInv, ReduceDB PROVE CInv'
  OBVIOUS
<1>1. /\ Given /\ Phase /\ Sound(s, FormulaModels) /\ HeapFull(s)
      /\ s \in Solver /\ Core(s, FormulaModels) /\ DecisionLevel(s) \in Nat
  BY CInvFacts
<1>2. /\ pc \in {"noConflict", "reduce"} /\ pc' = "decide"
      /\ problem' = problem /\ added' = added
  BY DEF ReduceDB
<1>3. PICK gone \in SUBSET Removable(s.learnts \cup s.unaryWatchedClauses) :
        s' \in MayCollect(RemoveClauses(s, gone))
  BY DEF ReduceDB
<1>4. Given' /\ FormulaModels' = FormulaModels
  BY <1>1, <1>2, SameProblem
<1>5. s.confl = NoRef /\ added \in 0 .. Len(problem.formula) /\ s.qhead = Len(s.trail)
  BY <1>1, <1>2 DEF Phase, Deciding
<1>6. gone \in SUBSET Live(s) /\ \A cr \in gone : Len(s.db[cr]) > 2 /\ ~Locked(s, cr)
  <2>1. Stored(s)
    BY <1>1, CoreFacts
  <2> QED BY <2>1, <1>3 DEF Stored, Removable
<1>7. /\ Sound(s', FormulaModels) /\ HeapFull(s')
      /\ s'.qhead = s.qhead /\ s'.confl = NoRef
      /\ s'.trail = s.trail /\ s'.trailLim = s.trailLim /\ s'.assigns = s.assigns
      /\ s'.decision = s.decision
  BY <1>1, <1>3, <1>5, <1>6, ForgetStep
<1>8. Phase'
  BY <1>2, <1>5, <1>7 DEF Phase, Deciding
<1> QED BY <1>4, <1>7, <1>8, CInvAfter

LEMMA DecideKeeps == CInv /\ Decide => CInv'
<1> SUFFICES ASSUME CInv, Decide PROVE CInv'
  OBVIOUS
<1>1. /\ Given /\ Phase /\ Sound(s, FormulaModels) /\ HeapFull(s)
      /\ s \in Solver /\ Core(s, FormulaModels) /\ DecisionLevel(s) \in Nat
  BY CInvFacts
<1>2. Deciding /\ pc' = "search" /\ problem' = problem /\ added' = added
  BY DEF Decide
<1>3. PICK next \in Free, taken \in SUBSET (s.orderHeap \ Free) :
        s' = UncheckedEnqueue(NewDecisionLevel([s EXCEPT !.orderHeap = @ \ (taken \cup {next})]),
                              IF s.polarity[next] = True THEN next ELSE -next, NoRef)
  BY DEF Decide
<1> DEFINE H == s.orderHeap \ (taken \cup {next})
           p == IF s.polarity[next] = True THEN next ELSE -next
<1>4. s' = UncheckedEnqueue(NewDecisionLevel(WithHeap(s, H)), p, NoRef)
  BY <1>3 DEF WithHeap
<1>5. Given' /\ FormulaModels' = FormulaModels
  BY <1>1, <1>2, SameProblem
<1>6. s.confl = NoRef /\ added \in 0 .. Len(problem.formula) /\ s.qhead = Len(s.trail)
  BY <1>1, <1>2 DEF Phase, Deciding
<1>7. /\ next \in Vars /\ next \in s.orderHeap /\ s.assigns[next] = Undef
      /\ s.orderHeap \subseteq Vars /\ s.decision \subseteq Vars /\ s.assigns \in [Vars -> Values]
  BY <1>1, <1>3 DEF Free, Solver
<1>8. p \in Lits /\ Var(p) = next
  <2>1. next \in Lits /\ -next \in Lits /\ next > 0 /\ next \in Int
    BY <1>7, NbVarsAssumption DEF Vars, Lits
  <2> QED BY <2>1, LitFacts DEF Var
<1>9. H \in SUBSET Vars
  BY <1>7
<1>10. \A v \in s.decision : s.assigns[v] = Undef /\ v # Var(p) => v \in H
  <2> SUFFICES ASSUME NEW v \in s.decision, s.assigns[v] = Undef, v # next PROVE v \in H
    BY <1>8
  <2>1. v \in s.orderHeap
    BY <1>1 DEF HeapFull
  <2>2. v \in Free
    BY <2>1 DEF Free
  <2>3. v \notin taken
    BY <2>2, <1>3
  <2> QED BY <2>1, <2>3
<1> HIDE DEF H, p
<1>11. Value(s, p) = Undef
  BY <1>7, <1>8, ValueFacts
<1>12. Sound(s', FormulaModels) /\ HeapFull(s') /\ s'.confl = NoRef
  BY <1>1, <1>4, <1>6, <1>8, <1>9, <1>10, <1>11, DecideStep
<1>13. Phase'
  BY <1>2, <1>6, <1>12 DEF Phase, Deciding
<1> QED BY <1>5, <1>12, <1>13, CInvAfter

LEMMA ModelFoundKeeps == CInv /\ ModelFound => CInv'
<1> SUFFICES ASSUME CInv, ModelFound PROVE CInv'
  OBVIOUS
<1>1. /\ Given /\ Phase /\ Sound(s, FormulaModels) /\ HeapFull(s)
      /\ s \in Solver /\ Core(s, FormulaModels) /\ DecisionLevel(s) \in Nat
  BY CInvFacts
<1> DEFINE z == WithHeap(s, {})
<1>2. /\ Deciding /\ Free = {} /\ pc' = "sat" /\ problem' = problem /\ added' = added
      /\ z = WithHeap(s, {}) /\ s' = CancelUntil(z, 0)
  BY DEF ModelFound, WithHeap
<1> HIDE DEF z
<1>3. Given' /\ FormulaModels' = FormulaModels
  BY <1>1, <1>2, SameProblem
<1>4. s.confl = NoRef /\ added \in 0 .. Len(problem.formula)
  BY <1>1, <1>2 DEF Phase, Deciding
<1>5. /\ Sound(z, FormulaModels) /\ SameTrail(s, z)
      /\ z.orderHeap = {} /\ z.decision = s.decision
      /\ z.confl = s.confl
  BY <1>1, <1>2, WithHeapStep
<1>6. HeapFull(z)
  BY <1>1, <1>2, <1>5 DEF HeapFull, Free, SameTrail
<1>7. Sound(s', FormulaModels) /\ HeapFull(s') /\ s'.confl = z.confl
  BY <1>2, <1>5, <1>6, CancelAll
<1>8. Phase'
  BY <1>2, <1>4, <1>5, <1>7 DEF Phase, Deciding
<1> QED BY <1>3, <1>7, <1>8, CInvAfter

-----------------------------------------------------------------------------
(* The theorems: nothing is done that is wrong.                            *)

LEMMA CInvInit == Init => CInv
<1> SUFFICES ASSUME Init PROVE CInv
  OBVIOUS
<1>1. problem \in Problems /\ pc = "add" /\ added = 0 /\ s = EmptySolver
  BY DEF Init
<1>2. Given
  BY <1>1, CdclAssumption DEF Given, FormulaModels, DistinctVars
<1>3. /\ Sound(s, FormulaModels) /\ HeapFull(s) /\ DecisionLevel(s) = 0
      /\ s.confl = NoRef /\ s.qhead = Len(s.trail)
  BY <1>1, InitStep
<1>4. 0 \in 0 .. Len(problem.formula)
  BY <1>2 DEF Given
<1>5. Phase
  BY <1>1, <1>3, <1>4 DEF Phase
<1> QED BY <1>2, <1>3, <1>5 DEF CInv, HeapHoldsTheFree, HeapFull

LEMMA CInvStep == CInv /\ [Next]_vars => CInv'
<1> SUFFICES ASSUME CInv, [Next]_vars PROVE CInv'
  OBVIOUS
<1>1. CASE AddClause
  BY <1>1, AddClauseKeeps
<1>2. CASE Solve
  BY <1>2, SolveKeeps
<1>3. CASE \E c \in problem.offers : ImportUnary(c) \/ ImportClause(c)
  BY <1>3, ImportUnaryKeeps, ImportClauseKeeps
<1>4. CASE Propagate
  BY <1>4, PropagateKeeps
<1>5. CASE Contradiction
  BY <1>5, ContradictionKeeps
<1>6. CASE Learn
  BY <1>6, LearnKeeps
<1>7. CASE Restart
  BY <1>7, RestartKeeps
<1>8. CASE Simplify
  BY <1>8, SimplifyKeeps
<1>9. CASE ReduceDB
  BY <1>9, ReduceDBKeeps
<1>10. CASE Decide
  BY <1>10, DecideKeeps
<1>11. CASE ModelFound
  BY <1>11, ModelFoundKeeps
<1>12. CASE UNCHANGED vars
  <2>1. problem' = problem /\ pc' = pc /\ added' = added /\ s' = s
    BY <1>12 DEF vars
  <2>2. /\ Given /\ Phase /\ Sound(s, FormulaModels) /\ HeapFull(s)
        /\ Given' /\ FormulaModels' = FormulaModels
    BY <2>1, CInvFacts, SameProblem
  <2>3. Phase'
    BY <2>1, <2>2 DEF Phase, Deciding
  <2> QED BY <2>1, <2>2, <2>3, CInvAfter
<1> QED BY <1>1, <1>2, <1>3, <1>4, <1>5, <1>6, <1>7, <1>8, <1>9, <1>10, <1>11, <1>12 DEF Next

LEMMA Searching == Spec => []CInv
BY CInvInit, CInvStep, PTL DEF Spec

\* The fields keep their types; memory holds the clauses of the three lists and
\* those removed, the trail the literals that are true.
THEOREM CdclTypes == Spec => []TypeOK
<1>1. CInv => TypeOK
  <2> SUFFICES ASSUME CInv PROVE TypeOK
    OBVIOUS
  <2>1. Phase /\ s \in Solver /\ Core(s, FormulaModels)
    BY CInvFacts
  <2>2. Stored(s) /\ OnTrail(s) /\ Pending(s)
    BY <2>1, CoreFacts
  <2>3. \A cr \in DOMAIN s.db : Len(s.db[cr]) >= 2 /\ s.db[cr] \in Seq(Lits)
    BY <2>1, ClauseFacts
  <2>4. s.assigns \in [Vars -> {True, Undef, False}] /\ s.qhead \in Nat /\ Len(s.trail) \in Nat
    BY <2>1 DEF Solver, Values
  <2>5. ToSet(s.trail) = {l \in Lits : Value(s, l) = True}
    BY <2>1, <2>2, TrailFacts DEF ToSet
  <2>6. s.qhead \in 0 .. Len(s.trail)
    BY <2>2, <2>4 DEF Pending
  <2> QED BY <2>1, <2>2, <2>3, <2>4, <2>5, <2>6 DEF TypeOK, Stored, Phase
<1> QED BY <1>1, Searching, PTL

\* A clause is in the lists of the literals it watches, once, and in no other;
\* what watches a removed clause is in a list still to be cleaned.
THEOREM EveryWatchIsListed == Spec => []WatchersMatch
<1>1. CInv => WatchersMatch
  <2> SUFFICES ASSUME CInv PROVE WatchersMatch
    OBVIOUS
  <2>1. Watching(s)
    BY CInvFacts DEF Sound
  <2>2. ASSUME NEW kind \in Kinds, NEW l \in Lits, NEW ws, ws = ListOf(s, kind, l)
        PROVE  /\ \A i, j \in DOMAIN ws : i # j => ws[i].cref # ws[j].cref
               /\ {w.cref : w \in ToSet(ws)} \ s.deleted = {cr \in Live(s) : <<kind, l>> \in Lists(s, cr)}
               /\ {w.cref : w \in ToSet(ws)} \cap s.deleted # {} => <<kind, l>> \in s.dirty
               /\ \A w \in ToSet(ws) : w.blocker \in ToSet(s.db[w.cref])
    BY <2>1, <2>2 DEF Watching, WellListed, Once, Crefs, Attached
  <2> QED BY <2>2 DEF WatchersMatch, Kinds
<1> QED BY <1>1, Searching, PTL

\* The reason of a literal is a clause in memory that has it first, and whose
\* other literals were false before it.
THEOREM ReasonsForce == Spec => []ReasonsSupport
<1>1. CInv => ReasonsSupport
  <2> SUFFICES ASSUME CInv, NEW k \in DOMAIN s.trail, NEW l, l = s.trail[k], NEW r, r = s.reason[Var(l)], r # NoRef
               PROVE  /\ r \in IF Level(s, l) > 0 THEN Live(s) ELSE DOMAIN s.db
                      /\ TrueFirst(s, r)[1] = l
                      /\ \A q \in ToSet(Tail(TrueFirst(s, r))) : -q \in ToSet(SubSeq(s.trail, 1, k - 1))
    BY DEF ReasonsSupport
  <2>1. s \in Solver /\ Core(s, FormulaModels)
    BY CInvFacts
  <2>2. OnTrail(s) /\ Reasoned(s)
    BY <2>1, CoreFacts
  <2>3. IsReason(s, k, l, r)
    BY DEF IsReason
  <2>4. /\ r \in DOMAIN s.db /\ TrueFirst(s, r)[1] = l
        /\ \A i \in DOMAIN Others(s, r) : FalseBy(s, Others(s, r)[i], k - 1)
    BY <2>1, <2>3, ReasonOthers
  <2>5. r \in IF Level(s, l) > 0 THEN Live(s) ELSE DOMAIN s.db
    BY <2>2, <2>4 DEF Reasoned, Live
  <2>6. ASSUME NEW q \in ToSet(Tail(TrueFirst(s, r))) PROVE -q \in ToSet(SubSeq(s.trail, 1, k - 1))
    <3>1. PICK h \in DOMAIN Others(s, r) : Others(s, r)[h] = q
      BY DEF Others, ToSet
    <3>2. PICK j \in 1 .. k - 1 : s.trail[j] = -q
      BY <2>4, <3>1 DEF FalseBy
    <3>3. /\ DOMAIN s.trail = 1 .. Len(s.trail) /\ Len(s.trail) \in Nat
          /\ \A i \in DOMAIN s.trail : s.trail[i] \in Lits
      BY <2>1, <2>2, TrailFacts
    <3>4. k \in Nat /\ k >= 1 /\ 1 \in Int /\ k - 1 \in Int /\ \A i \in 1 .. k - 1 : s.trail[i] \in Lits
      BY <3>3
    <3> DEFINE t == SubSeq(s.trail, 1, k - 1)
    <3>5. /\ t \in Seq(Lits) /\ Len(t) = (IF 1 <= k - 1 THEN (k - 1) - 1 + 1 ELSE 0)
          /\ \A i \in 1 .. (k - 1) - 1 + 1 : t[i] = s.trail[1 + i - 1]
      BY <3>4, SubSeqProperties
    <3>6. DOMAIN t = 1 .. Len(t)
      BY <3>5
    <3> HIDE DEF t
    <3>7. j \in DOMAIN t /\ t[j] = s.trail[j]
      BY <3>4, <3>5, <3>6
    <3> QED BY <3>2, <3>7 DEF t, ToSet
  <2> QED BY <2>4, <2>5, <2>6
<1> QED BY <1>1, Searching, PTL

\* Whatever is learnt or assigned without a decision follows from the formula.
THEOREM NothingButConsequences == Spec => []OnlyConsequences
<1>1. CInv => OnlyConsequences
  <2> SUFFICES ASSUME CInv, NEW m \in FormulaModels
               PROVE  /\ \A cr \in s.learnts : Satisfies(m, ToSet(s.db[cr]))
                      /\ \A l \in ToSet(s.trail) : Level(s, l) = 0 => Satisfies(m, {l})
    BY DEF OnlyConsequences
  <2>1. Core(s, FormulaModels)
    BY CInvFacts
  <2>2. Stored(s) /\ Implied(s, FormulaModels)
    BY <2>1, CoreFacts
  <2>3. s.learnts \subseteq DOMAIN s.db
    BY <2>2 DEF Stored, Live
  <2> QED BY <2>2, <2>3 DEF Implied, ToSet
<1> QED BY <1>1, Searching, PTL

\* The solver answers that there is no model only when there is none.
THEOREM UnsatIsRight == Spec => [](pc = "unsat" => FormulaModels = {})
<1>1. CInv => (pc = "unsat" => FormulaModels = {})
  BY DEF CInv, Phase
<1> QED BY <1>1, Searching, PTL

\* No free variable is missing from the heap.
THEOREM FreeVariablesAreHeld == Spec => []HeapHoldsTheFree
<1>1. CInv => HeapHoldsTheFree
  BY DEF CInv
<1> QED BY <1>1, Searching, PTL

\* After the backjump the clause learnt forces its first literal.
THEOREM LearningAsserts == Spec => LearntAsserts
<1> DEFINE Asserts == Learn => /\ \A k \in 2 .. Len(Learnt) : Value(s', Learnt[k]) = False
                               /\ Len(Learnt) > 1 => Level(s', Learnt[2]) = DecisionLevel(s')
                               /\ Len(Learnt) = 1 => DecisionLevel(s') = 0
<1>1. CInv => Asserts
  <2> SUFFICES ASSUME CInv, Learn
               PROVE  /\ \A k \in 2 .. Len(Learnt) : Value(s', Learnt[k]) = False
                      /\ Len(Learnt) > 1 => Level(s', Learnt[2]) = DecisionLevel(s')
                      /\ Len(Learnt) = 1 => DecisionLevel(s') = 0
    OBVIOUS
  <2>1. PICK a : /\ a = Analyze(s) /\ Taught(s, FormulaModels, a)
                 /\ Asserted(s, s', a.learnt, a.btlevel)
    BY LearnKeeps
  <2> DEFINE c == a.learnt
             b == a.btlevel
  <2>2. /\ Len(s'.trail) > 0 /\ Last(s'.trail) = c[1] /\ DecisionLevel(s') = b
        /\ \A k \in 2 .. Len(c) : Value(s', c[k]) = False
        /\ Len(c) > 1 => Level(s', c[2]) = b
        /\ IF Len(c) = 1 THEN s'.reason[Var(c[1])] = NoRef
                         ELSE s'.reason[Var(c[1])] # NoRef /\ s'.db[s'.reason[Var(c[1])]] = c
    BY <2>1 DEF Asserted
  <2>3. Len(c) \in Nat \ {0} /\ (Len(c) = 1 => b = 0)
    BY <2>1 DEF Taught
  <2> HIDE DEF c, b
  <2>4. CASE Len(c) = 1
    <3>1. Learnt = <<c[1]>>
      BY <2>2, <2>4 DEF Learnt
    <3>2. Len(Learnt) = 1
      BY <3>1
    <3>3. DecisionLevel(s') = 0
      BY <2>2, <2>3, <2>4
    <3> HIDE DEF Asserts
    <3> QED BY ONLY <3>2, <3>3
  <2>5. CASE Len(c) # 1
    <3>1. Learnt = c
      BY <2>2, <2>5 DEF Learnt
    <3> QED BY ONLY <2>2, <2>5, <3>1
  <2> QED BY <2>4, <2>5
<1>2. [][Asserts]_vars => LearntAsserts
  BY DEF LearntAsserts
<1> QED BY <1>1, Searching, PTL DEF Spec, LearntAsserts

-----------------------------------------------------------------------------
(* What propagation leaves.                                                *)

\* The negation of q was propagated.
Heard(st, q) == \E k \in 1 .. st.qhead : st.trail[k] = -q

\* The clause was true by the time of level d.
Backed(st, cr, d) == \E t \in ToSet(st.db[cr]) : Value(st, t) = True /\ Level(st, t) <= d

\* If literal q of the clause is false, another one was true by then; in a
\* conflict, what became false at the last level may not be dealt with.
Settled(st, cr, q) ==
  \/ ~Heard(st, q)
  \/ Backed(st, cr, Level(st, q))
  \/ st.confl # NoRef /\ (cr = st.confl \/ Level(st, q) = DecisionLevel(st))

\* The clauses attached by two watches, the imported ones that were promoted
\* included.
TwoWatched(st) ==
  st.clauses \cup st.learnts
  \cup {cr \in st.unaryWatchedClauses \ st.oneWatched : Len(st.db[cr]) > 2}

\* Both watched literals of every clause are settled, but for the clauses of X
\* that watch p, which is being propagated.
CompleteBut(st, p, X) ==
  \A cr \in TwoWatched(st) : \A i \in {1, 2} :
    (st.db[cr][i] = -p /\ cr \in X) \/ Settled(st, cr, st.db[cr][i])

Complete(st) == CompleteBut(st, NoLit, {})

\* Clauses of the problem, learnt and imported ones are kept apart, and only
\* imported ones are in the purgatory.
Apart(st) ==
  /\ st.clauses \cap (st.learnts \cup st.unaryWatchedClauses) = {}
  /\ (st.clauses \cup st.learnts) \cap st.oneWatched = {}

\* The clause in conflict watches a literal of the last level and one of the
\* highest level of the others, which is the last one too unless the clause
\* was imported.
ConflWatched(st) ==
  LET c == st.db[st.confl]
  IN  /\ st.confl \in TwoWatched(st) =>
           /\ Level(st, c[1]) = DecisionLevel(st)
           /\ \A k \in 2 .. Len(c) : Level(st, c[k]) <= Level(st, c[2])
      /\ st.confl \in st.clauses \cup st.learnts => Level(st, c[2]) = DecisionLevel(st)

Going(st, p, X) ==
  Apart(st) /\ CompleteBut(st, p, X) /\ (st.confl # NoRef => ConflWatched(st))

\* What is assigned stays so.
Holds(st, new) ==
  \A l \in Lits : Value(st, l) # Undef => Value(new, l) = Value(st, l) /\ Level(new, l) = Level(st, l)

\* Literals may have been added to the trail.
Grown(st, new) ==
  Holds(st, new) /\ new.qhead = st.qhead /\ \A k \in 1 .. st.qhead : new.trail[k] = st.trail[k]

\* Clauses keep their literals, what is assigned stays so.
Carries(st, new) ==
  /\ Holds(st, new)
  /\ new.clauses = st.clauses /\ new.learnts = st.learnts
  /\ new.unaryWatchedClauses = st.unaryWatchedClauses /\ new.oneWatched \subseteq st.oneWatched
  /\ DOMAIN new.db = DOMAIN st.db /\ \A cr \in DOMAIN st.db : ToSet(new.db[cr]) = ToSet(st.db[cr])

LEMMA CarriesTransitive ==
  ASSUME NEW a, NEW b, NEW c, Carries(a, b), Carries(b, c)
  PROVE  Carries(a, c)
<1>1. Holds(a, c)
  BY DEF Carries, Holds
<1> QED BY <1>1 DEF Carries

LEMMA CarriesSame ==
  ASSUME NEW st
  PROVE  Carries(st, st) /\ Grown(st, st)
BY DEF Carries, Holds, Grown

\* The first two literals of a clause.
LEMMA WatchedFacts ==
  ASSUME NEW M, NEW st, Core(st, M), NEW cr \in TwoWatched(st)
  PROVE  /\ cr \in Live(st) /\ cr \in DOMAIN st.db /\ cr # NoRef
         /\ ToSet(st.db[cr]) \subseteq Lits
         /\ \A i \in {1, 2} : st.db[cr][i] \in Lits /\ st.db[cr][i] \in ToSet(st.db[cr])
         /\ st.db[cr][1] # st.db[cr][2]
<1>1. st \in Solver /\ Stored(st)
  BY CoreFacts
<1>2. cr \in Live(st) /\ cr \in DOMAIN st.db
  BY <1>1 DEF TwoWatched, Stored, Live
<1>3. /\ st.db[cr] \in Seq(Lits) /\ 1 \in DOMAIN st.db[cr] /\ 2 \in DOMAIN st.db[cr] /\ cr \in Nat \ {0}
      /\ \A i \in DOMAIN st.db[cr] : st.db[cr][i] \in Lits
  BY <1>1, <1>2, ClauseFacts
<1>4. ToSet(st.db[cr]) \subseteq Lits /\ \A x : x \in ToSet(st.db[cr]) <=> \E i \in DOMAIN st.db[cr] : st.db[cr][i] = x
  BY <1>3, SeqFacts
<1>5. st.db[cr][1] # st.db[cr][2]
  BY <1>1, <1>2, <1>3 DEF Stored, DistinctVars
<1> QED BY <1>2, <1>3, <1>4, <1>5 DEF NoRef

\* What was propagated is false.
LEMMA HeardFacts ==
  ASSUME NEW M, NEW st, Core(st, M), NEW q \in Lits
  PROVE  /\ Heard(st, q) => Value(st, q) = False
         /\ Value(st, q) = False => Heard(st, q) \/ Level(st, q) = DecisionLevel(st)
<1>1. /\ st \in Solver /\ OnTrail(st) /\ Pending(st) /\ st.qhead \in Nat
  BY CoreFacts DEF Solver
<1>2. /\ DOMAIN st.trail = 1 .. Len(st.trail) /\ Len(st.trail) \in Nat /\ st.assigns \in [Vars -> Values]
      /\ \A l \in Lits : Value(st, l) = True <=> \E k \in DOMAIN st.trail : st.trail[k] = l
  BY <1>1, TrailFacts
<1>3. /\ -q \in Lits /\ (Value(st, -q) = True <=> Value(st, q) = False)
      /\ Level(st, -q) = Level(st, q)
  BY <1>2, LitFacts, ValueFacts DEF Level
<1>4. st.qhead <= Len(st.trail)
  BY <1>1 DEF Pending
<1>5. ASSUME Heard(st, q) PROVE Value(st, q) = False
  BY <1>1, <1>2, <1>3, <1>4, <1>5 DEF Heard
<1>6. ASSUME Value(st, q) = False, ~Heard(st, q) PROVE Level(st, q) = DecisionLevel(st)
  <2>1. PICK k \in DOMAIN st.trail : st.trail[k] = -q
    BY <1>2, <1>3, <1>6
  <2>2. k \in st.qhead + 1 .. Len(st.trail)
    BY <2>1, <1>1, <1>2, <1>6 DEF Heard
  <2> QED BY <2>1, <2>2, <1>1, <1>3 DEF Pending
<1> QED BY <1>5, <1>6

\* A literal stays settled.
LEMMA SettledGrown ==
  ASSUME NEW M, NEW st, Core(st, M), NEW new, Grown(st, new), NEW q \in Lits,
         NEW cr, Settled(st, cr, q), ToSet(st.db[cr]) \subseteq Lits,
         NEW r, ToSet(new.db[r]) = ToSet(st.db[cr]),
         st.confl # NoRef => new.confl = st.confl /\ r = cr /\ DecisionLevel(new) = DecisionLevel(st)
  PROVE  Settled(new, r, q)
<1> SUFFICES ASSUME Heard(new, q) PROVE Settled(new, r, q)
  BY DEF Settled
<1>1. Heard(st, q)
  BY DEF Heard, Grown
<1>2. Value(st, q) # Undef /\ True # Undef
  BY <1>1, HeardFacts, SignsDiffer
<1>3. Level(new, q) = Level(st, q)
  BY <1>2 DEF Grown, Holds
<1>4. CASE Backed(st, cr, Level(st, q))
  <2>1. PICK t \in ToSet(st.db[cr]) : Value(st, t) = True /\ Level(st, t) <= Level(st, q)
    BY <1>4 DEF Backed
  <2>2. Value(new, t) = True /\ Level(new, t) = Level(st, t)
    BY <2>1, <1>2 DEF Grown, Holds
  <2> QED BY <2>1, <2>2, <1>3 DEF Settled, Backed
<1>5. CASE st.confl # NoRef /\ (cr = st.confl \/ Level(st, q) = DecisionLevel(st))
  BY <1>3, <1>5 DEF Settled
<1> QED BY <1>1, <1>4, <1>5 DEF Settled

\* Memory stays, literals may have been assigned.
LEMMA GoingGrown ==
  ASSUME NEW M, NEW st, Core(st, M), NEW p, NEW X, Going(st, p, X),
         NEW new, Grown(st, new), SameMemory(st, new), new.confl = st.confl,
         st.confl # NoRef => SameTrail(st, new)
  PROVE  Going(new, p, X) /\ Carries(st, new)
<1>1. TwoWatched(new) = TwoWatched(st) /\ new.db = st.db
  BY DEF SameMemory, TwoWatched
<1>2. st.confl # NoRef => DecisionLevel(new) = DecisionLevel(st) /\ \A l : Level(new, l) = Level(st, l)
  BY DEF SameTrail, DecisionLevel, Level
<1>3. ASSUME NEW cr \in TwoWatched(new), NEW i \in {1, 2}
      PROVE  (new.db[cr][i] = -p /\ cr \in X) \/ Settled(new, cr, new.db[cr][i])
  <2> DEFINE q == st.db[cr][i]
  <2>1. q \in Lits /\ ToSet(st.db[cr]) \subseteq Lits
    BY <1>1, <1>3, WatchedFacts
  <2>2. (q = -p /\ cr \in X) \/ Settled(st, cr, q)
    BY <1>1, <1>3 DEF Going, CompleteBut
  <2>3. Settled(st, cr, q) => Settled(new, cr, q)
    BY <1>1, <1>2, <2>1, SettledGrown
  <2> QED BY <1>1, <2>2, <2>3
<1>4. Apart(new)
  BY DEF Apart, SameMemory, Going
<1>5. new.confl # NoRef => ConflWatched(new)
  BY <1>1, <1>2 DEF Going, ConflWatched, SameMemory
<1>6. Carries(st, new)
  BY DEF Carries, Grown, SameMemory
<1> QED BY <1>3, <1>4, <1>5, <1>6 DEF Going, CompleteBut

\* One clause less is left to visit.
LEMMA GoingDrop ==
  ASSUME NEW st, NEW p, NEW X, Going(st, p, X),
         NEW cr, Settled(st, cr, -p) \/ \A i \in {1, 2} : st.db[cr][i] # -p
  PROVE  Going(st, p, X \ {cr})
BY DEF Going, CompleteBut

\* Nothing is left to visit when there is a conflict.
LEMMA GoingHalted ==
  ASSUME NEW M, NEW st, NEW p \in Lits, Level(st, p) = DecisionLevel(st), NEW X, Going(st, p, X),
         st.confl # NoRef, NEW Y
  PROVE  Going(st, p, Y)
<1>1. Level(st, -p) = DecisionLevel(st)
  BY LitFacts DEF Level
<1>2. \A cr : Settled(st, cr, -p)
  BY <1>1 DEF Settled
<1> QED BY <1>2 DEF Going, CompleteBut

\* The literals of a clause change places: one that is watched from now on was
\* watched before or is not false.
LEMMA GoingReordered ==
  ASSUME NEW M, NEW st, Core(st, M), NEW p, NEW X, Going(st, p, X), st.confl = NoRef,
         NEW new, SameRest(st, new), new.oneWatched = st.oneWatched,
         NEW cr, DOMAIN new.db = DOMAIN st.db, \A x \in DOMAIN st.db \ {cr} : new.db[x] = st.db[x],
         ToSet(new.db[cr]) = ToSet(st.db[cr]), Len(new.db[cr]) = Len(st.db[cr]),
         cr \in TwoWatched(st) =>
           \A i \in {1, 2} : \/ new.db[cr][i] \in {st.db[cr][1], st.db[cr][2]}
                             \/ new.db[cr][i] \in Lits /\ Value(st, new.db[cr][i]) # False
  PROVE  Going(new, p, X) /\ Carries(st, new)
<1>1. \A x \in DOMAIN st.db : ToSet(new.db[x]) = ToSet(st.db[x]) /\ Len(new.db[x]) = Len(st.db[x])
  OBVIOUS
<1>2. /\ new.clauses = st.clauses /\ new.learnts = st.learnts /\ new.confl = NoRef
      /\ new.unaryWatchedClauses = st.unaryWatchedClauses /\ Grown(st, new)
  <2>1. Holds(st, new)
    BY SameRestFacts DEF Holds
  <2> QED BY <2>1, SameRestFacts DEF SameRest, Grown
<1>3. TwoWatched(st) \subseteq DOMAIN st.db
  BY WatchedFacts
<1>4. TwoWatched(new) = TwoWatched(st)
  <2>1. st.unaryWatchedClauses \subseteq DOMAIN st.db
    BY CoreFacts DEF Stored, Live
  <2> QED BY <1>1, <1>2, <2>1 DEF TwoWatched
<1>5. ASSUME NEW x \in TwoWatched(new), NEW i \in {1, 2}
      PROVE  (new.db[x][i] = -p /\ x \in X) \/ Settled(new, x, new.db[x][i])
  <2> DEFINE q == new.db[x][i]
  <2>1. x \in DOMAIN st.db /\ ToSet(st.db[x]) \subseteq Lits /\ ToSet(new.db[x]) = ToSet(st.db[x])
    BY <1>1, <1>4, <1>5, WatchedFacts
  <2>2. CASE \E j \in {1, 2} : q = st.db[x][j]
    <3>1. q \in Lits /\ ((q = -p /\ x \in X) \/ Settled(st, x, q))
      BY <1>4, <1>5, <2>2, WatchedFacts DEF Going, CompleteBut
    <3>2. Settled(st, x, q) => Settled(new, x, q)
      BY <1>2, <2>1, <3>1, SettledGrown
    <3> QED BY <3>1, <3>2
  <2>3. CASE q \in Lits /\ Value(st, q) # False
    <3>1. ~Heard(st, q)
      BY <2>3, HeardFacts
    <3>2. ~Heard(new, q)
      BY <1>2, <3>1 DEF Heard, Grown
    <3> QED BY <3>2 DEF Settled
  <2> QED BY <1>4, <1>5, <2>1, <2>2, <2>3
<1>6. Apart(new)
  BY <1>2 DEF Going, Apart
<1>7. Carries(st, new)
  BY <1>1, <1>2 DEF Carries, Grown
<1> QED BY <1>2, <1>5, <1>6, <1>7 DEF Going, CompleteBut

\* Only the conflict is noted, and propagation ends.
Halts(st, new, cr) ==
  /\ SameTrail(st, new) /\ SameMemory(st, new) /\ new.confl = cr
  /\ new.qhead \in {st.qhead, Len(st.trail)}

LEMMA GoingConflict ==
  ASSUME NEW M, NEW st, Core(st, M), NEW p \in Lits, Level(st, p) = DecisionLevel(st),
         NEW X, Going(st, p, X), st.confl = NoRef,
         NEW cr \in DOMAIN st.db, NEW new, Halts(st, new, cr), ConflWatched(new), NEW Y
  PROVE  Going(new, p, Y) /\ Carries(st, new)
<1>1. TwoWatched(new) = TwoWatched(st) /\ new.db = st.db /\ new.confl = cr /\ cr # NoRef
  <2>1. cr # NoRef
    BY CoreFacts, ClauseFacts DEF NoRef
  <2> QED BY <2>1 DEF Halts, SameMemory, TwoWatched
<1>2. /\ DecisionLevel(new) = DecisionLevel(st) /\ new.trail = st.trail
      /\ \A l : Level(new, l) = Level(st, l) /\ Value(new, l) = Value(st, l)
  BY TrailFrame DEF Halts, SameTrail
<1>3. Level(st, -p) = DecisionLevel(st)
  BY LitFacts DEF Level
<1>4. ASSUME NEW x \in TwoWatched(new), NEW i \in {1, 2}
      PROVE  Settled(new, x, new.db[x][i])
  <2> DEFINE q == st.db[x][i]
  <2>1. q \in Lits /\ ((q = -p /\ x \in X) \/ Settled(st, x, q))
    BY <1>1, <1>4, WatchedFacts DEF Going, CompleteBut
  <2>2. CASE Level(st, q) = DecisionLevel(st)
    BY <1>1, <1>2, <2>2 DEF Settled
  <2>3. CASE Level(st, q) # DecisionLevel(st) /\ Settled(st, x, q)
    <3>1. CASE Backed(st, x, Level(st, q))
      BY <1>1, <1>2, <3>1 DEF Settled, Backed
    <3>2. CASE ~Heard(st, q)
      <4>1. Value(st, q) # False
        BY <2>1, <2>3, <3>2, HeardFacts
      <4>2. ~Heard(new, q)
        <5>1. /\ st \in Solver /\ OnTrail(st) /\ Pending(st) /\ st.qhead \in Nat
          BY CoreFacts DEF Solver
        <5>2. /\ DOMAIN st.trail = 1 .. Len(st.trail) /\ Len(st.trail) \in Nat /\ st.assigns \in [Vars -> Values]
              /\ \A l \in Lits : Value(st, l) = True <=> \E k \in DOMAIN st.trail : st.trail[k] = l
          BY <5>1, TrailFacts
        <5>3. new.qhead <= Len(st.trail) /\ new.qhead \in Nat
          BY <5>1, <5>2 DEF Pending, Halts
        <5>4. Value(st, -q) # True /\ -q \in Lits
          BY <2>1, <4>1, <5>2, ValueFacts, LitFacts
        <5> QED BY <1>2, <5>2, <5>3, <5>4 DEF Heard
      <4> QED BY <1>1, <4>2 DEF Settled
    <3> QED BY <2>3, <3>1, <3>2 DEF Settled
  <2> QED BY <1>3, <2>1, <2>2, <2>3
<1>5. Apart(new)
  BY DEF Halts, SameMemory, Going, Apart
<1>6. Carries(st, new)
  BY <1>2 DEF Halts, SameMemory, Carries, Holds
<1> QED BY <1>4, <1>5, <1>6 DEF Going, CompleteBut

\* A clause found false that watches p watches two literals of the last level.
LEMMA ConflBoth ==
  ASSUME NEW M, NEW st, Core(st, M), NEW p \in Lits, Level(st, p) = DecisionLevel(st),
         NEW X, Going(st, p, X), st.confl = NoRef,
         NEW cr \in DOMAIN st.db, \A q \in ToSet(st.db[cr]) : Value(st, q) = False,
         NEW new, Halts(st, new, cr)
  PROVE  ConflWatched(new)
<1> DEFINE c == st.db[cr]
<1>1. TwoWatched(new) = TwoWatched(st) /\ new.db = st.db /\ new.confl = cr
  BY DEF Halts, SameMemory, TwoWatched
<1>2. /\ DecisionLevel(new) = DecisionLevel(st)
      /\ \A l : Level(new, l) = Level(st, l)
  BY TrailFrame DEF Halts
<1>3. Level(st, -p) = DecisionLevel(st)
  BY LitFacts DEF Level
<1>4. ASSUME cr \in TwoWatched(st), NEW i \in {1, 2}
      PROVE  Level(st, c[i]) = DecisionLevel(st)
  <2>1. c[i] \in Lits /\ c[i] \in ToSet(c)
    BY <1>4, WatchedFacts
  <2>2. Value(st, c[i]) = False
    BY <2>1
  <2>3. ~Backed(st, cr, Level(st, c[i]))
    BY SignsDiffer DEF Backed
  <2>4. c[i] = -p \/ ~Heard(st, c[i])
    BY <1>4, <2>3 DEF Going, CompleteBut, Settled
  <2> QED BY <1>3, <2>1, <2>2, <2>4, HeardFacts
<1>5. ASSUME cr \in TwoWatched(st), NEW k \in 2 .. Len(c)
      PROVE  Level(st, c[k]) <= Level(st, c[2])
  <2>1. st \in Solver /\ OnTrail(st) /\ Levelled(st)
    BY CoreFacts
  <2>2. c \in Seq(Lits) /\ c[k] \in Lits /\ c[k] \in ToSet(c)
    BY <2>1, ClauseFacts, SeqFacts
  <2>3. Value(st, c[k]) # Undef
    BY <2>2, SignsDiffer
  <2> QED BY <1>4, <1>5, <2>1, <2>2, <2>3, LevelsBounded
<1>6. st.clauses \cup st.learnts \subseteq TwoWatched(st) /\ new.clauses = st.clauses /\ new.learnts = st.learnts
  BY DEF TwoWatched, Halts, SameMemory
<1> QED BY <1>1, <1>2, <1>4, <1>5, <1>6 DEF ConflWatched


-----------------------------------------------------------------------------
(* The watchers of a literal.                                              *)

\* A clause with a true literal is settled for what becomes false now.
LEMMA BackedNow ==
  ASSUME NEW M, NEW st, Core(st, M), NEW p \in Lits, Level(st, p) = DecisionLevel(st),
         NEW cr, NEW t \in ToSet(st.db[cr]), t \in Lits, Value(st, t) = True
  PROVE  Settled(st, cr, -p)
<1>1. st \in Solver /\ OnTrail(st) /\ Levelled(st)
  BY CoreFacts
<1>2. Level(st, t) <= DecisionLevel(st)
  BY <1>1, LevelsBounded, SignsDiffer
<1>3. Level(st, -p) = DecisionLevel(st)
  BY LitFacts DEF Level
<1> QED BY <1>2, <1>3 DEF Settled, Backed

\* A literal that is free is assigned.
LEMMA GoingEnqueue ==
  ASSUME NEW M, NEW st, Core(st, M), NEW p, NEW X, Going(st, p, X), st.confl = NoRef,
         NEW q \in Lits, Value(st, q) = Undef, NEW from \in Nat,
         NEW new, new = UncheckedEnqueue(st, q, from)
  PROVE  Going(new, p, X) /\ Carries(st, new)
<1>1. st \in Solver /\ OnTrail(st) /\ Pending(st) /\ st.qhead \in Nat
  BY CoreFacts DEF Solver
<1>2. SameMemory(st, new) /\ new.qhead = st.qhead /\ new.confl = st.confl
  BY <1>1, EnqueueFields
<1>3. Holds(st, new) /\ \A k \in DOMAIN st.trail : new.trail[k] = st.trail[k]
  BY <1>1, EnqueueFrame DEF Holds
<1>4. 1 .. st.qhead \subseteq DOMAIN st.trail
  BY <1>1, TrailFacts DEF Pending
<1> QED BY <1>2, <1>3, <1>4, GoingGrown DEF Grown

LEMMA BinaryListed ==
  ASSUME NEW st, NEW M, NEW p, Midway(st, M, "none", p, << >>), NEW w \in ToSet(st.watchesBin[p])
  PROVE  /\ w \in Watchers /\ w.cref \in Nat /\ w.blocker \in Lits
         /\ w.cref \in Live(st) /\ w.cref \in DOMAIN st.db
         /\ <<"binary", p>> \in Lists(st, w.cref)
         /\ ToSet(st.db[w.cref]) = {-p, w.blocker}
<1>1. /\ Core(st, M) /\ st \in Solver /\ OnTrail(st) /\ Stored(st) /\ st.dirty = {} /\ p \in Lits
      /\ Value(st, p) = True /\ Level(st, p) = DecisionLevel(st)
      /\ \A kind \in Kinds : \A l \in Lits : WellListed(st, kind, l, ListOf(st, kind, l))
      /\ st.confl # NoRef => Conflicting(st)
  BY DEF Midway, Core, Full, Kinds
<1>2. Full(st, "none", p, << >>, "binary", p) = st.watchesBin[p] /\ "binary" \in Kinds
  BY KindFacts DEF Full, Kinds
<1> QED BY SMTT(30), <1>1, <1>2, MidwayListed

\* The binary clauses.
LEMMA BinaryGoing ==
  ASSUME NEW st, NEW M, NEW p, Midway(st, M, "none", p, << >>), NEW X, Going(st, p, X),
         NEW w \in ToSet(st.watchesBin[p]),
         NEW new, new = PropagateBinary(st, w)
  PROVE  Going(new, p, X \ {w.cref}) /\ Carries(st, new)
<1> DEFINE c == st.db[w.cref]
           b == w.blocker
<1>1. /\ Core(st, M) /\ st \in Solver /\ OnTrail(st) /\ p \in Lits
      /\ Value(st, p) = True /\ Level(st, p) = DecisionLevel(st) /\ Value(st, -p) = False
  BY MidwayFacts
<1>2. /\ w \in Watchers /\ w.cref \in Nat /\ b \in Lits /\ w.cref \in DOMAIN st.db
      /\ b \in ToSet(c) /\ ToSet(c) = {-p, b}
  <2> HIDE DEF c, b
  <2>1. /\ w \in Watchers /\ w.cref \in Nat /\ w.blocker \in Lits /\ w.cref \in DOMAIN st.db
        /\ ToSet(st.db[w.cref]) = {-p, w.blocker}
    BY BinaryListed
  <2> QED BY ONLY <2>1 DEF c, b
<1>3. Value(st, b) \in Values
  BY <1>1, <1>2, ValueFacts, TrailFacts
<1>4. CASE st.confl # NoRef
  <2>1. new = st
    BY <1>4 DEF PropagateBinary
  <2> QED BY <2>1, <1>1, <1>4, GoingHalted, CarriesSame
<1>5. CASE st.confl = NoRef /\ Value(st, b) = True
  <2>1. new = st
    BY <1>5 DEF PropagateBinary
  <2>2. Settled(st, w.cref, -p)
    BY <1>1, <1>2, <1>5, BackedNow
  <2> QED BY <2>1, <2>2, GoingDrop, CarriesSame
<1>6. CASE st.confl = NoRef /\ Value(st, b) = False
  <2>1. Value(st, b) # True
    BY <1>6, SignsDiffer
  <2>2. new = [st EXCEPT !.confl = w.cref]
    BY <1>6, <2>1 DEF PropagateBinary
  <2>3. Halts(st, new, w.cref)
    BY <2>2, <1>1 DEF Solver, SameTrail, SameMemory, Halts
  <2>4. \A q \in ToSet(c) : Value(st, q) = False
    BY <1>1, <1>2, <1>6
  <2> HIDE DEF c
  <2>5. ConflWatched(new)
    BY <2>3, <2>4, <1>1, <1>2, <1>6, ConflBoth DEF c
  <2> QED BY <2>3, <2>5, <1>1, <1>2, <1>6, GoingConflict
<1>7. CASE st.confl = NoRef /\ Value(st, b) = Undef
  <2>1. new = UncheckedEnqueue(st, b, w.cref)
    BY <1>7, SignsDiffer DEF PropagateBinary
  <2>2. Going(new, p, X) /\ Carries(st, new)
    BY <2>1, <1>1, <1>2, <1>7, GoingEnqueue
  <2>3. Midway(new, M, "none", p, << >>)
    BY BinaryStep
  <2>4. Core(new, M) /\ Level(new, p) = DecisionLevel(new)
    BY <2>3, MidwayFacts
  <2>5. Value(new, b) = True
    BY <2>1, <1>1, <1>2, <1>7, EnqueueFrame
  <2>6. b \in ToSet(new.db[w.cref])
    BY <2>2, <1>2 DEF Carries
  <2>7. Settled(new, w.cref, -p)
    BY <2>4, <2>5, <2>6, <1>1, <1>2, BackedNow
  <2> QED BY <2>2, <2>7, GoingDrop
<1> QED BY <1>3, <1>4, <1>5, <1>6, <1>7 DEF Values

\* A watcher is kept.
LEMMA GoingSame ==
  ASSUME NEW M, NEW st, Core(st, M), NEW p, NEW X, Going(st, p, X),
         NEW new, SameRest(st, new), SameMemory(st, new)
  PROVE  Going(new, p, X) /\ Carries(st, new)
<1>1. Grown(st, new) /\ new.confl = st.confl /\ SameTrail(st, new)
  BY SameRestFacts DEF Grown, Holds, SameRest
<1> QED BY <1>1, GoingGrown

\* The long clauses: the one visited has the negation of p second.
LEMMA VisitGoing ==
  ASSUME NEW st, NEW M, NEW p, NEW w \in Watchers, NEW r \in Seq(Watchers),
         Midway(st, M, "long", p, <<w>> \o r), st.confl = NoRef, NEW X, Going(st, p, X),
         NEW c, c = st.db[w.cref], c[2] = -p, Len(c) > 2,
         NEW k, k = FirstNonFalse(st, c, 3),
         NEW new, new = Visit(st, p, w, c, k)
  PROVE  Going(new, p, X \ {w.cref}) /\ Carries(st, new)
<1> DEFINE w2 == Watcher(w.cref, c[1])
           stays == Keep(st, p, w2)
<1>1. /\ st \in Solver /\ Core(st, M) /\ Stored(st) /\ OnTrail(st) /\ p \in Lits
      /\ Value(st, -p) = False /\ Level(st, p) = DecisionLevel(st)
  BY MidwayFacts
<1>2. w.cref \in Live(st) /\ w.cref \in DOMAIN st.db /\ w.cref \in Nat
  BY FirstListed DEF Kinds
<1>3. /\ c \in Seq(Lits) /\ Len(c) \in Nat /\ DOMAIN c = 1 .. Len(c) /\ c \in Clauses
      /\ 1 \in DOMAIN c /\ 2 \in DOMAIN c /\ \A i \in DOMAIN c : c[i] \in Lits
  BY <1>1, <1>2, ClauseFacts
<1>4. /\ c[1] \in Lits /\ c[1] \in ToSet(c)
      /\ \A q : q \in ToSet(c) <=> \E i \in DOMAIN c : c[i] = q
  <2>1. \A q : q \in ToSet(c) <=> \E i \in DOMAIN c : c[i] = q
    BY SMTT(30), <1>3, SeqFacts
  <2> QED BY <1>3, <2>1
<1>5. w2 \in Watchers /\ SameCref(w, w2) /\ w2.blocker \in ToSet(c)
  BY <1>4, WatcherFacts
<1> HIDE DEF w2
<1>6. Value(st, c[1]) \in Values
  BY <1>1, <1>4, ValueFacts, TrailFacts
<1>7. /\ Midway(stays, M, "long", p, r) /\ SameRest(st, stays) /\ SameMemory(st, stays)
      /\ stays.db = st.db /\ stays.confl = NoRef
  <2>1. Midway(stays, M, "long", p, r) /\ SameRest(st, stays) /\ SameMemory(st, stays)
    BY <1>5, KeepStep
  <2>2. stays.db = st.db
    BY <2>1 DEF SameMemory
  <2> QED BY <2>1, <2>2, SameRestFacts
<1>8. \A l : Value(stays, l) = Value(st, l)
  BY <1>7, SameRestFacts
<1>9. stays.trail = st.trail
  BY <1>7, SameRestFacts
<1>10. Going(stays, p, X) /\ Carries(st, stays)
  BY <1>1, <1>7, GoingSame
<1>11. Core(stays, M) /\ Level(stays, p) = DecisionLevel(stays) /\ stays \in Solver /\ OnTrail(stays)
  BY <1>7, MidwayFacts
<1> HIDE DEF stays
<1>12. CASE Value(st, c[1]) = True
  <2>1. new = stays
    BY <1>12 DEF Visit, stays, w2
  <2>2. Settled(stays, w.cref, -p)
    BY <1>1, <1>4, <1>7, <1>8, <1>11, <1>12, BackedNow
  <2> QED BY <2>1, <2>2, <1>10, GoingDrop
<1>13. CASE Value(st, c[1]) # True /\ k # 0
  <2> DEFINE d == Swapped(c, 2, k)
  <2>1. new = MovedTo(st, w.cref, d, -c[k], w2)
    BY <1>13 DEF Visit, w2, MovedTo
  <2>2. k \in 3 .. Len(c) /\ Value(st, c[k]) # False
    BY <1>3, <1>13, FirstNonFalseFacts
  <2>3. k \in DOMAIN c /\ -c[k] \in Lits /\ c[k] \in Lits
    BY <2>2, <1>3, LitFacts
  <2>4. /\ d \in Seq(Lits) /\ Len(d) = Len(c) /\ ToSet(d) = ToSet(c)
        /\ d[1] = c[1] /\ d[2] = c[k]
    <3>1. /\ d \in Seq(Lits) /\ Len(d) = Len(c) /\ ToSet(d) = ToSet(c) /\ d[2] = c[k]
          /\ \A i \in DOMAIN c \ {2, k} : d[i] = c[i]
      <4>1. c \in Seq(Lits) /\ 2 \in DOMAIN c /\ k \in DOMAIN c
        BY <2>3, <1>3
      <4> QED BY ONLY <4>1, SwappedFacts
    <3>2. 1 \in DOMAIN c \ {2, k}
      BY <2>2, <1>3
    <3> QED BY <3>1, <3>2
  <2>5. d \in Clauses
    BY <2>4 DEF Clauses
  <2> HIDE DEF d
  <2>6. /\ SameRest(st, new) /\ new.oneWatched = st.oneWatched
        /\ DOMAIN new.db = DOMAIN st.db
        /\ new.db[w.cref] = d /\ \A x \in DOMAIN st.db \ {w.cref} : new.db[x] = st.db[x]
    BY <2>1, <2>3, <2>5, <1>1, <1>2, <1>5, MoveFields
  <2>7. /\ ToSet(new.db[w.cref]) = ToSet(st.db[w.cref]) /\ Len(new.db[w.cref]) = Len(st.db[w.cref])
        /\ \A i \in {1, 2} : \/ new.db[w.cref][i] \in {st.db[w.cref][1], st.db[w.cref][2]}
                             \/ new.db[w.cref][i] \in Lits /\ Value(st, new.db[w.cref][i]) # False
    BY <2>2, <2>3, <2>4, <2>6
  <2>8. Going(new, p, X) /\ Carries(st, new)
    <3> DEFINE cr == w.cref
    <3>1. /\ DOMAIN new.db = DOMAIN st.db /\ \A x \in DOMAIN st.db \ {cr} : new.db[x] = st.db[x]
          /\ ToSet(new.db[cr]) = ToSet(st.db[cr]) /\ Len(new.db[cr]) = Len(st.db[cr])
          /\ \A i \in {1, 2} : \/ new.db[cr][i] \in {st.db[cr][1], st.db[cr][2]}
                               \/ new.db[cr][i] \in Lits /\ Value(st, new.db[cr][i]) # False
          /\ SameRest(st, new) /\ new.oneWatched = st.oneWatched
          /\ Core(st, M) /\ Going(st, p, X) /\ st.confl = NoRef
      BY <2>6, <2>7, <1>1
    <3> HIDE DEF cr
    <3> QED BY ONLY <3>1, GoingReordered
  <2>9. \A i \in {1, 2} : new.db[w.cref][i] # -p
    <3>1. c[1] # c[2]
      BY <1>1, <1>2, <1>3 DEF Stored, DistinctVars
    <3> QED BY <3>1, <2>2, <2>4, <2>6, <1>1
  <2> QED BY <2>8, <2>9, GoingDrop
<1>14. CASE Value(st, c[1]) # True /\ k = 0
  <2>1. \A i \in DOMAIN c : i # 1 => Value(st, c[i]) = False
    <3>1. \A i \in 3 .. Len(c) : Value(st, c[i]) = False
      BY <1>3, <1>14, FirstNonFalseFacts
    <3> QED BY <3>1, <1>1, <1>3
  <2>2. CASE Value(st, c[1]) = False
    <3>1. new = [stays EXCEPT !.confl = w.cref, !.qhead = Len(stays.trail)]
      BY <1>14, <2>2, <1>9 DEF Visit, stays, w2
    <3>2. \A q \in ToSet(stays.db[w.cref]) : Value(stays, q) = False
      BY <1>4, <1>7, <1>8, <2>1, <2>2
    <3>3. w.cref \in DOMAIN stays.db
      BY <1>2, <1>7
    <3>4. Halts(stays, new, w.cref)
      BY <3>1, <1>11 DEF Halts, Solver, SameTrail, SameMemory
    <3>5. ConflWatched(new)
      BY <3>2, <3>3, <3>4, <1>1, <1>7, <1>10, <1>11, ConflBoth
    <3>6. Going(new, p, X \ {w.cref}) /\ Carries(stays, new)
      BY <3>3, <3>4, <3>5, <1>1, <1>7, <1>10, <1>11, GoingConflict
    <3> QED BY <3>6, <1>10, CarriesTransitive
  <2>3. CASE Value(st, c[1]) = Undef
    <3>1. new = UncheckedEnqueue(stays, c[1], w.cref)
      BY <1>14, <2>3, SignsDiffer DEF Visit, stays, w2
    <3>2. Value(stays, c[1]) = Undef
      BY <1>8, <2>3
    <3>3. Going(new, p, X) /\ Carries(stays, new)
      BY <3>1, <3>2, <1>2, <1>4, <1>7, <1>10, <1>11, GoingEnqueue
    <3>4. Midway(new, M, "long", p, r)
      BY VisitStep
    <3>5. Core(new, M) /\ Level(new, p) = DecisionLevel(new)
      BY <3>4, MidwayFacts
    <3>6. Value(new, c[1]) = True
      BY <3>1, <3>2, <1>2, <1>4, <1>11, EnqueueFrame
    <3>7. c[1] \in ToSet(new.db[w.cref])
      BY <3>3, <1>2, <1>4, <1>7 DEF Carries
    <3>8. Settled(new, w.cref, -p)
      BY <3>5, <3>6, <3>7, <1>1, <1>4, BackedNow
    <3>9. Carries(st, new)
      BY <3>3, <1>10, CarriesTransitive
    <3> QED BY <3>3, <3>8, <3>9, GoingDrop
  <2> QED BY <1>6, <1>14, <2>2, <2>3 DEF Values
<1> QED BY <1>12, <1>13, <1>14

\* The false literal of a clause is put second.
LEMMA NormalizedGoing ==
  ASSUME NEW st, NEW M, NEW p, NEW rest, Midway(st, M, "long", p, rest), st.confl = NoRef,
         NEW X, Going(st, p, X),
         NEW cr \in Live(st), <<"long", p>> \in Lists(st, cr),
         NEW new, new = Normalized(st, p, cr)
  PROVE  Going(new, p, X) /\ Carries(st, new)
<1> DEFINE c == st.db[cr]
           d == IF c[1] = -p THEN Swapped(c, 1, 2) ELSE c
<1>1. st \in Solver /\ Core(st, M) /\ cr \in DOMAIN st.db
  BY MidwayFacts DEF Live
<1>2. /\ c \in Seq(Lits) /\ Len(c) \in Nat /\ Len(c) >= 2 /\ 1 \in DOMAIN c /\ 2 \in DOMAIN c /\ c \in Clauses
  BY <1>1, ClauseFacts
<1>3. /\ d \in Seq(Lits) /\ Len(d) = Len(c) /\ ToSet(d) = ToSet(c)
      /\ (d[1] = c[1] /\ d[2] = c[2]) \/ (d[1] = c[2] /\ d[2] = c[1])
  <2>1. /\ Swapped(c, 1, 2) \in Seq(Lits) /\ Len(Swapped(c, 1, 2)) = Len(c)
        /\ ToSet(Swapped(c, 1, 2)) = ToSet(c)
        /\ Swapped(c, 1, 2)[1] = c[2] /\ Swapped(c, 1, 2)[2] = c[1]
    <3>1. c \in Seq(Lits) /\ 1 \in DOMAIN c /\ 2 \in DOMAIN c
      BY <1>2
    <3> HIDE DEF c
    <3> QED BY ONLY <3>1, SwappedFacts
  <2> QED BY <2>1, <1>2
<1>4. d \in Clauses
  BY <1>2, <1>3 DEF Clauses
<1>5. new = [st EXCEPT !.db[cr] = d]
  BY <1>1 DEF Normalized, Solver
<1> HIDE DEF d
<1>6. /\ SameRest(st, new) /\ new.oneWatched = st.oneWatched /\ DOMAIN new.db = DOMAIN st.db
      /\ new.db[cr] = d /\ \A x \in DOMAIN st.db \ {cr} : new.db[x] = st.db[x]
  BY <1>1, <1>4, <1>5, ClauseSetFields
<1>7. /\ ToSet(new.db[cr]) = ToSet(st.db[cr]) /\ Len(new.db[cr]) = Len(st.db[cr])
      /\ \A i \in {1, 2} : new.db[cr][i] \in {st.db[cr][1], st.db[cr][2]}
  BY <1>3, <1>6
<1>8. Core(st, M) /\ Going(st, p, X) /\ st.confl = NoRef
  BY <1>1
<1> HIDE DEF c
<1> QED BY ONLY <1>6, <1>7, <1>8, GoingReordered

\* One watcher of the list of p.
LEMMA WatcherGoing ==
  ASSUME NEW st, NEW M, NEW p, NEW w \in Watchers, NEW r \in Seq(Watchers),
         Midway(st, M, "long", p, <<w>> \o r), NEW X, Going(st, p, X),
         NEW new, new = PropagateWatcher(st, p, w)
  PROVE  Going(new, p, X \ {w.cref}) /\ Carries(st, new)
<1>1. /\ w.cref \in Live(st) /\ <<"long", p>> \in Lists(st, w.cref)
      /\ w.blocker \in ToSet(st.db[w.cref]) /\ w.blocker \in Lits
      /\ Core(st, M) /\ p \in Lits /\ Level(st, p) = DecisionLevel(st)
  BY FirstListed, MidwayFacts DEF Kinds
<1>2. CASE st.confl # NoRef \/ Value(st, w.blocker) = True
  <2>1. new = Keep(st, p, w) /\ SameCref(w, w)
    BY <1>2 DEF PropagateWatcher, SameCref
  <2>2. Midway(new, M, "long", p, r) /\ SameRest(st, new) /\ SameMemory(st, new)
    BY <1>1, <2>1, KeepStep
  <2>3. Going(new, p, X) /\ Carries(st, new)
    BY <1>1, <2>2, GoingSame
  <2>4. Core(new, M) /\ Level(new, p) = DecisionLevel(new)
    BY <2>2, MidwayFacts
  <2>5. new.confl = st.confl /\ new.db = st.db /\ Value(new, w.blocker) = Value(st, w.blocker)
    BY <2>2, SameRestFacts DEF SameMemory
  <2>6. CASE st.confl # NoRef
    BY <1>1, <2>3, <2>4, <2>5, <2>6, GoingHalted
  <2>7. CASE Value(st, w.blocker) = True
    <3>1. Settled(new, w.cref, -p)
      BY <1>1, <2>4, <2>5, <2>7, BackedNow
    <3> QED BY <3>1, <2>3, GoingDrop
  <2> QED BY <1>2, <2>6, <2>7
<1>3. CASE ~(st.confl # NoRef \/ Value(st, w.blocker) = True)
  <2> DEFINE st1 == Normalized(st, p, w.cref)
             c == st1.db[w.cref]
  <2>1. new = Visit(st1, p, w, c, FirstNonFalse(st1, c, 3))
    BY <1>3 DEF PropagateWatcher, Normalized
  <2>2. /\ Midway(st1, M, "long", p, <<w>> \o r) /\ SameRest(st, st1)
        /\ Len(st1.db) = Len(st.db) /\ c[2] = -p /\ Len(c) > 2
        /\ Going(st1, p, X) /\ Carries(st, st1)
    <3> DEFINE rest == <<w>> \o r
               cr == w.cref
    <3>1. /\ Midway(st, M, "long", p, rest) /\ cr \in Live(st) /\ <<"long", p>> \in Lists(st, cr)
          /\ st.confl = NoRef /\ Going(st, p, X)
      BY <1>1, <1>3
    <3>2. st1 = Normalized(st, p, cr)
      OBVIOUS
    <3> HIDE DEF rest, cr, st1
    <3>3. /\ Midway(st1, M, "long", p, rest) /\ SameRest(st, st1)
          /\ Len(st1.db) = Len(st.db) /\ st1.db[cr][2] = -p /\ Len(st1.db[cr]) > 2
      BY ONLY <3>1, <3>2, NormalizeStep
    <3>4. Going(st1, p, X) /\ Carries(st, st1)
      BY ONLY <3>1, <3>2, NormalizedGoing
    <3> QED BY <3>3, <3>4 DEF rest, cr
  <2>3. st1.confl = NoRef
    BY <2>2, <1>3, SameRestFacts
  <2> HIDE DEF st1
  <2>4. Going(new, p, X \ {w.cref}) /\ Carries(st1, new)
    BY <2>1, <2>2, <2>3, VisitGoing
  <2> QED BY <2>2, <2>4, CarriesTransitive
<1> QED BY <1>2, <1>3

\* A false clause of the purgatory is promoted: its first literal stays, the
\* second one is of the highest level of the others.
LEMMA PromoteFields ==
  ASSUME NEW st, NEW M, Core(st, M), NEW cr \in DOMAIN st.db,
         \A q \in ToSet(st.db[cr]) : Value(st, q) = False,
         NEW new, new = Promote(st, cr)
  PROVE  /\ SameRest(st, new) /\ new.oneWatched = st.oneWatched \ {cr}
         /\ DOMAIN new.db = DOMAIN st.db /\ \A x \in DOMAIN st.db \ {cr} : new.db[x] = st.db[x]
         /\ ToSet(new.db[cr]) = ToSet(st.db[cr]) /\ Len(new.db[cr]) = Len(st.db[cr])
         /\ new.db[cr][1] = st.db[cr][1]
         /\ \A k \in 2 .. Len(new.db[cr]) : Level(st, new.db[cr][k]) <= Level(st, new.db[cr][2])
<1> DEFINE c == st.db[cr]
           S == {st.level[Var(c[k])] : k \in 2 .. Len(c)}
           highest == Max({st.level[Var(c[k])] : k \in 2 .. Len(c)})
           I == {k \in 2 .. Len(c) : st.level[Var(c[k])] = highest}
           index   == Min({k \in 2 .. Len(c) : st.level[Var(c[k])] = highest})
           d == Swapped(c, 2, index)
           away == StrictlyDetached(st, cr)
           mid == [away EXCEPT !.db[cr] = d]
<1>1. /\ st \in Solver /\ Stored(st) /\ OnTrail(st) /\ Levelled(st)
  BY CoreFacts
<1>2. /\ c \in Clauses /\ c \in Seq(Lits) /\ Len(c) \in Nat /\ Len(c) >= 2 /\ DOMAIN c = 1 .. Len(c)
      /\ \A i \in DOMAIN c : c[i] \in Lits
      /\ DistinctVars(c)
  BY <1>1, ClauseFacts DEF Stored
<1>3. \A k \in 2 .. Len(c) : st.level[Var(c[k])] \in Nat /\ st.level[Var(c[k])] <= DecisionLevel(st)
  <2> SUFFICES ASSUME NEW k \in 2 .. Len(c)
               PROVE  st.level[Var(c[k])] \in Nat /\ st.level[Var(c[k])] <= DecisionLevel(st)
    OBVIOUS
  <2>1. k \in DOMAIN c /\ c[k] \in Lits
    BY <1>2
  <2>2. c[k] \in ToSet(c)
    BY <1>2, <2>1, SeqFacts
  <2>3. Value(st, c[k]) # Undef
    BY <2>2, SignsDiffer
  <2>4. Level(st, c[k]) <= DecisionLevel(st) /\ Level(st, c[k]) \in Nat
    BY <1>1, <2>1, <2>3, LevelsBounded, TrailFacts
  <2> QED BY <2>4 DEF Level
<1>4. highest \in S /\ \A x \in S : x <= highest
  <2>1. S \subseteq Nat /\ S # {} /\ \A x \in S : x <= DecisionLevel(st)
    <3>1. 2 \in 2 .. Len(c)
      BY <1>2
    <3> QED BY <1>3, <3>1
  <2>2. DecisionLevel(st) \in Nat
    BY <1>1, TrailFacts
  <2>3. highest = Max(S)
    OBVIOUS
  <2> HIDE DEF S, highest
  <2> QED BY <2>1, <2>2, <2>3, MaxFacts
<1>5. index \in I
  <2>1. I # {} /\ I \subseteq Nat
    <3>1. PICK k \in 2 .. Len(c) : st.level[Var(c[k])] = highest
      BY <1>4
    <3> HIDE DEF highest, S
    <3>2. I \subseteq Nat
      BY <1>2
    <3> QED BY <3>1, <3>2
  <2>2. index = Min(I)
    OBVIOUS
  <2> HIDE DEF I, highest, index
  <2> QED BY <2>1, <2>2, MinFacts
<1>6. /\ index \in 2 .. Len(c)
      /\ \A k \in 2 .. Len(c) : Level(st, c[k]) <= Level(st, c[index])
  <2>1. index \in 2 .. Len(c) /\ st.level[Var(c[index])] = highest
    <3> HIDE DEF index, highest
    <3> QED BY <1>5
  <2> HIDE DEF index, highest
  <2>2. \A k \in 2 .. Len(c) : st.level[Var(c[k])] <= highest
    BY <1>4
  <2> QED BY <2>1, <2>2 DEF Level
<1>7. new = AttachClause(mid, cr)
  BY DEF Promote
<1> HIDE DEF index, highest, I, S
<1>8. /\ d \in Seq(Lits) /\ Len(d) = Len(c) /\ ToSet(d) = ToSet(c) /\ d[1] = c[1]
      /\ DistinctVars(d) /\ d \in Clauses
      /\ \A k \in 2 .. Len(d) : Level(st, d[k]) <= Level(st, d[2])
  <2>0. 2 \in DOMAIN c /\ index \in DOMAIN c /\ index # 1 /\ 1 \in DOMAIN c
    BY <1>2, <1>6
  <2>1. /\ d \in Seq(Lits) /\ Len(d) = Len(c) /\ ToSet(d) = ToSet(c)
        /\ d[2] = c[index] /\ d[index] = c[2]
        /\ \A i \in DOMAIN c \ {2, index} : d[i] = c[i]
    <3>1. c \in Seq(Lits) /\ 2 \in DOMAIN c /\ index \in DOMAIN c /\ d = Swapped(c, 2, index)
      BY <1>2, <2>0
    <3> HIDE DEF c, d
    <3>2. /\ Swapped(c, 2, index) \in Seq(Lits) /\ Len(Swapped(c, 2, index)) = Len(c)
          /\ ToSet(Swapped(c, 2, index)) = ToSet(c)
          /\ Swapped(c, 2, index)[2] = c[index] /\ Swapped(c, 2, index)[index] = c[2]
          /\ \A i \in DOMAIN c \ {2, index} : Swapped(c, 2, index)[i] = c[i]
      BY ONLY <3>1, SwappedFacts
    <3> QED BY ONLY <3>1, <3>2
  <2>2. DistinctVars(d)
    BY ONLY <1>2, <2>0, SwappedDistinct DEF d
  <2>3. d[1] = c[1]
    <3>1. 1 \in DOMAIN c \ {2, index}
      BY ONLY <2>0
    <3> QED BY ONLY <2>1, <3>1
  <2>4. d \in Clauses
    <3>1. Len(c) >= 2
      BY <1>2
    <3> HIDE DEF c, d
    <3> QED BY ONLY <2>1, <3>1 DEF Clauses
  <2>5. ASSUME NEW k \in 2 .. Len(d) PROVE Level(st, d[k]) <= Level(st, d[2])
    <3>1. k \in DOMAIN c /\ k \in 2 .. Len(c) /\ 2 \in 2 .. Len(c)
      BY <1>2, <2>1
    <3> HIDE DEF c, d
    <3>2. d[k] = c[k] \/ d[k] = c[2] \/ d[k] = c[index]
      BY <2>1, <3>1
    <3> QED BY <1>6, <2>1, <3>1, <3>2
  <2> QED BY ONLY <2>1, <2>2, <2>3, <2>4, <2>5
<1> HIDE DEF d, away
<1>9. /\ away \in Solver /\ SameRest(st, away) /\ away.db = st.db
      /\ away.oneWatched = st.oneWatched \ {cr}
  <2>1. away = StrictlyDetached(st, cr)
    BY DEF away
  <2> QED BY ONLY <1>1, <2>1, DetachedFields
<1>10. /\ mid \in Solver /\ SameRest(away, mid) /\ mid.oneWatched = away.oneWatched
       /\ DOMAIN mid.db = DOMAIN st.db
       /\ mid.db[cr] = d /\ \A x \in DOMAIN st.db \ {cr} : mid.db[x] = st.db[x]
  BY <1>8, <1>9, ClauseSetFields
<1> HIDE DEF mid
<1>11. SameRest(mid, new) /\ SameMemory(mid, new)
  BY <1>7, <1>8, <1>10, AttachFields
<1>12. SameRest(st, new)
  BY <1>9, <1>10, <1>11, SameRestTransitive
<1>13. new.db = mid.db /\ new.oneWatched = mid.oneWatched
  BY <1>11 DEF SameMemory
<1> HIDE DEF c
<1> QED BY <1>8, <1>9, <1>10, <1>12, <1>13 DEF c

LEMMA PromoteGoing ==
  ASSUME NEW st, NEW M, Core(st, M), NEW p \in Lits, Level(st, p) = DecisionLevel(st),
         NEW X, Going(st, p, X),
         NEW cr \in st.oneWatched, st.confl = cr, st.db[cr][1] = -p,
         \A q \in ToSet(st.db[cr]) : Value(st, q) = False,
         NEW new, new = Promote(st, cr)
  PROVE  Going(new, p, X) /\ Carries(st, new)
<1>1. st \in Solver /\ Stored(st) /\ cr \in DOMAIN st.db /\ cr # NoRef
  <2>1. st \in Solver /\ Stored(st) /\ cr \in DOMAIN st.db
    BY CoreFacts DEF Stored
  <2> QED BY <2>1, ClauseFacts DEF NoRef
<1>2. /\ SameRest(st, new) /\ new.oneWatched = st.oneWatched \ {cr}
      /\ DOMAIN new.db = DOMAIN st.db /\ \A x \in DOMAIN st.db \ {cr} : new.db[x] = st.db[x]
      /\ ToSet(new.db[cr]) = ToSet(st.db[cr]) /\ Len(new.db[cr]) = Len(st.db[cr])
      /\ new.db[cr][1] = st.db[cr][1]
      /\ \A k \in 2 .. Len(new.db[cr]) : Level(st, new.db[cr][k]) <= Level(st, new.db[cr][2])
  BY <1>1, PromoteFields
<1>3. /\ new.clauses = st.clauses /\ new.learnts = st.learnts /\ new.confl = cr
      /\ new.unaryWatchedClauses = st.unaryWatchedClauses /\ Grown(st, new)
      /\ DecisionLevel(new) = DecisionLevel(st)
      /\ \A l : Level(new, l) = Level(st, l)
  <2>1. Holds(st, new)
    BY <1>2, SameRestFacts DEF Holds
  <2> QED BY <1>2, <2>1, SameRestFacts DEF SameRest, Grown
<1>4. TwoWatched(new) \subseteq TwoWatched(st) \cup {cr}
  <2>1. st.unaryWatchedClauses \subseteq DOMAIN st.db
    BY <1>1 DEF Stored, Live
  <2> QED BY <1>2, <1>3, <2>1 DEF TwoWatched
<1>5. ASSUME NEW x \in TwoWatched(new), NEW i \in {1, 2}
      PROVE  (new.db[x][i] = -p /\ x \in X) \/ Settled(new, x, new.db[x][i])
  <2>1. CASE x = cr
    BY <1>1, <1>3, <2>1 DEF Settled
  <2>2. CASE x # cr
    <3>1. x \in TwoWatched(st)
      BY <1>4, <2>2
    <3>2. x \in DOMAIN st.db /\ ToSet(st.db[x]) \subseteq Lits /\ st.db[x][i] \in Lits
      BY <3>1, WatchedFacts
    <3>3. new.db[x] = st.db[x]
      BY <1>2, <2>2, <3>2
    <3>4. (st.db[x][i] = -p /\ x \in X) \/ Settled(st, x, st.db[x][i])
      BY <3>1 DEF Going, CompleteBut
    <3>5. Settled(st, x, st.db[x][i]) => Settled(new, x, st.db[x][i])
      BY <1>3, <3>2, <3>3, SettledGrown
    <3> QED BY <3>3, <3>4, <3>5
  <2> QED BY <2>1, <2>2
<1>6. Apart(new)
  BY <1>2, <1>3 DEF Going, Apart
<1>7. ConflWatched(new)
  <2>1. cr \notin st.clauses \cup st.learnts
    BY DEF Going, Apart
  <2>2. Level(st, -p) = DecisionLevel(st)
    BY LitFacts DEF Level
  <2> QED BY <1>2, <1>3, <2>1, <2>2 DEF ConflWatched
<1>8. Carries(st, new)
  BY <1>2, <1>3 DEF Carries, Grown
<1> QED BY <1>5, <1>6, <1>7, <1>8 DEF Going, CompleteBut

\* One watcher of the list of p in the purgatory, when nothing else is left.
LEMMA UnaryGoing ==
  ASSUME NEW st, NEW M, NEW p, NEW w \in Watchers, NEW r \in Seq(Watchers),
         Midway(st, M, "unary", p, <<w>> \o r), NEW X, Going(st, p, X),
         NEW new, new = PropagateUnaryWatcher(st, p, w)
  PROVE  Going(new, p, X) /\ Carries(st, new)
<1> DEFINE c == st.db[w.cref]
           w2 == Watcher(w.cref, c[1])
           k == FirstNonFalse(st, c, 2)
           kept == KeepUnary(st, p, w2)
           halted == [kept EXCEPT !.confl = w.cref, !.qhead = Len(kept.trail)]
<1>1. /\ w.cref \in Live(st) /\ w.cref \in DOMAIN st.db /\ <<"unary", p>> \in Lists(st, w.cref)
      /\ w.blocker \in ToSet(c) /\ w.cref \in st.oneWatched /\ p = -c[1]
  BY FirstListed, ListsFacts DEF Kinds
<1>2. /\ st \in Solver /\ Core(st, M) /\ Stored(st) /\ OnTrail(st) /\ p \in Lits
      /\ Value(st, -p) = False /\ -p \in Lits /\ Level(st, p) = DecisionLevel(st)
  BY MidwayFacts
<1>3. /\ c \in Seq(Lits) /\ Len(c) \in Nat /\ DOMAIN c = 1 .. Len(c)
      /\ 1 \in DOMAIN c /\ \A i \in DOMAIN c : c[i] \in Lits
  BY <1>1, <1>2, ClauseFacts
<1>4. /\ c[1] \in Lits /\ c[1] \in ToSet(c) /\ c[1] = -p
      /\ \A q : q \in ToSet(c) <=> \E i \in DOMAIN c : c[i] = q
  <2>1. \A q : q \in ToSet(c) <=> \E i \in DOMAIN c : c[i] = q
    BY <1>3, SeqFacts
  <2> QED BY <1>1, <1>3, <2>1, LitFacts
<1>5. w2 \in Watchers /\ SameCref(w, w2) /\ w2.blocker \in ToSet(c) /\ w2.cref = w.cref
  BY <1>4, WatcherFacts
<1>6. CASE st.confl # NoRef \/ Value(st, w.blocker) = True
  <2>1. new = KeepUnary(st, p, w) /\ SameCref(w, w)
    BY <1>6 DEF PropagateUnaryWatcher, SameCref
  <2>2. Midway(new, M, "unary", p, r) /\ SameRest(st, new) /\ SameMemory(st, new)
    BY <1>1, <2>1, KeepUnaryStep
  <2> QED BY <2>2, <1>2, GoingSame
<1>7. CASE ~(st.confl # NoRef \/ Value(st, w.blocker) = True) /\ k # 0
  <2> DEFINE d == Swapped(c, 1, k)
             cr == w.cref
  <2>1. new = MovedUnaryTo(st, cr, d, -c[k], w2)
    BY <1>7 DEF PropagateUnaryWatcher, MovedUnaryTo
  <2>2. k \in DOMAIN c /\ -c[k] \in Lits
    <3>1. k \in 2 .. Len(c)
      BY <1>3, <1>7, FirstNonFalseFacts
    <3>2. k \in DOMAIN c
      BY <1>3, <3>1
    <3> HIDE DEF k
    <3> QED BY <1>3, <3>2, LitFacts
  <2>3. d \in Seq(Lits) /\ Len(d) = Len(c) /\ ToSet(d) = ToSet(c)
    <3>1. c \in Seq(Lits) /\ 1 \in DOMAIN c /\ k \in DOMAIN c
      BY <1>3, <2>2
    <3> HIDE DEF c, k
    <3> QED BY ONLY <3>1, SwappedFacts
  <2>4. d \in Clauses
    <3>1. c \in Clauses
      BY <1>1, <1>2, ClauseFacts
    <3> HIDE DEF c, d
    <3> QED BY <2>3, <3>1 DEF Clauses
  <2>5. cr \in DOMAIN st.db /\ ToSet(d) = ToSet(st.db[cr]) /\ Len(d) = Len(st.db[cr]) /\ cr \notin TwoWatched(st)
    BY <1>1, <2>3 DEF Going, Apart, TwoWatched
  <2>6. /\ SameRest(st, new) /\ new.oneWatched = st.oneWatched
        /\ DOMAIN new.db = DOMAIN st.db
        /\ new.db[cr] = d /\ \A x \in DOMAIN st.db \ {cr} : new.db[x] = st.db[x]
    <3> HIDE DEF d, c, w2, k, cr
    <3> QED BY <2>1, <2>2, <2>4, <2>5, <1>2, <1>5, MoveUnaryFields
  <2>7. Core(st, M) /\ Going(st, p, X) /\ st.confl = NoRef
    BY <1>2, <1>7
  <2> HIDE DEF d, cr
  <2> QED BY ONLY <2>5, <2>6, <2>7, GoingReordered
<1>8. CASE ~(st.confl # NoRef \/ Value(st, w.blocker) = True) /\ k = 0
  <2>1. kept.trail = st.trail /\ Midway(kept, M, "unary", p, r) /\ SameRest(st, kept) /\ SameMemory(st, kept)
    <3> DEFINE cr == w.cref
    <3>1. kept = KeepUnary(st, p, w2) /\ c = st.db[w.cref]
      OBVIOUS
    <3> HIDE DEF kept, w2, c
    <3>2. Midway(kept, M, "unary", p, r) /\ SameRest(st, kept) /\ SameMemory(st, kept)
      BY <3>1, <1>5, KeepUnaryStep
    <3> QED BY <3>2, SameRestFacts
  <2>2. new = Promote(halted, w.cref)
    BY <1>8, <2>1 DEF PropagateUnaryWatcher
  <2>3. \A i \in DOMAIN c : Value(st, c[i]) = False
    <3>1. \A i \in 2 .. Len(c) : Value(st, c[i]) = False
      BY <1>3, <1>8, FirstNonFalseFacts
    <3> QED BY <3>1, <1>2, <1>3, <1>4
  <2> HIDE DEF kept
  <2>4. Going(kept, p, X) /\ Carries(st, kept)
    BY <2>1, <1>2, GoingSame
  <2>5. /\ kept.db = st.db /\ kept.oneWatched = st.oneWatched /\ kept.confl = NoRef
        /\ \A l : Value(kept, l) = Value(st, l)
    BY <2>1, <1>8, SameRestFacts DEF SameMemory
  <2>6. /\ Core(kept, M) /\ kept \in Solver /\ Level(kept, p) = DecisionLevel(kept)
    BY <2>1, MidwayFacts
  <2>7. /\ \A q \in ToSet(kept.db[w.cref]) : Value(kept, q) = False
        /\ w.cref \in DOMAIN kept.db /\ w.cref \in kept.oneWatched /\ kept.db[w.cref][1] = -p
        /\ -p \in ToSet(kept.db[w.cref])
    BY <1>1, <1>4, <2>3, <2>5
  <2>8. Halts(kept, halted, w.cref)
    BY <2>6 DEF Halts, Solver, SameTrail, SameMemory
  <2>9. Midway(halted, M, "unary", p, r)
    BY <2>1, <2>7, ConflictMidway
  <2> HIDE DEF halted, c
  <2>10. /\ halted.db = kept.db /\ halted.oneWatched = kept.oneWatched /\ halted.confl = w.cref
         /\ halted.clauses = kept.clauses /\ halted.learnts = kept.learnts
         /\ \A l : Value(halted, l) = Value(kept, l)
    BY <2>8, TrailFrame DEF Halts, SameMemory
  <2>11. ConflWatched(halted)
    <3>1. w.cref \notin TwoWatched(halted)
      BY <2>4, <2>7, <2>8 DEF Going, Apart, TwoWatched, Halts, SameMemory
    <3> QED BY <2>10, <3>1 DEF ConflWatched, TwoWatched
  <2>12. Going(halted, p, X) /\ Carries(kept, halted)
    BY <2>4, <2>5, <2>6, <2>7, <2>8, <2>11, <1>2, GoingConflict
  <2>13. /\ Core(halted, M) /\ Level(halted, p) = DecisionLevel(halted)
    BY <2>9, MidwayFacts
  <2>14. Going(new, p, X) /\ Carries(halted, new)
    <3> DEFINE cr == w.cref
    <3>1. /\ cr \in halted.oneWatched /\ halted.confl = cr /\ halted.db[cr][1] = -p
          /\ \A q \in ToSet(halted.db[cr]) : Value(halted, q) = False
          /\ new = Promote(halted, cr) /\ p \in Lits
      BY <1>2, <2>2, <2>7, <2>10
    <3> HIDE DEF cr
    <3> QED BY ONLY <3>1, <2>12, <2>13, PromoteGoing
  <2> QED BY <2>4, <2>12, <2>14, CarriesTransitive
<1> QED BY <1>6, <1>7, <1>8

-----------------------------------------------------------------------------
(* All the clauses watching p.                                             *)

\* The clauses of the first k watchers.
FirstCrefs(ws, k) == {ws[j].cref : j \in 1 .. k}

\* The binary clauses watching p.
LEMMA BinariesGoing ==
  ASSUME NEW st, NEW M, NEW p, Midway(st, M, "none", p, << >>), NEW X, Going(st, p, X),
         NEW new, new = FoldLeft(PropagateBinary, st, st.watchesBin[p])
  PROVE  /\ Midway(new, M, "none", p, << >>) /\ Going(new, p, X \ Crefs(st.watchesBin[p])) /\ Carries(st, new)
         /\ SameLists(st, new)
<1> DEFINE ws == st.watchesBin[p]
           n == Len(ws)
           G == [k \in 0 .. n |-> {x \in Solver : /\ Midway(x, M, "none", p, << >>) /\ SameLists(st, x)
                                                  /\ Going(x, p, X \ FirstCrefs(ws, k)) /\ Carries(st, x)}]
<1>1. st \in Solver /\ p \in Lits
  BY MidwayFacts
<1>2. ws \in Seq(Watchers)
  BY <1>1, ListFacts, KindFacts DEF Kinds
<1>3. n \in Nat /\ DOMAIN ws = 1 .. n
  BY <1>2, SeqFacts
<1>4. Going(st, p, X \ FirstCrefs(ws, 0))
  <2> DEFINE Y == X \ FirstCrefs(ws, 0)
  <2>1. Y = X
    BY DEF FirstCrefs
  <2> HIDE DEF Y
  <2>2. Going(st, p, Y)
    BY <2>1
  <2> QED BY <2>2 DEF Y
<1>5. st \in G[0]
  <2>1. SameLists(st, st)
    BY DEF SameLists
  <2>2. Carries(st, st) /\ 0 \in 0 .. n
    <3> HIDE DEF ws, n
    <3> QED BY <1>3, CarriesSame
  <2> HIDE DEF ws, n
  <2> QED BY <1>1, <1>4, <2>1, <2>2
<1>6. ASSUME NEW k \in 1 .. n, NEW x \in G[k - 1]
      PROVE  PropagateBinary(x, ws[k]) \in G[k]
  <2>1. k - 1 \in 0 .. n /\ k \in 0 .. n
    BY <1>3
  <2>2. /\ x \in Solver /\ Midway(x, M, "none", p, << >>) /\ SameLists(st, x)
        /\ Going(x, p, X \ FirstCrefs(ws, k - 1)) /\ Carries(st, x)
    BY <1>6, <2>1
  <2>3. ws[k] \in ToSet(x.watchesBin[p])
    <3>1. x.watchesBin = st.watchesBin
      BY <2>2 DEF SameLists
    <3>2. ws[k] \in ToSet(ws)
      BY <1>2, <1>3, SeqFacts
    <3> QED BY <3>1, <3>2
  <2> DEFINE w == ws[k]
             y == PropagateBinary(x, w)
             Y == X \ FirstCrefs(ws, k - 1)
  <2>4. FirstCrefs(ws, k) = FirstCrefs(ws, k - 1) \cup {w.cref}
    BY <1>3 DEF FirstCrefs
  <2>5. X \ FirstCrefs(ws, k) = Y \ {w.cref}
    BY <2>4
  <2> HIDE DEF ws, n, Y
  <2>6. Midway(y, M, "none", p, << >>) /\ SameLists(x, y)
    BY <2>2, <2>3, BinaryStep
  <2>7. Going(y, p, Y \ {w.cref}) /\ Carries(x, y)
    <3>1. Going(x, p, Y)
      BY <2>2 DEF Y
    <3> QED BY <3>1, <2>2, <2>3, BinaryGoing
  <2>8. y \in Solver /\ SameLists(st, y) /\ Carries(st, y)
    <3>1. Carries(st, y)
      BY <2>2, <2>7, CarriesTransitive
    <3>2. y \in Solver
      BY <2>6, MidwayFacts
    <3>3. SameLists(st, y)
      BY <2>2, <2>6 DEF SameLists
    <3> QED BY <3>1, <3>2, <3>3
  <2> QED BY <2>1, <2>5, <2>6, <2>7, <2>8
<1>7. Crefs(ws) = FirstCrefs(ws, n)
  BY <1>2, <1>3, CrefFacts DEF FirstCrefs
<1> HIDE DEF ws, n
<1>8. new \in G[n]
  <2> HIDE DEF G
  <2>2. FoldLeft(PropagateBinary, st, ws) \in G[n]
    BY <1>3, <1>5, <1>6, BinaryFold
  <2> QED BY <2>2 DEF ws
<1>9. /\ Midway(new, M, "none", p, << >>) /\ SameLists(st, new)
      /\ Going(new, p, X \ FirstCrefs(ws, n)) /\ Carries(st, new)
  BY <1>3, <1>8
<1> QED BY <1>7, <1>9 DEF ws

\* What propagating p has come to.
Came(st, M, p, X) == {x \in Solver : Midway(x, M, "none", p, << >>) /\ Going(x, p, X) /\ Carries(st, x)}

\* The long clauses watching p.
LEMMA LongsGoing ==
  ASSUME NEW st, NEW M, NEW p, Midway(st, M, "none", p, << >>), NEW X, Going(st, p, X)
  PROVE  LongFolded(p, EmptyLong(st, p), st.watches[p]) \in Came(st, M, p, X \ Crefs(st.watches[p]))
<1> DEFINE base == EmptyLong(st, p)
           ws == st.watches[p]
           n == Len(ws)
           G == [k \in 0 .. n |-> {x \in Solver : /\ Midway(x, M, "long", p, RestFrom(ws, k))
                                                  /\ Going(x, p, X \ FirstCrefs(ws, k)) /\ Carries(st, x)}]
<1>1. st \in Solver /\ p \in Lits /\ Core(st, M)
  BY MidwayFacts
<1>2. ws \in Seq(Watchers) /\ ws = ListOf(st, "long", p)
  BY <1>1, ListFacts, KindFacts DEF Kinds
<1>3. n \in Nat /\ DOMAIN ws = 1 .. n /\ \A k \in 1 .. n : ws[k] \in Watchers
  BY <1>2, SeqFacts
<1>4. base \in Solver /\ Midway(base, M, "long", p, ws) /\ Going(base, p, X) /\ Carries(st, base)
  <2>1. /\ base \in Solver /\ SameRest(st, base) /\ SameMemory(st, base)
        /\ OnlyList(st, base, "long", p) /\ ListOf(base, "long", p) = << >>
    BY <1>1, EmptyFields
  <2> HIDE DEF base, ws
  <2>2. Midway(base, M, "long", p, ws)
    BY <2>1, <1>2, VisitStarts
  <2> QED BY <2>1, <2>2, <1>1, GoingSame
<1>5. base \in G[0]
  <2> DEFINE Y == X \ FirstCrefs(ws, 0)
  <2>1. RestFrom(ws, 0) = ws /\ Y = X
    BY <1>2, ListRest DEF FirstCrefs
  <2> HIDE DEF base, ws, n, Y
  <2>2. Going(base, p, Y) /\ Midway(base, M, "long", p, RestFrom(ws, 0)) /\ 0 \in 0 .. n
    BY <2>1, <1>3, <1>4
  <2> QED BY <2>2, <1>4 DEF Y
<1>6. FirstCrefs(ws, n) = Crefs(ws) /\ \A k \in 1 .. n : FirstCrefs(ws, k) = FirstCrefs(ws, k - 1) \cup {ws[k].cref}
  BY <1>2, <1>3, CrefFacts DEF FirstCrefs
<1> HIDE DEF base, ws, n
<1>7. ASSUME NEW k \in 1 .. n, NEW x \in G[k - 1]
      PROVE  PropagateWatcher(x, p, ws[k]) \in G[k]
  <2>1. k - 1 \in 0 .. n /\ k \in 0 .. n
    BY <1>3
  <2>2. /\ x \in Solver /\ Midway(x, M, "long", p, RestFrom(ws, k - 1))
        /\ Going(x, p, X \ FirstCrefs(ws, k - 1)) /\ Carries(st, x)
    BY <1>7, <2>1
  <2>3. RestFrom(ws, k) \in Seq(Watchers) /\ RestFrom(ws, k - 1) = <<ws[k]>> \o RestFrom(ws, k)
    BY <1>2, ListRest DEF n
  <2> DEFINE y == PropagateWatcher(x, p, ws[k])
             r == RestFrom(ws, k)
             w == ws[k]
             Y == X \ FirstCrefs(ws, k - 1)
  <2>4. w \in Watchers /\ r \in Seq(Watchers) /\ Midway(x, M, "long", p, <<w>> \o r) /\ Going(x, p, Y)
    BY <1>3, <2>2, <2>3
  <2>5. y = PropagateWatcher(x, p, w)
    OBVIOUS
  <2>6. X \ FirstCrefs(ws, k) = Y \ {w.cref}
    BY <1>6
  <2> HIDE DEF y, r, w, Y
  <2>7. Midway(y, M, "long", p, r)
    BY ONLY <2>4, <2>5, WatcherStep
  <2>8. Going(y, p, Y \ {w.cref}) /\ Carries(x, y)
    BY ONLY <2>4, <2>5, WatcherGoing
  <2>9. Carries(st, y) /\ y \in Solver
    BY <2>2, <2>7, <2>8, CarriesTransitive, MidwayFacts
  <2> QED BY <2>1, <2>6, <2>7, <2>8, <2>9 DEF y, r
<1>8. G[n] \subseteq Came(st, M, p, X \ Crefs(ws))
  <2>1. RestFrom(ws, n) = << >> /\ n \in 0 .. n
    BY <1>2, <1>3, ListRest DEF n
  <2>2. ASSUME NEW x \in G[n] PROVE x \in Came(st, M, p, X \ Crefs(ws))
    <3>1. x \in Solver /\ Midway(x, M, "long", p, << >>) /\ Going(x, p, X \ Crefs(ws)) /\ Carries(st, x)
      BY <1>6, <2>1, <2>2
    <3> QED BY <3>1, VisitEnds DEF Came
  <2> QED BY <2>2
<1>9. LongFolded(p, base, ws) \in G[n]
  <2> HIDE DEF G
  <2>1. \A k \in 1 .. n : \A x \in G[k - 1] : PropagateWatcher(x, p, ws[k]) \in G[k]
    BY <1>7
  <2> QED BY <1>3, <1>5, <2>1, LongFold
<1> QED BY <1>8, <1>9 DEF base, ws

\* The clauses of the purgatory watching p.
LEMMA UnariesGoing ==
  ASSUME NEW st, NEW M, NEW p, Midway(st, M, "none", p, << >>), NEW X, Going(st, p, X)
  PROVE  UnaryFolded(p, EmptyUnary(st, p), st.unaryWatches[p]) \in Came(st, M, p, X)
<1> DEFINE base == EmptyUnary(st, p)
           ws == st.unaryWatches[p]
           n == Len(ws)
           G == [k \in 0 .. n |-> {x \in Solver : /\ Midway(x, M, "unary", p, RestFrom(ws, k))
                                                  /\ Going(x, p, X) /\ Carries(st, x)}]
<1>1. st \in Solver /\ p \in Lits /\ Core(st, M)
  BY MidwayFacts
<1>2. ws \in Seq(Watchers) /\ ws = ListOf(st, "unary", p)
  BY <1>1, ListFacts, KindFacts DEF Kinds
<1>3. n \in Nat /\ DOMAIN ws = 1 .. n /\ \A k \in 1 .. n : ws[k] \in Watchers
  BY <1>2, SeqFacts
<1>4. base \in Solver /\ Midway(base, M, "unary", p, ws) /\ Going(base, p, X) /\ Carries(st, base)
  <2>1. /\ base \in Solver /\ SameRest(st, base) /\ SameMemory(st, base)
        /\ OnlyList(st, base, "unary", p) /\ ListOf(base, "unary", p) = << >>
    BY <1>1, EmptyFields
  <2> HIDE DEF base, ws
  <2>2. Midway(base, M, "unary", p, ws)
    BY <2>1, <1>2, VisitStarts
  <2> QED BY <2>1, <2>2, <1>1, GoingSame
<1> HIDE DEF base, ws, n
<1>5. base \in G[0]
  <2>1. RestFrom(ws, 0) = ws
    BY <1>2, ListRest
  <2> QED BY <2>1, <1>3, <1>4
<1>6. ASSUME NEW k \in 1 .. n, NEW x \in G[k - 1]
      PROVE  PropagateUnaryWatcher(x, p, ws[k]) \in G[k]
  <2>1. k - 1 \in 0 .. n /\ k \in 0 .. n
    BY <1>3
  <2>2. x \in Solver /\ Midway(x, M, "unary", p, RestFrom(ws, k - 1)) /\ Going(x, p, X) /\ Carries(st, x)
    BY <1>6, <2>1
  <2>3. RestFrom(ws, k) \in Seq(Watchers) /\ RestFrom(ws, k - 1) = <<ws[k]>> \o RestFrom(ws, k)
    BY <1>2, ListRest DEF n
  <2> DEFINE y == PropagateUnaryWatcher(x, p, ws[k])
             r == RestFrom(ws, k)
             w == ws[k]
  <2>4. w \in Watchers /\ r \in Seq(Watchers) /\ Midway(x, M, "unary", p, <<w>> \o r) /\ Going(x, p, X)
    BY <1>3, <2>2, <2>3
  <2>5. y = PropagateUnaryWatcher(x, p, w)
    OBVIOUS
  <2> HIDE DEF y, r, w
  <2>6. Midway(y, M, "unary", p, r)
    BY ONLY <2>4, <2>5, UnaryStep
  <2>7. Going(y, p, X) /\ Carries(x, y)
    BY ONLY <2>4, <2>5, UnaryGoing
  <2>8. Carries(st, y) /\ y \in Solver
    BY <2>2, <2>6, <2>7, CarriesTransitive, MidwayFacts
  <2> QED BY <2>1, <2>6, <2>7, <2>8 DEF y, r
<1>7. G[n] \subseteq Came(st, M, p, X)
  <2>1. RestFrom(ws, n) = << >> /\ n \in 0 .. n
    BY <1>2, <1>3, ListRest DEF n
  <2>2. ASSUME NEW x \in G[n] PROVE x \in Came(st, M, p, X)
    <3>1. x \in Solver /\ Midway(x, M, "unary", p, << >>) /\ Going(x, p, X) /\ Carries(st, x)
      BY <2>1, <2>2
    <3> QED BY <3>1, VisitEnds DEF Came
  <2> QED BY <2>2
<1>8. UnaryFolded(p, base, ws) \in G[n]
  <2> HIDE DEF G
  <2>1. \A k \in 1 .. n : \A x \in G[k - 1] : PropagateUnaryWatcher(x, p, ws[k]) \in G[k]
    BY <1>6
  <2> QED BY <1>3, <1>5, <2>1, UnaryFold
<1> QED BY <1>7, <1>8 DEF base, ws

\* The clauses left after the binary ones are in the list of the long ones.
LEMMA LongsLeft ==
  ASSUME NEW st, NEW M, NEW p, Midway(st, M, "none", p, << >>), Going(st, p, Nat \ Crefs(st.watchesBin[p]))
  PROVE  Going(st, p, Crefs(st.watches[p]))
<1>1. Core(st, M) /\ st \in Solver /\ p \in Lits /\ Watching(st)
  BY MidwayFacts, ReadyMidway DEF Ready
<1>2. ASSUME NEW cr \in TwoWatched(st), NEW i \in {1, 2}, st.db[cr][i] = -p,
             cr \notin Crefs(st.watchesBin[p])
      PROVE  cr \in Crefs(st.watches[p])
  <2>1. cr \in Live(st) /\ cr \notin st.deleted /\ cr \notin st.oneWatched
    BY <1>1, WatchedFacts DEF Live, TwoWatched, Going, Apart
  <2>2. -st.db[cr][i] = p
    BY <1>1, <1>2, LitFacts
  <2>3. <<"binary", p>> \in Lists(st, cr) \/ <<"long", p>> \in Lists(st, cr)
    BY <2>1, <2>2, ListsFacts
  <2>4. /\ Crefs(st.watchesBin[p]) \ st.deleted = Attached(st, "binary", p)
        /\ Crefs(st.watches[p]) \ st.deleted = Attached(st, "long", p)
    BY <1>1, KindFacts DEF Watching, WellListed, Kinds
  <2> QED BY <1>2, <2>1, <2>3, <2>4 DEF Attached
<1> QED BY <1>2 DEF Going, CompleteBut

\* The next literal is taken off the queue: all the clauses watching it are to
\* be visited.
LEMMA DequeueGoing ==
  ASSUME NEW st, NEW M, Ready(st, M), st.confl = NoRef, st.qhead # Len(st.trail), Going(st, NoLit, {}),
         NEW p, p = st.trail[st.qhead + 1],
         NEW new, new = [st EXCEPT !.qhead = @ + 1]
  PROVE  Going(new, p, Nat) /\ Carries(st, new)
<1>1. Core(st, M) /\ st \in Solver /\ st.qhead \in Nat
  BY CoreFacts DEF Ready, Solver
<1>2. /\ new.qhead = st.qhead + 1 /\ new.confl = NoRef
      /\ SameTrail(st, new) /\ SameMemory(st, new)
  BY <1>1 DEF Solver, SameTrail, SameMemory
<1>3. TwoWatched(new) = TwoWatched(st) /\ new.db = st.db /\ new.trail = st.trail
  BY <1>2 DEF SameMemory, TwoWatched, SameTrail
<1>4. \A l : Value(new, l) = Value(st, l) /\ Level(new, l) = Level(st, l)
  BY <1>2, TrailFrame
<1>5. ASSUME NEW cr \in TwoWatched(new), NEW i \in {1, 2}
      PROVE  (new.db[cr][i] = -p /\ cr \in Nat) \/ Settled(new, cr, new.db[cr][i])
  <2> DEFINE q == st.db[cr][i]
  <2>1. q \in Lits /\ cr \in DOMAIN st.db
    BY <1>1, <1>3, <1>5, WatchedFacts
  <2>2. cr \in Nat
    BY <1>1, <2>1, ClauseFacts
  <2>3. Settled(st, cr, q)
    BY <1>3, <1>5 DEF Going, CompleteBut
  <2>4. CASE Heard(st, q)
    <3>1. Backed(st, cr, Level(st, q))
      BY <2>3, <2>4 DEF Settled
    <3> QED BY <1>3, <1>4, <3>1 DEF Settled, Backed
  <2>5. CASE ~Heard(st, q) /\ Heard(new, q)
    <3>1. PICK k \in 1 .. st.qhead + 1 : st.trail[k] = -q
      BY <1>2, <1>3, <2>5 DEF Heard
    <3>2. k = st.qhead + 1
      BY <1>1, <2>5, <3>1 DEF Heard
    <3>3. q = -p
      BY <2>1, <3>1, <3>2, LitFacts
    <3> QED BY <1>3, <2>2, <3>3
  <2>6. CASE ~Heard(new, q)
    BY <1>3, <2>6 DEF Settled
  <2> QED BY <2>4, <2>5, <2>6
<1>6. Apart(new)
  BY <1>2 DEF SameMemory, Going, Apart
<1>7. Carries(st, new)
  BY <1>2, <1>4 DEF SameMemory, Carries, Holds
<1> QED BY <1>2, <1>5, <1>6, <1>7 DEF Going, CompleteBut

\* All the clauses watching the next literal.
LEMMA NextGoing ==
  ASSUME NEW st, NEW M, Ready(st, M), st.confl = NoRef, st.qhead # Len(st.trail), Going(st, NoLit, {}),
         NEW new, new = PropagateNext(st, st.trail[st.qhead + 1])
  PROVE  Going(new, NoLit, {}) /\ Carries(st, new)
<1> DEFINE p == st.trail[st.qhead + 1]
           a == [st EXCEPT !.qhead = @ + 1]
           b == FoldLeft(PropagateBinary, a, a.watchesBin[p])
           c == IF b.confl # NoRef THEN b ELSE LongFolded(p, EmptyLong(b, p), b.watches[p])
           d == IF c.confl # NoRef THEN c ELSE UnaryFolded(p, EmptyUnary(c, p), c.unaryWatches[p])
<1>1. new = d
  BY DEF PropagateNext, LongFolded, UnaryFolded, EmptyLong, EmptyUnary
<1>2. Midway(a, M, "none", p, << >>) /\ Going(a, p, Nat) /\ Carries(st, a)
  BY DequeueStep, DequeueGoing
<1>3. p \in Lits
  BY <1>2, MidwayFacts
<1> HIDE DEF p, a
<1>4. /\ Midway(b, M, "none", p, << >>) /\ Carries(a, b)
      /\ Going(b, p, Nat \ Crefs(b.watchesBin[p]))
  <2>1. /\ Midway(b, M, "none", p, << >>) /\ Going(b, p, Nat \ Crefs(a.watchesBin[p])) /\ Carries(a, b)
        /\ SameLists(a, b)
    BY <1>2, BinariesGoing
  <2> HIDE DEF b
  <2> QED BY <2>1 DEF SameLists
<1> HIDE DEF b
<1>5. Midway(c, M, "none", p, << >>) /\ Going(c, p, {}) /\ Carries(b, c)
  <2>1. CASE b.confl # NoRef
    <3>1. c = b
      BY <2>1
    <3>2. Level(b, p) = DecisionLevel(b)
      BY <1>4, MidwayFacts
    <3>3. Going(b, p, {})
      BY <1>3, <1>4, <2>1, <3>2, GoingHalted
    <3> HIDE DEF c
    <3> QED BY <3>1, <3>3, <1>4, CarriesSame
  <2>2. CASE b.confl = NoRef
    <3>1. Going(b, p, Crefs(b.watches[p]))
      BY <1>4, LongsLeft
    <3>2. c \in Came(b, M, p, Crefs(b.watches[p]) \ Crefs(b.watches[p]))
      BY <1>4, <2>2, <3>1, LongsGoing
    <3> HIDE DEF c
    <3>3. Crefs(b.watches[p]) \ Crefs(b.watches[p]) = {}
      OBVIOUS
    <3> QED BY <3>2, <3>3 DEF Came
  <2> QED BY <2>1, <2>2
<1> HIDE DEF c
<1>6. Midway(d, M, "none", p, << >>) /\ Going(d, p, {}) /\ Carries(c, d)
  <2>1. CASE c.confl # NoRef
    <3>1. d = c
      BY <2>1
    <3> HIDE DEF d
    <3> QED BY <3>1, <1>5, CarriesSame
  <2>2. CASE c.confl = NoRef
    <3>1. d \in Came(c, M, p, {})
      BY <1>5, <2>2, UnariesGoing
    <3> HIDE DEF d
    <3> QED BY <3>1 DEF Came
  <2> QED BY <2>1, <2>2
<1> HIDE DEF d
<1>7. Carries(st, d)
  BY <1>2, <1>4, <1>5, <1>6, CarriesTransitive
<1>8. Going(d, NoLit, {})
  BY <1>6 DEF Going, CompleteBut
<1> QED BY <1>1, <1>7, <1>8

\* propagate.
LEMMA PropagatedGoing ==
  ASSUME NEW st, NEW M, Sound(st, M), st.confl = NoRef, Going(st, NoLit, {}), NEW new, new = Propagated(st)
  PROVE  Going(new, NoLit, {}) /\ Carries(st, new)
<1> DEFINE base == CleanAll(st)
           ws == [v \in Vars |-> v]
           n == NbVars
           G == [k \in 0 .. n |-> {x \in Solver : Ready(x, M) /\ Going(x, NoLit, {}) /\ Carries(st, x)}]
<1>1. n \in Nat /\ DOMAIN ws = 1 .. n
  BY NbVarsAssumption DEF Vars
<1>2. Core(st, M)
  BY DEF Sound
<1>3. /\ base \in Solver /\ Ready(base, M) /\ Going(base, NoLit, {}) /\ Carries(st, base)
  <2>1. Sound(base, M) /\ Cleans(st, base)
    BY CleanAllStep
  <2> HIDE DEF base
  <2>2. /\ base.dirty = {} /\ base.confl = st.confl /\ SameMemory(st, base) /\ SameTrail(st, base)
        /\ base.qhead = st.qhead
    BY <2>1 DEF Cleans
  <2>3. base \in Solver /\ Ready(base, M)
    BY <2>1, <2>2, CoreFacts DEF Sound, Ready
  <2>4. Grown(st, base)
    BY <2>2, TrailFrame DEF Grown, Holds, SameTrail
  <2> QED BY <1>2, <2>2, <2>3, <2>4, GoingGrown
<1>4. new = PropagateFolded(base, ws)
  BY DEF Propagated, PropagateFolded
<1> HIDE DEF base, ws
<1>5. base \in G[0]
  BY <1>1, <1>3
<1>6. ASSUME NEW k \in 1 .. n, NEW x \in G[k - 1]
      PROVE  PropagateTurn(x) \in G[k]
  <2>1. k - 1 \in 0 .. n /\ k \in 0 .. n /\ k \in Nat
    BY <1>1
  <2>2. x \in Solver /\ Ready(x, M) /\ Going(x, NoLit, {}) /\ Carries(st, x)
    BY <1>6, <2>1
  <2> DEFINE y == PropagateTurn(x)
  <2>3. CASE x.confl # NoRef \/ x.qhead = Len(x.trail)
    <3>1. y = x
      BY <2>3 DEF PropagateTurn
    <3> HIDE DEF y
    <3> QED BY <2>1, <2>2, <3>1 DEF y
  <2>4. CASE ~(x.confl # NoRef \/ x.qhead = Len(x.trail))
    <3>1. y = PropagateNext(x, x.trail[x.qhead + 1])
      BY <2>4 DEF PropagateTurn
    <3> HIDE DEF y
    <3>2. Ready(y, M)
      BY <2>2, <2>4, <3>1, NextStep
    <3>3. Going(y, NoLit, {}) /\ Carries(x, y)
      BY <2>2, <2>4, <3>1, NextGoing
    <3>4. Carries(st, y) /\ y \in Solver
      BY <2>2, <3>2, <3>3, CarriesTransitive, CoreFacts DEF Ready
    <3> QED BY <2>1, <3>2, <3>3, <3>4 DEF y
  <2> QED BY <2>3, <2>4
<1>7. new \in G[n]
  <2> HIDE DEF G
  <2>1. PropagateFolded(base, ws) \in G[n]
    BY <1>1, <1>5, <1>6, PropagateFold
  <2> QED BY <2>1, <1>4
<1> QED BY <1>1, <1>7

-----------------------------------------------------------------------------
(* What the solver remembers of the clauses added.                         *)

\* True without a decision.
Root(st, l) == l \in Lits /\ Value(st, l) = True /\ Level(st, l) = 0

\* A clause added needs no more, or a part of it is in memory.
Kept(st, f) ==
  \/ \E l \in f : -l \in f
  \/ \E l \in f : Root(st, l)
  \/ \E cr \in st.clauses : ToSet(st.db[cr]) \subseteq f

\* What is true without a decision stays so, and a clause of the problem stays
\* in memory until it is true without a decision.
Remembers(st, new) ==
  /\ new.decision = st.decision
  /\ \A l \in Lits : Root(st, l) => Root(new, l)
  /\ \A cr \in st.clauses : \/ \E l \in ToSet(st.db[cr]) : Root(new, l)
                            \/ \E r \in new.clauses : ToSet(new.db[r]) = ToSet(st.db[cr])

LEMMA RemembersSame ==
  ASSUME NEW st
  PROVE  Remembers(st, st)
BY DEF Remembers

LEMMA RemembersTransitive ==
  ASSUME NEW a, NEW b, NEW c, Remembers(a, b), Remembers(b, c)
  PROVE  Remembers(a, c)
<1>1. ASSUME NEW cr \in a.clauses
      PROVE  \/ \E l \in ToSet(a.db[cr]) : Root(c, l)
             \/ \E r \in c.clauses : ToSet(c.db[r]) = ToSet(a.db[cr])
  <2>1. CASE \E l \in ToSet(a.db[cr]) : Root(b, l)
    BY <2>1 DEF Remembers, Root
  <2>2. CASE \E r \in b.clauses : ToSet(b.db[r]) = ToSet(a.db[cr])
    BY <2>2 DEF Remembers
  <2> QED BY <1>1, <2>1, <2>2 DEF Remembers
<1> QED BY <1>1 DEF Remembers

LEMMA KeptStays ==
  ASSUME NEW st, NEW new, Remembers(st, new), NEW f, Kept(st, f)
  PROVE  Kept(new, f)
<1>1. CASE \E l \in f : -l \in f
  BY <1>1 DEF Kept
<1>2. CASE \E l \in f : Root(st, l)
  <2>1. PICK l \in f : Root(st, l)
    BY <1>2
  <2>2. Root(new, l)
    BY <2>1 DEF Remembers, Root
  <2> QED BY <2>1, <2>2 DEF Kept
<1>3. CASE \E cr \in st.clauses : ToSet(st.db[cr]) \subseteq f
  <2>1. PICK cr \in st.clauses : ToSet(st.db[cr]) \subseteq f
    BY <1>3
  <2>2. CASE \E l \in ToSet(st.db[cr]) : Root(new, l)
    BY <2>1, <2>2 DEF Kept
  <2>3. CASE \E r \in new.clauses : ToSet(new.db[r]) = ToSet(st.db[cr])
    BY <2>1, <2>3 DEF Kept
  <2> QED BY <2>1, <2>2, <2>3 DEF Remembers
<1> QED BY <1>1, <1>2, <1>3 DEF Kept

LEMMA HoldsRoots ==
  ASSUME NEW st, NEW new, Holds(st, new), NEW l, Root(st, l)
  PROVE  Root(new, l)
BY SignsDiffer DEF Holds, Root

LEMMA CarriesRemembers ==
  ASSUME NEW M, NEW st, Core(st, M), NEW new, Carries(st, new), new.decision = st.decision
  PROVE  Remembers(st, new)
<1>1. \A l \in Lits : Root(st, l) => Root(new, l)
  BY HoldsRoots DEF Carries
<1>2. st.clauses \subseteq DOMAIN st.db
  BY CoreFacts DEF Stored, Live
<1> QED BY <1>1, <1>2 DEF Remembers, Carries

-----------------------------------------------------------------------------
(* Memory changes and no conflict is noted.                                *)

LEMMA GoingFacts ==
  ASSUME NEW M, NEW st, Core(st, M)
  PROVE  /\ Going(st, NoLit, {}) <=>
              /\ Apart(st)
              /\ \A cr \in TwoWatched(st) : \A i \in {1, 2} : Settled(st, cr, st.db[cr][i])
              /\ st.confl # NoRef => ConflWatched(st)
         /\ st.confl = NoRef => \A cr, q : Settled(st, cr, q) <=> ~Heard(st, q) \/ Backed(st, cr, Level(st, q))
BY DEF Going, CompleteBut, Settled

\* A clause is one that was there before, or settled.
LEMMA GoingMemory ==
  ASSUME NEW M, NEW st, Core(st, M), Going(st, NoLit, {}), st.confl = NoRef,
         NEW new, new.confl = NoRef, Grown(st, new), Apart(new),
         \A x \in TwoWatched(new) : \/ \E cr \in TwoWatched(st) : new.db[x] = st.db[cr]
                                    \/ \A i \in {1, 2} : Settled(new, x, new.db[x][i])
  PROVE  Going(new, NoLit, {})
<1>1. ASSUME NEW x \in TwoWatched(new), NEW i \in {1, 2}
      PROVE  Settled(new, x, new.db[x][i])
  <2>1. CASE \E cr \in TwoWatched(st) : new.db[x] = st.db[cr]
    <3>1. PICK cr \in TwoWatched(st) : new.db[x] = st.db[cr]
      BY <2>1
    <3>2. ToSet(st.db[cr]) \subseteq Lits /\ st.db[cr][i] \in Lits
      BY <3>1, WatchedFacts
    <3>3. Settled(st, cr, st.db[cr][i])
      BY <3>1, GoingFacts
    <3>4. ToSet(new.db[x]) = ToSet(st.db[cr]) /\ new.db[x][i] = st.db[cr][i]
      BY <3>1
    <3>5. Settled(new, x, st.db[cr][i])
      BY <3>2, <3>3, <3>4, SettledGrown
    <3> QED BY <3>4, <3>5
  <2> QED BY <1>1, <2>1
<1> QED BY <1>1 DEF Going, CompleteBut

LEMMA MemoryRemembers ==
  ASSUME NEW st, NEW new, Grown(st, new), new.decision = st.decision,
         \A cr \in st.clauses : \/ \E l \in ToSet(st.db[cr]) : Root(st, l)
                                \/ \E r \in new.clauses : new.db[r] = st.db[cr]
  PROVE  Remembers(st, new)
<1>1. \A l : Root(st, l) => Root(new, l)
  BY HoldsRoots DEF Grown
<1> QED BY <1>1 DEF Remembers

\* What is assigned is the same.
LEMMA SameTrailGrown ==
  ASSUME NEW st, NEW new, new.assigns = st.assigns, new.level = st.level, new.trail = st.trail,
         new.qhead = st.qhead
  PROVE  Grown(st, new)
BY DEF Grown, Holds, Value, Level

\* Clauses are removed: one of the problem, only if it is true.
LEMMA RemoveGoing ==
  ASSUME NEW M, NEW st, Core(st, M), Going(st, NoLit, {}), st.confl = NoRef,
         NEW refs \in SUBSET Live(st),
         \A cr \in refs \cap st.clauses : \E l \in ToSet(st.db[cr]) : Root(st, l),
         NEW new, new = RemoveClauses(st, refs)
  PROVE  Going(new, NoLit, {}) /\ Remembers(st, new)
<1>1. st \in Solver /\ refs \in SUBSET DOMAIN st.db
  BY CoreFacts DEF Live
<1>2. /\ RemovedFrom(st, new, refs)
      /\ new.clauses = st.clauses \ refs /\ new.learnts = st.learnts \ refs
      /\ new.unaryWatchedClauses = st.unaryWatchedClauses \ refs
  BY <1>1, RemoveClausesFields
<1>3. /\ new.db = st.db /\ new.oneWatched = st.oneWatched /\ new.confl = NoRef
      /\ new.decision = st.decision
  BY <1>2 DEF RemovedFrom
<1>4. Grown(st, new)
  BY <1>2, SameTrailGrown DEF RemovedFrom
<1>5. Apart(new)
  BY <1>2, <1>3 DEF Going, Apart
<1>6. TwoWatched(new) \subseteq TwoWatched(st)
  BY <1>2, <1>3 DEF TwoWatched
<1>7. Going(new, NoLit, {})
  BY <1>3, <1>4, <1>5, <1>6, GoingMemory
<1>8. \A cr \in st.clauses : \/ \E l \in ToSet(st.db[cr]) : Root(st, l)
                             \/ \E r \in new.clauses : new.db[r] = st.db[cr]
  BY <1>2, <1>3
<1> QED BY <1>3, <1>4, <1>7, <1>8, MemoryRemembers

\* Clauses have moved.
LEMMA MovedGoing ==
  ASSUME NEW M, NEW st, Core(st, M), Going(st, NoLit, {}), st.confl = NoRef,
         NEW new, NEW to, NEW R, MovedBy(st, new, to, R)
  PROVE  Going(new, NoLit, {}) /\ Remembers(st, new)
<1>1. /\ Live(st) \subseteq R
      /\ \A q, r \in R : to[q] = to[r] => q = r
      /\ \A r \in R : new.db[to[r]] = st.db[r]
      /\ new.oneWatched = {to[r] : r \in st.oneWatched \cap R}
      /\ new.clauses = {to[r] : r \in st.clauses \cap R}
      /\ new.learnts = {to[r] : r \in st.learnts \cap R}
      /\ new.unaryWatchedClauses = {to[r] : r \in st.unaryWatchedClauses \cap R}
      /\ new.assigns = st.assigns /\ new.level = st.level /\ new.trail = st.trail
      /\ new.qhead = st.qhead /\ new.confl = NoRef /\ new.decision = st.decision
  BY DEF MovedBy
<1>2. Grown(st, new)
  BY <1>1, SameTrailGrown
<1>3. Apart(st)
  BY DEF Going
<1>4. Apart(new)
  BY <1>1, <1>3 DEF Apart
<1>5. ASSUME NEW x \in TwoWatched(new)
      PROVE  \E cr \in TwoWatched(st) : new.db[x] = st.db[cr]
  <2>1. CASE x \in new.clauses \cup new.learnts
    BY <1>1, <2>1 DEF TwoWatched
  <2>2. CASE x \in new.unaryWatchedClauses \ new.oneWatched /\ Len(new.db[x]) > 2
    <3>1. PICK r \in st.unaryWatchedClauses \cap R : x = to[r]
      BY <1>1, <2>2
    <3>2. r \notin st.oneWatched /\ new.db[x] = st.db[r]
      BY <1>1, <2>2, <3>1
    <3> QED BY <2>2, <3>1, <3>2 DEF TwoWatched
  <2> QED BY <1>5, <2>1, <2>2 DEF TwoWatched
<1>6. st.clauses \subseteq R
  BY <1>1, CoreFacts DEF Stored
<1>7. Going(new, NoLit, {})
  BY <1>1, <1>2, <1>4, <1>5, GoingMemory
<1>8. \A cr \in st.clauses : \E r \in new.clauses : new.db[r] = st.db[cr]
  BY <1>1, <1>6
<1> QED BY <1>1, <1>2, <1>7, <1>8, MemoryRemembers

\* Memory is compacted, or not.
LEMMA CollectGoing ==
  ASSUME NEW M, NEW st, Sound(st, M), Going(st, NoLit, {}), st.confl = NoRef, NEW new \in MayCollect(st)
  PROVE  Going(new, NoLit, {}) /\ Remembers(st, new)
<1>1. CASE new = st
  BY <1>1, RemembersSame
<1>2. CASE new = GarbageCollect(st, {})
  <2> DEFINE clean == CleanAll(st)
             to == To(clean, {})
             early == MovedEarly(clean, {})
             R == Reached(clean)
  <2>1. new = Relocated(clean, to, early)
    BY <1>2 DEF GarbageCollect
  <2>2. Sound(clean, M) /\ Cleans(st, clean)
    BY CleanAllStep
  <2> HIDE DEF clean
  <2>3. /\ clean.dirty = {} /\ clean.confl = NoRef /\ clean.qhead = st.qhead
        /\ clean.decision = st.decision /\ SameMemory(st, clean) /\ SameTrail(st, clean)
    BY <2>2 DEF Cleans
  <2>4. Going(clean, NoLit, {}) /\ Carries(st, clean) /\ Core(st, M)
    <3>1. Grown(st, clean)
      BY <2>3, SameTrailGrown DEF SameTrail
    <3> QED BY <2>3, <3>1, GoingGrown DEF Sound
  <2>5. Remembers(st, clean)
    BY <2>3, <2>4, CarriesRemembers
  <2> HIDE DEF to, early, R
  <2>6. new \in Solver /\ MovedBy(clean, new, to, R)
    BY <2>1, <2>2, <2>3, RelocatedFields DEF to, early, R
  <2>7. Going(new, NoLit, {}) /\ Remembers(clean, new)
    BY <2>2, <2>3, <2>4, <2>6, MovedGoing DEF Sound
  <2> QED BY <2>5, <2>7, RemembersTransitive
<1> QED BY <1>1, <1>2 DEF MayCollect

-----------------------------------------------------------------------------
(* Backjumps.                                                              *)

\* What was true by then is true after a backjump, if what is false is.
LEMMA CancelSettled ==
  ASSUME NEW st, NEW M, Sound(st, M), HeapFull(st), NEW level \in Nat, level < DecisionLevel(st),
         NEW new, new = CancelUntil(st, level), NEW q \in Lits,
         NEW cr, ToSet(st.db[cr]) \subseteq Lits,
         Level(st, q) <= level /\ Heard(st, q) => Backed(st, cr, Level(st, q))
  PROVE  Settled(new, cr, q)
<1> SUFFICES ASSUME Heard(new, q) PROVE Settled(new, cr, q)
  BY DEF Settled
<1>1. /\ st \in Solver /\ OnTrail(st) /\ Levelled(st) /\ Core(st, M)
  BY CoreFacts DEF Sound
<1>2. /\ Sound(new, M) /\ new.qhead = Len(new.trail) /\ SameMemory(st, new)
      /\ \A l \in Lits : Level(st, l) <= level /\ Value(st, l) # Undef =>
           Value(new, l) = Value(st, l) /\ Level(new, l) = Level(st, l)
      /\ \A l \in Lits : Level(st, l) > level => Value(new, l) = Undef
  BY CancelStep
<1>3. /\ Value(new, q) = False /\ Level(st, q) \in Nat /\ DecisionLevel(st) \in Nat
      /\ \A l \in Lits : Level(st, l) \in Nat
  BY <1>1, <1>2, HeardFacts, TrailFacts DEF Sound
<1>4. Level(st, q) <= level
  BY <1>2, <1>3, SignsDiffer
<1>5. Value(st, q) = False
  <2>1. PICK k \in 1 .. new.qhead : new.trail[k] = -q
    BY DEF Heard
  <2> DEFINE n == st.trailLim[level + 1]
             U == Undone(st, n)
  <2>2. n \in 0 .. Len(st.trail) /\ new.qhead = n /\ \A j \in 1 .. n : new.trail[j] = st.trail[j]
    BY <1>1, CancelFields
  <2>3. k \in DOMAIN st.trail /\ st.trail[k] = -q
    BY <1>1, <2>1, <2>2, TrailFacts
  <2>4. Value(st, -q) = True
    BY <1>1, <2>3 DEF OnTrail
  <2> QED BY <1>1, <2>4, ValueFacts, TrailFacts
<1>6. Heard(st, q)
  BY <1>1, <1>3, <1>4, <1>5, HeardFacts
<1>7. PICK t \in ToSet(st.db[cr]) : Value(st, t) = True /\ Level(st, t) <= Level(st, q)
  BY <1>4, <1>6 DEF Backed
<1>8. Level(st, t) <= level /\ Value(st, t) # Undef /\ t \in Lits
  BY <1>3, <1>4, <1>7, SignsDiffer
<1>9. Value(new, t) = True /\ Level(new, t) = Level(st, t) /\ Level(new, q) = Level(st, q)
  BY <1>2, <1>4, <1>5, <1>7, <1>8, SignsDiffer
<1>10. new.db = st.db
  BY <1>2 DEF SameMemory
<1> QED BY <1>7, <1>9, <1>10 DEF Settled, Backed

\* A backjump to level 0, if there is a level to undo.
LEMMA CancelGoing ==
  ASSUME NEW st, NEW M, Sound(st, M), HeapFull(st), st.confl = NoRef, Going(st, NoLit, {}),
         NEW new, new = CancelUntil(st, 0)
  PROVE  Going(new, NoLit, {}) /\ Remembers(st, new)
<1>1. DecisionLevel(st) \in Nat /\ st \in Solver /\ OnTrail(st) /\ Levelled(st) /\ Core(st, M)
  BY CoreFacts, TrailFacts DEF Sound
<1>2. CASE DecisionLevel(st) <= 0
  <2>1. new = st
    BY <1>2 DEF CancelUntil
  <2> QED BY <2>1, RemembersSame
<1>3. CASE 0 < DecisionLevel(st)
  <2>1. /\ new.confl = NoRef /\ SameMemory(st, new)
        /\ \A l \in Lits : Level(st, l) <= 0 /\ Value(st, l) # Undef =>
             Value(new, l) = Value(st, l) /\ Level(new, l) = Level(st, l)
    BY <1>3, CancelStep
  <2>2. new.decision = st.decision
    <3> DEFINE n == st.trailLim[0 + 1]
               U == Undone(st, n)
    <3> QED BY <1>1, <1>3, CancelFields
  <2>3. TwoWatched(new) = TwoWatched(st) /\ new.db = st.db /\ new.clauses = st.clauses
    BY <2>1 DEF SameMemory, TwoWatched
  <2>4. ASSUME NEW cr \in TwoWatched(new), NEW i \in {1, 2}
        PROVE  Settled(new, cr, new.db[cr][i])
    <3> DEFINE q == st.db[cr][i]
    <3>1. q \in Lits /\ ToSet(st.db[cr]) \subseteq Lits
      BY <1>1, <2>3, <2>4, WatchedFacts
    <3>2. Heard(st, q) => Backed(st, cr, Level(st, q))
      BY <1>1, <2>3, <2>4, GoingFacts
    <3> HIDE DEF q
    <3>3. Settled(new, cr, q)
      BY <1>3, <3>1, <3>2, CancelSettled
    <3> QED BY <2>3, <3>3 DEF q
  <2>5. Apart(new)
    BY <2>1 DEF Going, Apart, SameMemory
  <2>6. Going(new, NoLit, {})
    BY <2>1, <2>4, <2>5 DEF Going, CompleteBut
  <2>7. \A l \in Lits : Root(st, l) => Root(new, l)
    BY <2>1, SignsDiffer DEF Root
  <2> QED BY <2>2, <2>3, <2>6, <2>7 DEF Remembers
<1> QED BY <1>1, <1>2, <1>3

-----------------------------------------------------------------------------
(* Decisions and imports.                                                  *)

LEMMA DecideGoing ==
  ASSUME NEW st, NEW M, Sound(st, M), HeapFull(st), st.confl = NoRef, st.qhead = Len(st.trail),
         Going(st, NoLit, {}),
         NEW p \in Lits, Value(st, p) = Undef, NEW H \in SUBSET Vars,
         NEW new, new = UncheckedEnqueue(NewDecisionLevel(WithHeap(st, H)), p, NoRef)
  PROVE  Going(new, NoLit, {}) /\ Remembers(st, new)
<1> DEFINE h == WithHeap(st, H)
           d == NewDecisionLevel(h)
<1>1. Core(st, M) /\ st \in Solver
  BY CoreFacts DEF Sound
<1>2. /\ h.trail = st.trail /\ h.assigns = st.assigns /\ h.level = st.level /\ h.qhead = st.qhead
      /\ h.confl = st.confl /\ h.decision = st.decision /\ SameMemory(st, h)
      /\ Sound(h, M)
  BY WithHeapStep DEF SameTrail
<1>3. Going(h, NoLit, {}) /\ Carries(st, h)
  <2>1. Grown(st, h)
    BY <1>2, SameTrailGrown
  <2> HIDE DEF h
  <2> QED BY <1>1, <1>2, <2>1, GoingGrown
<1>4. /\ d.trail = h.trail /\ d.assigns = h.assigns /\ d.level = h.level /\ d.qhead = h.qhead
      /\ d.confl = h.confl /\ d.decision = h.decision /\ SameMemory(h, d)
      /\ Sound(d, M)
  <2>1. /\ d.trail = h.trail /\ d.assigns = h.assigns /\ d.level = h.level /\ d.qhead = h.qhead
        /\ d.confl = h.confl /\ d.decision = h.decision /\ SameMemory(h, d)
    BY DEF NewDecisionLevel, SameMemory, WithHeap
  <2>2. Sound(d, M)
    <3> HIDE DEF h
    <3> QED BY <1>2, NewLevelStep
  <2> QED BY <2>1, <2>2
<1>5. new = UncheckedEnqueue(d, p, NoRef)
  OBVIOUS
<1> HIDE DEF h, d
<1>6. Going(d, NoLit, {}) /\ Carries(h, d)
  <2>1. Grown(h, d)
    BY <1>4, SameTrailGrown
  <2> QED BY <1>2, <1>3, <1>4, <2>1, GoingGrown DEF Sound
<1>7. Value(d, p) = Undef /\ NoRef \in Nat /\ d \in Solver /\ d.confl = NoRef /\ Core(d, M)
  BY <1>2, <1>4, CoreFacts DEF Value, NoRef, Sound
<1>8. Going(new, NoLit, {}) /\ Carries(d, new)
  BY <1>5, <1>6, <1>7, GoingEnqueue
<1>9. new.decision = st.decision
  BY <1>2, <1>4, <1>5, <1>7, EnqueueFields
<1>10. Carries(st, new)
  BY <1>3, <1>6, <1>8, CarriesTransitive
<1> QED BY <1>1, <1>8, <1>9, <1>10, CarriesRemembers

\* A clause of which no watched literal is false is attached.
LEMMA AttachGoing ==
  ASSUME NEW st, NEW M, Sound(st, M), st.confl = NoRef, Going(st, NoLit, {}),
         NEW c \in Clauses, DistinctVars(c), NEW cr, cr = NextRef(st),
         NEW a, Allocated(st, a, c, cr), NEW new,
         \/ /\ new = AttachClause(a, cr)
            /\ \/ a.learnts = st.learnts /\ a.clauses = st.clauses /\ Len(c) = 2
               \/ \A i \in {1, 2} : Value(st, c[i]) # False
         \/ new = AttachClausePurgatory(a, cr) /\ a.learnts = st.learnts /\ a.clauses = st.clauses
  PROVE  Going(new, NoLit, {}) /\ Remembers(st, new)
<1>1. Core(st, M) /\ st \in Solver /\ Stored(st)
  BY CoreFacts DEF Sound
<1>2. /\ a \in Solver /\ SameTrail(st, a)
      /\ a.oneWatched = st.oneWatched /\ a.confl = NoRef /\ a.qhead = st.qhead /\ a.decision = st.decision
      /\ cr \notin DOMAIN st.db /\ DOMAIN a.db = DOMAIN st.db \cup {cr} /\ a.db[cr] = c
      /\ \A x \in DOMAIN st.db : a.db[x] = st.db[x]
  BY <1>1, AllocFields
<1>3. \/ a.clauses = st.clauses \cup {cr} /\ a.learnts = st.learnts /\ a.unaryWatchedClauses = st.unaryWatchedClauses
      \/ a.clauses = st.clauses /\ a.learnts = st.learnts \cup {cr} /\ a.unaryWatchedClauses = st.unaryWatchedClauses
      \/ a.clauses = st.clauses /\ a.learnts = st.learnts /\ a.unaryWatchedClauses = st.unaryWatchedClauses \cup {cr}
  BY <1>1 DEF Allocated, Alloc, Solver
<1>4. /\ cr \notin st.clauses /\ cr \notin st.learnts /\ cr \notin st.unaryWatchedClauses /\ cr \notin st.oneWatched
      /\ st.clauses \cup st.learnts \cup st.unaryWatchedClauses \subseteq DOMAIN st.db
  BY <1>1, <1>2 DEF Stored, Live
<1>5. Apart(st)
  BY DEF Going
<1>6. /\ new.db = a.db /\ new.clauses = a.clauses /\ new.learnts = a.learnts
      /\ new.unaryWatchedClauses = a.unaryWatchedClauses
      /\ SameTrail(a, new) /\ new.qhead = a.qhead /\ new.confl = a.confl /\ new.decision = a.decision
      /\ \/ new.oneWatched = a.oneWatched
         \/ /\ new.oneWatched = a.oneWatched \cup {cr}
            /\ a.learnts = st.learnts /\ a.clauses = st.clauses
  <2>1. CASE new = AttachClause(a, cr)
    BY <1>2, <2>1, AttachFields DEF SameMemory, SameRest
  <2>2. CASE new = AttachClausePurgatory(a, cr) /\ a.learnts = st.learnts /\ a.clauses = st.clauses
    BY <1>2, <2>2 DEF AttachClausePurgatory, SameTrail, Solver
  <2> QED BY <2>1, <2>2
<1>7. Grown(st, new)
  <2>1. new.assigns = st.assigns /\ new.level = st.level /\ new.trail = st.trail /\ new.qhead = st.qhead
    BY <1>2, <1>6 DEF SameTrail
  <2> QED BY <2>1, SameTrailGrown
<1>8. Apart(new)
  BY <1>2, <1>3, <1>4, <1>5, <1>6 DEF Apart
<1>9. ASSUME NEW x \in TwoWatched(new)
      PROVE  \/ \E r \in TwoWatched(st) : new.db[x] = st.db[r]
             \/ \A i \in {1, 2} : Settled(new, x, new.db[x][i])
  <2>1. CASE x # cr
    BY <1>2, <1>3, <1>4, <1>6, <1>9, <2>1 DEF TwoWatched
  <2>2. CASE x = cr /\ \A i \in {1, 2} : Value(st, c[i]) # False
    <3>1. new.db[x] = c
      BY <1>2, <1>6, <2>2
    <3>2. ASSUME NEW i \in {1, 2} PROVE Settled(new, x, c[i])
      <4>1. c[i] \in Lits
        BY DEF Clauses
      <4>2. ~Heard(st, c[i])
        BY <1>1, <2>2, <4>1, HeardFacts
      <4> QED BY <1>7, <4>2 DEF Settled, Heard, Grown
    <3> QED BY <3>1, <3>2
  <2>3. CASE x = cr /\ a.learnts = st.learnts /\ a.clauses = st.clauses
             /\ (Len(c) = 2 \/ new = AttachClausePurgatory(a, cr))
    <3>1. x \notin new.clauses \cup new.learnts /\ new.db[x] = c
      BY <1>2, <1>4, <1>6, <2>3
    <3>2. CASE Len(c) = 2
      <4>1. x \in new.unaryWatchedClauses \ new.oneWatched /\ Len(new.db[x]) > 2
        BY <1>9, <3>1 DEF TwoWatched
      <4>2. Len(new.db[x]) = 2
        BY <3>1, <3>2
      <4> QED BY <4>1, <4>2
    <3>3. CASE new = AttachClausePurgatory(a, cr)
      <4>1. cr \in new.oneWatched
        BY <1>2, <3>3 DEF AttachClausePurgatory, Solver
      <4> QED BY <1>9, <2>3, <3>1, <4>1 DEF TwoWatched
    <3> QED BY <2>3, <3>2, <3>3
  <2> QED BY <2>1, <2>2, <2>3
<1>10. Going(new, NoLit, {})
  BY <1>1, <1>2, <1>6, <1>7, <1>8, <1>9, GoingMemory
<1>11. \A x \in st.clauses : \E r \in new.clauses : new.db[r] = st.db[x]
  BY <1>2, <1>3, <1>4, <1>6
<1>12. new.decision = st.decision
  BY <1>2, <1>6
<1> QED BY <1>7, <1>10, <1>11, <1>12, MemoryRemembers

LEMMA ImportGoing ==
  ASSUME NEW st, NEW M, Sound(st, M), st.confl = NoRef, Going(st, NoLit, {}),
         NEW c \in Seq(Lits), Len(c) > 1, DistinctVars(c),
         NEW new, new = Imported(st, c)
  PROVE  Going(new, NoLit, {}) /\ Remembers(st, new)
<1> DEFINE cr == NextRef(st)
           z == [Alloc(st, c) EXCEPT !.unaryWatchedClauses = @ \cup {cr}]
<1>1. c \in Clauses
  BY DEF Clauses
<1>2. z.learnts = st.learnts /\ z.clauses = st.clauses
  BY CoreFacts DEF Alloc, Solver, Sound
<1>3. Allocated(st, z, c, cr)
  BY DEF Allocated
<1>4. new = IF Len(c) = 2 THEN AttachClause(z, cr) ELSE AttachClausePurgatory(z, cr)
  BY DEF Imported
<1>5. cr = NextRef(st)
  OBVIOUS
<1> HIDE DEF z, cr
<1>6. \/ new = AttachClause(z, cr) /\ z.learnts = st.learnts /\ z.clauses = st.clauses /\ Len(c) = 2
      \/ new = AttachClausePurgatory(z, cr) /\ z.learnts = st.learnts /\ z.clauses = st.clauses
  BY <1>2, <1>4
<1> QED BY <1>1, <1>3, <1>5, <1>6, AttachGoing

-----------------------------------------------------------------------------
(* AddClause.                                                              *)

LEMMA WithLiteralsGoing ==
  ASSUME NEW st, NEW M, Taking(st, M), st.confl = NoRef, Going(st, NoLit, {}),
         NEW c \in Seq(Lits), DistinctVars(c), \A m \in M : Satisfies(m, ToSet(c)),
         \A l \in ToSet(c) : Value(st, l) = Undef,
         NEW r, r = WithLiterals(st, c), r.ok
  PROVE  Going(r.s, NoLit, {}) /\ Remembers(st, r.s) /\ Kept(r.s, ToSet(c))
<1>1. Sound(st, M) /\ HeapFull(st) /\ DecisionLevel(st) = 0 /\ st \in Solver /\ Core(st, M)
  BY CoreFacts DEF Taking, Sound
<1>2. Len(c) \in Nat /\ DOMAIN c = 1 .. Len(c) /\ \A i \in DOMAIN c : c[i] \in Lits /\ c[i] \in ToSet(c)
  BY SeqFacts
<1>3. CASE Len(c) = 0
  <2>1. r = [s |-> st, ok |-> FALSE, cr |-> NoRef]
    BY <1>3 DEF WithLiterals
  <2> QED BY <2>1
<1>4. CASE Len(c) = 1
  <2> DEFINE p == c[1]
             a == UncheckedEnqueue(st, p, NoRef)
             b == Propagated(a)
  <2>1. r = [s |-> b, ok |-> b.confl = NoRef, cr |-> NoRef]
    BY <1>4 DEF WithLiterals
  <2>2. p \in Lits /\ Value(st, p) = Undef /\ NoRef \in Nat
    BY <1>2, <1>4 DEF NoRef
  <2>3. ToSet(c) = {p}
    BY <1>2, <1>4, SeqFacts
  <2>4. a = UncheckedEnqueue(st, p, NoRef) /\ b = Propagated(a) /\ r.s = b
    BY <2>1
  <2>5. \A m \in M : Satisfies(m, {p})
    BY <2>3
  <2> HIDE DEF a, p, b
  <2>6. Sound(a, M) /\ HeapFull(a) /\ a.confl = NoRef
    <3>1. /\ p \in Lits /\ Value(st, p) = Undef /\ NoRef \in Nat
          /\ \A m \in M : Satisfies(m, {p})
          /\ a = UncheckedEnqueue(st, p, NoRef)
      BY <2>2, <2>4, <2>5
    <3>2. Sound(st, M) /\ HeapFull(st) /\ DecisionLevel(st) = 0 /\ st \in Solver
      BY <1>1
    <3>3. Sound(a, M) /\ HeapFull(a) /\ a.confl = st.confl /\ a.trailLim = st.trailLim
      BY ONLY <3>1, <3>2, EnqueueFree
    <3> QED BY <3>3
  <2>7. Going(a, NoLit, {}) /\ Carries(st, a)
    BY <1>1, <2>2, <2>4, GoingEnqueue
  <2>8. a.decision = st.decision /\ Root(a, p)
    <3>1. Value(a, p) = True /\ Level(a, p) = 0
      BY <1>1, <2>2, <2>4, EnqueueFrame, CoreFacts
    <3> QED BY <1>1, <2>2, <2>4, <3>1, EnqueueFields DEF Root
  <2>9. Going(b, NoLit, {}) /\ Carries(a, b)
    BY <2>4, <2>6, <2>7, PropagatedGoing
  <2>10. b.decision = a.decision
    <3>1. Sound(a, M) /\ a.confl = NoRef /\ b = Propagated(a)
      BY <2>4, <2>6
    <3>2. Extends(a, b)
      BY ONLY <3>1, PropagatedStep
    <3> QED BY <3>2 DEF Extends
  <2>11. Remembers(st, a) /\ Remembers(a, b)
    BY <1>1, <2>6, <2>7, <2>8, <2>9, <2>10, CarriesRemembers DEF Sound
  <2>12. Root(b, p)
    BY <2>2, <2>8, <2>11 DEF Remembers
  <2> QED BY <2>3, <2>4, <2>9, <2>11, <2>12, RemembersTransitive DEF Kept
<1>5. CASE Len(c) # 0 /\ Len(c) # 1
  <2> DEFINE cr == NextRef(st)
             a == [Alloc(st, c) EXCEPT !.clauses = @ \cup {cr}]
             b == AttachClause(a, cr)
  <2>1. r = [s |-> b, ok |-> TRUE, cr |-> cr]
    BY <1>5 DEF WithLiterals
  <2>2. c \in Clauses /\ Allocated(st, a, c, cr)
    BY <1>2, <1>5 DEF Clauses, Allocated
  <2>3. cr \in a.clauses
    BY <1>1 DEF Alloc, Solver
  <2>4. r.s = b /\ cr = NextRef(st) /\ b = AttachClause(a, cr)
    BY <2>1
  <2> HIDE DEF a, cr, b
  <2>5. \A i \in {1, 2} : Value(st, c[i]) # False
    <3>1. 1 \in DOMAIN c /\ 2 \in DOMAIN c
      BY <1>2, <1>5
    <3> QED BY <1>2, <3>1, SignsDiffer
  <2>6. Going(b, NoLit, {}) /\ Remembers(st, b)
    BY <1>1, <2>2, <2>4, <2>5, AttachGoing
  <2>7. cr \in b.clauses /\ b.db[cr] = c
    <3>1. a \in Solver /\ a.db[cr] = c /\ cr \in DOMAIN a.db
      BY <1>1, <2>2, <2>4, AllocFields
    <3> QED BY <2>3, <2>4, <3>1, AttachFields DEF SameMemory
  <2> QED BY <2>4, <2>6, <2>7 DEF Kept
<1> QED BY <1>2, <1>3, <1>4, <1>5

\* A clause is added.
LEMMA WithClauseGoing ==
  ASSUME NEW st, NEW M, Taking(st, M), st.confl = NoRef, Going(st, NoLit, {}),
         NEW c \in SUBSET Lits, \A m \in M : Satisfies(m, c),
         NEW r, r = WithClause(st, c), r.ok
  PROVE  Going(r.s, NoLit, {}) /\ Remembers(st, r.s) /\ Kept(r.s, c)
<1>1. Sound(st, M) /\ DecisionLevel(st) = 0 /\ st \in Solver /\ Core(st, M)
  BY CoreFacts DEF Taking, Sound
<1>2. CASE \E l \in c : Value(st, l) = True \/ (-l \in c /\ Value(st, l) = Undef)
  <2>1. r = [s |-> st, ok |-> TRUE, cr |-> NoRef]
    BY <1>2 DEF WithClause
  <2>2. Kept(st, c)
    <3>1. PICK l \in c : Value(st, l) = True \/ (-l \in c /\ Value(st, l) = Undef)
      BY <1>2
    <3>2. CASE Value(st, l) = True
      <4>1. Level(st, l) = 0
        BY <1>1, <3>1, <3>2, RootLevels, SignsDiffer
      <4> QED BY <3>1, <3>2, <4>1 DEF Kept, Root
    <3> QED BY <3>1, <3>2 DEF Kept
  <2> QED BY <2>1, <2>2, RemembersSame
<1>3. CASE ~\E l \in c : Value(st, l) = True \/ (-l \in c /\ Value(st, l) = Undef)
  <2> DEFINE free == {l \in c : Value(st, l) = Undef}
             d == Sorted(free)
  <2>1. r = WithLiterals(st, d)
    BY <1>3 DEF WithClause
  <2>2. /\ d \in Seq(Lits) /\ ToSet(d) = free
        /\ \A i, j \in DOMAIN d : d[i] = d[j] => i = j
    BY SortedFacts
  <2>3. DistinctVars(d)
    <3> SUFFICES ASSUME NEW i \in DOMAIN d, NEW j \in DOMAIN d, Var(d[i]) = Var(d[j]) PROVE i = j
      BY DEF DistinctVars
    <3>1. d[i] \in free /\ d[j] \in free
      <4> HIDE DEF d
      <4>1. \A k \in DOMAIN d : d[k] \in ToSet(d)
        BY <2>2, SeqFacts
      <4> QED BY <2>2, <4>1
    <3>2. d[i] = d[j] \/ d[i] = -d[j]
      BY <3>1, SameVar
    <3> QED BY <1>3, <2>2, <3>1, <3>2
  <2>4. \A m \in M : Satisfies(m, ToSet(d))
    <3> SUFFICES ASSUME NEW m \in M PROVE Satisfies(m, ToSet(d))
      OBVIOUS
    <3>1. PICK l \in c : Satisfies(m, {l})
      BY DEF Satisfies
    <3>2. Value(st, l) # True /\ l \in Lits
      BY <1>3
    <3>3. Value(st, l) # False
      <4> SUFFICES ASSUME Value(st, l) = False PROVE FALSE
        OBVIOUS
      <4>1. Level(st, l) = 0
        BY <1>1, <3>2, RootLevels, SignsDiffer
      <4> QED BY <1>1, <3>1, <3>2, <4>1, FalseAtRoot
    <3>4. Value(st, l) = Undef
      BY <1>1, <3>2, <3>3, ValueFacts, TrailFacts, CoreFacts DEF Values
    <3> QED BY <2>2, <3>1, <3>4 DEF Satisfies
  <2>5. \A l \in ToSet(d) : Value(st, l) = Undef
    BY <2>2
  <2> HIDE DEF d
  <2>6. Going(r.s, NoLit, {}) /\ Remembers(st, r.s) /\ Kept(r.s, ToSet(d))
    BY <2>1, <2>2, <2>3, <2>4, <2>5, WithLiteralsGoing
  <2>7. ToSet(d) \subseteq c
    BY <2>2
  <2> QED BY <2>6, <2>7 DEF Kept
<1> QED BY <1>2, <1>3

-----------------------------------------------------------------------------
(* Analyze, when one literal of the clause in conflict is of the last      *)
(* level: the clause learnt is a part of it.                               *)

LEMMA SeeTaken ==
  ASSUME NEW st \in Solver, OnTrail(st), Levelled(st), NEW a, Analysing(st, a), a.seen = {}, a.out = << >>,
         NEW n \in Nat, NEW ws, DOMAIN ws = 1 .. n, \A k \in 1 .. n : FalseBy(st, ws[k], a.index),
         NEW new, new = SeeFolded(st, a, ws)
  PROVE  /\ \A v \in new.seen : \E k \in 1 .. n : v = Var(ws[k])
         /\ \A j \in DOMAIN new.out : \E k \in 1 .. n : new.out[j] = ws[k]
<1> DEFINE G == [i \in 0 .. n |-> {x \in Analysis :
                   /\ Analysing(st, x) /\ x.index = a.index
                   /\ \A v \in x.seen : \E k \in 1 .. n : v = Var(ws[k])
                   /\ \A j \in DOMAIN x.out : \E k \in 1 .. n : x.out[j] = ws[k]}]
<1>1. a \in G[0]
  BY DEF Analysing
<1>2. ASSUME NEW i \in 1 .. n, NEW x \in G[i - 1] PROVE See(st, x, ws[i]) \in G[i]
  <2> DEFINE y == See(st, x, ws[i])
             q == ws[i]
  <2>0. i \in 0 .. n /\ i - 1 \in 0 .. n /\ i \in Nat
    OBVIOUS
  <2>1. /\ Analysing(st, x) /\ x.index = a.index /\ x \in Analysis
        /\ \A v \in x.seen : \E k \in 1 .. n : v = Var(ws[k])
        /\ \A j \in DOMAIN x.out : \E k \in 1 .. n : x.out[j] = ws[k]
    BY <2>0
  <2>2. FalseBy(st, q, x.index) /\ q \in Lits
    BY <2>1 DEF FalseBy
  <2>3. Analysing(st, y) /\ Saw(st, x, y, q)
    BY <2>1, <2>2, SeeStep
  <2>4. /\ y.seen = x.seen \/ y.seen = x.seen \cup {Var(q)}
        /\ y.out = x.out \/ y.out = Append(x.out, q)
    BY <2>1 DEF See, Analysis
  <2>5. x.out \in Seq(Lits) /\ q = ws[i]
    BY <2>1 DEF Analysis
  <2> HIDE DEF y, q
  <2>6. \A v \in y.seen : \E k \in 1 .. n : v = Var(ws[k])
    BY <2>1, <2>4, <2>5
  <2>7. \A j \in DOMAIN y.out : \E k \in 1 .. n : y.out[j] = ws[k]
    <3>1. CASE y.out = x.out
      BY <2>1, <3>1
    <3>2. CASE y.out = Append(x.out, q)
      <4>1. ASSUME NEW j \in DOMAIN y.out PROVE \E k \in 1 .. n : y.out[j] = ws[k]
        <5>1. /\ DOMAIN y.out = 1 .. Len(x.out) + 1 /\ Len(x.out) \in Nat /\ DOMAIN x.out = 1 .. Len(x.out)
              /\ y.out[Len(x.out) + 1] = q /\ \A k \in DOMAIN x.out : y.out[k] = x.out[k]
          BY <2>2, <2>5, <3>2
        <5>2. j = Len(x.out) + 1 \/ j \in DOMAIN x.out
          BY <4>1, <5>1
        <5> QED BY <2>1, <2>5, <5>1, <5>2
      <4> QED BY <4>1
    <3> QED BY <2>4, <3>1, <3>2
  <2>8. y.index = a.index /\ y \in Analysis
    BY <2>1, <2>3 DEF Saw, Analysing
  <2>9. y \in G[i]
    BY <2>0, <2>3, <2>6, <2>7, <2>8
  <2> QED BY <2>9 DEF y, q
<1>3. n \in 0 .. n
  OBVIOUS
<1>4. new \in G[n]
  <2> HIDE DEF G
  <2> QED BY <1>1, <1>2, SeeFold
<1> QED BY <1>3, <1>4

\* One literal of clause c is of the last level, its first one.
Lone(st, c) ==
  Level(st, c[1]) = DecisionLevel(st) /\ \A k \in 2 .. Len(c) : Level(st, c[k]) < DecisionLevel(st)

\* The first literal of the clause is resolved on at once.
Single(a, c) == a.p = -c[1] /\ a.pathC = 0 /\ \A j \in DOMAIN a.out : a.out[j] \in ToSet(c)

LEMMA SingleTurn ==
  ASSUME NEW st, NEW M, Core(st, M), DecisionLevel(st) > 0, Conflicting(st),
         NEW c, c = st.db[st.confl], Lone(st, c),
         NEW new, new = Resolve(st, Unstarted(st))
  PROVE  Resolved(st, M, new) /\ Single(new, c)
<1> DEFINE a == Unstarted(st)
           n == Len(c)
           b == SeeFolded(st, a, c)
           i == Latest(st, b.index, b.seen)
           p == st.trail[i]
<1>1. /\ st \in Solver /\ OnTrail(st) /\ Levelled(st) /\ Implied(st, M)
  BY CoreFacts
<1>2. st.confl \in DOMAIN st.db
  BY DEF Conflicting
<1>3. /\ c \in Seq(Lits) /\ n \in Nat /\ DOMAIN c = 1 .. n /\ 1 \in DOMAIN c
      /\ \A k \in DOMAIN c : c[k] \in Lits /\ c[k] \in ToSet(c)
  BY <1>1, <1>2, ClauseFacts, SeqFacts
<1>4. /\ a.p = NoLit /\ a.confl = st.confl /\ a.index = Len(st.trail) /\ a.visited = {}
      /\ a.seen = {} /\ a.out = << >>
  BY DEF Unstarted
<1>5. Analysing(st, a)
  BY StartAnalysing
<1>6. ASSUME NEW k \in 1 .. n PROVE FalseBy(st, c[k], a.index)
  <2>1. c[k] \in Lits /\ Value(st, c[k]) = False
    BY <1>3 DEF Conflicting
  <2>2. Value(st, -c[k]) = True /\ -c[k] \in Lits
    BY <2>1, <1>1, ValueFacts, LitFacts, TrailFacts
  <2>3. \E j \in DOMAIN st.trail : st.trail[j] = -c[k]
    BY <2>2, <1>1, TrailFacts
  <2>4. DOMAIN st.trail = 1 .. Len(st.trail)
    BY <1>1, TrailFacts
  <2> QED BY <2>1, <2>3, <2>4, <1>4 DEF FalseBy
<1>7. new = [b EXCEPT !.seen = @ \ {Var(p)}, !.pathC = @ - 1, !.p = p, !.index = i - 1,
                      !.confl = st.reason[Var(p)], !.visited = @]
  <2>1. b.index = a.index
    <3> HIDE DEF n, a
    <3> QED BY <1>1, <1>3, <1>5, <1>6, SeeAll
  <2> QED BY <1>4, <2>1 DEF Resolve, SeeFolded, Latest
<1> HIDE DEF n, a
<1>8. /\ Analysing(st, b) /\ b.index = a.index
      /\ \A k \in 1 .. n : Var(c[k]) \in b.seen \/ Level(st, c[k]) = 0
  BY <1>1, <1>3, <1>5, <1>6, SeeAll
<1>9. /\ \A v \in b.seen : \E k \in 1 .. n : v = Var(c[k])
      /\ \A j \in DOMAIN b.out : \E k \in 1 .. n : b.out[j] = c[k]
  BY <1>1, <1>3, <1>4, <1>5, <1>6, SeeTaken
<1> HIDE DEF b
<1>10. b \in Analysis /\ b.pathC \in Nat
  BY <1>8 DEF Analysing, Analysis
<1>11. new.seen = b.seen \ {Var(p)} /\ new.pathC = b.pathC - 1 /\ new.p = p /\ new.out = b.out
  BY <1>7, <1>10 DEF Analysis
<1> HIDE DEF i, p
<1>12. Resolved(st, M, new)
  BY FirstTurn
<1>13. Open(st, b) = {Var(c[1])}
  <2>1. Var(c[1]) \in b.seen /\ st.level[Var(c[1])] = DecisionLevel(st)
    BY <1>3, <1>8 DEF Lone, Level
  <2>2. ASSUME NEW v \in b.seen, st.level[v] = DecisionLevel(st) PROVE v = Var(c[1])
    <3>1. PICK k \in 1 .. n : v = Var(c[k])
      BY <1>9, <2>2
    <3>2. k = 1 \/ k \in 2 .. Len(c)
      BY <1>3, <3>1 DEF n
    <3>3. CASE k \in 2 .. Len(c)
      <4>1. Level(st, c[k]) < DecisionLevel(st) /\ Level(st, c[k]) = DecisionLevel(st)
        BY <2>2, <3>1, <3>3 DEF Lone, Level
      <4>2. DecisionLevel(st) \in Nat
        BY <1>1, TrailFacts
      <4> QED BY <4>1, <4>2
    <3> QED BY <3>1, <3>2, <3>3
  <2> QED BY <2>1, <2>2 DEF Open
<1>14. new.pathC = 0
  <2>1. Cardinality(Open(st, b)) = 1
    BY <1>13, FS_Singleton
  <2>2. b.pathC = 1
    BY <1>8, <2>1 DEF Analysing
  <2> QED BY <1>11, <2>2
<1>15. new.p = -c[1]
  <2>1. Open(st, new) = {} /\ new.p \in Lits /\ Value(st, new.p) = True
    BY <1>1, <1>12, <1>14, OpenFinite DEF Resolved, OnTrail
  <2>2. Var(c[1]) \in b.seen /\ st.level[Var(c[1])] = DecisionLevel(st)
    BY <1>13 DEF Open
  <2>3. Var(c[1]) = Var(new.p)
    BY <1>11, <2>1, <2>2 DEF Open
  <2>4. c[1] \in Lits /\ Value(st, c[1]) = False
    BY <1>3, <1>6 DEF FalseBy
  <2>5. new.p = c[1] \/ new.p = -c[1]
    BY <2>1, <2>3, <2>4, SameVar
  <2> QED BY <2>1, <2>4, <2>5, SignsDiffer
<1>16. \A j \in DOMAIN new.out : new.out[j] \in ToSet(c)
  BY <1>3, <1>9, <1>11
<1> QED BY <1>12, <1>14, <1>15, <1>16 DEF Single

LEMMA SingleUIP ==
  ASSUME NEW st, NEW M, Core(st, M), DecisionLevel(st) > 0, Conflicting(st),
         NEW c, c = st.db[st.confl], Lone(st, c),
         NEW u, u = FirstUIP(st)
  PROVE  Single(u, c)
<1> DEFINE n == Len(st.trail)
           y == Resolve(st, Unstarted(st))
           G == [k \in 0 .. n |-> IF k = 0 THEN {Unstarted(st)} ELSE {y}]
<1>1. /\ st \in Solver /\ OnTrail(st)
  BY CoreFacts
<1>2. n \in Nat /\ DOMAIN st.trail = 1 .. n
  BY <1>1, TrailFacts
<1>3. Resolved(st, M, y) /\ Single(y, c)
  BY SingleTurn
<1> HIDE DEF y
<1>4. y.p # NoLit /\ y.pathC = 0 /\ y.index + 1 \in DOMAIN st.trail
  BY <1>3, LitFacts DEF Resolved, Single, NoLit
<1>5. Unstarted(st) \in G[0]
  BY <1>2
<1>6. ASSUME NEW k \in 1 .. n, NEW x \in G[k - 1] PROVE ResolveTurn(st, x) \in G[k]
  <2>0. k \in 0 .. n /\ k - 1 \in 0 .. n /\ k # 0 /\ k \in Nat
    BY <1>2
  <2>1. x = Unstarted(st) \/ x = y
    BY <2>0
  <2>2. CASE x = Unstarted(st)
    <3>1. x.p = NoLit
      BY <2>2 DEF Unstarted
    <3>2. ResolveTurn(st, x) = y
      BY <2>2, <3>1 DEF ResolveTurn, y
    <3> QED BY <2>0, <3>2
  <2>3. CASE x = y
    <3>1. ResolveTurn(st, x) = y
      BY <1>4, <2>3 DEF ResolveTurn
    <3> QED BY <2>0, <3>1
  <2> QED BY <2>1, <2>2, <2>3
<1>7. FirstUIP(st) = ResolveFolded(st, Unstarted(st), st.trail)
  BY Zenon DEF FirstUIP, ResolveFolded, Unstarted
<1>8. u \in G[n]
  <2> HIDE DEF G
  <2>1. ResolveFolded(st, Unstarted(st), st.trail) \in G[n]
    BY <1>2, <1>5, <1>6, ResolveFold
  <2> QED BY <2>1, <1>7
<1>9. n # 0 /\ n \in 0 .. n
  BY <1>2, <1>4
<1>10. u = y
  BY <1>8, <1>9
<1> QED BY <1>3, <1>10

\* What the minimisations return is a part of the clause.
LEMMA BinaryPart ==
  ASSUME NEW st, NEW M, Sound(st, M), NEW p \in Lits, NEW out, Asserting(st, M, p, out),
         NEW r, r = ResolvedWithBinary(st, p, out)
  PROVE  \A k \in DOMAIN r : \E j \in DOMAIN out : r[k] = out[j]
<1> DEFINE implied == {w.blocker : w \in ToSet(st.watchesBin[p])}
           kept == {k \in DOMAIN out : -out[k] \notin implied}
           n == Cardinality(kept)
           holes == {k \in 1 .. n : k \notin kept}
           g == Places(kept, n, holes)
<1>1. /\ out \in Seq(Lits) /\ Len(out) \in Nat /\ DOMAIN out = 1 .. Len(out)
  BY DEF Asserting
<1>2. Hollow(kept, n, holes)
  BY <1>1 DEF Hollow
<1>3. r = [k \in 1 .. n |-> out[g[k]]]
  <2> DEFINE f(k) == IF k \in kept THEN k ELSE CHOOSE j \in kept : Cardinality({i \in kept : i >= j})
                                                                = Cardinality({i \in holes : i <= k})
  <2>1. r = [k \in 1 .. n |-> out[f(k)]]
    BY DEF ResolvedWithBinary
  <2>2. \A k \in 1 .. n : g[k] = f(k)
    BY DEF Places, Fills
  <2> HIDE DEF f
  <2> QED BY ONLY <2>1, <2>2
<1>4. g = Places(kept, n, holes) /\ kept \subseteq DOMAIN out
  OBVIOUS
<1> HIDE DEF g, holes, n, kept, implied
<1>5. \A k \in 1 .. n : g[k] \in kept
  BY <1>2, <1>4, PlacesFacts
<1> QED BY <1>3, <1>4, <1>5

LEMMA HighestPart ==
  ASSUME NEW st, NEW M, Core(st, M), NEW p, NEW out, Asserting(st, M, p, out),
         NEW r, r = HighestFirst(st, out)
  PROVE  \A k \in DOMAIN r : \E j \in DOMAIN out : r[k] = out[j]
<1>1. /\ out \in Seq(Lits) /\ Len(out) \in Nat /\ DOMAIN out = 1 .. Len(out)
  BY DEF Asserting
<1>2. CASE out = << >>
  BY <1>2 DEF HighestFirst
<1>3. CASE out # << >>
  <2> DEFINE L == {Level(st, q) : q \in ToSet(out)}
             high == Max(L)
             H == {k \in DOMAIN out : Level(st, out[k]) = high}
             j == Min(H)
  <2>1. st \in Solver /\ OnTrail(st) /\ DecisionLevel(st) \in Nat
    BY CoreFacts, TrailFacts
  <2>2. 1 \in DOMAIN out /\ out[1] \in ToSet(out)
    BY <1>1, <1>3 DEF ToSet
  <2>3. \A k \in DOMAIN out : Level(st, out[k]) \in Nat /\ Level(st, out[k]) <= DecisionLevel(st) /\ out[k] \in ToSet(out)
    BY <1>1, <2>1, TrailFacts, SeqFacts DEF Asserting
  <2>4. \A x \in L : \E k \in DOMAIN out : x = Level(st, out[k])
    BY DEF ToSet
  <2>5. r = Swapped(out, 1, j)
    BY <1>3 DEF HighestFirst
  <2>6. Level(st, out[1]) \in L
    BY <2>2
  <2> HIDE DEF L
  <2>7. L \subseteq Nat /\ L # {} /\ \A x \in L : x <= DecisionLevel(st)
    BY <2>3, <2>4, <2>6
  <2>8. high \in L
    BY <2>1, <2>7, MaxFacts
  <2> HIDE DEF high
  <2>9. H \subseteq Nat /\ H # {} /\ H \subseteq DOMAIN out
    BY <1>1, <2>4, <2>8
  <2> HIDE DEF H
  <2>10. j \in DOMAIN out
    BY <2>9, MinFacts
  <2> HIDE DEF j
  <2>11. r \in Seq(Lits) /\ ToSet(r) = ToSet(out)
    BY <1>1, <2>2, <2>5, <2>10, SwappedFacts
  <2>12. \A k \in DOMAIN r : r[k] \in ToSet(r)
    BY <2>11, SeqFacts
  <2> QED BY <1>1, <2>11, <2>12, SeqFacts
<1> QED BY <1>2, <1>3

\* What holds of the first literal and of the others holds of all.
LEMMA ConsPart ==
  ASSUME NEW q \in Lits, NEW o \in Seq(Lits), NEW d, d = ConsOf(q, o),
         NEW T, q \in T, \A k \in DOMAIN o : o[k] \in T
  PROVE  d[1] = q /\ \A k \in DOMAIN d : d[k] \in T
<1>1. DOMAIN d = 1 .. Len(o) + 1 /\ DOMAIN o = 1 .. Len(o) /\ Len(o) \in Nat
  BY ConsFacts, SMTT(30)
<1>2. d[1] = q /\ Len(d) = Len(o) + 1
  BY ConsFacts, SMTT(30)
<1>3. ASSUME NEW k \in 2 .. Len(o) + 1 PROVE k - 1 \in DOMAIN o /\ d[k] = o[k - 1]
  <2>1. d[k] = (<<q>> \o o)[k] /\ k - 1 \in 1 .. Len(o) /\ k \in Nat
    BY <1>1 DEF ConsOf
  <2> QED BY <1>1, <2>1
<1>4. \A k \in DOMAIN d : k = 1 \/ k \in 2 .. Len(o) + 1
  BY <1>1
<1> QED BY <1>1, <1>2, <1>3, <1>4

LEMMA SingleLearnt ==
  ASSUME NEW st, NEW M, Sound(st, M), DecisionLevel(st) > 0, Conflicting(st),
         NEW c, c = st.db[st.confl], Lone(st, c),
         NEW a, a = Analyze(st)
  PROVE  a.learnt[1] = c[1] /\ \A k \in DOMAIN a.learnt : a.learnt[k] \in ToSet(c)
<1> DEFINE u == FirstUIP(st)
           m == Minimized(st, u)
           o1 == ResolvedWithBinary(st, u.p, m.out)
           o == HighestFirst(st, o1)
<1>1. a.learnt = <<-u.p>> \o o
  BY DEF Analyze
<1>2. Core(st, M) /\ st \in Solver /\ OnTrail(st) /\ st.confl \in DOMAIN st.db
  BY CoreFacts DEF Sound, Conflicting
<1>3. Resolved(st, M, u) /\ Open(st, u) = {} /\ Single(u, c)
  BY <1>2, FirstUIPFacts, SingleUIP
<1> HIDE DEF u
<1>4. m \in Minimization /\ Asserting(st, M, u.p, m.out)
  BY <1>2, <1>3, MinimizedFacts
<1>5. u.p \in Lits /\ Analysing(st, u) /\ u.out \in Seq(Lits)
  BY <1>3 DEF Resolved, Analysing, Analysis
<1>6. \A i \in DOMAIN m.out : m.out[i] \in ToSet(c)
  <2>1. Minimizing(st, u, Len(u.out), m)
    BY <1>2, <1>3, <1>5, MinimizedFold
  <2>2. \A i \in DOMAIN m.out : \E j \in 1 .. Len(u.out) : m.out[i] = u.out[j]
    BY <2>1 DEF Minimizing
  <2>3. DOMAIN u.out = 1 .. Len(u.out)
    BY <1>5
  <2> QED BY <1>3, <2>2, <2>3 DEF Single
<1> DEFINE p == u.p
           x == m.out
<1>7. p \in Lits /\ p = u.p /\ Asserting(st, M, p, x) /\ o1 = ResolvedWithBinary(st, p, x)
      /\ \A i \in DOMAIN x : x[i] \in ToSet(c)
  BY <1>4, <1>5, <1>6
<1>8. o = HighestFirst(st, o1)
  OBVIOUS
<1> HIDE DEF m, p, x, o1, o
<1>9. Asserting(st, M, p, o1) /\ \A k \in DOMAIN o1 : \E j \in DOMAIN x : o1[k] = x[j]
  BY <1>7, ResolvedWithBinaryStep, BinaryPart
<1>10. Asserting(st, M, p, o) /\ \A k \in DOMAIN o : \E j \in DOMAIN o1 : o[k] = o1[j]
  BY <1>2, <1>8, <1>9, HighestFirstStep, HighestPart
<1>11. o \in Seq(Lits)
  BY <1>10 DEF Asserting
<1>12. c[1] \in Lits /\ c[1] \in ToSet(c) /\ -(-c[1]) = c[1]
  BY <1>2, ClauseFacts, SeqFacts, LitFacts
<1> DEFINE q == c[1]
           d == a.learnt
<1>13. q \in Lits /\ q \in ToSet(c) /\ d = ConsOf(q, o) /\ q = c[1]
  BY <1>1, <1>3, <1>12 DEF ConsOf, Single
<1>14. d = a.learnt
  OBVIOUS
<1> HIDE DEF q, d
<1> DEFINE T == ToSet(c)
<1>15. q \in Lits /\ q \in T /\ d = ConsOf(q, o) /\ o \in Seq(Lits) /\ \A k \in DOMAIN o : o[k] \in T
  BY <1>7, <1>9, <1>10, <1>11, <1>13
<1> HIDE DEF T
<1>16. d[1] = q /\ \A k \in DOMAIN d : d[k] \in T
  BY ONLY <1>15, ConsPart
<1> QED BY <1>13, <1>14, <1>16 DEF T

-----------------------------------------------------------------------------
(* Learn.                                                                  *)

\* Reordered binary clauses watch the same literals.
LEMMA VisitedFields ==
  ASSUME NEW st, NEW M, Core(st, M), NEW V, NEW new, new = Visited(st, V)
  PROVE  /\ new.clauses = st.clauses /\ new.learnts = st.learnts
         /\ new.unaryWatchedClauses = st.unaryWatchedClauses /\ new.oneWatched = st.oneWatched
         /\ new.qhead = st.qhead /\ DOMAIN new.db = DOMAIN st.db
         /\ \A cr \in DOMAIN st.db :
              /\ ToSet(new.db[cr]) = ToSet(st.db[cr]) /\ Len(new.db[cr]) = Len(st.db[cr])
              /\ \A i \in {1, 2} : new.db[cr][i] = st.db[cr][1] \/ new.db[cr][i] = st.db[cr][2]
<1>1. st \in Solver
  BY CoreFacts
<1>2. /\ new.clauses = st.clauses /\ new.learnts = st.learnts
      /\ new.unaryWatchedClauses = st.unaryWatchedClauses /\ new.oneWatched = st.oneWatched
      /\ new.qhead = st.qhead
      /\ new.db = [cr \in DOMAIN st.db |-> IF cr \in V THEN TrueFirst(st, cr) ELSE st.db[cr]]
  BY <1>1 DEF Visited, Solver
<1>3. ASSUME NEW cr \in DOMAIN st.db
      PROVE  /\ ToSet(new.db[cr]) = ToSet(st.db[cr]) /\ Len(new.db[cr]) = Len(st.db[cr])
             /\ \A i \in {1, 2} : new.db[cr][i] = st.db[cr][1] \/ new.db[cr][i] = st.db[cr][2]
  <2> DEFINE b == st.db[cr]
             c == new.db[cr]
  <2>1. b \in Seq(Lits) /\ 1 \in DOMAIN b /\ 2 \in DOMAIN b
    BY <1>1, ClauseFacts
  <2>2. c = b \/ c = Swapped(b, 1, 2)
    BY <1>2 DEF TrueFirst
  <2> HIDE DEF b, c
  <2>3. CASE c = Swapped(b, 1, 2)
    <3>1. ToSet(c) = ToSet(b) /\ Len(c) = Len(b) /\ c[1] = b[2] /\ c[2] = b[1]
      BY <2>1, <2>3, SwappedFacts
    <3> QED BY <3>1 DEF b, c
  <2>4. CASE c = b
    BY <2>4 DEF b, c
  <2> QED BY <2>2, <2>3, <2>4
<1>4. DOMAIN new.db = DOMAIN st.db
  BY <1>2
<1> QED BY <1>2, <1>3, <1>4

\* A literal is assigned that was free.
LEMMA EnqueueGrown ==
  ASSUME NEW M, NEW st, Core(st, M), NEW q \in Lits, Value(st, q) = Undef, NEW from \in Nat,
         NEW new, new = UncheckedEnqueue(st, q, from)
  PROVE  Grown(st, new)
<1>1. st \in Solver /\ OnTrail(st) /\ Pending(st) /\ st.qhead \in Nat
  BY CoreFacts DEF Solver
<1>2. new.qhead = st.qhead
  BY <1>1, EnqueueFields
<1>3. Holds(st, new) /\ \A k \in DOMAIN st.trail : new.trail[k] = st.trail[k]
  BY <1>1, EnqueueFrame DEF Holds
<1>4. 1 .. st.qhead \subseteq DOMAIN st.trail
  BY <1>1, TrailFacts DEF Pending
<1> QED BY <1>2, <1>3, <1>4 DEF Grown

LEMMA GrownTransitive ==
  ASSUME NEW a, NEW b, NEW c, Grown(a, b), Grown(b, c)
  PROVE  Grown(a, c)
BY DEF Grown, Holds

\* The clause in conflict forces its first literal after the backjump, if it is
\* the only one of the last level.
LEMMA ConflictForces ==
  ASSUME NEW st, NEW M, Sound(st, M), DecisionLevel(st) > 0, Conflicting(st),
         ConflWatched(st), st.confl \in TwoWatched(st),
         NEW c, c = st.db[st.confl], Level(st, c[2]) # DecisionLevel(st),
         NEW a, a = Analyze(st), Taught(st, M, a)
  PROVE  a.learnt[1] = c[1] /\ a.btlevel <= Level(st, c[2])
<1>1. Core(st, M) /\ st \in Solver /\ OnTrail(st) /\ Levelled(st)
  BY CoreFacts DEF Sound
<1>2. /\ Level(st, c[1]) = DecisionLevel(st)
      /\ \A k \in 2 .. Len(c) : Level(st, c[k]) <= Level(st, c[2])
  BY DEF ConflWatched
<1>3. /\ c \in Seq(Lits) /\ Len(c) \in Nat /\ DOMAIN c = 1 .. Len(c) /\ Len(c) >= 2
      /\ \A i \in DOMAIN c : c[i] \in Lits /\ c[i] \in ToSet(c)
      /\ \A x : x \in ToSet(c) <=> \E i \in DOMAIN c : c[i] = x
  BY <1>1, ClauseFacts, SeqFacts DEF Conflicting
<1>4. DecisionLevel(st) \in Nat /\ \A i \in DOMAIN c : Level(st, c[i]) \in Nat /\ Level(st, c[i]) <= DecisionLevel(st)
  <2>1. \A q \in ToSet(c) : Value(st, q) = False
    BY DEF Conflicting
  <2> QED BY <1>1, <1>3, <2>1, TrailFacts, LevelsBounded, SignsDiffer
<1>5. Lone(st, c)
  <2>1. 2 \in DOMAIN c /\ \A k \in 2 .. Len(c) : k \in DOMAIN c
    BY <1>3
  <2> QED BY <1>2, <1>4, <2>1 DEF Lone
<1>6. a.learnt[1] = c[1] /\ \A k \in DOMAIN a.learnt : a.learnt[k] \in ToSet(c)
  BY <1>5, SingleLearnt
<1>7. /\ a.btlevel \in Nat /\ a.btlevel < DecisionLevel(st) /\ Len(a.learnt) \in Nat \ {0}
      /\ a.learnt \in Seq(Lits)
      /\ IF Len(a.learnt) = 1 THEN a.btlevel = 0 ELSE Level(st, a.learnt[2]) = a.btlevel
  BY DEF Taught
<1>8. CASE Len(a.learnt) = 1
  <2>1. 2 \in DOMAIN c
    BY <1>3
  <2> QED BY <1>4, <1>6, <1>7, <1>8, <2>1
<1>9. CASE Len(a.learnt) # 1
  <2> DEFINE n == Len(a.learnt)
  <2>0. DOMAIN a.learnt = 1 .. n /\ n \in Nat \ {0} /\ n # 1
    BY <1>7, <1>9, SeqFacts
  <2> HIDE DEF n
  <2>1. 2 \in DOMAIN a.learnt
    BY ONLY <2>0
  <2>2. PICK i \in DOMAIN c : c[i] = a.learnt[2]
    BY <1>3, <1>6, <2>1
  <2>3. Level(st, c[i]) < DecisionLevel(st) /\ Level(st, c[i]) = a.btlevel
    BY <1>7, <1>9, <2>2
  <2>4. i # 1
    BY <1>2, <1>4, <2>3
  <2>5. i \in 2 .. Len(c)
    BY <1>3, <2>4
  <2> QED BY <1>2, <1>6, <2>3, <2>5
<1> QED BY <1>8, <1>9

\* What was settled before a backjump is settled after it, but for a clause in
\* conflict that forces its first literal.
LEMMA BackjumpSettled ==
  ASSUME NEW st, NEW M, Sound(st, M), HeapFull(st), DecisionLevel(st) > 0, Conflicting(st),
         Going(st, NoLit, {}), NEW V, NEW t, t = Visited(st, V),
         NEW b \in Nat, b < DecisionLevel(st), NEW u, u = CancelUntil(t, b),
         NEW x \in TwoWatched(st), NEW i \in {1, 2}
  PROVE  \/ Settled(u, x, t.db[x][i])
         \/ /\ x = st.confl /\ t.db[x][i] = st.db[x][2]
            /\ Level(st, st.db[x][2]) # DecisionLevel(st)
<1> DEFINE q == t.db[x][i]
<1>1. /\ Core(st, M) /\ x \in DOMAIN st.db /\ ToSet(st.db[x]) \subseteq Lits
      /\ \A j \in {1, 2} : st.db[x][j] \in Lits
  BY WatchedFacts DEF Sound
<1>2. /\ Sound(t, M) /\ SameTrail(st, t) /\ t.confl = NoRef /\ t.qhead = st.qhead
      /\ t.decision = st.decision /\ t.orderHeap = st.orderHeap
      /\ ToSet(t.db[x]) = ToSet(st.db[x]) /\ (q = st.db[x][1] \/ q = st.db[x][2])
  BY <1>1, VisitedStep, VisitedFields
<1>3. /\ \A l : Value(t, l) = Value(st, l) /\ Level(t, l) = Level(st, l)
      /\ DecisionLevel(t) = DecisionLevel(st) /\ t.trail = st.trail
  BY <1>2, TrailFrame DEF SameTrail
<1>4. HeapFull(t)
  BY <1>2 DEF HeapFull, SameTrail
<1>5. q \in Lits /\ Level(st, q) \in Nat /\ DecisionLevel(st) \in Nat
  BY <1>1, <1>2, CoreFacts, TrailFacts
<1>6. ASSUME Level(t, q) <= b /\ Heard(t, q) => Backed(t, x, Level(t, q))
      PROVE  Settled(u, x, q)
  <2> HIDE DEF q
  <2>1. ToSet(t.db[x]) \subseteq Lits
    BY <1>1, <1>2
  <2> QED BY <1>2, <1>3, <1>4, <1>5, <1>6, <2>1, CancelSettled
<1>7. CASE Level(st, q) = DecisionLevel(st)
  <2>1. ~(Level(t, q) <= b)
    BY <1>3, <1>5, <1>7
  <2> QED BY <1>6, <2>1
<1>8. CASE Level(st, q) # DecisionLevel(st) /\ x # st.confl
  <2>1. Settled(st, x, q)
    BY <1>2 DEF Going, CompleteBut
  <2>2. ~Heard(st, q) \/ Backed(st, x, Level(st, q))
    BY <1>8, <2>1 DEF Settled
  <2>3. Heard(t, q) => Heard(st, q)
    BY <1>2, <1>3 DEF Heard
  <2>4. Backed(st, x, Level(st, q)) => Backed(t, x, Level(t, q))
    BY <1>2, <1>3 DEF Backed
  <2> QED BY <1>6, <2>2, <2>3, <2>4
<1>9. CASE Level(st, q) # DecisionLevel(st) /\ x = st.confl
  <2>1. Level(st, st.db[x][1]) = DecisionLevel(st)
    <3>1. st.confl # NoRef
      BY <1>9, WatchedFacts, <1>1
    <3> QED BY <1>9, <3>1 DEF Going, ConflWatched
  <2> QED BY <1>2, <1>9, <2>1
<1> QED BY <1>7, <1>8, <1>9

\* What learning clause c changes after the backjump.
LEMMA LearnedFields ==
  ASSUME NEW st, NEW M, Sound(st, M), HeapFull(st), DecisionLevel(st) > 0,
         NEW a, Taught(st, M, a), NEW c, c = a.learnt, NEW b, b = a.btlevel,
         NEW t, t = Visited(st, a.visited), NEW u, u = CancelUntil(t, b), NEW cr, cr = NextRef(st),
         NEW new, new = Learned(st, a.visited, c, b)
  PROVE  /\ Grown(u, new) /\ Value(new, c[1]) = True /\ Level(new, c[1]) = b
         /\ new.decision = st.decision
         /\ new.clauses = st.clauses /\ new.unaryWatchedClauses = st.unaryWatchedClauses
         /\ new.oneWatched = st.oneWatched
         /\ \A x \in DOMAIN st.db : new.db[x] = t.db[x]
         /\ cr \notin DOMAIN st.db
         /\ \/ new.learnts = st.learnts
            \/ Len(c) # 1 /\ new.learnts = st.learnts \cup {cr} /\ new.db[cr] = c
<1> DEFINE p == c[1]
           f == [Alloc(u, c) EXCEPT !.learnts = @ \cup {cr}]
           g == AttachClause(f, cr)
<1>1. /\ b \in Nat /\ b < DecisionLevel(st) /\ c \in Seq(Lits) /\ Len(c) \in Nat \ {0} /\ DistinctVars(c)
      /\ \A m \in M : Satisfies(m, ToSet(c))
      /\ Level(st, p) = DecisionLevel(st)
  BY DEF Taught
<1>2. p \in Lits
  BY <1>1
<1>3. new = IF Len(c) = 1 THEN UncheckedEnqueue(u, p, NoRef) ELSE UncheckedEnqueue(g, p, cr)
  BY DEF Learned
<1>4. f = [Alloc(u, c) EXCEPT !.learnts = @ \cup {cr}] /\ g = AttachClause(f, cr) /\ p = c[1]
  OBVIOUS
<1> HIDE DEF p, f, g
<1>5. /\ Core(st, M) /\ st \in Solver /\ DecisionLevel(st) \in Nat
  BY CoreFacts, TrailFacts DEF Sound
<1>6. /\ Sound(t, M) /\ SameTrail(st, t) /\ t.confl = NoRef /\ Len(t.db) = Len(st.db)
      /\ t.decision = st.decision /\ t.orderHeap = st.orderHeap
  BY VisitedStep
<1>7. /\ t.clauses = st.clauses /\ t.learnts = st.learnts
      /\ t.unaryWatchedClauses = st.unaryWatchedClauses /\ t.oneWatched = st.oneWatched
      /\ DOMAIN t.db = DOMAIN st.db
  BY <1>5, VisitedFields
<1>8. /\ \A l : Value(t, l) = Value(st, l) /\ Level(t, l) = Level(st, l)
      /\ DecisionLevel(t) = DecisionLevel(st)
  BY <1>6, TrailFrame
<1>9. HeapFull(t)
  BY <1>6 DEF HeapFull, SameTrail
<1>10. /\ Sound(u, M) /\ DecisionLevel(u) = b /\ u.confl = NoRef /\ SameMemory(t, u)
       /\ Value(u, p) = Undef
  <2>1. /\ Sound(u, M) /\ DecisionLevel(u) = b /\ u.confl = t.confl /\ SameMemory(t, u)
        /\ \A l \in Lits : Level(t, l) > b => Value(u, l) = Undef
    BY <1>1, <1>6, <1>8, <1>9, CancelStep
  <2> QED BY <1>1, <1>2, <1>5, <1>6, <1>8, <2>1
<1>11. u.decision = st.decision
  <2> DEFINE n == t.trailLim[b + 1]
             U == Undone(t, n)
  <2>1. t \in Solver /\ OnTrail(t) /\ Levelled(t)
    BY <1>6, CoreFacts DEF Sound
  <2> QED BY <1>1, <1>6, <1>8, <2>1, CancelFields
<1>12. u \in Solver /\ Core(u, M) /\ OnTrail(u)
  BY <1>10, CoreFacts DEF Sound
<1>13. cr = NextRef(u) /\ cr \notin DOMAIN st.db
  <2>1. cr = NextRef(u)
    BY <1>6, <1>10 DEF NextRef, SameMemory
  <2>2. DOMAIN st.db = 1 .. Len(st.db) /\ Len(st.db) \in Nat
    BY <1>5, SeqFacts DEF Solver
  <2> QED BY <2>1, <2>2 DEF NextRef
<1>14. CASE Len(c) = 1
  <2>1. new = UncheckedEnqueue(u, p, NoRef) /\ NoRef \in Nat
    BY <1>3, <1>14 DEF NoRef
  <2>2. Grown(u, new)
    BY <1>2, <1>10, <1>12, <2>1, EnqueueGrown
  <2>3. SameMemory(u, new) /\ new.decision = u.decision /\ Value(new, p) = True /\ Level(new, p) = b
    BY <1>2, <1>10, <1>12, <2>1, EnqueueFields, EnqueueFrame
  <2>4. new.db = t.db
    BY <2>3, <1>10 DEF SameMemory
  <2> QED BY <1>4, <1>7, <1>10, <1>11, <1>13, <2>2, <2>3, <2>4 DEF SameMemory
<1>15. CASE Len(c) # 1
  <2>1. new = UncheckedEnqueue(g, p, cr)
    BY <1>3, <1>15
  <2>2. c \in Clauses
    <3> DEFINE n == Len(c)
    <3>1. n \in Nat \ {0} /\ n # 1
      BY <1>1, <1>15
    <3> HIDE DEF n
    <3>2. n >= 2
      BY ONLY <3>1
    <3> QED BY <3>2, <1>1 DEF n, Clauses
  <2>3. Allocated(u, f, c, cr)
    BY <1>4 DEF Allocated
  <2>4. /\ f \in Solver /\ SameTrail(u, f) /\ f.oneWatched = u.oneWatched /\ f.confl = u.confl
        /\ f.qhead = u.qhead /\ f.decision = u.decision
        /\ cr \in Nat \ {0} /\ cr \in DOMAIN f.db /\ f.db[cr] = c
        /\ \A x \in DOMAIN u.db : f.db[x] = u.db[x]
    BY <1>12, <1>13, <2>2, <2>3, AllocFields
  <2>5. f.clauses = u.clauses /\ f.learnts = u.learnts \cup {cr} /\ f.unaryWatchedClauses = u.unaryWatchedClauses
    BY <1>4, <1>12 DEF Alloc, Solver
  <2>6. Sound(g, M) /\ g \in Solver /\ SameRest(f, g) /\ SameMemory(f, g)
    <3>1. /\ Core(f, M) /\ cr \in Live(f) /\ cr \notin f.oneWatched
          /\ \A kind \in Kinds : \A l \in Lits : ListedBut(f, cr, kind, l, ListOf(f, kind, l))
      BY <1>1, <1>10, <1>13, <2>2, <2>3, AllocStep
    <3>2. Sound(g, M) /\ SameRest(f, g) /\ SameMemory(f, g)
      BY <3>1, <1>4, AttachStep
    <3> QED BY <3>2, CoreFacts DEF Sound
  <2>8. Grown(u, g)
    <3>1. g.assigns = u.assigns /\ g.level = u.level /\ g.trail = u.trail /\ g.qhead = u.qhead
      BY <2>4, <2>6 DEF SameRest, SameTrail
    <3> QED BY <3>1, SameTrailGrown
  <2>9. Value(g, p) = Undef /\ DecisionLevel(g) = b /\ Core(g, M) /\ OnTrail(g)
    <3>1. g.assigns = u.assigns /\ g.trailLim = u.trailLim
      BY <2>4, <2>6 DEF SameRest, SameTrail
    <3> QED BY <3>1, <1>10, <2>6, CoreFacts DEF Value, DecisionLevel, Sound
  <2>10. Grown(g, new)
    BY <1>2, <2>1, <2>4, <2>9, EnqueueGrown
  <2>11. SameMemory(g, new) /\ new.decision = g.decision /\ Value(new, p) = True /\ Level(new, p) = b
    BY <1>2, <2>1, <2>4, <2>6, <2>9, EnqueueFields, EnqueueFrame
  <2>12. Grown(u, new)
    BY <2>8, <2>10, GrownTransitive
  <2>13. new.decision = st.decision
    BY <1>11, <2>4, <2>6, <2>11 DEF SameRest
  <2>14. /\ new.clauses = st.clauses /\ new.unaryWatchedClauses = st.unaryWatchedClauses
         /\ new.oneWatched = st.oneWatched /\ new.learnts = st.learnts \cup {cr} /\ new.db[cr] = c
    BY <1>7, <1>10, <2>4, <2>5, <2>6, <2>11 DEF SameMemory
  <2>15. \A x \in DOMAIN st.db : new.db[x] = t.db[x]
    BY <1>7, <1>10, <2>4, <2>6, <2>11 DEF SameMemory
  <2> QED BY <1>4, <1>13, <1>15, <2>11, <2>12, <2>13, <2>14, <2>15
<1> QED BY <1>14, <1>15

\* The backjump settles what the conflict had left, and the clause learnt.
LEMMA LearnGoing ==
  ASSUME NEW st, NEW M, Sound(st, M), HeapFull(st), DecisionLevel(st) > 0, Conflicting(st),
         Going(st, NoLit, {}), NEW a, a = Analyze(st), Taught(st, M, a),
         NEW c, c = a.learnt, NEW b, b = a.btlevel,
         NEW new, new = Learned(st, a.visited, c, b), Sound(new, M), new.confl = NoRef
  PROVE  Going(new, NoLit, {}) /\ Remembers(st, new)
<1> DEFINE t == Visited(st, a.visited)
           u == CancelUntil(t, b)
           cr == NextRef(st)
<1>1. /\ b \in Nat /\ b < DecisionLevel(st) /\ c \in Seq(Lits) /\ Len(c) \in Nat \ {0}
      /\ IF Len(c) = 1 THEN b = 0 ELSE Level(st, c[2]) = b /\ Value(st, c[2]) = False
  <2>1. /\ b \in Nat /\ b < DecisionLevel(st) /\ c \in Seq(Lits) /\ Len(c) \in Nat \ {0}
        /\ \A k \in 2 .. Len(c) : Value(st, c[k]) = False
        /\ IF Len(c) = 1 THEN b = 0 ELSE Level(st, c[2]) = b
    BY DEF Taught
  <2> DEFINE n == Len(c)
  <2>2. n \in Nat \ {0} /\ (n = 1 \/ 2 \in 2 .. n)
    <3>1. n \in Nat \ {0}
      BY <2>1
    <3> HIDE DEF n
    <3> QED BY ONLY <3>1
  <2> QED BY <2>1, <2>2
<1>2. t = Visited(st, a.visited) /\ u = CancelUntil(t, b) /\ cr = NextRef(st)
  OBVIOUS
<1> HIDE DEF t, u, cr
<1>3. /\ Grown(u, new) /\ Value(new, c[1]) = True /\ Level(new, c[1]) = b
      /\ new.decision = st.decision
      /\ new.clauses = st.clauses /\ new.unaryWatchedClauses = st.unaryWatchedClauses
      /\ new.oneWatched = st.oneWatched
      /\ \A x \in DOMAIN st.db : new.db[x] = t.db[x]
      /\ cr \notin DOMAIN st.db
      /\ \/ new.learnts = st.learnts
         \/ Len(c) # 1 /\ new.learnts = st.learnts \cup {cr} /\ new.db[cr] = c
  BY <1>2, LearnedFields
<1>4. Core(st, M) /\ st \in Solver /\ Stored(st) /\ DecisionLevel(st) \in Nat /\ OnTrail(st)
  BY CoreFacts, TrailFacts DEF Sound
<1>5. \A x \in DOMAIN st.db : ToSet(t.db[x]) = ToSet(st.db[x]) /\ Len(t.db[x]) = Len(st.db[x])
  BY <1>2, <1>4, VisitedFields
<1>6. /\ Sound(t, M) /\ SameTrail(st, t) /\ t.confl = NoRef
      /\ t.decision = st.decision /\ t.orderHeap = st.orderHeap
  BY <1>2, VisitedStep
<1>7. /\ \A l : Value(t, l) = Value(st, l) /\ Level(t, l) = Level(st, l)
      /\ DecisionLevel(t) = DecisionLevel(st)
  BY <1>6, TrailFrame
<1>8. HeapFull(t)
  BY <1>6 DEF HeapFull, SameTrail
<1>9. /\ Sound(u, M) /\ u.confl = NoRef /\ SameMemory(t, u)
      /\ \A l \in Lits : Level(st, l) <= b /\ Value(st, l) # Undef =>
           Value(u, l) = Value(st, l) /\ Level(u, l) = Level(st, l)
      /\ \A l \in Lits : Level(st, l) > b => Value(u, l) = Undef
  <2>1. /\ Sound(u, M) /\ u.confl = t.confl /\ SameMemory(t, u)
        /\ \A l \in Lits : Level(t, l) <= b /\ Value(t, l) # Undef =>
             Value(u, l) = Value(t, l) /\ Level(u, l) = Level(t, l)
        /\ \A l \in Lits : Level(t, l) > b => Value(u, l) = Undef
    BY <1>1, <1>2, <1>6, <1>7, <1>8, CancelStep
  <2> QED BY <1>6, <1>7, <2>1
<1>10. \A l \in Lits : Level(st, l) <= b /\ Value(st, l) # Undef =>
         Value(new, l) = Value(st, l) /\ Level(new, l) = Level(st, l)
  BY <1>3, <1>9 DEF Grown, Holds
<1>11. Remembers(st, new)
  <2>1. \A l \in Lits : Root(st, l) => Root(new, l)
    BY <1>1, <1>10, SignsDiffer DEF Root
  <2>2. \A x \in st.clauses : ToSet(new.db[x]) = ToSet(st.db[x])
    BY <1>3, <1>4, <1>5 DEF Stored, Live
  <2> QED BY <1>3, <2>1, <2>2 DEF Remembers
<1>12. Apart(new)
  <2>1. cr \notin st.clauses /\ cr \notin st.unaryWatchedClauses /\ cr \notin st.oneWatched
    BY <1>3, <1>4 DEF Stored, Live
  <2> QED BY <1>3, <2>1 DEF Going, Apart
<1>13. \A x \in TwoWatched(new) : (x = cr /\ Len(c) # 1 /\ new.db[x] = c) \/ x \in TwoWatched(st)
  <2>1. \A x \in st.unaryWatchedClauses : x \in DOMAIN st.db
    BY <1>4 DEF Stored, Live
  <2> QED BY <1>3, <1>5, <2>1 DEF TwoWatched
<1>14. ASSUME NEW x \in TwoWatched(new), NEW i \in {1, 2}
       PROVE  Settled(new, x, new.db[x][i])
  <2>1. CASE x = cr /\ Len(c) # 1 /\ new.db[x] = c
    <3>1. c[1] \in Lits /\ c[2] \in Lits /\ c[1] \in ToSet(c)
      <4>1. new \in Solver /\ Core(new, M)
        BY CoreFacts DEF Sound
      <4> QED BY <1>14, <2>1, <4>1, WatchedFacts
    <3>2. Level(new, c[2]) = b
      BY <1>1, <1>10, <2>1, <3>1, SignsDiffer
    <3>3. Backed(new, x, b)
      BY <1>1, <1>3, <2>1, <3>1 DEF Backed
    <3> QED BY <1>3, <1>14, <2>1, <3>2, <3>3 DEF Settled
  <2>2. CASE x \in TwoWatched(st)
    <3> DEFINE q == t.db[x][i]
    <3>1. /\ x \in DOMAIN st.db /\ ToSet(st.db[x]) \subseteq Lits
          /\ \A j \in {1, 2} : st.db[x][j] \in Lits /\ st.db[x][j] \in ToSet(st.db[x])
      BY <1>4, <2>2, WatchedFacts
    <3>2. /\ new.db[x] = t.db[x] /\ ToSet(t.db[x]) = ToSet(st.db[x])
          /\ (q = st.db[x][1] \/ q = st.db[x][2]) /\ u.db[x] = t.db[x]
      BY <1>2, <1>3, <1>4, <1>5, <1>9, <3>1, VisitedFields DEF SameMemory
    <3>3. \/ Settled(u, x, q)
          \/ x = st.confl /\ q = st.db[x][2] /\ Level(st, st.db[x][2]) # DecisionLevel(st)
      BY <1>1, <1>2, <2>2, BackjumpSettled
    <3> HIDE DEF q
    <3>4. CASE Settled(u, x, q)
      <4>1. Core(u, M)
        BY <1>9 DEF Sound
      <4>2. q \in Lits /\ ToSet(u.db[x]) \subseteq Lits /\ ToSet(new.db[x]) = ToSet(u.db[x])
        BY <3>1, <3>2
      <4>3. Settled(new, x, q)
        BY <1>3, <1>9, <3>4, <4>1, <4>2, SettledGrown
      <4> QED BY <3>2, <4>3 DEF q
    <3>5. CASE x = st.confl /\ q = st.db[x][2] /\ Level(st, st.db[x][2]) # DecisionLevel(st)
      <4> DEFINE d == st.db[x]
      <4>1. st.confl # NoRef
        BY <1>4, <2>2, <3>5, WatchedFacts
      <4>2. ConflWatched(st)
        BY <4>1 DEF Going
      <4>3. c[1] = d[1] /\ b <= Level(st, q)
        BY <2>2, <3>5, <4>2, ConflictForces
      <4>4. q \in Lits /\ d[1] \in ToSet(new.db[x]) /\ Value(st, q) = False
        BY <3>1, <3>2, <3>5 DEF Conflicting
      <4> SUFFICES ASSUME Heard(new, q) PROVE Settled(new, x, q)
        BY <3>2 DEF q, Settled
      <4>5. Level(st, q) \in Nat
        BY <1>4, <4>4, TrailFacts
      <4>6. CASE Level(st, q) <= b
        <5>1. Level(new, q) = Level(st, q)
          BY <1>10, <4>4, <4>6, SignsDiffer
        <5>2. Backed(new, x, Level(new, q))
          BY <1>3, <4>3, <4>4, <5>1 DEF Backed
        <5> QED BY <5>2 DEF Settled
      <4>7. CASE ~(Level(st, q) <= b)
        <5>1. Value(u, q) = Undef
          BY <1>1, <1>9, <4>4, <4>5, <4>7
        <5>2. Heard(u, q)
          BY <1>3 DEF Heard, Grown
        <5>3. Value(u, q) = False
          BY <1>9, <4>4, <5>2, HeardFacts DEF Sound
        <5> QED BY <5>1, <5>3, SignsDiffer
      <4> QED BY <4>6, <4>7
    <3> QED BY <3>3, <3>4, <3>5
  <2> QED BY <1>13, <1>14, <2>1, <2>2
<1> QED BY <1>11, <1>12, <1>14 DEF Going, CompleteBut

-----------------------------------------------------------------------------
(* The invariant.                                                          *)

\* Every clause added is remembered.
Entered == s.decision = Vars /\ \A i \in 1 .. added : Kept(s, problem.formula[i])

RightModel == /\ \A v \in Vars : model[v] # Undef
              /\ {v \in Vars : model[v] = True} \in FormulaModels

DInv ==
  /\ CInv
  /\ pc # "unsat" => Going(s, NoLit, {}) /\ Entered
  /\ pc \notin {"add", "unsat"} => added = Len(problem.formula)
  /\ pc = "sat" => RightModel

LEMMA DInvFacts ==
  ASSUME DInv, pc # "unsat"
  PROVE  /\ Given /\ Phase /\ Sound(s, FormulaModels) /\ HeapFull(s)
         /\ s \in Solver /\ Core(s, FormulaModels) /\ DecisionLevel(s) \in Nat
         /\ Going(s, NoLit, {}) /\ Entered
BY CInvFacts DEF DInv

\* What a step of the search has to keep.
LEMMA DInvAfter ==
  ASSUME DInv, pc # "unsat", CInv', problem'.formula = problem.formula, added' = added,
         Going(s', NoLit, {}), Remembers(s, s'),
         pc' # "sat", pc' = "add" \/ added = Len(problem.formula)
  PROVE  DInv'
<1>1. Entered /\ s'.decision = s.decision
  BY DEF DInv, Remembers
<1>2. \A i \in 1 .. added : Kept(s', problem.formula[i])
  BY <1>1, KeptStays DEF Entered
<1>3. Entered'
  BY <1>1, <1>2 DEF Entered
<1> QED BY <1>3 DEF DInv

LEMMA AddClauseDone == DInv /\ AddClause => DInv'
<1> SUFFICES ASSUME DInv, AddClause PROVE DInv'
  OBVIOUS
<1>1. /\ Given /\ Phase /\ Sound(s, FormulaModels) /\ HeapFull(s)
      /\ Going(s, NoLit, {}) /\ Entered /\ CInv'
  BY DInvFacts, AddClauseKeeps DEF DInv, AddClause
<1> DEFINE c == problem.formula[added + 1]
           r == WithClause(s, c)
<1>2. /\ pc = "add" /\ added < Len(problem.formula)
      /\ s' = r.s /\ pc' = (IF r.ok THEN "add" ELSE "unsat") /\ added' = added + 1 /\ problem' = problem
  BY DEF AddClause
<1>3. added \in 0 .. Len(problem.formula) /\ DecisionLevel(s) = 0 /\ s.confl = NoRef
  BY <1>1, <1>2 DEF Phase
<1>4. problem.formula \in Seq(SUBSET Lits) /\ Len(problem.formula) \in Nat
  BY <1>1 DEF Given
<1>5. added + 1 \in DOMAIN problem.formula /\ added \in Nat
  BY <1>2, <1>3, <1>4
<1>6. c \in SUBSET Lits /\ c \in ToSet(problem.formula)
  BY <1>4, <1>5 DEF ToSet
<1>7. \A m \in FormulaModels : Satisfies(m, c)
  BY <1>6 DEF FormulaModels, ModelsOf
<1>8. r = WithClause(s, c) /\ c = problem.formula[added + 1]
  OBVIOUS
<1> HIDE DEF c, r
<1>9. Taking(s, FormulaModels)
  BY <1>1, <1>3 DEF Taking
<1>10. CASE ~r.ok
  <2>1. pc' = "unsat"
    BY <1>2, <1>10
  <2> QED BY <1>1, <2>1 DEF DInv
<1>11. CASE r.ok
  <2>1. pc' = "add"
    BY <1>2, <1>11
  <2>2. Going(s', NoLit, {}) /\ Remembers(s, s') /\ Kept(s', c)
    BY <1>1, <1>2, <1>3, <1>6, <1>7, <1>8, <1>9, <1>11, WithClauseGoing
  <2>3. ASSUME NEW i \in 1 .. added' PROVE Kept(s', problem'.formula[i])
    <3>1. CASE i = added + 1
      BY <1>2, <1>8, <2>2, <3>1
    <3>2. CASE i \in 1 .. added
      BY <1>1, <1>2, <2>2, <3>2, KeptStays DEF Entered
    <3> QED BY <1>2, <1>5, <3>1, <3>2
  <2>4. s'.decision = Vars
    BY <1>1, <2>2 DEF Remembers, Entered
  <2> QED BY <1>1, <2>1, <2>2, <2>3, <2>4 DEF DInv, Entered
<1> QED BY <1>10, <1>11

LEMMA SolveDone == DInv /\ Solve => DInv'
<1> SUFFICES ASSUME DInv, Solve PROVE DInv'
  OBVIOUS
<1>1. Going(s, NoLit, {}) /\ CInv'
  BY DInvFacts, SolveKeeps DEF DInv, Solve
<1>2. /\ pc = "add" /\ pc' = "search" /\ s' = s /\ problem' = problem /\ added' = added
      /\ added = Len(problem.formula)
  BY DEF Solve
<1> QED BY <1>1, <1>2, RemembersSame, DInvAfter

LEMMA ImportUnaryDone ==
  ASSUME DInv, NEW c \in problem.offers, ImportUnary(c)
  PROVE  DInv'
<1>1. /\ pc = "search" /\ DecisionLevel(s) = 0 /\ Len(c) = 1
      /\ problem' = [problem EXCEPT !.offers = @ \ {c}]
      /\ s' = (IF Value(s, c[1]) = Undef THEN UncheckedEnqueue(s, c[1], NoRef) ELSE s)
      /\ pc' = pc /\ added' = added
  BY DEF ImportUnary
<1>2. /\ Given /\ Phase /\ Sound(s, FormulaModels) /\ s \in Solver /\ Core(s, FormulaModels)
      /\ Going(s, NoLit, {}) /\ CInv'
  BY <1>1, DInvFacts, ImportUnaryKeeps DEF DInv
<1>3. problem'.formula = problem.formula /\ c \in Seq(Lits) /\ s.confl = NoRef
  BY <1>1, <1>2, OfferTaken DEF Phase
<1>4. c[1] \in Lits /\ NoRef \in Nat
  BY <1>1, <1>3 DEF NoRef
<1>5. Going(s', NoLit, {}) /\ Remembers(s, s')
  <2>1. CASE Value(s, c[1]) = Undef
    <3>1. s' = UncheckedEnqueue(s, c[1], NoRef)
      BY <1>1, <2>1
    <3>2. Going(s', NoLit, {}) /\ Carries(s, s')
      BY <1>2, <1>3, <1>4, <2>1, <3>1, GoingEnqueue
    <3>3. s'.decision = s.decision
      BY <1>2, <1>4, <3>1, EnqueueFields
    <3> QED BY <1>2, <3>2, <3>3, CarriesRemembers
  <2>2. CASE Value(s, c[1]) # Undef
    BY <1>1, <1>2, <2>2, RemembersSame
  <2> QED BY <2>1, <2>2
<1>6. added = Len(problem.formula)
  BY <1>1 DEF DInv
<1> QED BY <1>1, <1>2, <1>3, <1>5, <1>6, DInvAfter

LEMMA ImportClauseDone ==
  ASSUME DInv, NEW c \in problem.offers, ImportClause(c)
  PROVE  DInv'
<1>1. /\ pc \in {"search", "import"} /\ DecisionLevel(s) = 0 /\ Len(c) > 1
      /\ problem' = [problem EXCEPT !.offers = @ \ {c}]
      /\ s' = Imported(s, c) /\ pc' = "import" /\ added' = added
  BY DEF ImportClause, Imported
<1>2. /\ Given /\ Phase /\ Sound(s, FormulaModels) /\ Going(s, NoLit, {}) /\ CInv'
  BY <1>1, DInvFacts, ImportClauseKeeps DEF DInv
<1>3. problem'.formula = problem.formula /\ c \in Seq(Lits) /\ s.confl = NoRef /\ DistinctVars(c)
  BY <1>1, <1>2, OfferTaken DEF Phase
<1>4. Going(s', NoLit, {}) /\ Remembers(s, s')
  BY <1>1, <1>2, <1>3, ImportGoing
<1>5. added = Len(problem.formula)
  BY <1>1 DEF DInv
<1> QED BY <1>1, <1>2, <1>3, <1>4, <1>5, DInvAfter

LEMMA PropagateDone == DInv /\ Propagate => DInv'
<1> SUFFICES ASSUME DInv, Propagate PROVE DInv'
  OBVIOUS
<1>1. /\ pc \in {"search", "import"} /\ s' = Propagated(s)
      /\ pc' = (IF s'.confl # NoRef THEN "conflict" ELSE "noConflict")
      /\ problem' = problem /\ added' = added
  BY DEF Propagate
<1>2. /\ Phase /\ Sound(s, FormulaModels) /\ Core(s, FormulaModels) /\ Going(s, NoLit, {}) /\ CInv'
  BY <1>1, DInvFacts, PropagateKeeps DEF DInv
<1>3. s.confl = NoRef
  BY <1>1, <1>2 DEF Phase
<1>4. Going(s', NoLit, {}) /\ Carries(s, s')
  BY <1>1, <1>2, <1>3, PropagatedGoing
<1>5. s'.decision = s.decision
  BY <1>1, <1>2, <1>3, PropagatedStep DEF Extends
<1>6. Remembers(s, s')
  BY <1>2, <1>4, <1>5, CarriesRemembers
<1>7. added = Len(problem.formula) /\ pc' # "sat"
  BY <1>1 DEF DInv
<1> QED BY <1>1, <1>2, <1>4, <1>6, <1>7, DInvAfter

LEMMA ContradictionDone == DInv /\ Contradiction => DInv'
<1> SUFFICES ASSUME DInv, Contradiction PROVE DInv'
  OBVIOUS
<1> QED BY ContradictionKeeps DEF DInv, Contradiction

LEMMA LearnDone == DInv /\ Learn => DInv'
<1> SUFFICES ASSUME DInv, Learn PROVE DInv'
  OBVIOUS
<1>1. /\ pc = "conflict" /\ DecisionLevel(s) > 0 /\ pc' = "search"
      /\ problem' = problem /\ added' = added
  BY DEF Learn
<1>2. /\ Phase /\ Sound(s, FormulaModels) /\ HeapFull(s) /\ Going(s, NoLit, {}) /\ CInv'
  BY <1>1, DInvFacts, LearnKeeps DEF DInv
<1>3. PICK a \in {Analyze(s)} : s' = Learned(s, a.visited, a.learnt, a.btlevel)
  BY DEF Learn, Learned, Visited
<1>4. a = Analyze(s)
  BY <1>3
<1>5. Conflicting(s)
  BY <1>1, <1>2 DEF Phase
<1>6. Taught(s, FormulaModels, a)
  BY <1>1, <1>2, <1>4, <1>5, AnalyzeFacts
<1>7. Sound(s', FormulaModels) /\ s'.confl = NoRef
  BY <1>1, <1>2, <1>3, <1>6, LearnStep
<1>8. Going(s', NoLit, {}) /\ Remembers(s, s')
  BY <1>1, <1>2, <1>3, <1>4, <1>5, <1>6, <1>7, LearnGoing
<1>9. added = Len(problem.formula)
  BY <1>1 DEF DInv
<1> QED BY <1>1, <1>2, <1>8, <1>9, DInvAfter

LEMMA RestartDone == DInv /\ Restart => DInv'
<1> SUFFICES ASSUME DInv, Restart PROVE DInv'
  OBVIOUS
<1>1. /\ pc = "noConflict" /\ s' = CancelUntil(s, 0) /\ pc' = "search"
      /\ problem' = problem /\ added' = added
  BY DEF Restart
<1>2. /\ Phase /\ Sound(s, FormulaModels) /\ HeapFull(s) /\ Going(s, NoLit, {}) /\ CInv'
  BY <1>1, DInvFacts, RestartKeeps DEF DInv
<1>3. s.confl = NoRef
  BY <1>1, <1>2 DEF Phase
<1>4. Going(s', NoLit, {}) /\ Remembers(s, s')
  BY <1>1, <1>2, <1>3, CancelGoing
<1>5. added = Len(problem.formula)
  BY <1>1 DEF DInv
<1> QED BY <1>1, <1>2, <1>4, <1>5, DInvAfter

\* Clauses are removed, memory is compacted or not.
LEMMA ForgetGoing ==
  ASSUME NEW st, NEW M, Sound(st, M), HeapFull(st), st.confl = NoRef, Going(st, NoLit, {}),
         NEW refs \in SUBSET Live(st),
         \/ DecisionLevel(st) = 0
         \/ \A cr \in refs : Len(st.db[cr]) > 2 /\ ~Locked(st, cr),
         \A cr \in refs \cap st.clauses : \E l \in ToSet(st.db[cr]) : Root(st, l),
         NEW new, new \in MayCollect(RemoveClauses(st, refs))
  PROVE  Going(new, NoLit, {}) /\ Remembers(st, new)
<1> DEFINE z == RemoveClauses(st, refs)
<1>1. z = RemoveClauses(st, refs) /\ new \in MayCollect(z)
  OBVIOUS
<1> HIDE DEF z
<1>2. Sound(z, M) /\ z.confl = NoRef
  BY <1>1, RemoveClausesStep
<1>3. Core(st, M)
  BY DEF Sound
<1>4. Going(z, NoLit, {}) /\ Remembers(st, z)
  BY <1>1, <1>3, RemoveGoing
<1>5. Going(new, NoLit, {}) /\ Remembers(z, new)
  BY ONLY <1>1, <1>2, <1>4, CollectGoing
<1> QED BY <1>4, <1>5, RemembersTransitive

\* The heap is another one.
LEMMA HeapGoing ==
  ASSUME NEW st, NEW M, Sound(st, M), Going(st, NoLit, {}), NEW H \in SUBSET Vars,
         NEW new, new = WithHeap(st, H)
  PROVE  Going(new, NoLit, {}) /\ Remembers(st, new)
<1>1. Core(st, M)
  BY DEF Sound
<1>2. /\ SameTrail(st, new) /\ SameMemory(st, new) /\ new.decision = st.decision
      /\ new.confl = st.confl /\ new.qhead = st.qhead
  BY WithHeapStep
<1>3. Grown(st, new)
  BY <1>2, SameTrailGrown DEF SameTrail
<1>4. Going(new, NoLit, {}) /\ Carries(st, new)
  BY <1>1, <1>2, <1>3, GoingGrown
<1> QED BY <1>1, <1>2, <1>4, CarriesRemembers

LEMMA SimplifyDone == DInv /\ Simplify => DInv'
<1> SUFFICES ASSUME DInv, Simplify PROVE DInv'
  OBVIOUS
<1> DEFINE refs == SatisfiedClauses(s.clauses \cup s.learnts \cup s.unaryWatchedClauses)
<1>1. /\ pc = "noConflict" /\ DecisionLevel(s) = 0 /\ pc' = "reduce"
      /\ problem' = problem /\ added' = added
      /\ \E st \in MayCollect(RemoveClauses(s, refs)) : s' = [st EXCEPT !.orderHeap = OrderHeap(st)]
  BY DEF Simplify
<1>2. PICK st \in MayCollect(RemoveClauses(s, refs)) : s' = WithHeap(st, OrderHeap(st))
  BY <1>1 DEF WithHeap
<1>3. /\ Phase /\ Sound(s, FormulaModels) /\ Core(s, FormulaModels) /\ HeapFull(s)
      /\ Going(s, NoLit, {}) /\ CInv'
  BY <1>1, DInvFacts, SimplifyKeeps DEF DInv
<1>4. s.confl = NoRef
  BY <1>1, <1>3 DEF Phase
<1>5. Stored(s)
  BY <1>3, CoreFacts
<1>6. refs \in SUBSET Live(s)
  BY <1>5 DEF Stored, SatisfiedClauses
<1>7. ASSUME NEW cr \in refs PROVE \E l \in ToSet(s.db[cr]) : Root(s, l)
  <2>1. PICK l \in ToSet(s.db[cr]) : Value(s, l) = True
    BY <1>7 DEF SatisfiedClauses
  <2>2. l \in Lits
    <3>1. cr \in DOMAIN s.db /\ s \in Solver
      BY <1>3, <1>6, CoreFacts DEF Live
    <3>2. ToSet(s.db[cr]) \subseteq Lits
      BY <3>1, ClauseFacts, SeqFacts
    <3> QED BY <2>1, <3>2
  <2>3. Level(s, l) = 0
    BY <1>1, <1>3, <2>1, <2>2, RootLevels, SignsDiffer
  <2> QED BY <2>1, <2>2, <2>3 DEF Root
<1> HIDE DEF refs
<1>8. /\ Sound(st, FormulaModels) /\ st.decision = s.decision
  BY <1>1, <1>2, <1>3, <1>4, <1>6, ForgetStep
<1>9. Going(st, NoLit, {}) /\ Remembers(s, st)
  BY <1>1, <1>2, <1>3, <1>4, <1>6, <1>7, ForgetGoing
<1>10. OrderHeap(st) \in SUBSET Vars
  BY <1>3, <1>8, CoreFacts DEF OrderHeap, Solver
<1>11. Going(s', NoLit, {}) /\ Remembers(st, s')
  BY <1>2, <1>8, <1>9, <1>10, HeapGoing
<1>12. Remembers(s, s')
  BY <1>9, <1>11, RemembersTransitive
<1>13. added = Len(problem.formula)
  BY <1>1 DEF DInv
<1> QED BY <1>1, <1>3, <1>11, <1>12, <1>13, DInvAfter

LEMMA ReduceDBDone == DInv /\ ReduceDB => DInv'
<1> SUFFICES ASSUME DInv, ReduceDB PROVE DInv'
  OBVIOUS
<1>1. /\ pc \in {"noConflict", "reduce"} /\ pc' = "decide"
      /\ problem' = problem /\ added' = added
  BY DEF ReduceDB
<1>2. PICK gone \in SUBSET Removable(s.learnts \cup s.unaryWatchedClauses) :
        s' \in MayCollect(RemoveClauses(s, gone))
  BY DEF ReduceDB
<1>3. /\ Phase /\ Sound(s, FormulaModels) /\ Core(s, FormulaModels) /\ HeapFull(s)
      /\ Going(s, NoLit, {}) /\ CInv'
  BY <1>1, DInvFacts, ReduceDBKeeps DEF DInv
<1>4. s.confl = NoRef
  BY <1>1, <1>3 DEF Phase
<1>5. gone \in SUBSET Live(s) /\ \A cr \in gone : Len(s.db[cr]) > 2 /\ ~Locked(s, cr)
  <2>1. Stored(s)
    BY <1>3, CoreFacts
  <2> QED BY <2>1, <1>2 DEF Stored, Removable
<1>6. gone \cap s.clauses = {}
  BY <1>2, <1>3 DEF Removable, Going, Apart
<1>7. Going(s', NoLit, {}) /\ Remembers(s, s')
  BY <1>2, <1>3, <1>4, <1>5, <1>6, ForgetGoing
<1>8. added = Len(problem.formula)
  BY <1>1 DEF DInv
<1> QED BY <1>1, <1>3, <1>7, <1>8, DInvAfter

LEMMA DecideDone == DInv /\ Decide => DInv'
<1> SUFFICES ASSUME DInv, Decide PROVE DInv'
  OBVIOUS
<1>1. /\ Deciding /\ pc \in {"noConflict", "reduce", "decide"} /\ pc' = "search"
      /\ problem' = problem /\ added' = added
  BY DEF Decide, Deciding
<1>2. /\ Phase /\ Sound(s, FormulaModels) /\ s \in Solver /\ HeapFull(s)
      /\ Going(s, NoLit, {}) /\ CInv'
  BY <1>1, DInvFacts, DecideKeeps DEF DInv
<1>3. PICK next \in Free, taken \in SUBSET (s.orderHeap \ Free) :
        s' = UncheckedEnqueue(NewDecisionLevel([s EXCEPT !.orderHeap = @ \ (taken \cup {next})]),
                              IF s.polarity[next] = True THEN next ELSE -next, NoRef)
  BY DEF Decide
<1> DEFINE H == s.orderHeap \ (taken \cup {next})
           p == IF s.polarity[next] = True THEN next ELSE -next
<1>4. s' = UncheckedEnqueue(NewDecisionLevel(WithHeap(s, H)), p, NoRef)
  BY <1>3 DEF WithHeap
<1>5. s.confl = NoRef /\ s.qhead = Len(s.trail)
  BY <1>1, <1>2 DEF Phase
<1>6. /\ next \in Vars /\ s.assigns[next] = Undef /\ s.orderHeap \subseteq Vars /\ s.assigns \in [Vars -> Values]
  BY <1>2, <1>3 DEF Free, Solver
<1>7. p \in Lits /\ Var(p) = next
  <2>1. next \in Lits /\ -next \in Lits /\ next > 0 /\ next \in Int
    BY <1>6, NbVarsAssumption DEF Vars, Lits
  <2> QED BY <2>1, LitFacts DEF Var
<1>8. H \in SUBSET Vars
  BY <1>6
<1> HIDE DEF H, p
<1>9. Value(s, p) = Undef
  BY <1>6, <1>7, ValueFacts
<1>10. Going(s', NoLit, {}) /\ Remembers(s, s')
  BY <1>2, <1>4, <1>5, <1>7, <1>8, <1>9, DecideGoing
<1>11. added = Len(problem.formula)
  BY <1>1 DEF DInv
<1> QED BY <1>1, <1>2, <1>10, <1>11, DInvAfter

\* When nothing is left to propagate, a clause attached by two watches has a
\* true literal, or the two it watches are free.
LEMMA NothingToInfer ==
  ASSUME NEW st, NEW M, Core(st, M), Going(st, NoLit, {}), st.confl = NoRef, st.qhead = Len(st.trail),
         NEW cr \in TwoWatched(st)
  PROVE  \/ \E l \in ToSet(st.db[cr]) : Value(st, l) = True
         \/ \A i \in {1, 2} : Value(st, st.db[cr][i]) = Undef
<1>1. st \in Solver /\ OnTrail(st)
  BY CoreFacts
<1>2. \A i \in {1, 2} : st.db[cr][i] \in Lits /\ st.db[cr][i] \in ToSet(st.db[cr])
  BY WatchedFacts
<1>3. ASSUME NEW i \in {1, 2}
      PROVE  Value(st, st.db[cr][i]) = Undef \/ \E l \in ToSet(st.db[cr]) : Value(st, l) = True
  <2> DEFINE q == st.db[cr][i]
  <2>1. q \in Lits /\ q \in ToSet(st.db[cr])
    BY <1>2
  <2>2. Value(st, q) \in {True, Undef, False}
    BY <1>1, <2>1, ValueFacts, TrailFacts DEF Values
  <2>3. CASE Value(st, q) = False
    <3>1. -q \in Lits /\ Value(st, -q) = True
      BY <1>1, <2>1, <2>3, ValueFacts, TrailFacts, LitFacts
    <3>2. Heard(st, q)
      BY <1>1, <3>1, TrailFacts DEF Heard
    <3>3. Settled(st, cr, q)
      BY DEF Going, CompleteBut, NoLit
    <3> QED BY <3>2, <3>3 DEF Settled, Backed
  <2> QED BY <2>1, <2>2, <2>3
<1> QED BY <1>3

\* Then if everything is assigned, what is true is a model.
LEMMA AssignedIsModel ==
  ASSUME DInv, Deciding, Free = {}
  PROVE  (\A v \in Vars : s.assigns[v] # Undef) /\ {v \in Vars : s.assigns[v] = True} \in FormulaModels
<1> DEFINE m == {v \in Vars : s.assigns[v] = True}
<1>1. pc \in {"noConflict", "reduce", "decide"}
  BY DEF Deciding
<1>2. /\ Given /\ Phase /\ Core(s, FormulaModels) /\ s \in Solver /\ HeapFull(s)
      /\ Going(s, NoLit, {}) /\ Entered /\ added = Len(problem.formula)
  BY <1>1, DInvFacts DEF DInv
<1>3. s.confl = NoRef /\ s.qhead = Len(s.trail)
  BY <1>1, <1>2 DEF Phase
<1>4. s.assigns \in [Vars -> Values]
  BY <1>2 DEF Solver
<1>5. \A v \in Vars : s.assigns[v] # Undef
  BY <1>2 DEF HeapFull, Free, Entered
<1>6. ASSUME NEW l \in Lits, Value(s, l) = True PROVE (l > 0) = (Var(l) \in m)
  <2>1. Var(l) \in Vars /\ l \in Int /\ l # 0
    BY LitFacts
  <2>2. CASE l > 0
    BY <1>6, <2>1, <2>2 DEF Value, Var
  <2>3. CASE ~(l > 0)
    <3>1. Var(l) = -l /\ -s.assigns[-l] = True
      BY <1>6, <2>1, <2>3 DEF Value, Var
    <3>2. s.assigns[-l] \in Values
      BY <1>4, <2>1, <3>1
    <3>3. s.assigns[Var(l)] # True
      BY <3>1, <3>2, SignsDiffer DEF Values
    <3> QED BY <2>3, <3>3
  <2> QED BY <2>2, <2>3
<1> HIDE DEF m
<1>7. ASSUME NEW c \in ToSet(problem.formula) PROVE Satisfies(m, c)
  <2>1. problem.formula \in Seq(SUBSET Lits)
    BY <1>2 DEF Given
  <2>2. PICK i \in 1 .. Len(problem.formula) : c = problem.formula[i]
    BY <2>1, SeqFacts
  <2>3. c \in SUBSET Lits /\ Kept(s, c)
    <3>1. i \in DOMAIN problem.formula
      BY <2>1, <2>2, SeqFacts
    <3>2. problem.formula[i] \in SUBSET Lits
      BY <2>1, <3>1, SeqFacts
    <3> QED BY <1>2, <2>2, <3>2 DEF Entered
  <2>4. CASE \E l \in c : -l \in c
    <3>1. PICK l \in c : -l \in c
      BY <2>4
    <3>2. l \in Int /\ l # 0 /\ -l \in Int /\ Var(-l) = Var(l)
      BY <2>3, LitFacts
    <3>3. (l > 0) = (Var(l) \in m) \/ (-l > 0) = (Var(-l) \in m)
      <4>1. CASE l > 0
        <5>1. ~(-l > 0)
          BY <3>2, <4>1
        <5> QED BY <3>2, <4>1, <5>1
      <4>2. CASE ~(l > 0)
        <5>1. -l > 0
          BY <3>2, <4>2
        <5> QED BY <3>2, <4>2, <5>1
      <4> QED BY <4>1, <4>2
    <3> QED BY <3>1, <3>3 DEF Satisfies
  <2>5. CASE \E l \in c : Value(s, l) = True
    BY <1>6, <2>3, <2>5 DEF Satisfies
  <2>6. CASE \E cr \in s.clauses : ToSet(s.db[cr]) \subseteq c
    <3>1. PICK cr \in s.clauses : ToSet(s.db[cr]) \subseteq c
      BY <2>6
    <3>2. cr \in TwoWatched(s)
      BY DEF TwoWatched
    <3>3. s.db[cr][1] \in Lits
      BY <1>2, <3>2, WatchedFacts
    <3>4. Value(s, s.db[cr][1]) # Undef
      BY <1>4, <1>5, <3>3, ValueFacts, LitFacts
    <3>5. \E l \in ToSet(s.db[cr]) : Value(s, l) = True
      BY <1>2, <1>3, <3>2, <3>4, NothingToInfer
    <3> QED BY <2>5, <3>1, <3>5
  <2> QED BY <2>3, <2>4, <2>5, <2>6 DEF Kept, Root
<1>8. m \in SUBSET Vars
  BY DEF m
<1> QED BY <1>5, <1>7, <1>8 DEF m, FormulaModels, ModelsOf

LEMMA ModelFoundDone == DInv /\ ModelFound => DInv'
<1> SUFFICES ASSUME DInv, ModelFound PROVE DInv'
  OBVIOUS
<1> DEFINE z == WithHeap(s, {})
<1>1. /\ Deciding /\ pc \in {"noConflict", "reduce", "decide"} /\ Free = {} /\ pc' = "sat"
      /\ problem' = problem /\ added' = added /\ model' = s.assigns
      /\ z = WithHeap(s, {}) /\ s' = CancelUntil(z, 0)
  BY DEF ModelFound, WithHeap, Deciding
<1> HIDE DEF z
<1>2. /\ Given /\ Phase /\ Sound(s, FormulaModels) /\ HeapFull(s)
      /\ Going(s, NoLit, {}) /\ Entered /\ CInv' /\ added = Len(problem.formula)
  BY <1>1, DInvFacts, ModelFoundKeeps DEF DInv
<1>3. FormulaModels' = FormulaModels
  BY <1>1, <1>2, SameProblem
<1>4. s.confl = NoRef
  BY <1>1, <1>2 DEF Phase
<1>5. /\ Sound(z, FormulaModels) /\ SameTrail(s, z)
      /\ z.orderHeap = {} /\ z.decision = s.decision /\ z.confl = NoRef
  BY <1>1, <1>2, <1>4, WithHeapStep
<1>6. HeapFull(z)
  BY <1>1, <1>2, <1>5 DEF HeapFull, Free, SameTrail
<1>7. Going(z, NoLit, {}) /\ Remembers(s, z)
  BY <1>1, <1>2, HeapGoing
<1>8. Going(s', NoLit, {}) /\ Remembers(z, s')
  BY <1>1, <1>5, <1>6, <1>7, CancelGoing
<1>9. Remembers(s, s')
  BY <1>7, <1>8, RemembersTransitive
<1>10. Entered'
  <2>1. s'.decision = s.decision
    BY <1>9 DEF Remembers
  <2>2. \A i \in 1 .. added : Kept(s', problem.formula[i])
    BY <1>2, <1>9, KeptStays DEF Entered
  <2> QED BY <1>1, <1>2, <2>1, <2>2 DEF Entered
<1>11. RightModel'
  BY <1>1, <1>3, AssignedIsModel DEF RightModel
<1> QED BY <1>1, <1>2, <1>8, <1>10, <1>11 DEF DInv

LEMMA DInvInit == Init => DInv
<1> SUFFICES ASSUME Init PROVE DInv
  OBVIOUS
<1>1. /\ pc = "add" /\ added = 0 /\ s = EmptySolver /\ CInv
  BY CInvInit DEF Init
<1>2. /\ s.clauses = {} /\ s.learnts = {} /\ s.unaryWatchedClauses = {} /\ s.oneWatched = {}
      /\ s.decision = Vars /\ s.confl = NoRef
  BY <1>1 DEF EmptySolver
<1>3. TwoWatched(s) = {}
  BY <1>2 DEF TwoWatched
<1>4. Apart(s)
  BY <1>2 DEF Apart
<1>5. Going(s, NoLit, {})
  BY <1>2, <1>3, <1>4 DEF Going, CompleteBut
<1>6. Entered
  BY <1>1, <1>2 DEF Entered
<1> QED BY <1>1, <1>5, <1>6 DEF DInv

LEMMA DInvStep == DInv /\ [Next]_vars => DInv'
<1> SUFFICES ASSUME DInv, [Next]_vars PROVE DInv'
  OBVIOUS
<1>1. CASE AddClause
  BY <1>1, AddClauseDone
<1>2. CASE Solve
  BY <1>2, SolveDone
<1>3. CASE \E c \in problem.offers : ImportUnary(c) \/ ImportClause(c)
  BY <1>3, ImportUnaryDone, ImportClauseDone
<1>4. CASE Propagate
  BY <1>4, PropagateDone
<1>5. CASE Contradiction
  BY <1>5, ContradictionDone
<1>6. CASE Learn
  BY <1>6, LearnDone
<1>7. CASE Restart
  BY <1>7, RestartDone
<1>8. CASE Simplify
  BY <1>8, SimplifyDone
<1>9. CASE ReduceDB
  BY <1>9, ReduceDBDone
<1>10. CASE Decide
  BY <1>10, DecideDone
<1>11. CASE ModelFound
  BY <1>11, ModelFoundDone
<1>12. CASE UNCHANGED vars
  <2>1. problem' = problem /\ pc' = pc /\ added' = added /\ s' = s /\ model' = model
    BY <1>12 DEF vars
  <2>2. CInv'
    BY <1>12, CInvStep DEF DInv
  <2>3. (pc # "unsat" => Going(s, NoLit, {}) /\ Entered)' /\ (pc \notin {"add", "unsat"} => added = Len(problem.formula))'
    BY <2>1 DEF DInv, Entered
  <2>4. (pc = "sat" => RightModel)'
    BY <2>1 DEF DInv, RightModel, FormulaModels
  <2> QED BY <2>2, <2>3, <2>4 DEF DInv
<1> QED BY <1>1, <1>2, <1>3, <1>4, <1>5, <1>6, <1>7, <1>8, <1>9, <1>10, <1>11, <1>12 DEF Next

LEMMA Completing == Spec => []DInv
BY DInvInit, DInvStep, PTL DEF Spec

-----------------------------------------------------------------------------
(* The theorems: nothing is missed.                                        *)

\* What solve answers is right, be it a model or that there is none.
THEOREM AnswersAreRight == Spec => []AnswerIsRight
<1>1. DInv => AnswerIsRight
  BY DEF DInv, CInv, Phase, RightModel, AnswerIsRight
<1> QED BY <1>1, Completing, PTL

\* When search decides, propagation has left nothing to infer.
THEOREM NothingIsLeftToInfer == Spec => []PropagationComplete
<1>1. DInv => PropagationComplete
  <2> SUFFICES ASSUME DInv, Deciding, NEW cr \in s.clauses \cup s.learnts \cup Promoted,
                      ~\E l \in ToSet(s.db[cr]) : Value(s, l) = True
               PROVE  Cardinality({l \in ToSet(s.db[cr]) : Value(s, l) = Undef}) >= 2
    BY DEF PropagationComplete
  <2> DEFINE S == {l \in ToSet(s.db[cr]) : Value(s, l) = Undef}
             q1 == s.db[cr][1]
             q2 == s.db[cr][2]
  <2>1. pc \in {"noConflict", "reduce", "decide"}
    BY DEF Deciding
  <2>2. /\ Phase /\ Core(s, FormulaModels) /\ Going(s, NoLit, {}) /\ s \in Solver
    BY <2>1, DInvFacts
  <2>3. s.confl = NoRef /\ s.qhead = Len(s.trail)
    BY <2>1, <2>2 DEF Phase
  <2>4. cr \in TwoWatched(s)
    BY DEF TwoWatched, Promoted
  <2>5. /\ q1 \in ToSet(s.db[cr]) /\ q2 \in ToSet(s.db[cr]) /\ q1 # q2 /\ cr \in DOMAIN s.db
    BY <2>2, <2>4, WatchedFacts
  <2>6. Value(s, q1) = Undef /\ Value(s, q2) = Undef
    BY <2>2, <2>3, <2>4, NothingToInfer
  <2>7. IsFiniteSet(S)
    <3>1. s.db[cr] \in Seq(Lits)
      BY <2>2, <2>5, ClauseFacts
    <3>2. IsFiniteSet(Lits)
      BY LitsFinite
    <3>3. S \subseteq Lits
      BY <3>1, SeqFacts
    <3> QED BY <3>2, <3>3, FS_Subset
  <2>8. {q1, q2} \subseteq S
    BY <2>5, <2>6
  <2> HIDE DEF S, q1, q2
  <2>9. IsFiniteSet({q1, q2}) /\ Cardinality({q1, q2}) = 2
    <3>1. IsFiniteSet({q1}) /\ Cardinality({q1}) = 1
      BY FS_Singleton
    <3>2. {q1, q2} = {q1} \cup {q2} /\ q2 \notin {q1}
      BY <2>5
    <3>3. IsFiniteSet({q1} \cup {q2}) /\ Cardinality({q1} \cup {q2}) = Cardinality({q1}) + 1
      BY ONLY <3>1, <3>2, FS_AddElement
    <3> QED BY <3>1, <3>2, <3>3
  <2>10. Cardinality({q1, q2}) <= Cardinality(S) /\ Cardinality(S) \in Nat
    BY <2>7, <2>8, FS_Subset, FS_CardinalityType
  <2> QED BY <2>9, <2>10 DEF S
<1> QED BY <1>1, Completing, PTL

\* A clause whose literals are all literals of the one learnt would have been
\* propagated before.
LEMMA NoneImplies ==
  ASSUME NEW st, NEW M, Sound(st, M), DecisionLevel(st) > 0, Going(st, NoLit, {}),
         NEW a, Taught(st, M, a), NEW c, c = a.learnt,
         NEW cr \in st.clauses \cup st.learnts
  PROVE  ~(ToSet(st.db[cr]) \subseteq ToSet(c))
<1> SUFFICES ASSUME ToSet(st.db[cr]) \subseteq ToSet(c) PROVE FALSE
  OBVIOUS
<1>1. Core(st, M) /\ st \in Solver /\ OnTrail(st) /\ DecisionLevel(st) \in Nat
  BY CoreFacts, TrailFacts DEF Sound
<1> DEFINE b == a.btlevel
<1>2. /\ b \in Nat /\ b < DecisionLevel(st) /\ c \in Seq(Lits)
      /\ Level(st, c[1]) = DecisionLevel(st)
      /\ \A k \in 2 .. Len(c) : Value(st, c[k]) = False /\ Level(st, c[k]) <= b
  BY DEF Taught
<1> HIDE DEF b
<1>3. ASSUME NEW q \in ToSet(c)
      PROVE  q = c[1] \/ (Value(st, q) = False /\ Level(st, q) <= b)
  <2>1. DOMAIN c = 1 .. Len(c) /\ Len(c) \in Nat
    BY <1>2, SeqFacts
  <2>2. PICK k \in DOMAIN c : c[k] = q
    BY <1>2, SeqFacts
  <2>3. k = 1 \/ k \in 2 .. Len(c)
    BY <2>1
  <2> QED BY <1>2, <2>2, <2>3
<1>4. cr \in TwoWatched(st)
  BY DEF TwoWatched
<1>5. /\ ToSet(st.db[cr]) \subseteq Lits /\ cr # NoRef
      /\ \A i \in {1, 2} : st.db[cr][i] \in Lits /\ st.db[cr][i] \in ToSet(st.db[cr])
      /\ st.db[cr][1] # st.db[cr][2]
  BY <1>1, <1>4, WatchedFacts
<1>6. PICK i \in {1, 2} : st.db[cr][i] # c[1]
  BY <1>5
<1> DEFINE q == st.db[cr][i]
<1>7. q \in Lits /\ Value(st, q) = False /\ Level(st, q) <= b /\ Level(st, q) \in Nat
  BY <1>1, <1>3, <1>5, <1>6, TrailFacts
<1>8. Level(st, q) < DecisionLevel(st)
  BY <1>1, <1>2, <1>7
<1>9. Heard(st, q) /\ Settled(st, cr, q)
  <2>1. Settled(st, cr, q)
    BY <1>4 DEF Going, CompleteBut, NoLit
  <2> HIDE DEF q
  <2> QED BY <1>1, <1>7, <1>8, <2>1, HeardFacts
<1>10. CASE Backed(st, cr, Level(st, q))
  <2>1. PICK t \in ToSet(st.db[cr]) : Value(st, t) = True /\ Level(st, t) <= Level(st, q)
    BY <1>10 DEF Backed
  <2>2. t = c[1]
    BY <1>3, <2>1, SignsDiffer
  <2> QED BY <1>1, <1>2, <1>7, <1>8, <2>1, <2>2
<1>11. CASE st.confl # NoRef /\ cr = st.confl
  <2>1. ConflWatched(st)
    BY <1>11 DEF Going
  <2>2. Level(st, q) = DecisionLevel(st)
    BY <1>4, <1>11, <2>1 DEF ConflWatched
  <2> QED BY <1>1, <1>7, <1>8, <2>2
<1> QED BY <1>1, <1>7, <1>8, <1>9, <1>10, <1>11 DEF Settled

\* A conflict teaches a clause that no clause at hand implies.
THEOREM LearningIsNew == Spec => LearntIsNew
<1> DEFINE New == Learn => \A cr \in s.clauses \cup s.learnts : ~(ToSet(s.db[cr]) \subseteq ToSet(Learnt))
<1>1. DInv => New
  <2> SUFFICES ASSUME DInv, Learn, NEW cr \in s.clauses \cup s.learnts
               PROVE  ~(ToSet(s.db[cr]) \subseteq ToSet(Learnt))
    OBVIOUS
  <2>1. pc = "conflict" /\ DecisionLevel(s) > 0 /\ CInv
    BY DEF Learn, DInv
  <2>2. Sound(s, FormulaModels) /\ Going(s, NoLit, {})
    BY <2>1, DInvFacts
  <2>3. PICK a : /\ a = Analyze(s) /\ Taught(s, FormulaModels, a)
                 /\ Asserted(s, s', a.learnt, a.btlevel)
    BY <2>1, LearnKeeps
  <2> DEFINE c == a.learnt
  <2>4. /\ Len(s'.trail) > 0 /\ Last(s'.trail) = c[1]
        /\ IF Len(c) = 1 THEN s'.reason[Var(c[1])] = NoRef
                         ELSE s'.reason[Var(c[1])] # NoRef /\ s'.db[s'.reason[Var(c[1])]] = c
    BY <2>3 DEF Asserted
  <2>5. ~(ToSet(s.db[cr]) \subseteq ToSet(c))
    BY <2>1, <2>2, <2>3, NoneImplies
  <2>6. c \in Seq(Lits) /\ DOMAIN c = 1 .. Len(c)
    BY <2>3, SeqFacts DEF Taught
  <2> HIDE DEF c
  <2>7. CASE Len(c) = 1
    <3>1. Learnt = <<c[1]>>
      BY <2>4, <2>7 DEF Learnt
    <3>2. ToSet(Learnt) = ToSet(c)
      BY <2>6, <2>7, <3>1 DEF ToSet
    <3> QED BY <2>5, <3>2
  <2>8. CASE Len(c) # 1
    <3>1. Learnt = c
      BY <2>4, <2>8 DEF Learnt
    <3> QED BY <2>5, <3>1
  <2> QED BY <2>7, <2>8
<1>2. [][New]_vars => LearntIsNew
  BY DEF LearntIsNew
<1> QED BY <1>1, Completing, PTL DEF Spec, LearntIsNew
=============================================================================
