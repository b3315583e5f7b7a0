---------------------------- MODULE CdclInvariant -----------------------------
(***************************************************************************)
(* What holds of a solver at every moment of its search (CInv, below), for *)
(* every formula, order of decisions, restarts, removals and imports; and  *)
(* that it is kept by what the search is made of: assigning a literal,     *)
(* propagation, backjumps, adding, removing and moving clauses.  The solver*)
(* is a variable of these lemmas, for most steps are several of them.      *)
(***************************************************************************)
EXTENDS Cdcl, RecursionProofs

Values   == {True, Undef, False}
Watchers == [cref : Nat, blocker : Lits]
WatchLists == [Lits -> Seq(Watchers)]
Kinds    == {"unary", "binary", "long"}
Clauses  == {c \in Seq(Lits) : Len(c) >= 2}
References == SUBSET Nat

\* The type of the solver's record.
Solver ==
  [db : Seq(Clauses), deleted : References,
   clauses : References, learnts : References, unaryWatchedClauses : References,
   watches : WatchLists, watchesBin : WatchLists, unaryWatches : WatchLists,
   dirty : SUBSET (Kinds \X Lits), oneWatched : References,
   assigns : [Vars -> Values], level : [Vars -> Nat], reason : [Vars -> Nat],
   trail : Seq(Lits), trailLim : Seq(Nat), qhead : Nat,
   decision : SUBSET Vars, orderHeap : SUBSET Vars, polarity : [Vars -> Values], confl : Nat]

DistinctVars(c) == \A i, j \in DOMAIN c : Var(c[i]) = Var(c[j]) => i = j

\* Memory: clauses have a literal of a variable once; those of the three lists
\* are those not removed; a clause of two literals is not in the purgatory.
Stored(st) ==
  /\ \A cr \in DOMAIN st.db : DistinctVars(st.db[cr])
  /\ st.deleted \subseteq DOMAIN st.db /\ st.oneWatched \subseteq DOMAIN st.db
  /\ \A cr \in st.oneWatched : Len(st.db[cr]) > 2
  /\ Live(st) = st.clauses \cup st.learnts \cup st.unaryWatchedClauses
  /\ st.oneWatched \cap Live(st) \subseteq st.unaryWatchedClauses
  /\ st.confl \in DOMAIN st.db \cup {NoRef}

\* The trail holds the literals that are true, one of a variable.
OnTrail(st) ==
  /\ \A k \in DOMAIN st.trail : Value(st, st.trail[k]) = True
  /\ \A v \in Vars : st.assigns[v] # Undef => \E k \in DOMAIN st.trail : Var(st.trail[k]) = v
  /\ \A j, k \in DOMAIN st.trail : Var(st.trail[j]) = Var(st.trail[k]) => j = k

\* It is cut into levels.
Levelled(st) ==
  /\ \A d \in DOMAIN st.trailLim : st.trailLim[d] <= Len(st.trail)
  /\ \A d, e \in DOMAIN st.trailLim : d <= e => st.trailLim[d] <= st.trailLim[e]
  /\ \A k \in DOMAIN st.trail :
       /\ Level(st, st.trail[k]) <= DecisionLevel(st)
       /\ \A d \in DOMAIN st.trailLim : Level(st, st.trail[k]) >= d <=> k > st.trailLim[d]

\* Only a decision, the first literal of its level, has no reason above level
\* 0, and only what is assigned has one.
Decided(st) ==
  /\ \A v \in Vars : st.assigns[v] = Undef => st.reason[v] = NoRef
  /\ \A k \in DOMAIN st.trail :
       LET l == st.trail[k]
       IN  Level(st, l) > 0 /\ st.reason[Var(l)] = NoRef => k = st.trailLim[Level(st, l)] + 1

\* A reason is a clause in memory that forces its literal: the others were
\* false before.
Forces(st, c, l, k) ==
  /\ l = c[1] \/ (Len(c) = 2 /\ l = c[2])
  /\ \A i \in DOMAIN c : c[i] # l => \E j \in 1 .. k - 1 : st.trail[j] = -c[i]

Reasoned(st) ==
  \A k \in DOMAIN st.trail :
    LET l == st.trail[k]
        r == st.reason[Var(l)]
    IN  r # NoRef => /\ r \in DOMAIN st.db
                     /\ Level(st, l) > 0 => r \notin st.deleted
                     /\ Forces(st, st.db[r], l, k)

Crefs(ws) == {w.cref : w \in ToSet(ws)}
Once(ws)  == \A i, j \in DOMAIN ws : ws[i].cref = ws[j].cref => i = j
Attached(st, kind, l) == {cr \in Live(st) : <<kind, l>> \in Lists(st, cr)}

\* A list holds the clauses attached to it, once each, and removed ones only if
\* it is to be cleaned; a blocker is a literal of its clause, the other one if
\* the clause is binary.
WellListed(st, kind, l, ws) ==
  /\ Once(ws)
  /\ Crefs(ws) \ st.deleted = Attached(st, kind, l)
  /\ Crefs(ws) \cap st.deleted # {} => <<kind, l>> \in st.dirty
  /\ \A w \in ToSet(ws) : /\ w.blocker \in ToSet(st.db[w.cref])
                          /\ kind = "binary" => ToSet(st.db[w.cref]) = {-l, w.blocker}

Watching(st) == \A kind \in Kinds : \A l \in Lits : WellListed(st, kind, l, ListOf(st, kind, l))

\* What is in memory and what is true without a decision follows.
Implied(st, M) ==
  \A m \in M : /\ \A cr \in DOMAIN st.db : Satisfies(m, ToSet(st.db[cr]))
               /\ \A k \in DOMAIN st.trail : Level(st, st.trail[k]) = 0 => Satisfies(m, {st.trail[k]})

\* What is still to propagate is of the last level.
Pending(st) ==
  /\ st.qhead <= Len(st.trail)
  /\ \A k \in st.qhead + 1 .. Len(st.trail) : Level(st, st.trail[k]) = DecisionLevel(st)

Conflicting(st) ==
  /\ st.confl \in DOMAIN st.db
  /\ \A q \in ToSet(st.db[st.confl]) : Value(st, q) = False
  /\ \E q \in ToSet(st.db[st.confl]) : Level(st, q) = DecisionLevel(st)

Core(st, M) ==
  /\ st \in Solver
  /\ Stored(st) /\ OnTrail(st) /\ Levelled(st) /\ Decided(st) /\ Reasoned(st)
  /\ Pending(st) /\ Implied(st, M)

Sound(st, M) == Core(st, M) /\ Watching(st)

Given ==
  /\ {"formula", "offers", "maxConflicts"} \subseteq DOMAIN problem
  /\ problem.formula \in Seq(SUBSET Lits) /\ problem.offers \subseteq Seq(Lits)
  /\ problem.maxConflicts \in Nat
  /\ \A c \in problem.offers :
       /\ Len(c) > 0 /\ DistinctVars(c)
       /\ \A m \in FormulaModels : Satisfies(m, ToSet(c))

Phase ==
  /\ pc \in {"add", "search", "import", "conflict", "noConflict", "reduce", "decide", "sat", "unsat"}
  /\ added \in 0 .. Len(problem.formula)
  /\ pc \in {"add", "import"} => DecisionLevel(s) = 0
  /\ pc = "add" \/ Deciding => s.qhead = Len(s.trail)
  /\ IF pc = "conflict" THEN Conflicting(s) ELSE pc # "unsat" => s.confl = NoRef
  /\ pc = "unsat" => FormulaModels = {}

CInv == Given /\ Phase /\ Sound(s, FormulaModels) /\ HeapHoldsTheFree

-----------------------------------------------------------------------------
(* Literals and records.                                                   *)

LEMMA LitFacts ==
  ASSUME NEW l \in Lits
  PROVE  /\ Var(l) \in Vars /\ -l \in Lits /\ l # 0 /\ l \in Int
         /\ Var(-l) = Var(l) /\ -(-l) = l /\ -l # l
<1>1. l \in Vars \/ \E v \in Vars : l = -v
  BY DEF Lits
<1>2. \A v \in Vars : v \in Int /\ v > 0 /\ v \in Lits /\ -v \in Lits
  BY NbVarsAssumption DEF Vars, Lits
<1>3. CASE l \in Vars
  BY <1>2, <1>3 DEF Var
<1>4. CASE \E v \in Vars : l = -v
  BY <1>2, <1>4 DEF Var
<1> QED BY <1>1, <1>3, <1>4

LEMMA SameVar ==
  ASSUME NEW l \in Lits, NEW q \in Lits
  PROVE  Var(l) = Var(q) <=> l = q \/ l = -q
<1>1. l \in Int /\ q \in Int
  BY LitFacts
<1> QED BY <1>1 DEF Var

LEMMA SignsDiffer ==
  /\ False \in Int /\ True \in Int /\ Undef = 0
  /\ -False = True /\ -True = False /\ True # Undef /\ False # Undef /\ True # False
<1>1. False \in Int /\ False + 1 = 0 /\ True = 1 /\ Undef = 0 /\ True \in Int
  BY DEF False, True, Undef
<1>2. ASSUME NEW x \in Int, x + 1 = 0 PROVE -x = 1 /\ -1 = x
  BY <1>2
<1>3. -False = 1 /\ -1 = False
  BY <1>1, <1>2
<1> QED BY <1>1, <1>3

\* A literal and its negation have opposite values.
LEMMA ValueFacts ==
  ASSUME NEW st, st.assigns \in [Vars -> Values], NEW l \in Lits
  PROVE  /\ Value(st, l) \in Values
         /\ Value(st, -l) = -Value(st, l)
         /\ (Value(st, -l) = True) <=> (Value(st, l) = False)
         /\ (Value(st, -l) = False) <=> (Value(st, l) = True)
         /\ (Value(st, l) = Undef) <=> (st.assigns[Var(l)] = Undef)
<1>1. l \in Int /\ Var(l) \in Vars /\ l # 0
  BY LitFacts
<1>2. st.assigns[Var(l)] \in Values
  BY <1>1
<1>3. CASE l > 0
  <2>1. Var(l) = l /\ ~(-l > 0) /\ -(-l) = l
    BY <1>1, <1>3 DEF Var
  <2>2. Value(st, l) = st.assigns[Var(l)] /\ Value(st, -l) = -st.assigns[Var(l)]
    BY <2>1, <1>3 DEF Value
  <2> QED BY <1>2, <2>2 DEF Values, True, Undef, False
<1>4. CASE ~(l > 0)
  <2>1. Var(l) = -l /\ -l > 0
    BY <1>1, <1>4 DEF Var
  <2>2. Value(st, l) = -st.assigns[Var(l)] /\ Value(st, -l) = st.assigns[Var(l)]
    BY <2>1, <1>4 DEF Value
  <2> QED BY <1>2, <2>2 DEF Values, True, Undef, False
<1> QED BY <1>3, <1>4

LEMMA ValueAfter ==
  ASSUME NEW st, st.assigns \in [Vars -> Values], NEW p \in Lits, NEW new,
         new.assigns[Var(p)] = IF p > 0 THEN True ELSE False,
         \A v \in Vars : v # Var(p) => new.assigns[v] = st.assigns[v]
  PROVE  /\ Value(new, p) = True
         /\ \A l \in Lits : Var(l) # Var(p) => Value(new, l) = Value(st, l)
<1>1. p \in Int /\ Var(p) \in Vars /\ p # 0
  BY LitFacts
<1>3. Value(new, p) = True
  <2>1. new.assigns[Var(p)] = IF p > 0 THEN True ELSE False
    BY <1>1
  <2>2. Value(new, p) = IF p > 0 THEN new.assigns[Var(p)] ELSE -new.assigns[Var(p)]
    BY <1>1 DEF Value, Var
  <2>3. -False = True
    BY SignsDiffer
  <2>4. CASE p > 0
    BY ONLY <2>1, <2>2, <2>4
  <2>5. CASE ~(p > 0)
    BY ONLY <2>1, <2>2, <2>3, <2>5
  <2> QED BY <2>4, <2>5
<1>4. ASSUME NEW l \in Lits, Var(l) # Var(p) PROVE Value(new, l) = Value(st, l)
  <2>1. l \in Int /\ Var(l) \in Vars
    BY LitFacts
  <2>2. new.assigns[Var(l)] = st.assigns[Var(l)]
    BY <1>4, <2>1
  <2>3. \A z : Value(z, l) = IF l > 0 THEN z.assigns[Var(l)] ELSE -z.assigns[Var(l)]
    BY <2>1 DEF Value, Var
  <2> QED BY <2>2, <2>3
<1> QED BY <1>3, <1>4

\* A clause in memory.
LEMMA ClauseFacts ==
  ASSUME NEW st \in Solver, NEW cr \in DOMAIN st.db
  PROVE  /\ st.db[cr] \in Clauses /\ st.db[cr] \in Seq(Lits)
         /\ Len(st.db[cr]) \in Nat /\ Len(st.db[cr]) >= 2
         /\ DOMAIN st.db[cr] = 1 .. Len(st.db[cr])
         /\ \A i \in DOMAIN st.db[cr] : st.db[cr][i] \in Lits
         /\ 1 \in DOMAIN st.db[cr] /\ 2 \in DOMAIN st.db[cr]
         /\ cr \in Nat \ {0}
<1>1. st.db \in Seq(Clauses)
  BY DEF Solver
<1>2. st.db[cr] \in Clauses /\ cr \in Nat \ {0}
  BY <1>1, ElementOfSeq, LenProperties
<1>3. st.db[cr] \in Seq(Lits) /\ Len(st.db[cr]) >= 2
  BY <1>2 DEF Clauses
<1> QED BY <1>2, <1>3, LenProperties, ElementOfSeq

-----------------------------------------------------------------------------
(* What does not depend on what has changed.                               *)

SameMemory(st, new) ==
  /\ new.db = st.db /\ new.deleted = st.deleted /\ new.clauses = st.clauses
  /\ new.learnts = st.learnts /\ new.unaryWatchedClauses = st.unaryWatchedClauses
  /\ new.oneWatched = st.oneWatched

SameLists(st, new) ==
  /\ new.watches = st.watches /\ new.watchesBin = st.watchesBin
  /\ new.unaryWatches = st.unaryWatches /\ new.dirty = st.dirty

SameTrail(st, new) ==
  /\ new.assigns = st.assigns /\ new.level = st.level /\ new.reason = st.reason
  /\ new.trail = st.trail /\ new.trailLim = st.trailLim

LEMMA WatchingFrame ==
  ASSUME NEW st, NEW new, SameMemory(st, new), SameLists(st, new)
  PROVE  /\ \A kind, l : ListOf(new, kind, l) = ListOf(st, kind, l)
         /\ \A kind, l, ws : WellListed(new, kind, l, ws) <=> WellListed(st, kind, l, ws)
         /\ Watching(st) => Watching(new)
<1>1. /\ new.db = st.db /\ new.deleted = st.deleted /\ new.oneWatched = st.oneWatched
      /\ new.watches = st.watches /\ new.watchesBin = st.watchesBin
      /\ new.unaryWatches = st.unaryWatches /\ new.dirty = st.dirty
  BY DEF SameMemory, SameLists
<1>2. \A kind, l : ListOf(new, kind, l) = ListOf(st, kind, l)
  BY <1>1, Zenon DEF ListOf
<1>3. \A cr : Lists(new, cr) = Lists(st, cr)
  BY <1>1, Zenon DEF Lists
<1>4. \A kind, l : Attached(new, kind, l) = Attached(st, kind, l)
  BY <1>1, <1>3 DEF Attached, Live
<1>5. \A kind, l, ws : WellListed(new, kind, l, ws) <=> WellListed(st, kind, l, ws)
  BY SMTT(30), <1>1, <1>4 DEF WellListed
<1> QED BY <1>2, <1>5 DEF Watching

LEMMA TrailFrame ==
  ASSUME NEW st, NEW new, SameTrail(st, new)
  PROVE  /\ \A l : Value(new, l) = Value(st, l) /\ Level(new, l) = Level(st, l)
         /\ DecisionLevel(new) = DecisionLevel(st)
         /\ OnTrail(st) => OnTrail(new)
         /\ Levelled(st) => Levelled(new)
         /\ Decided(st) => Decided(new)
<1>1. /\ new.assigns = st.assigns /\ new.level = st.level /\ new.reason = st.reason
      /\ new.trail = st.trail /\ new.trailLim = st.trailLim
  BY DEF SameTrail
<1>2. \A l : Value(new, l) = Value(st, l) /\ Level(new, l) = Level(st, l)
  BY <1>1, Zenon DEF Value, Level
<1>3. DecisionLevel(new) = DecisionLevel(st)
  BY <1>1, Zenon DEF DecisionLevel
<1>4. OnTrail(st) => OnTrail(new)
  BY <1>1, <1>2, Zenon DEF OnTrail
<1>5. Levelled(st) => Levelled(new)
  BY <1>1, <1>2, <1>3, Zenon DEF Levelled
<1>6. Decided(st) => Decided(new)
  BY <1>1, <1>2, <1>3, Zenon DEF Decided
<1> QED BY <1>2, <1>3, <1>4, <1>5, <1>6

-----------------------------------------------------------------------------
(* UncheckedEnqueue.                                                       *)

LEMMA EnqueueFields ==
  ASSUME NEW st \in Solver, NEW p \in Lits, NEW from \in Nat, NEW new, new = UncheckedEnqueue(st, p, from)
  PROVE  /\ new \in Solver
         /\ new.assigns[Var(p)] = IF p > 0 THEN True ELSE False
         /\ new.reason[Var(p)] = from /\ new.level[Var(p)] = DecisionLevel(st)
         /\ \A v \in Vars : v # Var(p) => /\ new.assigns[v] = st.assigns[v] /\ new.reason[v] = st.reason[v]
                                          /\ new.level[v] = st.level[v]
         /\ Len(new.trail) = Len(st.trail) + 1 /\ DOMAIN new.trail = 1 .. Len(st.trail) + 1
         /\ new.trail[Len(st.trail) + 1] = p /\ \A k \in DOMAIN st.trail : new.trail[k] = st.trail[k]
         /\ new.trailLim = st.trailLim /\ new.qhead = st.qhead /\ new.confl = st.confl
         /\ new.decision = st.decision /\ new.orderHeap = st.orderHeap
         /\ SameMemory(st, new) /\ SameLists(st, new)
<1> DEFINE a == [st.assigns EXCEPT ![Var(p)] = IF p > 0 THEN True ELSE False]
           b == [st.reason EXCEPT ![Var(p)] = from]
           c == [st.level EXCEPT ![Var(p)] = DecisionLevel(st)]
           d == Append(st.trail, p)
<1>1. a \in [Vars -> Values] /\ b \in [Vars -> Nat] /\ c \in [Vars -> Nat] /\ d \in Seq(Lits)
  <2>1. Var(p) \in Vars
    BY LitFacts
  <2>2. /\ st.trailLim \in Seq(Nat) /\ st.assigns \in [Vars -> Values]
        /\ st.level \in [Vars -> Nat] /\ st.reason \in [Vars -> Nat] /\ st.trail \in Seq(Lits)
    BY DEF Solver
  <2>3. DecisionLevel(st) \in Nat
    BY <2>2, LenProperties DEF DecisionLevel
  <2> QED BY <2>1, <2>2, <2>3 DEF Values
<1>6. /\ a[Var(p)] = IF p > 0 THEN True ELSE False
      /\ b[Var(p)] = from /\ c[Var(p)] = DecisionLevel(st)
      /\ \A v \in Vars : v # Var(p) => a[v] = st.assigns[v] /\ b[v] = st.reason[v] /\ c[v] = st.level[v]
  <2>1. Var(p) \in Vars
    BY LitFacts
  <2>2. st.assigns \in [Vars -> Values] /\ st.level \in [Vars -> Nat] /\ st.reason \in [Vars -> Nat]
    BY DEF Solver
  <2> QED BY <2>1, <2>2
<1>2. new = [st EXCEPT !.assigns = a, !.reason = b, !.level = c, !.trail = d]
  BY Zenon DEF UncheckedEnqueue
<1> HIDE DEF a, b, c, d
<1>3. new \in Solver
  BY ZenonT(40), <1>1, <1>2 DEF Solver
<1>4. /\ new.assigns = a /\ new.reason = b /\ new.level = c /\ new.trail = d
      /\ new.trailLim = st.trailLim /\ new.qhead = st.qhead /\ new.confl = st.confl
      /\ new.decision = st.decision /\ new.orderHeap = st.orderHeap
  BY <1>2 DEF Solver
<1>5. SameMemory(st, new) /\ SameLists(st, new)
  BY <1>2 DEF Solver, SameMemory, SameLists
<1>7. /\ Len(d) = Len(st.trail) + 1 /\ DOMAIN d = 1 .. Len(st.trail) + 1
      /\ d[Len(st.trail) + 1] = p /\ \A k \in DOMAIN st.trail : d[k] = st.trail[k]
  BY AppendProperties DEF d, Solver
<1> QED BY <1>3, <1>4, <1>5, <1>6, <1>7

\* A clause of which all literals but l are false makes l true.
Unit(st, c, l) ==
  /\ l = c[1] \/ (Len(c) = 2 /\ l = c[2])
  /\ \A i \in DOMAIN c : c[i] # l => Value(st, c[i]) = False

LEMMA TrailFacts ==
  ASSUME NEW st \in Solver, OnTrail(st)
  PROVE  /\ st.trail \in Seq(Lits) /\ Len(st.trail) \in Nat /\ DOMAIN st.trail = 1 .. Len(st.trail)
         /\ \A k \in DOMAIN st.trail : st.trail[k] \in Lits
         /\ st.trailLim \in Seq(Nat) /\ DecisionLevel(st) \in Nat
         /\ DOMAIN st.trailLim = 1 .. DecisionLevel(st)
         /\ \A d \in DOMAIN st.trailLim : st.trailLim[d] \in Nat
         /\ st.assigns \in [Vars -> Values] /\ st.level \in [Vars -> Nat] /\ st.reason \in [Vars -> Nat]
         /\ \A l \in Lits : Value(st, l) = True <=> \E k \in DOMAIN st.trail : st.trail[k] = l
         /\ \A l \in Lits : Level(st, l) \in Nat
<1>1. /\ st.trail \in Seq(Lits) /\ st.trailLim \in Seq(Nat) /\ st.assigns \in [Vars -> Values]
      /\ st.level \in [Vars -> Nat] /\ st.reason \in [Vars -> Nat]
  BY DEF Solver
<1>2. /\ Len(st.trail) \in Nat /\ DOMAIN st.trail = 1 .. Len(st.trail)
      /\ \A k \in DOMAIN st.trail : st.trail[k] \in Lits
      /\ DecisionLevel(st) \in Nat /\ DOMAIN st.trailLim = 1 .. DecisionLevel(st)
      /\ \A d \in DOMAIN st.trailLim : st.trailLim[d] \in Nat
  BY <1>1, LenProperties, ElementOfSeq DEF DecisionLevel
<1>3. ASSUME NEW l \in Lits
      PROVE  Value(st, l) = True <=> \E k \in DOMAIN st.trail : st.trail[k] = l
  <2>1. ASSUME Value(st, l) = True PROVE \E k \in DOMAIN st.trail : st.trail[k] = l
    <3>1. st.assigns[Var(l)] # Undef /\ Var(l) \in Vars
      BY ZenonT(40), <1>1, <2>1, ValueFacts, LitFacts, SignsDiffer
    <3>2. PICK k \in DOMAIN st.trail : Var(st.trail[k]) = Var(l)
      BY <3>1 DEF OnTrail
    <3>3. Value(st, st.trail[k]) = True /\ st.trail[k] \in Lits
      BY <1>2 DEF OnTrail
    <3>4. st.trail[k] = l \/ st.trail[k] = -l
      BY <3>2, <3>3, SameVar
    <3>5. Value(st, -l) # True
      BY <1>1, <2>1, ValueFacts, SignsDiffer
    <3> QED BY <3>3, <3>4, <3>5
  <2>2. ASSUME NEW k \in DOMAIN st.trail, st.trail[k] = l PROVE Value(st, l) = True
    BY <2>2 DEF OnTrail
  <2> QED BY <2>1, <2>2
<1>4. \A l \in Lits : Level(st, l) \in Nat
  BY <1>1, LitFacts DEF Level
<1> QED BY <1>1, <1>2, <1>3, <1>4

-----------------------------------------------------------------------------
(* Assigning a literal.                                                    *)

LEMMA CoreFacts ==
  ASSUME NEW M, NEW st, Core(st, M)
  PROVE  /\ st \in Solver /\ Stored(st) /\ OnTrail(st) /\ Levelled(st) /\ Decided(st)
         /\ Reasoned(st) /\ Pending(st) /\ Implied(st, M)
BY DEF Core

\* What is unaffected by a new literal at the end of the trail.
LEMMA EnqueueFrame ==
  ASSUME NEW st \in Solver, OnTrail(st), NEW p \in Lits, Value(st, p) = Undef, NEW from \in Nat,
         NEW new, new = UncheckedEnqueue(st, p, from)
  PROVE  /\ new \in Solver /\ OnTrail(new)
         /\ Len(new.trail) = Len(st.trail) + 1 /\ DOMAIN new.trail = 1 .. Len(st.trail) + 1
         /\ new.trail[Len(st.trail) + 1] = p
         /\ new.reason[Var(p)] = from /\ Level(new, p) = DecisionLevel(st) /\ Value(new, p) = True
         /\ \A v \in Vars : v # Var(p) => /\ new.assigns[v] = st.assigns[v] /\ new.reason[v] = st.reason[v]
                                          /\ new.level[v] = st.level[v]
         /\ \A k \in DOMAIN st.trail :
              LET l == st.trail[k]
              IN  /\ l \in Lits /\ new.trail[k] = l /\ Var(l) # Var(p) /\ new.reason[Var(l)] = st.reason[Var(l)]
                  /\ Level(new, l) = Level(st, l) /\ Value(new, l) = Value(st, l)
         /\ \A l \in Lits : Value(st, l) # Undef => Value(new, l) = Value(st, l) /\ Level(new, l) = Level(st, l)
         /\ DecisionLevel(new) = DecisionLevel(st)
<1>1. /\ new \in Solver /\ new.assigns[Var(p)] = IF p > 0 THEN True ELSE False
      /\ new.reason[Var(p)] = from /\ new.level[Var(p)] = DecisionLevel(st)
      /\ \A v \in Vars : v # Var(p) => /\ new.assigns[v] = st.assigns[v] /\ new.reason[v] = st.reason[v]
                                       /\ new.level[v] = st.level[v]
      /\ Len(new.trail) = Len(st.trail) + 1 /\ DOMAIN new.trail = 1 .. Len(st.trail) + 1
      /\ new.trail[Len(st.trail) + 1] = p /\ \A k \in DOMAIN st.trail : new.trail[k] = st.trail[k]
      /\ new.trailLim = st.trailLim
  BY EnqueueFields
<1>2. /\ st.trail \in Seq(Lits) /\ Len(st.trail) \in Nat /\ DOMAIN st.trail = 1 .. Len(st.trail)
      /\ \A k \in DOMAIN st.trail : st.trail[k] \in Lits
      /\ st.assigns \in [Vars -> Values] /\ st.level \in [Vars -> Nat] /\ st.reason \in [Vars -> Nat]
  BY TrailFacts
<1>3. Var(p) \in Vars
  BY LitFacts
<1>4. /\ Len(new.trail) = Len(st.trail) + 1 /\ DOMAIN new.trail = 1 .. Len(st.trail) + 1
      /\ new.trail[Len(st.trail) + 1] = p /\ \A k \in DOMAIN st.trail : new.trail[k] = st.trail[k]
  BY <1>1
<1>5. /\ new.reason[Var(p)] = from /\ Level(new, p) = DecisionLevel(st)
      /\ \A v \in Vars : v # Var(p) => /\ new.assigns[v] = st.assigns[v] /\ new.reason[v] = st.reason[v]
                                       /\ new.level[v] = st.level[v]
  BY <1>1, <1>2, <1>3 DEF Level
<1>6. /\ new.assigns \in [Vars -> Values] /\ Value(new, p) = True
      /\ \A l \in Lits : Var(l) # Var(p) => Value(new, l) = Value(st, l)
  <2>1. new.assigns[Var(p)] = IF p > 0 THEN True ELSE False
    BY <1>1, <1>2, <1>3
  <2>2. new.assigns \in [Vars -> Values]
    BY <1>1 DEF Solver
  <2>3. Value(new, p) = True /\ \A l \in Lits : Var(l) # Var(p) => Value(new, l) = Value(st, l)
    <3>1. st.assigns \in [Vars -> Values] /\ \A v \in Vars : v # Var(p) => new.assigns[v] = st.assigns[v]
      BY <1>2, <1>5
    <3> QED BY <3>1, <2>1, ValueAfter
  <2> QED BY <2>2, <2>3
<1>7. ASSUME NEW l \in Lits, Value(st, l) # Undef
      PROVE  /\ Value(new, l) = Value(st, l) /\ Level(new, l) = Level(st, l)
             /\ new.reason[Var(l)] = st.reason[Var(l)] /\ Var(l) # Var(p)
  <2>1. Var(l) # Var(p) /\ Var(l) \in Vars
    <3>1. st.assigns[Var(l)] # Undef
      BY <1>2, <1>7, ValueFacts
    <3>2. st.assigns[Var(p)] = Undef
      BY <1>2, ValueFacts
    <3> QED BY ONLY <3>1, <3>2, LitFacts
  <2> QED BY <2>1, <1>5, <1>6 DEF Level
<1>8. ASSUME NEW k \in DOMAIN st.trail
      PROVE  LET l == st.trail[k]
             IN  /\ l \in Lits /\ new.trail[k] = l /\ Var(l) # Var(p) /\ new.reason[Var(l)] = st.reason[Var(l)]
                 /\ Level(new, l) = Level(st, l) /\ Value(new, l) = Value(st, l) /\ Value(new, l) = True
  <2>1. st.trail[k] \in Lits /\ Value(st, st.trail[k]) = True
    BY <1>2 DEF OnTrail
  <2> QED BY <2>1, <1>4, <1>7, SignsDiffer
<1>9. DecisionLevel(new) = DecisionLevel(st)
  BY <1>1 DEF DecisionLevel
<1>10. OnTrail(new)
  <2>1. \A k \in DOMAIN new.trail : Value(new, new.trail[k]) = True
    BY SMTT(30), <1>2, <1>4, <1>6, <1>8
  <2>2. ASSUME NEW v \in Vars, new.assigns[v] # Undef PROVE \E k \in DOMAIN new.trail : Var(new.trail[k]) = v
    <3>1. CASE v = Var(p)
      <4>1. Len(st.trail) + 1 \in DOMAIN new.trail
        BY ONLY <1>2, <1>4
      <4> QED BY ONLY <3>1, <4>1, <1>4
    <3>2. CASE v # Var(p)
      <4>1. st.assigns[v] # Undef
        BY <3>2, <2>2, <1>5
      <4>2. PICK k \in DOMAIN st.trail : Var(st.trail[k]) = v
        BY <4>1 DEF OnTrail
      <4> QED BY <4>2, <1>2, <1>4
    <3> QED BY <3>1, <3>2
  <2>3. ASSUME NEW j \in DOMAIN new.trail, NEW k \in DOMAIN new.trail, Var(new.trail[j]) = Var(new.trail[k])
        PROVE  j = k
    <3>1. CASE j \in DOMAIN st.trail /\ k \in DOMAIN st.trail
      BY <3>1, <2>3, <1>4 DEF OnTrail
    <3>2. CASE j \notin DOMAIN st.trail /\ k \notin DOMAIN st.trail
      BY <3>2, <1>2, <1>4
    <3>3. CASE j \in DOMAIN st.trail /\ k \notin DOMAIN st.trail
      <4>1. k = Len(st.trail) + 1
        BY <3>3, <1>2, <1>4
      <4> QED BY <4>1, <3>3, <2>3, <1>4, <1>8
    <3>4. CASE j \notin DOMAIN st.trail /\ k \in DOMAIN st.trail
      <4>1. j = Len(st.trail) + 1
        BY <3>4, <1>2, <1>4
      <4> QED BY <4>1, <3>4, <2>3, <1>4, <1>8
    <3> QED BY <3>1, <3>2, <3>3, <3>4
  <2> QED BY <2>1, <2>2, <2>3 DEF OnTrail
<1> QED BY <1>1, <1>4, <1>5, <1>6, <1>7, <1>8, <1>9, <1>10

LEMMA ForcesFrame ==
  ASSUME NEW st, NEW new, NEW c, NEW l, NEW k, Forces(st, c, l, k),
         \A j \in 1 .. k - 1 : new.trail[j] = st.trail[j]
  PROVE  Forces(new, c, l, k)
BY DEF Forces

\* A literal that follows without a decision, one that is decided, or one that
\* a clause forces may be made true.
LEMMA EnqueueCore ==
  ASSUME NEW M, NEW st, Core(st, M), NEW p \in Lits, Value(st, p) = Undef, NEW from \in Nat,
         \/ from = NoRef /\ DecisionLevel(st) = 0 /\ \A m \in M : Satisfies(m, {p})
         \/ from = NoRef /\ DecisionLevel(st) > 0 /\ st.trailLim[DecisionLevel(st)] = Len(st.trail)
         \/ from \in Live(st) /\ Unit(st, st.db[from], p),
         NEW new, new = UncheckedEnqueue(st, p, from)
  PROVE  Core(new, M)
<1> DEFINE n == Len(st.trail)
<1>1. /\ st \in Solver /\ Stored(st) /\ OnTrail(st) /\ Levelled(st) /\ Decided(st)
      /\ Reasoned(st) /\ Pending(st) /\ Implied(st, M)
  BY CoreFacts
<1>2. /\ st.trail \in Seq(Lits) /\ Len(st.trail) \in Nat /\ DOMAIN st.trail = 1 .. Len(st.trail)
      /\ \A k \in DOMAIN st.trail : st.trail[k] \in Lits
      /\ st.trailLim \in Seq(Nat) /\ DecisionLevel(st) \in Nat
      /\ DOMAIN st.trailLim = 1 .. DecisionLevel(st)
      /\ \A d \in DOMAIN st.trailLim : st.trailLim[d] \in Nat
      /\ \A l \in Lits : Value(st, l) = True <=> \E k \in DOMAIN st.trail : st.trail[k] = l
      /\ st.assigns \in [Vars -> Values]
  BY <1>1, TrailFacts
<1>3. /\ new \in Solver /\ OnTrail(new)
      /\ Len(new.trail) = n + 1 /\ DOMAIN new.trail = 1 .. n + 1 /\ new.trail[n + 1] = p
      /\ new.reason[Var(p)] = from /\ Level(new, p) = DecisionLevel(st) /\ Value(new, p) = True
      /\ \A v \in Vars : v # Var(p) => /\ new.assigns[v] = st.assigns[v] /\ new.reason[v] = st.reason[v]
                                       /\ new.level[v] = st.level[v]
      /\ \A k \in DOMAIN st.trail :
           LET l == st.trail[k]
           IN  /\ l \in Lits /\ new.trail[k] = l /\ Var(l) # Var(p) /\ new.reason[Var(l)] = st.reason[Var(l)]
               /\ Level(new, l) = Level(st, l)
      /\ DecisionLevel(new) = DecisionLevel(st)
  BY <1>1, EnqueueFrame
<1>4. /\ SameMemory(st, new) /\ new.trailLim = st.trailLim /\ new.qhead = st.qhead /\ new.confl = st.confl
  <2>1. st \in Solver
    BY <1>1
  <2> QED BY <2>1, EnqueueFields
<1>5. /\ new.db = st.db /\ new.deleted = st.deleted /\ Live(new) = Live(st)
  BY <1>4 DEF SameMemory, Live
<1>6. Stored(new)
  <2>1. /\ new.db = st.db /\ new.deleted = st.deleted /\ new.clauses = st.clauses
        /\ new.learnts = st.learnts /\ new.unaryWatchedClauses = st.unaryWatchedClauses
        /\ new.oneWatched = st.oneWatched
    BY <1>4 DEF SameMemory
  <2> QED BY <2>1, <1>1, <1>4, <1>5 DEF Stored
<1>7. Levelled(new)
  <2>1. \A d \in DOMAIN st.trailLim : st.trailLim[d] \in Nat /\ st.trailLim[d] <= n
    BY <1>1, <1>2 DEF Levelled
  <2>2. \A d \in DOMAIN st.trailLim : st.trailLim[d] <= n + 1
    BY <2>1, <1>2
  <2>3. ASSUME NEW k \in DOMAIN new.trail
        PROVE  /\ Level(new, new.trail[k]) <= DecisionLevel(new)
               /\ \A d \in DOMAIN st.trailLim : Level(new, new.trail[k]) >= d <=> k > st.trailLim[d]
    <3>1. CASE k \in DOMAIN st.trail
      BY <3>1, <1>1, <1>3 DEF Levelled
    <3>2. CASE k \notin DOMAIN st.trail
      <4>1. k = n + 1
        BY <3>2, <1>2, <1>3
      <4>2. Level(new, new.trail[k]) = DecisionLevel(st)
        BY <4>1, <1>3
      <4>3. \A d \in DOMAIN st.trailLim : DecisionLevel(st) >= d /\ k > st.trailLim[d]
        BY <4>1, <2>1, <1>2
      <4> QED BY <4>2, <4>3, <1>2, <1>3
    <3> QED BY <3>1, <3>2
  <2> QED BY <2>2, <2>3, <1>1, <1>3, <1>4 DEF Levelled
<1>8. Decided(new)
  <2>1. ASSUME NEW v \in Vars, new.assigns[v] = Undef PROVE new.reason[v] = NoRef
    <3>1. v # Var(p)
      <4>1. new.assigns[Var(p)] # Undef
        BY ZenonT(40), <1>3, ValueFacts, SignsDiffer DEF Solver
      <4> QED BY <4>1, <2>1
    <3> QED BY <3>1, <2>1, <1>1, <1>3 DEF Decided
  <2>2. ASSUME NEW k \in DOMAIN new.trail, Level(new, new.trail[k]) > 0, new.reason[Var(new.trail[k])] = NoRef
        PROVE  k = new.trailLim[Level(new, new.trail[k])] + 1
    <3>1. CASE k \in DOMAIN st.trail
      BY <3>1, <2>2, <1>1, <1>3, <1>4 DEF Decided
    <3>2. CASE k \notin DOMAIN st.trail
      <4>1. k = n + 1 /\ new.trail[k] = p
        BY <3>2, <1>2, <1>3
      <4>2. from = NoRef /\ DecisionLevel(st) > 0
        BY <4>1, <2>2, <1>3
      <4>3. 0 \notin Live(st)
        BY LenProperties, <1>1 DEF Live, Solver
      <4>4. st.trailLim[DecisionLevel(st)] = Len(st.trail)
        BY <4>2, <4>3, <1>2 DEF NoRef
      <4> QED BY <4>1, <4>4, <1>3, <1>4
    <3> QED BY <3>1, <3>2
  <2> QED BY <2>1, <2>2 DEF Decided
<1>9. Reasoned(new)
  <2> SUFFICES ASSUME NEW k \in DOMAIN new.trail, new.reason[Var(new.trail[k])] # NoRef
               PROVE  /\ new.reason[Var(new.trail[k])] \in DOMAIN new.db
                      /\ Level(new, new.trail[k]) > 0 => new.reason[Var(new.trail[k])] \notin new.deleted
                      /\ Forces(new, new.db[new.reason[Var(new.trail[k])]], new.trail[k], k)
    BY DEF Reasoned
  <2>1. CASE k \in DOMAIN st.trail
    <3> DEFINE l == st.trail[k]
               r == st.reason[Var(l)]
    <3>1. /\ r \in DOMAIN st.db
          /\ Level(st, l) > 0 => r \notin st.deleted
          /\ Forces(st, st.db[r], l, k)
      BY <2>1, <1>1, <1>3 DEF Reasoned
    <3>2. \A j \in 1 .. k - 1 : new.trail[j] = st.trail[j]
      <4>1. \A j \in 1 .. k - 1 : j \in DOMAIN st.trail
        BY <2>1, <1>2
      <4> QED BY <4>1, <1>3
    <3>3. Forces(new, st.db[r], l, k)
      BY <3>1, <3>2, ForcesFrame
    <3>4. new.trail[k] = l /\ new.reason[Var(l)] = r /\ Level(new, l) = Level(st, l)
      BY <2>1, <1>3
    <3> HIDE DEF l, r
    <3> QED BY <3>1, <3>3, <3>4, <1>5
  <2>2. CASE k \notin DOMAIN st.trail
    <3>1. k = n + 1 /\ new.trail[k] = p /\ from # NoRef
      BY <2>2, <1>2, <1>3
    <3>2. from \in Live(st) /\ Unit(st, st.db[from], p)
      BY <3>1
    <3>3. ASSUME NEW i \in DOMAIN st.db[from], st.db[from][i] # p
          PROVE  \E j \in 1 .. k - 1 : new.trail[j] = -st.db[from][i]
      <4>1. st.db[from][i] \in Lits
        BY <3>2, <1>1, ClauseFacts DEF Live
      <4>2. Value(st, st.db[from][i]) = False
        BY <3>2, <3>3 DEF Unit
      <4>3. Value(st, -st.db[from][i]) = True /\ -st.db[from][i] \in Lits
        BY ZenonT(40), <4>1, <4>2, <1>2, ValueFacts, LitFacts
      <4>4. PICK j \in DOMAIN st.trail : st.trail[j] = -st.db[from][i]
        BY <4>3, <1>2
      <4> QED BY SMTT(30), <4>4, <3>1, <1>2, <1>3
    <3>4. Forces(new, st.db[from], p, k)
      BY <3>2, <3>3 DEF Forces, Unit
    <3> QED BY <3>1, <3>2, <3>4, <1>3, <1>5 DEF Live
  <2> QED BY <2>1, <2>2
<1>10. Pending(new)
  <2>1. st.qhead \in Nat /\ st.qhead <= n
    BY <1>1 DEF Solver, Pending
  <2>2. ASSUME NEW k \in st.qhead + 1 .. n + 1 PROVE Level(new, new.trail[k]) = DecisionLevel(new)
    <3>1. CASE k = n + 1
      BY <3>1, <1>3
    <3>2. CASE k # n + 1
      <4>0. n \in Nat /\ DOMAIN st.trail = 1 .. n
        BY <1>2
      <4>1. k \in st.qhead + 1 .. n /\ k \in 1 .. n
        <5> HIDE DEF n
        <5> QED BY ONLY <2>1, <2>2, <3>2, <4>0
      <4>2. k \in DOMAIN st.trail
        BY ONLY <4>0, <4>1
      <4> QED BY <4>1, <4>2, <1>1, <1>3 DEF Pending
    <3> QED BY <3>1, <3>2
  <2> QED BY <2>1, <2>2, <1>2, <1>3, <1>4 DEF Pending
<1>11. Implied(new, M)
  <2> SUFFICES ASSUME NEW m \in M
               PROVE  /\ \A cr \in DOMAIN st.db : Satisfies(m, ToSet(st.db[cr]))
                      /\ \A k \in DOMAIN new.trail : Level(new, new.trail[k]) = 0 => Satisfies(m, {new.trail[k]})
    BY <1>5 DEF Implied
  <2>1. \A cr \in DOMAIN st.db : Satisfies(m, ToSet(st.db[cr]))
    BY <1>1 DEF Implied
  <2>2. ASSUME NEW k \in DOMAIN new.trail, Level(new, new.trail[k]) = 0 PROVE Satisfies(m, {new.trail[k]})
    <3>1. CASE k \in DOMAIN st.trail
      BY <3>1, <2>2, <1>1, <1>3 DEF Implied
    <3>2. CASE k \notin DOMAIN st.trail
      <4>1. k = n + 1 /\ new.trail[k] = p /\ DecisionLevel(st) = 0
        BY <3>2, <2>2, <1>2, <1>3
      <4>2. CASE \A mm \in M : Satisfies(mm, {p})
        BY <4>1, <4>2
      <4>3. CASE from \in Live(st) /\ Unit(st, st.db[from], p)
        <5>1. PICK q \in ToSet(st.db[from]) : (q > 0) = (Var(q) \in m)
          BY <4>3, <2>1 DEF Live, Satisfies
        <5>2. PICK i \in DOMAIN st.db[from] : st.db[from][i] = q
          BY <5>1 DEF ToSet
        <5>3. q \in Lits
          BY <5>2, <4>3, <1>1, ClauseFacts DEF Live
        <5>4. CASE q = p
          BY <5>4, <5>1, <4>1 DEF Satisfies
        <5>5. CASE q # p
          <6>1. Value(st, -q) = True /\ -q \in Lits
            BY <5>5, <5>2, <5>3, <4>3, <1>2, ValueFacts, LitFacts DEF Unit
          <6>2. PICK j \in DOMAIN st.trail : st.trail[j] = -q
            BY <6>1, <1>2
          <6>3. Level(st, -q) \in Nat /\ Level(st, st.trail[j]) <= DecisionLevel(st)
            BY <6>1, <1>1, TrailFacts DEF Levelled
          <6>4. Satisfies(m, {-q})
            <7>1. Level(st, st.trail[j]) = 0
              BY <6>2, <6>3, <4>1
            <7>2. Satisfies(m, {st.trail[j]})
              BY <7>1, <1>1 DEF Implied
            <7> QED BY <7>2, <6>2
          <6>5. (-q > 0) = (Var(q) \in m)
            BY <6>4, <5>3, LitFacts DEF Satisfies
          <6>6. q \in Int /\ q # 0
            BY <5>3, LitFacts
          <6> QED BY <6>5, <6>6, <5>1
        <5> QED BY <5>4, <5>5
      <4>4. (\A mm \in M : Satisfies(mm, {p})) \/ (from \in Live(st) /\ Unit(st, st.db[from], p))
        <5>1. ~(DecisionLevel(st) > 0)
          BY <4>1
        <5> QED BY <5>1, Zenon
      <4> QED BY <4>2, <4>3, <4>4
    <3> QED BY <3>1, <3>2
  <2> QED BY <2>1, <2>2
<1> QED BY <1>3, <1>6, <1>7, <1>8, <1>9, <1>10, <1>11 DEF Core

-----------------------------------------------------------------------------
(* Lists of watchers, seen as the sets of the clauses that watch.          *)

LEMMA SeqFacts ==
  ASSUME NEW S, NEW a \in Seq(S)
  PROVE  /\ Len(a) \in Nat /\ DOMAIN a = 1 .. Len(a) /\ \A i \in DOMAIN a : a[i] \in S
         /\ ToSet(a) \subseteq S
         /\ \A x : x \in ToSet(a) <=> \E i \in DOMAIN a : a[i] = x
<1>1. Len(a) \in Nat /\ DOMAIN a = 1 .. Len(a) /\ \A i \in DOMAIN a : a[i] \in S
  BY LenProperties, ElementOfSeq
<1>2. \A x : x \in ToSet(a) <=> \E i \in DOMAIN a : a[i] = x
  BY DEF ToSet
<1> QED BY <1>1, <1>2

LEMMA CrefFacts ==
  ASSUME NEW a
  PROVE  \A x : x \in Crefs(a) <=> \E i \in DOMAIN a : a[i].cref = x
<1>1. \A x : x \in ToSet(a) <=> \E i \in DOMAIN a : a[i] = x
  BY DEF ToSet
<1> QED BY <1>1 DEF Crefs

LEMMA ListConcat ==
  ASSUME NEW a \in Seq(Watchers), NEW b \in Seq(Watchers)
  PROVE  /\ a \o b \in Seq(Watchers)
         /\ ToSet(a \o b) = ToSet(a) \cup ToSet(b)
         /\ Crefs(a \o b) = Crefs(a) \cup Crefs(b)
         /\ Once(a \o b) <=> Once(a) /\ Once(b) /\ Crefs(a) \cap Crefs(b) = {}
<1> DEFINE c == a \o b
           n == Len(a)
           m == Len(b)
<1>1. c \in Seq(Watchers) /\ Len(c) = n + m
      /\ \A i \in 1 .. n + m : c[i] = IF i <= n THEN a[i] ELSE b[i - n]
  BY ConcatProperties
<1>2. n \in Nat /\ m \in Nat /\ DOMAIN a = 1 .. n /\ DOMAIN b = 1 .. m /\ DOMAIN c = 1 .. n + m
  BY <1>1, SeqFacts
<1> HIDE DEF c, n, m
<1>3. \A i \in DOMAIN a : i \in DOMAIN c /\ c[i] = a[i]
  BY <1>1, <1>2
<1>4. \A j \in DOMAIN b : j + n \in DOMAIN c /\ c[j + n] = b[j]
  BY <1>1, <1>2
<1>5. \A i \in DOMAIN c : i \in DOMAIN a \/ (i - n \in DOMAIN b /\ i = (i - n) + n)
  BY <1>2
<1>6. ToSet(c) = ToSet(a) \cup ToSet(b)
  <2>1. \A x \in ToSet(c) : x \in ToSet(a) \cup ToSet(b)
    BY <1>3, <1>4, <1>5 DEF ToSet
  <2>2. \A x \in ToSet(a) \cup ToSet(b) : x \in ToSet(c)
    BY <1>3, <1>4 DEF ToSet
  <2> QED BY <2>1, <2>2
<1>7. Crefs(c) = Crefs(a) \cup Crefs(b)
  BY <1>6 DEF Crefs
<1>8. ASSUME Once(c) PROVE Once(a) /\ Once(b) /\ Crefs(a) \cap Crefs(b) = {}
  <2>1. Once(a)
    BY <1>3, <1>8 DEF Once
  <2>2. Once(b)
    <3> SUFFICES ASSUME NEW i \in DOMAIN b, NEW j \in DOMAIN b, b[i].cref = b[j].cref PROVE i = j
      BY DEF Once
    <3>1. i + n = j + n
      BY <1>4, <1>8 DEF Once
    <3> QED BY <3>1, <1>2
  <2>3. ASSUME NEW x \in Crefs(a), x \in Crefs(b) PROVE FALSE
    <3>1. PICK i \in DOMAIN a : a[i].cref = x
      BY CrefFacts
    <3>2. PICK j \in DOMAIN b : b[j].cref = x
      BY <2>3, CrefFacts
    <3>3. i = j + n
      BY <3>1, <3>2, <1>3, <1>4, <1>8 DEF Once
    <3> QED BY <3>3, <1>2
  <2> QED BY <2>1, <2>2, <2>3
<1>9. ASSUME Once(a), Once(b), Crefs(a) \cap Crefs(b) = {} PROVE Once(c)
  <2> SUFFICES ASSUME NEW i \in DOMAIN c, NEW j \in DOMAIN c, c[i].cref = c[j].cref PROVE i = j
    BY DEF Once
  <2>1. CASE i \in DOMAIN a /\ j \in DOMAIN a
    BY <2>1, <1>3, <1>9 DEF Once
  <2>2. CASE i \notin DOMAIN a /\ j \notin DOMAIN a
    <3>1. i - n = j - n
      BY <2>2, <1>4, <1>5, <1>9 DEF Once
    <3> QED BY <3>1, <1>2
  <2>3. CASE i \in DOMAIN a /\ j \notin DOMAIN a
    <3>1. c[i].cref \in Crefs(a) /\ c[j].cref \in Crefs(b)
      BY <2>3, <1>3, <1>4, <1>5, CrefFacts
    <3> QED BY <3>1, <1>9
  <2>4. CASE i \notin DOMAIN a /\ j \in DOMAIN a
    <3>1. c[j].cref \in Crefs(a) /\ c[i].cref \in Crefs(b)
      BY <2>4, <1>3, <1>4, <1>5, CrefFacts
    <3> QED BY <3>1, <1>9
  <2> QED BY <2>1, <2>2, <2>3, <2>4
<1> QED BY <1>1, <1>6, <1>7, <1>8, <1>9 DEF c

LEMMA ListOfOne ==
  ASSUME NEW w \in Watchers
  PROVE  <<w>> \in Seq(Watchers) /\ ToSet(<<w>>) = {w} /\ Crefs(<<w>>) = {w.cref} /\ Once(<<w>>)
<1>1. <<w>> \in Seq(Watchers) /\ DOMAIN <<w>> = {1} /\ <<w>>[1] = w
  OBVIOUS
<1>2. ToSet(<<w>>) = {w}
  BY <1>1 DEF ToSet
<1>3. Crefs(<<w>>) = {w.cref}
  BY <1>2 DEF Crefs
<1>4. Once(<<w>>)
  BY <1>1 DEF Once
<1> QED BY <1>1, <1>2, <1>3, <1>4

LEMMA ListAppend ==
  ASSUME NEW a \in Seq(Watchers), NEW w \in Watchers
  PROVE  /\ Append(a, w) \in Seq(Watchers)
         /\ ToSet(Append(a, w)) = ToSet(a) \cup {w}
         /\ Crefs(Append(a, w)) = Crefs(a) \cup {w.cref}
         /\ Once(Append(a, w)) <=> Once(a) /\ w.cref \notin Crefs(a)
<1>1. Append(a, w) = a \o <<w>>
  BY AppendIsConcat
<1>2. <<w>> \in Seq(Watchers) /\ ToSet(<<w>>) = {w} /\ Crefs(<<w>>) = {w.cref} /\ Once(<<w>>)
  BY ListOfOne
<1>3. /\ a \o <<w>> \in Seq(Watchers)
      /\ ToSet(a \o <<w>>) = ToSet(a) \cup ToSet(<<w>>)
      /\ Crefs(a \o <<w>>) = Crefs(a) \cup Crefs(<<w>>)
      /\ Once(a \o <<w>>) <=> Once(a) /\ Once(<<w>>) /\ Crefs(a) \cap Crefs(<<w>>) = {}
  BY <1>2, ListConcat
<1> QED BY <1>1, <1>2, <1>3

\* What is left of a list from position n + 1 on.
RestFrom(ws, n) == SubSeq(ws, n + 1, Len(ws))

LEMMA ListRest ==
  ASSUME NEW ws \in Seq(Watchers)
  PROVE  /\ RestFrom(ws, 0) = ws /\ RestFrom(ws, Len(ws)) = << >>
         /\ \A n \in 1 .. Len(ws) : /\ RestFrom(ws, n) \in Seq(Watchers)
                                    /\ RestFrom(ws, n - 1) = <<ws[n]>> \o RestFrom(ws, n)
<1>1. Len(ws) \in Nat
  BY LenProperties
<1>2. RestFrom(ws, 0) = ws
  BY SubSeqFull DEF RestFrom
<1>3. RestFrom(ws, Len(ws)) = << >>
  BY <1>1, SubSeqEmpty DEF RestFrom
<1>4. ASSUME NEW n \in 1 .. Len(ws)
      PROVE  RestFrom(ws, n) \in Seq(Watchers) /\ RestFrom(ws, n - 1) = <<ws[n]>> \o RestFrom(ws, n)
  <2>1. SubSeq(ws, n, Len(ws)) = <<ws[n]>> \o SubSeq(ws, n + 1, Len(ws))
    BY <1>1, SubSeqRecursiveFirst
  <2>2. n - 1 + 1 = n /\ n + 1 \in Int /\ Len(ws) \in Int
    BY <1>1
  <2>3. \A i \in n + 1 .. Len(ws) : ws[i] \in Watchers
    BY <1>1, SeqFacts
  <2>4. SubSeq(ws, n + 1, Len(ws)) \in Seq(Watchers)
    BY <2>2, <2>3, SubSeqProperties
  <2> QED BY <2>1, <2>2, <2>4 DEF RestFrom
<1> QED BY <1>2, <1>3, <1>4

LEMMA ListWithout ==
  ASSUME NEW ws \in Seq(Watchers), NEW crs
  PROVE  /\ Without(ws, crs) \in Seq(Watchers)
         /\ ToSet(Without(ws, crs)) \subseteq ToSet(ws)
         /\ Crefs(Without(ws, crs)) = Crefs(ws) \ crs
         /\ Once(ws) => Once(Without(ws, crs))
<1> DEFINE I == {i \in DOMAIN ws : ws[i].cref \notin crs}
           t == Selected(ws, I)
<1>1. Without(ws, crs) = t
  BY DEF Without
<1>2. t \in Seq(Watchers) /\ Chosen(t, ws, I)
  BY SelectedItems
<1>3. DOMAIN ws = 1 .. Len(ws)
  BY SeqFacts
<1>4. \A x : (\E k \in DOMAIN t : t[k] = x) <=> \E i \in DOMAIN ws : i \in I /\ ws[i] = x
  BY <1>2, <1>3 DEF Chosen
<1>5. \A x : x \in ToSet(t) <=> x \in ToSet(ws) /\ x.cref \notin crs
  <2> HIDE DEF t
  <2> QED BY <1>4 DEF ToSet
<1>6. Crefs(t) = Crefs(ws) \ crs
  <2>1. ASSUME NEW x \in Crefs(t) PROVE x \in Crefs(ws) \ crs
    BY <1>5 DEF Crefs
  <2>2. ASSUME NEW x \in Crefs(ws) \ crs PROVE x \in Crefs(t)
    BY <1>5 DEF Crefs
  <2> QED BY <2>1, <2>2
<1>7. ASSUME Once(ws) PROVE Once(t)
  <2>1. \A i, j \in 1 .. Len(ws) : i \in I /\ j \in I /\ ws[i] = ws[j] => i = j
    BY <1>3, <1>7 DEF Once
  <2>2. Distinct(t)
    BY <2>1, SelectedDistinct
  <2>3. ASSUME NEW a \in DOMAIN t, NEW b \in DOMAIN t, t[a].cref = t[b].cref PROVE a = b
    <3>1. PICK i \in DOMAIN ws : ws[i] = t[a]
      BY <1>4
    <3>2. PICK j \in DOMAIN ws : ws[j] = t[b]
      BY <1>4
    <3>3. i = j
      BY <3>1, <3>2, <2>3, <1>7 DEF Once
    <3>4. t[a] = t[b]
      BY <3>1, <3>2, <3>3
    <3> HIDE DEF t
    <3> QED BY <3>4, <2>2 DEF Distinct
  <2> HIDE DEF t
  <2> QED BY <2>3 DEF Once
<1> QED BY <1>1, <1>2, <1>5, <1>6, <1>7

-----------------------------------------------------------------------------
(* Changes of memory.                                                      *)

LEMMA SwappedFacts ==
  ASSUME NEW S, NEW c \in Seq(S), NEW i \in DOMAIN c, NEW j \in DOMAIN c
  PROVE  /\ Swapped(c, i, j) \in Seq(S) /\ Len(Swapped(c, i, j)) = Len(c)
         /\ DOMAIN Swapped(c, i, j) = DOMAIN c
         /\ Swapped(c, i, j)[i] = c[j] /\ Swapped(c, i, j)[j] = c[i]
         /\ \A k \in DOMAIN c \ {i, j} : Swapped(c, i, j)[k] = c[k]
         /\ ToSet(Swapped(c, i, j)) = ToSet(c)
<1> DEFINE b == [c EXCEPT ![i] = c[j]]
           d == [b EXCEPT ![j] = c[i]]
<1>1. Len(c) \in Nat /\ DOMAIN c = 1 .. Len(c) /\ \A k \in DOMAIN c : c[k] \in S
  BY SeqFacts
<1>2. b \in Seq(S) /\ Len(b) = Len(c) /\ \A k \in 1 .. Len(c) : b[k] = IF k = i THEN c[j] ELSE c[k]
  BY <1>1, ExceptSeq
<1> HIDE DEF b
<1>3. d \in Seq(S) /\ Len(d) = Len(c) /\ \A k \in 1 .. Len(c) : d[k] = IF k = j THEN c[i] ELSE b[k]
  BY <1>1, <1>2, ExceptSeq
<1>4. Swapped(c, i, j) = d
  BY DEF Swapped, b
<1> HIDE DEF d
<1>5. DOMAIN d = DOMAIN c
  BY <1>1, <1>3, SeqFacts
<1>6. d[i] = c[j] /\ d[j] = c[i] /\ \A k \in DOMAIN c \ {i, j} : d[k] = c[k]
  BY <1>1, <1>2, <1>3
<1>7. ToSet(d) = ToSet(c)
  <2>1. \A k \in DOMAIN c : \E l \in DOMAIN c : d[k] = c[l]
    BY <1>6
  <2>2. \A k \in DOMAIN c : \E l \in DOMAIN c : c[k] = d[l]
    BY <1>6
  <2>3. \A x : x \in ToSet(d) <=> \E k \in DOMAIN c : d[k] = x
    BY <1>5 DEF ToSet
  <2>4. \A x : x \in ToSet(c) <=> \E k \in DOMAIN c : c[k] = x
    BY DEF ToSet
  <2>5. \A x : x \in ToSet(d) <=> x \in ToSet(c)
    BY <2>1, <2>2, <2>3, <2>4
  <2> QED BY <2>5
<1> QED BY <1>3, <1>4, <1>5, <1>6, <1>7

LEMMA SwappedDistinct ==
  ASSUME NEW c \in Seq(Lits), DistinctVars(c), NEW i \in DOMAIN c, NEW j \in DOMAIN c
  PROVE  DistinctVars(Swapped(c, i, j))
<1> DEFINE d == Swapped(c, i, j)
           at(k) == IF k = i THEN j ELSE IF k = j THEN i ELSE k
<1>1. /\ DOMAIN d = DOMAIN c /\ d[i] = c[j] /\ d[j] = c[i] /\ \A k \in DOMAIN c \ {i, j} : d[k] = c[k]
  BY SwappedFacts
<1> HIDE DEF d
<1>2. \A k \in DOMAIN c : d[k] = c[at(k)] /\ at(k) \in DOMAIN c
  BY <1>1
<1>3. \A k, l \in DOMAIN c : at(k) = at(l) => k = l
  OBVIOUS
<1> HIDE DEF at
<1>4. DistinctVars(d)
  BY <1>1, <1>2, <1>3 DEF DistinctVars
<1> QED BY <1>4 DEF d

\* The clause c has the literals of b, in an order that keeps reasons reasons.
Reordered(st, b, c) ==
  /\ Len(c) = Len(b) /\ ToSet(c) = ToSet(b)
  /\ c[1] = b[1] \/ Len(b) = 2 \/ Value(st, b[1]) # True

LEMMA TwoLiterals ==
  ASSUME NEW c \in Seq(Lits), Len(c) = 2
  PROVE  DOMAIN c = {1, 2} /\ ToSet(c) = {c[1], c[2]}
<1>1. DOMAIN c = {1, 2}
  BY SeqFacts
<1> QED BY <1>1 DEF ToSet

LEMMA ForcesReordered ==
  ASSUME NEW st \in Solver, NEW b \in Clauses, NEW c \in Clauses, Reordered(st, b, c),
         NEW l, Value(st, l) = True, NEW k, Forces(st, b, l, k)
  PROVE  Forces(st, c, l, k)
<1>1. b \in Seq(Lits) /\ c \in Seq(Lits)
  BY DEF Clauses
<1>2. /\ l = b[1] \/ (Len(b) = 2 /\ l = b[2])
      /\ \A i \in DOMAIN b : b[i] # l => \E j \in 1 .. k - 1 : st.trail[j] = -b[i]
  BY DEF Forces
<1>3. \A i \in DOMAIN c : \E h \in DOMAIN b : c[i] = b[h]
  BY DEF Reordered, ToSet
<1>4. \A i \in DOMAIN c : c[i] # l => \E j \in 1 .. k - 1 : st.trail[j] = -c[i]
  BY <1>2, <1>3
<1>5. l = c[1] \/ (Len(c) = 2 /\ l = c[2])
  <2>1. CASE Len(b) = 2
    <3>1. ToSet(b) = {b[1], b[2]} /\ ToSet(c) = {c[1], c[2]} /\ Len(c) = 2
      BY <2>1, <1>1, TwoLiterals DEF Reordered
    <3> QED BY <3>1, <1>2 DEF Reordered
  <2>2. CASE Len(b) # 2
    BY <2>2, <1>2 DEF Reordered
  <2> QED BY <2>1, <2>2
<1> QED BY <1>4, <1>5 DEF Forces

\* Clauses that follow may be added, and literals reordered.
LEMMA MemoryCore ==
  ASSUME NEW M, NEW st, Core(st, M), NEW new \in Solver, SameTrail(st, new), Stored(new),
         new.deleted = st.deleted, st.qhead <= new.qhead, new.qhead <= Len(st.trail),
         \A cr \in DOMAIN st.db : cr \in DOMAIN new.db /\ Reordered(st, st.db[cr], new.db[cr]),
         \A cr \in DOMAIN new.db \ DOMAIN st.db : \A m \in M : Satisfies(m, ToSet(new.db[cr]))
  PROVE  Core(new, M)
<1>1. /\ st \in Solver /\ Stored(st) /\ OnTrail(st) /\ Levelled(st) /\ Decided(st)
      /\ Reasoned(st) /\ Pending(st) /\ Implied(st, M)
  BY CoreFacts
<1>2. /\ \A l : Value(new, l) = Value(st, l) /\ Level(new, l) = Level(st, l)
      /\ DecisionLevel(new) = DecisionLevel(st)
      /\ OnTrail(new) /\ Levelled(new) /\ Decided(new)
  BY <1>1, TrailFrame
<1>3. new.trail = st.trail /\ new.reason = st.reason
  BY DEF SameTrail
<1>4. Reasoned(new)
  <2> SUFFICES ASSUME NEW k \in DOMAIN st.trail, st.reason[Var(st.trail[k])] # NoRef
               PROVE  /\ st.reason[Var(st.trail[k])] \in DOMAIN new.db
                      /\ Level(st, st.trail[k]) > 0 => st.reason[Var(st.trail[k])] \notin st.deleted
                      /\ Forces(new, new.db[st.reason[Var(st.trail[k])]], st.trail[k], k)
    BY <1>2, <1>3 DEF Reasoned
  <2> DEFINE l == st.trail[k]
             r == st.reason[Var(l)]
  <2>1. /\ r \in DOMAIN st.db
        /\ Level(st, l) > 0 => r \notin st.deleted
        /\ Forces(st, st.db[r], l, k)
    BY <1>1 DEF Reasoned
  <2>2. Value(st, l) = True
    BY <1>1 DEF OnTrail
  <2> HIDE DEF l, r
  <2>3. st.db[r] \in Clauses /\ new.db[r] \in Clauses /\ r \in DOMAIN new.db
    BY <2>1, <1>1, ClauseFacts
  <2>4. Forces(st, new.db[r], l, k)
    BY <1>1, <2>1, <2>2, <2>3, ForcesReordered
  <2>5. Forces(new, new.db[r], l, k)
    BY <2>4, <1>3 DEF Forces
  <2> QED BY <2>1, <2>3, <2>5 DEF l, r
<1>5. Pending(new)
  <2>1. st.qhead \in Nat /\ new.qhead \in Nat /\ Len(st.trail) \in Nat
    BY <1>1, SeqFacts DEF Solver
  <2>2. \A k \in new.qhead + 1 .. Len(st.trail) : k \in st.qhead + 1 .. Len(st.trail)
    BY <2>1
  <2> QED BY <2>2, <1>1, <1>2, <1>3 DEF Pending
<1>6. Implied(new, M)
  <2>1. ASSUME NEW m \in M, NEW cr \in DOMAIN new.db PROVE Satisfies(m, ToSet(new.db[cr]))
    <3>1. CASE cr \in DOMAIN st.db
      <4>1. ToSet(new.db[cr]) = ToSet(st.db[cr])
        BY <3>1 DEF Reordered
      <4> QED BY <4>1, <3>1, <1>1 DEF Implied
    <3> QED BY <3>1
  <2>2. \A m \in M : \A k \in DOMAIN st.trail : Level(st, st.trail[k]) = 0 => Satisfies(m, {st.trail[k]})
    BY <1>1 DEF Implied
  <2> QED BY <2>1, <2>2, <1>2, <1>3 DEF Implied
<1> QED BY <1>2, <1>4, <1>5, <1>6 DEF Core

\* A list after clause cr has been put in it, taken from it or reordered.
LEMMA Relisted ==
  ASSUME NEW st, NEW new, NEW cr, NEW kind, NEW l, NEW ws, NEW ws2,
         WellListed(st, kind, l, ws),
         new.deleted = st.deleted, <<kind, l>> \in st.dirty => <<kind, l>> \in new.dirty,
         cr \notin st.deleted, cr \in DOMAIN new.db, Live(new) = Live(st) \cup {cr},
         \A x \in Live(st) \ {cr} : <<kind, l>> \in Lists(new, x) <=> <<kind, l>> \in Lists(st, x),
         \A x \in Crefs(ws) \ {cr} : ToSet(new.db[x]) = ToSet(st.db[x]),
         Once(ws2), Crefs(ws2) \ {cr} = Crefs(ws) \ {cr},
         cr \in Crefs(ws2) <=> <<kind, l>> \in Lists(new, cr),
         \A w \in ToSet(ws2) : w.cref # cr => w \in ToSet(ws),
         \A w \in ToSet(ws2) : w.cref = cr =>
           /\ w.blocker \in ToSet(new.db[cr])
           /\ kind = "binary" => ToSet(new.db[cr]) = {-l, w.blocker}
  PROVE  WellListed(new, kind, l, ws2)
<1>1. /\ Once(ws) /\ Crefs(ws) \ st.deleted = Attached(st, kind, l)
      /\ Crefs(ws) \cap st.deleted # {} => <<kind, l>> \in st.dirty
  BY DEF WellListed
<1>2. Crefs(ws2) \ new.deleted = Attached(new, kind, l)
  <2>1. \A x : x # cr => (x \in Attached(new, kind, l) <=> x \in Attached(st, kind, l))
    BY DEF Attached
  <2>2. cr \in Attached(new, kind, l) <=> cr \in Crefs(ws2)
    BY DEF Attached
  <2>3. \A x : x # cr => (x \in Crefs(ws2) <=> x \in Crefs(ws))
    OBVIOUS
  <2>4. \A x : x \in Crefs(ws2) /\ x \notin st.deleted <=> x \in Attached(new, kind, l)
    BY <2>1, <2>2, <2>3, <1>1
  <2> QED BY <2>4
<1>3. Crefs(ws2) \cap new.deleted # {} => <<kind, l>> \in new.dirty
  BY <1>1
<1>4. ASSUME NEW w \in ToSet(ws2)
      PROVE  /\ w.blocker \in ToSet(new.db[w.cref])
             /\ kind = "binary" => ToSet(new.db[w.cref]) = {-l, w.blocker}
  <2>1. CASE w.cref = cr
    BY <2>1
  <2>2. CASE w.cref # cr
    <3>1. w \in ToSet(ws) /\ w.cref \in Crefs(ws)
      BY <2>2 DEF Crefs
    <3>2. /\ w.blocker \in ToSet(st.db[w.cref])
          /\ kind = "binary" => ToSet(st.db[w.cref]) = {-l, w.blocker}
      BY <3>1 DEF WellListed
    <3>3. ToSet(new.db[w.cref]) = ToSet(st.db[w.cref])
      BY <3>1, <2>2
    <3> QED BY <3>2, <3>3
  <2> QED BY <2>1, <2>2
<1> QED BY <1>2, <1>3, <1>4 DEF WellListed

-----------------------------------------------------------------------------
(* The folds of the solver.  The provers do not instantiate a theorem with *)
(* an operator: one operator stands for the steps of all the folds.        *)

\* A turn of the loop of propagate, unless it has ended.
PropagateTurn(st) ==
  IF st.confl # NoRef \/ st.qhead = Len(st.trail) THEN st ELSE PropagateNext(st, st.trail[st.qhead + 1])

\* A turn of the loop of analyze, unless it has ended.
ResolveTurn(st, a) == IF a.p # NoLit /\ a.pathC = 0 THEN a ELSE Resolve(st, a)

MinimizeStep(st, levels, acc, q) ==
  IF st.reason[Var(q)] = NoRef THEN [acc EXCEPT !.out = Append(@, q)]
  ELSE LET r == LitRedundant(st, q, acc.seen, acc.visited, levels)
       IN  [seen |-> r.seen, visited |-> r.visited,
            out |-> IF r.redundant THEN acc.out ELSE Append(acc.out, q)]

\* A turn of the loop of litRedundant, unless it has ended.
ExploreAfter(st, seen, levels, e) ==
  LET cr  == st.reason[Var(Last(e.stack))]
      c   == Tail(TrueFirst(st, cr))
      new == Selected(c, {i \in DOMAIN c : Var(c[i]) \notin e.seen /\ Level(st, c[i]) > 0})
      known == e.visited \cup {cr}
  IN  IF \E l \in ToSet(new) : st.reason[Var(l)] = NoRef \/ Level(st, l) % 32 \notin levels
        THEN [redundant |-> FALSE, stack |-> << >>, seen |-> seen, visited |-> known]
        ELSE [redundant |-> TRUE, stack |-> Front(e.stack) \o new,
              seen |-> e.seen \cup {Var(l) : l \in ToSet(new)}, visited |-> known]
ExploreTurn(st, seen, levels, e) == IF e.stack = << >> THEN e ELSE ExploreAfter(st, seen, levels, e)

Stage(t, x, i) ==
  CASE t.op = "binary"    -> PropagateBinary(x, t.ws[i])
    [] t.op = "long"      -> PropagateWatcher(x, t.p, t.ws[i])
    [] t.op = "unary"     -> PropagateUnaryWatcher(x, t.p, t.ws[i])
    [] t.op = "propagate" -> PropagateTurn(x)
    [] t.op = "see"       -> See(t.st, x, t.ws[i])
    [] t.op = "resolve"   -> ResolveTurn(t.st, x)
    [] t.op = "minimize"  -> MinimizeStep(t.st, t.levels, x, t.ws[i])
    [] t.op = "explore"   -> ExploreTurn(t.st, t.seen, t.levels, x)
    [] t.op = "remove"    -> RemoveClause(x, i)

Chooses(ch, S) == \A T \in SUBSET S : T # {} => ch[T] \in T

SetFolds(f, t, base, S, ch) ==
  f = [T \in SUBSET S |-> IF T = {} THEN base ELSE Stage(t, f[T \ {ch[T]}], ch[T])]

PrefixFolds(f, t, base, n) ==
  f = [T \in SUBSET (1 .. n) |-> IF T = {} THEN base ELSE Stage(t, f[T \ {Max(T)}], Max(T))]

LEMMA FoldsExist ==
  ASSUME NEW t, NEW base, NEW S, IsFiniteSet(S), NEW ch, Chooses(ch, S)
  PROVE  \E f : SetFolds(f, t, base, S, ch)
<1> DEFINE upto(k) == {T \in SUBSET S : Cardinality(T) <= k}
           folds(f, k) == f = [T \in upto(k) |-> IF T = {} THEN base ELSE Stage(t, f[T \ {ch[T]}], ch[T])]
           N == {k \in Nat : \E f : folds(f, k)}
<1>1. \A T \in SUBSET S : IsFiniteSet(T) /\ Cardinality(T) \in Nat /\ Cardinality(T) <= Cardinality(S)
  BY FS_Subset, FS_CardinalityType
<1>2. \A T \in SUBSET S : T # {} => /\ T \ {ch[T]} \in SUBSET S
                                    /\ Cardinality(T \ {ch[T]}) = Cardinality(T) - 1
  BY <1>1, FS_RemoveElement DEF Chooses
<1>3. 0 \in N
  <2>1. \A T \in upto(0) : T = {}
    BY <1>1, FS_EmptySet
  <2>2. folds([T \in upto(0) |-> base], 0)
    BY <2>1
  <2> QED BY <2>2
<1>4. ASSUME NEW k \in Nat, k \in N PROVE k + 1 \in N
  <2>1. PICK f : folds(f, k)
    BY <1>4
  <2> DEFINE g == [T \in upto(k + 1) |-> IF T = {} THEN base ELSE Stage(t, f[T \ {ch[T]}], ch[T])]
  <2>2. \A T \in upto(k) : T \in upto(k + 1) /\ g[T] = f[T]
    <3>1. \A T \in upto(k) : T \in upto(k + 1)
      BY <1>1
    <3>2. \A T \in upto(k) : f[T] = IF T = {} THEN base ELSE Stage(t, f[T \ {ch[T]}], ch[T])
      BY <2>1
    <3> QED BY <3>1, <3>2
  <2>3. ASSUME NEW T \in upto(k + 1), T # {} PROVE g[T] = Stage(t, g[T \ {ch[T]}], ch[T])
    <3>1. T \ {ch[T]} \in upto(k)
      BY <2>3, <1>1, <1>2
    <3>2. g[T] = Stage(t, f[T \ {ch[T]}], ch[T])
      BY <2>3
    <3> HIDE DEF g
    <3> QED BY <3>1, <3>2, <2>2
  <2>4. g = [T \in upto(k + 1) |-> IF T = {} THEN base ELSE Stage(t, g[T \ {ch[T]}], ch[T])]
    <3>1. \A T \in upto(k + 1) : g[T] = IF T = {} THEN base ELSE Stage(t, g[T \ {ch[T]}], ch[T])
      BY <2>3
    <3>2. g = [T \in upto(k + 1) |-> g[T]]
      OBVIOUS
    <3> HIDE DEF g, upto
    <3> QED BY <3>1, <3>2
  <2> HIDE DEF g
  <2>5. k + 1 \in Nat
    OBVIOUS
  <2> QED BY <2>4, <2>5, Zenon
<1>5. Cardinality(S) \in N
  BY <1>1, <1>3, <1>4, NatInductionOnSet
<1>6. upto(Cardinality(S)) = SUBSET S
  BY <1>1
<1> HIDE DEF upto
<1> QED BY <1>5, <1>6 DEF SetFolds

\* For the folds over a sequence.
LEMMA PrefixFoldsExist ==
  ASSUME NEW t, NEW base, NEW n \in Nat
  PROVE  \E f : PrefixFolds(f, t, base, n)
<1> DEFINE ch == [T \in SUBSET (1 .. n) |-> Max(T)]
<1>1. Chooses(ch, 1 .. n)
  BY GreatestPosition DEF Chooses
<1>2. IsFiniteSet(1 .. n)
  BY FS_Interval
<1>3. \A T \in SUBSET (1 .. n) : ch[T] = Max(T)
  OBVIOUS
<1> HIDE DEF ch
<1>4. PICK f : SetFolds(f, t, base, 1 .. n, ch)
  BY <1>1, <1>2, FoldsExist
<1>5. f = [T \in SUBSET (1 .. n) |-> IF T = {} THEN base ELSE Stage(t, f[T \ {Max(T)}], Max(T))]
  BY <1>3, <1>4 DEF SetFolds
<1> QED BY <1>5 DEF PrefixFolds

\* What is true of the base and kept by every step is true of the result.
LEMMA PrefixFold ==
  ASSUME NEW t, NEW base, NEW n \in Nat, NEW G, base \in G[0],
         \A k \in 1 .. n : \A x \in G[k - 1] : Stage(t, x, k) \in G[k],
         NEW f, PrefixFolds(f, t, base, n)
  PROVE  f[1 .. n] \in G[n]
<1> DEFINE S == {k \in 0 .. n : f[1 .. k] \in G[k]}
<1>0. f = [T \in SUBSET (1 .. n) |-> IF T = {} THEN base ELSE Stage(t, f[T \ {Max(T)}], Max(T))]
  BY DEF PrefixFolds
<1>1. 1 .. 0 = {} /\ {} \in SUBSET (1 .. n)
  OBVIOUS
<1>2. f[{}] = base
  BY <1>0, <1>1
<1>3. 0 \in S
  BY <1>1, <1>2
<1>4. ASSUME NEW k \in 1 .. n, k - 1 \in S PROVE k \in S
  <2>1. 1 .. k \in SUBSET (1 .. n) /\ 1 .. k # {}
    <3>1. \A i \in 1 .. k : i \in 1 .. n
      OBVIOUS
    <3>2. k \in 1 .. k
      OBVIOUS
    <3> QED BY <3>1, <3>2
  <2>2. Max(1 .. k) = k /\ (1 .. k) \ {k} = 1 .. k - 1
    BY GreatestOfInterval
  <2>3. f[1 .. k] = Stage(t, f[1 .. k - 1], k)
    BY <1>0, <2>1, <2>2
  <2>4. k - 1 \in 0 .. n /\ k \in 0 .. n
    OBVIOUS
  <2> QED BY <2>3, <2>4, <1>4
<1>5. 0 .. n \subseteq S
  <2> HIDE DEF S
  <2> QED BY <1>3, <1>4, BoundedInduction
<1>6. n \in S
  BY <1>5
<1> QED BY <1>6

LEMMA BinaryFold ==
  ASSUME NEW n \in Nat, NEW ws, DOMAIN ws = 1 .. n, NEW base, NEW G, base \in G[0],
         \A k \in 1 .. n : \A x \in G[k - 1] : PropagateBinary(x, ws[k]) \in G[k]
  PROVE  FoldLeft(PropagateBinary, base, ws) \in G[n]
<1> DEFINE t == [op |-> "binary", ws |-> ws]
           step(x, k) == PropagateBinary(x, ws[k])
           f == CHOOSE g : g = [T \in SUBSET (1 .. n) |->
                                  IF T = {} THEN base ELSE step(g[T \ {Max(T)}], Max(T))]
<1>1. FoldLeft(PropagateBinary, base, ws) = f[1 .. n]
  BY Zenon DEF FoldLeft, MapThenFoldSet
<1>2. \A x, k : step(x, k) = Stage(t, x, k)
  BY DEF Stage
<1>3. \A k \in 1 .. n : \A x \in G[k - 1] : Stage(t, x, k) \in G[k]
  BY <1>2
<1> HIDE DEF t, step
<1>4. PICK g : PrefixFolds(g, t, base, n)
  BY PrefixFoldsExist
<1>5. g = [T \in SUBSET (1 .. n) |-> IF T = {} THEN base ELSE step(g[T \ {Max(T)}], Max(T))]
  BY <1>2, <1>4 DEF PrefixFolds
<1>6. f = [T \in SUBSET (1 .. n) |-> IF T = {} THEN base ELSE step(f[T \ {Max(T)}], Max(T))]
  BY <1>5, Zenon
<1> HIDE DEF f
<1>7. PrefixFolds(f, t, base, n)
  BY <1>2, <1>6 DEF PrefixFolds
<1>8. f[1 .. n] \in G[n]
  BY <1>3, <1>7, PrefixFold
<1> QED BY <1>1, <1>8

LongFolded(p, base, ws) ==
  FoldLeft(LAMBDA acc, w : PropagateWatcher(acc, p, w), base, ws)

LEMMA LongFold ==
  ASSUME NEW n \in Nat, NEW ws, DOMAIN ws = 1 .. n, NEW base, NEW G, base \in G[0], NEW p,
         \A k \in 1 .. n : \A x \in G[k - 1] : PropagateWatcher(x, p, ws[k]) \in G[k]
  PROVE  LongFolded(p, base, ws) \in G[n]
<1> DEFINE t == [op |-> "long", p |-> p, ws |-> ws]
           step(x, k) == PropagateWatcher(x, p, ws[k])
           f == CHOOSE g : g = [T \in SUBSET (1 .. n) |->
                                  IF T = {} THEN base ELSE step(g[T \ {Max(T)}], Max(T))]
<1>1. LongFolded(p, base, ws) = f[1 .. n]
  BY Zenon DEF FoldLeft, MapThenFoldSet, LongFolded
<1>2. \A x, k : step(x, k) = Stage(t, x, k)
  BY DEF Stage
<1>3. \A k \in 1 .. n : \A x \in G[k - 1] : Stage(t, x, k) \in G[k]
  BY <1>2
<1> HIDE DEF t, step
<1>4. PICK g : PrefixFolds(g, t, base, n)
  BY PrefixFoldsExist
<1>5. g = [T \in SUBSET (1 .. n) |-> IF T = {} THEN base ELSE step(g[T \ {Max(T)}], Max(T))]
  BY <1>2, <1>4 DEF PrefixFolds
<1>6. f = [T \in SUBSET (1 .. n) |-> IF T = {} THEN base ELSE step(f[T \ {Max(T)}], Max(T))]
  BY <1>5, Zenon
<1> HIDE DEF f
<1>7. PrefixFolds(f, t, base, n)
  BY <1>2, <1>6 DEF PrefixFolds
<1>8. f[1 .. n] \in G[n]
  BY <1>3, <1>7, PrefixFold
<1> QED BY <1>1, <1>8

UnaryFolded(p, base, ws) ==
  FoldLeft(LAMBDA acc, w : PropagateUnaryWatcher(acc, p, w), base, ws)

LEMMA UnaryFold ==
  ASSUME NEW n \in Nat, NEW ws, DOMAIN ws = 1 .. n, NEW base, NEW G, base \in G[0], NEW p,
         \A k \in 1 .. n : \A x \in G[k - 1] : PropagateUnaryWatcher(x, p, ws[k]) \in G[k]
  PROVE  UnaryFolded(p, base, ws) \in G[n]
<1> DEFINE t == [op |-> "unary", p |-> p, ws |-> ws]
           step(x, k) == PropagateUnaryWatcher(x, p, ws[k])
           f == CHOOSE g : g = [T \in SUBSET (1 .. n) |->
                                  IF T = {} THEN base ELSE step(g[T \ {Max(T)}], Max(T))]
<1>1. UnaryFolded(p, base, ws) = f[1 .. n]
  BY Zenon DEF FoldLeft, MapThenFoldSet, UnaryFolded
<1>2. \A x, k : step(x, k) = Stage(t, x, k)
  BY DEF Stage
<1>3. \A k \in 1 .. n : \A x \in G[k - 1] : Stage(t, x, k) \in G[k]
  BY <1>2
<1> HIDE DEF t, step
<1>4. PICK g : PrefixFolds(g, t, base, n)
  BY PrefixFoldsExist
<1>5. g = [T \in SUBSET (1 .. n) |-> IF T = {} THEN base ELSE step(g[T \ {Max(T)}], Max(T))]
  BY <1>2, <1>4 DEF PrefixFolds
<1>6. f = [T \in SUBSET (1 .. n) |-> IF T = {} THEN base ELSE step(f[T \ {Max(T)}], Max(T))]
  BY <1>5, Zenon
<1> HIDE DEF f
<1>7. PrefixFolds(f, t, base, n)
  BY <1>2, <1>6 DEF PrefixFolds
<1>8. f[1 .. n] \in G[n]
  BY <1>3, <1>7, PrefixFold
<1> QED BY <1>1, <1>8

SeeFolded(st, base, ws) ==
  FoldLeft(LAMBDA acc, q : See(st, acc, q), base, ws)

LEMMA SeeFold ==
  ASSUME NEW n \in Nat, NEW ws, DOMAIN ws = 1 .. n, NEW base, NEW G, base \in G[0], NEW st,
         \A k \in 1 .. n : \A x \in G[k - 1] : See(st, x, ws[k]) \in G[k]
  PROVE  SeeFolded(st, base, ws) \in G[n]
<1> DEFINE t == [op |-> "see", st |-> st, ws |-> ws]
           step(x, k) == See(st, x, ws[k])
           f == CHOOSE g : g = [T \in SUBSET (1 .. n) |->
                                  IF T = {} THEN base ELSE step(g[T \ {Max(T)}], Max(T))]
<1>1. SeeFolded(st, base, ws) = f[1 .. n]
  BY Zenon DEF FoldLeft, MapThenFoldSet, SeeFolded
<1>2. \A x, k : step(x, k) = Stage(t, x, k)
  BY DEF Stage
<1>3. \A k \in 1 .. n : \A x \in G[k - 1] : Stage(t, x, k) \in G[k]
  BY <1>2
<1> HIDE DEF t, step
<1>4. PICK g : PrefixFolds(g, t, base, n)
  BY PrefixFoldsExist
<1>5. g = [T \in SUBSET (1 .. n) |-> IF T = {} THEN base ELSE step(g[T \ {Max(T)}], Max(T))]
  BY <1>2, <1>4 DEF PrefixFolds
<1>6. f = [T \in SUBSET (1 .. n) |-> IF T = {} THEN base ELSE step(f[T \ {Max(T)}], Max(T))]
  BY <1>5, Zenon
<1> HIDE DEF f
<1>7. PrefixFolds(f, t, base, n)
  BY <1>2, <1>6 DEF PrefixFolds
<1>8. f[1 .. n] \in G[n]
  BY <1>3, <1>7, PrefixFold
<1> QED BY <1>1, <1>8

ResolveFolded(st, base, ws) ==
  FoldLeft(LAMBDA a, l : IF a.p # NoLit /\ a.pathC = 0 THEN a ELSE Resolve(st, a), base, ws)

LEMMA ResolveFold ==
  ASSUME NEW n \in Nat, NEW ws, DOMAIN ws = 1 .. n, NEW base, NEW G, base \in G[0], NEW st,
         \A k \in 1 .. n : \A x \in G[k - 1] : ResolveTurn(st, x) \in G[k]
  PROVE  ResolveFolded(st, base, ws) \in G[n]
<1> DEFINE t == [op |-> "resolve", st |-> st, ws |-> ws]
           step(x, k) == ResolveTurn(st, x)
           f == CHOOSE g : g = [T \in SUBSET (1 .. n) |->
                                  IF T = {} THEN base ELSE step(g[T \ {Max(T)}], Max(T))]
<1>1. ResolveFolded(st, base, ws) = f[1 .. n]
  BY Zenon DEF FoldLeft, MapThenFoldSet, ResolveTurn, ResolveFolded
<1>2. \A x, k : step(x, k) = Stage(t, x, k)
  BY DEF Stage
<1>3. \A k \in 1 .. n : \A x \in G[k - 1] : Stage(t, x, k) \in G[k]
  BY <1>2
<1> HIDE DEF t, step
<1>4. PICK g : PrefixFolds(g, t, base, n)
  BY PrefixFoldsExist
<1>5. g = [T \in SUBSET (1 .. n) |-> IF T = {} THEN base ELSE step(g[T \ {Max(T)}], Max(T))]
  BY <1>2, <1>4 DEF PrefixFolds
<1>6. f = [T \in SUBSET (1 .. n) |-> IF T = {} THEN base ELSE step(f[T \ {Max(T)}], Max(T))]
  BY <1>5, Zenon
<1> HIDE DEF f
<1>7. PrefixFolds(f, t, base, n)
  BY <1>2, <1>6 DEF PrefixFolds
<1>8. f[1 .. n] \in G[n]
  BY <1>3, <1>7, PrefixFold
<1> QED BY <1>1, <1>8

PropagateFolded(base, ws) ==
  FoldLeft(LAMBDA acc, v : IF acc.confl # NoRef \/ acc.qhead = Len(acc.trail)
                       THEN acc ELSE PropagateNext(acc, acc.trail[acc.qhead + 1]), base, ws)

LEMMA PropagateFold ==
  ASSUME NEW n \in Nat, NEW ws, DOMAIN ws = 1 .. n, NEW base, NEW G, base \in G[0],
         \A k \in 1 .. n : \A x \in G[k - 1] : PropagateTurn(x) \in G[k]
  PROVE  PropagateFolded(base, ws) \in G[n]
<1> DEFINE t == [op |-> "propagate", ws |-> ws]
           step(x, k) == PropagateTurn(x)
           f == CHOOSE g : g = [T \in SUBSET (1 .. n) |->
                                  IF T = {} THEN base ELSE step(g[T \ {Max(T)}], Max(T))]
<1>1. PropagateFolded(base, ws) = f[1 .. n]
  BY Zenon DEF FoldLeft, MapThenFoldSet, PropagateTurn, PropagateFolded
<1>2. \A x, k : step(x, k) = Stage(t, x, k)
  BY DEF Stage
<1>3. \A k \in 1 .. n : \A x \in G[k - 1] : Stage(t, x, k) \in G[k]
  BY <1>2
<1> HIDE DEF t, step
<1>4. PICK g : PrefixFolds(g, t, base, n)
  BY PrefixFoldsExist
<1>5. g = [T \in SUBSET (1 .. n) |-> IF T = {} THEN base ELSE step(g[T \ {Max(T)}], Max(T))]
  BY <1>2, <1>4 DEF PrefixFolds
<1>6. f = [T \in SUBSET (1 .. n) |-> IF T = {} THEN base ELSE step(f[T \ {Max(T)}], Max(T))]
  BY <1>5, Zenon
<1> HIDE DEF f
<1>7. PrefixFolds(f, t, base, n)
  BY <1>2, <1>6 DEF PrefixFolds
<1>8. f[1 .. n] \in G[n]
  BY <1>3, <1>7, PrefixFold
<1> QED BY <1>1, <1>8

-----------------------------------------------------------------------------
(* Propagation of one literal.                                             *)

\* A list with what is left to visit of the list that is built anew.
Full(st, visited, p, rest, kind, l) ==
  IF kind = visited /\ l = p THEN ListOf(st, kind, l) \o rest ELSE ListOf(st, kind, l)

\* What holds while literal p is propagated; rest is left of its list visited.
Midway(st, M, visited, p, rest) ==
  /\ Core(st, M) /\ st.dirty = {}
  /\ p \in Lits /\ Value(st, p) = True /\ Level(st, p) = DecisionLevel(st)
  /\ rest \in Seq(Watchers)
  /\ \A kind \in Kinds : \A l \in Lits :
       WellListed(st, kind, l, Full(st, visited, p, rest, kind, l))
  /\ st.confl # NoRef => Conflicting(st)

\* What propagation leaves alone.
Advances(st, new) ==
  /\ new.decision = st.decision /\ new.orderHeap = st.orderHeap /\ new.trailLim = st.trailLim
  /\ new.clauses = st.clauses /\ new.learnts = st.learnts
  /\ new.unaryWatchedClauses = st.unaryWatchedClauses /\ new.deleted = st.deleted
  /\ Len(new.db) = Len(st.db)
  /\ \A v \in Vars : st.assigns[v] # Undef => new.assigns[v] = st.assigns[v]
  /\ new.confl = NoRef => st.confl = NoRef /\ new.qhead = st.qhead

LEMMA AdvancesTransitive ==
  ASSUME NEW a, NEW b, NEW c, Advances(a, b), Advances(b, c)
  PROVE  Advances(a, c)
<1>1. \A v \in Vars : a.assigns[v] # Undef => c.assigns[v] = a.assigns[v]
  <2> SUFFICES ASSUME NEW v \in Vars, a.assigns[v] # Undef PROVE c.assigns[v] = a.assigns[v]
    OBVIOUS
  <2>1. b.assigns[v] = a.assigns[v]
    BY DEF Advances
  <2>2. c.assigns[v] = b.assigns[v]
    BY <2>1 DEF Advances
  <2> QED BY <2>1, <2>2
<1> QED BY <1>1 DEF Advances

LEMMA ListFacts ==
  ASSUME NEW st \in Solver, NEW kind \in Kinds, NEW l \in Lits
  PROVE  ListOf(st, kind, l) \in Seq(Watchers)
BY DEF Solver, WatchLists, ListOf, Kinds

LEMMA KindFacts ==
  ASSUME NEW st, NEW l
  PROVE  /\ ListOf(st, "unary", l) = st.unaryWatches[l]
         /\ ListOf(st, "binary", l) = st.watchesBin[l]
         /\ ListOf(st, "long", l) = st.watches[l]
BY DEF ListOf

\* The clauses attached to a list.
LEMMA ListsFacts ==
  ASSUME NEW st, NEW cr, NEW l
  PROVE  /\ <<"unary", l>> \in Lists(st, cr) <=> cr \in st.oneWatched /\ l = -st.db[cr][1]
         /\ <<"binary", l>> \in Lists(st, cr) <=>
              cr \notin st.oneWatched /\ Len(st.db[cr]) = 2 /\ l \in {-st.db[cr][1], -st.db[cr][2]}
         /\ <<"long", l>> \in Lists(st, cr) <=>
              cr \notin st.oneWatched /\ Len(st.db[cr]) # 2 /\ l \in {-st.db[cr][1], -st.db[cr][2]}
<1>1. CASE cr \in st.oneWatched
  <2>1. Lists(st, cr) = {<<"unary", -st.db[cr][1]>>}
    BY <1>1 DEF Lists
  <2> QED BY <2>1, <1>1
<1>2. CASE cr \notin st.oneWatched /\ Len(st.db[cr]) = 2
  <2>1. Lists(st, cr) = {<<"binary", -st.db[cr][1]>>, <<"binary", -st.db[cr][2]>>}
    BY <1>2 DEF Lists
  <2> QED BY <2>1, <1>2
<1>3. CASE cr \notin st.oneWatched /\ Len(st.db[cr]) # 2
  <2>1. Lists(st, cr) = {<<"long", -st.db[cr][1]>>, <<"long", -st.db[cr][2]>>}
    BY <1>3 DEF Lists
  <2> QED BY <2>1, <1>3
<1> QED BY <1>1, <1>2, <1>3

LEMMA MidwayListed ==
  ASSUME NEW st, NEW M, NEW visited, NEW p, NEW rest, Midway(st, M, visited, p, rest),
         NEW kind \in Kinds, NEW l \in Lits
  PROVE  /\ Full(st, visited, p, rest, kind, l) \in Seq(Watchers)
         /\ \A w \in ToSet(Full(st, visited, p, rest, kind, l)) :
              /\ w \in Watchers /\ w.cref \in Nat /\ w.blocker \in Lits
              /\ w.cref \in Live(st) /\ w.cref \in DOMAIN st.db /\ w.cref \notin st.deleted
              /\ <<kind, l>> \in Lists(st, w.cref)
              /\ w.blocker \in ToSet(st.db[w.cref])
              /\ kind = "binary" => ToSet(st.db[w.cref]) = {-l, w.blocker}
<1> DEFINE ws == Full(st, visited, p, rest, kind, l)
<1>1. st \in Solver /\ rest \in Seq(Watchers) /\ st.dirty = {} /\ WellListed(st, kind, l, ws)
  BY DEF Midway, Core
<1>2. ws \in Seq(Watchers)
  BY <1>1, ListFacts, ListConcat DEF Full
<1> HIDE DEF ws
<1>3. ASSUME NEW w \in ToSet(ws)
      PROVE  /\ w \in Watchers /\ w.cref \in Nat /\ w.blocker \in Lits
             /\ w.cref \in Live(st) /\ w.cref \in DOMAIN st.db /\ w.cref \notin st.deleted
             /\ <<kind, l>> \in Lists(st, w.cref)
             /\ w.blocker \in ToSet(st.db[w.cref])
             /\ kind = "binary" => ToSet(st.db[w.cref]) = {-l, w.blocker}
  <2>1. w \in Watchers
    BY <1>2, SeqFacts
  <2>2. w.cref \in Crefs(ws)
    BY DEF Crefs
  <2>3. Crefs(ws) \cap st.deleted = {} /\ Crefs(ws) \ st.deleted = Attached(st, kind, l)
    BY <1>1 DEF WellListed
  <2>4. w.cref \in Attached(st, kind, l)
    BY <2>2, <2>3
  <2> QED BY <2>1, <2>4, <1>1 DEF Attached, Live, WellListed, Watchers
<1> QED BY <1>2, <1>3 DEF ws

\* A conflict found while p is propagated is one of the last level.
LEMMA ConflictFound ==
  ASSUME NEW st, NEW M, NEW p \in Lits, Core(st, M),
         Value(st, p) = True, Level(st, p) = DecisionLevel(st),
         NEW cr \in DOMAIN st.db, -p \in ToSet(st.db[cr]),
         \A q \in ToSet(st.db[cr]) : Value(st, q) = False,
         NEW new, SameTrail(st, new), new.db = st.db, new.confl = cr
  PROVE  Conflicting(new)
<1>1. \A q : Value(new, q) = Value(st, q) /\ Level(new, q) = Level(st, q)
  BY TrailFrame
<1>2. DecisionLevel(new) = DecisionLevel(st)
  BY TrailFrame
<1>3. Level(st, -p) = Level(st, p)
  BY LitFacts DEF Level
<1> QED BY <1>1, <1>2, <1>3 DEF Conflicting

\* A binary clause watching p.
LEMMA BinaryStep ==
  ASSUME NEW st, NEW M, NEW p, Midway(st, M, "none", p, << >>), NEW w \in ToSet(st.watchesBin[p]),
         NEW new, new = PropagateBinary(st, w)
  PROVE  Midway(new, M, "none", p, << >>) /\ Advances(st, new) /\ SameLists(st, new)
<1> DEFINE c == st.db[w.cref]
           b == w.blocker
<1>1. /\ Core(st, M) /\ st \in Solver /\ OnTrail(st) /\ Stored(st) /\ st.dirty = {} /\ p \in Lits
      /\ Value(st, p) = True /\ Level(st, p) = DecisionLevel(st)
      /\ \A kind \in Kinds : \A l \in Lits : WellListed(st, kind, l, ListOf(st, kind, l))
      /\ st.confl # NoRef => Conflicting(st)
  BY DEF Midway, Core, Full, Kinds
<1>2. /\ w \in Watchers /\ w.cref \in Nat /\ b \in Lits
      /\ w.cref \in Live(st) /\ w.cref \in DOMAIN st.db
      /\ <<"binary", p>> \in Lists(st, w.cref)
      /\ ToSet(c) = {-p, b}
  <2>1. Full(st, "none", p, << >>, "binary", p) = st.watchesBin[p] /\ "binary" \in Kinds
    BY KindFacts DEF Full, Kinds
  <2> QED BY SMTT(30), <1>1, <2>1, MidwayListed
<1>3. Len(c) = 2 /\ c \in Seq(Lits) /\ DOMAIN c = {1, 2} /\ ToSet(c) = {c[1], c[2]}
  BY <1>1, <1>2, ListsFacts, ClauseFacts, TwoLiterals
<1>4. Value(st, -p) = False /\ -p \in Lits
  BY <1>1, ValueFacts, LitFacts, TrailFacts
<1>5. Value(st, b) \in Values
  BY <1>1, <1>2, ValueFacts, TrailFacts
<1>6. CASE st.confl # NoRef \/ Value(st, b) = True
  <2>1. new = st
    BY <1>6 DEF PropagateBinary
  <2> QED BY <2>1 DEF Advances, SameLists
<1>7. CASE st.confl = NoRef /\ Value(st, b) = False
  <2>1. Value(st, b) # True
    BY <1>7, SignsDiffer
  <2>2. new = [st EXCEPT !.confl = w.cref]
    BY <1>7, <2>1 DEF PropagateBinary
  <2>3. /\ new \in Solver /\ SameTrail(st, new) /\ SameMemory(st, new) /\ SameLists(st, new)
        /\ new.confl = w.cref /\ new.qhead = st.qhead /\ Advances(st, new)
    <3>1. new \in Solver /\ new.confl = w.cref
      BY ZenonT(40), <2>2, <1>1, <1>2 DEF Solver
    <3>2. SameTrail(st, new) /\ SameMemory(st, new) /\ SameLists(st, new) /\ new.qhead = st.qhead
      BY <2>2, <1>1 DEF Solver, SameTrail, SameMemory, SameLists
    <3>3. new.confl # NoRef
      BY <3>1, <1>1, <1>2, ClauseFacts DEF NoRef
    <3>4. Advances(st, new)
      BY <2>2, <3>1, <3>3, <1>1 DEF Solver, Advances
    <3> QED BY <3>1, <3>2, <3>4
  <2>4. new.db = st.db /\ new.deleted = st.deleted /\ new.dirty = {}
    BY <2>3, <1>1 DEF SameMemory, SameLists
  <2>5. Stored(new)
    BY <2>3, <2>4, <1>1, <1>2 DEF Stored, Live, SameMemory
  <2>6. Core(new, M)
    <3>1. st.qhead \in Nat /\ st.qhead <= Len(st.trail)
      BY <1>1 DEF Solver, Core, Pending
    <3>2. \A cr \in DOMAIN st.db : Reordered(st, st.db[cr], st.db[cr])
      BY DEF Reordered
    <3> QED BY <3>1, <3>2, <2>3, <2>4, <2>5, <1>1, MemoryCore
  <2>7. Conflicting(new)
    BY <1>1, <1>2, <1>4, <1>7, <2>3, <2>4, ConflictFound
  <2>8. Value(new, p) = True /\ Level(new, p) = DecisionLevel(new)
    BY <2>3, <1>1, TrailFrame
  <2>9. \A kind \in Kinds : \A l \in Lits : WellListed(new, kind, l, ListOf(new, kind, l))
    BY <2>3, <1>1, WatchingFrame
  <2> QED BY <2>3, <2>4, <2>6, <2>7, <2>8, <2>9, <1>1 DEF Midway, Full, Kinds
<1>8. CASE st.confl = NoRef /\ Value(st, b) = Undef
  <2>1. new = UncheckedEnqueue(st, b, w.cref)
    BY <1>8, SignsDiffer DEF PropagateBinary
  <2>2. Unit(st, c, b)
    BY <1>3, <1>2, <1>4 DEF Unit
  <2>3. Core(new, M)
    BY <2>1, <2>2, <1>1, <1>2, <1>8, EnqueueCore
  <2>4. /\ \A l \in Lits : Value(st, l) # Undef => Value(new, l) = Value(st, l) /\ Level(new, l) = Level(st, l)
        /\ DecisionLevel(new) = DecisionLevel(st)
        /\ \A v \in Vars : v # Var(b) => new.assigns[v] = st.assigns[v]
    BY <2>1, <1>1, <1>2, <1>8, EnqueueFrame
  <2>5. /\ SameMemory(st, new) /\ SameLists(st, new) /\ new.confl = st.confl /\ new.qhead = st.qhead
        /\ new.decision = st.decision /\ new.orderHeap = st.orderHeap /\ new.trailLim = st.trailLim
    BY <2>1, <1>1, <1>2, EnqueueFields
  <2>6. st.assigns[Var(b)] = Undef
    BY <1>1, <1>2, <1>8, ValueFacts, TrailFacts
  <2>7. Advances(st, new)
    BY <2>4, <2>5, <2>6 DEF Advances, SameMemory
  <2>8. Value(new, p) = True /\ Level(new, p) = DecisionLevel(new)
    BY <2>4, <1>1, SignsDiffer
  <2>9. \A kind \in Kinds : \A l \in Lits : WellListed(new, kind, l, ListOf(new, kind, l))
    BY <2>5, <1>1, WatchingFrame
  <2>10. new.dirty = {}
    BY <2>5, <1>1 DEF SameLists
  <2> QED BY <2>3, <2>5, <2>7, <2>8, <2>9, <2>10, <1>1, <1>8 DEF Midway, Full, Kinds
<1> QED BY <1>5, <1>6, <1>7, <1>8 DEF Values

-----------------------------------------------------------------------------
(* The lists that a step leaves alone or takes a watcher from.             *)

LEMMA WellListedFrame ==
  ASSUME NEW st, NEW new, SameMemory(st, new), new.dirty = st.dirty, NEW kind, NEW l, NEW ws,
         WellListed(st, kind, l, ws)
  PROVE  WellListed(new, kind, l, ws)
<1>1. new.db = st.db /\ new.deleted = st.deleted /\ new.oneWatched = st.oneWatched
  BY DEF SameMemory
<1>2. \A cr : Lists(new, cr) = Lists(st, cr)
  BY <1>1, Zenon DEF Lists
<1>3. Attached(new, kind, l) = Attached(st, kind, l)
  BY <1>1, <1>2 DEF Attached, Live
<1> QED BY <1>1, <1>3 DEF WellListed

LEMMA ListCons ==
  ASSUME NEW w \in Watchers, NEW r \in Seq(Watchers)
  PROVE  /\ <<w>> \o r \in Seq(Watchers) /\ ToSet(<<w>> \o r) = {w} \cup ToSet(r)
         /\ Crefs(<<w>> \o r) = {w.cref} \cup Crefs(r)
         /\ Once(<<w>> \o r) <=> Once(r) /\ w.cref \notin Crefs(r)
<1> DEFINE one == <<w>>
<1>1. one \in Seq(Watchers) /\ ToSet(one) = {w} /\ Crefs(one) = {w.cref} /\ Once(one)
  BY ListOfOne
<1> HIDE DEF one
<1>2. /\ one \o r \in Seq(Watchers) /\ ToSet(one \o r) = {w} \cup ToSet(r)
      /\ Crefs(one \o r) = {w.cref} \cup Crefs(r)
      /\ Once(one \o r) <=> Once(r) /\ w.cref \notin Crefs(r)
  BY <1>1, ListConcat
<1> QED BY <1>2 DEF one

\* A list of which w is visited, r left to visit: w is kept or dropped.
AtWatcher(a, w, r)   == a \o (<<w>> \o r)
WithKept(a, w, r)    == Append(a, w) \o r
WithDropped(a, w, r) == a \o r

SameCref(w, v) == w.cref = v.cref

LEMMA ListKept ==
  ASSUME NEW a \in Seq(Watchers), NEW r \in Seq(Watchers), NEW w \in Watchers, NEW w2 \in Watchers,
         SameCref(w, w2), Once(AtWatcher(a, w, r))
  PROVE  /\ WithKept(a, w2, r) \in Seq(Watchers) /\ Once(WithKept(a, w2, r))
         /\ Crefs(WithKept(a, w2, r)) = Crefs(AtWatcher(a, w, r)) /\ w.cref \in Crefs(AtWatcher(a, w, r))
         /\ \A x \in ToSet(WithKept(a, w2, r)) :
              IF SameCref(w, x) THEN x = w2 ELSE x \in ToSet(AtWatcher(a, w, r))
<1> DEFINE old == AtWatcher(a, w, r)
           new == WithKept(a, w2, r)
<1>1. old = a \o (<<w>> \o r) /\ new = Append(a, w2) \o r
  BY DEF AtWatcher, WithKept
<1>0. Once(old)
  OBVIOUS
<1> HIDE DEF old, new
<1>2. /\ <<w>> \o r \in Seq(Watchers) /\ ToSet(<<w>> \o r) = {w} \cup ToSet(r)
      /\ Crefs(<<w>> \o r) = {w.cref} \cup Crefs(r)
      /\ Once(<<w>> \o r) <=> Once(r) /\ w.cref \notin Crefs(r)
  BY ListCons
<1>3. /\ ToSet(old) = ToSet(a) \cup {w} \cup ToSet(r)
      /\ Crefs(old) = Crefs(a) \cup {w.cref} \cup Crefs(r)
      /\ Once(a) /\ Once(r) /\ w.cref \notin Crefs(r) /\ w.cref \notin Crefs(a)
      /\ Crefs(a) \cap Crefs(r) = {}
  BY ZenonT(40), <1>0, <1>1, <1>2, ListConcat
<1> DEFINE b == Append(a, w2)
<1>4. b \in Seq(Watchers) /\ ToSet(b) = ToSet(a) \cup {w2} /\ Crefs(b) = Crefs(a) \cup {w.cref} /\ Once(b)
  BY <1>3, ListAppend DEF SameCref
<1>7. new = b \o r
  BY <1>1
<1> HIDE DEF b
<1>5. /\ new \in Seq(Watchers) /\ ToSet(new) = ToSet(a) \cup {w2} \cup ToSet(r)
      /\ Crefs(new) = Crefs(a) \cup {w.cref} \cup Crefs(r) /\ Once(new)
  BY <1>3, <1>4, <1>7, ListConcat
<1>6. \A x \in ToSet(a) \cup ToSet(r) : x.cref # w.cref
  BY <1>3 DEF Crefs
<1>8. /\ new \in Seq(Watchers) /\ Once(new) /\ Crefs(new) = Crefs(old) /\ w.cref \in Crefs(old)
      /\ \A x \in ToSet(new) : IF SameCref(w, x) THEN x = w2 ELSE x \in ToSet(old)
  BY <1>3, <1>5, <1>6 DEF SameCref
<1> QED BY <1>8 DEF old, new

LEMMA ListDropped ==
  ASSUME NEW a \in Seq(Watchers), NEW r \in Seq(Watchers), NEW w \in Watchers, Once(AtWatcher(a, w, r))
  PROVE  /\ WithDropped(a, w, r) \in Seq(Watchers) /\ Once(WithDropped(a, w, r))
         /\ Crefs(WithDropped(a, w, r)) = Crefs(AtWatcher(a, w, r)) \ {w.cref}
         /\ w.cref \in Crefs(AtWatcher(a, w, r))
         /\ ToSet(WithDropped(a, w, r)) \subseteq ToSet(AtWatcher(a, w, r))
<1> DEFINE old == AtWatcher(a, w, r)
           new == WithDropped(a, w, r)
<1>1. old = a \o (<<w>> \o r) /\ new = a \o r
  BY DEF AtWatcher, WithDropped
<1>0. Once(old)
  OBVIOUS
<1> HIDE DEF old, new
<1>2. /\ <<w>> \o r \in Seq(Watchers) /\ ToSet(<<w>> \o r) = {w} \cup ToSet(r)
      /\ Crefs(<<w>> \o r) = {w.cref} \cup Crefs(r)
      /\ Once(<<w>> \o r) <=> Once(r) /\ w.cref \notin Crefs(r)
  BY ListCons
<1>3. /\ ToSet(old) = ToSet(a) \cup {w} \cup ToSet(r)
      /\ Crefs(old) = Crefs(a) \cup {w.cref} \cup Crefs(r)
      /\ Once(a) /\ Once(r) /\ w.cref \notin Crefs(r) /\ w.cref \notin Crefs(a)
      /\ Crefs(a) \cap Crefs(r) = {}
  BY ZenonT(40), <1>0, <1>1, <1>2, ListConcat
<1>4. /\ new \in Seq(Watchers) /\ ToSet(new) = ToSet(a) \cup ToSet(r)
      /\ Crefs(new) = Crefs(a) \cup Crefs(r) /\ Once(new)
  BY <1>1, <1>3, ListConcat
<1>8. /\ new \in Seq(Watchers) /\ Once(new) /\ Crefs(new) = Crefs(old) \ {w.cref}
      /\ w.cref \in Crefs(old) /\ ToSet(new) \subseteq ToSet(old)
  BY <1>3, <1>4
<1> QED BY <1>8 DEF old, new

\* Only clause cr is reordered, or is in other lists.
OnlyClause(st, new, cr) ==
  /\ new.deleted = st.deleted /\ new.dirty = st.dirty /\ cr \in Live(st)
  /\ DOMAIN new.db = DOMAIN st.db /\ \A x \in DOMAIN st.db \ {cr} : new.db[x] = st.db[x]
  /\ \A x \in DOMAIN st.db \ {cr} : x \in new.oneWatched <=> x \in st.oneWatched
  /\ ToSet(new.db[cr]) = ToSet(st.db[cr])

LEMMA OnlyClauseListed ==
  ASSUME NEW st, NEW new, NEW cr, OnlyClause(st, new, cr), NEW kind, NEW l, NEW ws, NEW ws2,
         WellListed(st, kind, l, ws), st.deleted \subseteq DOMAIN st.db,
         Once(ws2), Crefs(ws2) \ {cr} = Crefs(ws) \ {cr},
         cr \in Crefs(ws2) <=> <<kind, l>> \in Lists(new, cr),
         \A w \in ToSet(ws2) : w.cref # cr => w \in ToSet(ws),
         \A w \in ToSet(ws2) : w.cref = cr =>
           /\ w.blocker \in ToSet(st.db[cr])
           /\ kind = "binary" => ToSet(st.db[cr]) = {-l, w.blocker}
  PROVE  WellListed(new, kind, l, ws2)
<1>1. /\ new.deleted = st.deleted /\ new.dirty = st.dirty /\ cr \in Live(st)
      /\ cr \in DOMAIN st.db /\ cr \notin st.deleted
      /\ DOMAIN new.db = DOMAIN st.db /\ \A x \in DOMAIN st.db \ {cr} : new.db[x] = st.db[x]
      /\ \A x \in DOMAIN st.db \ {cr} : x \in new.oneWatched <=> x \in st.oneWatched
      /\ ToSet(new.db[cr]) = ToSet(st.db[cr])
  BY DEF OnlyClause, Live
<1>2. Live(new) = Live(st) \cup {cr} /\ cr \in DOMAIN new.db
  BY <1>1 DEF Live
<1>3. \A x \in Live(st) \ {cr} : Lists(new, x) = Lists(st, x)
  BY <1>1 DEF Lists, Live
<1>4. \A x \in Crefs(ws) \ {cr} : ToSet(new.db[x]) = ToSet(st.db[x])
  <2>1. \A x \in Crefs(ws) : x \in DOMAIN st.db
    BY DEF WellListed, Attached, Live
  <2> QED BY <2>1, <1>1
<1>5. <<kind, l>> \in st.dirty => <<kind, l>> \in new.dirty
  BY <1>1
<1>6. \A w \in ToSet(ws2) : w.cref = cr =>
           /\ w.blocker \in ToSet(new.db[cr])
           /\ kind = "binary" => ToSet(new.db[cr]) = {-l, w.blocker}
  BY <1>1
<1> QED BY <1>1, <1>2, <1>3, <1>4, <1>5, <1>6, Relisted

LEMMA OnlyClauseSame ==
  ASSUME NEW st, NEW new, NEW cr, OnlyClause(st, new, cr), NEW kind, NEW l, NEW ws,
         WellListed(st, kind, l, ws), st.deleted \subseteq DOMAIN st.db,
         <<kind, l>> \in Lists(new, cr) <=> <<kind, l>> \in Lists(st, cr)
  PROVE  /\ cr \in Crefs(ws) <=> <<kind, l>> \in Lists(st, cr)
         /\ WellListed(new, kind, l, ws)
<1>1. cr \in Crefs(ws) <=> <<kind, l>> \in Lists(st, cr)
  BY DEF OnlyClause, WellListed, Attached, Live
<1>2. \A w \in ToSet(ws) : w.cref = cr =>
           /\ w.blocker \in ToSet(st.db[cr])
           /\ kind = "binary" => ToSet(st.db[cr]) = {-l, w.blocker}
  BY DEF WellListed
<1>3. Once(ws)
  BY DEF WellListed
<1> QED BY <1>1, <1>2, <1>3, OnlyClauseListed

-----------------------------------------------------------------------------
(* The fields that change when a watcher is kept or a clause reordered.    *)

\* Nothing but memory and the lists.
SameRest(st, new) ==
  /\ new.deleted = st.deleted /\ new.clauses = st.clauses
  /\ new.learnts = st.learnts /\ new.unaryWatchedClauses = st.unaryWatchedClauses
  /\ new.decision = st.decision /\ new.orderHeap = st.orderHeap /\ new.dirty = st.dirty
  /\ new.confl = st.confl /\ new.qhead = st.qhead
  /\ SameTrail(st, new)

LEMMA ClauseSetFields ==
  ASSUME NEW st \in Solver, NEW cr \in DOMAIN st.db, NEW d \in Clauses,
         NEW new, new = [st EXCEPT !.db[cr] = d]
  PROVE  /\ new \in Solver /\ SameRest(st, new) /\ SameLists(st, new)
         /\ new.oneWatched = st.oneWatched
         /\ DOMAIN new.db = DOMAIN st.db /\ Len(new.db) = Len(st.db)
         /\ new.db[cr] = d /\ \A x \in DOMAIN st.db \ {cr} : new.db[x] = st.db[x]
<1> DEFINE db == [st.db EXCEPT ![cr] = d]
<1>1. st.db \in Seq(Clauses)
  BY DEF Solver
<1>2. db \in Seq(Clauses) /\ Len(db) = Len(st.db) /\ DOMAIN db = DOMAIN st.db
      /\ db[cr] = d /\ \A x \in DOMAIN st.db \ {cr} : db[x] = st.db[x]
  BY <1>1, SeqFacts, ExceptSeq
<1>3. new = [st EXCEPT !.db = db]
  BY DEF Solver
<1> HIDE DEF db
<1>4. new \in Solver /\ new.db = db
  BY ZenonT(40), <1>2, <1>3 DEF Solver
<1>5. SameRest(st, new) /\ SameLists(st, new) /\ new.oneWatched = st.oneWatched
  BY <1>3 DEF Solver, SameRest, SameTrail, SameLists
<1> QED BY <1>2, <1>4, <1>5

LEMMA KeepFields ==
  ASSUME NEW st \in Solver, NEW p \in Lits, NEW w \in Watchers, NEW new, new = Keep(st, p, w)
  PROVE  /\ new \in Solver /\ SameRest(st, new) /\ SameMemory(st, new)
         /\ new.watchesBin = st.watchesBin /\ new.unaryWatches = st.unaryWatches
         /\ new.watches[p] = Append(st.watches[p], w)
         /\ \A l \in Lits \ {p} : new.watches[l] = st.watches[l]
<1> DEFINE f == [st.watches EXCEPT ![p] = Append(@, w)]
<1>1. st.watches \in [Lits -> Seq(Watchers)]
  BY DEF Solver, WatchLists
<1>2. Append(st.watches[p], w) \in Seq(Watchers)
  BY <1>1, ListAppend
<1>3. f \in WatchLists /\ f[p] = Append(st.watches[p], w) /\ \A l \in Lits \ {p} : f[l] = st.watches[l]
  BY <1>1, <1>2 DEF WatchLists
<1>4. new = [st EXCEPT !.watches = f]
  BY DEF Keep, Solver
<1> HIDE DEF f
<1>5. new \in Solver /\ new.watches = f
  BY ZenonT(40), <1>3, <1>4 DEF Solver
<1>6. /\ SameRest(st, new) /\ SameMemory(st, new)
      /\ new.watchesBin = st.watchesBin /\ new.unaryWatches = st.unaryWatches
  BY <1>4 DEF Solver, SameRest, SameTrail, SameMemory
<1> QED BY <1>3, <1>5, <1>6

LEMMA KeepUnaryFields ==
  ASSUME NEW st \in Solver, NEW p \in Lits, NEW w \in Watchers, NEW new, new = KeepUnary(st, p, w)
  PROVE  /\ new \in Solver /\ SameRest(st, new) /\ SameMemory(st, new)
         /\ new.watchesBin = st.watchesBin /\ new.watches = st.watches
         /\ new.unaryWatches[p] = Append(st.unaryWatches[p], w)
         /\ \A l \in Lits \ {p} : new.unaryWatches[l] = st.unaryWatches[l]
<1> DEFINE f == [st.unaryWatches EXCEPT ![p] = Append(@, w)]
<1>1. st.unaryWatches \in [Lits -> Seq(Watchers)]
  BY DEF Solver, WatchLists
<1>2. Append(st.unaryWatches[p], w) \in Seq(Watchers)
  BY <1>1, ListAppend
<1>3. f \in WatchLists /\ f[p] = Append(st.unaryWatches[p], w)
      /\ \A l \in Lits \ {p} : f[l] = st.unaryWatches[l]
  BY <1>1, <1>2 DEF WatchLists
<1>4. new = [st EXCEPT !.unaryWatches = f]
  BY DEF KeepUnary, Solver
<1> HIDE DEF f
<1>5. new \in Solver /\ new.unaryWatches = f
  BY ZenonT(40), <1>3, <1>4 DEF Solver
<1>6. /\ SameRest(st, new) /\ SameMemory(st, new)
      /\ new.watchesBin = st.watchesBin /\ new.watches = st.watches
  BY <1>4 DEF Solver, SameRest, SameTrail, SameMemory
<1> QED BY <1>3, <1>5, <1>6

LEMMA SameRestAdvances ==
  ASSUME NEW st, NEW new, SameRest(st, new), Len(new.db) = Len(st.db)
  PROVE  Advances(st, new)
BY DEF SameRest, Advances, SameTrail

-----------------------------------------------------------------------------
(* A watcher that is kept.                                                 *)

LEMMA SameRestFacts ==
  ASSUME NEW st, NEW new, SameRest(st, new)
  PROVE  /\ \A l : Value(new, l) = Value(st, l) /\ Level(new, l) = Level(st, l)
         /\ DecisionLevel(new) = DecisionLevel(st)
         /\ new.confl = st.confl /\ new.dirty = st.dirty /\ new.trail = st.trail /\ new.qhead = st.qhead
         /\ new.deleted = st.deleted
BY TrailFrame DEF SameRest, SameTrail

\* Reordering clauses and moving their watchers leaves the core sound.
LEMMA SameRestCore ==
  ASSUME NEW M, NEW st, Core(st, M), NEW new \in Solver, SameRest(st, new),
         DOMAIN new.db = DOMAIN st.db, new.oneWatched \subseteq st.oneWatched,
         \A cr \in DOMAIN st.db : DistinctVars(new.db[cr]) /\ Reordered(st, st.db[cr], new.db[cr])
  PROVE  Core(new, M)
<1>1. st \in Solver /\ Stored(st) /\ Pending(st)
  BY DEF Core
<1>2. /\ SameTrail(st, new) /\ new.deleted = st.deleted /\ new.qhead = st.qhead /\ new.confl = st.confl
      /\ new.clauses = st.clauses
      /\ new.learnts = st.learnts /\ new.unaryWatchedClauses = st.unaryWatchedClauses
  BY DEF SameRest
<1>3. Live(new) = Live(st)
  BY <1>2 DEF Live
<1>4. Stored(new)
  <2>1. \A cr \in new.oneWatched : Len(new.db[cr]) > 2
    BY <1>1 DEF Stored, Reordered
  <2> QED BY <2>1, <1>1, <1>2, <1>3 DEF Stored
<1>5. st.qhead <= new.qhead /\ new.qhead <= Len(st.trail)
  BY <1>1, <1>2 DEF Pending, Solver
<1> QED BY <1>2, <1>4, <1>5, MemoryCore

LEMMA SameMemoryCore ==
  ASSUME NEW M, NEW st, Core(st, M), NEW new \in Solver, SameRest(st, new), SameMemory(st, new)
  PROVE  Core(new, M)
<1>1. new.db = st.db /\ new.oneWatched = st.oneWatched
  BY DEF SameMemory
<1>2. \A cr \in DOMAIN st.db : DistinctVars(st.db[cr]) /\ Reordered(st, st.db[cr], st.db[cr])
  BY DEF Core, Stored, Reordered
<1> QED BY <1>1, <1>2, SameRestCore

LEMMA ConflictingFrame ==
  ASSUME NEW st, NEW new, SameRest(st, new), DOMAIN new.db = DOMAIN st.db,
         \A cr \in DOMAIN st.db : ToSet(new.db[cr]) = ToSet(st.db[cr])
  PROVE  Conflicting(st) => Conflicting(new)
BY SameRestFacts DEF Conflicting

\* What the lists of a state midway look like.
LEMMA MidwayFacts ==
  ASSUME NEW st, NEW M, NEW visited, NEW p, NEW rest, Midway(st, M, visited, p, rest)
  PROVE  /\ st \in Solver /\ Core(st, M) /\ Stored(st) /\ OnTrail(st) /\ st.dirty = {}
         /\ p \in Lits /\ Value(st, p) = True /\ Level(st, p) = DecisionLevel(st)
         /\ Value(st, -p) = False /\ -p \in Lits
         /\ rest \in Seq(Watchers) /\ st.deleted \subseteq DOMAIN st.db
         /\ \A kind \in Kinds : \A l \in Lits :
              WellListed(st, kind, l, Full(st, visited, p, rest, kind, l))
         /\ st.confl # NoRef => Conflicting(st)
<1>1. /\ st \in Solver /\ Core(st, M) /\ Stored(st) /\ OnTrail(st) /\ st.dirty = {}
      /\ p \in Lits /\ Value(st, p) = True /\ Level(st, p) = DecisionLevel(st)
      /\ rest \in Seq(Watchers)
      /\ \A kind \in Kinds : \A l \in Lits :
           WellListed(st, kind, l, Full(st, visited, p, rest, kind, l))
      /\ st.confl # NoRef => Conflicting(st)
  BY DEF Midway, Core
<1>2. Value(st, -p) = False /\ -p \in Lits
  BY <1>1, ValueFacts, LitFacts, TrailFacts
<1> QED BY <1>1, <1>2 DEF Stored

\* A watcher is kept in a list, with another blocker.
LEMMA KeptListed ==
  ASSUME NEW st, NEW kind, NEW l, NEW a \in Seq(Watchers), NEW r \in Seq(Watchers),
         NEW w \in Watchers, NEW w2 \in Watchers, SameCref(w, w2),
         w2.blocker \in ToSet(st.db[w.cref]), kind # "binary",
         WellListed(st, kind, l, AtWatcher(a, w, r))
  PROVE  WellListed(st, kind, l, WithKept(a, w2, r))
<1> DEFINE old == AtWatcher(a, w, r)
           ws == WithKept(a, w2, r)
<1>1. WellListed(st, kind, l, old)
  OBVIOUS
<1>2. Once(old)
  BY <1>1 DEF WellListed
<1>3. /\ Once(ws) /\ Crefs(ws) = Crefs(old) /\ w.cref \in Crefs(old)
      /\ \A x \in ToSet(ws) : IF SameCref(w, x) THEN x = w2 ELSE x \in ToSet(old)
  BY <1>2, ListKept
<1> HIDE DEF old, ws
<1>4. \A x \in ToSet(ws) : x.blocker \in ToSet(st.db[x.cref])
  <2> SUFFICES ASSUME NEW x \in ToSet(ws) PROVE x.blocker \in ToSet(st.db[x.cref])
    OBVIOUS
  <2>1. CASE SameCref(w, x)
    BY <2>1, <1>3 DEF SameCref
  <2>2. CASE ~SameCref(w, x)
    BY <2>2, <1>1, <1>3 DEF WellListed
  <2> QED BY <2>1, <2>2
<1>5. WellListed(st, kind, l, ws)
  BY <1>1, <1>3, <1>4 DEF WellListed
<1> QED BY <1>5 DEF ws

\* No other list changes.
OnlyList(st, new, kind, l) ==
  \A k \in Kinds : \A q \in Lits : k # kind \/ q # l => ListOf(new, k, q) = ListOf(st, k, q)

\* Watcher w is put in the list of p.
PutIn(st, new, kind, p, w) == ListOf(new, kind, p) = Append(ListOf(st, kind, p), w)

LEMMA KeptMidway ==
  ASSUME NEW st, NEW M, NEW visited \in {"long", "unary"}, NEW p, NEW w \in Watchers, NEW r \in Seq(Watchers),
         Midway(st, M, visited, p, <<w>> \o r),
         NEW w2 \in Watchers, SameCref(w, w2), w2.blocker \in ToSet(st.db[w.cref]),
         NEW new, new \in Solver, SameRest(st, new), SameMemory(st, new),
         OnlyList(st, new, visited, p),
         PutIn(st, new, visited, p, w2)
  PROVE  Midway(new, M, visited, p, r)
<1>1. /\ st \in Solver /\ Core(st, M) /\ st.dirty = {} /\ p \in Lits
      /\ Value(st, p) = True /\ Level(st, p) = DecisionLevel(st)
      /\ \A kind \in Kinds : \A l \in Lits :
           WellListed(st, kind, l, Full(st, visited, p, <<w>> \o r, kind, l))
      /\ st.confl # NoRef => Conflicting(st)
  BY MidwayFacts
<1>3. Core(new, M)
  BY <1>1, SameMemoryCore
<1>4. /\ new.confl = st.confl /\ new.dirty = {} /\ new.db = st.db
      /\ Value(new, p) = True /\ Level(new, p) = DecisionLevel(new)
  BY <1>1, SameRestFacts DEF SameMemory
<1>5. st.confl # NoRef => Conflicting(new)
  BY <1>1, <1>4, ConflictingFrame
<1>6. ASSUME NEW kind \in Kinds, NEW l \in Lits
      PROVE  WellListed(new, kind, l, Full(new, visited, p, r, kind, l))
  <2>1. WellListed(st, kind, l, Full(st, visited, p, <<w>> \o r, kind, l))
    BY <1>1
  <2>4. SameMemory(st, new) /\ new.dirty = st.dirty
    BY <1>1, <1>4
  <2>2. CASE kind = visited /\ l = p
    <3> DEFINE a == ListOf(st, visited, p)
    <3>1. /\ Full(st, visited, p, <<w>> \o r, kind, l) = AtWatcher(a, w, r)
          /\ Full(new, visited, p, r, kind, l) = WithKept(a, w2, r)
      BY <2>2 DEF Full, AtWatcher, WithKept, PutIn
    <3>2. a \in Seq(Watchers)
      BY <1>1, <2>2, ListFacts
    <3> HIDE DEF a
    <3>3. WellListed(st, kind, l, AtWatcher(a, w, r))
      BY <2>1, <3>1
    <3>4. WellListed(st, kind, l, WithKept(a, w2, r))
      BY <3>2, <3>3, <2>2, KeptListed
    <3>6. WellListed(new, kind, l, WithKept(a, w2, r))
      BY <3>4, <2>4, WellListedFrame, Zenon
    <3> QED BY <3>1, <3>6, Zenon
  <2>3. CASE ~(kind = visited /\ l = p)
    <3>1. Full(new, visited, p, r, kind, l) = Full(st, visited, p, <<w>> \o r, kind, l)
      BY <2>3 DEF Full, OnlyList
    <3> QED BY <3>1, <2>1, <2>4, WellListedFrame
  <2> QED BY <2>2, <2>3
<1> QED BY <1>1, <1>3, <1>4, <1>5, <1>6 DEF Midway

LEMMA KeepLists ==
  ASSUME NEW st \in Solver, NEW p \in Lits, NEW w \in Watchers, NEW new, new = Keep(st, p, w)
  PROVE  /\ new \in Solver /\ SameRest(st, new) /\ SameMemory(st, new)
         /\ OnlyList(st, new, "long", p) /\ PutIn(st, new, "long", p, w)
<1>2. /\ new \in Solver /\ SameRest(st, new) /\ SameMemory(st, new)
      /\ new.watchesBin = st.watchesBin /\ new.unaryWatches = st.unaryWatches
      /\ new.watches[p] = Append(st.watches[p], w)
      /\ \A l \in Lits \ {p} : new.watches[l] = st.watches[l]
  BY KeepFields
<1>3. OnlyList(st, new, "long", p)
  BY ONLY <1>2, KindFacts DEF OnlyList, Kinds
<1>4. PutIn(st, new, "long", p, w)
  BY ONLY <1>2, KindFacts DEF PutIn
<1> QED BY ONLY <1>2, <1>3, <1>4

LEMMA KeepUnaryLists ==
  ASSUME NEW st \in Solver, NEW p \in Lits, NEW w \in Watchers, NEW new, new = KeepUnary(st, p, w)
  PROVE  /\ new \in Solver /\ SameRest(st, new) /\ SameMemory(st, new)
         /\ OnlyList(st, new, "unary", p) /\ PutIn(st, new, "unary", p, w)
<1>2. /\ new \in Solver /\ SameRest(st, new) /\ SameMemory(st, new)
      /\ new.watchesBin = st.watchesBin /\ new.watches = st.watches
      /\ new.unaryWatches[p] = Append(st.unaryWatches[p], w)
      /\ \A l \in Lits \ {p} : new.unaryWatches[l] = st.unaryWatches[l]
  BY KeepUnaryFields
<1>3. OnlyList(st, new, "unary", p)
  BY ONLY <1>2, KindFacts DEF OnlyList, Kinds
<1>4. PutIn(st, new, "unary", p, w)
  BY ONLY <1>2, KindFacts DEF PutIn
<1> QED BY ONLY <1>2, <1>3, <1>4

LEMMA KeepStep ==
  ASSUME NEW st, NEW M, NEW p, NEW w \in Watchers, NEW r \in Seq(Watchers),
         Midway(st, M, "long", p, <<w>> \o r),
         NEW w2 \in Watchers, SameCref(w, w2), w2.blocker \in ToSet(st.db[w.cref]),
         NEW new, new = Keep(st, p, w2)
  PROVE  Midway(new, M, "long", p, r) /\ SameRest(st, new) /\ SameMemory(st, new)
<1>1. st \in Solver /\ p \in Lits
  BY MidwayFacts
<1>2. /\ new \in Solver /\ SameRest(st, new) /\ SameMemory(st, new)
      /\ OnlyList(st, new, "long", p) /\ PutIn(st, new, "long", p, w2)
  BY <1>1, KeepLists
<1> QED BY <1>2, KeptMidway

LEMMA KeepUnaryStep ==
  ASSUME NEW st, NEW M, NEW p, NEW w \in Watchers, NEW r \in Seq(Watchers),
         Midway(st, M, "unary", p, <<w>> \o r),
         NEW w2 \in Watchers, SameCref(w, w2), w2.blocker \in ToSet(st.db[w.cref]),
         NEW new, new = KeepUnary(st, p, w2)
  PROVE  Midway(new, M, "unary", p, r) /\ SameRest(st, new) /\ SameMemory(st, new)
<1>1. st \in Solver /\ p \in Lits
  BY MidwayFacts
<1>2. /\ new \in Solver /\ SameRest(st, new) /\ SameMemory(st, new)
      /\ OnlyList(st, new, "unary", p) /\ PutIn(st, new, "unary", p, w2)
  BY <1>1, KeepUnaryLists
<1> QED BY <1>2, KeptMidway

\* The false literal of a clause is put second.
Normalized(st, p, cr) == [st EXCEPT !.db[cr] = IF @[1] = -p THEN Swapped(@, 1, 2) ELSE @]

LEMMA NormalizeStep ==
  ASSUME NEW st, NEW M, NEW p, NEW rest, Midway(st, M, "long", p, rest),
         NEW cr \in Live(st), <<"long", p>> \in Lists(st, cr),
         NEW new, new = Normalized(st, p, cr)
  PROVE  /\ Midway(new, M, "long", p, rest) /\ SameRest(st, new) /\ SameLists(st, new)
         /\ Len(new.db) = Len(st.db) /\ ToSet(new.db[cr]) = ToSet(st.db[cr])
         /\ cr \in Live(new) /\ new.db[cr][2] = -p
         /\ Len(new.db[cr]) > 2 /\ cr \notin new.oneWatched
<1> DEFINE c == st.db[cr]
           d == IF c[1] = -p THEN Swapped(c, 1, 2) ELSE c
<1>1. /\ st \in Solver /\ Core(st, M) /\ Stored(st) /\ st.dirty = {} /\ p \in Lits
      /\ Value(st, p) = True /\ Level(st, p) = DecisionLevel(st)
      /\ Value(st, -p) = False /\ rest \in Seq(Watchers) /\ st.deleted \subseteq DOMAIN st.db
      /\ \A kind \in Kinds : \A l \in Lits :
           WellListed(st, kind, l, Full(st, "long", p, rest, kind, l))
      /\ st.confl # NoRef => Conflicting(st)
  BY MidwayFacts
<1>2. cr \in DOMAIN st.db
  BY DEF Live
<1>3. /\ c \in Seq(Lits) /\ Len(c) \in Nat /\ Len(c) >= 2 /\ 1 \in DOMAIN c /\ 2 \in DOMAIN c /\ c \in Clauses
      /\ c[1] \in Lits /\ c[2] \in Lits
  BY <1>1, <1>2, ClauseFacts
<1>4. Len(c) # 2 /\ cr \notin st.oneWatched /\ p \in {-c[1], -c[2]}
  BY ListsFacts
<1>5. c[1] = -p \/ c[2] = -p
  <2>1. -(-c[1]) = c[1] /\ -(-c[2]) = c[2]
    BY <1>3, LitFacts
  <2>2. p = -c[1] \/ p = -c[2]
    BY <1>4
  <2> HIDE DEF c
  <2> QED BY ONLY <2>1, <2>2
<1>6. /\ d \in Seq(Lits) /\ Len(d) = Len(c) /\ ToSet(d) = ToSet(c) /\ d[2] = -p
      /\ (d[1] = c[1] /\ d[2] = c[2]) \/ (d[1] = c[2] /\ d[2] = c[1])
  <2>1. /\ Swapped(c, 1, 2) \in Seq(Lits) /\ Len(Swapped(c, 1, 2)) = Len(c)
        /\ ToSet(Swapped(c, 1, 2)) = ToSet(c)
        /\ Swapped(c, 1, 2)[1] = c[2] /\ Swapped(c, 1, 2)[2] = c[1]
    <3>1. c \in Seq(Lits) /\ 1 \in DOMAIN c /\ 2 \in DOMAIN c
      BY <1>3
    <3> HIDE DEF c
    <3> QED BY ONLY <3>1, SwappedFacts
  <2> QED BY <2>1, <1>3, <1>5
<1>7. d \in Clauses
  BY <1>3, <1>6 DEF Clauses
<1>8. DistinctVars(d)
  BY <1>1, <1>2, <1>3, SwappedDistinct DEF Stored
<1>9. Reordered(st, c, d)
  <2>1. CASE c[1] = -p
    BY <2>1, <1>1, <1>6, SignsDiffer DEF Reordered
  <2>2. CASE c[1] # -p
    BY <2>2, <1>6 DEF Reordered
  <2> QED BY <2>1, <2>2
<1>10. new = [st EXCEPT !.db[cr] = d]
  BY <1>1 DEF Normalized, Solver
<1> HIDE DEF d
<1>11. /\ new \in Solver /\ SameRest(st, new) /\ SameLists(st, new)
       /\ new.oneWatched = st.oneWatched
       /\ DOMAIN new.db = DOMAIN st.db /\ Len(new.db) = Len(st.db)
       /\ new.db[cr] = d /\ \A x \in DOMAIN st.db \ {cr} : new.db[x] = st.db[x]
  BY <1>1, <1>2, <1>7, <1>10, ClauseSetFields
<1>12. \A x \in DOMAIN st.db : DistinctVars(new.db[x]) /\ Reordered(st, st.db[x], new.db[x])
  BY <1>1, <1>8, <1>9, <1>11 DEF Stored, Reordered
<1>13. Core(new, M)
  BY <1>1, <1>11, <1>12, SameRestCore
<1>14. /\ new.confl = st.confl /\ new.dirty = {} /\ new.deleted = st.deleted
       /\ Value(new, p) = True /\ Level(new, p) = DecisionLevel(new)
  BY <1>1, <1>11, SameRestFacts
<1>15. st.confl # NoRef => Conflicting(new)
  BY <1>1, <1>11, <1>12, ConflictingFrame DEF Reordered
<1>16. OnlyClause(st, new, cr)
  BY <1>1, <1>6, <1>11, <1>14 DEF OnlyClause
<1>17. Lists(new, cr) = Lists(st, cr)
  <2>1. Lists(st, cr) = {<<"long", -c[1]>>, <<"long", -c[2]>>}
    BY <1>4 DEF Lists
  <2>2. Lists(new, cr) = {<<"long", -d[1]>>, <<"long", -d[2]>>}
    BY <1>4, <1>6, <1>11 DEF Lists
  <2>3. CASE d[1] = c[1] /\ d[2] = c[2]
    BY <2>1, <2>2, <2>3
  <2>4. CASE d[1] = c[2] /\ d[2] = c[1]
    BY <2>1, <2>2, <2>4
  <2> QED BY <2>3, <2>4, <1>6
<1>18. ASSUME NEW kind \in Kinds, NEW l \in Lits
       PROVE  WellListed(new, kind, l, Full(new, "long", p, rest, kind, l))
  <2>1. Full(new, "long", p, rest, kind, l) = Full(st, "long", p, rest, kind, l)
    BY <1>11 DEF Full, ListOf, SameLists
  <2>2. WellListed(st, kind, l, Full(st, "long", p, rest, kind, l)) /\ st.deleted \subseteq DOMAIN st.db
    BY <1>1
  <2>3. WellListed(new, kind, l, Full(st, "long", p, rest, kind, l))
    <3>1. <<kind, l>> \in Lists(new, cr) <=> <<kind, l>> \in Lists(st, cr)
      BY <1>17
    <3> QED BY <3>1, <2>2, <1>16, OnlyClauseSame, Zenon
  <2> QED BY <2>1, <2>3
<1>19. cr \in Live(new)
  BY <1>11, <1>14 DEF Live
<1>20. Len(d) > 2
  BY <1>3, <1>4, <1>6
<1> QED BY <1>1, <1>4, <1>6, <1>11, <1>13, <1>14, <1>15, <1>18, <1>19, <1>20 DEF Midway

-----------------------------------------------------------------------------
(* A watcher that moves to another list.                                   *)

\* Clause cr leaves the rest of the list visited for the list of q.
LEMMA MovedMidway ==
  ASSUME NEW st, NEW M, NEW visited \in {"long", "unary"}, NEW p, NEW w \in Watchers, NEW r \in Seq(Watchers),
         Midway(st, M, visited, p, <<w>> \o r),
         NEW w2 \in Watchers, SameCref(w, w2), w2.blocker \in ToSet(st.db[w.cref]),
         NEW q \in Lits, q # p,
         NEW new, Core(new, M), SameRest(st, new), OnlyClause(st, new, w.cref),
         OnlyList(st, new, visited, q),
         PutIn(st, new, visited, q, w2),
         <<visited, q>> \notin Lists(st, w.cref), <<visited, q>> \in Lists(new, w.cref),
         <<visited, p>> \notin Lists(new, w.cref),
         \A kind \in Kinds : \A l \in Lits : kind # visited \/ l \notin {p, q} =>
            (<<kind, l>> \in Lists(new, w.cref) <=> <<kind, l>> \in Lists(st, w.cref))
  PROVE  Midway(new, M, visited, p, r)
<1> DEFINE cr == w.cref
<1>1. /\ st \in Solver /\ Core(st, M) /\ st.dirty = {} /\ p \in Lits
      /\ Value(st, p) = True /\ Level(st, p) = DecisionLevel(st)
      /\ \A kind \in Kinds : \A l \in Lits :
           WellListed(st, kind, l, Full(st, visited, p, <<w>> \o r, kind, l))
      /\ st.confl # NoRef => Conflicting(st) /\ st.deleted \subseteq DOMAIN st.db
  BY MidwayFacts
<1>4. /\ new.confl = st.confl /\ new.dirty = {}
      /\ Value(new, p) = True /\ Level(new, p) = DecisionLevel(new)
  BY <1>1, SameRestFacts
<1>8. DOMAIN new.db = DOMAIN st.db /\ \A x \in DOMAIN st.db : ToSet(new.db[x]) = ToSet(st.db[x])
  BY DEF OnlyClause
<1>5. st.confl # NoRef => Conflicting(new)
  BY <1>1, <1>8, ConflictingFrame
<1>9. OnlyClause(st, new, cr) /\ st.deleted \subseteq DOMAIN st.db
  BY MidwayFacts
<1>6. ASSUME NEW kind \in Kinds, NEW l \in Lits
      PROVE  WellListed(new, kind, l, Full(new, visited, p, r, kind, l))
  <2>1. WellListed(st, kind, l, Full(st, visited, p, <<w>> \o r, kind, l))
    BY <1>1
  <2>2. CASE kind = visited /\ l = p
    <3> DEFINE a == ListOf(st, visited, p)
               old == AtWatcher(a, w, r)
               ws == WithDropped(a, w, r)
    <3>1. /\ Full(st, visited, p, <<w>> \o r, kind, l) = old
          /\ Full(new, visited, p, r, kind, l) = ws
      <4>1. ListOf(new, visited, p) = a
        BY <1>1 DEF OnlyList, Kinds
      <4> QED BY <4>1, <2>2 DEF Full, AtWatcher, WithDropped
    <3>2. a \in Seq(Watchers)
      BY <1>1, <2>2, ListFacts
    <3> HIDE DEF a
    <3>3. WellListed(st, kind, l, old) /\ Once(old)
      BY <2>1, <3>1 DEF WellListed
    <3>4. Once(ws) /\ Crefs(ws) = Crefs(old) \ {cr} /\ ToSet(ws) \subseteq ToSet(old)
      BY <3>2, <3>3, ListDropped
    <3> HIDE DEF old, ws
    <3>5. \A x \in ToSet(ws) : x.cref # cr
      BY <3>4 DEF Crefs
    <3>6. cr \in Crefs(ws) <=> <<kind, l>> \in Lists(new, cr)
      BY <3>4, <2>2
    <3>7. Crefs(ws) \ {cr} = Crefs(old) \ {cr}
      BY <3>4
    <3>8. \A x \in ToSet(ws) : x \in ToSet(old)
      BY <3>4
    <3> HIDE DEF cr
    <3>9. WellListed(new, kind, l, ws)
      BY <1>9, <3>3, <3>4, <3>5, <3>6, <3>7, <3>8, OnlyClauseListed
    <3> QED BY <3>1, <3>9
  <2>3. CASE kind = visited /\ l = q
    <3> DEFINE old == ListOf(st, visited, q)
               ws == Append(old, w2)
    <3>1. /\ Full(st, visited, p, <<w>> \o r, kind, l) = old
          /\ Full(new, visited, p, r, kind, l) = ws
      BY <2>3 DEF Full, PutIn
    <3>2. old \in Seq(Watchers)
      BY <1>1, <2>3, ListFacts
    <3>3. WellListed(st, kind, l, old) /\ Once(old)
      BY <2>1, <3>1 DEF WellListed
    <3>10. cr \notin Crefs(old)
      <4>1. <<kind, l>> \notin Lists(st, cr)
        BY <2>3
      <4>2. WellListed(st, kind, l, old)
        BY <3>3
      <4>3. cr \in Crefs(old) <=> <<kind, l>> \in Lists(st, cr)
        <5>1. <<kind, l>> \in Lists(st, cr) <=> <<kind, l>> \in Lists(st, cr)
          OBVIOUS
        <5>2. cr \notin st.deleted /\ Crefs(old) \ st.deleted = Attached(st, kind, l) /\ cr \in Live(st)
          BY <3>3, <1>9 DEF WellListed, OnlyClause, Live
        <5> QED BY <5>2 DEF Attached
      <4> QED BY <4>1, <4>3
    <3> HIDE DEF old
    <3>4. ToSet(ws) = ToSet(old) \cup {w2} /\ Crefs(ws) = Crefs(old) \cup {w2.cref} /\ Once(ws)
      <4>1. w2.cref \notin Crefs(old)
        BY <3>10 DEF SameCref
      <4> QED BY <4>1, <3>2, <3>3, ListAppend
    <3>11. w2.cref = cr
      BY DEF SameCref
    <3> HIDE DEF ws
    <3>5. \A x \in ToSet(ws) : x.cref # cr => x \in ToSet(old)
      BY <3>4, <3>11
    <3>6. cr \in Crefs(ws) <=> <<kind, l>> \in Lists(new, cr)
      BY <3>4, <3>11, <2>3
    <3>7. Crefs(ws) \ {cr} = Crefs(old) \ {cr}
      BY <3>4, <3>11
    <3>12. ASSUME NEW x \in ToSet(ws), x.cref = cr PROVE x = w2
      BY <3>4, <3>10, <3>12 DEF Crefs
    <3>8. \A x \in ToSet(ws) : x.cref = cr =>
            /\ x.blocker \in ToSet(st.db[cr])
            /\ kind = "binary" => ToSet(st.db[cr]) = {-l, x.blocker}
      BY <3>12, <2>3
    <3> HIDE DEF cr
    <3>9. WellListed(new, kind, l, ws)
      BY <1>9, <3>3, <3>4, <3>5, <3>6, <3>7, <3>8, OnlyClauseListed
    <3> QED BY <3>1, <3>9
  <2>4. CASE kind # visited \/ l \notin {p, q}
    <3>1. Full(new, visited, p, r, kind, l) = Full(st, visited, p, <<w>> \o r, kind, l)
      BY <2>4 DEF Full, OnlyList
    <3>2. <<kind, l>> \in Lists(new, cr) <=> <<kind, l>> \in Lists(st, cr)
      BY <2>4
    <3> HIDE DEF cr
    <3> QED BY <3>1, <3>2, <2>1, <1>9, OnlyClauseSame
  <2> QED BY <2>2, <2>3, <2>4
<1> QED BY <1>1, <1>4, <1>5, <1>6, MidwayFacts DEF Midway

\* The watcher that is visited.
LEMMA FirstListed ==
  ASSUME NEW st, NEW M, NEW visited \in Kinds, NEW p, NEW w \in Watchers, NEW r \in Seq(Watchers),
         Midway(st, M, visited, p, <<w>> \o r)
  PROVE  /\ w.cref \in Live(st) /\ w.cref \in DOMAIN st.db /\ w.cref \in Nat /\ w.blocker \in Lits
         /\ <<visited, p>> \in Lists(st, w.cref)
         /\ w.blocker \in ToSet(st.db[w.cref])
<1>1. st \in Solver /\ p \in Lits
  BY MidwayFacts
<1> DEFINE a == ListOf(st, visited, p)
           rest == <<w>> \o r
<1>2. Full(st, visited, p, rest, visited, p) = a \o rest /\ a \in Seq(Watchers)
  BY <1>1, ListFacts DEF Full
<1>3. rest \in Seq(Watchers) /\ w \in ToSet(rest)
  BY ListCons
<1> HIDE DEF a, rest
<1>4. w \in ToSet(a \o rest)
  BY <1>2, <1>3, ListConcat
<1>5. Midway(st, M, visited, p, rest)
  BY DEF rest
<1>6. w \in ToSet(Full(st, visited, p, rest, visited, p))
  BY <1>2, <1>4
<1> QED BY <1>1, <1>5, <1>6, MidwayListed DEF Watchers

MovedTo(st, cr, d, q, w)      == [st EXCEPT !.db[cr] = d, !.watches[q] = Append(@, w)]
MovedUnaryTo(st, cr, d, q, w) == [st EXCEPT !.db[cr] = d, !.unaryWatches[q] = Append(@, w)]

LEMMA MoveFields ==
  ASSUME NEW st \in Solver, NEW cr \in DOMAIN st.db, NEW d \in Clauses, NEW q \in Lits, NEW w \in Watchers,
         NEW new, new = MovedTo(st, cr, d, q, w)
  PROVE  /\ new \in Solver /\ SameRest(st, new) /\ new.oneWatched = st.oneWatched
         /\ DOMAIN new.db = DOMAIN st.db /\ Len(new.db) = Len(st.db)
         /\ new.db[cr] = d /\ \A x \in DOMAIN st.db \ {cr} : new.db[x] = st.db[x]
         /\ OnlyList(st, new, "long", q)
         /\ PutIn(st, new, "long", q, w)
<1> DEFINE mid == [st EXCEPT !.db[cr] = d]
<1>1. /\ mid \in Solver /\ SameRest(st, mid) /\ SameLists(st, mid)
      /\ mid.oneWatched = st.oneWatched
      /\ DOMAIN mid.db = DOMAIN st.db /\ Len(mid.db) = Len(st.db)
      /\ mid.db[cr] = d /\ \A x \in DOMAIN st.db \ {cr} : mid.db[x] = st.db[x]
  BY ClauseSetFields
<1>2. new = Keep(mid, q, w)
  BY DEF Keep, Solver, MovedTo
<1> HIDE DEF mid
<1>3. /\ new \in Solver /\ SameRest(mid, new) /\ SameMemory(mid, new)
      /\ OnlyList(mid, new, "long", q) /\ PutIn(mid, new, "long", q, w)
  BY <1>1, <1>2, KeepLists
<1>4. SameRest(st, new)
  BY <1>1, <1>3 DEF SameRest, SameTrail
<1>5. /\ new.oneWatched = mid.oneWatched /\ new.db = mid.db
      /\ \A k, l : ListOf(mid, k, l) = ListOf(st, k, l)
  BY <1>1, <1>3 DEF SameMemory, SameLists, ListOf
<1>6. /\ OnlyList(st, new, "long", q)
      /\ PutIn(st, new, "long", q, w)
  BY <1>3, <1>5 DEF OnlyList, PutIn
<1> QED BY <1>1, <1>3, <1>4, <1>5, <1>6

LEMMA MoveUnaryFields ==
  ASSUME NEW st \in Solver, NEW cr \in DOMAIN st.db, NEW d \in Clauses, NEW q \in Lits, NEW w \in Watchers,
         NEW new, new = MovedUnaryTo(st, cr, d, q, w)
  PROVE  /\ new \in Solver /\ SameRest(st, new) /\ new.oneWatched = st.oneWatched
         /\ DOMAIN new.db = DOMAIN st.db /\ Len(new.db) = Len(st.db)
         /\ new.db[cr] = d /\ \A x \in DOMAIN st.db \ {cr} : new.db[x] = st.db[x]
         /\ OnlyList(st, new, "unary", q)
         /\ PutIn(st, new, "unary", q, w)
<1> DEFINE mid == [st EXCEPT !.db[cr] = d]
<1>1. /\ mid \in Solver /\ SameRest(st, mid) /\ SameLists(st, mid)
      /\ mid.oneWatched = st.oneWatched
      /\ DOMAIN mid.db = DOMAIN st.db /\ Len(mid.db) = Len(st.db)
      /\ mid.db[cr] = d /\ \A x \in DOMAIN st.db \ {cr} : mid.db[x] = st.db[x]
  BY ClauseSetFields
<1>2. new = KeepUnary(mid, q, w)
  BY DEF KeepUnary, Solver, MovedUnaryTo
<1> HIDE DEF mid
<1>3. /\ new \in Solver /\ SameRest(mid, new) /\ SameMemory(mid, new)
      /\ OnlyList(mid, new, "unary", q) /\ PutIn(mid, new, "unary", q, w)
  BY <1>1, <1>2, KeepUnaryLists
<1>4. SameRest(st, new)
  BY <1>1, <1>3 DEF SameRest, SameTrail
<1>5. /\ new.oneWatched = mid.oneWatched /\ new.db = mid.db
      /\ \A k, l : ListOf(mid, k, l) = ListOf(st, k, l)
  BY <1>1, <1>3 DEF SameMemory, SameLists, ListOf
<1>6. /\ OnlyList(st, new, "unary", q)
      /\ PutIn(st, new, "unary", q, w)
  BY <1>3, <1>5 DEF OnlyList, PutIn
<1> QED BY <1>1, <1>3, <1>4, <1>5, <1>6

\* A long clause whose second literal, the negation of p, is exchanged with a
\* later one.
LEMMA MoveStep ==
  ASSUME NEW st, NEW M, NEW p, NEW w \in Watchers, NEW r \in Seq(Watchers),
         Midway(st, M, "long", p, <<w>> \o r),
         NEW c, c = st.db[w.cref], c[2] = -p, NEW k \in 3 .. Len(c),
         NEW w2 \in Watchers, SameCref(w, w2), w2.blocker \in ToSet(c),
         NEW new, new = MovedTo(st, w.cref, Swapped(c, 2, k), -c[k], w2)
  PROVE  Midway(new, M, "long", p, r) /\ Advances(st, new)
<1> DEFINE cr == w.cref
           d == Swapped(c, 2, k)
           q == -c[k]
<1>1. /\ st \in Solver /\ Core(st, M) /\ Stored(st) /\ p \in Lits /\ st.dirty = {}
  BY MidwayFacts
<1>2. cr \in Live(st) /\ cr \in DOMAIN st.db /\ <<"long", p>> \in Lists(st, cr)
  BY FirstListed DEF Kinds
<1>3. /\ c \in Seq(Lits) /\ c \in Clauses /\ Len(c) \in Nat /\ DOMAIN c = 1 .. Len(c)
      /\ 1 \in DOMAIN c /\ 2 \in DOMAIN c /\ k \in DOMAIN c /\ k # 1 /\ k # 2
      /\ c[1] \in Lits /\ c[2] \in Lits /\ c[k] \in Lits /\ q \in Lits /\ DistinctVars(c)
  <2>1. /\ c \in Seq(Lits) /\ c \in Clauses /\ Len(c) \in Nat /\ DOMAIN c = 1 .. Len(c)
        /\ 1 \in DOMAIN c /\ 2 \in DOMAIN c /\ \A i \in DOMAIN c : c[i] \in Lits
    BY <1>1, <1>2, ClauseFacts
  <2>2. k \in DOMAIN c /\ k # 1 /\ k # 2
    BY <2>1
  <2>3. DistinctVars(c)
    BY <1>1, <1>2 DEF Stored
  <2> QED BY <2>1, <2>2, <2>3, LitFacts
<1>4. Len(c) # 2 /\ cr \notin st.oneWatched
  BY <1>2, ListsFacts
<1>5. /\ d \in Seq(Lits) /\ Len(d) = Len(c) /\ ToSet(d) = ToSet(c) /\ d[1] = c[1] /\ d[2] = c[k]
      /\ DistinctVars(d) /\ d \in Clauses
  <2>0. c \in Seq(Lits) /\ 1 \in DOMAIN c /\ 2 \in DOMAIN c /\ k \in DOMAIN c
    BY <1>3
  <2>1. /\ d \in Seq(Lits) /\ Len(d) = Len(c) /\ ToSet(d) = ToSet(c) /\ d[2] = c[k]
        /\ \A i \in DOMAIN c \ {2, k} : d[i] = c[i]
    BY ONLY <2>0, SwappedFacts
  <2>2. DistinctVars(d)
    BY <1>3, SwappedDistinct
  <2>3. d[1] = c[1]
    BY ONLY <1>3, <2>1
  <2>4. d \in Clauses
    BY ONLY <1>3, <2>1 DEF Clauses
  <2> QED BY <2>1, <2>2, <2>3, <2>4
<1>6. -c[1] # p /\ q # p /\ q # -c[1] /\ -(-p) = p
  <2>1. Var(c[1]) # Var(c[2]) /\ Var(c[k]) # Var(c[2]) /\ Var(c[1]) # Var(c[k])
    BY <1>3 DEF DistinctVars
  <2>2. Var(c[2]) = Var(p) /\ -(-p) = p
    BY <1>1, LitFacts
  <2>3. Var(-c[1]) = Var(c[1]) /\ Var(-c[k]) = Var(c[k])
    BY <1>3, LitFacts
  <2> QED BY <2>1, <2>2, <2>3
<1>7. new = MovedTo(st, cr, d, q, w2)
  OBVIOUS
<1> HIDE DEF d, q
<1>8. /\ new \in Solver /\ SameRest(st, new) /\ new.oneWatched = st.oneWatched
      /\ DOMAIN new.db = DOMAIN st.db /\ Len(new.db) = Len(st.db)
      /\ new.db[cr] = d /\ \A x \in DOMAIN st.db \ {cr} : new.db[x] = st.db[x]
      /\ OnlyList(st, new, "long", q)
      /\ PutIn(st, new, "long", q, w2)
  <2>1. /\ st \in Solver /\ cr \in DOMAIN st.db /\ d \in Clauses /\ q \in Lits /\ w2 \in Watchers
        /\ new = MovedTo(st, cr, d, q, w2)
    BY <1>1, <1>2, <1>3, <1>5, <1>7
  <2> HIDE DEF cr
  <2> QED BY ONLY <2>1, MoveFields
<1>9. Core(new, M)
  <2>1. \A x \in DOMAIN st.db : DistinctVars(new.db[x]) /\ Reordered(st, st.db[x], new.db[x])
    BY <1>1, <1>5, <1>8 DEF Stored, Reordered
  <2> QED BY <1>1, <1>8, <2>1, SameRestCore
<1>10. OnlyClause(st, new, cr)
  BY ZenonT(40), <1>2, <1>5, <1>8, SameRestFacts DEF OnlyClause
<1>11. \A kind, l : <<kind, l>> \in Lists(st, cr) <=> kind = "long" /\ l \in {-c[1], p}
  <2>1. Lists(st, cr) = {<<"long", -c[1]>>, <<"long", -c[2]>>}
    BY <1>4 DEF Lists
  <2> QED BY <2>1, <1>6
<1>12. \A kind, l : <<kind, l>> \in Lists(new, cr) <=> kind = "long" /\ l \in {-c[1], q}
  <2>1. Lists(new, cr) = {<<"long", -d[1]>>, <<"long", -d[2]>>}
    BY <1>4, <1>5, <1>8 DEF Lists
  <2> QED BY <2>1, <1>5 DEF q
<1>13. /\ <<"long", q>> \notin Lists(st, cr) /\ <<"long", q>> \in Lists(new, cr)
       /\ <<"long", p>> \notin Lists(new, cr)
       /\ \A kind \in Kinds : \A l \in Lits : kind # "long" \/ l \notin {p, q} =>
            (<<kind, l>> \in Lists(new, cr) <=> <<kind, l>> \in Lists(st, cr))
  BY <1>6, <1>11, <1>12
<1>14. Midway(new, M, "long", p, r)
  BY <1>3, <1>6, <1>8, <1>9, <1>10, <1>13, MovedMidway
<1>15. Advances(st, new)
  BY <1>8, SameRestAdvances
<1> QED BY <1>14, <1>15

\* A clause of the purgatory whose first literal, the negation of p, is
\* exchanged with a later one.
LEMMA MoveUnaryStep ==
  ASSUME NEW st, NEW M, NEW p, NEW w \in Watchers, NEW r \in Seq(Watchers),
         Midway(st, M, "unary", p, <<w>> \o r),
         NEW c, c = st.db[w.cref], NEW k \in 2 .. Len(c),
         NEW w2 \in Watchers, SameCref(w, w2), w2.blocker \in ToSet(c),
         NEW new, new = MovedUnaryTo(st, w.cref, Swapped(c, 1, k), -c[k], w2)
  PROVE  Midway(new, M, "unary", p, r) /\ Advances(st, new)
<1> DEFINE cr == w.cref
           d == Swapped(c, 1, k)
           q == -c[k]
<1>1. /\ st \in Solver /\ Core(st, M) /\ Stored(st) /\ p \in Lits /\ st.dirty = {} /\ Value(st, -p) = False
  BY MidwayFacts
<1>2. cr \in Live(st) /\ cr \in DOMAIN st.db /\ <<"unary", p>> \in Lists(st, cr)
  BY FirstListed DEF Kinds
<1>3. /\ c \in Seq(Lits) /\ c \in Clauses /\ Len(c) \in Nat /\ DOMAIN c = 1 .. Len(c)
      /\ 1 \in DOMAIN c /\ k \in DOMAIN c /\ k # 1
      /\ c[1] \in Lits /\ c[k] \in Lits /\ q \in Lits /\ DistinctVars(c)
  <2>1. /\ c \in Seq(Lits) /\ c \in Clauses /\ Len(c) \in Nat /\ DOMAIN c = 1 .. Len(c)
        /\ 1 \in DOMAIN c /\ \A i \in DOMAIN c : c[i] \in Lits
    BY <1>1, <1>2, ClauseFacts
  <2>2. k \in DOMAIN c /\ k # 1
    BY <2>1
  <2>3. DistinctVars(c)
    BY <1>1, <1>2 DEF Stored
  <2> QED BY <2>1, <2>2, <2>3, LitFacts
<1>4. cr \in st.oneWatched /\ p = -c[1]
  BY <1>2, ListsFacts
<1>16. c[1] = -p
  BY <1>3, <1>4, LitFacts
<1>5. /\ d \in Seq(Lits) /\ Len(d) = Len(c) /\ ToSet(d) = ToSet(c) /\ d[1] = c[k]
      /\ DistinctVars(d) /\ d \in Clauses
  <2>0. c \in Seq(Lits) /\ 1 \in DOMAIN c /\ k \in DOMAIN c
    BY <1>3
  <2>1. /\ d \in Seq(Lits) /\ Len(d) = Len(c) /\ ToSet(d) = ToSet(c) /\ d[1] = c[k]
    BY ONLY <2>0, SwappedFacts
  <2>2. DistinctVars(d)
    BY <1>3, SwappedDistinct
  <2> QED BY <1>3, <2>1, <2>2 DEF Clauses
<1>6. q # p
  <2>1. Var(c[k]) # Var(c[1])
    BY <1>3 DEF DistinctVars
  <2>3. Var(-c[1]) = Var(c[1]) /\ Var(-c[k]) = Var(c[k])
    BY <1>3, LitFacts
  <2> QED BY <2>1, <2>3, <1>4
<1>7. new = MovedUnaryTo(st, cr, d, q, w2)
  OBVIOUS
<1> HIDE DEF d, q
<1>8. /\ new \in Solver /\ SameRest(st, new) /\ new.oneWatched = st.oneWatched
      /\ DOMAIN new.db = DOMAIN st.db /\ Len(new.db) = Len(st.db)
      /\ new.db[cr] = d /\ \A x \in DOMAIN st.db \ {cr} : new.db[x] = st.db[x]
      /\ OnlyList(st, new, "unary", q)
      /\ PutIn(st, new, "unary", q, w2)
  <2>1. /\ st \in Solver /\ cr \in DOMAIN st.db /\ d \in Clauses /\ q \in Lits /\ w2 \in Watchers
        /\ new = MovedUnaryTo(st, cr, d, q, w2)
    BY <1>1, <1>2, <1>3, <1>5, <1>7
  <2> HIDE DEF cr
  <2> QED BY ONLY <2>1, MoveUnaryFields
<1>9. Core(new, M)
  <2>2. Reordered(st, c, d)
    BY <1>1, <1>5, <1>16, SignsDiffer DEF Reordered
  <2>1. \A x \in DOMAIN st.db : DistinctVars(new.db[x]) /\ Reordered(st, st.db[x], new.db[x])
    BY <1>1, <1>5, <1>8, <2>2 DEF Stored, Reordered
  <2> QED BY <1>1, <1>8, <2>1, SameRestCore
<1>10. OnlyClause(st, new, cr)
  BY <1>2, <1>5, <1>8, SameRestFacts DEF OnlyClause
<1>11. \A kind, l : <<kind, l>> \in Lists(st, cr) <=> kind = "unary" /\ l = p
  <2>1. Lists(st, cr) = {<<"unary", -c[1]>>}
    BY <1>4 DEF Lists
  <2> QED BY <2>1, <1>4
<1>12. \A kind, l : <<kind, l>> \in Lists(new, cr) <=> kind = "unary" /\ l = q
  <2>1. Lists(new, cr) = {<<"unary", -d[1]>>}
    BY <1>4, <1>5, <1>8 DEF Lists
  <2> QED BY <2>1, <1>5 DEF q
<1>13. /\ <<"unary", q>> \notin Lists(st, cr) /\ <<"unary", q>> \in Lists(new, cr)
       /\ <<"unary", p>> \notin Lists(new, cr)
       /\ \A kind \in Kinds : \A l \in Lits : kind # "unary" \/ l \notin {p, q} =>
            (<<kind, l>> \in Lists(new, cr) <=> <<kind, l>> \in Lists(st, cr))
  BY <1>6, <1>11, <1>12
<1>14. Midway(new, M, "unary", p, r)
  BY <1>3, <1>6, <1>8, <1>9, <1>10, <1>13, MovedMidway
<1>15. Advances(st, new)
  BY <1>8, SameRestAdvances
<1> QED BY <1>14, <1>15

-----------------------------------------------------------------------------
(* One watcher: what propagate does of its clause.                         *)

LEMMA FirstNonFalseFacts ==
  ASSUME NEW st, NEW c, NEW k \in Nat \ {0}, Len(c) \in Nat
  PROVE  LET f == FirstNonFalse(st, c, k)
         IN  \/ f = 0 /\ \A i \in k .. Len(c) : Value(st, c[i]) = False
             \/ f \in k .. Len(c) /\ f # 0 /\ Value(st, c[f]) # False
<1> DEFINE found == {i \in k .. Len(c) : Value(st, c[i]) # False}
<1>1. CASE found = {}
  BY <1>1 DEF FirstNonFalse
<1>2. CASE found # {}
  <2>1. found \subseteq Nat
    OBVIOUS
  <2>2. PICK m \in found : \A n \in found : m <= n
    BY <1>2, <2>1, LeastElement
  <2>3. Min(found) \in found
    BY <2>2 DEF Min
  <2>4. FirstNonFalse(st, c, k) = Min(found)
    BY <1>2 DEF FirstNonFalse
  <2> QED BY <2>3, <2>4
<1> QED BY <1>1, <1>2

LEMMA ConflictMidway ==
  ASSUME NEW st, NEW M, NEW visited \in {"long", "unary"}, NEW p, NEW r, Midway(st, M, visited, p, r),
         NEW cr \in DOMAIN st.db, -p \in ToSet(st.db[cr]),
         \A q \in ToSet(st.db[cr]) : Value(st, q) = False,
         NEW new, new = [st EXCEPT !.confl = cr, !.qhead = Len(st.trail)]
  PROVE  Midway(new, M, visited, p, r) /\ Advances(st, new)
<1>1. /\ st \in Solver /\ Core(st, M) /\ Stored(st) /\ OnTrail(st) /\ st.dirty = {}
      /\ p \in Lits /\ Value(st, p) = True /\ Level(st, p) = DecisionLevel(st)
      /\ r \in Seq(Watchers) /\ st.deleted \subseteq DOMAIN st.db
      /\ \A kind \in Kinds : \A l \in Lits : WellListed(st, kind, l, Full(st, visited, p, r, kind, l))
  BY MidwayFacts
<1>2. Len(st.trail) \in Nat /\ cr \in Nat /\ cr # NoRef
  BY <1>1, TrailFacts, ClauseFacts DEF NoRef
<1>3. /\ new \in Solver /\ SameTrail(st, new) /\ SameMemory(st, new) /\ SameLists(st, new)
      /\ new.confl = cr /\ new.qhead = Len(st.trail) /\ Advances(st, new)
  <2>1. new \in Solver /\ new.confl = cr /\ new.qhead = Len(st.trail)
    BY <1>1, <1>2 DEF Solver
  <2>2. SameTrail(st, new) /\ SameMemory(st, new) /\ SameLists(st, new)
    BY <1>1 DEF Solver, SameTrail, SameMemory, SameLists
  <2>3. Advances(st, new)
    BY <1>1, <1>2, <2>1 DEF Solver, Advances
  <2> QED BY <2>1, <2>2, <2>3
<1>4. new.db = st.db /\ new.deleted = st.deleted /\ new.dirty = {}
  BY <1>1, <1>3 DEF SameMemory, SameLists
<1>5. Stored(new)
  BY <1>1, <1>3, <1>4 DEF Stored, Live, SameMemory
<1>6. Core(new, M)
  <2>1. st.qhead \in Nat /\ st.qhead <= Len(st.trail)
    BY <1>1 DEF Solver, Core, Pending
  <2>2. \A x \in DOMAIN st.db : Reordered(st, st.db[x], st.db[x])
    BY DEF Reordered
  <2>3. new.qhead = Len(st.trail) /\ st.qhead <= new.qhead /\ new.qhead <= Len(st.trail)
    BY <1>2, <1>3, <2>1
  <2> QED BY <1>1, <1>3, <1>4, <1>5, <2>2, <2>3, MemoryCore
<1>7. Conflicting(new)
  BY <1>1, <1>3, <1>4, ConflictFound
<1>8. Value(new, p) = True /\ Level(new, p) = DecisionLevel(new)
  BY <1>1, <1>3, TrailFrame
<1>9. ASSUME NEW kind \in Kinds, NEW l \in Lits
      PROVE  WellListed(new, kind, l, Full(new, visited, p, r, kind, l))
  <2>1. Full(new, visited, p, r, kind, l) = Full(st, visited, p, r, kind, l)
    BY <1>3, WatchingFrame DEF Full
  <2> QED BY <1>1, <1>3, <2>1, WatchingFrame
<1> QED BY <1>1, <1>3, <1>4, <1>6, <1>7, <1>8, <1>9 DEF Midway

LEMMA EnqueueMidway ==
  ASSUME NEW st, NEW M, NEW visited, NEW p, NEW r, Midway(st, M, visited, p, r), st.confl = NoRef,
         NEW q \in Lits, Value(st, q) = Undef, NEW from \in Live(st), Unit(st, st.db[from], q),
         NEW new, new = UncheckedEnqueue(st, q, from)
  PROVE  Midway(new, M, visited, p, r) /\ Advances(st, new)
<1>1. /\ st \in Solver /\ Core(st, M) /\ Stored(st) /\ OnTrail(st) /\ st.dirty = {}
      /\ p \in Lits /\ Value(st, p) = True /\ Level(st, p) = DecisionLevel(st)
      /\ r \in Seq(Watchers)
      /\ \A kind \in Kinds : \A l \in Lits : WellListed(st, kind, l, Full(st, visited, p, r, kind, l))
  BY MidwayFacts
<1>2. from \in Nat
  BY <1>1, ClauseFacts DEF Live
<1>3. Core(new, M)
  BY <1>1, <1>2, EnqueueCore
<1>4. /\ \A l \in Lits : Value(st, l) # Undef => Value(new, l) = Value(st, l) /\ Level(new, l) = Level(st, l)
      /\ DecisionLevel(new) = DecisionLevel(st)
      /\ \A v \in Vars : v # Var(q) => new.assigns[v] = st.assigns[v]
  BY <1>1, <1>2, EnqueueFrame
<1>5. /\ SameMemory(st, new) /\ SameLists(st, new) /\ new.confl = st.confl /\ new.qhead = st.qhead
      /\ new.decision = st.decision /\ new.orderHeap = st.orderHeap /\ new.trailLim = st.trailLim
  BY <1>1, <1>2, EnqueueFields
<1>6. st.assigns[Var(q)] = Undef
  BY <1>1, ValueFacts, TrailFacts
<1>7. Advances(st, new)
  BY <1>4, <1>5, <1>6 DEF Advances, SameMemory
<1>8. Value(new, p) = True /\ Level(new, p) = DecisionLevel(new)
  BY <1>4, <1>1, SignsDiffer
<1>9. ASSUME NEW kind \in Kinds, NEW l \in Lits
      PROVE  WellListed(new, kind, l, Full(new, visited, p, r, kind, l))
  <2>1. Full(new, visited, p, r, kind, l) = Full(st, visited, p, r, kind, l)
    BY <1>5, WatchingFrame DEF Full
  <2> QED BY <1>1, <1>5, <2>1, WatchingFrame
<1>10. new.dirty = {}
  BY <1>5, <1>1 DEF SameLists
<1> QED BY <1>1, <1>3, <1>5, <1>7, <1>8, <1>9, <1>10 DEF Midway

LEMMA WatcherFacts ==
  ASSUME NEW w \in Watchers, NEW b \in Lits
  PROVE  Watcher(w.cref, b) \in Watchers /\ SameCref(w, Watcher(w.cref, b)) /\ Watcher(w.cref, b).blocker = b
         /\ Watcher(w.cref, b).cref = w.cref
BY DEF Watcher, Watchers, SameCref

LEMMA VisitStep ==
  ASSUME NEW st, NEW M, NEW p, NEW w \in Watchers, NEW r \in Seq(Watchers),
         Midway(st, M, "long", p, <<w>> \o r), st.confl = NoRef,
         NEW c, c = st.db[w.cref], c[2] = -p, Len(c) > 2,
         NEW k, k = FirstNonFalse(st, c, 3),
         NEW new, new = Visit(st, p, w, c, k)
  PROVE  Midway(new, M, "long", p, r) /\ Advances(st, new)
<1> DEFINE w2 == Watcher(w.cref, c[1])
           stays == Keep(st, p, w2)
<1>1. /\ st \in Solver /\ Core(st, M) /\ Stored(st) /\ OnTrail(st) /\ p \in Lits
      /\ Value(st, -p) = False
  BY MidwayFacts
<1>2. w.cref \in Live(st) /\ w.cref \in DOMAIN st.db /\ <<"long", p>> \in Lists(st, w.cref)
  BY FirstListed DEF Kinds
<1>3. /\ c \in Seq(Lits) /\ Len(c) \in Nat /\ DOMAIN c = 1 .. Len(c)
      /\ 1 \in DOMAIN c /\ \A i \in DOMAIN c : c[i] \in Lits
  BY <1>1, <1>2, ClauseFacts
<1>4. /\ c[1] \in Lits /\ c[1] \in ToSet(c) /\ -p \in ToSet(c)
      /\ \A q : q \in ToSet(c) <=> \E i \in DOMAIN c : c[i] = q
  <2>1. \A q : q \in ToSet(c) <=> \E i \in DOMAIN c : c[i] = q
    BY SMTT(30), <1>3, SeqFacts
  <2>2. 2 \in DOMAIN c
    BY <1>3
  <2> QED BY <1>3, <2>1, <2>2
<1>5. w2 \in Watchers /\ SameCref(w, w2) /\ w2.blocker \in ToSet(c)
  BY <1>4, WatcherFacts
<1> HIDE DEF w2
<1>6. Value(st, c[1]) \in Values
  BY <1>1, <1>4, ValueFacts, TrailFacts
<1>7. /\ Midway(stays, M, "long", p, r) /\ SameRest(st, stays) /\ SameMemory(st, stays)
      /\ Advances(st, stays) /\ stays.db = st.db /\ stays.confl = NoRef /\ stays.deleted = st.deleted
  <2>1. Midway(stays, M, "long", p, r) /\ SameRest(st, stays) /\ SameMemory(st, stays)
    BY <1>5, KeepStep
  <2>2. stays.db = st.db /\ stays.deleted = st.deleted
    BY <2>1 DEF SameMemory
  <2> QED BY <2>1, <2>2, SameRestAdvances, SameRestFacts
<1>8. \A l : Value(stays, l) = Value(st, l)
  BY <1>7, SameRestFacts
<1>20. stays.trail = st.trail
  BY <1>7, SameRestFacts
<1> HIDE DEF stays
<1>9. CASE Value(st, c[1]) = True
  <2>1. new = stays
    BY <1>9 DEF Visit, stays, w2
  <2> QED BY <2>1, <1>7
<1>10. CASE Value(st, c[1]) # True /\ k # 0
  <2>1. new = MovedTo(st, w.cref, Swapped(c, 2, k), -c[k], w2)
    BY <1>10 DEF Visit, w2, MovedTo
  <2>2. k \in 3 .. Len(c)
    BY <1>3, <1>10, FirstNonFalseFacts
  <2> QED BY <2>1, <2>2, <1>5, MoveStep
<1>11. CASE Value(st, c[1]) # True /\ k = 0
  <2>1. \A i \in DOMAIN c : i # 1 => Value(st, c[i]) = False
    <3>1. \A i \in 3 .. Len(c) : Value(st, c[i]) = False
      BY <1>3, <1>11, FirstNonFalseFacts
    <3> QED BY <3>1, <1>1, <1>3
  <2>2. CASE Value(st, c[1]) = False
    <3>1. new = [stays EXCEPT !.confl = w.cref, !.qhead = Len(stays.trail)]
      BY <1>11, <2>2, <1>20 DEF Visit, stays, w2
    <3>2. \A q \in ToSet(stays.db[w.cref]) : Value(stays, q) = False
      BY <1>4, <1>7, <1>8, <2>1, <2>2
    <3>3. w.cref \in DOMAIN stays.db /\ -p \in ToSet(stays.db[w.cref])
      BY <1>2, <1>4, <1>7
    <3>4. Midway(new, M, "long", p, r) /\ Advances(stays, new)
      BY <3>1, <3>2, <3>3, <1>7, ConflictMidway
    <3> QED BY <3>4, <1>7, AdvancesTransitive
  <2>3. CASE Value(st, c[1]) = Undef
    <3>1. new = UncheckedEnqueue(stays, c[1], w.cref)
      BY <1>11, <2>3, SignsDiffer DEF Visit, stays, w2
    <3>2. Unit(stays, stays.db[w.cref], c[1])
      BY <1>7, <1>8, <2>1 DEF Unit
    <3>3. w.cref \in Live(stays) /\ Value(stays, c[1]) = Undef
      BY <1>2, <1>7, <1>8, <2>3 DEF Live
    <3>4. Midway(new, M, "long", p, r) /\ Advances(stays, new)
      BY <3>1, <3>2, <3>3, <1>4, <1>7, EnqueueMidway
    <3> QED BY <3>4, <1>7, AdvancesTransitive
  <2> QED BY <1>6, <1>11, <2>2, <2>3 DEF Values
<1> QED BY <1>9, <1>10, <1>11

\* One watcher of the list of p.
LEMMA WatcherStep ==
  ASSUME NEW st, NEW M, NEW p, NEW w \in Watchers, NEW r \in Seq(Watchers),
         Midway(st, M, "long", p, <<w>> \o r),
         NEW new, new = PropagateWatcher(st, p, w)
  PROVE  Midway(new, M, "long", p, r) /\ Advances(st, new)
<1>1. /\ w.cref \in Live(st) /\ <<"long", p>> \in Lists(st, w.cref)
      /\ w.blocker \in ToSet(st.db[w.cref])
  BY FirstListed DEF Kinds
<1>2. CASE st.confl # NoRef \/ Value(st, w.blocker) = True
  <2>1. new = Keep(st, p, w) /\ SameCref(w, w)
    BY <1>2 DEF PropagateWatcher, SameCref
  <2>2. Midway(new, M, "long", p, r) /\ SameRest(st, new) /\ SameMemory(st, new)
    BY <1>1, <2>1, KeepStep
  <2> QED BY <2>2, SameRestAdvances DEF SameMemory
<1>3. CASE ~(st.confl # NoRef \/ Value(st, w.blocker) = True)
  <2> DEFINE st1 == Normalized(st, p, w.cref)
             c == st1.db[w.cref]
  <2>1. new = Visit(st1, p, w, c, FirstNonFalse(st1, c, 3))
    BY <1>3 DEF PropagateWatcher, Normalized
  <2>2. /\ Midway(st1, M, "long", p, <<w>> \o r) /\ SameRest(st, st1)
        /\ Len(st1.db) = Len(st.db) /\ c[2] = -p /\ Len(c) > 2
    <3> DEFINE rest == <<w>> \o r
               cr == w.cref
    <3>1. Midway(st, M, "long", p, rest) /\ cr \in Live(st) /\ <<"long", p>> \in Lists(st, cr)
      BY <1>1
    <3>2. st1 = Normalized(st, p, cr)
      OBVIOUS
    <3> HIDE DEF rest, cr, st1
    <3>3. /\ Midway(st1, M, "long", p, rest) /\ SameRest(st, st1)
          /\ Len(st1.db) = Len(st.db) /\ st1.db[cr][2] = -p /\ Len(st1.db[cr]) > 2
      BY ONLY <3>1, <3>2, NormalizeStep
    <3> QED BY <3>3 DEF rest, cr
  <2>3. st1.confl = NoRef /\ Advances(st, st1)
    BY <2>2, <1>3, SameRestFacts, SameRestAdvances
  <2> HIDE DEF st1
  <2>4. Midway(new, M, "long", p, r) /\ Advances(st1, new)
    BY <2>1, <2>2, <2>3, VisitStep
  <2> QED BY <2>3, <2>4, AdvancesTransitive
<1> QED BY <1>2, <1>3

-----------------------------------------------------------------------------
(* The folds over the watchers of a literal.                               *)

LEMMA ConcatEmpty ==
  ASSUME NEW a \in Seq(Watchers)
  PROVE  a \o << >> = a /\ << >> \o a = a /\ << >> \in Seq(Watchers)
OBVIOUS

\* The list of p is emptied, to be built anew.
LEMMA VisitStarts ==
  ASSUME NEW st, NEW M, NEW p, Midway(st, M, "none", p, << >>), NEW visited \in {"long", "unary"},
         NEW new, new \in Solver, SameRest(st, new), SameMemory(st, new),
         OnlyList(st, new, visited, p), ListOf(new, visited, p) = << >>
  PROVE  Midway(new, M, visited, p, ListOf(st, visited, p)) /\ Advances(st, new)
<1>1. /\ st \in Solver /\ Core(st, M) /\ st.dirty = {} /\ p \in Lits
      /\ Value(st, p) = True /\ Level(st, p) = DecisionLevel(st)
      /\ \A kind \in Kinds : \A l \in Lits : WellListed(st, kind, l, Full(st, "none", p, << >>, kind, l))
      /\ st.confl # NoRef => Conflicting(st)
  BY MidwayFacts
<1>2. Core(new, M)
  BY <1>1, SameMemoryCore
<1>3. /\ new.confl = st.confl /\ new.dirty = {} /\ new.db = st.db
      /\ Value(new, p) = True /\ Level(new, p) = DecisionLevel(new)
  BY <1>1, SameRestFacts DEF SameMemory
<1>4. st.confl # NoRef => Conflicting(new)
  BY <1>1, <1>3, ConflictingFrame
<1>5. ListOf(st, visited, p) \in Seq(Watchers)
  BY <1>1, ListFacts DEF Kinds
<1>6. ASSUME NEW kind \in Kinds, NEW l \in Lits
      PROVE  WellListed(new, kind, l, Full(new, visited, p, ListOf(st, visited, p), kind, l))
  <2>1. Full(st, "none", p, << >>, kind, l) = ListOf(st, kind, l)
    BY DEF Full, Kinds
  <2>2. Full(new, visited, p, ListOf(st, visited, p), kind, l) = ListOf(st, kind, l)
    BY <1>5, ConcatEmpty DEF Full, OnlyList
  <2>3. SameMemory(st, new) /\ new.dirty = st.dirty
    BY <1>1, <1>3
  <2> QED BY <1>1, <2>1, <2>2, <2>3, WellListedFrame
<1>7. Advances(st, new)
  BY <1>3, SameRestAdvances
<1> QED BY <1>1, <1>2, <1>3, <1>4, <1>5, <1>6, <1>7 DEF Midway

LEMMA VisitEnds ==
  ASSUME NEW st, NEW M, NEW p, NEW visited \in {"long", "unary"}, Midway(st, M, visited, p, << >>)
  PROVE  Midway(st, M, "none", p, << >>)
<1>1. /\ st \in Solver /\ Core(st, M) /\ st.dirty = {} /\ p \in Lits
      /\ Value(st, p) = True /\ Level(st, p) = DecisionLevel(st)
      /\ \A kind \in Kinds : \A l \in Lits : WellListed(st, kind, l, Full(st, visited, p, << >>, kind, l))
      /\ st.confl # NoRef => Conflicting(st) /\ << >> \in Seq(Watchers)
  BY MidwayFacts
<1>2. ASSUME NEW kind \in Kinds, NEW l \in Lits
      PROVE  Full(st, visited, p, << >>, kind, l) = Full(st, "none", p, << >>, kind, l)
  <2>1. ListOf(st, kind, l) \in Seq(Watchers)
    BY <1>1, ListFacts
  <2> QED BY <2>1, ConcatEmpty DEF Full, Kinds
<1> QED BY <1>1, <1>2 DEF Midway

EmptyLong(st, p)  == [st EXCEPT !.watches[p] = << >>]
EmptyUnary(st, p) == [st EXCEPT !.unaryWatches[p] = << >>]

LEMMA EmptyFields ==
  ASSUME NEW st \in Solver, NEW p \in Lits
  PROVE  /\ EmptyLong(st, p) \in Solver /\ SameRest(st, EmptyLong(st, p)) /\ SameMemory(st, EmptyLong(st, p))
         /\ OnlyList(st, EmptyLong(st, p), "long", p) /\ ListOf(EmptyLong(st, p), "long", p) = << >>
         /\ EmptyUnary(st, p) \in Solver /\ SameRest(st, EmptyUnary(st, p)) /\ SameMemory(st, EmptyUnary(st, p))
         /\ OnlyList(st, EmptyUnary(st, p), "unary", p) /\ ListOf(EmptyUnary(st, p), "unary", p) = << >>
<1> DEFINE new == EmptyLong(st, p)
           un == EmptyUnary(st, p)
           f == [st.watches EXCEPT ![p] = << >>]
           g == [st.unaryWatches EXCEPT ![p] = << >>]
<1>1. st.watches \in [Lits -> Seq(Watchers)] /\ st.unaryWatches \in [Lits -> Seq(Watchers)]
  BY DEF Solver, WatchLists
<1>2. << >> \in Seq(Watchers)
  OBVIOUS
<1>3. /\ f \in WatchLists /\ f[p] = << >> /\ \A l \in Lits \ {p} : f[l] = st.watches[l]
      /\ g \in WatchLists /\ g[p] = << >> /\ \A l \in Lits \ {p} : g[l] = st.unaryWatches[l]
  BY <1>1, <1>2 DEF WatchLists
<1>4. new = [st EXCEPT !.watches = f] /\ un = [st EXCEPT !.unaryWatches = g]
  BY DEF EmptyLong, EmptyUnary, Solver
<1> HIDE DEF f, g, new, un
<1>5. new \in Solver /\ un \in Solver /\ new.watches = f /\ un.unaryWatches = g
  BY ZenonT(40), <1>3, <1>4 DEF Solver
<1>6. /\ SameRest(st, new) /\ SameMemory(st, new)
      /\ new.watchesBin = st.watchesBin /\ new.unaryWatches = st.unaryWatches
  BY <1>4 DEF Solver, SameRest, SameTrail, SameMemory
<1>7. /\ SameRest(st, un) /\ SameMemory(st, un)
      /\ un.watchesBin = st.watchesBin /\ un.watches = st.watches
  BY <1>4 DEF Solver, SameRest, SameTrail, SameMemory
<1>8. OnlyList(st, new, "long", p) /\ ListOf(new, "long", p) = << >>
  BY <1>3, <1>5, <1>6, KindFacts DEF OnlyList, Kinds
<1>9. OnlyList(st, un, "unary", p) /\ ListOf(un, "unary", p) = << >>
  BY <1>3, <1>5, <1>7, KindFacts DEF OnlyList, Kinds
<1> QED BY <1>5, <1>6, <1>7, <1>8, <1>9 DEF new, un

\* What the propagation of p may lead to.
Propagates(st, M, p) == {x \in Solver : Midway(x, M, "none", p, << >>) /\ Advances(st, x)}

\* The long clauses watching p.
LEMMA LongPhase ==
  ASSUME NEW st, NEW M, NEW p, Midway(st, M, "none", p, << >>)
  PROVE  LongFolded(p, EmptyLong(st, p), st.watches[p]) \in Propagates(st, M, p)
<1> DEFINE base == EmptyLong(st, p)
           ws == st.watches[p]
           n == Len(ws)
           G == [k \in 0 .. n |-> {x \in Solver : Midway(x, M, "long", p, RestFrom(ws, k)) /\ Advances(st, x)}]
<1>1. st \in Solver /\ p \in Lits
  BY MidwayFacts
<1>2. ws \in Seq(Watchers) /\ ws = ListOf(st, "long", p)
  BY <1>1, ListFacts, KindFacts DEF Kinds
<1>3. n \in Nat /\ DOMAIN ws = 1 .. n /\ \A k \in 1 .. n : ws[k] \in Watchers
  BY <1>2, SeqFacts
<1>4. base \in Solver /\ Midway(base, M, "long", p, ws) /\ Advances(st, base)
  <2>1. /\ base \in Solver /\ SameRest(st, base) /\ SameMemory(st, base)
        /\ OnlyList(st, base, "long", p) /\ ListOf(base, "long", p) = << >>
    BY <1>1, EmptyFields
  <2> HIDE DEF base, ws
  <2> QED BY <2>1, <1>2, VisitStarts
<1> HIDE DEF base, ws, n
<1>5. base \in G[0]
  <2>1. RestFrom(ws, 0) = ws
    BY <1>2, ListRest
  <2> QED BY <2>1, <1>3, <1>4
<1>6. ASSUME NEW k \in 1 .. n, NEW x \in G[k - 1]
      PROVE  PropagateWatcher(x, p, ws[k]) \in G[k]
  <2>1. k - 1 \in 0 .. n /\ k \in 0 .. n
    BY <1>3
  <2>2. x \in Solver /\ Midway(x, M, "long", p, RestFrom(ws, k - 1)) /\ Advances(st, x)
    BY <1>6, <2>1
  <2>3. RestFrom(ws, k) \in Seq(Watchers) /\ RestFrom(ws, k - 1) = <<ws[k]>> \o RestFrom(ws, k)
    BY <1>2, ListRest DEF n
  <2> DEFINE y == PropagateWatcher(x, p, ws[k])
             r == RestFrom(ws, k)
             w == ws[k]
  <2>4. w \in Watchers /\ r \in Seq(Watchers) /\ Midway(x, M, "long", p, <<w>> \o r)
    BY <1>3, <2>2, <2>3
  <2>5. y = PropagateWatcher(x, p, w)
    OBVIOUS
  <2> HIDE DEF y, r, w
  <2>6. Midway(y, M, "long", p, r) /\ Advances(x, y)
    BY ONLY <2>4, <2>5, WatcherStep
  <2>7. Advances(st, y) /\ y \in Solver
    BY <2>2, <2>6, AdvancesTransitive, MidwayFacts
  <2> QED BY <2>1, <2>6, <2>7 DEF y, r
<1>7. G[n] \subseteq Propagates(st, M, p)
  <2>1. RestFrom(ws, n) = << >> /\ n \in 0 .. n
    BY <1>2, <1>3, ListRest DEF n
  <2>2. ASSUME NEW x \in G[n] PROVE x \in Propagates(st, M, p)
    <3>1. x \in Solver /\ Midway(x, M, "long", p, << >>) /\ Advances(st, x)
      BY <2>1, <2>2
    <3> QED BY <3>1, VisitEnds DEF Propagates
  <2> QED BY <2>2
<1>8. LongFolded(p, base, ws) \in G[n]
  <2> HIDE DEF G
  <2>1. \A k \in 1 .. n : \A x \in G[k - 1] : PropagateWatcher(x, p, ws[k]) \in G[k]
    BY <1>6
  <2> QED BY <1>3, <1>5, <2>1, LongFold
<1> QED BY <1>7, <1>8 DEF base, ws

\* The binary clauses watching p.
LEMMA BinaryPhase ==
  ASSUME NEW st, NEW M, NEW p, Midway(st, M, "none", p, << >>),
         NEW new, new = FoldLeft(PropagateBinary, st, st.watchesBin[p])
  PROVE  Midway(new, M, "none", p, << >>) /\ Advances(st, new)
<1> DEFINE ws == st.watchesBin[p]
           n == Len(ws)
           G == [k \in 0 .. n |-> {x \in Solver : Midway(x, M, "none", p, << >>) /\ Advances(st, x)
                                                  /\ SameLists(st, x)}]
<1>1. st \in Solver /\ p \in Lits
  BY MidwayFacts
<1>2. ws \in Seq(Watchers)
  BY <1>1, ListFacts, KindFacts DEF Kinds
<1>3. n \in Nat /\ DOMAIN ws = 1 .. n
  BY <1>2, SeqFacts
<1>5. st \in G[0]
  BY <1>1, <1>3 DEF Advances, SameLists
<1>6. ASSUME NEW k \in 1 .. n, NEW x \in G[k - 1]
      PROVE  PropagateBinary(x, ws[k]) \in G[k]
  <2>1. k - 1 \in 0 .. n /\ k \in 0 .. n
    BY <1>3
  <2>2. x \in Solver /\ Midway(x, M, "none", p, << >>) /\ Advances(st, x) /\ SameLists(st, x)
    BY <1>6, <2>1
  <2>3. ws[k] \in ToSet(x.watchesBin[p])
    <3>1. x.watchesBin = st.watchesBin
      BY <2>2 DEF SameLists
    <3>2. ws[k] \in ToSet(ws)
      BY <1>2, <1>3, SeqFacts
    <3> QED BY <3>1, <3>2
  <2> DEFINE w == ws[k]
             y == PropagateBinary(x, w)
  <2> HIDE DEF ws, n
  <2>4. Midway(y, M, "none", p, << >>) /\ Advances(x, y) /\ SameLists(x, y)
    BY <2>2, <2>3, BinaryStep
  <2>7. Advances(st, y) /\ y \in Solver /\ SameLists(st, y)
    <3>1. Advances(st, y)
      BY <2>2, <2>4, AdvancesTransitive
    <3>2. y \in Solver
      BY <2>4, MidwayFacts
    <3>3. SameLists(st, y)
      BY <2>2, <2>4 DEF SameLists
    <3> QED BY <3>1, <3>2, <3>3
  <2> QED BY <2>1, <2>4, <2>7
<1> HIDE DEF ws, n
<1>7. new \in G[n]
  <2> HIDE DEF G
  <2>2. FoldLeft(PropagateBinary, st, ws) \in G[n]
    BY <1>3, <1>5, <1>6, BinaryFold
  <2> QED BY <2>2 DEF ws
<1> QED BY <1>3, <1>7

-----------------------------------------------------------------------------
(* Attaching a clause.                                                     *)

\* The list is right but for clause cr, which is not in it.
ListedBut(st, cr, kind, l, ws) ==
  /\ ws \in Seq(Watchers) /\ Once(ws)
  /\ cr \notin Crefs(ws)
  /\ Crefs(ws) \ st.deleted = Attached(st, kind, l) \ {cr}
  /\ Crefs(ws) \cap st.deleted # {} => <<kind, l>> \in st.dirty
  /\ \A w \in ToSet(ws) :
       /\ w.blocker \in ToSet(st.db[w.cref])
       /\ kind = "binary" => ToSet(st.db[w.cref]) = {-l, w.blocker}

\* Only the watchers of clause cr differ.
SameButWatches(st, new, cr) ==
  /\ new.db = st.db /\ new.deleted = st.deleted /\ new.dirty = st.dirty
  /\ \A x : x # cr => (x \in new.oneWatched <=> x \in st.oneWatched)

LEMMA AttachedBut ==
  ASSUME NEW st, NEW new, NEW cr, SameButWatches(st, new, cr), NEW kind, NEW l
  PROVE  /\ Attached(new, kind, l) \ {cr} = Attached(st, kind, l) \ {cr}
         /\ cr \in Live(st) => (cr \in Attached(new, kind, l) <=> <<kind, l>> \in Lists(new, cr))
<1>1. \A x : x # cr => Lists(new, x) = Lists(st, x)
  BY DEF SameButWatches, Lists
<1>2. Live(new) = Live(st)
  BY DEF SameButWatches, Live
<1> QED BY <1>1, <1>2 DEF Attached

LEMMA ListedPut ==
  ASSUME NEW st, NEW new, NEW cr, SameButWatches(st, new, cr), cr \in Live(st), NEW kind, NEW l, NEW ws,
         ListedBut(st, cr, kind, l, ws), <<kind, l>> \in Lists(new, cr),
         NEW w \in Watchers, w.cref = cr, w.blocker \in ToSet(st.db[cr]),
         kind = "binary" => ToSet(st.db[cr]) = {-l, w.blocker}
  PROVE  WellListed(new, kind, l, Append(ws, w))
<1> DEFINE b == Append(ws, w)
<1>1. ws \in Seq(Watchers) /\ Once(ws) /\ cr \notin Crefs(ws)
  BY DEF ListedBut
<1>2. ToSet(b) = ToSet(ws) \cup {w} /\ Crefs(b) = Crefs(ws) \cup {cr} /\ Once(b)
  BY <1>1, ListAppend
<1> HIDE DEF b
<1>3. /\ Attached(new, kind, l) \ {cr} = Attached(st, kind, l) \ {cr}
      /\ cr \in Attached(new, kind, l)
  BY AttachedBut
<1>4. new.db = st.db /\ new.deleted = st.deleted /\ new.dirty = st.dirty /\ cr \notin st.deleted
  BY DEF SameButWatches, Live
<1>5. Crefs(b) \ new.deleted = Attached(new, kind, l)
  BY <1>2, <1>3, <1>4 DEF ListedBut
<1>6. Crefs(b) \cap new.deleted # {} => <<kind, l>> \in new.dirty
  BY <1>2, <1>4 DEF ListedBut
<1>7. ASSUME NEW x \in ToSet(b)
      PROVE  /\ x.blocker \in ToSet(new.db[x.cref])
             /\ kind = "binary" => ToSet(new.db[x.cref]) = {-l, x.blocker}
  <2>1. CASE x = w
    BY <2>1, <1>4
  <2>2. CASE x \in ToSet(ws)
    BY <2>2, <1>4 DEF ListedBut
  <2> QED BY <1>2, <2>1, <2>2
<1>8. WellListed(new, kind, l, b)
  BY <1>2, <1>5, <1>6, <1>7 DEF WellListed
<1> QED BY <1>8 DEF b

LEMMA ListedNotPut ==
  ASSUME NEW st, NEW new, NEW cr, SameButWatches(st, new, cr), cr \in Live(st), NEW kind, NEW l, NEW ws,
         ListedBut(st, cr, kind, l, ws), <<kind, l>> \notin Lists(new, cr)
  PROVE  WellListed(new, kind, l, ws)
<1>3. /\ Attached(new, kind, l) \ {cr} = Attached(st, kind, l) \ {cr}
      /\ cr \notin Attached(new, kind, l)
  BY AttachedBut
<1>4. new.db = st.db /\ new.deleted = st.deleted /\ new.dirty = st.dirty /\ cr \notin st.deleted
  BY DEF SameButWatches, Live
<1> QED BY <1>3, <1>4 DEF WellListed, ListedBut

KeepBinary(st, p, w) == [st EXCEPT !.watchesBin[p] = Append(@, w)]

TwoPut(st, p, w, q, v)       == [st EXCEPT !.watches[p] = Append(@, w), !.watches[q] = Append(@, v)]
TwoPutBinary(st, p, w, q, v) == [st EXCEPT !.watchesBin[p] = Append(@, w), !.watchesBin[q] = Append(@, v)]

LEMMA TwoKept ==
  ASSUME NEW st \in Solver, NEW p \in Lits, NEW q \in Lits, p # q, NEW w \in Watchers, NEW v \in Watchers
  PROVE  /\ TwoPut(st, p, w, q, v) = Keep(Keep(st, p, w), q, v)
         /\ TwoPutBinary(st, p, w, q, v) = KeepBinary(KeepBinary(st, p, w), q, v)
<1> DEFINE f1 == [st.watches EXCEPT ![p] = Append(st.watches[p], w)]
           f2 == [f1 EXCEPT ![q] = Append(st.watches[q], v)]
           g1 == [st.watchesBin EXCEPT ![p] = Append(st.watchesBin[p], w)]
           g2 == [g1 EXCEPT ![q] = Append(st.watchesBin[q], v)]
<1>1. /\ [st EXCEPT !.watches[p] = Append(@, w), !.watches[q] = Append(@, v)] = [st EXCEPT !.watches = f2]
      /\ [st EXCEPT !.watchesBin[p] = Append(@, w), !.watchesBin[q] = Append(@, v)] = [st EXCEPT !.watchesBin = g2]
  BY DEF Solver
<1>2. f1[q] = st.watches[q] /\ g1[q] = st.watchesBin[q]
  BY DEF Solver, WatchLists
<1>3. Keep(st, p, w) = [st EXCEPT !.watches = f1] /\ KeepBinary(st, p, w) = [st EXCEPT !.watchesBin = g1]
  BY DEF Keep, KeepBinary, Solver
<1> HIDE DEF f1, g1
<1> DEFINE k == [st EXCEPT !.watches = f1]
           b == [st EXCEPT !.watchesBin = g1]
<1>5. k.watches = f1 /\ b.watchesBin = g1
  BY DEF Solver
<1>6. /\ Keep(k, q, v) = [k EXCEPT !.watches = [f1 EXCEPT ![q] = Append(f1[q], v)]]
      /\ KeepBinary(b, q, v) = [b EXCEPT !.watchesBin = [g1 EXCEPT ![q] = Append(g1[q], v)]]
  BY DEF Keep, KeepBinary, Solver
<1>7. [k EXCEPT !.watches = f2] = [st EXCEPT !.watches = f2] /\ [b EXCEPT !.watchesBin = g2] = [st EXCEPT !.watchesBin = g2]
  <2> HIDE DEF f2, g2
  <2> QED BY DEF Solver
<1>4. /\ Keep(Keep(st, p, w), q, v) = [st EXCEPT !.watches = f2]
      /\ KeepBinary(KeepBinary(st, p, w), q, v) = [st EXCEPT !.watchesBin = g2]
  <2> HIDE DEF k, b
  <2> QED BY <1>2, <1>3, <1>6, <1>7 DEF k, b
<1> QED BY <1>1, <1>4 DEF TwoPut, TwoPutBinary

LEMMA KeepBinaryLists ==
  ASSUME NEW st \in Solver, NEW p \in Lits, NEW w \in Watchers, NEW new, new = KeepBinary(st, p, w)
  PROVE  /\ new \in Solver /\ SameRest(st, new) /\ SameMemory(st, new)
         /\ OnlyList(st, new, "binary", p) /\ PutIn(st, new, "binary", p, w)
<1> DEFINE f == [st.watchesBin EXCEPT ![p] = Append(@, w)]
<1>1. st.watchesBin \in [Lits -> Seq(Watchers)]
  BY DEF Solver, WatchLists
<1>2. Append(st.watchesBin[p], w) \in Seq(Watchers)
  BY <1>1, ListAppend
<1>3. f \in WatchLists /\ f[p] = Append(st.watchesBin[p], w) /\ \A l \in Lits \ {p} : f[l] = st.watchesBin[l]
  BY <1>1, <1>2 DEF WatchLists
<1>4. new = [st EXCEPT !.watchesBin = f]
  BY DEF KeepBinary, Solver
<1> HIDE DEF f
<1>5. new \in Solver /\ new.watchesBin = f
  BY ZenonT(40), <1>3, <1>4 DEF Solver
<1>6. /\ SameRest(st, new) /\ SameMemory(st, new)
      /\ new.watches = st.watches /\ new.unaryWatches = st.unaryWatches
  BY <1>4 DEF Solver, SameRest, SameTrail, SameMemory
<1>7. OnlyList(st, new, "binary", p) /\ PutIn(st, new, "binary", p, w)
  BY SMTT(30), <1>3, <1>5, <1>6, KindFacts DEF OnlyList, Kinds, PutIn
<1> QED BY <1>5, <1>6, <1>7

LEMMA SameRestTransitive ==
  ASSUME NEW a, NEW b, NEW c, SameRest(a, b), SameRest(b, c)
  PROVE  SameRest(a, c)
BY DEF SameRest, SameTrail

LEMMA SameMemoryTransitive ==
  ASSUME NEW a, NEW b, NEW c, SameMemory(a, b), SameMemory(b, c)
  PROVE  SameMemory(a, c)
BY DEF SameMemory

\* The kind of the lists a clause of search is in.
KindOf(c) == IF Len(c) = 2 THEN "binary" ELSE "long"

LEMMA AttachFields ==
  ASSUME NEW st \in Solver, NEW cr \in DOMAIN st.db, NEW c, c = st.db[cr], DistinctVars(c),
         NEW new, new = AttachClause(st, cr)
  PROVE  /\ new \in Solver /\ SameRest(st, new) /\ SameMemory(st, new)
         /\ c[1] \in Lits /\ c[2] \in Lits /\ -c[1] \in Lits /\ -c[2] \in Lits /\ -c[1] # -c[2]
         /\ PutIn(st, new, KindOf(c), -c[1], Watcher(cr, c[2]))
         /\ PutIn(st, new, KindOf(c), -c[2], Watcher(cr, c[1]))
         /\ \A k \in Kinds : \A l \in Lits : k # KindOf(c) \/ l \notin {-c[1], -c[2]} =>
              ListOf(new, k, l) = ListOf(st, k, l)
<1> DEFINE l1 == -c[1]
           l2 == -c[2]
           w1 == Watcher(cr, c[2])
           w2 == Watcher(cr, c[1])
<1>1. /\ c[1] \in Lits /\ c[2] \in Lits /\ l1 \in Lits /\ l2 \in Lits /\ l1 # l2 /\ cr \in Nat
  <2>1. c[1] \in Lits /\ c[2] \in Lits /\ 1 \in DOMAIN c /\ 2 \in DOMAIN c /\ cr \in Nat
    BY ClauseFacts
  <2>2. Var(c[1]) # Var(c[2])
    BY <2>1 DEF DistinctVars
  <2>3. l1 \in Lits /\ l2 \in Lits /\ Var(l1) = Var(c[1]) /\ Var(l2) = Var(c[2])
    BY <2>1, LitFacts
  <2> QED BY <2>1, <2>2, <2>3
<1>2. w1 \in Watchers /\ w2 \in Watchers
  BY <1>1 DEF Watcher, Watchers
<1>3. CASE Len(c) = 2
  <2> DEFINE mid == KeepBinary(st, l1, w1)
  <2>1. new = KeepBinary(mid, l2, w2)
    <3>1. new = TwoPutBinary(st, l1, w1, l2, w2)
      BY <1>3, Zenon DEF AttachClause, TwoPut, TwoPutBinary
    <3> HIDE DEF l1, l2, w1, w2
    <3> QED BY <1>1, <1>2, <3>1, TwoKept
  <2>2. /\ mid \in Solver /\ SameRest(st, mid) /\ SameMemory(st, mid)
        /\ OnlyList(st, mid, "binary", l1) /\ PutIn(st, mid, "binary", l1, w1)
    BY <1>1, <1>2, KeepBinaryLists
  <2> HIDE DEF mid, w1, w2, l1, l2
  <2>3. /\ new \in Solver /\ SameRest(mid, new) /\ SameMemory(mid, new)
        /\ OnlyList(mid, new, "binary", l2) /\ PutIn(mid, new, "binary", l2, w2)
    BY <1>1, <1>2, <2>1, <2>2, KeepBinaryLists
  <2>4. KindOf(c) = "binary" /\ KindOf(c) \in Kinds
    BY <1>3 DEF KindOf, Kinds
  <2>5. /\ PutIn(st, new, KindOf(c), l1, w1) /\ PutIn(st, new, KindOf(c), l2, w2)
        /\ \A k \in Kinds : \A l \in Lits : k # KindOf(c) \/ l \notin {l1, l2} =>
              ListOf(new, k, l) = ListOf(st, k, l)
    BY <1>1, <2>2, <2>3, <2>4 DEF PutIn, OnlyList
  <2>6. SameRest(st, new) /\ SameMemory(st, new)
    BY <2>2, <2>3, SameRestTransitive, SameMemoryTransitive
  <2> QED BY <1>1, <2>3, <2>5, <2>6 DEF l1, l2, w1, w2
<1>4. CASE Len(c) # 2
  <2> DEFINE mid == Keep(st, l1, w1)
  <2>1. new = Keep(mid, l2, w2)
    <3>1. new = TwoPut(st, l1, w1, l2, w2)
      BY <1>4, Zenon DEF AttachClause, TwoPut, TwoPutBinary
    <3> HIDE DEF l1, l2, w1, w2
    <3> QED BY <1>1, <1>2, <3>1, TwoKept
  <2>2. /\ mid \in Solver /\ SameRest(st, mid) /\ SameMemory(st, mid)
        /\ OnlyList(st, mid, "long", l1) /\ PutIn(st, mid, "long", l1, w1)
    BY <1>1, <1>2, KeepLists
  <2> HIDE DEF mid, w1, w2, l1, l2
  <2>3. /\ new \in Solver /\ SameRest(mid, new) /\ SameMemory(mid, new)
        /\ OnlyList(mid, new, "long", l2) /\ PutIn(mid, new, "long", l2, w2)
    BY <1>1, <1>2, <2>1, <2>2, KeepLists
  <2>4. KindOf(c) = "long" /\ KindOf(c) \in Kinds
    BY <1>4 DEF KindOf, Kinds
  <2>5. /\ PutIn(st, new, KindOf(c), l1, w1) /\ PutIn(st, new, KindOf(c), l2, w2)
        /\ \A k \in Kinds : \A l \in Lits : k # KindOf(c) \/ l \notin {l1, l2} =>
              ListOf(new, k, l) = ListOf(st, k, l)
    BY <1>1, <2>2, <2>3, <2>4 DEF PutIn, OnlyList
  <2>6. SameRest(st, new) /\ SameMemory(st, new)
    BY <2>2, <2>3, SameRestTransitive, SameMemoryTransitive
  <2> QED BY <1>1, <2>3, <2>5, <2>6 DEF l1, l2, w1, w2
<1> QED BY <1>3, <1>4

\* Attaching a clause puts it where it should be.
LEMMA AttachListed ==
  ASSUME NEW st \in Solver, NEW cr \in Live(st), cr \notin st.oneWatched, DistinctVars(st.db[cr]),
         NEW new, new = AttachClause(st, cr), NEW kind \in Kinds, NEW l \in Lits
  PROVE  /\ ListedBut(st, cr, kind, l, ListOf(st, kind, l)) => WellListed(new, kind, l, ListOf(new, kind, l))
         /\ kind = "unary" => /\ ListOf(new, kind, l) = ListOf(st, kind, l)
                              /\ \A ws : ListedBut(st, cr, kind, l, ws) => WellListed(new, kind, l, ws)
<1> DEFINE c == st.db[cr]
<1>1. cr \in DOMAIN st.db
  BY DEF Live
<1>2. /\ new \in Solver /\ SameRest(st, new) /\ SameMemory(st, new)
      /\ c[1] \in Lits /\ c[2] \in Lits /\ -c[1] \in Lits /\ -c[2] \in Lits /\ -c[1] # -c[2]
      /\ PutIn(st, new, KindOf(c), -c[1], Watcher(cr, c[2]))
      /\ PutIn(st, new, KindOf(c), -c[2], Watcher(cr, c[1]))
      /\ \A k \in Kinds : \A q \in Lits : k # KindOf(c) \/ q \notin {-c[1], -c[2]} =>
           ListOf(new, k, q) = ListOf(st, k, q)
  BY <1>1, AttachFields
<1>3. SameButWatches(st, new, cr) /\ new.oneWatched = st.oneWatched /\ new.db = st.db
  BY <1>2 DEF SameButWatches, SameMemory, SameRest
<1>4. Lists(new, cr) = {<<KindOf(c), -c[1]>>, <<KindOf(c), -c[2]>>}
  BY <1>3 DEF Lists, KindOf
<1>5. /\ c[1] \in ToSet(c) /\ c[2] \in ToSet(c) /\ cr \in Nat
      /\ KindOf(c) = "binary" => ToSet(c) = {c[1], c[2]}
  <2>1. c \in Seq(Lits) /\ 1 \in DOMAIN c /\ 2 \in DOMAIN c /\ cr \in Nat
    BY <1>1, ClauseFacts
  <2>2. KindOf(c) = "binary" => Len(c) = 2
    BY DEF KindOf
  <2> QED BY <2>1, <2>2, SeqFacts, TwoLiterals
<1>6. CASE kind = KindOf(c) /\ l = -c[1]
  <2> DEFINE w == Watcher(cr, c[2])
  <2>1. w \in Watchers /\ w.cref = cr /\ w.blocker = c[2]
    BY <1>2, <1>5 DEF Watcher, Watchers
  <2>2. -l = c[1]
    BY <1>2, <1>6, LitFacts
  <2>3. ListOf(new, kind, l) = Append(ListOf(st, kind, l), w)
    BY <1>2, <1>6 DEF PutIn
  <2> HIDE DEF w
  <2>4. ASSUME ListedBut(st, cr, kind, l, ListOf(st, kind, l)) PROVE WellListed(new, kind, l, ListOf(new, kind, l))
    <3>1. w.blocker \in ToSet(st.db[cr]) /\ (kind = "binary" => ToSet(st.db[cr]) = {-l, w.blocker})
      BY <1>5, <1>6, <2>1, <2>2
    <3>2. <<kind, l>> \in Lists(new, cr)
      BY <1>4, <1>6
    <3> HIDE DEF c
    <3>3. WellListed(new, kind, l, Append(ListOf(st, kind, l), w))
      BY <1>3, <2>1, <2>4, <3>1, <3>2, ListedPut
    <3> QED BY <2>3, <3>3
  <2> QED BY <2>4, <1>6 DEF KindOf
<1>7. CASE kind = KindOf(c) /\ l = -c[2]
  <2> DEFINE w == Watcher(cr, c[1])
  <2>1. w \in Watchers /\ w.cref = cr /\ w.blocker = c[1]
    BY <1>2, <1>5 DEF Watcher, Watchers
  <2>2. -l = c[2]
    BY <1>2, <1>7, LitFacts
  <2>3. ListOf(new, kind, l) = Append(ListOf(st, kind, l), w)
    BY <1>2, <1>7 DEF PutIn
  <2> HIDE DEF w
  <2>4. ASSUME ListedBut(st, cr, kind, l, ListOf(st, kind, l)) PROVE WellListed(new, kind, l, ListOf(new, kind, l))
    <3>1. w.blocker \in ToSet(st.db[cr]) /\ (kind = "binary" => ToSet(st.db[cr]) = {-l, w.blocker})
      BY <1>5, <1>7, <2>1, <2>2
    <3>2. <<kind, l>> \in Lists(new, cr)
      BY <1>4, <1>7
    <3> HIDE DEF c
    <3>3. WellListed(new, kind, l, Append(ListOf(st, kind, l), w))
      BY <1>3, <2>1, <2>4, <3>1, <3>2, ListedPut
    <3> QED BY <2>3, <3>3
  <2> QED BY <2>4, <1>7 DEF KindOf
<1>8. CASE kind # KindOf(c) \/ l \notin {-c[1], -c[2]}
  <2>1. ListOf(new, kind, l) = ListOf(st, kind, l) /\ <<kind, l>> \notin Lists(new, cr)
    BY <1>2, <1>4, <1>8
  <2> HIDE DEF c
  <2>2. \A ws : ListedBut(st, cr, kind, l, ws) => WellListed(new, kind, l, ws)
    BY <1>3, <2>1, ListedNotPut
  <2> QED BY <2>1, <2>2
<1> QED BY <1>6, <1>7, <1>8

-----------------------------------------------------------------------------
(* Promotion of a clause of the purgatory.                                 *)

LEMMA MinFacts ==
  ASSUME NEW S, S \subseteq Nat, S # {}
  PROVE  Min(S) \in S /\ \A n \in S : Min(S) <= n
<1>1. PICK m \in S : \A n \in S : m <= n
  BY LeastElement
<1> QED BY <1>1 DEF Min

LEMMA MaxFacts ==
  ASSUME NEW S, S \subseteq Nat, S # {}, NEW b \in Nat, \A x \in S : x <= b
  PROVE  Max(S) \in S /\ \A n \in S : n <= Max(S)
<1> DEFINE B == {y \in Nat : \A x \in S : x <= y}
<1>1. PICK m \in B : \A n \in B : m <= n
  <2>1. b \in B /\ B \subseteq Nat
    OBVIOUS
  <2> HIDE DEF B
  <2> QED BY <2>1, LeastElement
<1>2. m \in S
  <2> SUFFICES ASSUME m \notin S PROVE FALSE
    OBVIOUS
  <2>1. PICK x \in S : TRUE
    OBVIOUS
  <2>2. \A y \in S : y <= m /\ y # m /\ y \in Nat /\ m \in Nat
    BY <1>1
  <2>3. m - 1 \in Nat /\ \A y \in S : y <= m - 1
    BY <2>1, <2>2
  <2>4. m - 1 \in B
    BY <2>3
  <2> QED BY <1>1, <2>2, <2>4
<1>3. \A n \in S : m >= n
  BY <1>1
<1>4. Max(S) \in S /\ \A n \in S : Max(S) >= n
  BY <1>2, <1>3 DEF Max
<1> QED BY <1>4

\* Clause cr is in no list any more, the others are where they were.
OutOfLists(st, cr, new) ==
  \A kind \in Kinds : \A l \in Lits :
    ListOf(new, kind, l) = IF <<kind, l>> \in Lists(st, cr) THEN Without(ListOf(st, kind, l), {cr})
                                                            ELSE ListOf(st, kind, l)

LEMMA DetachedFields ==
  ASSUME NEW st \in Solver, NEW cr, NEW new, new = StrictlyDetached(st, cr)
  PROVE  /\ new \in Solver /\ SameRest(st, new) /\ new.db = st.db
         /\ new.oneWatched = st.oneWatched \ {cr}
         /\ OutOfLists(st, cr, new)
<1> DEFINE item(kind, l) == IF <<kind, l>> \in Lists(st, cr) THEN Without(ListOf(st, kind, l), {cr})
                                                             ELSE ListOf(st, kind, l)
           f == [l \in Lits |-> item("long", l)]
           g == [l \in Lits |-> item("binary", l)]
           h == [l \in Lits |-> item("unary", l)]
           o == st.oneWatched \ {cr}
<1>1. new = [st EXCEPT !.watches = f, !.watchesBin = g, !.unaryWatches = h, !.oneWatched = o]
  BY DEF StrictlyDetached, Solver
<1>2. \A kind \in Kinds : \A l \in Lits : item(kind, l) \in Seq(Watchers)
  BY ListFacts, ListWithout
<1>3. f \in WatchLists /\ g \in WatchLists /\ h \in WatchLists /\ o \in References
  <2>1. o \in References
    BY DEF Solver, References
  <2> HIDE DEF item
  <2>2. f \in WatchLists /\ g \in WatchLists /\ h \in WatchLists
    BY <1>2 DEF WatchLists, Kinds
  <2> QED BY <2>1, <2>2
<1>4. \A l \in Lits : f[l] = item("long", l) /\ g[l] = item("binary", l) /\ h[l] = item("unary", l)
  OBVIOUS
<1> HIDE DEF f, g, h, o
<1>5. new \in Solver
  BY ZenonT(40), <1>1, <1>3 DEF Solver
<1>6. SameRest(st, new) /\ new.db = st.db
  BY <1>1 DEF Solver, SameRest, SameTrail
<1>7. new.watches = f /\ new.watchesBin = g /\ new.unaryWatches = h /\ new.oneWatched = o
  BY <1>1 DEF Solver
<1>8. ASSUME NEW kind \in Kinds, NEW l \in Lits PROVE ListOf(new, kind, l) = item(kind, l)
  <2> HIDE DEF item
  <2> QED BY <1>4, <1>7, KindFacts DEF Kinds
<1>9. OutOfLists(st, cr, new)
  BY <1>8 DEF OutOfLists
<1> QED BY <1>5, <1>6, <1>7, <1>9 DEF o

\* A list from which clause cr was taken.
LEMMA ButListed ==
  ASSUME NEW st, NEW new, NEW cr, OnlyClause(st, new, cr), NEW kind, NEW l, NEW ws, NEW ws2 \in Seq(Watchers),
         WellListed(st, kind, l, ws), st.deleted \subseteq DOMAIN st.db,
         Once(ws2), Crefs(ws2) = Crefs(ws) \ {cr}, ToSet(ws2) \subseteq ToSet(ws)
  PROVE  ListedBut(new, cr, kind, l, ws2)
<1>1. /\ new.deleted = st.deleted /\ new.dirty = st.dirty /\ cr \in Live(st) /\ cr \notin st.deleted
      /\ DOMAIN new.db = DOMAIN st.db /\ \A x \in DOMAIN st.db \ {cr} : new.db[x] = st.db[x]
      /\ \A x \in DOMAIN st.db \ {cr} : x \in new.oneWatched <=> x \in st.oneWatched
      /\ ToSet(new.db[cr]) = ToSet(st.db[cr])
  BY DEF OnlyClause, Live
<1>2. Live(new) = Live(st) /\ Live(st) \subseteq DOMAIN st.db
  BY <1>1 DEF Live
<1>3. \A x \in DOMAIN st.db \ {cr} : Lists(new, x) = Lists(st, x)
  BY <1>1 DEF Lists
<1>4. Attached(new, kind, l) \ {cr} = Attached(st, kind, l) \ {cr}
  BY <1>2, <1>3 DEF Attached
<1>5. Crefs(ws2) \ new.deleted = Attached(new, kind, l) \ {cr}
  BY <1>1, <1>4 DEF WellListed
<1>6. Crefs(ws2) \cap new.deleted # {} => <<kind, l>> \in new.dirty
  BY <1>1 DEF WellListed
<1>7. ASSUME NEW w \in ToSet(ws2)
      PROVE  /\ w.blocker \in ToSet(new.db[w.cref])
             /\ kind = "binary" => ToSet(new.db[w.cref]) = {-l, w.blocker}
  <2>1. /\ w.blocker \in ToSet(st.db[w.cref])
        /\ kind = "binary" => ToSet(st.db[w.cref]) = {-l, w.blocker}
    BY DEF WellListed
  <2>2. w.cref \in DOMAIN st.db
    <3>1. w.cref \in Crefs(ws)
      BY DEF Crefs
    <3>2. Crefs(ws) \subseteq st.deleted \cup Live(st)
      BY DEF WellListed, Attached
    <3> QED BY <3>1, <3>2, <1>2
  <2>3. ToSet(new.db[w.cref]) = ToSet(st.db[w.cref])
    BY <1>1, <2>2
  <2> QED BY <2>1, <2>3
<1> QED BY <1>5, <1>6, <1>7 DEF ListedBut

\* A false clause of the purgatory is promoted.
LEMMA PromoteStep ==
  ASSUME NEW st, NEW M, NEW p, NEW r, Midway(st, M, "unary", p, r),
         NEW cr \in Live(st), <<"unary", p>> \in Lists(st, cr), cr \in Crefs(ListOf(st, "unary", p)),
         \A q \in ToSet(st.db[cr]) : Value(st, q) = False,
         NEW new, new = Promote(st, cr)
  PROVE  Midway(new, M, "unary", p, r) /\ Advances(st, new)
<1> DEFINE c == st.db[cr]
           highest == Max({st.level[Var(c[k])] : k \in 2 .. Len(c)})
           index   == Min({k \in 2 .. Len(c) : st.level[Var(c[k])] = highest})
           d == Swapped(c, 2, index)
           away == StrictlyDetached(st, cr)
           mid == [away EXCEPT !.db[cr] = d]
<1>1. /\ st \in Solver /\ Core(st, M) /\ Stored(st) /\ OnTrail(st) /\ st.dirty = {}
      /\ p \in Lits /\ Value(st, p) = True /\ Level(st, p) = DecisionLevel(st)
      /\ r \in Seq(Watchers) /\ st.deleted \subseteq DOMAIN st.db
      /\ \A kind \in Kinds : \A l \in Lits : WellListed(st, kind, l, Full(st, "unary", p, r, kind, l))
      /\ Levelled(st)
      /\ st.confl # NoRef => Conflicting(st)
  BY MidwayFacts, CoreFacts
<1>2. cr \in DOMAIN st.db /\ cr \in st.oneWatched
  BY ListsFacts DEF Live
<1>3. /\ c \in Clauses /\ c \in Seq(Lits) /\ Len(c) \in Nat /\ Len(c) >= 2 /\ DOMAIN c = 1 .. Len(c)
      /\ \A i \in DOMAIN c : c[i] \in Lits
      /\ DistinctVars(c)
  BY <1>1, <1>2, ClauseFacts DEF Stored
<1>4. index \in 2 .. Len(c)
  <2> DEFINE S == {st.level[Var(c[k])] : k \in 2 .. Len(c)}
             I == {k \in 2 .. Len(c) : st.level[Var(c[k])] = highest}
  <2>1. \A k \in 2 .. Len(c) : st.level[Var(c[k])] \in Nat /\ st.level[Var(c[k])] <= DecisionLevel(st)
    <3> SUFFICES ASSUME NEW k \in 2 .. Len(c)
                 PROVE  st.level[Var(c[k])] \in Nat /\ st.level[Var(c[k])] <= DecisionLevel(st)
      OBVIOUS
    <3>1. k \in DOMAIN c /\ c[k] \in Lits
      BY <1>3
    <3>2. c[k] \in ToSet(c)
      BY <1>3, <3>1, SeqFacts
    <3>3. Value(st, -c[k]) = True /\ -c[k] \in Lits /\ Var(-c[k]) = Var(c[k])
      BY <1>1, <3>1, <3>2, ValueFacts, LitFacts, TrailFacts
    <3>4. PICK j \in DOMAIN st.trail : st.trail[j] = -c[k]
      BY <1>1, <3>3, TrailFacts
    <3>5. Level(st, -c[k]) <= DecisionLevel(st)
      BY <1>1, <3>4 DEF Levelled
    <3>6. Level(st, -c[k]) = st.level[Var(c[k])] /\ Level(st, -c[k]) \in Nat
      BY <1>1, <3>3, TrailFacts DEF Level
    <3> QED BY <3>5, <3>6
  <2>2. S \subseteq Nat /\ S # {} /\ \A x \in S : x <= DecisionLevel(st)
    <3>1. 2 \in 2 .. Len(c)
      BY <1>3
    <3> QED BY <2>1, <3>1
  <2>3. DecisionLevel(st) \in Nat
    BY <1>1, TrailFacts
  <2>4. Max(S) \in S
    <3> HIDE DEF S
    <3> QED BY <2>2, <2>3, MaxFacts
  <2>5. I # {} /\ I \subseteq Nat
    <3>1. highest = Max(S)
      OBVIOUS
    <3>2. PICK k \in 2 .. Len(c) : st.level[Var(c[k])] = highest
      BY <2>4, <3>1
    <3> HIDE DEF highest, S
    <3>3. I \subseteq Nat
      BY <1>3
    <3> QED BY <3>2, <3>3
  <2> HIDE DEF I, highest
  <2>6. Min(I) \in I
    BY <2>5, MinFacts
  <2> QED BY <2>6 DEF I
<1>5. new = AttachClause(mid, cr)
  BY DEF Promote
<1> HIDE DEF index, highest
<1>6. /\ d \in Seq(Lits) /\ Len(d) = Len(c) /\ ToSet(d) = ToSet(c) /\ d[1] = c[1]
      /\ DistinctVars(d) /\ d \in Clauses
  <2>0. 2 \in DOMAIN c /\ index \in DOMAIN c /\ index # 1 /\ 1 \in DOMAIN c
    BY <1>3, <1>4
  <2>1. /\ d \in Seq(Lits) /\ Len(d) = Len(c) /\ ToSet(d) = ToSet(c)
        /\ \A i \in DOMAIN c \ {2, index} : d[i] = c[i]
    <3>1. c \in Seq(Lits) /\ 2 \in DOMAIN c /\ index \in DOMAIN c /\ d = Swapped(c, 2, index)
      BY <1>3, <2>0
    <3> HIDE DEF c, d
    <3>2. /\ Swapped(c, 2, index) \in Seq(Lits) /\ Len(Swapped(c, 2, index)) = Len(c)
          /\ ToSet(Swapped(c, 2, index)) = ToSet(c)
          /\ \A i \in DOMAIN c \ {2, index} : Swapped(c, 2, index)[i] = c[i]
      BY ONLY <3>1, SwappedFacts
    <3> QED BY ONLY <3>1, <3>2
  <2>2. DistinctVars(d)
    BY ONLY <1>3, <2>0, SwappedDistinct DEF d
  <2>3. d[1] = c[1]
    <3>1. 1 \in DOMAIN c \ {2, index}
      BY ONLY <2>0
    <3> QED BY ONLY <2>1, <3>1
  <2>4. d \in Clauses
    <3>1. Len(c) >= 2
      BY <1>3
    <3> HIDE DEF c, d
    <3> QED BY ONLY <2>1, <3>1 DEF Clauses
  <2> QED BY ONLY <2>1, <2>2, <2>3, <2>4
<1> HIDE DEF d, away
<1>7. /\ away \in Solver /\ SameRest(st, away) /\ away.db = st.db
      /\ away.oneWatched = st.oneWatched \ {cr}
      /\ \A kind \in Kinds : \A l \in Lits :
           ListOf(away, kind, l) = IF <<kind, l>> \in Lists(st, cr) THEN Without(ListOf(st, kind, l), {cr})
                                                                   ELSE ListOf(st, kind, l)
  <2>1. away = StrictlyDetached(st, cr)
    BY DEF away
  <2>2. /\ away \in Solver /\ SameRest(st, away) /\ away.db = st.db
        /\ away.oneWatched = st.oneWatched \ {cr} /\ OutOfLists(st, cr, away)
    BY ONLY <1>1, <2>1, DetachedFields
  <2> QED BY ONLY <2>2 DEF OutOfLists
<1>8. /\ mid \in Solver /\ SameRest(away, mid) /\ SameLists(away, mid) /\ mid.oneWatched = away.oneWatched
      /\ DOMAIN mid.db = DOMAIN st.db /\ Len(mid.db) = Len(st.db)
      /\ mid.db[cr] = d /\ \A x \in DOMAIN st.db \ {cr} : mid.db[x] = st.db[x]
  BY <1>2, <1>6, <1>7, ClauseSetFields
<1> HIDE DEF mid
<1>9. SameRest(st, mid)
  BY <1>7, <1>8, SameRestTransitive
<1>10. \A x \in DOMAIN st.db : DistinctVars(mid.db[x]) /\ Reordered(st, st.db[x], mid.db[x])
  BY <1>1, <1>6, <1>8 DEF Stored, Reordered
<1>11. Core(mid, M)
  BY <1>1, <1>7, <1>8, <1>9, <1>10, SameRestCore
<1>12. OnlyClause(st, mid, cr)
  BY <1>6, <1>7, <1>8, <1>9, SameRestFacts DEF OnlyClause
<1>13. \A kind \in Kinds : \A l \in Lits :
           ListOf(mid, kind, l) = IF <<kind, l>> \in Lists(st, cr) THEN Without(ListOf(st, kind, l), {cr})
                                                                  ELSE ListOf(st, kind, l)
  <2>1. \A kind \in Kinds : \A l \in Lits : ListOf(mid, kind, l) = ListOf(away, kind, l)
    BY ONLY <1>8 DEF ListOf, SameLists
  <2> QED BY ONLY <1>7, <2>1
<1>14. ASSUME NEW kind \in Kinds, NEW l \in Lits
       PROVE  ListedBut(mid, cr, kind, l, Full(mid, "unary", p, r, kind, l))
  <2> DEFINE ws == Full(st, "unary", p, r, kind, l)
             ws2 == Full(mid, "unary", p, r, kind, l)
             L == ListOf(st, kind, l)
  <2>1. WellListed(st, kind, l, ws) /\ L \in Seq(Watchers)
    BY <1>1, ListFacts
  <2>2. Once(ws)
    BY <2>1 DEF WellListed
  <2>3. CASE <<kind, l>> \in Lists(st, cr)
    <3>1. kind = "unary" /\ l = p
      <4>1. Lists(st, cr) = {<<"unary", -c[1]>>}
        BY <1>2 DEF Lists
      <4> QED BY <4>1, <2>3
    <3>2. ws = L \o r /\ ws2 = Without(L, {cr}) \o r
      BY <3>1, <1>13, <2>3 DEF Full
    <3>3. cr \in Crefs(L)
      BY <3>1
    <3> DEFINE L2 == Without(L, {cr})
    <3>4. L2 \in Seq(Watchers) /\ ToSet(L2) \subseteq ToSet(L) /\ Crefs(L2) = Crefs(L) \ {cr} /\ (Once(L) => Once(L2))
      BY <2>1, ListWithout
    <3> HIDE DEF ws, ws2, L, L2
    <3>5. ToSet(ws) = ToSet(L) \cup ToSet(r) /\ Crefs(ws) = Crefs(L) \cup Crefs(r)
          /\ Once(L) /\ Once(r) /\ Crefs(L) \cap Crefs(r) = {}
      BY <1>1, <2>1, <2>2, <3>2, ListConcat
    <3>6. ws2 = L2 \o r
      BY <3>2 DEF L2
    <3>7. /\ ws2 \in Seq(Watchers) /\ ToSet(ws2) = ToSet(L2) \cup ToSet(r) /\ Crefs(ws2) = Crefs(L2) \cup Crefs(r)
          /\ Once(ws2)
      BY <1>1, <3>4, <3>5, <3>6, ListConcat
    <3>8. Crefs(ws2) = Crefs(ws) \ {cr} /\ ToSet(ws2) \subseteq ToSet(ws)
      BY <3>3, <3>4, <3>5, <3>7
    <3>9. ListedBut(mid, cr, kind, l, ws2)
      BY <1>1, <1>12, <2>1, <3>7, <3>8, ButListed
    <3> QED BY <3>9 DEF ws2
  <2>4. CASE <<kind, l>> \notin Lists(st, cr)
    <3>1. ws2 = ws
      BY <2>4, <1>13 DEF Full
    <3>2. cr \notin Crefs(ws)
      BY <2>1, <2>4 DEF WellListed, Attached, Live
    <3>3. ws \in Seq(Watchers)
      BY <1>1, <2>1, ListConcat DEF Full
    <3> HIDE DEF ws, ws2
    <3>4. ListedBut(mid, cr, kind, l, ws)
      <4>1. Crefs(ws) = Crefs(ws) \ {cr} /\ ToSet(ws) \subseteq ToSet(ws)
        BY <3>2
      <4> QED BY <1>1, <1>12, <2>1, <2>2, <3>3, <4>1, ButListed
    <3> QED BY <3>1, <3>4 DEF ws2
  <2> QED BY <2>3, <2>4
<1>15. cr \in Live(mid) /\ cr \notin mid.oneWatched /\ DistinctVars(mid.db[cr])
  BY <1>2, <1>6, <1>7, <1>8, <1>12 DEF OnlyClause, Live
<1>16. new \in Solver /\ SameRest(mid, new) /\ SameMemory(mid, new)
  <2>1. cr \in DOMAIN mid.db
    BY <1>2, <1>8
  <2> QED BY <1>5, <1>8, <1>15, <2>1, AttachFields
<1>17. ASSUME NEW kind \in Kinds, NEW l \in Lits
       PROVE  WellListed(new, kind, l, Full(new, "unary", p, r, kind, l))
  <2>1. ListedBut(mid, cr, kind, l, Full(mid, "unary", p, r, kind, l))
    BY <1>14
  <2>2. /\ ListedBut(mid, cr, kind, l, ListOf(mid, kind, l)) => WellListed(new, kind, l, ListOf(new, kind, l))
        /\ kind = "unary" => /\ ListOf(new, kind, l) = ListOf(mid, kind, l)
                             /\ \A ws : ListedBut(mid, cr, kind, l, ws) => WellListed(new, kind, l, ws)
    BY <1>5, <1>8, <1>15, AttachListed
  <2>3. CASE kind = "unary"
    <3>1. Full(new, "unary", p, r, kind, l) = Full(mid, "unary", p, r, kind, l)
      BY <2>2, <2>3 DEF Full
    <3> QED BY <2>1, <2>2, <2>3, <3>1
  <2>4. CASE kind # "unary"
    BY <2>1, <2>2, <2>4 DEF Full
  <2> QED BY <2>3, <2>4
<1>18. Core(new, M)
  BY <1>11, <1>16, SameMemoryCore
<1>19. SameRest(st, new) /\ new.db = mid.db
  BY <1>9, <1>16, SameRestTransitive DEF SameMemory
<1>20. /\ new.confl = st.confl /\ new.dirty = {}
       /\ Value(new, p) = True /\ Level(new, p) = DecisionLevel(new)
  BY <1>1, <1>19, SameRestFacts
<1>21. st.confl # NoRef => Conflicting(new)
  BY <1>1, <1>8, <1>10, <1>19, ConflictingFrame DEF Reordered
<1>22. Advances(st, new)
  BY <1>8, <1>19, SameRestAdvances
<1> QED BY <1>1, <1>17, <1>18, <1>20, <1>21, <1>22 DEF Midway

\* One watcher of the list of p in the purgatory.
LEMMA UnaryStep ==
  ASSUME NEW st, NEW M, NEW p, NEW w \in Watchers, NEW r \in Seq(Watchers),
         Midway(st, M, "unary", p, <<w>> \o r),
         NEW new, new = PropagateUnaryWatcher(st, p, w)
  PROVE  Midway(new, M, "unary", p, r) /\ Advances(st, new)
<1> DEFINE c == st.db[w.cref]
           w2 == Watcher(w.cref, c[1])
           k == FirstNonFalse(st, c, 2)
           kept == KeepUnary(st, p, w2)
           halted == [kept EXCEPT !.confl = w.cref, !.qhead = Len(kept.trail)]
<1>1. /\ w.cref \in Live(st) /\ w.cref \in DOMAIN st.db /\ <<"unary", p>> \in Lists(st, w.cref)
      /\ w.blocker \in ToSet(c) /\ w.cref \in st.oneWatched /\ p = -c[1]
  BY FirstListed, ListsFacts DEF Kinds
<1>2. /\ st \in Solver /\ Core(st, M) /\ Stored(st) /\ OnTrail(st) /\ p \in Lits
      /\ Value(st, -p) = False /\ -p \in Lits
  BY MidwayFacts
<1>3. /\ c \in Seq(Lits) /\ Len(c) \in Nat /\ DOMAIN c = 1 .. Len(c)
      /\ 1 \in DOMAIN c /\ \A i \in DOMAIN c : c[i] \in Lits
  BY <1>1, <1>2, ClauseFacts
<1>4. /\ c[1] \in Lits /\ c[1] \in ToSet(c) /\ c[1] = -p
      /\ \A q : q \in ToSet(c) <=> \E i \in DOMAIN c : c[i] = q
  <2>1. \A q : q \in ToSet(c) <=> \E i \in DOMAIN c : c[i] = q
    BY <1>3, SeqFacts
  <2> QED BY <1>1, <1>3, <2>1, LitFacts
<1>5. w2 \in Watchers /\ SameCref(w, w2) /\ w2.blocker \in ToSet(c) /\ w2.cref = w.cref
  BY <1>4, WatcherFacts
<1>6. CASE st.confl # NoRef \/ Value(st, w.blocker) = True
  <2>1. new = KeepUnary(st, p, w) /\ SameCref(w, w)
    BY <1>6 DEF PropagateUnaryWatcher, SameCref
  <2>2. Midway(new, M, "unary", p, r) /\ SameRest(st, new) /\ SameMemory(st, new)
    BY <1>1, <2>1, KeepUnaryStep
  <2> QED BY <2>2, SameRestAdvances DEF SameMemory
<1>7. CASE ~(st.confl # NoRef \/ Value(st, w.blocker) = True) /\ k # 0
  <2>1. new = MovedUnaryTo(st, w.cref, Swapped(c, 1, k), -c[k], w2)
    BY <1>7 DEF PropagateUnaryWatcher, MovedUnaryTo
  <2>2. k \in 2 .. Len(c)
    BY <1>3, <1>7, FirstNonFalseFacts
  <2>3. c = st.db[w.cref]
    OBVIOUS
  <2> HIDE DEF k, w2, c
  <2> QED BY <2>1, <2>2, <2>3, <1>5, MoveUnaryStep
<1>8. CASE ~(st.confl # NoRef \/ Value(st, w.blocker) = True) /\ k = 0
  <2>1. kept.trail = st.trail /\ Midway(kept, M, "unary", p, r) /\ SameRest(st, kept) /\ SameMemory(st, kept)
    <3> DEFINE cr == w.cref
    <3>1. kept = KeepUnary(st, p, w2) /\ c = st.db[w.cref]
      OBVIOUS
    <3> HIDE DEF kept, w2, c
    <3>2. Midway(kept, M, "unary", p, r) /\ SameRest(st, kept) /\ SameMemory(st, kept)
      BY <3>1, <1>5, KeepUnaryStep
    <3> QED BY <3>2, SameRestFacts
  <2>2. new = Promote(halted, w.cref)
    BY <1>8, <2>1 DEF PropagateUnaryWatcher
  <2>3. \A i \in DOMAIN c : Value(st, c[i]) = False
    <3>1. \A i \in 2 .. Len(c) : Value(st, c[i]) = False
      BY <1>3, <1>8, FirstNonFalseFacts
    <3> QED BY <3>1, <1>2, <1>3, <1>4
  <2>4. w.cref \in Crefs(ListOf(kept, "unary", p))
    <3>1. kept = KeepUnary(st, p, w2)
      OBVIOUS
    <3> HIDE DEF kept, w2
    <3>2. ListOf(kept, "unary", p) = Append(ListOf(st, "unary", p), w2)
      BY <1>2, <1>5, <3>1, KeepUnaryLists DEF PutIn
    <3>3. ListOf(st, "unary", p) \in Seq(Watchers)
      BY <1>2, ListFacts DEF Kinds
    <3>4. ASSUME NEW L \in Seq(Watchers) PROVE w.cref \in Crefs(Append(L, w2))
      <4>1. Crefs(Append(L, w2)) = Crefs(L) \cup {w2.cref}
        BY ONLY <1>5, ListAppend
      <4> QED BY ONLY <4>1, <1>5
    <3> QED BY <3>2, <3>3, <3>4
  <2> HIDE DEF kept
  <2>5. /\ kept.db = st.db /\ kept.deleted = st.deleted /\ kept.oneWatched = st.oneWatched
        /\ \A l : Value(kept, l) = Value(st, l)
        /\ Advances(st, kept)
    <3>1. kept.db = st.db /\ kept.deleted = st.deleted /\ kept.oneWatched = st.oneWatched
      BY <2>1 DEF SameMemory
    <3> QED BY <3>1, <2>1, SameRestFacts, SameRestAdvances
  <2>6. \A q \in ToSet(kept.db[w.cref]) : Value(kept, q) = False
    BY <1>4, <2>3, <2>5
  <2>7. w.cref \in DOMAIN kept.db /\ -p \in ToSet(kept.db[w.cref])
    BY <1>1, <1>4, <2>5
  <2>8. Midway(halted, M, "unary", p, r) /\ Advances(kept, halted)
    BY <2>1, <2>6, <2>7, ConflictMidway
  <2>9. /\ halted.db = kept.db /\ halted.deleted = kept.deleted /\ halted.oneWatched = kept.oneWatched
        /\ halted.unaryWatches = kept.unaryWatches
        /\ halted.assigns = kept.assigns
    <3>1. kept \in Solver
      BY <2>1, MidwayFacts
    <3> QED BY <3>1 DEF Solver
  <2> HIDE DEF halted
  <2>10. w.cref \in Live(halted) /\ <<"unary", p>> \in Lists(halted, w.cref)
    BY <1>1, <2>5, <2>9, ListsFacts DEF Live
  <2>11. w.cref \in Crefs(ListOf(halted, "unary", p))
    BY <2>4, <2>9, KindFacts
  <2>12. \A q \in ToSet(halted.db[w.cref]) : Value(halted, q) = False
    BY <2>6, <2>9 DEF Value
  <2>13. Midway(new, M, "unary", p, r) /\ Advances(halted, new)
    <3> DEFINE cr == w.cref
    <3>1. /\ cr \in Live(halted) /\ <<"unary", p>> \in Lists(halted, cr) /\ cr \in Crefs(ListOf(halted, "unary", p))
          /\ \A q \in ToSet(halted.db[cr]) : Value(halted, q) = False
          /\ new = Promote(halted, cr)
      BY <2>2, <2>10, <2>11, <2>12
    <3> HIDE DEF cr
    <3> QED BY ONLY <3>1, <2>8, PromoteStep
  <2> QED BY <2>5, <2>8, <2>13, AdvancesTransitive
<1> QED BY <1>6, <1>7, <1>8

\* The clauses of the purgatory watching p.
LEMMA UnaryPhase ==
  ASSUME NEW st, NEW M, NEW p, Midway(st, M, "none", p, << >>)
  PROVE  UnaryFolded(p, EmptyUnary(st, p), st.unaryWatches[p]) \in Propagates(st, M, p)
<1> DEFINE base == EmptyUnary(st, p)
           ws == st.unaryWatches[p]
           n == Len(ws)
           G == [k \in 0 .. n |-> {x \in Solver : Midway(x, M, "unary", p, RestFrom(ws, k)) /\ Advances(st, x)}]
<1>1. st \in Solver /\ p \in Lits
  BY MidwayFacts
<1>2. ws \in Seq(Watchers) /\ ws = ListOf(st, "unary", p)
  BY <1>1, ListFacts, KindFacts DEF Kinds
<1>3. n \in Nat /\ DOMAIN ws = 1 .. n /\ \A k \in 1 .. n : ws[k] \in Watchers
  BY <1>2, SeqFacts
<1>4. base \in Solver /\ Midway(base, M, "unary", p, ws) /\ Advances(st, base)
  <2>1. /\ base \in Solver /\ SameRest(st, base) /\ SameMemory(st, base)
        /\ OnlyList(st, base, "unary", p) /\ ListOf(base, "unary", p) = << >>
    BY <1>1, EmptyFields
  <2> HIDE DEF base, ws
  <2> QED BY <2>1, <1>2, VisitStarts
<1> HIDE DEF base, ws, n
<1>5. base \in G[0]
  <2>1. RestFrom(ws, 0) = ws
    BY <1>2, ListRest
  <2> QED BY <2>1, <1>3, <1>4
<1>6. ASSUME NEW k \in 1 .. n, NEW x \in G[k - 1]
      PROVE  PropagateUnaryWatcher(x, p, ws[k]) \in G[k]
  <2>1. k - 1 \in 0 .. n /\ k \in 0 .. n
    BY <1>3
  <2>2. x \in Solver /\ Midway(x, M, "unary", p, RestFrom(ws, k - 1)) /\ Advances(st, x)
    BY <1>6, <2>1
  <2>3. RestFrom(ws, k) \in Seq(Watchers) /\ RestFrom(ws, k - 1) = <<ws[k]>> \o RestFrom(ws, k)
    BY <1>2, ListRest DEF n
  <2> DEFINE y == PropagateUnaryWatcher(x, p, ws[k])
             r == RestFrom(ws, k)
             w == ws[k]
  <2>4. w \in Watchers /\ r \in Seq(Watchers) /\ Midway(x, M, "unary", p, <<w>> \o r)
    BY <1>3, <2>2, <2>3
  <2>5. y = PropagateUnaryWatcher(x, p, w)
    OBVIOUS
  <2> HIDE DEF y, r, w
  <2>6. Midway(y, M, "unary", p, r) /\ Advances(x, y)
    BY ONLY <2>4, <2>5, UnaryStep
  <2>7. Advances(st, y) /\ y \in Solver
    BY <2>2, <2>6, AdvancesTransitive, MidwayFacts
  <2> QED BY <2>1, <2>6, <2>7 DEF y, r
<1>7. G[n] \subseteq Propagates(st, M, p)
  <2>1. RestFrom(ws, n) = << >> /\ n \in 0 .. n
    BY <1>2, <1>3, ListRest DEF n
  <2>2. ASSUME NEW x \in G[n] PROVE x \in Propagates(st, M, p)
    <3>1. x \in Solver /\ Midway(x, M, "unary", p, << >>) /\ Advances(st, x)
      BY <2>1, <2>2
    <3> QED BY <3>1, VisitEnds DEF Propagates
  <2> QED BY <2>2
<1>8. UnaryFolded(p, base, ws) \in G[n]
  <2> HIDE DEF G
  <2>1. \A k \in 1 .. n : \A x \in G[k - 1] : PropagateUnaryWatcher(x, p, ws[k]) \in G[k]
    BY <1>6
  <2> QED BY <1>3, <1>5, <2>1, UnaryFold
<1> QED BY <1>7, <1>8 DEF base, ws

-----------------------------------------------------------------------------
(* propagate: from one literal of the trail to the next.                   *)

\* What propagation leaves alone, from one literal to the next.
Extends(st, new) ==
  /\ new.decision = st.decision /\ new.orderHeap = st.orderHeap /\ new.trailLim = st.trailLim
  /\ new.clauses = st.clauses /\ new.learnts = st.learnts
  /\ new.unaryWatchedClauses = st.unaryWatchedClauses
  /\ \A v \in Vars : st.assigns[v] # Undef => new.assigns[v] = st.assigns[v]

LEMMA AdvancesExtends ==
  ASSUME NEW st, NEW new, Advances(st, new)
  PROVE  Extends(st, new)
BY DEF Advances, Extends

LEMMA ExtendsTransitive ==
  ASSUME NEW a, NEW b, NEW c, Extends(a, b), Extends(b, c)
  PROVE  Extends(a, c)
<1>1. \A v \in Vars : a.assigns[v] # Undef => c.assigns[v] = a.assigns[v]
  BY DEF Extends
<1> QED BY <1>1 DEF Extends

\* The solver between two literals to propagate.
Ready(st, M) ==
  /\ Core(st, M) /\ Watching(st) /\ st.dirty = {}
  /\ st.confl # NoRef => Conflicting(st)

LEMMA ReadyMidway ==
  ASSUME NEW st, NEW M, NEW p
  PROVE  /\ Midway(st, M, "none", p, << >>) => Ready(st, M)
         /\ Ready(st, M) /\ p \in Lits /\ Value(st, p) = True /\ Level(st, p) = DecisionLevel(st)
              => Midway(st, M, "none", p, << >>)
<1>1. \A kind \in Kinds : \A l : Full(st, "none", p, << >>, kind, l) = ListOf(st, kind, l)
  BY DEF Full, Kinds
<1>2. << >> \in Seq(Watchers)
  OBVIOUS
<1>3. (\A kind \in Kinds : \A l \in Lits : WellListed(st, kind, l, Full(st, "none", p, << >>, kind, l)))
      <=> Watching(st)
  BY <1>1 DEF Watching
<1> QED BY <1>2, <1>3 DEF Midway, Ready

\* The next literal is taken off the queue.
LEMMA DequeueStep ==
  ASSUME NEW st, NEW M, Ready(st, M), st.confl = NoRef, st.qhead # Len(st.trail),
         NEW p, p = st.trail[st.qhead + 1],
         NEW new, new = [st EXCEPT !.qhead = @ + 1]
  PROVE  /\ Midway(new, M, "none", p, << >>) /\ Extends(st, new)
         /\ new.confl = NoRef /\ new.qhead = st.qhead + 1
<1>1. /\ st \in Solver /\ Stored(st) /\ OnTrail(st) /\ Levelled(st) /\ Decided(st)
      /\ Reasoned(st) /\ Pending(st) /\ Implied(st, M) /\ Core(st, M) /\ Watching(st)
      /\ st.dirty = {}
  BY CoreFacts DEF Ready
<1>2. /\ Len(st.trail) \in Nat /\ DOMAIN st.trail = 1 .. Len(st.trail)
      /\ \A k \in DOMAIN st.trail : st.trail[k] \in Lits
  BY <1>1, TrailFacts
<1>3. st.qhead \in Nat /\ st.qhead + 1 \in DOMAIN st.trail
  <2>1. st.qhead \in Nat
    BY <1>1 DEF Solver
  <2>2. st.qhead <= Len(st.trail)
    BY <1>1 DEF Pending
  <2> QED BY <2>1, <2>2, <1>2
<1>4. p \in Lits /\ Value(st, p) = True
  BY <1>1, <1>2, <1>3 DEF OnTrail
<1>5. Level(st, p) = DecisionLevel(st)
  <2>1. st.qhead + 1 \in st.qhead + 1 .. Len(st.trail)
    BY <1>2, <1>3
  <2> QED BY <2>1, <1>1 DEF Pending
<1>6. new \in Solver
  <2>1. st.qhead + 1 \in Nat
    BY <1>3
  <2> QED BY <2>1, <1>1 DEF Solver
<1>7. /\ new.qhead = st.qhead + 1 /\ new.confl = NoRef
      /\ SameTrail(st, new) /\ SameMemory(st, new) /\ SameLists(st, new) /\ new.dirty = {}
      /\ new.decision = st.decision /\ new.orderHeap = st.orderHeap
  BY <1>1 DEF Solver, SameTrail, SameMemory, SameLists
<1> HIDE DEF Midway
<1>8. Core(new, M)
  <2>1. Stored(new)
    <3>1. Live(new) = Live(st)
      BY <1>7 DEF Live, SameMemory
    <3> QED BY <3>1, <1>1, <1>7 DEF Stored, SameMemory
  <2>2. \A cr \in DOMAIN st.db : cr \in DOMAIN new.db /\ Reordered(st, st.db[cr], new.db[cr])
    BY <1>7 DEF SameMemory, Reordered
  <2>3. new.deleted = st.deleted /\ DOMAIN new.db = DOMAIN st.db
    BY <1>7 DEF SameMemory
  <2>4. st.qhead <= new.qhead /\ new.qhead <= Len(st.trail)
    BY <1>2, <1>3, <1>7
  <2> QED BY <1>1, <1>6, <1>7, <2>1, <2>2, <2>3, <2>4, MemoryCore
<1>9. Watching(new)
  BY <1>1, <1>7, WatchingFrame
<1>10. Value(new, p) = True /\ Level(new, p) = DecisionLevel(new)
  BY <1>4, <1>5, <1>7, TrailFrame
<1>11. Midway(new, M, "none", p, << >>)
  BY <1>4, <1>7, <1>8, <1>9, <1>10, ReadyMidway DEF Ready
<1>12. Extends(st, new)
  BY <1>7 DEF Extends, SameMemory, SameTrail
<1> QED BY <1>7, <1>11, <1>12

\* All the clauses watching the next literal.
LEMMA NextStep ==
  ASSUME NEW st, NEW M, Ready(st, M), st.confl = NoRef, st.qhead # Len(st.trail),
         NEW new, new = PropagateNext(st, st.trail[st.qhead + 1])
  PROVE  /\ Ready(new, M) /\ Extends(st, new)
         /\ new.confl = NoRef => new.qhead = st.qhead + 1
<1> DEFINE p == st.trail[st.qhead + 1]
           a == [st EXCEPT !.qhead = @ + 1]
           b == FoldLeft(PropagateBinary, a, a.watchesBin[p])
           c == IF b.confl # NoRef THEN b ELSE LongFolded(p, EmptyLong(b, p), b.watches[p])
           d == IF c.confl # NoRef THEN c ELSE UnaryFolded(p, EmptyUnary(c, p), c.unaryWatches[p])
<1>1. new = d
  BY DEF PropagateNext, LongFolded, UnaryFolded, EmptyLong, EmptyUnary
<1>2. /\ Midway(a, M, "none", p, << >>) /\ Extends(st, a)
      /\ a.confl = NoRef /\ a.qhead = st.qhead + 1
  BY DequeueStep
<1> HIDE DEF p, a
<1>3. Midway(b, M, "none", p, << >>) /\ Advances(a, b)
  BY <1>2, BinaryPhase
<1> HIDE DEF b
<1>4. Midway(c, M, "none", p, << >>) /\ Advances(b, c)
  <2>1. CASE b.confl # NoRef
    <3>1. c = b
      BY <2>1
    <3>2. Advances(b, b)
      BY DEF Advances
    <3> QED BY <3>1, <3>2, <1>3
  <2>2. CASE b.confl = NoRef
    <3>1. c \in Propagates(b, M, p)
      BY <1>3, <2>2, LongPhase
    <3> HIDE DEF c
    <3> QED BY <3>1 DEF Propagates
  <2> QED BY <2>1, <2>2
<1> HIDE DEF c
<1>5. Midway(d, M, "none", p, << >>) /\ Advances(c, d)
  <2>1. CASE c.confl # NoRef
    <3>1. d = c
      BY <2>1
    <3>2. Advances(c, c)
      BY DEF Advances
    <3> QED BY <3>1, <3>2, <1>4
  <2>2. CASE c.confl = NoRef
    <3>1. d \in Propagates(c, M, p)
      BY <1>4, <2>2, UnaryPhase
    <3> HIDE DEF d
    <3> QED BY <3>1 DEF Propagates
  <2> QED BY <2>1, <2>2
<1> HIDE DEF d
<1>6. Advances(a, d)
  BY <1>3, <1>4, <1>5, AdvancesTransitive
<1>7. Ready(d, M) /\ Extends(st, d)
  BY <1>2, <1>5, <1>6, AdvancesExtends, ExtendsTransitive, ReadyMidway
<1>8. d.confl = NoRef => d.qhead = st.qhead + 1
  BY <1>2, <1>6 DEF Advances
<1> QED BY <1>1, <1>7, <1>8

\* A trail holds every variable at most once.
LEMMA TrailLength ==
  ASSUME NEW st \in Solver, OnTrail(st)
  PROVE  Len(st.trail) <= NbVars
<1> DEFINE n == Len(st.trail)
           f == [k \in 1 .. n |-> Var(st.trail[k])]
<1>1. n \in Nat /\ DOMAIN st.trail = 1 .. n /\ \A k \in DOMAIN st.trail : st.trail[k] \in Lits
  BY TrailFacts
<1>2. f \in Injection(1 .. n, Vars)
  <2>1. \A k \in 1 .. n : f[k] \in Vars
    BY <1>1, LitFacts
  <2>2. \A j, k \in 1 .. n : f[j] = f[k] => j = k
    BY <1>1 DEF OnTrail
  <2>3. f \in [1 .. n -> Vars]
    BY <2>1
  <2> HIDE DEF f
  <2> QED BY <2>2, <2>3 DEF Injection, IsInjective
<1>3. IsFiniteSet(Vars) /\ Cardinality(Vars) = NbVars
  BY NbVarsAssumption, FS_Interval DEF Vars
<1>4. Cardinality(1 .. n) = n
  BY <1>1, FS_Interval
<1>5. Cardinality(1 .. n) <= Cardinality(Vars)
  BY <1>2, <1>3, FS_Injection
<1> QED BY <1>3, <1>4, <1>5

\* What differs when the lists are cleaned.
Cleans(st, new) ==
  /\ SameMemory(st, new) /\ SameTrail(st, new) /\ new.dirty = {}
  /\ new.decision = st.decision /\ new.orderHeap = st.orderHeap
  /\ new.confl = st.confl /\ new.qhead = st.qhead

LEMMA CleanAllFields ==
  ASSUME NEW st \in Solver, NEW new, new = CleanAll(st)
  PROVE  /\ new \in Solver /\ Cleans(st, new)
         /\ \A kind \in Kinds : \A l \in Lits :
              ListOf(new, kind, l) = IF <<kind, l>> \in st.dirty THEN Without(ListOf(st, kind, l), st.deleted)
                                                                ELSE ListOf(st, kind, l)
<1> DEFINE item(kind, l) == IF <<kind, l>> \in st.dirty THEN Without(ListOf(st, kind, l), st.deleted)
                                                        ELSE ListOf(st, kind, l)
           f == [l \in Lits |-> item("long", l)]
           g == [l \in Lits |-> item("binary", l)]
           h == [l \in Lits |-> item("unary", l)]
<1>0. CASE st.dirty = {}
  <2>1. new = st
    BY <1>0 DEF CleanAll
  <2> QED BY <2>1, <1>0 DEF Cleans, SameMemory, SameTrail
<1>a. CASE st.dirty # {}
  <2>1. new = [st EXCEPT !.watches = f, !.watchesBin = g, !.unaryWatches = h, !.dirty = {}]
    BY <1>a DEF CleanAll, Solver
  <2>2. \A kind \in Kinds : \A l \in Lits : item(kind, l) \in Seq(Watchers)
    BY ListFacts, ListWithout
  <2>3. f \in WatchLists /\ g \in WatchLists /\ h \in WatchLists
    <3> HIDE DEF item
    <3> QED BY <2>2 DEF WatchLists, Kinds
  <2>4. \A l \in Lits : f[l] = item("long", l) /\ g[l] = item("binary", l) /\ h[l] = item("unary", l)
    OBVIOUS
  <2> HIDE DEF f, g, h
  <2>5. new \in Solver
    BY ZenonT(40), <2>1, <2>3 DEF Solver
  <2>6. Cleans(st, new)
    BY <2>1 DEF Solver, Cleans, SameTrail, SameMemory
  <2>7. new.watches = f /\ new.watchesBin = g /\ new.unaryWatches = h
    BY <2>1 DEF Solver
  <2>8. ASSUME NEW kind \in Kinds, NEW l \in Lits PROVE ListOf(new, kind, l) = item(kind, l)
    <3> HIDE DEF item
    <3> QED BY <2>4, <2>7, KindFacts DEF Kinds
  <2> QED BY <2>5, <2>6, <2>8
<1> QED BY <1>0, <1>a

\* The lists are cleaned.
LEMMA CleanAllStep ==
  ASSUME NEW st, NEW M, Sound(st, M), NEW new, new = CleanAll(st)
  PROVE  Sound(new, M) /\ Cleans(st, new)
<1>1. Core(st, M) /\ Watching(st) /\ st \in Solver /\ Stored(st) /\ Pending(st)
  BY CoreFacts DEF Sound
<1>2. /\ new \in Solver /\ Cleans(st, new)
      /\ \A kind \in Kinds : \A l \in Lits :
              ListOf(new, kind, l) = IF <<kind, l>> \in st.dirty THEN Without(ListOf(st, kind, l), st.deleted)
                                                                ELSE ListOf(st, kind, l)
  BY <1>1, CleanAllFields
<1>3. SameMemory(st, new) /\ SameTrail(st, new) /\ new.dirty = {} /\ new.confl = st.confl /\ new.qhead = st.qhead
  BY <1>2 DEF Cleans
<1>4. Core(new, M)
  <2>1. Stored(new)
    <3>1. Live(new) = Live(st)
      BY <1>3 DEF Live, SameMemory
    <3> QED BY <3>1, <1>1, <1>3 DEF Stored, SameMemory
  <2>2. \A cr \in DOMAIN st.db : cr \in DOMAIN new.db /\ Reordered(st, st.db[cr], new.db[cr])
    BY <1>3 DEF SameMemory, Reordered
  <2>3. new.deleted = st.deleted /\ DOMAIN new.db = DOMAIN st.db
    BY <1>3 DEF SameMemory
  <2>4. st.qhead <= new.qhead /\ new.qhead <= Len(st.trail)
    <3>1. st.qhead \in Nat
      BY <1>1 DEF Solver
    <3> QED BY <3>1, <1>1, <1>3 DEF Pending
  <2> QED BY <1>1, <1>2, <1>3, <2>1, <2>2, <2>3, <2>4, MemoryCore
<1>5. ASSUME NEW kind \in Kinds, NEW l \in Lits
      PROVE  WellListed(new, kind, l, ListOf(new, kind, l))
  <2> DEFINE ws == ListOf(st, kind, l)
             ws2 == ListOf(new, kind, l)
  <2>1. WellListed(st, kind, l, ws) /\ ws \in Seq(Watchers)
    BY <1>1, ListFacts DEF Watching
  <2>2. ws2 = IF <<kind, l>> \in st.dirty THEN Without(ws, st.deleted) ELSE ws
    BY <1>2
  <2> HIDE DEF ws, ws2
  <2>3. /\ Once(ws) /\ Crefs(ws) \ st.deleted = Attached(st, kind, l)
        /\ Crefs(ws) \cap st.deleted # {} => <<kind, l>> \in st.dirty
        /\ \A w \in ToSet(ws) : /\ w.blocker \in ToSet(st.db[w.cref])
                                /\ kind = "binary" => ToSet(st.db[w.cref]) = {-l, w.blocker}
    BY <2>1 DEF WellListed
  <2>4. /\ Once(ws2) /\ Crefs(ws2) = Crefs(ws) \ st.deleted /\ ToSet(ws2) \subseteq ToSet(ws)
    <3>1. CASE <<kind, l>> \in st.dirty
      BY <3>1, <2>1, <2>2, <2>3, ListWithout
    <3>2. CASE <<kind, l>> \notin st.dirty
      BY <3>2, <2>2, <2>3
    <3> QED BY <3>1, <3>2
  <2>5. Attached(new, kind, l) = Attached(st, kind, l)
    BY <1>3 DEF Attached, Live, Lists, SameMemory
  <2>6. Crefs(ws2) \cap new.deleted = {} /\ Crefs(ws2) \ new.deleted = Attached(new, kind, l)
    BY <1>3, <2>3, <2>4, <2>5 DEF SameMemory
  <2>7. \A w \in ToSet(ws2) : /\ w.blocker \in ToSet(new.db[w.cref])
                              /\ kind = "binary" => ToSet(new.db[w.cref]) = {-l, w.blocker}
    BY <1>3, <2>3, <2>4 DEF SameMemory
  <2> QED BY <2>4, <2>6, <2>7 DEF WellListed, ws2
<1> QED BY <1>2, <1>4, <1>5 DEF Sound, Watching

\* propagate: nothing is left to propagate, or there is a conflict.
LEMMA PropagatedStep ==
  ASSUME NEW st, NEW M, Sound(st, M), st.confl = NoRef, NEW new, new = Propagated(st)
  PROVE  /\ Sound(new, M) /\ Extends(st, new)
         /\ IF new.confl = NoRef THEN new.qhead = Len(new.trail) ELSE Conflicting(new)
<1> DEFINE base == CleanAll(st)
           ws == [v \in Vars |-> v]
           n == NbVars
           Done(k) == {x \in Solver : /\ Ready(x, M) /\ Extends(base, x)
                                      /\ x.confl # NoRef \/ x.qhead = Len(x.trail) \/ x.qhead >= k}
           G == [k \in 0 .. n |-> Done(k)]
<1>1. n \in Nat /\ DOMAIN ws = 1 .. n
  BY NbVarsAssumption DEF Vars
<1>2. /\ Sound(base, M) /\ base.dirty = {} /\ base.confl = NoRef /\ Extends(st, base)
      /\ base \in Solver
  <2>1. Sound(base, M) /\ Cleans(st, base)
    BY CleanAllStep
  <2> HIDE DEF base
  <2>2. base.dirty = {} /\ base.confl = NoRef /\ Extends(st, base)
    BY <2>1 DEF Cleans, Extends, SameMemory, SameTrail
  <2>3. base \in Solver
    BY <2>1, CoreFacts DEF Sound
  <2> QED BY <2>1, <2>2, <2>3
<1>3. new = PropagateFolded(base, ws)
  BY DEF Propagated, PropagateFolded
<1> HIDE DEF base
<1>4. base \in G[0]
  <2>1. base.qhead >= 0
    BY <1>2 DEF Solver
  <2>2. Extends(base, base)
    BY DEF Extends
  <2>3. Ready(base, M)
    BY <1>2 DEF Ready, Sound
  <2>4. base \in Done(0)
    BY <1>2, <2>1, <2>2, <2>3
  <2> QED BY <1>1, <2>4
<1>5. ASSUME NEW k \in 1 .. n, NEW x \in G[k - 1]
      PROVE  PropagateTurn(x) \in G[k]
  <2>1. k - 1 \in 0 .. n /\ k \in 0 .. n /\ k \in Nat
    BY <1>1
  <2>2. /\ x \in Solver /\ Ready(x, M) /\ Extends(base, x)
        /\ x.confl # NoRef \/ x.qhead = Len(x.trail) \/ x.qhead >= k - 1
    BY <1>5, <2>1
  <2> DEFINE y == PropagateTurn(x)
  <2>3. CASE x.confl # NoRef \/ x.qhead = Len(x.trail)
    <3>1. y = x
      BY <2>3 DEF PropagateTurn
    <3>2. x \in Done(k)
      BY <2>2, <2>3
    <3> QED BY <2>1, <3>1, <3>2
  <2>4. CASE ~(x.confl # NoRef \/ x.qhead = Len(x.trail))
    <3>1. y = PropagateNext(x, x.trail[x.qhead + 1])
      BY <2>4 DEF PropagateTurn
    <3> HIDE DEF y
    <3>2. Ready(y, M) /\ Extends(x, y) /\ (y.confl = NoRef => y.qhead = x.qhead + 1)
      BY <2>2, <2>4, <3>1, NextStep
    <3>3. Extends(base, y)
      BY <2>2, <3>2, ExtendsTransitive
    <3>4. y.confl = NoRef => y.qhead >= k
      <4>1. x.qhead \in Nat
        BY <2>2 DEF Solver
      <4> QED BY <4>1, <2>1, <2>2, <2>4, <3>2
    <3>5. y \in Solver
      BY <3>2, CoreFacts DEF Ready
    <3>6. y \in Done(k)
      BY <3>2, <3>3, <3>4, <3>5
    <3> QED BY <2>1, <3>6 DEF y
  <2> QED BY <2>3, <2>4
<1>6. new \in G[n]
  <2> HIDE DEF G, ws
  <2>1. PropagateFolded(base, ws) \in G[n]
    BY <1>1, <1>4, <1>5, PropagateFold
  <2> QED BY <2>1, <1>3
<1>7. /\ new \in Solver /\ Ready(new, M) /\ Extends(base, new)
      /\ new.confl # NoRef \/ new.qhead = Len(new.trail) \/ new.qhead >= n
  BY <1>1, <1>6
<1>8. new.confl = NoRef => new.qhead = Len(new.trail)
  <2>1. OnTrail(new) /\ Pending(new)
    BY <1>7, CoreFacts DEF Ready
  <2>2. new.qhead <= Len(new.trail) /\ Len(new.trail) \in Nat /\ new.qhead \in Nat
    BY <1>7, <2>1, TrailFacts DEF Pending, Solver
  <2>3. Len(new.trail) <= n
    BY <1>7, <2>1, TrailLength
  <2> QED BY <1>1, <1>7, <2>2, <2>3
<1>9. Extends(st, new)
  BY <1>2, <1>7, ExtendsTransitive
<1> QED BY <1>7, <1>8, <1>9 DEF Ready, Sound

\* A conflict without any decision leaves no model.
LEMMA ConflictAtRoot ==
  ASSUME NEW st, NEW M, Core(st, M), Conflicting(st), DecisionLevel(st) = 0
  PROVE  M = {}
<1> SUFFICES ASSUME NEW m \in M PROVE FALSE
  OBVIOUS
<1>1. /\ st \in Solver /\ Stored(st) /\ OnTrail(st) /\ Levelled(st) /\ Implied(st, M)
  BY CoreFacts
<1> DEFINE c == st.db[st.confl]
<1>2. st.confl \in DOMAIN st.db /\ \A q \in ToSet(c) : Value(st, q) = False
  BY DEF Conflicting
<1>3. ASSUME NEW q \in ToSet(c) PROVE Satisfies(m, {-q}) /\ q \in Lits
  <2>1. q \in Lits
    BY <1>1, <1>2, ClauseFacts, SeqFacts
  <2>2. -q \in Lits /\ Value(st, -q) = True
    BY <1>1, <1>2, <2>1, LitFacts, ValueFacts, TrailFacts
  <2>3. PICK k \in DOMAIN st.trail : st.trail[k] = -q
    BY <1>1, <2>2, TrailFacts
  <2>4. Level(st, -q) = 0
    <3>1. Level(st, -q) \in Nat /\ Level(st, -q) <= 0
      BY <1>1, <2>2, <2>3, TrailFacts DEF Levelled
    <3> QED BY <3>1
  <2> QED BY <1>1, <2>1, <2>3, <2>4 DEF Implied
<1>4. PICK q \in ToSet(c) : Satisfies(m, {q})
  <2>1. Satisfies(m, ToSet(c))
    BY <1>1, <1>2 DEF Implied
  <2> QED BY <2>1 DEF Satisfies
<1>5. Satisfies(m, {-q}) /\ q \in Lits /\ Var(-q) = Var(q) /\ q \in Int /\ q # 0
  BY <1>3, LitFacts
<1>6. (q > 0) <=> (Var(q) \in m)
  BY <1>4 DEF Satisfies
<1>7. (-q > 0) <=> (Var(-q) \in m)
  BY <1>5 DEF Satisfies
<1>8. (q > 0) <=> ~(-q > 0)
  BY <1>5
<1> QED BY <1>5, <1>6, <1>7, <1>8

-----------------------------------------------------------------------------
(* cancelUntil.                                                            *)

HeapFull(st) == \A v \in st.decision : st.assigns[v] = Undef => v \in st.orderHeap

\* What is undone by a backjump.
Undone(st, n) == {Var(st.trail[k]) : k \in n + 1 .. Len(st.trail)}

LEMMA SameValue ==
  ASSUME NEW st, NEW new, NEW l \in Lits, new.assigns[Var(l)] = st.assigns[Var(l)]
  PROVE  Value(new, l) = Value(st, l)
<1>1. CASE l > 0
  <2>1. Var(l) = l
    BY <1>1 DEF Var, Lits, Vars
  <2> QED BY <1>1, <2>1 DEF Value
<1>2. CASE ~(l > 0)
  <2>1. Var(l) = -l
    BY <1>2, LitFacts DEF Var
  <2> QED BY <1>2, <2>1 DEF Value
<1> QED BY <1>1, <1>2

LEMMA CancelFields ==
  ASSUME NEW st \in Solver, OnTrail(st), Levelled(st), NEW level \in Nat, level < DecisionLevel(st),
         NEW new, new = CancelUntil(st, level), NEW n, n = st.trailLim[level + 1], NEW U, U = Undone(st, n)
  PROVE  /\ new \in Solver /\ n \in 0 .. Len(st.trail) /\ level + 1 \in DOMAIN st.trailLim
         /\ new.trail = SubSeq(st.trail, 1, n) /\ Len(new.trail) = n /\ DOMAIN new.trail = 1 .. n
         /\ \A k \in 1 .. n : new.trail[k] = st.trail[k]
         /\ DecisionLevel(new) = level /\ DOMAIN new.trailLim = 1 .. level
         /\ \A d \in 1 .. level : new.trailLim[d] = st.trailLim[d]
         /\ new.qhead = n
         /\ \A v \in Vars \cap U : new.assigns[v] = Undef /\ new.level[v] = 0 /\ new.reason[v] = NoRef
         /\ \A v \in Vars \ U : /\ new.assigns[v] = st.assigns[v] /\ new.level[v] = st.level[v]
                                /\ new.reason[v] = st.reason[v]
         /\ new.orderHeap = st.orderHeap \cup (U \cap st.decision) /\ new.decision = st.decision
         /\ SameMemory(st, new) /\ SameLists(st, new) /\ new.confl = st.confl
<1> DEFINE reset(f, x) == [v \in Vars |-> IF v \in U THEN x ELSE f[v]]
           a == reset(st.assigns, Undef)
           b == reset(st.level, 0)
           c == reset(st.reason, NoRef)
           d == [v \in Vars |-> IF v \in U THEN st.assigns[v] ELSE st.polarity[v]]
           h == st.orderHeap \cup (U \cap st.decision)
           t == SubSeq(st.trail, 1, n)
           lim == SubSeq(st.trailLim, 1, level)
<1>1. /\ st.trail \in Seq(Lits) /\ Len(st.trail) \in Nat /\ DOMAIN st.trail = 1 .. Len(st.trail)
      /\ st.trailLim \in Seq(Nat) /\ DecisionLevel(st) \in Nat /\ DOMAIN st.trailLim = 1 .. DecisionLevel(st)
      /\ DecisionLevel(st) = Len(st.trailLim)
      /\ \A e \in DOMAIN st.trailLim : st.trailLim[e] \in Nat
      /\ st.assigns \in [Vars -> Values] /\ st.level \in [Vars -> Nat] /\ st.reason \in [Vars -> Nat]
  BY TrailFacts DEF DecisionLevel
<1>2. level + 1 \in DOMAIN st.trailLim /\ n \in 0 .. Len(st.trail)
  <2>1. level + 1 \in DOMAIN st.trailLim
    BY <1>1
  <2>2. n \in Nat /\ n <= Len(st.trail)
    BY <1>1, <2>1 DEF Levelled
  <2> QED BY <1>1, <2>1, <2>2
<1>3. /\ t \in Seq(Lits) /\ Len(t) = n /\ DOMAIN t = 1 .. n /\ \A k \in 1 .. n : t[k] = st.trail[k]
  BY SMTT(30), <1>1, <1>2
<1>4. /\ lim \in Seq(Nat) /\ Len(lim) = level /\ DOMAIN lim = 1 .. level
      /\ \A e \in 1 .. level : lim[e] = st.trailLim[e]
  BY <1>1
<1>5. a \in [Vars -> Values] /\ b \in [Vars -> Nat] /\ c \in [Vars -> Nat] /\ d \in [Vars -> Values] /\ h \in SUBSET Vars
  <2>1. Undef \in Values /\ 0 \in Nat /\ NoRef \in Nat
    BY DEF Values, NoRef
  <2>2. st.polarity \in [Vars -> Values] /\ st.orderHeap \in SUBSET Vars /\ st.decision \in SUBSET Vars
    BY DEF Solver
  <2> QED BY <1>1, <2>1, <2>2
<1>6. new = [st EXCEPT !.assigns = a, !.level = b, !.reason = c, !.polarity = d, !.orderHeap = h,
                       !.qhead = n, !.trail = t, !.trailLim = lim]
  <2>1. ~(DecisionLevel(st) <= level)
    BY <1>1
  <2>2. U = {Var(st.trail[k]) : k \in n + 1 .. Len(st.trail)}
    BY DEF Undone
  <2> QED BY <2>1, <2>2 DEF CancelUntil, Solver
<1>7. \A v \in Vars : /\ a[v] = IF v \in U THEN Undef ELSE st.assigns[v]
                      /\ b[v] = IF v \in U THEN 0 ELSE st.level[v]
                      /\ c[v] = IF v \in U THEN NoRef ELSE st.reason[v]
  OBVIOUS
<1>0. h = st.orderHeap \cup (U \cap st.decision)
  OBVIOUS
<1> HIDE DEF a, b, c, d, t, lim, h
<1>8. new \in Solver
  <2>1. n \in Nat
    BY <1>2
  <2>2. t \in Seq(Lits) /\ lim \in Seq(Nat)
    BY <1>3, <1>4
  <2> QED BY ONLY st \in Solver, <1>5, <1>6, <2>1, <2>2 DEF Solver
<1>9. /\ new.assigns = a /\ new.level = b /\ new.reason = c /\ new.trail = t /\ new.trailLim = lim
      /\ new.qhead = n /\ new.orderHeap = h
  BY <1>6 DEF Solver
<1>10. /\ SameMemory(st, new) /\ SameLists(st, new) /\ new.confl = st.confl /\ new.decision = st.decision
  BY <1>6 DEF Solver, SameMemory, SameLists
<1>11. DecisionLevel(new) = level
  BY <1>4, <1>9 DEF DecisionLevel
<1> QED BY <1>2, <1>3, <1>4, <1>7, <1>8, <1>9, <1>10, <1>11, <1>0 DEF t

\* A backjump: the literals of the levels left stay as they are.
LEMMA CancelStep ==
  ASSUME NEW st, NEW M, Sound(st, M), HeapFull(st), NEW level \in Nat, level < DecisionLevel(st),
         NEW new, new = CancelUntil(st, level)
  PROVE  /\ Sound(new, M) /\ HeapFull(new)
         /\ DecisionLevel(new) = level /\ new.qhead = Len(new.trail) /\ new.confl = st.confl
         /\ SameMemory(st, new) /\ SameLists(st, new)
         /\ \A l \in Lits : Level(st, l) <= level /\ Value(st, l) # Undef =>
              Value(new, l) = Value(st, l) /\ Level(new, l) = Level(st, l)
         /\ \A l \in Lits : Level(st, l) > level => Value(new, l) = Undef
<1> DEFINE n == st.trailLim[level + 1]
           U == Undone(st, n)
<1>1. /\ st \in Solver /\ Stored(st) /\ OnTrail(st) /\ Levelled(st) /\ Decided(st)
      /\ Reasoned(st) /\ Pending(st) /\ Implied(st, M) /\ Core(st, M) /\ Watching(st)
  BY CoreFacts DEF Sound
<1> HIDE DEF Undone
<1>2. /\ new \in Solver /\ n \in 0 .. Len(st.trail) /\ level + 1 \in DOMAIN st.trailLim
      /\ Len(new.trail) = n /\ DOMAIN new.trail = 1 .. n
      /\ \A k \in 1 .. n : new.trail[k] = st.trail[k]
      /\ DecisionLevel(new) = level /\ DOMAIN new.trailLim = 1 .. level
      /\ \A d \in 1 .. level : new.trailLim[d] = st.trailLim[d]
      /\ new.qhead = n
      /\ \A v \in Vars \cap U : new.assigns[v] = Undef /\ new.level[v] = 0 /\ new.reason[v] = NoRef
      /\ \A v \in Vars \ U : /\ new.assigns[v] = st.assigns[v] /\ new.level[v] = st.level[v]
                             /\ new.reason[v] = st.reason[v]
      /\ new.orderHeap = st.orderHeap \cup (U \cap st.decision) /\ new.decision = st.decision
      /\ SameMemory(st, new) /\ SameLists(st, new) /\ new.confl = st.confl
  BY <1>1, CancelFields
<1> HIDE DEF n
<1>3. /\ Len(st.trail) \in Nat /\ DOMAIN st.trail = 1 .. Len(st.trail)
      /\ \A k \in DOMAIN st.trail : st.trail[k] \in Lits
      /\ DOMAIN st.trailLim = 1 .. DecisionLevel(st) /\ DecisionLevel(st) \in Nat
      /\ st.assigns \in [Vars -> Values]
      /\ \A l \in Lits : Value(st, l) = True <=> \E k \in DOMAIN st.trail : st.trail[k] = l
      /\ \A l \in Lits : Level(st, l) \in Nat
      /\ n \in Nat /\ n <= Len(st.trail)
  BY <1>1, <1>2, TrailFacts
<1>4. \A v : v \in U <=> \E k \in DOMAIN st.trail : k > n /\ v = Var(st.trail[k])
  BY <1>3 DEF Undone
<1>5. \A k \in DOMAIN st.trail : Level(st, st.trail[k]) > level <=> k > n
  <2>1. \A k \in DOMAIN st.trail : Level(st, st.trail[k]) >= level + 1 <=> k > n
    BY <1>1, <1>2 DEF Levelled, n
  <2> QED BY <2>1, <1>3
<1>6. ASSUME NEW k \in 1 .. n
      PROVE  /\ k \in DOMAIN st.trail /\ st.trail[k] \in Lits /\ new.trail[k] = st.trail[k]
             /\ Var(st.trail[k]) \in Vars \ U
             /\ Value(new, st.trail[k]) = Value(st, st.trail[k])
             /\ Level(new, st.trail[k]) = Level(st, st.trail[k]) /\ Level(st, st.trail[k]) <= level
             /\ new.reason[Var(st.trail[k])] = st.reason[Var(st.trail[k])]
  <2>1. k \in DOMAIN st.trail /\ st.trail[k] \in Lits /\ new.trail[k] = st.trail[k] /\ ~(k > n)
    BY <1>2, <1>3
  <2>2. Var(st.trail[k]) \notin U
    BY SMTT(30), <1>1, <1>3, <1>4, <2>1 DEF OnTrail
  <2>3. Var(st.trail[k]) \in Vars
    BY <2>1, LitFacts
  <2>4. /\ new.assigns[Var(st.trail[k])] = st.assigns[Var(st.trail[k])]
        /\ new.level[Var(st.trail[k])] = st.level[Var(st.trail[k])]
        /\ new.reason[Var(st.trail[k])] = st.reason[Var(st.trail[k])]
    BY <1>2, <2>2, <2>3
  <2>5. Value(new, st.trail[k]) = Value(st, st.trail[k])
    BY <2>1, <2>4, SameValue
  <2>6. Level(st, st.trail[k]) <= level
    <3>1. ~(Level(st, st.trail[k]) > level) /\ Level(st, st.trail[k]) \in Nat
      BY <1>3, <1>5, <2>1
    <3> QED BY <3>1
  <2> QED BY <2>1, <2>2, <2>3, <2>4, <2>5, <2>6 DEF Level
<1>7. OnTrail(new)
  <2>1. \A k \in DOMAIN new.trail : Value(new, new.trail[k]) = True
    BY <1>1, <1>2, <1>6 DEF OnTrail
  <2>2. ASSUME NEW v \in Vars, new.assigns[v] # Undef
        PROVE  \E k \in DOMAIN new.trail : Var(new.trail[k]) = v
    <3>1. v \notin U /\ st.assigns[v] # Undef
      BY <1>2, <2>2
    <3>2. PICK k \in DOMAIN st.trail : Var(st.trail[k]) = v
      BY <1>1, <3>1 DEF OnTrail
    <3>3. k \in 1 .. n
      BY <1>3, <1>4, <3>1, <3>2
    <3> QED BY <1>2, <3>2, <3>3
  <2>3. \A j, k \in DOMAIN new.trail : Var(new.trail[j]) = Var(new.trail[k]) => j = k
    BY <1>1, <1>2, <1>6 DEF OnTrail
  <2> QED BY <2>1, <2>2, <2>3 DEF OnTrail
<1>8. Levelled(new)
  <2>1. \A d \in 1 .. level : d \in DOMAIN st.trailLim /\ d <= level + 1
    BY <1>2, <1>3
  <2>2. \A d \in DOMAIN new.trailLim : new.trailLim[d] <= Len(new.trail)
    BY <1>1, <1>2, <2>1 DEF Levelled, n
  <2>3. \A d, e \in DOMAIN new.trailLim : d <= e => new.trailLim[d] <= new.trailLim[e]
    BY <1>1, <1>2, <2>1 DEF Levelled
  <2>4. \A k \in DOMAIN new.trail :
          /\ Level(new, new.trail[k]) <= DecisionLevel(new)
          /\ \A d \in DOMAIN new.trailLim : Level(new, new.trail[k]) >= d <=> k > new.trailLim[d]
    BY <1>1, <1>2, <1>6, <2>1 DEF Levelled
  <2> QED BY <2>2, <2>3, <2>4 DEF Levelled
<1>9. Decided(new)
  <2>1. \A v \in Vars : new.assigns[v] = Undef => new.reason[v] = NoRef
    BY <1>1, <1>2 DEF Decided
  <2>2. ASSUME NEW k \in DOMAIN new.trail,
               Level(new, new.trail[k]) > 0, new.reason[Var(new.trail[k])] = NoRef
        PROVE  k = new.trailLim[Level(new, new.trail[k])] + 1
    <3>1. k \in 1 .. n /\ new.trail[k] = st.trail[k]
      BY <1>2
    <3>2. /\ k \in DOMAIN st.trail /\ Level(st, st.trail[k]) > 0 /\ st.reason[Var(st.trail[k])] = NoRef
          /\ Level(new, new.trail[k]) = Level(st, st.trail[k]) /\ Level(st, st.trail[k]) <= level
          /\ Level(st, st.trail[k]) \in Nat
      BY <1>3, <1>6, <2>2, <3>1
    <3>3. k = st.trailLim[Level(st, st.trail[k])] + 1
      BY <1>1, <3>2 DEF Decided
    <3>4. Level(st, st.trail[k]) \in 1 .. level
      BY <3>2
    <3> QED BY <1>2, <3>2, <3>3, <3>4
  <2> QED BY <2>1, <2>2 DEF Decided
<1>10. Reasoned(new)
  <2> SUFFICES ASSUME NEW k \in DOMAIN new.trail, NEW l, l = new.trail[k], NEW r, r = new.reason[Var(l)], r # NoRef
               PROVE  /\ r \in DOMAIN new.db
                      /\ Level(new, l) > 0 => r \notin new.deleted
                      /\ Forces(new, new.db[r], l, k)
    BY DEF Reasoned
  <2>1. k \in 1 .. n
    BY <1>2
  <2>2. k \in DOMAIN st.trail /\ l = st.trail[k] /\ r = st.reason[Var(l)] /\ Level(new, l) = Level(st, l)
    BY <1>6, <2>1
  <2>3. /\ r \in DOMAIN st.db /\ (Level(st, l) > 0 => r \notin st.deleted)
        /\ Forces(st, st.db[r], l, k)
    BY <1>1, <2>2 DEF Reasoned
  <2>4. new.db = st.db /\ new.deleted = st.deleted
    BY <1>2 DEF SameMemory
  <2>5. \A j \in 1 .. k - 1 : new.trail[j] = st.trail[j]
    BY <1>2, <1>3, <2>1
  <2>6. Forces(new, st.db[r], l, k)
    BY SMTT(30), <2>3, <2>5, ForcesFrame
  <2> QED BY <2>2, <2>3, <2>4, <2>6
<1>11. Pending(new)
  BY <1>2, <1>3 DEF Pending
<1>12. Implied(new, M)
  <2>1. new.db = st.db
    BY <1>2 DEF SameMemory
  <2>2. ASSUME NEW m \in M, NEW k \in DOMAIN new.trail, Level(new, new.trail[k]) = 0
        PROVE  Satisfies(m, {new.trail[k]})
    <3>1. k \in 1 .. n
      BY <1>2
    <3>2. k \in DOMAIN st.trail /\ Level(st, st.trail[k]) = 0 /\ new.trail[k] = st.trail[k]
      BY <1>6, <2>2, <3>1
    <3> QED BY <1>1, <3>2 DEF Implied
  <2>3. \A m \in M : \A cr \in DOMAIN new.db : Satisfies(m, ToSet(new.db[cr]))
    BY <1>1, <2>1 DEF Implied
  <2> QED BY <2>2, <2>3 DEF Implied
<1>13. Stored(new)
  <2>1. Live(new) = Live(st)
    BY <1>2 DEF Live, SameMemory
  <2> QED BY <2>1, <1>1, <1>2 DEF Stored, SameMemory
<1>14. Watching(new)
  BY <1>1, <1>2, WatchingFrame
<1>15. Sound(new, M)
  BY <1>2, <1>7, <1>8, <1>9, <1>10, <1>11, <1>12, <1>13, <1>14 DEF Sound, Core
<1>16. HeapFull(new)
  <2>1. \A v \in st.decision : v \in Vars
    BY <1>1 DEF Solver
  <2> QED BY <1>2, <2>1 DEF HeapFull
<1>17. ASSUME NEW l \in Lits, Level(st, l) <= level, Value(st, l) # Undef
       PROVE  Value(new, l) = Value(st, l) /\ Level(new, l) = Level(st, l)
  <2>1. Var(l) \in Vars /\ st.assigns[Var(l)] # Undef
    BY <1>3, <1>17, LitFacts, ValueFacts
  <2>2. Var(l) \notin U
    <3> SUFFICES ASSUME NEW k \in DOMAIN st.trail, k > n, Var(l) = Var(st.trail[k]) PROVE FALSE
      BY <1>4
    <3>1. Level(st, st.trail[k]) > level /\ Level(st, st.trail[k]) = Level(st, l)
      BY <1>5 DEF Level
    <3> QED BY <3>1, <1>3, <1>17
  <2>3. new.assigns[Var(l)] = st.assigns[Var(l)] /\ new.level[Var(l)] = st.level[Var(l)]
    BY <1>2, <2>1, <2>2
  <2> QED BY <2>3, SameValue DEF Level
<1>18. ASSUME NEW l \in Lits, Level(st, l) > level
       PROVE  Value(new, l) = Undef
  <2>1. Var(l) \in Vars
    BY LitFacts
  <2>2. CASE Var(l) \in U
    <3>1. new.assigns[Var(l)] = Undef
      BY <1>2, <2>1, <2>2
    <3>2. new.assigns \in [Vars -> Values]
      BY <1>2 DEF Solver
    <3> QED BY <3>1, <3>2, ValueFacts
  <2>3. CASE Var(l) \notin U
    <3>1. st.assigns[Var(l)] = Undef
      <4> SUFFICES ASSUME st.assigns[Var(l)] # Undef PROVE FALSE
        OBVIOUS
      <4>1. PICK k \in DOMAIN st.trail : Var(st.trail[k]) = Var(l)
        BY <1>1, <2>1 DEF OnTrail
      <4>2. Level(st, st.trail[k]) = Level(st, l)
        BY <4>1 DEF Level
      <4> QED BY <4>1, <4>2, <1>4, <1>5, <1>18, <2>3
    <3>2. new.assigns[Var(l)] = Undef
      BY <1>2, <2>1, <2>3, <3>1
    <3>3. new.assigns \in [Vars -> Values]
      BY <1>2 DEF Solver
    <3> QED BY <3>2, <3>3, ValueFacts
  <2> QED BY <2>2, <2>3
<1> QED BY <1>2, <1>15, <1>16, <1>17, <1>18

-----------------------------------------------------------------------------
(* A clause is added to memory.                                            *)

\* A new clause, held by one of the three lists of references.
Allocated(st, new, c, cr) ==
  \/ new = [Alloc(st, c) EXCEPT !.clauses = @ \cup {cr}]
  \/ new = [Alloc(st, c) EXCEPT !.learnts = @ \cup {cr}]
  \/ new = [Alloc(st, c) EXCEPT !.unaryWatchedClauses = @ \cup {cr}]

LEMMA AllocFields ==
  ASSUME NEW st \in Solver, NEW c \in Clauses, NEW cr, cr = NextRef(st), NEW new, Allocated(st, new, c, cr)
  PROVE  /\ new \in Solver /\ SameTrail(st, new) /\ SameLists(st, new)
         /\ new.deleted = st.deleted /\ new.oneWatched = st.oneWatched
         /\ new.confl = st.confl /\ new.qhead = st.qhead
         /\ new.decision = st.decision /\ new.orderHeap = st.orderHeap
         /\ cr \in Nat \ {0} /\ cr \notin DOMAIN st.db /\ DOMAIN new.db = DOMAIN st.db \cup {cr} /\ new.db[cr] = c
         /\ Len(new.db) = Len(st.db) + 1
         /\ \A x \in DOMAIN st.db : new.db[x] = st.db[x]
         /\ new.clauses \cup new.learnts \cup new.unaryWatchedClauses
              = st.clauses \cup st.learnts \cup st.unaryWatchedClauses \cup {cr}
         /\ st.unaryWatchedClauses \subseteq new.unaryWatchedClauses
<1> DEFINE d == Append(st.db, c)
<1>1. st.db \in Seq(Clauses) /\ Len(st.db) \in Nat /\ DOMAIN st.db = 1 .. Len(st.db)
  BY DEF Solver
<1>2. /\ d \in Seq(Clauses) /\ Len(d) = Len(st.db) + 1 /\ DOMAIN d = 1 .. Len(st.db) + 1
      /\ d[Len(st.db) + 1] = c /\ \A x \in DOMAIN st.db : d[x] = st.db[x]
  BY <1>1
<1>3. Alloc(st, c) = [st EXCEPT !.db = d]
  BY DEF Alloc, Solver
<1>4. cr = Len(st.db) + 1 /\ cr \in Nat \ {0} /\ {cr} \in References
  BY <1>1 DEF NextRef, References
<1> HIDE DEF d
<1>5. /\ new \in Solver /\ SameTrail(st, new) /\ SameLists(st, new)
      /\ new.deleted = st.deleted /\ new.oneWatched = st.oneWatched
      /\ new.confl = st.confl /\ new.qhead = st.qhead
      /\ new.decision = st.decision /\ new.orderHeap = st.orderHeap
      /\ new.db = d
      /\ new.clauses \cup new.learnts \cup new.unaryWatchedClauses
           = st.clauses \cup st.learnts \cup st.unaryWatchedClauses \cup {cr}
      /\ st.unaryWatchedClauses \subseteq new.unaryWatchedClauses
  <2>0. /\ st.clauses \cup {cr} \in References /\ st.learnts \cup {cr} \in References
        /\ st.unaryWatchedClauses \cup {cr} \in References
    BY <1>4 DEF Solver, References
  <2>1. CASE new = [Alloc(st, c) EXCEPT !.clauses = @ \cup {cr}]
    <3> DEFINE y == st.clauses \cup {cr}
    <3>0. y = st.clauses \cup {cr}
      OBVIOUS
    <3>1. new = [st EXCEPT !.db = d, !.clauses = y]
      BY <1>3, <2>1 DEF Solver
    <3> HIDE DEF y
    <3> QED BY ONLY ZenonT(40), <3>0, <3>1, <1>2, <2>0, st \in Solver DEF Solver, SameTrail, SameLists
  <2>2. CASE new = [Alloc(st, c) EXCEPT !.learnts = @ \cup {cr}]
    <3> DEFINE y == st.learnts \cup {cr}
    <3>0. y = st.learnts \cup {cr}
      OBVIOUS
    <3>1. new = [st EXCEPT !.db = d, !.learnts = y]
      BY <1>3, <2>2 DEF Solver
    <3> HIDE DEF y
    <3> QED BY ONLY ZenonT(40), <3>0, <3>1, <1>2, <2>0, st \in Solver DEF Solver, SameTrail, SameLists
  <2>3. CASE new = [Alloc(st, c) EXCEPT !.unaryWatchedClauses = @ \cup {cr}]
    <3> DEFINE y == st.unaryWatchedClauses \cup {cr}
    <3>0. y = st.unaryWatchedClauses \cup {cr}
      OBVIOUS
    <3>1. new = [st EXCEPT !.db = d, !.unaryWatchedClauses = y]
      BY <1>3, <2>3 DEF Solver
    <3> HIDE DEF y
    <3> QED BY ONLY ZenonT(40), <3>0, <3>1, <1>2, <2>0, st \in Solver DEF Solver, SameTrail, SameLists
  <2> QED BY <2>1, <2>2, <2>3 DEF Allocated
<1>6. cr \notin DOMAIN st.db /\ DOMAIN d = DOMAIN st.db \cup {cr} /\ d[cr] = c
  BY <1>1, <1>2, <1>4
<1> QED BY <1>2, <1>4, <1>5, <1>6

\* A clause that follows is allocated, not yet attached.
LEMMA AllocStep ==
  ASSUME NEW st, NEW M, Sound(st, M), NEW c \in Clauses, DistinctVars(c),
         \A m \in M : Satisfies(m, ToSet(c)),
         NEW cr, cr = NextRef(st), NEW new, Allocated(st, new, c, cr)
  PROVE  /\ Core(new, M) /\ cr \in Live(new) /\ cr \notin new.oneWatched /\ new.db[cr] = c
         /\ SameTrail(st, new) /\ new.confl = st.confl /\ new.qhead = st.qhead
         /\ new.decision = st.decision /\ new.orderHeap = st.orderHeap
         /\ \A kind \in Kinds : \A l \in Lits : ListedBut(new, cr, kind, l, ListOf(new, kind, l))
<1>1. st \in Solver /\ Stored(st) /\ Core(st, M) /\ Watching(st) /\ Pending(st) /\ OnTrail(st)
  BY CoreFacts DEF Sound
<1>2. /\ new \in Solver /\ SameTrail(st, new) /\ SameLists(st, new)
      /\ new.deleted = st.deleted /\ new.oneWatched = st.oneWatched
      /\ new.confl = st.confl /\ new.qhead = st.qhead
      /\ new.decision = st.decision /\ new.orderHeap = st.orderHeap
      /\ cr \in Nat \ {0} /\ cr \notin DOMAIN st.db /\ DOMAIN new.db = DOMAIN st.db \cup {cr} /\ new.db[cr] = c
      /\ \A x \in DOMAIN st.db : new.db[x] = st.db[x]
      /\ new.clauses \cup new.learnts \cup new.unaryWatchedClauses
           = st.clauses \cup st.learnts \cup st.unaryWatchedClauses \cup {cr}
      /\ st.unaryWatchedClauses \subseteq new.unaryWatchedClauses
  BY <1>1, AllocFields
<1> HIDE DEF Allocated
<1>3. /\ st.deleted \subseteq DOMAIN st.db /\ st.oneWatched \subseteq DOMAIN st.db
      /\ Live(st) = st.clauses \cup st.learnts \cup st.unaryWatchedClauses
  BY <1>1 DEF Stored
<1>4. Live(new) = Live(st) \cup {cr} /\ cr \notin new.oneWatched
  BY <1>2, <1>3 DEF Live
<1>5. Stored(new)
  <2>1. \A x \in DOMAIN new.db : DistinctVars(new.db[x])
    BY <1>1, <1>2 DEF Stored
  <2>2. new.deleted \subseteq DOMAIN new.db /\ new.oneWatched \subseteq DOMAIN new.db
    BY <1>2, <1>3
  <2>3. Live(new) = new.clauses \cup new.learnts \cup new.unaryWatchedClauses
    BY <1>2, <1>3, <1>4
  <2>4. new.oneWatched \cap Live(new) \subseteq new.unaryWatchedClauses
    BY <1>1, <1>2, <1>4 DEF Stored
  <2>5. new.confl \in DOMAIN new.db \cup {NoRef}
    BY <1>1, <1>2 DEF Stored
  <2>6. \A x \in new.oneWatched : Len(new.db[x]) > 2
    BY <1>1, <1>2 DEF Stored
  <2> QED BY <2>1, <2>2, <2>3, <2>4, <2>5, <2>6 DEF Stored
<1>6. Core(new, M)
  <2>1. \A x \in DOMAIN st.db : x \in DOMAIN new.db /\ Reordered(st, st.db[x], new.db[x])
    BY <1>2 DEF Reordered
  <2>2. \A x \in DOMAIN new.db \ DOMAIN st.db : \A m \in M : Satisfies(m, ToSet(new.db[x]))
    BY <1>2
  <2>3. st.qhead <= new.qhead /\ new.qhead <= Len(st.trail)
    <3>1. st.qhead \in Nat
      BY <1>1 DEF Solver
    <3> QED BY <3>1, <1>1, <1>2 DEF Pending
  <2> QED BY <1>1, <1>2, <1>5, <2>1, <2>2, <2>3, MemoryCore
<1>7. ASSUME NEW kind \in Kinds, NEW l \in Lits
      PROVE  ListedBut(new, cr, kind, l, ListOf(new, kind, l))
  <2> DEFINE ws == ListOf(new, kind, l)
  <2>1. ws = ListOf(st, kind, l)
    BY <1>2 DEF ListOf, SameLists
  <2>2. ws \in Seq(Watchers) /\ WellListed(st, kind, l, ws)
    BY <1>1, <2>1, ListFacts DEF Watching
  <2> HIDE DEF ws
  <2>3. /\ Once(ws) /\ Crefs(ws) \ st.deleted = Attached(st, kind, l)
        /\ Crefs(ws) \cap st.deleted # {} => <<kind, l>> \in st.dirty
        /\ \A w \in ToSet(ws) : /\ w.blocker \in ToSet(st.db[w.cref])
                                /\ kind = "binary" => ToSet(st.db[w.cref]) = {-l, w.blocker}
    BY <2>2 DEF WellListed
  <2>4. Crefs(ws) \subseteq DOMAIN st.db
    BY <1>3, <2>3 DEF Attached, Live
  <2>5. \A x \in DOMAIN st.db : Lists(new, x) = Lists(st, x)
    BY <1>2 DEF Lists
  <2>6. Attached(new, kind, l) \ {cr} = Attached(st, kind, l)
    BY <1>2, <1>4, <2>5 DEF Attached, Live
  <2>7. \A w \in ToSet(ws) : w.cref \in DOMAIN st.db
    BY <2>4 DEF Crefs
  <2>8. \A w \in ToSet(ws) : /\ w.blocker \in ToSet(new.db[w.cref])
                             /\ kind = "binary" => ToSet(new.db[w.cref]) = {-l, w.blocker}
    BY <2>3, <2>7, <1>2
  <2>9. new.dirty = st.dirty
    BY <1>2 DEF SameLists
  <2> QED BY <1>2, <2>2, <2>3, <2>4, <2>6, <2>8, <2>9 DEF ListedBut, ws
<1> QED BY <1>2, <1>4, <1>6, <1>7

\* It is attached by its first two literals.
LEMMA AttachStep ==
  ASSUME NEW st, NEW M, Core(st, M), NEW cr \in Live(st), cr \notin st.oneWatched,
         \A kind \in Kinds : \A l \in Lits : ListedBut(st, cr, kind, l, ListOf(st, kind, l)),
         NEW new, new = AttachClause(st, cr)
  PROVE  Sound(new, M) /\ SameRest(st, new) /\ SameMemory(st, new)
<1>1. st \in Solver /\ Stored(st)
  BY CoreFacts
<1>2. cr \in DOMAIN st.db /\ DistinctVars(st.db[cr])
  BY <1>1 DEF Stored, Live
<1>3. new \in Solver /\ SameRest(st, new) /\ SameMemory(st, new)
  BY <1>1, <1>2, AttachFields
<1>4. Core(new, M)
  BY <1>3, SameMemoryCore
<1>5. Watching(new)
  BY <1>1, <1>2, AttachListed DEF Watching
<1> QED BY <1>3, <1>4, <1>5 DEF Sound

\* Or put in the purgatory.
LEMMA AttachPurgatoryStep ==
  ASSUME NEW st, NEW M, Core(st, M), NEW cr \in Live(st), cr \in st.unaryWatchedClauses, Len(st.db[cr]) > 2,
         \A kind \in Kinds : \A l \in Lits : ListedBut(st, cr, kind, l, ListOf(st, kind, l)),
         NEW new, new = AttachClausePurgatory(st, cr)
  PROVE  Sound(new, M) /\ SameRest(st, new)
<1> DEFINE c == st.db[cr]
           p == -c[1]
           w == Watcher(cr, c[2])
           kept == KeepUnary(st, p, w)
           o == st.oneWatched \cup {cr}
<1>1. st \in Solver /\ Stored(st) /\ Pending(st)
  BY CoreFacts
<1>2. /\ cr \in DOMAIN st.db /\ cr \in Nat /\ c \in Seq(Lits) /\ 1 \in DOMAIN c /\ 2 \in DOMAIN c
      /\ \A i \in DOMAIN c : c[i] \in Lits
  BY <1>1, ClauseFacts DEF Live
<1>3. p \in Lits /\ w \in Watchers /\ w.cref = cr /\ w.blocker = c[2] /\ c[2] \in ToSet(c)
  BY <1>2, LitFacts, SeqFacts DEF Watcher, Watchers
<1>4. new = [kept EXCEPT !.oneWatched = o]
  BY <1>1 DEF AttachClausePurgatory, KeepUnary, Solver
<1> HIDE DEF p, w, c
<1>5. /\ kept \in Solver /\ SameRest(st, kept) /\ SameMemory(st, kept)
      /\ OnlyList(st, kept, "unary", p) /\ PutIn(st, kept, "unary", p, w)
  BY <1>1, <1>3, KeepUnaryLists
<1>6. o \in References
  BY <1>1, <1>2 DEF Solver, References
<1> HIDE DEF kept
<1>7. kept.oneWatched = st.oneWatched /\ o = st.oneWatched \cup {cr}
  BY <1>5 DEF SameMemory
<1> HIDE DEF o
<1>8. new \in Solver
  BY ZenonT(40), <1>4, <1>5, <1>6 DEF Solver
<1>9. /\ SameRest(kept, new) /\ SameLists(kept, new) /\ new.db = kept.db /\ new.oneWatched = o
  BY <1>4, <1>5 DEF Solver, SameRest, SameTrail, SameLists
<1>10. SameRest(st, new) /\ new.db = st.db
  BY <1>5, <1>9, SameRestTransitive DEF SameMemory
<1>11. /\ new.deleted = st.deleted /\ new.clauses = st.clauses /\ new.learnts = st.learnts
       /\ new.unaryWatchedClauses = st.unaryWatchedClauses /\ new.dirty = st.dirty
       /\ SameTrail(st, new) /\ new.confl = st.confl /\ new.qhead = st.qhead
  BY <1>10 DEF SameRest
<1>12. Stored(new)
  <2>1. Live(new) = Live(st)
    BY <1>10, <1>11 DEF Live
  <2>2. st.oneWatched \subseteq DOMAIN st.db /\ st.oneWatched \cap Live(st) \subseteq st.unaryWatchedClauses
    BY <1>1 DEF Stored
  <2>3. new.oneWatched \subseteq DOMAIN st.db /\ new.oneWatched \cap Live(st) \subseteq st.unaryWatchedClauses
    BY <2>2, <1>2, <1>7, <1>9
  <2>4. \A x \in new.oneWatched : Len(new.db[x]) > 2
    BY <1>1, <1>7, <1>9, <1>10 DEF Stored
  <2> QED BY <2>1, <2>3, <2>4, <1>1, <1>10, <1>11 DEF Stored
<1>13. Core(new, M)
  <2>1. \A x \in DOMAIN st.db : x \in DOMAIN new.db /\ Reordered(st, st.db[x], new.db[x])
    BY <1>10 DEF Reordered
  <2>3. st.qhead <= new.qhead /\ new.qhead <= Len(st.trail)
    <3>1. st.qhead \in Nat
      BY <1>1 DEF Solver
    <3> QED BY <3>1, <1>1, <1>11 DEF Pending
  <2> QED BY <1>8, <1>10, <1>11, <1>12, <2>1, <2>3, MemoryCore
<1>14. SameButWatches(st, new, cr)
  BY <1>7, <1>9, <1>10, <1>11 DEF SameButWatches
<1>15. \A kind, l : <<kind, l>> \in Lists(new, cr) <=> kind = "unary" /\ l = p
  BY <1>7, <1>9, <1>10 DEF Lists, p, c
<1>16. \A kind, l : ListOf(new, kind, l) = ListOf(kept, kind, l)
  BY <1>9 DEF ListOf, SameLists
<1>17. ASSUME NEW kind \in Kinds, NEW l \in Lits
       PROVE  WellListed(new, kind, l, ListOf(new, kind, l))
  <2>1. ListedBut(st, cr, kind, l, ListOf(st, kind, l))
    OBVIOUS
  <2>2. CASE kind = "unary" /\ l = p
    <3>1. ListOf(new, kind, l) = Append(ListOf(st, kind, l), w)
      BY <1>5, <1>16, <2>2 DEF PutIn
    <3>2. w.blocker \in ToSet(st.db[cr])
      BY <1>3 DEF c
    <3>3. kind = "binary" => ToSet(st.db[cr]) = {-l, w.blocker}
      BY <2>2
    <3>4. <<kind, l>> \in Lists(new, cr)
      BY <1>15, <2>2
    <3> QED BY <3>1, <3>2, <3>3, <3>4, <2>1, <1>3, <1>14, ListedPut
  <2>3. CASE ~(kind = "unary" /\ l = p)
    <3>1. ListOf(new, kind, l) = ListOf(st, kind, l)
      BY <1>5, <1>16, <2>3 DEF OnlyList
    <3>2. <<kind, l>> \notin Lists(new, cr)
      BY <1>15, <2>3
    <3> QED BY <3>1, <3>2, <2>1, <1>14, ListedNotPut
  <2> QED BY <2>2, <2>3
<1> QED BY <1>10, <1>13, <1>17 DEF Sound, Watching

-----------------------------------------------------------------------------
(* Removal of clauses.                                                     *)

\* What is true of the base and kept by every step is true of the result.
LEMMA SetFold ==
  ASSUME NEW t, NEW base, NEW S, IsFiniteSet(S), NEW ch, Chooses(ch, S),
         NEW G, base \in G[{}],
         \A T \in SUBSET S : T # {} => \A x \in G[T \ {ch[T]}] : Stage(t, x, ch[T]) \in G[T],
         NEW f, SetFolds(f, t, base, S, ch)
  PROVE  f[S] \in G[S]
<1> DEFINE N == {k \in Nat : \A T \in SUBSET S : Cardinality(T) <= k => f[T] \in G[T]}
<1>0. \A T \in SUBSET S : f[T] = IF T = {} THEN base ELSE Stage(t, f[T \ {ch[T]}], ch[T])
  BY DEF SetFolds
<1>1. \A T \in SUBSET S : IsFiniteSet(T) /\ Cardinality(T) \in Nat /\ Cardinality(T) <= Cardinality(S)
  BY FS_Subset, FS_CardinalityType
<1>2. \A T \in SUBSET S : T # {} => /\ T \ {ch[T]} \in SUBSET S
                                    /\ Cardinality(T \ {ch[T]}) = Cardinality(T) - 1
  BY <1>1, FS_RemoveElement DEF Chooses
<1>3. 0 \in N
  <2>1. \A T \in SUBSET S : Cardinality(T) <= 0 => T = {}
    BY <1>1, FS_EmptySet
  <2>2. {} \in SUBSET S /\ f[{}] = base
    BY <1>0
  <2> QED BY <2>1, <2>2
<1>4. ASSUME NEW k \in Nat, k \in N PROVE k + 1 \in N
  <2>1. ASSUME NEW T \in SUBSET S, Cardinality(T) <= k + 1 PROVE f[T] \in G[T]
    <3>1. CASE T = {}
      BY <1>0, <3>1
    <3>2. CASE T # {}
      <4>1. T \ {ch[T]} \in SUBSET S /\ Cardinality(T \ {ch[T]}) <= k
        BY <1>1, <1>2, <2>1, <3>2
      <4>2. f[T \ {ch[T]}] \in G[T \ {ch[T]}]
        BY <1>4, <4>1
      <4> QED BY <1>0, <3>2, <4>2
    <3> QED BY <3>1, <3>2
  <2> QED BY <2>1
<1>5. Cardinality(S) \in N
  <2>1. Cardinality(S) \in Nat
    BY <1>1
  <2> HIDE DEF N
  <2> QED BY <2>1, <1>3, <1>4, NatInductionOnSet
<1> QED BY <1>1, <1>5

RemoveFolded(st, refs) == FoldSet(LAMBDA cr, acc : RemoveClause(acc, cr), st, refs)

LEMMA RemoveFold ==
  ASSUME NEW st, NEW refs, IsFiniteSet(refs), NEW G, st \in G[{}],
         \A T \in SUBSET refs : \A cr \in T : \A x \in G[T \ {cr}] : RemoveClause(x, cr) \in G[T]
  PROVE  RemoveFolded(st, refs) \in G[refs]
<1> DEFINE t == [op |-> "remove"]
           step(x, k) == RemoveClause(x, k)
           pick(T) == CHOOSE x \in T : TRUE
           f == CHOOSE g : g = [T \in SUBSET refs |->
                                  IF T = {} THEN st ELSE step(g[T \ {pick(T)}], pick(T))]
           ch == [T \in SUBSET refs |-> pick(T)]
<1>1. RemoveFolded(st, refs) = f[refs]
  BY Zenon DEF RemoveFolded, FoldSet, MapThenFoldSet
<1>2. \A x, k : step(x, k) = Stage(t, x, k)
  BY DEF Stage
<1>3. Chooses(ch, refs) /\ \A T \in SUBSET refs : ch[T] = pick(T)
  <2>1. \A T : T # {} => pick(T) \in T
    OBVIOUS
  <2> QED BY <2>1 DEF Chooses
<1>4. \A T \in SUBSET refs : T # {} => \A x \in G[T \ {ch[T]}] : Stage(t, x, ch[T]) \in G[T]
  BY <1>2, <1>3 DEF Chooses
<1> HIDE DEF t, step, ch
<1>5. PICK g : SetFolds(g, t, st, refs, ch)
  BY <1>3, FoldsExist
<1> HIDE DEF pick
<1>6. g = [T \in SUBSET refs |-> IF T = {} THEN st ELSE step(g[T \ {pick(T)}], pick(T))]
  BY <1>2, <1>3, <1>5 DEF SetFolds
<1>7. f = [T \in SUBSET refs |-> IF T = {} THEN st ELSE step(f[T \ {pick(T)}], pick(T))]
  BY <1>6, Zenon
<1> HIDE DEF f
<1>8. SetFolds(f, t, st, refs, ch)
  BY <1>2, <1>3, <1>7 DEF SetFolds
<1>9. f[refs] \in G[refs]
  BY <1>3, <1>4, <1>8, SetFold
<1> QED BY <1>1, <1>9

\* A solver from which the clauses gone were removed, and which reasons were.
SmudgedBy(st, gone) == UNION {Lists(st, cr) : cr \in gone}

RemovedFrom(st, x, gone) ==
  /\ x.db = st.db /\ x.oneWatched = st.oneWatched
  /\ x.watches = st.watches /\ x.watchesBin = st.watchesBin /\ x.unaryWatches = st.unaryWatches
  /\ x.deleted = st.deleted \cup gone
  /\ x.dirty = st.dirty \cup SmudgedBy(st, gone)
  /\ x.assigns = st.assigns /\ x.level = st.level /\ x.trail = st.trail /\ x.trailLim = st.trailLim
  /\ x.qhead = st.qhead /\ x.confl = st.confl /\ x.decision = st.decision /\ x.orderHeap = st.orderHeap
  /\ \A v \in Vars : x.reason[v] = st.reason[v] \/ (x.reason[v] = NoRef /\ \E cr \in gone : Locked(st, cr))

SameListed(st, x) ==
  x.clauses = st.clauses /\ x.learnts = st.learnts /\ x.unaryWatchedClauses = st.unaryWatchedClauses

LEMMA ListsType ==
  ASSUME NEW st \in Solver, NEW cr \in DOMAIN st.db
  PROVE  Lists(st, cr) \subseteq Kinds \X Lits
<1>1. st.db[cr][1] \in Lits /\ st.db[cr][2] \in Lits
  BY ClauseFacts
<1>2. -st.db[cr][1] \in Lits /\ -st.db[cr][2] \in Lits
  BY <1>1, LitFacts
<1> QED BY <1>2 DEF Lists, Kinds

LEMMA LockedSame ==
  ASSUME NEW st \in Solver, NEW x, NEW gone, RemovedFrom(st, x, gone), NEW cr \in DOMAIN st.db, Locked(x, cr)
  PROVE  Locked(st, cr)
<1>1. cr # NoRef
  BY ClauseFacts DEF NoRef
<1>2. \A l : Value(x, l) = Value(st, l)
  BY DEF Value, RemovedFrom
<1>3. st.db[cr][1] \in Lits /\ st.db[cr][2] \in Lits
  BY ClauseFacts
<1>4. \A l \in Lits : x.reason[Var(l)] = cr => st.reason[Var(l)] = cr
  BY <1>1, LitFacts DEF RemovedFrom
<1>5. x.db = st.db
  BY DEF RemovedFrom
<1> QED BY <1>2, <1>3, <1>4, <1>5 DEF Locked

LEMMA RemoveStep ==
  ASSUME NEW st \in Solver, NEW T, NEW cr \in T, cr \in DOMAIN st.db,
         NEW x \in Solver, RemovedFrom(st, x, T \ {cr}), SameListed(st, x),
         NEW new, new = RemoveClause(x, cr)
  PROVE  new \in Solver /\ RemovedFrom(st, new, T) /\ SameListed(st, new)
<1> DEFINE d == x.dirty \cup Lists(x, cr)
           g == x.deleted \cup {cr}
           v == Var(x.db[cr][1])
           freed == [x EXCEPT !.dirty = d, !.deleted = g]
           r == [x.reason EXCEPT ![v] = NoRef]
<1>1. x.db = st.db /\ x.oneWatched = st.oneWatched
  BY DEF RemovedFrom
<1>2. Lists(x, cr) = Lists(st, cr)
  BY <1>1 DEF Lists
<1>3. d \in SUBSET (Kinds \X Lits) /\ g \in References
  <2>1. cr \in Nat
    BY ClauseFacts
  <2> QED BY <1>2, <2>1, ListsType DEF Solver, References
<1>4. v \in Vars /\ r \in [Vars -> Nat] /\ \A u \in Vars : r[u] = IF u = v THEN NoRef ELSE x.reason[u]
  <2>1. v \in Vars
    BY <1>1, ClauseFacts, LitFacts
  <2>2. x.reason \in [Vars -> Nat] /\ NoRef \in Nat
    BY DEF Solver, NoRef
  <2> HIDE DEF v
  <2> QED BY <2>1, <2>2
<1>5. new = IF Locked(x, cr) THEN [freed EXCEPT !.reason[v] = NoRef] ELSE freed
  BY DEF RemoveClause, DetachClause, Solver
<1>6. /\ d = st.dirty \cup SmudgedBy(st, T) /\ g = st.deleted \cup T
  <2>1. SmudgedBy(st, T) = SmudgedBy(st, T \ {cr}) \cup Lists(st, cr)
    BY DEF SmudgedBy
  <2> QED BY <2>1, <1>2 DEF RemovedFrom
<1> HIDE DEF d, g, v
<1>7. CASE Locked(x, cr)
  <2>1. new = [x EXCEPT !.dirty = d, !.deleted = g, !.reason = r]
    BY <1>5, <1>7 DEF Solver
  <2> HIDE DEF r
  <2>2. new \in Solver
    BY ONLY <2>1, <1>3, <1>4, x \in Solver DEF Solver
  <2>3. /\ SameListed(x, new) /\ new.db = x.db /\ new.oneWatched = x.oneWatched
        /\ new.watches = x.watches /\ new.watchesBin = x.watchesBin /\ new.unaryWatches = x.unaryWatches
        /\ new.deleted = g /\ new.dirty = d /\ new.reason = r
        /\ new.assigns = x.assigns /\ new.level = x.level /\ new.trail = x.trail /\ new.trailLim = x.trailLim
        /\ new.qhead = x.qhead /\ new.confl = x.confl /\ new.decision = x.decision /\ new.orderHeap = x.orderHeap
    BY ONLY <2>1, x \in Solver DEF Solver, SameListed
  <2>4. Locked(st, cr)
    BY <1>7, LockedSame
  <2>5. \A u \in Vars : new.reason[u] = st.reason[u] \/ (new.reason[u] = NoRef /\ \E y \in T : Locked(st, y))
    BY <2>3, <2>4, <1>4 DEF RemovedFrom
  <2> QED BY <2>2, <2>3, <2>5, <1>6 DEF RemovedFrom, SameListed
<1>8. CASE ~Locked(x, cr)
  <2>1. new = [x EXCEPT !.dirty = d, !.deleted = g]
    BY <1>5, <1>8
  <2>2. new \in Solver
    BY ONLY <2>1, <1>3, x \in Solver DEF Solver
  <2>3. /\ SameListed(x, new) /\ new.db = x.db /\ new.oneWatched = x.oneWatched
        /\ new.watches = x.watches /\ new.watchesBin = x.watchesBin /\ new.unaryWatches = x.unaryWatches
        /\ new.deleted = g /\ new.dirty = d /\ new.reason = x.reason
        /\ new.assigns = x.assigns /\ new.level = x.level /\ new.trail = x.trail /\ new.trailLim = x.trailLim
        /\ new.qhead = x.qhead /\ new.confl = x.confl /\ new.decision = x.decision /\ new.orderHeap = x.orderHeap
    BY ONLY <2>1, x \in Solver DEF Solver, SameListed
  <2>5. \A u \in Vars : new.reason[u] = st.reason[u] \/ (new.reason[u] = NoRef /\ \E y \in T : Locked(st, y))
    BY <2>3 DEF RemovedFrom
  <2> QED BY <2>2, <2>3, <2>5, <1>6 DEF RemovedFrom, SameListed
<1> QED BY <1>7, <1>8

LEMMA RemoveClausesFields ==
  ASSUME NEW st \in Solver, NEW refs \in SUBSET DOMAIN st.db, NEW new, new = RemoveClauses(st, refs)
  PROVE  /\ new \in Solver /\ RemovedFrom(st, new, refs)
         /\ new.clauses = st.clauses \ refs /\ new.learnts = st.learnts \ refs
         /\ new.unaryWatchedClauses = st.unaryWatchedClauses \ refs
<1> DEFINE G == [T \in SUBSET refs |-> {x \in Solver : RemovedFrom(st, x, T) /\ SameListed(st, x)}]
           x == RemoveFolded(st, refs)
<1>1. IsFiniteSet(refs)
  <2>1. st.db \in Seq(Clauses)
    BY DEF Solver
  <2>2. DOMAIN st.db = 1 .. Len(st.db) /\ Len(st.db) \in Nat
    BY <2>1
  <2>3. IsFiniteSet(DOMAIN st.db)
    BY <2>2, FS_Interval
  <2> QED BY <2>3, FS_Subset
<1>2. st \in G[{}]
  <2>1. SmudgedBy(st, {}) = {}
    BY DEF SmudgedBy
  <2> QED BY <2>1 DEF RemovedFrom, SameListed
<1>3. ASSUME NEW T \in SUBSET refs, NEW cr \in T, NEW y \in G[T \ {cr}]
      PROVE  RemoveClause(y, cr) \in G[T]
  <2>1. T \ {cr} \in SUBSET refs
    OBVIOUS
  <2>2. y \in Solver /\ RemovedFrom(st, y, T \ {cr}) /\ SameListed(st, y)
    BY <2>1
  <2>3. cr \in DOMAIN st.db
    OBVIOUS
  <2> DEFINE z == RemoveClause(y, cr)
  <2> HIDE DEF z
  <2>4. z \in Solver /\ RemovedFrom(st, z, T) /\ SameListed(st, z)
    BY <2>2, <2>3, RemoveStep DEF z
  <2> QED BY <2>4 DEF z
<1>4. x \in G[refs]
  <2> HIDE DEF G
  <2> QED BY <1>1, <1>2, <1>3, RemoveFold
<1>5. x \in Solver /\ RemovedFrom(st, x, refs) /\ SameListed(st, x)
  BY <1>4
<1>6. new = [x EXCEPT !.clauses = @ \ refs, !.learnts = @ \ refs, !.unaryWatchedClauses = @ \ refs]
  BY DEF RemoveClauses, RemoveFolded
<1> HIDE DEF x
<1>7. x.clauses \ refs \in References /\ x.learnts \ refs \in References /\ x.unaryWatchedClauses \ refs \in References
  BY <1>5 DEF Solver, References
<1>8. new \in Solver
  BY ZenonT(40), <1>5, <1>6, <1>7 DEF Solver
<1>9. /\ new.clauses = x.clauses \ refs /\ new.learnts = x.learnts \ refs
      /\ new.unaryWatchedClauses = x.unaryWatchedClauses \ refs
  BY <1>5, <1>6 DEF Solver
<1>10. RemovedFrom(st, new, refs)
  BY <1>5, <1>6 DEF Solver, RemovedFrom
<1> QED BY <1>5, <1>8, <1>9, <1>10 DEF SameListed

\* Clauses are removed: without a decision any of them, else long ones that
\* are not reasons.
LEMMA RemoveClausesStep ==
  ASSUME NEW st, NEW M, Sound(st, M), HeapFull(st), NEW refs \in SUBSET Live(st),
         \/ DecisionLevel(st) = 0
         \/ \A cr \in refs : Len(st.db[cr]) > 2 /\ ~Locked(st, cr),
         NEW new, new = RemoveClauses(st, refs)
  PROVE  /\ Sound(new, M) /\ HeapFull(new)
         /\ new.qhead = st.qhead /\ new.confl = st.confl
         /\ new.trail = st.trail /\ new.trailLim = st.trailLim /\ new.assigns = st.assigns
         /\ new.decision = st.decision
<1>1. /\ st \in Solver /\ Stored(st) /\ OnTrail(st) /\ Levelled(st) /\ Decided(st)
      /\ Reasoned(st) /\ Pending(st) /\ Implied(st, M) /\ Core(st, M) /\ Watching(st)
  BY CoreFacts DEF Sound
<1>2. /\ new \in Solver /\ RemovedFrom(st, new, refs)
      /\ new.clauses = st.clauses \ refs /\ new.learnts = st.learnts \ refs
      /\ new.unaryWatchedClauses = st.unaryWatchedClauses \ refs
  <2>1. refs \in SUBSET DOMAIN st.db
    BY DEF Live
  <2> QED BY <1>1, <2>1, RemoveClausesFields
<1>3. /\ new.db = st.db /\ new.oneWatched = st.oneWatched
      /\ new.watches = st.watches /\ new.watchesBin = st.watchesBin /\ new.unaryWatches = st.unaryWatches
      /\ new.deleted = st.deleted \cup refs
      /\ new.dirty = st.dirty \cup SmudgedBy(st, refs)
      /\ new.assigns = st.assigns /\ new.level = st.level /\ new.trail = st.trail /\ new.trailLim = st.trailLim
      /\ new.qhead = st.qhead /\ new.confl = st.confl /\ new.decision = st.decision /\ new.orderHeap = st.orderHeap
      /\ \A v \in Vars : new.reason[v] = st.reason[v] \/ (new.reason[v] = NoRef /\ \E cr \in refs : Locked(st, cr))
  BY <1>2 DEF RemovedFrom
<1>4. /\ \A l : Value(new, l) = Value(st, l)
      /\ \A l : Level(new, l) = Level(st, l)
      /\ DecisionLevel(new) = DecisionLevel(st)
  BY <1>3 DEF Value, Level, DecisionLevel
<1>5. Live(new) = Live(st) \ refs
  BY <1>3 DEF Live
<1>6. Stored(new)
  <2>1. Live(new) = new.clauses \cup new.learnts \cup new.unaryWatchedClauses
    BY <1>1, <1>2, <1>5 DEF Stored
  <2>2. new.oneWatched \cap Live(new) \subseteq new.unaryWatchedClauses
    BY <1>1, <1>2, <1>3, <1>5 DEF Stored
  <2>3. new.deleted \subseteq DOMAIN new.db
    BY <1>1, <1>3 DEF Stored, Live
  <2> QED BY <2>1, <2>2, <2>3, <1>1, <1>3 DEF Stored
<1>7. OnTrail(new) /\ Levelled(new) /\ Pending(new) /\ Implied(new, M)
  <2>1. OnTrail(new)
    BY <1>1, <1>3, <1>4 DEF OnTrail
  <2>2. Levelled(new)
    BY <1>1, <1>3, <1>4 DEF Levelled
  <2>3. Pending(new)
    BY <1>1, <1>3, <1>4 DEF Pending
  <2>4. Implied(new, M)
    BY <1>1, <1>3, <1>4 DEF Implied
  <2> QED BY <2>1, <2>2, <2>3, <2>4
<1>8. /\ DOMAIN st.trail = 1 .. Len(st.trail) /\ \A k \in DOMAIN st.trail : st.trail[k] \in Lits
      /\ \A l \in Lits : Level(st, l) \in Nat
  BY <1>1, TrailFacts
<1>9. \A k \in DOMAIN st.trail : DecisionLevel(st) = 0 => ~(Level(st, st.trail[k]) > 0)
  BY <1>1, <1>8 DEF Levelled
<1>10. Decided(new)
  <2>1. \A v \in Vars : new.assigns[v] = Undef => new.reason[v] = NoRef
    BY <1>1, <1>3 DEF Decided
  <2>2. ASSUME NEW k \in DOMAIN new.trail, Level(new, new.trail[k]) > 0,
               new.reason[Var(new.trail[k])] = NoRef
        PROVE  k = new.trailLim[Level(new, new.trail[k])] + 1
    <3>1. k \in DOMAIN st.trail /\ Level(st, st.trail[k]) > 0 /\ DecisionLevel(st) # 0
      BY <1>3, <1>4, <1>9, <2>2
    <3>2. st.reason[Var(st.trail[k])] = NoRef
      BY <1>3, <1>8, <2>2, <3>1, LitFacts
    <3> QED BY <1>1, <1>3, <1>4, <3>1, <3>2 DEF Decided
  <2> QED BY <2>1, <2>2 DEF Decided
<1>11. Reasoned(new)
  <2> SUFFICES ASSUME NEW k \in DOMAIN new.trail, NEW l, l = new.trail[k], NEW r, r = new.reason[Var(l)], r # NoRef
               PROVE  /\ r \in DOMAIN new.db
                      /\ Level(new, l) > 0 => r \notin new.deleted
                      /\ Forces(new, new.db[r], l, k)
    BY DEF Reasoned
  <2>1. k \in DOMAIN st.trail /\ l = st.trail[k] /\ l \in Lits /\ Var(l) \in Vars
    BY <1>3, <1>8, LitFacts
  <2>2. r = st.reason[Var(l)]
    BY <1>3, <2>1
  <2>3. r \in DOMAIN st.db /\ (Level(st, l) > 0 => r \notin st.deleted) /\ Forces(st, st.db[r], l, k)
    BY <1>1, <2>1, <2>2 DEF Reasoned
  <2>4. Forces(new, new.db[r], l, k)
    <3>1. \A j \in 1 .. k - 1 : new.trail[j] = st.trail[j]
      BY <1>3
    <3>2. Forces(new, st.db[r], l, k)
      BY SMTT(30), <2>3, <3>1, ForcesFrame
    <3> QED BY <1>3, <3>2
  <2>5. ASSUME Level(new, l) > 0 PROVE r \notin refs
    <3> SUFFICES ASSUME r \in refs PROVE FALSE
      OBVIOUS
    <3>1. Len(st.db[r]) > 2 /\ ~Locked(st, r)
      BY <1>4, <1>9, <2>1, <2>5
    <3>4. Len(st.db[r]) \in Nat
      BY <1>1, <2>3, ClauseFacts
    <3>5. \A n \in Nat : n > 2 => n # 2
      OBVIOUS
    <3>0. Len(st.db[r]) # 2
      BY ONLY <3>1, <3>4, <3>5, Zenon
    <3>2. l = st.db[r][1]
      BY <2>3, <3>0 DEF Forces
    <3>3. Value(st, l) = True
      BY <1>1, <2>1 DEF OnTrail
    <3> QED BY <2>2, <3>1, <3>2, <3>3 DEF Locked
  <2> QED BY <1>3, <1>4, <2>3, <2>4, <2>5
<1>12. ASSUME NEW kind \in Kinds, NEW l \in Lits
       PROVE  WellListed(new, kind, l, ListOf(new, kind, l))
  <2> DEFINE ws == ListOf(st, kind, l)
  <2>1. WellListed(st, kind, l, ws) /\ ListOf(new, kind, l) = ws
    BY <1>1, <1>3 DEF Watching, ListOf
  <2> HIDE DEF ws
  <2>2. Attached(new, kind, l) = Attached(st, kind, l) \ refs
    BY <1>3, <1>5 DEF Attached, Lists
  <2>3. Crefs(ws) \ new.deleted = Attached(new, kind, l)
    BY <1>3, <2>1, <2>2 DEF WellListed
  <2>4. ASSUME NEW cr \in Crefs(ws), cr \in new.deleted
        PROVE  <<kind, l>> \in new.dirty
    <3>1. CASE cr \in st.deleted
      BY <1>3, <2>1, <3>1 DEF WellListed
    <3>2. CASE cr \notin st.deleted
      <4>1. cr \in refs /\ cr \in Attached(st, kind, l)
        BY <1>3, <2>1, <2>4, <3>2 DEF WellListed
      <4>2. <<kind, l>> \in Lists(st, cr)
        BY <4>1 DEF Attached
      <4> QED BY <1>3, <4>1, <4>2 DEF SmudgedBy
    <3> QED BY <3>1, <3>2
  <2>5. Crefs(ws) \cap new.deleted # {} => <<kind, l>> \in new.dirty
    BY <2>4
  <2> QED BY <1>3, <2>1, <2>3, <2>5 DEF WellListed
<1>13. Sound(new, M)
  BY <1>2, <1>6, <1>7, <1>10, <1>11, <1>12 DEF Sound, Core, Watching
<1>14. HeapFull(new)
  BY <1>3 DEF HeapFull
<1> QED BY <1>3, <1>13, <1>14

-----------------------------------------------------------------------------
(* Ranks.                                                                  *)

\* The ranks of the elements of a set by a key that tells them apart.
LEMMA RankFacts ==
  ASSUME NEW R, IsFiniteSet(R), NEW key, \A r \in R : key[r] \in Int,
         \A q, r \in R : key[q] = key[r] => q = r,
         NEW to, to = [r \in R |-> Cardinality({m \in R : key[m] <= key[r]})],
         NEW n, n = Cardinality(R)
  PROVE  /\ n \in Nat
         /\ \A r \in R : to[r] \in 1 .. n
         /\ \A q, r \in R : to[q] = to[r] => q = r
         /\ \A i \in 1 .. n : \E r \in R : to[r] = i
         /\ \A q, r \in R : key[q] < key[r] => to[q] < to[r]
<1> DEFINE B(r) == {m \in R : key[m] <= key[r]}
<1>1. n \in Nat
  BY FS_CardinalityType
<1>2. ASSUME NEW r \in R PROVE IsFiniteSet(B(r)) /\ to[r] = Cardinality(B(r)) /\ to[r] \in 1 .. n
  <2>1. B(r) \subseteq R /\ r \in B(r)
    OBVIOUS
  <2>2. to[r] = Cardinality(B(r))
    OBVIOUS
  <2> HIDE DEF B
  <2>3. IsFiniteSet(B(r)) /\ Cardinality(B(r)) \in Nat /\ Cardinality(B(r)) <= n
    BY <2>1, FS_Subset, FS_CardinalityType
  <2>4. Cardinality(B(r)) # 0
    BY <2>1, <2>3, FS_EmptySet
  <2> QED BY <1>1, <2>2, <2>3, <2>4
<1>3. ASSUME NEW q \in R, NEW r \in R, key[q] < key[r] PROVE to[q] < to[r]
  <2>1. B(q) \subseteq B(r) /\ r \in B(r) /\ r \notin B(q)
    BY <1>3
  <2> HIDE DEF B
  <2>2. Cardinality(B(q)) <= Cardinality(B(r)) /\ Cardinality(B(q)) # Cardinality(B(r))
    <3>1. B(q) # B(r)
      BY <2>1
    <3> QED BY <1>2, <2>1, <3>1, FS_Subset
  <2> QED BY <1>1, <1>2, <2>2
<1>4. ASSUME NEW q \in R, NEW r \in R, to[q] = to[r] PROVE q = r
  <2>1. key[q] < key[r] \/ key[r] < key[q] \/ key[q] = key[r]
    OBVIOUS
  <2>2. ~(key[q] < key[r]) /\ ~(key[r] < key[q])
    <3>0. to[q] \in 1 .. n /\ to[r] \in 1 .. n
      BY <1>2
    <3>1. to[q] \in Int /\ to[r] \in Int
      BY ONLY <3>0, <1>1
    <3>2. key[q] < key[r] => to[q] < to[r]
      BY <1>3
    <3>3. key[r] < key[q] => to[r] < to[q]
      BY <1>3
    <3> QED BY ONLY <3>1, <3>2, <3>3, <1>4
  <2> QED BY <2>1, <2>2
<1>5. ASSUME NEW i \in 1 .. n PROVE \E r \in R : to[r] = i
  <2>1. to \in [R -> 1 .. n]
    BY <1>2
  <2>2. to \in Injection(R, 1 .. n)
    BY <1>4, <2>1 DEF Injection, IsInjective
  <2>3. IsFiniteSet(1 .. n) /\ Cardinality(1 .. n) = n
    BY <1>1, FS_Interval
  <2>4. to \in Surjection(R, 1 .. n)
    BY <2>2, <2>3, FS_Injection
  <2> QED BY <2>4 DEF Surjection
<1> QED BY <1>1, <1>2, <1>3, <1>4, <1>5

-----------------------------------------------------------------------------
(* Compaction.                                                             *)

\* The clauses of R have moved, and everything that refers to them.
MovedBy(st, new, to, R) ==
  /\ DOMAIN to = R /\ Live(st) \subseteq R /\ R \subseteq DOMAIN st.db
  /\ \A q, r \in R : to[q] = to[r] => q = r
  /\ DOMAIN new.db = {to[r] : r \in R}
  /\ \A r \in R : to[r] \in Nat \ {0} /\ new.db[to[r]] = st.db[r]
  /\ new.deleted = {to[r] : r \in st.deleted \cap R}
  /\ new.oneWatched = {to[r] : r \in st.oneWatched \cap R}
  /\ new.clauses = {to[r] : r \in st.clauses \cap R}
  /\ new.learnts = {to[r] : r \in st.learnts \cap R}
  /\ new.unaryWatchedClauses = {to[r] : r \in st.unaryWatchedClauses \cap R}
  /\ \A kind \in Kinds : \A l \in Lits :
       /\ DOMAIN ListOf(new, kind, l) = DOMAIN ListOf(st, kind, l)
       /\ \A i \in DOMAIN ListOf(st, kind, l) :
            ListOf(new, kind, l)[i] = Watcher(to[ListOf(st, kind, l)[i].cref], ListOf(st, kind, l)[i].blocker)
  /\ \A v \in Vars : IF st.reason[v] = NoRef THEN new.reason[v] = NoRef
                     ELSE st.reason[v] \in R /\ new.reason[v] = to[st.reason[v]]
  /\ new.dirty = {} /\ st.dirty = {}
  /\ new.assigns = st.assigns /\ new.level = st.level /\ new.trail = st.trail /\ new.trailLim = st.trailLim
  /\ new.qhead = st.qhead /\ new.confl = NoRef /\ new.decision = st.decision /\ new.orderHeap = st.orderHeap

LEMMA MoveCore ==
  ASSUME NEW st, NEW M, Core(st, M), NEW new \in Solver, NEW to, NEW R, MovedBy(st, new, to, R)
  PROVE  Core(new, M)
<1>1. /\ st \in Solver /\ Stored(st) /\ OnTrail(st) /\ Levelled(st) /\ Decided(st)
      /\ Reasoned(st) /\ Pending(st) /\ Implied(st, M)
  BY CoreFacts
<1>2. /\ DOMAIN to = R /\ Live(st) \subseteq R /\ R \subseteq DOMAIN st.db
      /\ \A q, r \in R : to[q] = to[r] => q = r
      /\ DOMAIN new.db = {to[r] : r \in R}
      /\ \A r \in R : to[r] \in Nat \ {0} /\ new.db[to[r]] = st.db[r]
      /\ new.deleted = {to[r] : r \in st.deleted \cap R}
      /\ new.oneWatched = {to[r] : r \in st.oneWatched \cap R}
      /\ new.clauses = {to[r] : r \in st.clauses \cap R}
      /\ new.learnts = {to[r] : r \in st.learnts \cap R}
      /\ new.unaryWatchedClauses = {to[r] : r \in st.unaryWatchedClauses \cap R}
  BY DEF MovedBy
<1>3. /\ \A v \in Vars : IF st.reason[v] = NoRef THEN new.reason[v] = NoRef
                         ELSE st.reason[v] \in R /\ new.reason[v] = to[st.reason[v]]
      /\ new.assigns = st.assigns /\ new.level = st.level /\ new.trail = st.trail /\ new.trailLim = st.trailLim
      /\ new.qhead = st.qhead /\ new.confl = NoRef
  BY DEF MovedBy
<1> HIDE DEF MovedBy
<1>4. /\ \A l : Value(new, l) = Value(st, l)
      /\ \A l : Level(new, l) = Level(st, l)
      /\ DecisionLevel(new) = DecisionLevel(st)
  BY <1>3 DEF Value, Level, DecisionLevel
<1>5. \A r \in R : to[r] \in new.deleted <=> r \in st.deleted
  BY <1>2
<1>6. Live(new) = {to[r] : r \in Live(st)}
  <2>1. \A r \in R : to[r] \in Live(new) <=> r \in Live(st)
    BY <1>2, <1>5 DEF Live
  <2>2. Live(new) \subseteq {to[r] : r \in R}
    BY <1>2 DEF Live
  <2> QED BY <1>2, <2>1, <2>2
<1>7. Stored(new)
  <2>1. \A cr \in DOMAIN new.db : DistinctVars(new.db[cr])
    BY <1>1, <1>2 DEF Stored
  <2>2. new.deleted \subseteq DOMAIN new.db /\ new.oneWatched \subseteq DOMAIN new.db
    BY <1>2
  <2>3. Live(new) = new.clauses \cup new.learnts \cup new.unaryWatchedClauses
    <3>1. Live(st) = st.clauses \cup st.learnts \cup st.unaryWatchedClauses
      BY <1>1 DEF Stored
    <3> QED BY <3>1, <1>2, <1>6
  <2>4. new.oneWatched \cap Live(new) \subseteq new.unaryWatchedClauses
    <3>1. st.oneWatched \cap Live(st) \subseteq st.unaryWatchedClauses
      BY <1>1 DEF Stored
    <3> QED BY <3>1, <1>2, <1>6
  <2>5. \A cr \in new.oneWatched : Len(new.db[cr]) > 2
    <3>1. \A cr \in st.oneWatched : Len(st.db[cr]) > 2
      BY <1>1 DEF Stored
    <3> QED BY <3>1, <1>2
  <2> QED BY <2>1, <2>2, <2>3, <2>4, <2>5, <1>3 DEF Stored
<1>8. OnTrail(new) /\ Levelled(new) /\ Pending(new)
  <2>1. OnTrail(new)
    BY <1>1, <1>3, <1>4 DEF OnTrail
  <2>2. Levelled(new)
    BY <1>1, <1>3, <1>4 DEF Levelled
  <2>3. Pending(new)
    BY <1>1, <1>3, <1>4 DEF Pending
  <2> QED BY <2>1, <2>2, <2>3
<1>9. Implied(new, M)
  <2>1. \A m \in M : \A k \in DOMAIN new.trail : Level(new, new.trail[k]) = 0 => Satisfies(m, {new.trail[k]})
    BY <1>1, <1>3, <1>4 DEF Implied
  <2>2. \A m \in M : \A cr \in DOMAIN new.db : Satisfies(m, ToSet(new.db[cr]))
    BY <1>1, <1>2 DEF Implied
  <2> QED BY <2>1, <2>2 DEF Implied
<1>10. \A k \in DOMAIN st.trail : st.trail[k] \in Lits /\ Var(st.trail[k]) \in Vars
  BY <1>1, TrailFacts, LitFacts
<1>11. \A v \in Vars : new.reason[v] = NoRef <=> st.reason[v] = NoRef
  BY <1>2, <1>3 DEF NoRef
<1>12. Decided(new)
  <2>1. \A v \in Vars : new.assigns[v] = Undef => new.reason[v] = NoRef
    BY <1>1, <1>3 DEF Decided
  <2>2. ASSUME NEW k \in DOMAIN new.trail, Level(new, new.trail[k]) > 0,
               new.reason[Var(new.trail[k])] = NoRef
        PROVE  k = new.trailLim[Level(new, new.trail[k])] + 1
    <3>1. k \in DOMAIN st.trail /\ Level(st, st.trail[k]) > 0 /\ st.reason[Var(st.trail[k])] = NoRef
      BY <1>3, <1>4, <1>10, <1>11, <2>2
    <3> QED BY <1>1, <1>3, <1>4, <3>1 DEF Decided
  <2> QED BY <2>1, <2>2 DEF Decided
<1>13. Reasoned(new)
  <2> SUFFICES ASSUME NEW k \in DOMAIN new.trail, NEW l, l = new.trail[k], NEW r, r = new.reason[Var(l)], r # NoRef
               PROVE  /\ r \in DOMAIN new.db
                      /\ Level(new, l) > 0 => r \notin new.deleted
                      /\ Forces(new, new.db[r], l, k)
    BY DEF Reasoned
  <2> DEFINE q == st.reason[Var(l)]
  <2>1. k \in DOMAIN st.trail /\ l = st.trail[k] /\ Var(l) \in Vars
    BY <1>3, <1>10
  <2>2. q # NoRef /\ q \in R /\ r = to[q]
    BY <1>3, <1>11, <2>1
  <2>3. q \in DOMAIN st.db /\ (Level(st, l) > 0 => q \notin st.deleted) /\ Forces(st, st.db[q], l, k)
    BY <1>1, <2>1, <2>2 DEF Reasoned
  <2>4. Forces(new, st.db[q], l, k)
    <3>1. \A j \in 1 .. k - 1 : new.trail[j] = st.trail[j]
      BY <1>3
    <3> QED BY <2>3, <3>1, ForcesFrame
  <2> HIDE DEF q
  <2> QED BY <1>2, <1>4, <1>5, <2>2, <2>3, <2>4
<1> QED BY <1>7, <1>8, <1>9, <1>12, <1>13 DEF Core

LEMMA MoveWatching ==
  ASSUME NEW st, NEW M, Sound(st, M), NEW new \in Solver, NEW to, NEW R, MovedBy(st, new, to, R)
  PROVE  Watching(new)
<1>1. st \in Solver /\ Stored(st) /\ Watching(st) /\ st.dirty = {}
  BY CoreFacts DEF Sound, MovedBy
<1>2. /\ DOMAIN to = R /\ Live(st) \subseteq R /\ R \subseteq DOMAIN st.db
      /\ \A q, r \in R : to[q] = to[r] => q = r
      /\ DOMAIN new.db = {to[r] : r \in R}
      /\ \A r \in R : new.db[to[r]] = st.db[r]
      /\ new.deleted = {to[r] : r \in st.deleted \cap R}
      /\ new.oneWatched = {to[r] : r \in st.oneWatched \cap R}
  BY DEF MovedBy
<1>3. \A r \in R : /\ to[r] \in new.deleted <=> r \in st.deleted
                   /\ to[r] \in new.oneWatched <=> r \in st.oneWatched
                   /\ to[r] \in Live(new) <=> r \in Live(st)
  BY <1>2 DEF Live
<1> SUFFICES ASSUME NEW kind \in Kinds, NEW l \in Lits
             PROVE  WellListed(new, kind, l, ListOf(new, kind, l))
  BY DEF Watching
<1> DEFINE ws == ListOf(st, kind, l)
           ws2 == ListOf(new, kind, l)
<1>4. /\ DOMAIN ws2 = DOMAIN ws
      /\ \A i \in DOMAIN ws : ws2[i] = Watcher(to[ws[i].cref], ws[i].blocker)
  BY DEF MovedBy
<1>5. \A i \in DOMAIN ws : ws2[i].cref = to[ws[i].cref] /\ ws2[i].blocker = ws[i].blocker
  BY <1>4 DEF Watcher
<1>6. ws \in Seq(Watchers) /\ ws2 \in Seq(Watchers) /\ WellListed(st, kind, l, ws)
  BY <1>1, ListFacts DEF Watching
<1> HIDE DEF ws, ws2
<1>7. /\ Once(ws) /\ Crefs(ws) = Attached(st, kind, l) /\ Crefs(ws) \cap st.deleted = {}
      /\ \A w \in ToSet(ws) : /\ w.blocker \in ToSet(st.db[w.cref])
                              /\ kind = "binary" => ToSet(st.db[w.cref]) = {-l, w.blocker}
  BY <1>1, <1>6 DEF WellListed, Attached, Live
<1>8. \A i \in DOMAIN ws : ws[i].cref \in Live(st) /\ ws[i].cref \in R
  BY <1>2, <1>7, CrefFacts DEF Attached
<1>9. Once(ws2)
  BY <1>2, <1>4, <1>5, <1>7, <1>8 DEF Once
<1>10. \A r \in R : Lists(new, to[r]) = Lists(st, r)
  BY <1>2, <1>3 DEF Lists
<1>11. Crefs(ws2) \subseteq Live(new)
  BY <1>3, <1>4, <1>5, <1>8, CrefFacts
<1>12. Crefs(ws2) = Attached(new, kind, l)
  <2>1. ASSUME NEW x \in Crefs(ws2) PROVE x \in Attached(new, kind, l)
    <3>1. PICK i \in DOMAIN ws : x = to[ws[i].cref]
      BY <1>4, <1>5, CrefFacts
    <3>2. ws[i].cref \in Attached(st, kind, l)
      BY <1>7, CrefFacts
    <3> QED BY <1>8, <1>10, <1>11, <3>1, <3>2 DEF Attached
  <2>2. ASSUME NEW x \in Attached(new, kind, l) PROVE x \in Crefs(ws2)
    <3>1. x \in Live(new) /\ <<kind, l>> \in Lists(new, x)
      BY <2>2 DEF Attached
    <3>2. PICK r \in R : x = to[r]
      BY <1>2, <3>1 DEF Live
    <3>3. r \in Crefs(ws)
      BY <1>3, <1>7, <1>10, <3>1, <3>2 DEF Attached
    <3>4. PICK i \in DOMAIN ws : ws[i].cref = r
      BY <3>3, CrefFacts
    <3> QED BY <1>4, <1>5, <3>2, <3>4, CrefFacts
  <2> QED BY <2>1, <2>2
<1>13. Crefs(ws2) \cap new.deleted = {}
  BY <1>11 DEF Live
<1>14. ASSUME NEW w \in ToSet(ws2)
       PROVE  /\ w.blocker \in ToSet(new.db[w.cref])
              /\ kind = "binary" => ToSet(new.db[w.cref]) = {-l, w.blocker}
  <2>1. PICK i \in DOMAIN ws2 : ws2[i] = w
    BY <1>6, SeqFacts
  <2>2. w.cref = to[ws[i].cref] /\ w.blocker = ws[i].blocker /\ ws[i] \in ToSet(ws) /\ ws[i].cref \in R
    BY <1>4, <1>5, <1>6, <1>8, <2>1, SeqFacts
  <2> QED BY <1>2, <1>7, <2>2
<1> QED BY <1>9, <1>12, <1>13, <1>14 DEF WellListed, ws2

\* What is reached, to be moved.
Reached(st) == MovedEarly(st, {}) \cup st.learnts \cup st.clauses \cup st.unaryWatchedClauses

\* Every reason is found through its literal.
LEMMA ReasonsLocked ==
  ASSUME NEW st \in Solver, OnTrail(st), Reasoned(st), Decided(st), NEW v \in Vars, st.reason[v] # NoRef
  PROVE  /\ st.assigns[v] # Undef /\ st.reason[v] \in DOMAIN st.db
         /\ st.reason[v] \in MovedEarly(st, {})
<1>1. st.assigns[v] # Undef
  BY DEF Decided
<1>2. PICK k \in DOMAIN st.trail : Var(st.trail[k]) = v
  BY <1>1 DEF OnTrail
<1> DEFINE l == st.trail[k]
           r == st.reason[v]
<1>3. r \in DOMAIN st.db /\ Forces(st, st.db[r], l, k)
  BY <1>2 DEF Reasoned
<1>4. Value(st, l) = True /\ st.reason[Var(l)] = r
  BY <1>2 DEF OnTrail
<1>5. Locked(st, r)
  BY <1>3, <1>4 DEF Forces, Locked
<1>6. l \in ToSet(st.trail)
  BY <1>2, TrailFacts, SeqFacts
<1>7. r \in {st.reason[Var(q)] : q \in ToSet(st.trail)} \ {NoRef}
  BY <1>4, <1>6
<1> QED BY <1>1, <1>3, <1>5, <1>7 DEF MovedEarly

LEMMA ReachedFacts ==
  ASSUME NEW st, NEW M, Sound(st, M), st.dirty = {}
  PROVE  /\ Live(st) \subseteq Reached(st) /\ Reached(st) \subseteq DOMAIN st.db
         /\ IsFiniteSet(Reached(st)) /\ MovedEarly(st, {}) \subseteq Reached(st)
         /\ \A kind \in Kinds : \A l \in Lits : \A i \in DOMAIN ListOf(st, kind, l) :
              ListOf(st, kind, l)[i].cref \in Reached(st)
<1>1. /\ st \in Solver /\ Stored(st) /\ OnTrail(st) /\ Reasoned(st) /\ Decided(st) /\ Watching(st)
  BY CoreFacts DEF Sound
<1>2. Live(st) \subseteq Reached(st) /\ MovedEarly(st, {}) \subseteq Reached(st)
  BY <1>1 DEF Stored, Reached
<1>3. ASSUME NEW kind \in Kinds, NEW l \in Lits
      PROVE  Crefs(ListOf(st, kind, l)) \subseteq Live(st)
  <2>1. WellListed(st, kind, l, ListOf(st, kind, l))
    BY <1>1 DEF Watching
  <2> QED BY <2>1 DEF WellListed, Attached, Live
<1>4. Watched(st) \subseteq Live(st)
  BY <1>3 DEF Watched, Crefs, Kinds
<1>5. \A r \in {st.reason[Var(l)] : l \in ToSet(st.trail)} \ {NoRef} : r \in DOMAIN st.db
  <2> SUFFICES ASSUME NEW l \in ToSet(st.trail), st.reason[Var(l)] # NoRef PROVE st.reason[Var(l)] \in DOMAIN st.db
    OBVIOUS
  <2>1. l \in Lits
    BY <1>1, TrailFacts, SeqFacts
  <2>2. Var(l) \in Vars
    BY <2>1, LitFacts
  <2> QED BY <1>1, <2>2, ReasonsLocked
<1>6. MovedEarly(st, {}) \subseteq DOMAIN st.db
  BY <1>4, <1>5 DEF MovedEarly, Live
<1>7. Reached(st) \subseteq DOMAIN st.db
  BY <1>1, <1>6 DEF Reached, Stored, Live
<1>8. IsFiniteSet(DOMAIN st.db)
  <2>1. st.db \in Seq(Clauses)
    BY <1>1 DEF Solver
  <2>2. DOMAIN st.db = 1 .. Len(st.db) /\ Len(st.db) \in Nat
    BY <2>1
  <2> QED BY <2>2, FS_Interval
<1>9. \A kind \in Kinds : \A l \in Lits : \A i \in DOMAIN ListOf(st, kind, l) :
              ListOf(st, kind, l)[i].cref \in Reached(st)
  BY <1>2, <1>3, CrefFacts
<1> QED BY <1>2, <1>7, <1>8, <1>9, FS_Subset

LEMMA RelocatedFields ==
  ASSUME NEW st, NEW M, Sound(st, M), st.dirty = {}, st.confl = NoRef,
         NEW R, R = Reached(st), NEW to, to = To(st, {}), NEW early, early = MovedEarly(st, {}),
         NEW new, new = Relocated(st, to, early)
  PROVE  new \in Solver /\ MovedBy(st, new, to, R)
<1> DEFINE n == Cardinality(DOMAIN to)
           refs(S) == {to[r] : r \in S \cap DOMAIN to}
           list(f) == [l \in Lits |-> [i \in DOMAIN f[l] |-> Watcher(to[f[l][i].cref], f[l][i].blocker)]]
           follows(v) == st.assigns[v] # Undef /\ st.reason[v] \in early
           db == [i \in 1 .. n |-> st.db[CHOOSE r \in DOMAIN to : to[r] = i]]
           reason == [v \in Vars |-> IF follows(v) THEN to[st.reason[v]] ELSE st.reason[v]]
           del == refs(st.deleted)
           one == refs(st.oneWatched)
           cla == refs(st.clauses)
           lea == refs(st.learnts)
           una == refs(st.unaryWatchedClauses)
           wl == list(st.watches)
           wb == list(st.watchesBin)
           wu == list(st.unaryWatches)
<1>1. /\ st \in Solver /\ Stored(st) /\ OnTrail(st) /\ Reasoned(st) /\ Decided(st)
  BY CoreFacts DEF Sound
<1>2. /\ Live(st) \subseteq R /\ R \subseteq DOMAIN st.db /\ IsFiniteSet(R) /\ early \subseteq R
      /\ \A kind \in Kinds : \A l \in Lits : \A i \in DOMAIN ListOf(st, kind, l) : ListOf(st, kind, l)[i].cref \in R
  BY ReachedFacts
<1>3. new = [st EXCEPT !.db = db, !.deleted = del, !.oneWatched = one, !.clauses = cla, !.learnts = lea,
                       !.unaryWatchedClauses = una, !.watches = wl, !.watchesBin = wb, !.unaryWatches = wu,
                       !.reason = reason]
  BY <1>1 DEF Relocated, Solver
<1>4. DOMAIN to = R /\ to = [r \in R |-> Cardinality({m \in R : m <= r})]
  BY DEF To, Reached
<1>5. /\ n \in Nat /\ \A r \in R : to[r] \in 1 .. n
      /\ \A q, r \in R : to[q] = to[r] => q = r
      /\ \A i \in 1 .. n : \E r \in R : to[r] = i
  <2> DEFINE key == [r \in R |-> r]
  <2>1. /\ \A r \in R : key[r] \in Int
        /\ \A q, r \in R : key[q] = key[r] => q = r
    BY <1>1, <1>2, ClauseFacts
  <2>2. to = [r \in R |-> Cardinality({m \in R : key[m] <= key[r]})]
    <3>1. \A r \in R : {m \in R : key[m] <= key[r]} = {m \in R : m <= r}
      OBVIOUS
    <3> HIDE DEF key
    <3> QED BY <1>4, <3>1
  <2>3. n = Cardinality(R)
    BY <1>4
  <2> HIDE DEF key, n
  <2> QED BY <1>2, <2>1, <2>2, <2>3, RankFacts
<1>6. /\ DOMAIN db = {to[r] : r \in R}
      /\ \A r \in R : to[r] \in Nat \ {0} /\ db[to[r]] = st.db[r]
  <2>1. DOMAIN db = 1 .. n
    OBVIOUS
  <2>2. {to[r] : r \in R} = 1 .. n
    BY <1>5
  <2>3. ASSUME NEW r \in R PROVE db[to[r]] = st.db[r]
    <3>1. to[r] \in 1 .. n
      BY <1>5
    <3>2. (CHOOSE q \in DOMAIN to : to[q] = to[r]) = r
      BY <1>4, <1>5
    <3> QED BY <3>1, <3>2
  <2>4. \A r \in R : to[r] \in Nat \ {0}
    BY <1>5
  <2> QED BY <2>1, <2>2, <2>3, <2>4
<1>7. db \in Seq(Clauses) /\ DOMAIN db = 1 .. n
  <2>1. \A i \in 1 .. n : db[i] \in Clauses
    <3> SUFFICES ASSUME NEW i \in 1 .. n PROVE db[i] \in Clauses
      OBVIOUS
    <3>1. PICK r \in R : to[r] = i
      BY <1>5
    <3> HIDE DEF db
    <3> QED BY <1>1, <1>2, <1>6, <3>1, ClauseFacts
  <2>2. db \in [1 .. n -> Clauses]
    <3> QED BY <2>1
  <2>3. DOMAIN db = 1 .. n /\ n \in Nat
    BY <1>5
  <2> HIDE DEF db, n
  <2> QED BY <2>2, <2>3
<1>8. \A S : refs(S) \in References
  <2>1. \A r \in DOMAIN to : to[r] \in Nat
    BY <1>4, <1>6
  <2> QED BY <2>1 DEF References
<1>9. ASSUME NEW kind \in Kinds, NEW f, f \in WatchLists, \A l \in Lits : f[l] = ListOf(st, kind, l)
      PROVE  /\ list(f) \in WatchLists
             /\ \A l \in Lits :
                  /\ DOMAIN list(f)[l] = DOMAIN ListOf(st, kind, l)
                  /\ \A i \in DOMAIN ListOf(st, kind, l) :
                      list(f)[l][i] = Watcher(to[ListOf(st, kind, l)[i].cref], ListOf(st, kind, l)[i].blocker)
  <2>1. ASSUME NEW l \in Lits PROVE list(f)[l] \in Seq(Watchers)
    <3> DEFINE ws == f[l]
               g == [i \in DOMAIN ws |-> Watcher(to[ws[i].cref], ws[i].blocker)]
    <3>1. ws \in Seq(Watchers) /\ ws = ListOf(st, kind, l)
      BY <1>9 DEF WatchLists
    <3>2. list(f)[l] = g
      OBVIOUS
    <3>3. Len(ws) \in Nat /\ DOMAIN ws = 1 .. Len(ws) /\ \A i \in DOMAIN ws : ws[i] \in Watchers /\ ws[i].cref \in R
      BY <1>2, <3>1, SeqFacts
    <3>4. \A i \in DOMAIN ws : to[ws[i].cref] \in Nat /\ ws[i].blocker \in Lits
      BY <1>6, <3>3 DEF Watchers
    <3> HIDE DEF ws
    <3>5. \A i \in DOMAIN ws : g[i] \in Watchers
      BY <3>4 DEF Watcher, Watchers
    <3>6. g \in [1 .. Len(ws) -> Watchers]
      BY <3>3, <3>5
    <3>7. g \in Seq(Watchers)
      <4> HIDE DEF g
      <4> QED BY <3>3, <3>6
    <3> QED BY <3>2, <3>7
  <2>2. list(f) \in WatchLists
    BY <2>1 DEF WatchLists
  <2> QED BY <1>9, <2>2
<1>10. /\ wl \in WatchLists /\ wb \in WatchLists /\ wu \in WatchLists
       /\ \A l \in Lits :
            /\ DOMAIN wl[l] = DOMAIN ListOf(st, "long", l)
            /\ \A i \in DOMAIN ListOf(st, "long", l) :
                 wl[l][i] = Watcher(to[ListOf(st, "long", l)[i].cref], ListOf(st, "long", l)[i].blocker)
       /\ \A l \in Lits :
            /\ DOMAIN wb[l] = DOMAIN ListOf(st, "binary", l)
            /\ \A i \in DOMAIN ListOf(st, "binary", l) :
                 wb[l][i] = Watcher(to[ListOf(st, "binary", l)[i].cref], ListOf(st, "binary", l)[i].blocker)
       /\ \A l \in Lits :
            /\ DOMAIN wu[l] = DOMAIN ListOf(st, "unary", l)
            /\ \A i \in DOMAIN ListOf(st, "unary", l) :
                 wu[l][i] = Watcher(to[ListOf(st, "unary", l)[i].cref], ListOf(st, "unary", l)[i].blocker)
  <2>1. st.watches \in WatchLists /\ st.watchesBin \in WatchLists /\ st.unaryWatches \in WatchLists
    BY <1>1 DEF Solver
  <2>2. /\ \A l \in Lits : st.watches[l] = ListOf(st, "long", l)
        /\ \A l \in Lits : st.watchesBin[l] = ListOf(st, "binary", l)
        /\ \A l \in Lits : st.unaryWatches[l] = ListOf(st, "unary", l)
    BY KindFacts
  <2>3. "long" \in Kinds /\ "binary" \in Kinds /\ "unary" \in Kinds
    BY DEF Kinds
  <2> HIDE DEF list
  <2> QED BY <1>9, <2>1, <2>2, <2>3
<1>11. /\ reason \in [Vars -> Nat]
       /\ \A v \in Vars : IF st.reason[v] = NoRef THEN reason[v] = NoRef
                          ELSE st.reason[v] \in R /\ reason[v] = to[st.reason[v]]
  <2>1. ASSUME NEW v \in Vars, st.reason[v] # NoRef
        PROVE  st.reason[v] \in R /\ reason[v] = to[st.reason[v]]
    <3>1. st.assigns[v] # Undef /\ st.reason[v] \in early
      BY <1>1, <2>1, ReasonsLocked
    <3> QED BY <1>2, <3>1
  <2>2. ASSUME NEW v \in Vars, st.reason[v] = NoRef PROVE reason[v] = NoRef
    <3>1. NoRef \notin early
      BY <1>1, <1>2, ClauseFacts DEF NoRef
    <3> QED BY <2>2, <3>1
  <2>3. \A v \in Vars : reason[v] \in Nat
    <3>1. NoRef \in Nat
      BY DEF NoRef
    <3> HIDE DEF reason
    <3> QED BY <1>6, <2>1, <2>2, <3>1
  <2>4. reason \in [Vars -> Nat]
    BY <2>3
  <2> HIDE DEF reason
  <2> QED BY <2>1, <2>2, <2>4
<1>12. /\ del = {to[r] : r \in st.deleted \cap R} /\ one = {to[r] : r \in st.oneWatched \cap R}
       /\ cla = {to[r] : r \in st.clauses \cap R} /\ lea = {to[r] : r \in st.learnts \cap R}
       /\ una = {to[r] : r \in st.unaryWatchedClauses \cap R}
  BY <1>4
<1>13. /\ del \in References /\ one \in References /\ cla \in References /\ lea \in References /\ una \in References
  BY <1>8
<1> HIDE DEF n, refs, list, follows, db, reason, del, one, cla, lea, una, wl, wb, wu
<1>14. new \in Solver
  <2>1. st \in Solver /\ db \in Seq(Clauses) /\ wl \in WatchLists /\ wb \in WatchLists /\ wu \in WatchLists
        /\ reason \in [Vars -> Nat]
    BY <1>1, <1>7, <1>10, <1>11
  <2> QED BY ONLY <1>3, <1>13, <2>1 DEF Solver
<1>15. /\ new.db = db /\ new.deleted = del /\ new.oneWatched = one /\ new.clauses = cla /\ new.learnts = lea
       /\ new.unaryWatchedClauses = una /\ new.watches = wl /\ new.watchesBin = wb /\ new.unaryWatches = wu
       /\ new.reason = reason
       /\ new.dirty = st.dirty /\ new.assigns = st.assigns /\ new.level = st.level /\ new.trail = st.trail
       /\ new.trailLim = st.trailLim /\ new.qhead = st.qhead /\ new.confl = st.confl
       /\ new.decision = st.decision /\ new.orderHeap = st.orderHeap
  BY ONLY <1>1, <1>3 DEF Solver
<1>16. ASSUME NEW kind \in Kinds, NEW l \in Lits
       PROVE  /\ DOMAIN ListOf(new, kind, l) = DOMAIN ListOf(st, kind, l)
              /\ \A i \in DOMAIN ListOf(st, kind, l) :
                   ListOf(new, kind, l)[i] = Watcher(to[ListOf(st, kind, l)[i].cref], ListOf(st, kind, l)[i].blocker)
  <2>1. CASE kind = "long"
    <3>1. ListOf(new, kind, l) = wl[l]
      BY <1>15, <2>1, KindFacts
    <3> QED BY <1>10, <2>1, <3>1
  <2>2. CASE kind = "binary"
    <3>1. ListOf(new, kind, l) = wb[l]
      BY <1>15, <2>2, KindFacts
    <3> QED BY <1>10, <2>2, <3>1
  <2>3. CASE kind = "unary"
    <3>1. ListOf(new, kind, l) = wu[l]
      BY <1>15, <2>3, KindFacts
    <3> QED BY <1>10, <2>3, <3>1
  <2> QED BY <2>1, <2>2, <2>3 DEF Kinds
<1>17. MovedBy(st, new, to, R)
  BY ONLY ZenonT(40), <1>2, <1>4, <1>5, <1>6, <1>11, <1>12, <1>15, <1>16, st.dirty = {}, st.confl = NoRef DEF MovedBy
<1> QED BY <1>14, <1>17

\* Memory is compacted.
LEMMA GarbageCollectStep ==
  ASSUME NEW st, NEW M, Sound(st, M), HeapFull(st), st.confl = NoRef,
         NEW new, new \in MayCollect(st)
  PROVE  /\ Sound(new, M) /\ HeapFull(new)
         /\ new.qhead = st.qhead /\ new.confl = NoRef
         /\ new.trail = st.trail /\ new.trailLim = st.trailLim /\ new.assigns = st.assigns
         /\ new.decision = st.decision
<1>1. CASE new = st
  BY <1>1
<1>2. CASE new = GarbageCollect(st, {})
  <2> DEFINE clean == CleanAll(st)
             to == To(clean, {})
             early == MovedEarly(clean, {})
             R == Reached(clean)
  <2>1. new = Relocated(clean, to, early)
    BY <1>2 DEF GarbageCollect
  <2>2. Sound(clean, M) /\ Cleans(st, clean)
    BY CleanAllStep
  <2> HIDE DEF clean
  <2>3. /\ clean.dirty = {} /\ clean.confl = NoRef /\ clean.qhead = st.qhead
        /\ clean.trail = st.trail /\ clean.trailLim = st.trailLim /\ clean.assigns = st.assigns
        /\ clean.decision = st.decision /\ clean.orderHeap = st.orderHeap
    BY <2>2 DEF Cleans, SameTrail
  <2> HIDE DEF to, early, R
  <2>4. new \in Solver /\ MovedBy(clean, new, to, R)
    BY <2>1, <2>2, <2>3, RelocatedFields DEF to, early, R
  <2>5. Core(new, M) /\ Watching(new)
    BY <2>2, <2>4, MoveCore, MoveWatching DEF Sound
  <2>6. /\ new.assigns = clean.assigns /\ new.trail = clean.trail /\ new.trailLim = clean.trailLim
        /\ new.qhead = clean.qhead /\ new.confl = NoRef /\ new.decision = clean.decision
        /\ new.orderHeap = clean.orderHeap
    BY <2>4 DEF MovedBy
  <2>7. HeapFull(new)
    BY <2>3, <2>6 DEF HeapFull
  <2> QED BY <2>3, <2>5, <2>6, <2>7 DEF Sound
<1> QED BY <1>1, <1>2 DEF MayCollect

-----------------------------------------------------------------------------
(* AddClause.                                                              *)

LEMMA LitsFinite == IsFiniteSet(Lits)
<1>1. IsFiniteSet(-NbVars .. NbVars)
  BY NbVarsAssumption, FS_Interval
<1>2. Lits \subseteq -NbVars .. NbVars
  BY NbVarsAssumption DEF Lits, Vars
<1> QED BY <1>1, <1>2, FS_Subset

LEMMA SortedFacts ==
  ASSUME NEW c \in SUBSET Lits
  PROVE  /\ Sorted(c) \in Seq(Lits) /\ Len(Sorted(c)) = Cardinality(c) /\ Cardinality(c) \in Nat
         /\ ToSet(Sorted(c)) = c
         /\ \A i, j \in DOMAIN Sorted(c) : Sorted(c)[i] = Sorted(c)[j] => i = j
<1> DEFINE n == Cardinality(c)
           key == [l \in c |-> LitNumber(l)]
           to == [l \in c |-> Cardinality({m \in c : key[m] <= key[l]})]
           at(i) == CHOOSE l \in c : Cardinality({m \in c : LitNumber(m) <= LitNumber(l)}) = i
           s2 == Sorted(c)
<1>1. \A l \in c : LitNumber(l) \in Int
  BY LitFacts DEF LitNumber, Vars
<1>2. \A l, q \in c : LitNumber(l) = LitNumber(q) => l = q
  <2> SUFFICES ASSUME NEW l \in c, NEW q \in c, LitNumber(l) = LitNumber(q) PROVE l = q
    OBVIOUS
  <2>1. /\ Var(l) \in Int /\ Var(q) \in Int /\ l \in Int /\ q \in Int
        /\ Var(l) = IF l < 0 THEN -l ELSE l
        /\ Var(q) = IF q < 0 THEN -q ELSE q
    BY LitFacts DEF Vars, Var
  <2>2. Var(l) = Var(q) /\ (l < 0 <=> q < 0)
    BY <2>1 DEF LitNumber
  <2> QED BY ONLY <2>1, <2>2
<1>3. IsFiniteSet(c)
  BY LitsFinite, FS_Subset
<1>4. /\ \A l \in c : key[l] \in Int
      /\ \A l, q \in c : key[l] = key[q] => l = q
  BY <1>1, <1>2
<1>5. \A l \in c : to[l] = Cardinality({m \in c : LitNumber(m) <= LitNumber(l)})
  <2>1. ASSUME NEW l \in c PROVE to[l] = Cardinality({m \in c : LitNumber(m) <= LitNumber(l)})
    <3>1. {m \in c : key[m] <= key[l]} = {m \in c : LitNumber(m) <= LitNumber(l)}
      OBVIOUS
    <3>2. to[l] = Cardinality({m \in c : key[m] <= key[l]})
      OBVIOUS
    <3> QED BY <3>1, <3>2
  <2> QED BY <2>1
<1>6. /\ n \in Nat /\ \A l \in c : to[l] \in 1 .. n
      /\ \A l, q \in c : to[l] = to[q] => l = q
      /\ \A i \in 1 .. n : \E l \in c : to[l] = i
  <2>1. to = [l \in c |-> Cardinality({m \in c : key[m] <= key[l]})]
    OBVIOUS
  <2> HIDE DEF to, key
  <2> QED BY <1>3, <1>4, <2>1, RankFacts
<1> HIDE DEF to, key
<1>7. s2 = [i \in 1 .. n |-> at(i)]
  BY DEF Sorted
<1>8. ASSUME NEW i \in 1 .. n PROVE at(i) \in c /\ to[at(i)] = i
  <2>1. \E l \in c : Cardinality({m \in c : LitNumber(m) <= LitNumber(l)}) = i
    BY <1>5, <1>6
  <2>2. at(i) \in c /\ Cardinality({m \in c : LitNumber(m) <= LitNumber(at(i))}) = i
    BY <2>1
  <2> HIDE DEF at
  <2> QED BY <1>5, <2>2
<1> HIDE DEF at, n
<1>9. s2 \in [1 .. n -> Lits] /\ DOMAIN s2 = 1 .. n /\ \A i \in 1 .. n : s2[i] = at(i)
  BY <1>7, <1>8
<1> HIDE DEF s2
<1>10. s2 \in Seq(Lits) /\ Len(s2) = n
  BY <1>6, <1>9
<1>11. \A l \in c : l = at(to[l]) /\ to[l] \in 1 .. n
  BY <1>6, <1>8
<1>12. ToSet(s2) = c
  <2>1. \A x : x \in ToSet(s2) <=> \E i \in DOMAIN s2 : s2[i] = x
    BY <1>10, SeqFacts
  <2>2. ASSUME NEW x \in ToSet(s2) PROVE x \in c
    BY <2>1, <1>8, <1>9
  <2>3. ASSUME NEW x \in c PROVE x \in ToSet(s2)
    <3>1. to[x] \in DOMAIN s2 /\ s2[to[x]] = x
      BY <1>9, <1>11
    <3> QED BY <2>1, <3>1
  <2> QED BY <2>2, <2>3
<1>13. \A i, j \in DOMAIN s2 : s2[i] = s2[j] => i = j
  <2>1. \A i \in DOMAIN s2 : to[s2[i]] = i
    BY <1>8, <1>9
  <2> QED BY <2>1
<1> QED BY <1>6, <1>10, <1>12, <1>13 DEF s2, n

\* What is false without a decision is false in every model.
LEMMA FalseAtRoot ==
  ASSUME NEW st, NEW M, Core(st, M), NEW q \in Lits, Value(st, q) = False,
         Level(st, q) = 0, NEW m \in M
  PROVE  ~Satisfies(m, {q})
<1>1. /\ st \in Solver /\ OnTrail(st) /\ Implied(st, M)
  BY CoreFacts
<1>2. -q \in Lits /\ Value(st, -q) = True /\ Var(-q) = Var(q) /\ q \in Int /\ q # 0
  BY <1>1, LitFacts, ValueFacts, TrailFacts
<1>3. PICK k \in DOMAIN st.trail : st.trail[k] = -q
  BY <1>1, <1>2, TrailFacts
<1>4. Level(st, -q) = 0
  BY <1>2 DEF Level
<1>5. Satisfies(m, {-q})
  BY <1>1, <1>3, <1>4 DEF Implied
<1>6. (-q > 0) <=> (Var(q) \in m)
  BY <1>2, <1>5 DEF Satisfies
<1>7. (q > 0) <=> ~(-q > 0)
  BY <1>2
<1>8. Satisfies(m, {q}) => ((q > 0) <=> (Var(q) \in m))
  BY DEF Satisfies
<1> QED BY <1>6, <1>7, <1>8

LEMMA RootLevels ==
  ASSUME NEW st, NEW M, Core(st, M), DecisionLevel(st) = 0, NEW q \in Lits, Value(st, q) # Undef
  PROVE  Level(st, q) = 0
<1>1. /\ st \in Solver /\ OnTrail(st) /\ Levelled(st)
  BY CoreFacts
<1>2. st.assigns[Var(q)] # Undef /\ Var(q) \in Vars
  BY <1>1, LitFacts, ValueFacts, TrailFacts
<1>3. PICK k \in DOMAIN st.trail : Var(st.trail[k]) = Var(q)
  BY <1>1, <1>2 DEF OnTrail
<1>4. Level(st, st.trail[k]) <= 0 /\ Level(st, st.trail[k]) \in Nat
  BY <1>1, TrailFacts DEF Levelled
<1> QED BY <1>3, <1>4 DEF Level

\* What a literal may be enqueued for.
Permitted(st, M, p, from) ==
  \/ from = NoRef /\ DecisionLevel(st) = 0 /\ \A m \in M : Satisfies(m, {p})
  \/ from = NoRef /\ DecisionLevel(st) > 0 /\ st.trailLim[DecisionLevel(st)] = Len(st.trail)
  \/ from \in Live(st) /\ Unit(st, st.db[from], p)

LEMMA EnqueueSound ==
  ASSUME NEW M, NEW st, Sound(st, M), HeapFull(st), NEW p \in Lits, Value(st, p) = Undef, NEW from \in Nat,
         Permitted(st, M, p, from),
         NEW new, new = UncheckedEnqueue(st, p, from)
  PROVE  /\ Sound(new, M) /\ HeapFull(new)
         /\ new.confl = st.confl /\ new.trailLim = st.trailLim
<1>1. Core(st, M) /\ Watching(st) /\ st \in Solver
  BY CoreFacts DEF Sound
<1>2. Core(new, M)
  BY <1>1, EnqueueCore DEF Permitted
<1>3. /\ new.assigns[Var(p)] = IF p > 0 THEN True ELSE False
      /\ \A v \in Vars : v # Var(p) => new.assigns[v] = st.assigns[v]
      /\ new.trailLim = st.trailLim /\ new.confl = st.confl
      /\ new.decision = st.decision /\ new.orderHeap = st.orderHeap
      /\ SameMemory(st, new) /\ SameLists(st, new)
  BY <1>1, EnqueueFields
<1>4. Watching(new)
  BY <1>1, <1>3, WatchingFrame
<1>5. HeapFull(new)
  <2>1. st.decision \subseteq Vars
    BY <1>1 DEF Solver
  <2>2. new.assigns[Var(p)] # Undef
    BY <1>3, SignsDiffer
  <2> QED BY <1>3, <2>1, <2>2 DEF HeapFull
<1> QED BY <1>2, <1>3, <1>4, <1>5 DEF Sound

LEMMA EnqueueFree ==
  ASSUME NEW M, NEW st, Sound(st, M), HeapFull(st), DecisionLevel(st) = 0,
         NEW p \in Lits, Value(st, p) = Undef, \A m \in M : Satisfies(m, {p}),
         NEW new, new = UncheckedEnqueue(st, p, NoRef)
  PROVE  /\ Sound(new, M) /\ HeapFull(new)
         /\ new.confl = st.confl /\ new.trailLim = st.trailLim
<1>1. NoRef \in Nat
  BY DEF NoRef
<1>2. PICK from \in Nat : from = NoRef
  BY <1>1
<1>3. new = UncheckedEnqueue(st, p, from)
  BY <1>2
<1>4. Permitted(st, M, p, from)
  BY <1>2 DEF Permitted
<1> QED BY <1>2, <1>3, <1>4, EnqueueSound

LEMMA HeapExtends ==
  ASSUME NEW st \in Solver, NEW new, Extends(st, new), HeapFull(st)
  PROVE  HeapFull(new)
<1>1. st.decision \subseteq Vars
  BY DEF Solver
<1> QED BY <1>1 DEF HeapFull, Extends

\* The solver may take clauses: nothing is decided, nothing left to propagate.
Taking(st, M) ==
  /\ Sound(st, M) /\ HeapFull(st) /\ DecisionLevel(st) = 0

LEMMA WithLiteralsStep ==
  ASSUME NEW st, NEW M, Taking(st, M), st.confl = NoRef, st.qhead = Len(st.trail),
         NEW c \in Seq(Lits), DistinctVars(c), \A m \in M : Satisfies(m, ToSet(c)),
         \A l \in ToSet(c) : Value(st, l) = Undef,
         NEW r, r = WithLiterals(st, c)
  PROVE  /\ Taking(r.s, M)
         /\ IF r.ok THEN r.s.confl = NoRef /\ r.s.qhead = Len(r.s.trail) ELSE M = {}
<1>1. Sound(st, M) /\ HeapFull(st) /\ DecisionLevel(st) = 0 /\ st \in Solver
  BY CoreFacts DEF Taking, Sound
<1>2. Len(c) \in Nat /\ DOMAIN c = 1 .. Len(c) /\ \A i \in DOMAIN c : c[i] \in Lits /\ c[i] \in ToSet(c)
  BY SeqFacts
<1>3. CASE Len(c) = 0
  <2>1. r = [s |-> st, ok |-> FALSE, cr |-> NoRef]
    BY <1>3 DEF WithLiterals
  <2>2. ToSet(c) = {}
    <3>1. DOMAIN c = {}
      BY <1>2, <1>3
    <3> QED BY <3>1, SeqFacts
  <2>3. M = {}
    BY <2>2 DEF Satisfies
  <2> QED BY <2>1, <2>3
<1>4. CASE Len(c) = 1
  <2> DEFINE a == UncheckedEnqueue(st, c[1], NoRef)
             b == Propagated(a)
  <2>1. r = [s |-> b, ok |-> b.confl = NoRef, cr |-> NoRef]
    BY <1>4 DEF WithLiterals
  <2>2. c[1] \in Lits /\ Value(st, c[1]) = Undef /\ NoRef \in Nat
    BY <1>2, <1>4 DEF NoRef
  <2>3. ToSet(c) = {c[1]}
    BY <1>2, <1>4, SeqFacts
  <2>4. Sound(a, M) /\ HeapFull(a) /\ a.confl = NoRef /\ a.trailLim = st.trailLim
    <3>1. \A m \in M : Satisfies(m, {c[1]})
      BY <2>3
    <3>2. a = UncheckedEnqueue(st, c[1], NoRef)
      OBVIOUS
    <3> DEFINE p == c[1]
    <3>3. /\ p \in Lits /\ Value(st, p) = Undef /\ NoRef \in Nat
          /\ \A m \in M : Satisfies(m, {p})
          /\ a = UncheckedEnqueue(st, p, NoRef)
      BY <2>2, <3>1
    <3> HIDE DEF a, p
    <3>4. Sound(a, M) /\ HeapFull(a) /\ a.confl = st.confl /\ a.trailLim = st.trailLim
      BY ONLY <1>1, <3>3, EnqueueFree
    <3> QED BY <3>4
  <2> HIDE DEF a
  <2>5. /\ Sound(b, M) /\ Extends(a, b)
        /\ IF b.confl = NoRef THEN b.qhead = Len(b.trail) ELSE Conflicting(b)
    BY <2>4, PropagatedStep
  <2> HIDE DEF b
  <2>6. HeapFull(b) /\ DecisionLevel(b) = 0
    <3>1. a \in Solver
      BY <2>4, CoreFacts DEF Sound
    <3>2. b.trailLim = st.trailLim
      BY <2>4, <2>5 DEF Extends
    <3> QED BY <1>1, <2>4, <2>5, <3>1, <3>2, HeapExtends DEF DecisionLevel
  <2>7. b.confl # NoRef => M = {}
    BY <2>5, <2>6, ConflictAtRoot DEF Sound
  <2> DEFINE ok == b.confl = NoRef
  <2>8. r.s = b /\ (r.ok <=> b.confl = NoRef)
    <3>1. r = [s |-> b, ok |-> ok, cr |-> NoRef]
      BY <2>1
    <3> HIDE DEF ok
    <3>2. r.s = b /\ r.ok = ok
      BY <3>1
    <3> QED BY <3>2 DEF ok
  <2> QED BY <2>5, <2>6, <2>7, <2>8 DEF Taking
<1>5. CASE Len(c) # 0 /\ Len(c) # 1
  <2> DEFINE cr == NextRef(st)
             a == [Alloc(st, c) EXCEPT !.clauses = @ \cup {cr}]
             b == AttachClause(a, cr)
  <2>1. r = [s |-> b, ok |-> TRUE, cr |-> cr]
    BY <1>5 DEF WithLiterals
  <2>2. c \in Clauses /\ Allocated(st, a, c, cr)
    BY <1>2, <1>5 DEF Clauses, Allocated
  <2> HIDE DEF a, cr
  <2>3. /\ Core(a, M) /\ cr \in Live(a) /\ cr \notin a.oneWatched
        /\ SameTrail(st, a) /\ a.confl = st.confl /\ a.qhead = st.qhead
        /\ a.decision = st.decision /\ a.orderHeap = st.orderHeap
        /\ \A kind \in Kinds : \A l \in Lits : ListedBut(a, cr, kind, l, ListOf(a, kind, l))
    BY <1>1, <2>2, AllocStep DEF cr
  <2>4. Sound(b, M) /\ SameRest(a, b)
    BY <2>3, AttachStep
  <2> HIDE DEF b
  <2>5. /\ b.confl = NoRef /\ b.qhead = Len(b.trail) /\ b.trailLim = st.trailLim
        /\ b.assigns = st.assigns /\ b.decision = st.decision /\ b.orderHeap = st.orderHeap
    BY <2>3, <2>4 DEF SameRest, SameTrail
  <2>6. HeapFull(b) /\ DecisionLevel(b) = 0
    BY <1>1, <2>5 DEF HeapFull, DecisionLevel
  <2> QED BY <2>1, <2>4, <2>5, <2>6 DEF Taking
<1> QED BY <1>3, <1>4, <1>5

\* A clause is added.
LEMMA WithClauseStep ==
  ASSUME NEW st, NEW M, Taking(st, M), st.confl = NoRef, st.qhead = Len(st.trail),
         NEW c \in SUBSET Lits, \A m \in M : Satisfies(m, c),
         NEW r, r = WithClause(st, c)
  PROVE  /\ Taking(r.s, M)
         /\ IF r.ok THEN r.s.confl = NoRef /\ r.s.qhead = Len(r.s.trail) ELSE M = {}
<1> DEFINE skip == \E l \in c : Value(st, l) = True \/ (-l \in c /\ Value(st, l) = Undef)
           F == {l \in c : Value(st, l) = Undef}
           d == Sorted(F)
<1>1. Core(st, M) /\ st \in Solver /\ DecisionLevel(st) = 0 /\ OnTrail(st)
  BY CoreFacts DEF Taking, Sound
<1>2. CASE skip
  <2>1. r = [s |-> st, ok |-> TRUE, cr |-> NoRef]
    BY <1>2 DEF WithClause
  <2> QED BY <2>1
<1>3. CASE ~skip
  <2>1. r = WithLiterals(st, d)
    BY <1>3 DEF WithClause
  <2>2. F \in SUBSET Lits
    OBVIOUS
  <2> HIDE DEF F
  <2>3. /\ d \in Seq(Lits) /\ ToSet(d) = F
        /\ \A i, j \in DOMAIN d : d[i] = d[j] => i = j
    BY <2>2, SortedFacts
  <2> HIDE DEF d
  <2>4. \A i \in DOMAIN d : d[i] \in F
    BY <2>3, SeqFacts
  <2>5. DistinctVars(d)
    <3> SUFFICES ASSUME NEW i \in DOMAIN d, NEW j \in DOMAIN d, Var(d[i]) = Var(d[j]) PROVE i = j
      BY DEF DistinctVars
    <3>1. d[i] \in Lits /\ d[j] \in Lits /\ d[i] \in F /\ d[j] \in F
      BY <2>2, <2>4
    <3>2. d[i] # -d[j]
      BY <1>3, <3>1 DEF F
    <3> QED BY <2>3, <3>1, <3>2, SameVar
  <2>6. ASSUME NEW m \in M PROVE Satisfies(m, ToSet(d))
    <3>1. PICK l \in c : (l > 0) = (Var(l) \in m)
      BY DEF Satisfies
    <3>2. Satisfies(m, {l}) /\ l \in Lits
      BY <3>1 DEF Satisfies
    <3>3. Value(st, l) # True /\ Value(st, l) \in Values
      BY <1>1, <1>3, <3>2, ValueFacts, TrailFacts
    <3>4. Value(st, l) # False
      BY <1>1, <3>2, SignsDiffer, FalseAtRoot, RootLevels
    <3>5. l \in F
      BY <3>3, <3>4 DEF F, Values
    <3> QED BY <2>3, <3>1, <3>5 DEF Satisfies
  <2>7. \A l \in ToSet(d) : Value(st, l) = Undef
    BY <2>3 DEF F
  <2> QED BY <2>1, <2>3, <2>5, <2>6, <2>7, WithLiteralsStep
<1> QED BY <1>2, <1>3
=============================================================================
