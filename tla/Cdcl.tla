-------------------------------- MODULE Cdcl --------------------------------
(***************************************************************************)
(* The search of the glucose solver (core/Solver.cc): clauses watched by   *)
(* two of their literals, propagation, conflict analysis, backjumping,     *)
(* restarts, the removal of clauses and the compaction of their memory;    *)
(* and the clauses a ParallelSolver imports, which are watched by one      *)
(* literal until they are found false.                                     *)
(*                                                                         *)
(* A literal is a number, negative for a negated variable.  A clause is    *)
(* the sequence of its literals, in the order it has in memory, because    *)
(* the watched ones are the first two.  A clause's reference is its rank   *)
(* in memory.  A removed clause stays there, and in the lists of watchers  *)
(* that are marked dirty, until these are cleaned and memory is compacted. *)
(* What activities and other scores decide is left open: the variable to   *)
(* branch on, when to restart, what to forget, when to compact.            *)
(***************************************************************************)
EXTENDS Heap, Lists, Propositional

CONSTANT
  Problems  \* [formula: a sequence of sets of literals, offers: a set of clauses,
            \*  maxConflicts: a bound on the conflicts analysed]

\* The clauses other threads send follow from the formula they solve as well,
\* and have a literal of a variable once.
ASSUME CdclAssumption ==
  \A p \in Problems :
    /\ {"formula", "offers", "maxConflicts"} \subseteq DOMAIN p
    /\ p.formula \in Seq(SUBSET Lits) /\ p.offers \subseteq Seq(Lits) /\ p.maxConflicts \in Nat
    /\ \A c \in p.offers :
         /\ Len(c) > 0
         /\ \A i, j \in DOMAIN c : Var(c[i]) = Var(c[j]) => i = j
         /\ \A m \in ModelsOf(ToSet(p.formula)) : Satisfies(m, ToSet(c))

NoRef == 0
NoLit == 0

True  == 1
Undef == 0
False == -1

VARIABLES
  problem,   \* the clauses to add, and those other threads may send
  pc,        \* where the solver is
  added,     \* how many clauses of the problem have been added
  s,         \* the solver: the fields of the record built by EmptySolver
  conflicts, \* how many conflicts were analysed
  due,       \* of "restart" and "reduce": what a conflict may have made due
  simpDB_assigns,
  model

vars == <<problem, pc, added, s, conflicts, due, simpDB_assigns, model>>

NoWatches == [l \in Lits |-> << >>]

EmptySolver ==
  [db |-> << >>,             \* the clauses in memory, by reference
   deleted |-> {},           \* those among them that were removed: their mark is 1
   clauses |-> {}, learnts |-> {}, unaryWatchedClauses |-> {},
   watches |-> NoWatches, watchesBin |-> NoWatches, unaryWatches |-> NoWatches,
   dirty |-> {},             \* the lists <<kind, literal>> that may watch removed clauses
   oneWatched |-> {},        \* the clauses in unaryWatches
   assigns |-> [v \in Vars |-> Undef],
   level   |-> [v \in Vars |-> 0],
   reason  |-> [v \in Vars |-> NoRef],
   trail |-> << >>, trailLim |-> << >>, qhead |-> 0,
   decision |-> Vars,        \* the variables search may branch on
   orderHeap |-> Vars,
   polarity |-> [v \in Vars |-> False],  \* the value a decision gives
   confl |-> NoRef]

Init ==
  /\ problem \in Problems
  /\ pc = "add" /\ added = 0
  /\ s = EmptySolver
  /\ conflicts = 0 /\ due = {} /\ simpDB_assigns = -1
  /\ model = EmptySolver.assigns

Value(st, l) == IF l > 0 THEN st.assigns[l] ELSE -st.assigns[-l]
DecisionLevel(st) == Len(st.trailLim)
Level(st, l) == st.level[Var(l)]

UncheckedEnqueue(st, p, from) ==
  [st EXCEPT !.assigns[Var(p)] = IF p > 0 THEN True ELSE False,
             !.reason[Var(p)] = from,
             !.level[Var(p)] = DecisionLevel(st),
             !.trail = Append(@, p)]

NewDecisionLevel(st) == [st EXCEPT !.trailLim = Append(@, Len(st.trail))]

-----------------------------------------------------------------------------
(* Attaching and removing clauses.                                         *)

Watcher(cr, blocker) == [cref |-> cr, blocker |-> blocker]
Without(ws, crs) == Selected(ws, {i \in DOMAIN ws : ws[i].cref \notin crs})

NextRef(st) == Len(st.db) + 1
Alloc(st, c) == [st EXCEPT !.db = Append(@, c)]

\* Mutant: only the first literal is watched.
WatchedOnce(st, cr) ==
  LET c == st.db[cr]
  IN  IF Len(c) = 2 THEN [st EXCEPT !.watchesBin[-c[1]] = Append(@, Watcher(cr, c[2]))]
                    ELSE [st EXCEPT !.watches[-c[1]] = Append(@, Watcher(cr, c[2]))]

AttachClause(st, cr) ==
  LET c == st.db[cr]
  IN  IF Len(c) = 2
        THEN [st EXCEPT !.watchesBin[-c[1]] = Append(@, Watcher(cr, c[2])),
                        !.watchesBin[-c[2]] = Append(@, Watcher(cr, c[1]))]
        ELSE [st EXCEPT !.watches[-c[1]] = Append(@, Watcher(cr, c[2])),
                        !.watches[-c[2]] = Append(@, Watcher(cr, c[1]))]

AttachClausePurgatory(st, cr) ==
  LET c == st.db[cr]
  IN  [st EXCEPT !.unaryWatches[-c[1]] = Append(@, Watcher(cr, c[2])),
                 !.oneWatched = @ \cup {cr}]

\* The lists a clause is attached to.
Lists(st, cr) ==
  LET c == st.db[cr]
  IN  IF cr \in st.oneWatched THEN {<<"unary", -c[1]>>}
      ELSE IF Len(c) = 2 THEN {<<"binary", -c[1]>>, <<"binary", -c[2]>>}
      ELSE {<<"long", -c[1]>>, <<"long", -c[2]>>}

ListOf(st, kind, l) ==
  CASE kind = "unary" -> st.unaryWatches[l] [] kind = "binary" -> st.watchesBin[l]
    [] kind = "long" -> st.watches[l]

\* Mutant: a clause of the purgatory is looked for in the lists of the others.
NoPurgatory(st, cr) ==
  [st EXCEPT !.dirty = @ \cup Lists([st EXCEPT !.oneWatched = {}], cr)]

\* detachClause and detachClausePurgatory, lazily: the lists are smudged.
DetachClause(st, cr) == [st EXCEPT !.dirty = @ \cup Lists(st, cr)]

\* The same, strictly: the watchers leave the lists at once.
StrictlyDetached(st, cr) ==
  LET in(kind, l) == <<kind, l>> \in Lists(st, cr)
      less(kind) == [l \in Lits |-> IF in(kind, l) THEN Without(ListOf(st, kind, l), {cr})
                                                   ELSE ListOf(st, kind, l)]
  IN  [st EXCEPT !.watches = less("long"), !.watchesBin = less("binary"),
                 !.unaryWatches = less("unary"), !.oneWatched = @ \ {cr}]

\* cleanAll: the removed clauses leave the dirty lists.
CleanAll(st) ==
  LET clean(kind) ==
        [l \in Lits |-> IF <<kind, l>> \in st.dirty
                          THEN Without(ListOf(st, kind, l), st.deleted)
                          ELSE ListOf(st, kind, l)]
  IN  IF st.dirty = {} THEN st
      ELSE [st EXCEPT !.watches = clean("long"), !.watchesBin = clean("binary"),
                      !.unaryWatches = clean("unary"), !.dirty = {}]

\* Mutant: a long clause that is a reason is not locked.
LockedBinary(st, cr) ==
  \E l \in ToSet(st.db[cr]) : /\ Len(st.db[cr]) = 2 /\ Value(st, l) = True
                              /\ st.reason[Var(l)] = cr

Locked(st, cr) ==
  LET c == st.db[cr]
      isReasonOf(l) == Value(st, l) = True /\ st.reason[Var(l)] = cr
  IN  isReasonOf(c[1]) \/ (Len(c) = 2 /\ isReasonOf(c[2]))

\* Mutant: the clause is not marked.
DetachOnly(st, cr) ==
  IF Locked(st, cr) THEN [DetachClause(st, cr) EXCEPT !.reason[Var(st.db[cr][1])] = NoRef]
                    ELSE DetachClause(st, cr)

\* A binary clause may be locked by its second literal, but it is the reason
\* of the first one that is reset.
RemoveClause(st, cr) ==
  LET freed == [DetachClause(st, cr) EXCEPT !.deleted = @ \cup {cr}]
  IN  IF Locked(st, cr) THEN [freed EXCEPT !.reason[Var(st.db[cr][1])] = NoRef] ELSE freed

\* Clauses are removed and leave the three lists of references.
RemoveClauses(st, refs) ==
  LET removed == FoldSet(LAMBDA cr, acc : RemoveClause(acc, cr), st, refs)
  IN  [removed EXCEPT !.clauses = @ \ refs, !.learnts = @ \ refs, !.unaryWatchedClauses = @ \ refs]

Watched(st) == {w.cref : w \in UNION {ToSet(ListOf(st, kind, l)) :
                                        kind \in {"long", "binary", "unary"}, l \in Lits}}

\* What has moved when the reasons are visited: what is held elsewhere or
\* watched, and the reasons that still hold their literal.
MovedEarly(st, held) ==
  held \cup Watched(st)
  \cup {r \in {st.reason[Var(l)] : l \in ToSet(st.trail)} \ {NoRef} : Locked(st, r)}

\* Where each clause goes, in the new region.
To(st, held) ==
  LET ranks(moved) == [r \in moved |-> Cardinality({m \in moved : m <= r})]
  IN  ranks(MovedEarly(st, held) \cup st.learnts \cup st.clauses \cup st.unaryWatchedClauses)

\* The solver in the new region, where clauses have the references to[r].
Relocated(st, to, early) ==
  LET refs(R) == {to[r] : r \in R \cap DOMAIN to}
      list(f) == [l \in Lits |-> [i \in DOMAIN f[l] |-> Watcher(to[f[l][i].cref], f[l][i].blocker)]]
      follows(v) == st.assigns[v] # Undef /\ st.reason[v] \in early
  IN  [st EXCEPT
         !.db = [i \in 1 .. Cardinality(DOMAIN to) |-> @[CHOOSE r \in DOMAIN to : to[r] = i]],
         !.deleted = refs(@), !.oneWatched = refs(@),
         !.clauses = refs(@), !.learnts = refs(@), !.unaryWatchedClauses = refs(@),
         !.watches = list(@), !.watchesBin = list(@), !.unaryWatches = list(@),
         !.reason = [v \in Vars |-> IF follows(v) THEN to[@[v]] ELSE @[v]]]

\* garbageCollect: what is reached moves to a new region, in some order, with
\* its mark; the rest is lost.
GarbageCollect(st, held) ==
  LET in(clean) == Relocated(clean, To(clean, held), MovedEarly(clean, held))
  IN  in(CleanAll(st))

\* checkGarbage: the share of memory that is wasted decides.
MayCollect(st) == IF st.deleted = {} THEN {st} ELSE {st, GarbageCollect(st, {})}

-----------------------------------------------------------------------------
(* propagate and propagateUnaryWatches: the clauses watching the negation  *)
(* of p, for the next literal p of the trail.                              *)

\* The first literal from position k on that is not false, 0 if there is none.
FirstNonFalse(st, c, k) ==
  LET found == {i \in k .. Len(c) : Value(st, c[i]) # False}
  IN  IF found = {} THEN 0 ELSE Min(found)

\* Mutant: a binary clause found false is no conflict.
BinaryUnitsOnly(st, w) ==
  IF st.confl # NoRef \/ Value(st, w.blocker) # Undef THEN st
  ELSE UncheckedEnqueue(st, w.blocker, w.cref)

PropagateBinary(st, w) ==
  IF st.confl # NoRef \/ Value(st, w.blocker) = True THEN st
  ELSE IF Value(st, w.blocker) = False THEN [st EXCEPT !.confl = w.cref]
  ELSE UncheckedEnqueue(st, w.blocker, w.cref)

Keep(st, p, w) == [st EXCEPT !.watches[p] = Append(@, w)]

\* The clause of a watcher, with the false literal second; its first literal
\* that is not false, from the third on, is at k, 0 if there is none.
Visit(st, p, w, c, k) ==
  LET stays == Keep(st, p, Watcher(w.cref, c[1]))
  IN  IF Value(st, c[1]) = True THEN stays
      ELSE IF k # 0
        THEN [st EXCEPT !.db[w.cref] = Swapped(c, 2, k),
                        !.watches[-c[k]] = Append(@, Watcher(w.cref, c[1]))]
      ELSE IF Value(st, c[1]) = False
        THEN [stays EXCEPT !.confl = w.cref, !.qhead = Len(st.trail)]
      ELSE UncheckedEnqueue(stays, c[1], w.cref)

\* One watcher of the list of p, which is built anew from those that stay.
PropagateWatcher(st, p, w) ==
  LET visit(st1, c) == Visit(st1, p, w, c, FirstNonFalse(st1, c, 3))
      at(st1) == visit(st1, st1.db[w.cref])
  IN  IF st.confl # NoRef \/ Value(st, w.blocker) = True THEN Keep(st, p, w)
      ELSE at([st EXCEPT !.db[w.cref] = IF @[1] = -p THEN Swapped(@, 1, 2) ELSE @])

\* Mutant: the promoted clause is watched by its first two literals.
PromoteAsItIs(st, cr) == AttachClause(StrictlyDetached(st, cr), cr)

\* A false clause of the purgatory becomes watched by two of its literals, the
\* second one of the highest level of the others.
Promote(st, cr) ==
  LET c == st.db[cr]
      highest == Max({st.level[Var(c[k])] : k \in 2 .. Len(c)})
      index   == Min({k \in 2 .. Len(c) : st.level[Var(c[k])] = highest})
      away    == StrictlyDetached(st, cr)
  IN  AttachClause([away EXCEPT !.db[cr] = Swapped(c, 2, index)], cr)

KeepUnary(st, p, w) == [st EXCEPT !.unaryWatches[p] = Append(@, w)]

PropagateUnaryWatcher(st, p, w) ==
  IF st.confl # NoRef \/ Value(st, w.blocker) = True THEN KeepUnary(st, p, w)
  ELSE
    LET c  == st.db[w.cref]
        w1 == Watcher(w.cref, c[1])
        k  == FirstNonFalse(st, c, 2)
    IN  IF k # 0
          THEN [st EXCEPT !.db[w.cref] = Swapped(c, 1, k),
                          !.unaryWatches[-c[k]] = Append(@, w1)]
          ELSE Promote([KeepUnary(st, p, w1) EXCEPT !.confl = w.cref, !.qhead = Len(st.trail)],
                       w.cref)

\* One turn of the loop of propagate, for the literal p: the binary clauses,
\* the long ones, those of the purgatory, as long as there is no conflict.
PropagateNext(st0, p) ==
  LET binary(st) == FoldLeft(PropagateBinary, st, st.watchesBin[p])
      long(st)   == IF st.confl # NoRef THEN st
                    ELSE FoldLeft(LAMBDA acc, w : PropagateWatcher(acc, p, w),
                                  [st EXCEPT !.watches[p] = << >>], st.watches[p])
      unary(st)  == IF st.confl # NoRef THEN st
                    ELSE FoldLeft(LAMBDA acc, w : PropagateUnaryWatcher(acc, p, w),
                                  [st EXCEPT !.unaryWatches[p] = << >>], st.unaryWatches[p])
  IN  unary(long(binary([st0 EXCEPT !.qhead = @ + 1])))

\* Every variable is propagated at most once, so NbVars turns are enough.
Propagated(st) ==
  FoldLeft(LAMBDA acc, v : IF acc.confl # NoRef \/ acc.qhead = Len(acc.trail)
                             THEN acc ELSE PropagateNext(acc, acc.trail[acc.qhead + 1]),
           CleanAll(st), [v \in Vars |-> v])

-----------------------------------------------------------------------------
(* analyze: the clause learnt from a conflict.                             *)

\* The reason of an implied literal, with that literal first.
TrueFirst(st, cr) ==
  LET c == st.db[cr]
  IN  IF Len(c) = 2 /\ Value(st, c[1]) = False THEN Swapped(c, 1, 2) ELSE c

See(st, a, q) ==
  IF Var(q) \in a.seen \/ Level(st, q) = 0 THEN a
  ELSE IF Level(st, q) >= DecisionLevel(st)
    THEN [a EXCEPT !.seen = @ \cup {Var(q)}, !.pathC = @ + 1]
    ELSE [a EXCEPT !.seen = @ \cup {Var(q)}, !.out = Append(@, q)]

\* One turn of the loop of analyze: resolve with a.confl, then look for the
\* latest literal of the trail that was seen.
Resolve(st, a) ==
  LET lits == IF a.p = NoLit THEN st.db[a.confl] ELSE Tail(TrueFirst(st, a.confl))
      a1   == FoldLeft(LAMBDA acc, q : See(st, acc, q), a, lits)
      i    == Max({k \in 1 .. a.index : Var(st.trail[k]) \in a1.seen})
      p    == st.trail[i]
  IN  [a1 EXCEPT !.seen = @ \ {Var(p)}, !.pathC = @ - 1, !.p = p, !.index = i - 1,
                 !.confl = st.reason[Var(p)],
                 !.visited = IF a.p = NoLit THEN @ ELSE @ \cup {a.confl}]

FirstUIP(st) ==
  FoldLeft(LAMBDA a, l : IF a.p # NoLit /\ a.pathC = 0 THEN a ELSE Resolve(st, a),
           [seen |-> {}, pathC |-> 0, out |-> << >>, p |-> NoLit, index |-> Len(st.trail),
            confl |-> st.confl, visited |-> {}],
           st.trail)

\* Mutant: whatever has a reason is redundant.
AlwaysRedundant(st, q, seen, visited, levels) ==
  [redundant |-> TRUE, seen |-> seen, visited |-> visited]

\* litRedundant: whether literal q follows from others of the learnt clause.
LitRedundant(st, q, seen, visited, levels) ==
  LET after(e) ==
        LET cr  == st.reason[Var(Last(e.stack))]
            c   == Tail(TrueFirst(st, cr))
            new == Selected(c, {i \in DOMAIN c : Var(c[i]) \notin e.seen /\ Level(st, c[i]) > 0})
            known == e.visited \cup {cr}
        IN  IF \E l \in ToSet(new) : st.reason[Var(l)] = NoRef \/ Level(st, l) % 32 \notin levels
              THEN [redundant |-> FALSE, stack |-> << >>, seen |-> seen, visited |-> known]
              ELSE [redundant |-> TRUE, stack |-> Front(e.stack) \o new,
                    seen |-> e.seen \cup {Var(l) : l \in ToSet(new)}, visited |-> known]
      \* Every variable is pushed at most once.
      explored[n \in 0 .. NbVars + 1] ==
        IF n = 0 THEN [redundant |-> TRUE, stack |-> <<q>>, seen |-> seen, visited |-> visited]
        ELSE LET e == explored[n - 1] IN IF e.stack = << >> THEN e ELSE after(e)
  IN  explored[NbVars + 1]

\* The literals that are not redundant, with the reasons looked at.
Minimized(st, a) ==
  LET levels == {Level(st, q) % 32 : q \in ToSet(a.out)}
      step(acc, q) ==
        IF st.reason[Var(q)] = NoRef THEN [acc EXCEPT !.out = Append(@, q)]
        ELSE LET r == LitRedundant(st, q, acc.seen, acc.visited, levels)
             IN  [seen |-> r.seen, visited |-> r.visited,
                  out |-> IF r.redundant THEN acc.out ELSE Append(acc.out, q)]
  IN  FoldLeft(step, [seen |-> a.seen, visited |-> a.visited, out |-> << >>], a.out)

\* minimisationWithBinaryResolution, for the literal uip of the trail: the
\* places of the literals removed are filled from the end.
ResolvedWithBinary(st, uip, out) ==
  LET implied == {w.blocker : w \in ToSet(st.watchesBin[uip])}
      kept    == {k \in DOMAIN out : -out[k] \notin implied}
      n       == Cardinality(kept)
      holes   == {k \in 1 .. n : k \notin kept}
      filler(h) == CHOOSE k \in kept : Cardinality({j \in kept : j >= k})
                                       = Cardinality({j \in holes : j <= h})
  IN  [k \in 1 .. n |-> out[IF k \in kept THEN k ELSE filler(k)]]

\* Mutant: the literals stay as they are.
AnyOrder(st, out) == out

\* The first literal of the highest level comes first.
HighestFirst(st, out) ==
  IF out = << >> THEN out
  ELSE LET highest == Max({Level(st, q) : q \in ToSet(out)})
       IN  Swapped(out, 1, Min({k \in DOMAIN out : Level(st, out[k]) = highest}))

\* What analyze returns, and the reasons whose two literals it has exchanged.
Analyze(st) ==
  LET a   == FirstUIP(st)
      m   == Minimized(st, a)
      out == HighestFirst(st, ResolvedWithBinary(st, a.p, m.out))
  IN  [learnt  |-> <<-a.p>> \o out,
       btlevel |-> IF out = << >> THEN 0 ELSE Level(st, out[1]),
       visited |-> m.visited]

\* Mutant: variables do not return to the heap.
HeapNotRefilled(st, level) ==
  IF DecisionLevel(st) <= level THEN st
  ELSE LET n     == st.trailLim[level + 1]
           undone == {Var(st.trail[k]) : k \in n + 1 .. Len(st.trail)}
           reset(f, x) == [v \in Vars |-> IF v \in undone THEN x ELSE f[v]]
       IN  [st EXCEPT !.assigns = reset(@, Undef), !.level = reset(@, 0),
                      !.reason = reset(@, NoRef),
                      !.qhead = n, !.trail = SubSeq(@, 1, n),
                      !.trailLim = SubSeq(@, 1, level)]

CancelUntil(st, level) ==
  IF DecisionLevel(st) <= level THEN st
  ELSE LET n     == st.trailLim[level + 1]
           undone == {Var(st.trail[k]) : k \in n + 1 .. Len(st.trail)}
           reset(f, x) == [v \in Vars |-> IF v \in undone THEN x ELSE f[v]]
       IN  [st EXCEPT !.assigns = reset(@, Undef), !.level = reset(@, 0),
                      !.reason = reset(@, NoRef),
                      !.polarity = [v \in Vars |-> IF v \in undone THEN st.assigns[v] ELSE @[v]],
                      !.orderHeap = @ \cup (undone \cap st.decision),
                      !.qhead = n, !.trail = SubSeq(@, 1, n),
                      !.trailLim = SubSeq(@, 1, level)]

-----------------------------------------------------------------------------
(* The actions.                                                            *)

\* A clause of literals that are all free.
WithLiterals(st, c) ==
  LET unit(new) == [s |-> new, ok |-> new.confl = NoRef, cr |-> NoRef]
      long(cr)  == [s |-> AttachClause([Alloc(st, c) EXCEPT !.clauses = @ \cup {cr}], cr),
                    ok |-> TRUE, cr |-> cr]
  IN  CASE Len(c) = 0 -> [s |-> st, ok |-> FALSE, cr |-> NoRef]
        [] Len(c) = 1 -> unit(Propagated(UncheckedEnqueue(st, c[1], NoRef)))
        [] OTHER      -> long(NextRef(st))

\* A set of literals in the order of their numbers in the code.
LitNumber(l) == 2 * Var(l) + (IF l < 0 THEN 1 ELSE 0)
Sorted(c) ==
  [i \in 1 .. Cardinality(c) |->
     CHOOSE l \in c : Cardinality({m \in c : LitNumber(m) <= LitNumber(l)}) = i]

\* addClause_: false and duplicate literals go, a true or tautological clause
\* is dropped.  The result: the solver, whether it is still okay, and the
\* reference of the clause that was attached.
WithClause(st, c) ==
  IF \E l \in c : Value(st, l) = True \/ (-l \in c /\ Value(st, l) = Undef)
    THEN [s |-> st, ok |-> TRUE, cr |-> NoRef]
    ELSE WithLiterals(st, Sorted({l \in c : Value(st, l) = Undef}))

AddClause ==
  /\ pc = "add" /\ added < Len(problem.formula)
  /\ LET r == WithClause(s, problem.formula[added + 1])
     IN  /\ s' = r.s
         /\ pc' = IF r.ok THEN "add" ELSE "unsat"
  /\ added' = added + 1
  /\ UNCHANGED <<problem, conflicts, due, simpDB_assigns, model>>

Solve ==
  /\ pc = "add" /\ added = Len(problem.formula)
  /\ pc' = "search"
  /\ UNCHANGED <<problem, added, s, conflicts, due, simpDB_assigns, model>>

\* parallelImportUnaryClauses, one literal: one already assigned is ignored,
\* be it true or false.
ImportUnary(c) ==
  /\ pc = "search" /\ DecisionLevel(s) = 0
  /\ Len(c) = 1
  /\ problem' = [problem EXCEPT !.offers = @ \ {c}]
  /\ s' = IF Value(s, c[1]) = Undef THEN UncheckedEnqueue(s, c[1], NoRef) ELSE s
  /\ UNCHANGED <<pc, added, conflicts, due, simpDB_assigns, model>>

\* parallelImportClauses, one clause, whatever the values of its literals are.
ImportClause(c) ==
  /\ pc \in {"search", "import"} /\ DecisionLevel(s) = 0
  /\ Len(c) > 1
  /\ problem' = [problem EXCEPT !.offers = @ \ {c}]
  /\ LET cr == NextRef(s)
         st == [Alloc(s, c) EXCEPT !.unaryWatchedClauses = @ \cup {cr}]
     IN  s' = IF Len(c) = 2 THEN AttachClause(st, cr) ELSE AttachClausePurgatory(st, cr)
  /\ pc' = "import"
  /\ UNCHANGED <<added, conflicts, due, simpDB_assigns, model>>

Propagate ==
  /\ pc \in {"search", "import"}
  /\ s' = Propagated(s)
  /\ pc' = IF s'.confl # NoRef THEN "conflict" ELSE "noConflict"
  /\ UNCHANGED <<problem, added, conflicts, due, simpDB_assigns, model>>

\* A conflict without any decision.
Contradiction ==
  /\ pc = "conflict" /\ DecisionLevel(s) = 0
  /\ pc' = "unsat"
  /\ UNCHANGED <<problem, added, s, conflicts, due, simpDB_assigns, model>>

Learn ==
  /\ pc = "conflict" /\ DecisionLevel(s) > 0
  /\ conflicts < problem.maxConflicts
  /\ \E a \in {Analyze(s)} :
       LET st == CancelUntil([s EXCEPT !.confl = NoRef,
                                !.db = [cr \in DOMAIN @ |->
                                          IF cr \in a.visited THEN TrueFirst(s, cr) ELSE @[cr]]],
                             a.btlevel)
           cr == NextRef(s)
       IN  s' = IF Len(a.learnt) = 1 THEN UncheckedEnqueue(st, a.learnt[1], NoRef)
                ELSE UncheckedEnqueue(
                       AttachClause([Alloc(st, a.learnt) EXCEPT !.learnts = @ \cup {cr}], cr),
                       a.learnt[1], cr)
  /\ conflicts' = conflicts + 1
  /\ due' = {"restart", "reduce"}
  /\ pc' = "search"
  /\ UNCHANGED <<problem, added, simpDB_assigns, model>>

\* lbdQueue, emptied by a restart, must fill again before the next one.
Restart ==
  /\ pc = "noConflict" /\ "restart" \in due
  /\ due' = due \ {"restart"}
  /\ s' = CancelUntil(s, 0)
  /\ pc' = "search"
  /\ UNCHANGED <<problem, added, conflicts, simpDB_assigns, model>>

SatisfiedClauses(refs) == {cr \in refs : \E l \in ToSet(s.db[cr]) : Value(s, l) = True}

\* rebuildOrderHeap.
OrderHeap(st) == {v \in st.decision : st.assigns[v] = Undef}

\* simplify: when there are new assignments without decision, and the count of
\* propagations since the last time allows it.
Simplify ==
  /\ pc = "noConflict" /\ DecisionLevel(s) = 0
  /\ Len(s.trail) # simpDB_assigns
  /\ \E st \in MayCollect(RemoveClauses(s, SatisfiedClauses(s.clauses \cup s.learnts
                                                              \cup s.unaryWatchedClauses))) :
       s' = [st EXCEPT !.orderHeap = OrderHeap(st)]
  /\ simpDB_assigns' = Len(s.trail)
  /\ pc' = "reduce"
  /\ UNCHANGED <<problem, added, conflicts, due, model>>

\* reduceDB: which clauses go is a matter of their scores, but a binary or a
\* locked one never does.
Removable(refs) == {cr \in refs : Len(s.db[cr]) > 2 /\ ~Locked(s, cr)}

ReduceDB ==
  /\ pc \in {"noConflict", "reduce"}
  /\ "reduce" \in due /\ s.learnts # {}
  /\ due' = due \ {"reduce"}
  /\ \E gone \in SUBSET Removable(s.learnts \cup s.unaryWatchedClauses) :
       /\ gone # {}
       /\ s' \in MayCollect(RemoveClauses(s, gone))
  /\ pc' = "decide"
  /\ UNCHANGED <<problem, added, conflicts, simpDB_assigns, model>>

Deciding == pc \in {"noConflict", "reduce", "decide"}
Free == {v \in s.orderHeap \cap s.decision : s.assigns[v] = Undef}

\* pickBranchLit takes variables off the heap until one is free, and gives it
\* the value it had last.
Decide ==
  /\ Deciding
  /\ \E next \in Free, taken \in SUBSET (s.orderHeap \ Free) :
       LET p  == IF s.polarity[next] = True THEN next ELSE -next
           st == [s EXCEPT !.orderHeap = @ \ (taken \cup {next})]
       IN  s' = UncheckedEnqueue(NewDecisionLevel(st), p, NoRef)
  /\ pc' = "search"
  /\ UNCHANGED <<problem, added, conflicts, due, simpDB_assigns, model>>

ModelFound ==
  /\ Deciding /\ Free = {}
  /\ model' = s.assigns
  /\ s' = CancelUntil([s EXCEPT !.orderHeap = {}], 0)
  /\ pc' = "sat"
  /\ UNCHANGED <<problem, added, conflicts, due, simpDB_assigns>>

Next ==
  \/ AddClause \/ Solve \/ (\E c \in problem.offers : ImportUnary(c) \/ ImportClause(c))
  \/ Propagate \/ Contradiction \/ Learn
  \/ Restart \/ Simplify \/ ReduceDB \/ Decide \/ ModelFound

Spec == Init /\ [][Next]_vars

-----------------------------------------------------------------------------
(* Properties.                                                             *)

Promoted == {cr \in s.unaryWatchedClauses \ s.oneWatched : Len(s.db[cr]) > 2}

FormulaModels == ModelsOf(ToSet(problem.formula))

Live(st) == DOMAIN st.db \ st.deleted

\* Every field keeps its type; the clauses in memory are those of the three
\* lists and those removed, and the trail holds the literals that are true.
TypeOK ==
  /\ pc \in {"add", "search", "import", "conflict", "noConflict", "reduce", "decide", "sat", "unsat"}
  /\ Live(s) = s.clauses \cup s.learnts \cup s.unaryWatchedClauses
  /\ s.deleted \subseteq DOMAIN s.db
  /\ \A cr \in DOMAIN s.db : Len(s.db[cr]) >= 2 /\ s.db[cr] \in Seq(Lits)
  /\ s.assigns \in [Vars -> {True, Undef, False}]
  /\ ToSet(s.trail) = {l \in Lits : Value(s, l) = True}
  /\ s.qhead \in 0 .. Len(s.trail)
  /\ s.oneWatched \cap Live(s) \subseteq s.unaryWatchedClauses

\* What solve answers is right: a model found satisfies every clause that was
\* added, those the solver has simplified away included, and it answers that
\* there is none only when there is none.
AnswerIsRight ==
  /\ pc = "sat" => /\ \A v \in Vars : model[v] # Undef
                   /\ {v \in Vars : model[v] = True} \in FormulaModels
  /\ pc = "unsat" => FormulaModels = {}

\* A learnt clause, after both minimisations, and a literal assigned without
\* any decision follow from the formula: they may be sent to other threads.
OnlyConsequences ==
  \A m \in FormulaModels :
    /\ \A cr \in s.learnts : Satisfies(m, ToSet(s.db[cr]))
    /\ \A l \in ToSet(s.trail) : Level(s, l) = 0 => Satisfies(m, {l})

\* When search decides, propagate has left nothing to infer: no clause attached
\* by two watches is false or has one free literal only.  So it is for an
\* imported clause that was promoted, whose second watch is chosen "s.t. it
\* will correctly be propagated when we'll backtrack" (core/Solver.cc:1109).
PropagationComplete ==
  Deciding =>
    \A cr \in s.clauses \cup s.learnts \cup Promoted :
      \/ \E l \in ToSet(s.db[cr]) : Value(s, l) = True
      \/ Cardinality({l \in ToSet(s.db[cr]) : Value(s, l) = Undef}) >= 2

\* A clause is in the lists of its first two literals, or of the first one in
\* the purgatory, once in each, and in no other list; what watches a removed
\* clause is in a list still to be cleaned, and nothing watches a clause that
\* has left the memory; a blocker is a literal of its clause.
WatchersMatch ==
  \A kind \in {"unary", "binary", "long"} : \A l \in Lits :
    LET ws == ListOf(s, kind, l)
        crs == {w.cref : w \in ToSet(ws)}
    IN  /\ \A i, j \in DOMAIN ws : i # j => ws[i].cref # ws[j].cref
        /\ crs \ s.deleted = {cr \in Live(s) : <<kind, l>> \in Lists(s, cr)}
        /\ crs \cap s.deleted # {} => <<kind, l>> \in s.dirty
        /\ \A w \in ToSet(ws) : w.blocker \in ToSet(s.db[w.cref])

\* The reason of a literal is a clause in memory, the literal is its first one
\* (either one if it is binary), and the others were false before it: analyze
\* and litRedundant walk the reasons above level 0.  A reason at level 0 may be
\* a clause that was removed, and must survive the compaction of memory.
ReasonsSupport ==
  \A k \in DOMAIN s.trail :
    LET l == s.trail[k]
        r == s.reason[Var(l)]
    IN  r # NoRef =>
          /\ r \in IF Level(s, l) > 0 THEN Live(s) ELSE DOMAIN s.db
          /\ LET c == TrueFirst(s, r)
             IN  c[1] = l /\ \A q \in ToSet(Tail(c)) : -q \in ToSet(SubSeq(s.trail, 1, k - 1))

\* No free variable is missing from the heap, else it would never be decided
\* and "no variable left" would be taken for a model.
HeapHoldsTheFree == \A v \in s.decision : s.assigns[v] = Undef => v \in s.orderHeap

\* The clause the last step has learnt, from what it has enqueued.
Learnt == IF Len(s'.trail) > 0 /\ s'.reason[Var(Last(s'.trail))] # NoRef
            THEN s'.db[s'.reason[Var(Last(s'.trail))]] ELSE <<Last(s'.trail)>>

\* A conflict always teaches something: no clause at hand implies the learnt
\* one, so the search cannot go round in circles.
LearntIsNew ==
  [][Learn => \A cr \in s.clauses \cup s.learnts : ~(ToSet(s.db[cr]) \subseteq ToSet(Learnt))]_vars

\* After the backjump the learnt clause is false but for its first literal,
\* its second one is of the level jumped to, and a unit is learnt for good.
LearntAsserts ==
  [][Learn => /\ \A k \in 2 .. Len(Learnt) : Value(s', Learnt[k]) = False
              /\ Len(Learnt) > 1 => Level(s', Learnt[2]) = DecisionLevel(s')
              /\ Len(Learnt) = 1 => DecisionLevel(s') = 0]_vars
=============================================================================
