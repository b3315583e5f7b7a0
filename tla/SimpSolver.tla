----------------------------- MODULE SimpSolver -----------------------------
(***************************************************************************)
(* The solver sato runs (simp/SimpSolver.cc, simp/Main.cc): before the     *)
(* search, clauses that others subsume are removed or strengthened, and    *)
(* variables are eliminated by resolution, cheapest first.  The clauses of *)
(* an eliminated variable are kept aside to extend the model found to it.  *)
(*                                                                         *)
(* An operator on the solver takes and returns z: the record s of Cdcl     *)
(* and the record e of the simplifier.  The limits on the size of the      *)
(* clauses considered (20 and 1000 literals) are not reached.              *)
(***************************************************************************)
EXTENDS Cdcl
\* A problem has a field more, its options: of "elim", on by default, and
\* "asymm" and "rcheck", off by default; and interruptible: whether the user may
\* interrupt it.

VARIABLE e   \* the simplifier: the fields of the record built by EmptySimplifier

simpVars == <<vars, e>>

TmpUnit == 0   \* bwdsub_tmpunit, the clause that holds a unit to check

EmptySimplifier ==
  [nVars |-> 0,
   occurs |-> [v \in Vars |-> << >>],  \* the clauses of each variable, and removed ones
   smudged |-> {},                     \* the variables whose list has removed ones
   nOcc |-> [l \in Lits |-> 0],
   touched |-> {}, queue |-> << >>, heap |-> << >>,
   eliminated |-> {}, frozen |-> {},
   elimclauses |-> << >>,              \* each with the literal of its variable first
   bwd |-> 0,                          \* bwdsub_assigns: how much of the trail was checked
   after |-> "check",                  \* where backwardSubsumptionCheck returns to
   elim |-> 0,                         \* the variable being eliminated
   interrupted |-> FALSE,
   ok |-> TRUE]

SimpInit == Init /\ e = EmptySimplifier

Option(o) == o \in problem.options
RemovedFrom(xs, x) == SelectSeq(xs, LAMBDA y : y # x)
Clause(z, cr) == IF cr = TmpUnit THEN <<z.s.trail[z.e.bwd]>> ELSE z.s.db[cr]
IsDeleted(z, cr) == cr \in z.s.deleted

-----------------------------------------------------------------------------
(* Occurrences and the heap of the variables to eliminate.                 *)

Cost(nOcc) == [v \in Vars |-> nOcc[v] * nOcc[-v]]

\* Mutant: a variable that is in the heap keeps its place.
KeepsItsPlace(z, v) ==
  IF ~InHeap(z.e.heap, v) /\ v \notin z.e.frozen \cup z.e.eliminated /\ z.s.assigns[v] = Undef
    THEN [z EXCEPT !.e.heap = HeapUpdate(@, v, Cost(z.e.nOcc))]
    ELSE z

UpdateElimHeap(z, v) ==
  IF InHeap(z.e.heap, v) \/ (v \notin z.e.frozen \cup z.e.eliminated /\ z.s.assigns[v] = Undef)
    THEN [z EXCEPT !.e.heap = HeapUpdate(@, v, Cost(z.e.nOcc))]
    ELSE z

\* lookup: the list is cleaned first if it was smudged.
LookedUp(z, v) ==
  IF v \in z.e.smudged
    THEN [z EXCEPT !.e.smudged = @ \ {v},
                   !.e.occurs[v] = SelectSeq(@, LAMBDA cr : ~IsDeleted(z, cr))]
    ELSE z

\* Mutant: a removed literal still counts.
KeepsCount(z, l) == [z EXCEPT !.e.smudged = @ \cup {Var(l)}]

LeavesOccurrence(z, l) ==
  LET fewer == [z EXCEPT !.e.nOcc[l] = @ - 1]
  IN  [UpdateElimHeap(fewer, Var(l)) EXCEPT !.e.smudged = @ \cup {Var(l)}]

RemoveOccurring(z, cr) ==
  [FoldLeft(LeavesOccurrence, z, z.s.db[cr]) EXCEPT !.s = RemoveClause(@, cr)]

\* Enqueue a literal without decision and propagate it.
Assign(z, l) ==
  LET after(st) == [z EXCEPT !.s = st, !.e.ok = st.confl = NoRef]
  IN  IF Value(z.s, l) = False THEN [z EXCEPT !.e.ok = FALSE]
      ELSE after(Propagated(IF Value(z.s, l) = Undef THEN UncheckedEnqueue(z.s, l, NoRef) ELSE z.s))

\* Mutant: the clause found shorter is not checked again.
NotQueued(z, cr) == z

Requeued(z, cr) == [z EXCEPT !.e.queue = Append(@, cr)]

\* Mutant: the clause keeps its watchers and its size.
WatchedAsBefore(z, cr, c, l) ==
  IF Len(c) = 1 THEN Assign([RemoveOccurring(z, cr) EXCEPT !.s.db[cr] = c], c[1])
  ELSE UpdateElimHeap([z EXCEPT !.s.db[cr] = c, !.e.occurs[Var(l)] = RemovedFrom(@, cr),
                                !.e.nOcc[l] = @ - 1], Var(l))

\* strengthenClause, for the literals c left of clause cr: a binary clause
\* becomes a unit, the others change places.
Shortened(z, cr, c, l) ==
  IF Len(c) = 1
    THEN Assign([RemoveOccurring(z, cr) EXCEPT !.s.db[cr] = c], c[1])
    ELSE UpdateElimHeap(
           [z EXCEPT !.s = AttachClause([StrictlyDetached(@, cr) EXCEPT !.db[cr] = c], cr),
                     !.e.occurs[Var(l)] = RemovedFrom(@, cr),
                     !.e.nOcc[l] = @ - 1],
           Var(l))

StrengthenClause(z, cr, l) == Shortened(Requeued(z, cr), cr, RemovedFrom(z.s.db[cr], l), l)

\* Assume the negation of the literals, one decision for all, and propagate;
\* then take it back.  The polarities and the watches keep a trace.
Assumed(st, lits) ==
  FoldLeft(LAMBDA acc, l : UncheckedEnqueue(acc, -l, NoRef), NewDecisionLevel(st), lits)

Probe(st, lits) ==
  LET back(tried) == [s |-> CancelUntil([tried EXCEPT !.confl = NoRef], 0),
                      conflict |-> tried.confl # NoRef]
  IN  back(Propagated(Assumed(st, lits)))

\* implied: whether unit propagation refutes the negation of clause c.  It gives
\* up at a literal that is true, or becomes so by the ones assumed before it.
Implied(st, c) ==
  LET lits    == SetToSeq(c)
      free(n) == SelectSeq(SubSeq(lits, 1, n), LAMBDA l : Value(st, l) = Undef)
      trueAt  == {k \in DOMAIN lits : Value(Assumed(st, free(k - 1)), lits[k]) = True}
  IN  IF trueAt # {}
        THEN [s |-> CancelUntil(Assumed(st, free(Min(trueAt) - 1)), 0), conflict |-> FALSE]
        ELSE Probe(st, free(Len(lits)))

Occurring(z, cr, l) ==
  LET known(more) ==
        IF InHeap(more.e.heap, Var(l))
          THEN [more EXCEPT !.e.heap = HeapIncrease(@, Var(l), Cost(more.e.nOcc))]
          ELSE more
  IN  known([z EXCEPT !.e.occurs[Var(l)] = Append(@, cr), !.e.nOcc[l] = @ + 1,
                      !.e.touched = @ \cup {Var(l)}])

\* addClause_ of SimpSolver calls that of Solver, and notes where a clause that
\* was attached occurs.
AddOccurring(z, c) ==
  LET attached(r) ==
        LET z1 == [z EXCEPT !.s = r.s, !.e.ok = r.ok]
        IN  IF r.cr = NoRef THEN z1
            ELSE FoldLeft(LAMBDA acc, l : Occurring(acc, r.cr, l),
                          [z1 EXCEPT !.e.queue = Append(@, r.cr)], r.s.db[r.cr])
      checked(probe) == IF probe.conflict THEN [z EXCEPT !.s = probe.s]
                                          ELSE attached(WithClause(probe.s, c))
  IN  checked(IF Option("rcheck") THEN Implied(z.s, c) ELSE [s |-> z.s, conflict |-> FALSE])

-----------------------------------------------------------------------------
(* Backward subsumption.                                                   *)

\* subsumes: the literals of c that d lacks decide.  None: c subsumes d.  One,
\* which d has negated: that literal of d may go.
Missing(c, d) == ToSet(c) \ ToSet(d)
Resolvable(c, d) == \E l \in ToSet(c) : Missing(c, d) = {l} /\ -l \in ToSet(d)

Resolved(c, d) == CHOOSE l \in ToSet(c) : Missing(c, d) = {l} /\ -l \in ToSet(d)

\* A candidate d, which clause other holds.
Against(a, best, other, c, d) ==
  LET strengthened(l) == [z |-> StrengthenClause(a.z, other, -l),
                          j |-> IF Var(l) = best THEN a.j ELSE a.j + 1]
  IN  IF Missing(c, d) = {} THEN [z |-> RemoveOccurring(a.z, other), j |-> a.j + 1]
      ELSE IF Resolvable(c, d) THEN strengthened(Resolved(c, d))
      ELSE [a EXCEPT !.j = @ + 1]

\* The j-th clause of the variable best.
Candidate(a, cr, best) ==
  LET try(other) ==
        IF IsDeleted(a.z, other) \/ other = cr THEN [a EXCEPT !.j = @ + 1]
        ELSE Against(a, best, other, Clause(a.z, cr), a.z.s.db[other])
  IN  IF ~a.z.e.ok \/ a.j > Len(a.z.e.occurs[best]) \/ IsDeleted(a.z, cr) THEN a
      ELSE try(a.z.e.occurs[best][a.j])

\* The first variable of c with the fewest entries in its list.
Best(z, c) ==
  LET size(l) == Len(z.e.occurs[Var(l)])
      fewest  == Min({size(l) : l \in ToSet(c)})
  IN  Var(c[Min({i \in DOMAIN c : size(c[i]) = fewest})])

\* All clauses that have the variable best; one strengthened is seen again.
Scan(z, cr) ==
  LET over(z1, best) == FoldLeft(LAMBDA a, x : Candidate(a, cr, best), [z |-> z1, j |-> 1],
                                 z1.e.occurs[best] \o z1.e.occurs[best]).z
      from(best) == over(LookedUp(z, best), best)
  IN  from(Best(z, Clause(z, cr)))

CheckLeft == e.queue # << >> \/ e.bwd < Len(s.trail)

-----------------------------------------------------------------------------
(* Asymmetric branching and elimination.                                   *)

\* asymm: if propagation refutes the negation of the rest of clause cr, its
\* literal of v, or one already false after it, may go.
Asymm(z, v, cr) ==
  LET free(l) == Var(l) # v /\ Value(z.s, l) # False
      after(probe, c) ==
        IF probe.conflict
          THEN StrengthenClause([z EXCEPT !.s = probe.s], cr, Last(SelectSeq(c, LAMBDA l : ~free(l))))
          ELSE [z EXCEPT !.s = probe.s]
      tried(c) == IF \E l \in ToSet(c) : Value(z.s, l) = True THEN z
                  ELSE after(Probe(z.s, SelectSeq(c, LAMBDA l : free(l))), c)
  IN  IF IsDeleted(z, cr) THEN z ELSE tried(z.s.db[cr])

\* The loop of asymmVar: a clause that loses v leaves the list walked, and the
\* next one takes its place and is passed over.
AsymmAll(z, v) ==
  LET step(a, x) == IF ~a.z.e.ok \/ a.i > Len(a.z.e.occurs[v]) THEN a
                    ELSE [z |-> Asymm(a.z, v, a.z.e.occurs[v][a.i]), i |-> a.i + 1]
  IN  FoldLeft(step, [z |-> z, i |-> 1], z.e.occurs[v]).z

Tautology(c) == \E l \in c : -l \in c
Resolvent(c, d, v) == (ToSet(c) \cup ToSet(d)) \ {v, -v}

\* What is kept aside: the fewer clauses of one sign, and the other value.
Stored(z, v, pos, neg) ==
  LET kept(refs, l) == [i \in DOMAIN refs |-> <<l>> \o RemovedFrom(z.s.db[refs[i]], l)]
  IN  IF Len(pos) > Len(neg) THEN kept(neg, -v) \o << <<v>> >> ELSE kept(pos, v) \o << << -v>> >>

\* Mutant: one resolvent is forgotten.
AllButOne(z, v, pos, neg) ==
  LET both(i, j) == Resolvent(z.s.db[pos[i]], z.s.db[neg[j]], v)
      row(i) == [j \in DOMAIN neg |-> both(i, j)]
  IN  SelectSeq(FlattenSeq([i \in 1 .. Len(pos) - 1 |-> row(i)]), LAMBDA c : ~Tautology(c))

\* The resolvents of every clause that has v with every one that has -v.
Resolvents(z, v, pos, neg) ==
  LET both(i, j) == Resolvent(z.s.db[pos[i]], z.s.db[neg[j]], v)
      row(i) == [j \in DOMAIN neg |-> both(i, j)]
  IN  SelectSeq(FlattenSeq([i \in DOMAIN pos |-> row(i)]), LAMBDA c : ~Tautology(c))

\* The variable is set aside, the resolvents come, its clauses go.
Replaced(z, v, pos, neg, resolvents) ==
  LET aside == [z EXCEPT !.e.eliminated = @ \cup {v}, !.s.decision = @ \ {v},
                         !.e.elimclauses = @ \o Stored(z, v, pos, neg)]
      gone(z1) == IF z1.e.ok THEN [FoldLeft(RemoveOccurring, z1, z1.e.occurs[v])
                                     EXCEPT !.e.occurs[v] = << >>]
                             ELSE z1
  IN  gone(FoldLeft(LAMBDA acc, c : IF acc.e.ok THEN AddOccurring(acc, c) ELSE acc,
                    aside, resolvents))

\* eliminateVar, but for its last call: unless the clauses would grow in number.
EliminateVar(z0, v) ==
  LET decide(z, pos, neg, resolvents) ==
        IF Len(resolvents) > Len(pos) + Len(neg) THEN z ELSE Replaced(z, v, pos, neg, resolvents)
      resolve(z, pos, neg) == decide(z, pos, neg, Resolvents(z, v, pos, neg))
      split(z) == resolve(z, SelectSeq(z.e.occurs[v], LAMBDA cr : v \in ToSet(z.s.db[cr])),
                             SelectSeq(z.e.occurs[v], LAMBDA cr : v \notin ToSet(z.s.db[cr])))
  IN  split(LookedUp(z0, v))

\* Mutant: the clauses kept are read in the order they were stored.
FirstToLast(m, kept) ==
  FoldLeft(LAMBDA acc, c : IF \A l \in ToSet(Tail(c)) : Value([assigns |-> acc], l) = False
                             THEN [acc EXCEPT ![Var(c[1])] = IF c[1] > 0 THEN True ELSE False]
                             ELSE acc,
           m, kept)

\* extendModel: from the last clause to the first, one false but for its first
\* literal makes this one true.
ExtendModel(m, kept) ==
  FoldRight(LAMBDA c, acc : IF \A l \in ToSet(Tail(c)) : Value([assigns |-> acc], l) = False
                              THEN [acc EXCEPT ![Var(c[1])] = IF c[1] > 0 THEN True ELSE False]
                              ELSE acc,
            kept, m)

-----------------------------------------------------------------------------
(* The actions.  eliminate is cut where it reads asynch_interrupt.         *)

Z == [s |-> s, e |-> e]
Becomes(z) == s' = z.s /\ e' = z.e
Then(next) == pc' = next

\* readClause and newVar, addClause_.
NewVars(z, n) ==
  FoldLeft(LAMBDA acc, v : [acc EXCEPT !.e.heap = HeapInsert(@, v, Cost(z.e.nOcc))],
           [z EXCEPT !.e.nVars = Max({@, n})],
           [i \in 1 .. n - z.e.nVars |-> z.e.nVars + i])

SimpAddClause ==
  /\ pc = "add" /\ added < Len(problem.formula)
  /\ LET c == problem.formula[added + 1]
         z == NewVars(Z, Max({Var(l) : l \in c}))
     IN  Becomes(IF z.e.ok THEN AddOccurring(z, c) ELSE z)
  /\ added' = added + 1
  /\ UNCHANGED <<problem, pc, conflicts, due, simpDB_assigns, model>>

\* eliminate begins with simplify; satisfied clauses are not removed yet.
Eliminate ==
  /\ pc = "add" /\ added = Len(problem.formula)
  /\ IF e.ok THEN /\ Becomes([Z EXCEPT !.s = [CleanAll(s) EXCEPT !.orderHeap = OrderHeap(s)]])
                  /\ simpDB_assigns' = Len(s.trail)
                  /\ Then("loop")
             ELSE Then("unsat") /\ UNCHANGED <<s, e, simpDB_assigns>>
  /\ UNCHANGED <<problem, added, conflicts, due, model>>

\* Mutant: a variable once touched stays touched.
StaysTouched(z0) ==
  LET lists(z) == FlattenSeq([v \in Vars |-> IF v \in z.e.touched THEN z.e.occurs[v] ELSE << >>])
      add(q, cr) == IF cr \in ToSet(q) \/ IsDeleted(z0, cr) THEN q ELSE Append(q, cr)
      queued(z) == [z EXCEPT !.e.queue = FoldLeft(add, @, lists(z))]
  IN  queued(FoldSet(LAMBDA v, acc : LookedUp(acc, v), z0, z0.e.touched))

\* gatherTouchedClauses.
Gather(z0) ==
  LET lists(z) == FlattenSeq([v \in Vars |-> IF v \in z.e.touched THEN z.e.occurs[v] ELSE << >>])
      add(q, cr) == IF cr \in ToSet(q) \/ IsDeleted(z0, cr) THEN q ELSE Append(q, cr)
      queued(z) == [z EXCEPT !.e.queue = FoldLeft(add, @, lists(z)), !.e.touched = {}]
  IN  queued(FoldSet(LAMBDA v, acc : LookedUp(acc, v), z0, z0.e.touched))

OnlyS == UNCHANGED <<problem, added, conflicts, due, simpDB_assigns, model>>

Loop ==
  /\ pc = "loop"
  /\ IF e.touched # {} \/ e.bwd < Len(s.trail) \/ e.heap # << >>
       THEN /\ Becomes([Gather(Z) EXCEPT !.e.after = "check"])
            /\ Then("subsume")
       ELSE Then("cleanup") /\ UNCHANGED <<s, e>>
  /\ OnlyS

\* One turn of the loop of backwardSubsumptionCheck.
BackwardSubsumptionCheck ==
  /\ pc = "subsume" /\ CheckLeft /\ ~e.interrupted
  /\ LET check(z, cr) == IF IsDeleted(z, cr) THEN z ELSE Scan(z, cr)
         unit == e.queue = << >>
     IN  Becomes(check(IF unit THEN [Z EXCEPT !.e.bwd = @ + 1] ELSE [Z EXCEPT !.e.queue = Tail(@)],
                       IF unit THEN TmpUnit ELSE Head(e.queue)))
  /\ Then(IF e'.ok THEN "subsume" ELSE "cleanup")
  /\ OnlyS

CheckInterrupted ==
  /\ pc = "subsume" /\ CheckLeft /\ e.interrupted
  /\ e' = [e EXCEPT !.queue = << >>, !.bwd = Len(s.trail)]
  /\ Then(e.after) /\ UNCHANGED s /\ OnlyS

CheckDone ==
  /\ pc = "subsume" /\ ~CheckLeft
  /\ Then(e.after) /\ UNCHANGED <<s, e>> /\ OnlyS

Check ==
  /\ pc = "check"
  /\ IF e.interrupted THEN e' = [e EXCEPT !.heap = << >>] /\ Then("cleanup")
                      ELSE Then("elim") /\ UNCHANGED e
  /\ UNCHANGED s /\ OnlyS

\* The next variable of the heap; asymmVar freezes it meanwhile.
NextVariable ==
  /\ pc = "elim" /\ e.heap # << >>
  /\ LET v == e.heap[1]
         popped == [Z EXCEPT !.e.heap = WithoutMin(@, Cost(e.nOcc)),
                             !.e.elim = v]
         looked == LookedUp(popped, v)
     IN  IF e.interrupted THEN Becomes(popped) /\ Then("loop")
         ELSE IF v \in e.eliminated \/ s.assigns[v] # Undef THEN Becomes(popped) /\ Then("elim")
         ELSE IF ~Option("asymm") THEN Becomes(popped) /\ Then("eliminate")
         ELSE IF looked.e.occurs[v] = << >> THEN Becomes(looked) /\ Then("eliminate")
         ELSE /\ Becomes(AsymmAll([looked EXCEPT !.e.frozen = {v}, !.e.after = "eliminate"], v))
              /\ Then(IF e'.ok THEN "subsume" ELSE "cleanup")
  /\ OnlyS

HeapEmpty ==
  /\ pc = "elim" /\ e.heap = << >>
  /\ Then("loop") /\ UNCHANGED <<s, e>> /\ OnlyS

EliminateVariable ==
  /\ pc = "eliminate"
  /\ LET z == [Z EXCEPT !.e.frozen = {}, !.e.after = "collect"]
     IN  Becomes(IF s.assigns[e.elim] = Undef /\ Option("elim") THEN EliminateVar(z, e.elim) ELSE z)
  /\ Then(IF ~e'.ok THEN "cleanup" ELSE IF e.elim \in e'.eliminated THEN "subsume" ELSE "collect")
  /\ OnlyS

Held(z) == (UNION {ToSet(z.e.occurs[v]) : v \in Vars}) \cup ToSet(z.e.queue)

\* Mutant: the lists of occurrences do not follow the clauses.
OccursLeftBehind(z0) ==
  LET collect(z) == [z EXCEPT !.s = GarbageCollect(@, Held(z))]
  IN  collect([FoldSet(LAMBDA v, acc : LookedUp(acc, v), z0, z0.e.smudged)
                 EXCEPT !.s.clauses = @ \ z0.s.deleted])

\* SimpSolver::garbageCollect while simplifying: the removed clauses leave the
\* lists first, and the occurrences and the queue move with the clauses.
Collected(z0) ==
  LET moved(to, refs) == [i \in DOMAIN refs |-> to[refs[i]]]
      collect(z, to) == [z EXCEPT !.s = GarbageCollect(@, Held(z)),
                                  !.e.queue = moved(to, @),
                                  !.e.occurs = [v \in Vars |-> moved(to, @[v])]]
      clean(z) == collect(z, To(CleanAll(z.s), Held(z)))
  IN  clean([FoldSet(LAMBDA v, acc : LookedUp(acc, v), z0, z0.e.smudged)
               EXCEPT !.s.clauses = @ \ z0.s.deleted])

\* checkGarbage: the share of memory that is wasted decides.
CheckGarbage ==
  /\ pc = "collect"
  /\ \E z \in {Z} \cup (IF s.deleted = {} THEN {} ELSE {Collected(Z)}) : Becomes(z)
  /\ Then("elim") /\ OnlyS

\* The end of eliminate(true): what simplifying needed is freed.
Cleanup ==
  /\ pc = "cleanup"
  /\ LET live == [s EXCEPT !.orderHeap = OrderHeap(s), !.clauses = @ \ s.deleted]
     IN  s' = GarbageCollect(live, {})
  /\ e' = [EmptySimplifier EXCEPT !.nVars = e.nVars, !.eliminated = e.eliminated,
                                  !.elimclauses = e.elimclauses, !.frozen = e.frozen,
                                  !.bwd = e.bwd, !.interrupted = e.interrupted, !.ok = e.ok]
  /\ Then(IF e.ok THEN "search" ELSE "unsat")
  /\ OnlyS

\* solve_ calls that of Solver.  The search stops at the first restart after an
\* interrupt.
Search ==
  /\ \/ Propagate \/ Contradiction \/ Learn \/ Simplify \/ ReduceDB \/ Decide \/ ModelFound
     \/ (~e.interrupted /\ Restart)
  /\ UNCHANGED e

Stop ==
  /\ e.interrupted /\ pc = "noConflict" /\ "restart" \in due
  /\ s' = CancelUntil(s, 0)
  /\ Then("indeterminate")
  /\ UNCHANGED <<problem, added, conflicts, due, simpDB_assigns, model, e>>

Extend ==
  /\ pc = "sat"
  /\ model' = ExtendModel(model, e.elimclauses)
  /\ Then("done")
  /\ UNCHANGED <<problem, added, s, conflicts, due, simpDB_assigns, e>>

\* SIGINT_interrupt, once the file is read.
Interrupt ==
  /\ pc \notin {"add", "done", "unsat", "indeterminate"} /\ ~e.interrupted
  /\ problem.interruptible
  /\ e' = [e EXCEPT !.interrupted = TRUE]
  /\ UNCHANGED vars

SimpStep ==
  \/ SimpAddClause \/ Eliminate \/ Loop
  \/ BackwardSubsumptionCheck \/ CheckInterrupted \/ CheckDone \/ Check
  \/ NextVariable \/ HeapEmpty \/ EliminateVariable \/ CheckGarbage \/ Cleanup
  \/ Search \/ Stop \/ Extend

SimpNext == SimpStep \/ Interrupt

Simplifying == pc \in {"loop", "subsume", "check", "elim", "eliminate", "collect", "cleanup"}

\* Weak fairness of SimpStep while it simplifies, when it is always enabled: the
\* program goes on, and Interrupt comes only once.
Fairness == []<>(~Simplifying) \/ []<><<SimpNext>>_simpVars

SimpSpec == SimpInit /\ [][SimpNext]_simpVars /\ Fairness

-----------------------------------------------------------------------------
(* Properties.                                                             *)

LiveClauses == s.clauses \ s.deleted
\* Every field of the simplifier keeps its type; a clause is at least a binary
\* one unless it was strengthened to a unit, and it is removed then.
SimpTypeOK ==
  /\ pc \in {"add", "loop", "subsume", "check", "elim", "eliminate", "collect", "cleanup", "search",
             "conflict", "noConflict", "reduce", "decide", "sat", "done", "unsat", "indeterminate"}
  /\ \A cr \in DOMAIN s.db : s.db[cr] \in Seq(Lits) /\ (Len(s.db[cr]) < 2 => cr \in s.deleted)
  /\ s.deleted \cup s.clauses \cup s.learnts \subseteq DOMAIN s.db
  /\ \A v \in Vars : ToSet(e.occurs[v]) \subseteq DOMAIN s.db
  /\ ToSet(e.queue) \subseteq DOMAIN s.db
  /\ e.bwd \in 0 .. Len(s.trail) /\ e.eliminated \cap s.decision = {}
  /\ e.after \in {"check", "eliminate", "collect"} /\ ToSet(e.heap) \subseteq 1 .. e.nVars

\* What the program prints is right whatever was simplified, asked for and
\* interrupted: the model extended to the eliminated variables is total and
\* satisfies every clause of the file, those no longer in memory included, and
\* "unsatisfiable" is said only of a formula that is.
ExtendedModelIsRight ==
  /\ pc = "done" => /\ \A v \in Vars : model[v] # Undef
                    /\ {v \in Vars : model[v] = True} \in FormulaModels
  /\ pc = "unsat" => FormulaModels = {}

\* From one step of the simplification to the next, the clauses in memory and
\* the literals assigned have the models of the file, but for the values of
\* the variables eliminated.
EliminationKeepsModels ==
  Simplifying /\ e.ok =>
    LET units == {l \in ToSet(s.trail) : Var(l) \notin e.eliminated}
        left  == {m \in SUBSET (Vars \ e.eliminated) :
                    /\ \A cr \in LiveClauses : Satisfies(m, ToSet(s.db[cr]))
                    /\ \A l \in units : Satisfies(m, {l})}
    IN  left = {m \ e.eliminated : m \in FormulaModels}

\* While it simplifies, the list of a variable has every clause with that
\* variable, once, the removed ones among them only where the list is to be
\* cleaned; and the counts are those of the clauses: a clause left out of the
\* list of a variable would be lost when the variable is eliminated.
OccurrencesExact ==
  Simplifying /\ e.ok =>
    /\ \A v \in Vars \ e.eliminated :
         LET refs == ToSet(e.occurs[v])
         IN  /\ refs \ s.deleted = {cr \in LiveClauses : {v, -v} \cap ToSet(s.db[cr]) # {}}
             /\ Cardinality(refs) = Len(e.occurs[v])
             /\ refs \cap s.deleted # {} => v \in e.smudged
    /\ \A l \in Lits : e.nOcc[l] = Cardinality({cr \in LiveClauses : l \in ToSet(s.db[cr])})

\* The heap stays in the order of the products of occurrences, which change
\* under it as clauses come and go: the next variable is a cheapest one.
CheapestFirst == IsHeap(e.heap, Cost(e.nOcc))

\* A simplification that was not interrupted leaves nothing to do: no clause
\* has an assigned literal, subsumes another or strengthens it, and, where
\* variables are eliminated, none left occurs with one sign only.
NothingLeft ==
  pc = "cleanup" /\ e.ok /\ ~e.interrupted =>
    /\ \A cr \in LiveClauses : \A l \in ToSet(s.db[cr]) : Value(s, l) = Undef
    /\ \A cr, dr \in LiveClauses : cr # dr => /\ Missing(s.db[cr], s.db[dr]) # {}
                                            /\ ~Resolvable(s.db[cr], s.db[dr])
    /\ Option("elim") => \A v \in Vars : (e.nOcc[v] = 0) = (e.nOcc[-v] = 0)

\* "Check if a clause is already implied" (simp/SimpSolver.h:131), so that one
\* left out is not missed: the model found satisfies the clauses of the file.
\* A resolvent is always implied by the two clauses eliminateVar then removes.
ImpliedAreNotMissed ==
  pc = "done" => {v \in Vars : model[v] = True} \in FormulaModels

\* The simplification ends, though each of its parts gives work to the others.
SimplificationEnds == pc = "loop" ~> pc \in {"search", "unsat"}

=============================================================================
