---------------------------- MODULE ParallelSolvers ----------------------------
(***************************************************************************)
(* glucose-syrup (parallel/Main.cc, MultiSolvers.cc, ParallelSolver.cc,    *)
(* SharedCompanion.cc): one solver reads and simplifies the formula, is    *)
(* cloned, and every clone searches in a thread of its own.  The threads   *)
(* share the literals they have proved; the first one to finish gives the  *)
(* answer, while the main thread waits for a signal.                       *)
(*                                                                         *)
(* What a search finds is left open within what Cdcl and SimpSolver show:  *)
(* a learnt literal is a consequence, a model is one of the formula but    *)
(* for the eliminated variables, and a refutation is right.                *)
(***************************************************************************)
EXTENDS Propositional, Sequences, FiniteSets

CONSTANTS
  MaxThreads,  \* a bound on the number of solvers
  Problems     \* [formula: a sequence of sets of literals; the options nthreads,
               \*  maxnbthreads and maxmemory; mem: the memory one solver takes]

Threads == 0 .. MaxThreads - 1

\* adjustNumberOfCores: as many as fit in 40% of the memory allowed, but at
\* least one, unless their number is given.
Fitting(p) == ((p.maxmemory * 4) \div 10) \div p.mem
Smaller(m, n) == IF m < n THEN m ELSE n

\* Mutant: memory for one solver may be lacking.
MaybeNone(p) == IF p.nthreads # 0 THEN p.nthreads ELSE Smaller(Fitting(p), p.maxnbthreads)

NbSolvers(p) ==
  IF p.nthreads # 0 THEN p.nthreads
  ELSE IF Smaller(Fitting(p), p.maxnbthreads) < 1 THEN 1
  ELSE Smaller(Fitting(p), p.maxnbthreads)

ASSUME ParallelAssumption ==
  /\ MaxThreads \in Nat \ {0}
  /\ \A p \in Problems :
       /\ p.formula \in Seq(SUBSET Lits)
       /\ p.nthreads \in Nat /\ p.maxnbthreads \in Nat /\ p.maxmemory \in Nat /\ p.mem \in Nat \ {0}
       /\ NbSolvers(p) <= MaxThreads

Nobody == -1
lTrue  == "true"
lFalse == "false"
lUndef == "undef"

VARIABLES
  problem,
  main,          \* where the main thread is
  read,          \* how many clauses of the formula were read
  ok,
  eliminated,    \* the variables eliminated before the clones are made
  nbsolvers,
  launched,      \* how many threads were created
  pc,            \* where each thread is
  trail,         \* the literals each solver has assigned
  status,        \* what search last returned
  solverModel,   \* the model of each solver, a set of literals
  unitLit, nextUnit,                       \* the shared literals, the next one to read
  bjobFinished, jobFinishedBy, jobStatus,  \* what the companion knows of the job
  answer, model                            \* what solve returns to the main program

mainVars    == <<problem, read, ok, eliminated, nbsolvers, launched>>
unitVars    == <<unitLit, nextUnit>>
jobVars     == <<bjobFinished, jobFinishedBy, jobStatus>>
answerVars  == <<answer, model>>
searchVars  == <<trail, status, solverModel>>
parallelVars == <<mainVars, main, pc, searchVars, unitVars, jobVars, answerVars>>

Init ==
  /\ problem \in Problems
  /\ main = "read" /\ read = 0 /\ ok = TRUE /\ eliminated = {}
  /\ nbsolvers = 0 /\ launched = 0
  /\ pc = [t \in Threads |-> "none"]
  /\ trail = [t \in Threads |-> {}]
  /\ status = [t \in Threads |-> lUndef]
  /\ solverModel = [t \in Threads |-> {}]
  /\ unitLit = << >> /\ nextUnit = [t \in Threads |-> 1]
  /\ bjobFinished = FALSE /\ jobFinishedBy = Nobody /\ jobStatus = lUndef
  /\ answer = lUndef /\ model = {}

Formula == {problem.formula[i] : i \in DOMAIN problem.formula}
Models  == ModelsOf(Formula)
Implied(l) == \A m \in Models : Satisfies(m, {l})
Assigned(lits) == {Var(l) : l \in lits}
Consistent(lits) == \A l \in lits : -l \notin lits

\* The models of the formula but for the eliminated variables, as the sets of
\* the literals they make true.
PartialModels == {{l \in Lits : Satisfies(m, {l}) /\ Var(l) \notin eliminated} : m \in Models}

-----------------------------------------------------------------------------
(* The main thread, until the other ones run.                              *)

\* Unit propagation of some clauses: the least set of literals that contains
\* the assigned ones and the last literal left of every clause.
Propagated(clauses, lits) ==
  LET closed(known) == \A c \in clauses : \A l \in c : (\A k \in c \ {l} : -k \in known) => l \in known
  IN  {l \in Lits : \A known \in SUBSET Lits : lits \subseteq known /\ closed(known) => l \in known}

\* addClause_: solver 0 drops false literals, ignores a true clause, propagates
\* a unit one.
AddClause ==
  /\ main = "read" /\ read < Len(problem.formula)
  /\ read' = read + 1
  /\ LET c == problem.formula[read']
         known == Propagated({problem.formula[i] : i \in 1 .. read'}, trail[0])
     IN  IF ok /\ c # {} /\ Consistent(known)
           THEN trail' = [trail EXCEPT ![0] = known] /\ UNCHANGED ok
           ELSE ok' = FALSE /\ UNCHANGED trail
  /\ UNCHANGED <<problem, eliminated, nbsolvers, launched, main, pc, status, solverModel,
                 unitVars, jobVars, answerVars>>

\* simplify and eliminate, by solver 0: some variables are eliminated, some
\* literals proved, or the formula is refuted.
Eliminate ==
  /\ main = "read" /\ read = Len(problem.formula) /\ ok
  /\ \E gone \in SUBSET (Vars \ Assigned(trail[0])) :
       \E units \in SUBSET {l \in Lits : Implied(l) /\ Var(l) \notin gone} :
         /\ Consistent(trail[0] \cup units)
         /\ eliminated' = gone
         /\ trail' = [trail EXCEPT ![0] = @ \cup units]
  /\ main' = "generate"
  /\ UNCHANGED <<problem, read, ok, nbsolvers, launched, pc, status, solverModel,
                 unitVars, jobVars, answerVars>>

\* The program says "unsatisfiable" without any thread.
RefutedAtOnce ==
  /\ main = "read" /\ read = Len(problem.formula)
  /\ ~ok \/ Models = {}
  /\ ok' = FALSE /\ answer' = lFalse
  /\ main' = "done"
  /\ UNCHANGED <<problem, read, eliminated, nbsolvers, launched, pc, searchVars,
                 unitVars, jobVars, model>>

\* adjustNumberOfCores and generateAllSolvers: the clones know what solver 0 does.
GenerateAllSolvers ==
  /\ main = "generate"
  /\ nbsolvers' = NbSolvers(problem)
  /\ trail' = [t \in Threads |-> IF t < nbsolvers' THEN trail[0] ELSE {}]
  /\ main' = "launch"
  /\ UNCHANGED <<problem, read, ok, eliminated, launched, pc, status, solverModel,
                 unitVars, jobVars, answerVars>>

CreateThread ==
  /\ main = "launch" /\ launched < nbsolvers
  /\ pc' = [pc EXCEPT ![launched] = "loop"]
  /\ launched' = launched + 1
  /\ UNCHANGED <<problem, read, ok, eliminated, nbsolvers, main, searchVars,
                 unitVars, jobVars, answerVars>>

AllLaunched ==
  /\ main = "launch" /\ launched = nbsolvers
  /\ main' = "wait"
  /\ UNCHANGED <<mainVars, pc, searchVars, unitVars, jobVars, answerVars>>

-----------------------------------------------------------------------------
(* The main thread waits.                                                  *)

MainGoes(from, to) ==
  /\ main = from /\ main' = to
  /\ UNCHANGED <<mainVars, pc, searchVars, unitVars, jobVars, answerVars>>

\* pthread_cond_timedwait: from now on a signal ends the wait.
TimedWait == MainGoes("wait", "waiting")

\* After five seconds the statistics are printed and the wait begins again.
Timeout == MainGoes("waiting", "wait")

\* POSIX allows the wait to end without a signal.
SpuriousWakeup == MainGoes("waiting", "join")

\* Mutant: the threads are not joined.
AnswerAtOnce ==
  /\ main = "join" /\ main' = "done"
  /\ answer' = jobStatus
  /\ model' = IF jobStatus = lTrue THEN solverModel[jobFinishedBy] ELSE model
  /\ UNCHANGED <<mainVars, pc, searchVars, unitVars, jobVars>>

\* All threads are joined before the answer is read.
Join ==
  /\ main = "join" /\ main' = "done"
  /\ \A t \in Threads : t < nbsolvers => pc[t] = "ended"
  /\ answer' = jobStatus
  /\ model' = IF jobStatus = lTrue THEN solverModel[jobFinishedBy] ELSE model
  /\ UNCHANGED <<mainVars, pc, searchVars, unitVars, jobVars>>

-----------------------------------------------------------------------------
(* A thread t.                                                             *)

Goes(t, from, to) == pc[t] = from /\ pc' = [pc EXCEPT ![t] = to]

\* Mutant: the job is not looked at between two searches.
SearchOn(t) ==
  /\ Goes(t, "loop", IF status[t] = lUndef THEN "import" ELSE "finish")
  /\ UNCHANGED <<mainVars, main, searchVars, unitVars, jobVars, answerVars>>

\* The loop of solve_, until search has an answer or the job is finished.
Loop(t) ==
  /\ Goes(t, "loop", IF status[t] = lUndef /\ ~bjobFinished THEN "import" ELSE "finish")
  /\ UNCHANGED <<mainVars, main, searchVars, unitVars, jobVars, answerVars>>

\* Mutant: one cursor for all threads.
CommonCursor(t) == [u \in Threads |-> nextUnit[t] + 1]

Advanced(t) == [nextUnit EXCEPT ![t] = @ + 1]

\* parallelImportUnaryClauses, one turn: a literal whose variable is assigned is
\* ignored, be it true or false.
ImportUnary(t) ==
  /\ pc[t] = "import" /\ nextUnit[t] <= Len(unitLit)
  /\ trail' = IF Var(unitLit[nextUnit[t]]) \in Assigned(trail[t]) THEN trail
              ELSE [trail EXCEPT ![t] = @ \cup {unitLit[nextUnit[t]]}]
  /\ nextUnit' = Advanced(t)
  /\ UNCHANGED <<mainVars, main, pc, status, solverModel, unitLit, jobVars, answerVars>>

ImportDone(t) ==
  /\ nextUnit[t] > Len(unitLit)
  /\ Goes(t, "import", "search")
  /\ UNCHANGED <<mainVars, main, searchVars, unitVars, jobVars, answerVars>>

\* A conflict: search stops if the job is finished, else it analyses it.
Conflict(t) ==
  /\ Goes(t, "search", IF bjobFinished THEN "loop" ELSE "conflict")
  /\ UNCHANGED <<mainVars, main, searchVars, unitVars, jobVars, answerVars>>

\* A longer clause is learnt: nothing changes here.
LearnClause(t) ==
  /\ Goes(t, "conflict", "search")
  /\ UNCHANGED <<mainVars, main, searchVars, unitVars, jobVars, answerVars>>

\* Mutant: a literal is shared as often as it is learnt.
SharedAgain(lit) == Append(unitLit, lit)

\* addLearnt, of a literal: the first one of its variable.
Shared(lit) ==
  IF \E i \in DOMAIN unitLit : Var(unitLit[i]) = Var(lit) THEN unitLit ELSE Append(unitLit, lit)

\* A literal is learnt, enqueued without decision, and sent to the companion
\* (parallelExportUnaryClause).
LearnUnit(t) ==
  /\ Goes(t, "conflict", "import")
  /\ \E l \in Lits :
       /\ Implied(l) /\ Var(l) \notin Assigned(trail[t]) \cup eliminated
       /\ trail' = [trail EXCEPT ![t] = @ \cup {l}]
       /\ unitLit' = Shared(l)
  /\ UNCHANGED <<mainVars, main, status, solverModel, nextUnit, jobVars, answerVars>>

\* A conflict without decision.
Refuted(t) ==
  /\ Models = {}
  /\ Goes(t, "conflict", "loop")
  /\ status' = [status EXCEPT ![t] = lFalse]
  /\ UNCHANGED <<mainVars, main, trail, solverModel, unitVars, jobVars, answerVars>>

Restart(t) ==
  /\ Goes(t, "search", "loop")
  /\ UNCHANGED <<mainVars, main, searchVars, unitVars, jobVars, answerVars>>

\* All variables that were not eliminated are assigned.
ModelFound(t) ==
  /\ Goes(t, "search", "loop")
  /\ \E lits \in PartialModels : trail[t] \subseteq lits /\ trail' = [trail EXCEPT ![t] = lits]
  /\ status' = [status EXCEPT ![t] = lTrue]
  /\ UNCHANGED <<mainVars, main, solverModel, unitVars, jobVars, answerVars>>

\* Mutant: whoever finishes has won.
WinsAnyway(t) ==
  /\ status[t] # lUndef
  /\ Goes(t, "finish", "won")
  /\ bjobFinished' = TRUE /\ jobFinishedBy' = t
  /\ UNCHANGED <<mainVars, main, searchVars, unitVars, jobStatus, answerVars>>

\* IFinished, for the first one.
IFinished(t) ==
  /\ status[t] # lUndef /\ ~bjobFinished
  /\ Goes(t, "finish", "won")
  /\ bjobFinished' = TRUE /\ jobFinishedBy' = t
  /\ UNCHANGED <<mainVars, main, searchVars, unitVars, jobStatus, answerVars>>

\* IFinished for the others, and those that have no answer.
NotFirst(t) ==
  /\ status[t] = lUndef \/ bjobFinished
  /\ Goes(t, "finish", "signal")
  /\ UNCHANGED <<mainVars, main, searchVars, unitVars, jobVars, answerVars>>

\* The winner writes the status of the job, without any lock.
SetJobStatus(t) ==
  /\ Goes(t, "won", IF status[t] = lTrue THEN "model" ELSE "signal")
  /\ jobStatus' = status[t]
  /\ UNCHANGED <<mainVars, main, searchVars, unitVars, bjobFinished, jobFinishedBy, answerVars>>

\* What extendModel wrote is overwritten with the values of the search.
CopyModel(t) ==
  /\ Goes(t, "model", "signal")
  /\ solverModel' = [solverModel EXCEPT ![t] = trail[t]]
  /\ UNCHANGED <<mainVars, main, trail, status, unitVars, jobVars, answerVars>>

\* pthread_cond_signal, without the mutex: it is lost if nobody waits.
Signal(t) ==
  /\ Goes(t, "signal", "ended")
  /\ main' = IF main = "waiting" THEN "join" ELSE main
  /\ UNCHANGED <<mainVars, searchVars, unitVars, jobVars, answerVars>>

-----------------------------------------------------------------------------
MainStep ==
  \/ AddClause \/ Eliminate \/ RefutedAtOnce \/ GenerateAllSolvers
  \/ CreateThread \/ AllLaunched \/ TimedWait \/ Timeout \/ Join

ThreadStep(t) ==
  \/ Loop(t) \/ ImportUnary(t) \/ ImportDone(t)
  \/ Conflict(t) \/ LearnClause(t) \/ LearnUnit(t) \/ Refuted(t)
  \/ Restart(t) \/ ModelFound(t)
  \/ IFinished(t) \/ NotFirst(t) \/ SetJobStatus(t) \/ CopyModel(t) \/ Signal(t)

Next == MainStep \/ SpuriousWakeup \/ \E t \in Threads : ThreadStep(t)

Spec == Init /\ [][Next]_parallelVars

\* The scheduler runs every thread, and the five seconds pass.
FairSpec ==
  /\ Spec
  /\ WF_parallelVars(MainStep)
  /\ \A t \in Threads : WF_parallelVars(ThreadStep(t))
-----------------------------------------------------------------------------
(* Properties.                                                             *)

TypeOK ==
  /\ problem \in Problems
  /\ main \in {"read", "generate", "launch", "wait", "waiting", "join", "done"}
  /\ read \in Nat /\ ok \in BOOLEAN /\ eliminated \subseteq Vars
  /\ main \notin {"read", "generate"} => nbsolvers \in 1 .. MaxThreads \/ ~ok
  /\ launched \in 0 .. nbsolvers /\ nbsolvers \in 0 .. MaxThreads
  /\ pc \in [Threads -> {"none", "loop", "import", "search", "conflict", "finish", "won", "model",
                         "signal", "ended"}]
  /\ trail \in [Threads -> SUBSET Lits]
  /\ status \in [Threads -> {lTrue, lFalse, lUndef}]
  /\ solverModel \in [Threads -> SUBSET Lits]
  /\ unitLit \in Seq(Lits) /\ nextUnit \in [Threads -> Nat \ {0}]
  /\ bjobFinished \in BOOLEAN /\ jobFinishedBy \in Threads \cup {Nobody}
  /\ jobStatus \in {lTrue, lFalse, lUndef}
  /\ answer \in {lTrue, lFalse, lUndef} /\ model \subseteq Lits

\* What the main thread reads, once the threads are joined, is the status of
\* the first one to finish and its model, never a status still undefined; a
\* model found is one of the formula but for the eliminated variables, and
\* the formula has none when the answer is "unsatisfiable".
AnswerIsWinners ==
  main = "done" /\ ok =>
    /\ answer # lUndef /\ jobFinishedBy # Nobody
    /\ answer = status[jobFinishedBy]
    /\ answer = lTrue  => model \in PartialModels
    /\ answer = lFalse => Models = {}

\* There is one winner: nobody takes its place, nor writes another status,
\* though the status is written after the lock is released.
FirstOneOnly ==
  [][/\ bjobFinished => bjobFinished' /\ jobFinishedBy' = jobFinishedBy
     /\ jobStatus' # jobStatus => jobStatus = lUndef /\ jobStatus' = status[jobFinishedBy]]_parallelVars

\* "There can be a contradiction here (two threads proving a and -a)"
\* (parallel/ParallelSolver.cc:373): the literals shared are of distinct
\* variables whatever the threads prove, and a solver never assigns a literal
\* and its negation; all of them follow from the formula.
UnitsAgree ==
  /\ \A i, j \in DOMAIN unitLit : Var(unitLit[i]) = Var(unitLit[j]) => i = j
  /\ \A i \in DOMAIN unitLit : Implied(unitLit[i])
  /\ \A t \in Threads : /\ Consistent(trail[t])
                        /\ status[t] = lUndef => \A l \in trail[t] : Implied(l)

\* A thread knows a value of every variable it has read about: its cursor in the
\* list the others append to passes no literal that is not taken in or decided.
KnowsWhatItRead ==
  \A t \in Threads : t < nbsolvers =>
    /\ nextUnit[t] <= Len(unitLit) + 1
    /\ \A i \in 1 .. nextUnit[t] - 1 : Var(unitLit[i]) \in Assigned(trail[t])

\* Once a thread has finished all of them end, those created later included.
JobEnds == bjobFinished ~> \A t \in Threads : t < nbsolvers => pc[t] = "ended"

\* The main thread waits for "a condition variable that says that a thread has
\* finished" (parallel/MultiSolvers.h:161): it does not wait for ever then.
WaitEnds == bjobFinished ~> main = "done"

\* "If problem is satisfiable, this vector contains the model (if any)"
\* (parallel/MultiSolvers.h:94), a model of the formula that was read.
ModelIsTheFormulas ==
  main = "done" /\ answer = lTrue =>
    /\ Assigned(model) = Vars
    /\ {v \in Vars : v \in model} \in Models
=============================================================================
