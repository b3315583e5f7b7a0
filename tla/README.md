# A TLA+ development of sato

sato solves constraint satisfaction problems over integer variables: a PHP
script encodes the constraints as a CNF formula (order encoding), runs the SAT
solver of the vendored glucose-syrup on it, reads the answer back and, with
option `-i`, enumerates all solutions. This directory models the script,
the parts of glucose it stands on, checks the models with TLC and proves the
results that do not depend on the size of an instance with TLAPS.

Paths below are relative to `src/`; `G/` is `glucose-syrup/`. `PROJECT.json`
gives for every definition the lines it models.

## 1. Inventory

### The system and how its parts interact

    command line --> Encoder (CSP, Inequation, ...) --> SAT object --> sat.dimacs
                                                                        |
         solutions <-- Solver.php <-- output.txt <-- glucose-syrup <----+
                           |                             |
                           +-- adds a clause ------------+   (once per solution)

    glucose-syrup has two programs:
    simp/Main -> SimpSolver (a core Solver): the one the script runs;
    parallel/Main -> MultiSolvers -> n threads, each a ParallelSolver (a
    SimpSolver); the threads share one SharedCompanion with its ClausesBuffer,
    behind one mutex.

The script talks to glucose through two files and ignores the result of the
process. The threads of glucose talk through the SharedCompanion only: learnt
units (an array), learnt clauses (a cyclic array) and the end of the job.

| component | state | operations | hard behaviour | what makes it correct |
|---|---|---|---|---|
| Order encoding (`src/CSP.php`, `Inequation.php`, `LinearTerm.php`, `PrimitiveComparison.php`, `ComparisonBase.php`, `IntegerVariable.php`) | none (a function of the arguments) | normalise, distribute, combine bounds, translate to primitive comparisons, order axioms | rounding with signs, bounds one too short, names built by concatenation | the models of the clauses are the solutions |
| Encoder and SAT object (`src/Encoder.php`, `SAT.php`) | clauses so far, variables so far, numbering | parse, add clause, add order axioms, number, export | the constants encoded and the constants declared come from two places | every literal has a number, the true predicates of a model are upward closed |
| Solver.php | `sat.dimacs`, `output.txt`, solutions so far | prepare, execute, isSatisfiable, interprete, addResultInDimacs | glucose cut off or absent, files left over | all solutions, none twice, none invented; the loop ends |
| core Solver (`G/core/Solver.cc`) | clauses in memory and their order, watches, trail, reasons, heap | addClause, propagate, analyze, backjump, restart, simplify, reduceDB, compaction of the memory | watches moved while walked and detached lazily, reasons freed, clauses promoted while false, every reference renamed | right answer, only consequences learnt, nothing left unpropagated |
| SimpSolver (`G/simp/SimpSolver.cc`) | occurrence lists and counts, queue of clauses to check, heap of variables, elimination clauses, touched variables | addClause, strengthen, subsume, asymm, eliminate, extendModel | lists cleaned lazily, clauses strengthened while a list is walked, keys that change in the heap, an interrupt anywhere, the order of extension | models kept, the model extended to the eliminated variables, an end |
| ClausesBuffer (`G/parallel/ClausesBuffer.cc`) | cyclic array, queue bounds, one cursor per thread | pushClause, getClause, removeLastClause | wrap-around, full array, own clauses skipped, readers at different speeds | a FIFO broadcast |
| SharedCompanion, ParallelSolver | shared units, cursors, job status | addLearnt, getUnary, getNewClause, jobFinished, import, export | contradictory units, two threads finishing at once, the status written after the lock is released | one winner, its answer returned, units agree, nothing shared is lost |
| MultiSolvers, the two mains | threads, condition variable, result | read, simplify, adjustNumberOfCores, generateAllSolvers, solve | a signal before the wait, a wait that ends by itself, no memory for a solver | at least one solver; solve ends once a thread has an answer |
| data structures (`G/mtl/Heap.h`, `Queue.h`, `Alloc.h`, `G/core/BoundedQueue.h`, `SolverTypes.h`) | arrays and indices | push, pop, percolate, relocate, subsumes | keys that change, stale references | order of the heap, exact lists |
| DIMACS text, options, system utilities, configuration tables | - | - | - | not this system's own logic |

Two scripts run in one directory share `sat.dimacs` and `output.txt`. Nothing
in the code or its documents promises anything for that, so the models have
one script.

A script whose glucose never starts reads an `output.txt` left by an earlier
run as the answer: nothing in the code prevents it. What is shown of it is where
it ends: once started, even a run that is cut off leaves nothing of it to read.

The hazards, each at its line and with the properties against it, are listed
in `PROJECT.json`.

## 2. Modules

| module | models | kind |
|---|---|---|
| `OrderEncoding` | the encoding as operators: `NormalizeLiteral`, `Distribute`, `ComputeCNF`, `HashTranslation`, `ClauseCNF`, `PredicateOrderRelation` | operators |
| `Lists` | sums and selections of the items of a sequence, for the encoder and the solver | operators |
| `RecursionProofs` | induction on sets, and what `SumOf`, `Selected`, `Unique` and a fold over a sequence compute, for every sequence | lemmas |
| `SatoEncoder` | the stages of the encoder on one command line, up to the exported file, and the reading of a model | state machine |
| `SatoEncoderProofs` | theorems about the encoding of an inequation, a clause and a domain, and about the stages | proofs |
| `MeaningProofs` | theorems about what the file means, the solutions of the constraints typed, and about the whole script | proofs |
| `Enumeration` | `Solver::solve` and `findAllSolutions`, glucose's run as a step that answers, is cut off or never starts | state machine |
| `EnumerationProofs` | theorems about the loop | proofs |
| `SatoScript` | composition: the encoder, then the loop on the models of its file | state machine |
| `Propositional` | literals, clauses, models: what formulas mean | operators |
| `Heap` | the binary heap with changing keys | operators |
| `Cdcl` | the search of one solver, with the imports of a ParallelSolver | state machine |
| `CdclInvariant` | the inductive invariant of the search, and that propagation, backjumps, addition and removal keep it | lemmas |
| `CdclProofs` | that conflict analysis and every other action keep it; that propagation misses nothing and no clause added is forgotten; the theorems about the search | proofs |
| `SimpSolver` | preprocessing around the search of `Cdcl`, and the extension of the model | state machine, extends `Cdcl` |
| `ClauseFifo` | what the cyclic array promises: a FIFO broadcast, lossy or not | abstract specification |
| `ClausesBuffer` | the cyclic array cell by cell, the cursors and counters | state machine, refines `ClauseFifo` |
| `ClausesBufferProofs` | theorems about it, the refinement included | proofs |
| `ParallelSolvers` | the main thread, the solver threads, shared units, the end of the job | state machine, composition |
| `ParallelSolversProofs` | theorems about it | proofs |
| `MC*` | instances | - |

The layers take one another for granted as follows: `SatoScript` composes
`SatoEncoder` with `Enumeration`; `Enumeration` runs glucose in one step that
gives a right answer or fails; `SimpSolver` shows (`ExtendedModelIsRight`) that
the program sato runs gives right answers, with the search of `Cdcl` inside;
`ParallelSolvers` lets every thread find what `Cdcl` shows a search may find
and checks the threads around it; `ClausesBuffer` carries the clauses they
exchange, which `Cdcl` imports as `offers`.

### How state and actions correspond to the code

*OrderEncoding, SatoEncoder.* The command line is a record of declared
variables and arguments (`CommandLine`: any names from `VarNames`, any
integers, any number of arguments and literals; `Inputs` are those a run looks
at); an argument is a sequence of literals (a disjunction)
and a literal is `[neg, lhs, op, rhs]`. Strings are sequences of tokens where
the code builds a name (`"q".$index.$i` is `Digits`); the splitting by regular
expressions is left out. One action per stage of `Encoder::encode` and item of
its loops; an exception is `pc = "error"`.

*Enumeration.* `sat.dimacs` is the set of its models and `output.txt` a model,
`UNSAT`, empty or absent. `Prepare(ms)` writes any set of models, `Execute`
answers with any model of the file, `AddResultInDimacs` removes the model read
(or everything when the file read was empty, and anything when it was a line of
another problem, left over and read because glucose never started). `failed`
records how runs failed and appears in properties only.

*SatoScript* instantiates `Enumeration` with the numbers of the encoder's SAT
object as assignments, and begins with any leftover. `LeftoverSpec` of
`MCSatoScript` is the same with seven of them, four of which are models.

*Cdcl.* A literal is a number, a clause the sequence of its literals in the
order they have in memory, since the first two are watched. The record `s` has
the solver's fields by their names; `s.db` is the memory and a reference (a
`CRef`) is a rank in it. `Propagate` is one call of `propagate` (folds over the
watch lists in their order, early return on a binary conflict, purgatory and
promotion included); `Learn` is the conflict branch of `search`: `analyze` with
both minimisations, `cancelUntil`, the new clause attached and its literal
enqueued. `Restart`, `Simplify`, `ReduceDB`, `Decide` and `ModelFound` are the
other branch. A detached clause stays in its watch lists (`deleted`, `dirty`)
until they are cleaned. `garbageCollect` moves the clauses in the order the
code visits its references and renames all of them; `checkGarbage` may call it
whenever something was freed (the share of wasted memory decides, which is not
modelled). Activities and LBD scores are not modelled: which free variable is
decided, when a restart or reduction is due after a conflict, and which
unlocked long learnt clauses go is nondeterministic, more than any score would
choose. The sign of a decision is the saved phase, as with the default options.

*SimpSolver.* The record `e` has the fields of the simplifier. `eliminate`
calls `backwardSubsumptionCheck` from three places and loops itself; every turn
of a loop that looks at the interrupt is an action, and `e.after` is where
`backwardSubsumptionCheck` returns to. What runs between two looks is one
operator: `EliminateVar` (resolvents counted, clauses kept aside, parents
removed, resolvents added), `Asymm`, `StrengthenClause` with the propagation it
may start, `ExtendModel`. `updateElimHeap` works on the real heap with the real
products of occurrences, so which variable is next is decided as in the code.
The search is the actions of `Cdcl`, stopped by an interrupt at a restart.

*ClausesBuffer.* `elems` has `Maxsize` cells; a clause occupies size, unread
counter, origin and literals. Literals are the clause's number, so a misplaced
read shows. `pushClause` and `getClause` run under the mutex of
SharedCompanion: `caller` is the thread that holds it, `pc` where it is, and
`csize` and `thislast` are its variables. `EnterPush` and `EnterGet` take the
mutex; `MakeRoom` is a turn of the loop that makes room, `RemoveNext` a turn of
the loop in `removeLastClause`, `RoomMade` its end and `PushClause` the
writing; `SkipOwn` is a turn of the loop over the thread's own clauses,
`GetNothing` and `GetClause` what it ends with, `GotClause` the end of the
removal a read may start. `log`, `received`, `lost`, `oldest` and `begins` are
history: what was accepted and handed over, the threads a clause was removed
under, which clauses are still in the array, and where each begins when the
array is not wrapped. No guard reads them, but for the bound on pushes.
`whenFullRemoveOlder` is the option, arbitrary but fixed. The comment at
ClausesBuffer.cc:54 and the option's default differ; both values are checked.

*ParallelSolvers.* `main` and `pc[t]` say where the main thread and thread t
are; an action is what happens between two points another thread can see: one
turn of the import loop (each `getUnary` takes the lock), `jobFinished` at a
conflict and in the loop of `solve_`, `IFinished` under its lock,
`setJobStatus` and the copy of the model after it, without any, the signal
last. What solver 0 propagates while the file is read is unit propagation as
the least closed set of literals. What a search finds is left open: a literal
that follows (`LearnUnit`), a refutation only when the formula has no model, a
model only among those of the formula restricted to the variables that were
not eliminated. `Timeout` is the five seconds after which the wait is renewed,
`SpuriousWakeup` the wait that ends by itself, which POSIX allows.

## 3. What is checked

| run | instance | what it shows |
|---|---|---|
| `sato_encoder` | every `a.x + b.y op k` with a in {-2,-1,1,3}, b in {-1,0,2}, k in -4..4, all six operators, two domains of x; pairs of literals from a menu of seven, with empty and doubly declared domains | the file's models are solutions, a solution is kept unless a comparison that always holds is involved, every literal is numbered, order axioms are complete |
| `enumeration` | three assignments, all problems, all leftovers, all failures | all solutions, a verdict wrong only after a failed run, visible cut-off, nothing invented and a leftover shown only if a run never started, progress, termination |
| `sato_help_examples` | five examples of the script's help, seven leftovers of earlier runs | solutions from the command line to the display |
| `buffer` | 3 threads, 9 cells, clauses of 1 and 2 literals (4 and 5 cells), 3 clauses accepted, both options | exact cursors and counters, whole clauses, refinement of `ClauseFifo`, delivery and draining |
| `cdcl` | seven formulas of up to five variables | right answers, only consequences, complete propagation, exact watches and reasons, a full heap, new and asserting clauses |
| `simp` | five formulas of five variables; variables eliminated and the simplification interrupted anywhere, or one of three other sets of options | right answers with the extended model, models kept at every step, exact occurrences and watches, the heap in order, nothing left to do, an end |
| `parallel` | up to three threads, eight problems of two variables | one winner, its answer right and returned, units agree and are not lost, all threads end |
| `sato_loose_bound` | `x 0 2 'x<=5'` | finding: a comparison that always holds makes the problem unsatisfiable |
| `simp_rcheck` | the formulas of `simp` with `elim` and `rcheck` | finding: every resolvent is found implied by the parents about to be removed, and the model printed is not one of the file |
| `buffer_room` | 2 threads, 13 cells, 4 clauses accepted | finding: with `-removeolder` a push may find the array empty when it has made room, which an assertion excludes |
| `parallel_lost_signal` | the problems of `parallel` | finding: all signals may come while the main thread is not waiting, and it waits for ever |
| `parallel_model` | the problems of `parallel` | finding: the extended model is overwritten, eliminated variables have no value in the model printed |

sato starts `glucose-syrup/simp/glucose_static`, so the findings about the
buffer and the threads do not reach it; `rcheck` is off by default. They
concern the programs in this repository as such. The assertion is
compiled into the standard and debug objects, not into the release ones
(`G/mtl/template.mk:44-47`), and what follows it is right.

Some disagreements met while modelling are in the model and have no run of
their own:

* the help's example of a negated disjunction (`sato:88`) is rejected by the
  parser of arguments; it is left out of `sato_help_examples`;
* a variable with an underscore in its name is displayed under the part before
  it (`Parsed`); the lines checked have no such names;
* from eleven literals in a clause and twelve clauses on, the indicators of two
  inequations may get one name (`Q`: 1 and 10, 11 and 0); the lines checked
  have fewer, and with ten literals at most it is proved that none coincide
  (`IndicatorsDiffer`);
* `simplify` frees a binary clause that is still stored as the reason of its
  second literal, at level 0, where no analysis follows it: `ReasonsSupport`
  is about the reasons that may be followed;
* `propagate` returns early on a conflict in a binary clause, so the queue is
  not empty as its comment says; the backjump puts the head back, and
  `PropagationComplete` holds.

### Bounds and why they are enough

* Encoder: coefficients that do and do not divide the constants, of both
  signs, and constants beyond both bounds reach every branch of
  `hashTranslation` and both ends of every range; two literals per argument
  reach distribution with and without indicators.
* Enumeration: the loop's state per assignment is "in the file or found", so
  three assignments (zero to three turns) already show every order; the
  theorems hold for any set.
* Buffer: 9 cells hold two short clauses with one cell free, and a short and
  a long one would fill the array to its last cell, which must not happen. So
  within three pushes the array is full, refuses, drops old clauses, and wraps
  inside the header and inside the literals. The safety properties and the
  refinement are proved for any number of threads, size and number of pushes.
* Cdcl: `maxConflicts` bounds the conflicts of each problem (1 to 4). The
  instances were chosen for what they reach: `Parity` is refuted at level 0
  and receives contradictory units, `Ternary` and `Levels` learn clauses over
  several levels, `Redundant` has literals that are redundant and literals
  that only look so, `Units` uses every branch of `addClause_`, `Guarded`
  imports a clause whose first literal is already false, `Promoting` promotes
  a clause with two literals of the conflict's level. Clauses are freed, and
  the memory compacted, in the middle of all of them.
* SimpSolver: five variables and two conflicts. `Parity` is refuted before the
  search or in it, `Chain` eliminates a variable after the other, `Subsuming`
  has every case of subsumption and strengthening, `Dense` has variables too
  costly to eliminate (resolvents more than the clauses they replace) and
  leaves work to the search, in `Units` clauses become units while lists are
  walked. The interrupt comes at every possible point once.
* ParallelSolvers: two variables give every number of models, units in both
  signs and a variable to eliminate. Two threads already show every race of
  the end of the job; three show a winner between two others and, with units
  read from the file, cursors at three places. The number of solvers is the
  option's, computed from the memory, limited by `maxnbthreads`, and at least
  one when memory for none is allowed. `MaxThreads` bounds it. The theorems
  hold for any number and any formula.
* Every property is broken by a plausible slip in the code (the mutants of
  `PROJECT.json`), on these same instances.
* A search that reaches its bound stops, as do the encoder, the loop, the
  buffer and the threads when they have ended: hence `CHECK_DEADLOCK FALSE`.

An imported clause whose first literal is false already is never looked at by
`propagateUnaryWatches`; it can be false while the solver decides. The solver
promises nothing about such clauses, which only repeat what the formula
implies, so `PropagationComplete` speaks of the original, learnt and promoted
ones.

### Fairness

* `Enumeration`, `SatoScript`: weak fairness of the next step. The script is
  sequential and calls nothing that waits but glucose; a run of glucose that
  does not come back is outside of the model (a cut-off run is in it).
* `ClausesBuffer`: weak fairness of `Inside`, the thread that holds the mutex,
  and of every thread's `EnterGet`. Nothing in the two functions waits, and a
  running thread imports whenever it is at decision level 0
  (Solver.cc:1270-1275) and comes back there at its next restart; nothing is
  assumed about pushing.
* `SimpSolver`: the program goes on while it simplifies,
  `[]<>~Simplifying \/ []<><<SimpNext>>_simpVars`. A step is always possible
  there and an interrupt comes once only, so this is weak fairness of the
  simplifier's step, in a form that needs no ENABLED. Nothing is assumed of the
  interrupt or the search.
* `ParallelSolvers`: weak fairness of the main thread's step and of every
  thread's. Threads run until they end and the five seconds of the timed wait
  pass. Spurious wake-ups are not fair. `WaitEnds` is violated under the same
  fairness: what is missing is a test before the wait, not time.
* `Cdcl` states safety only.

## 4. What is proved

`RecursionProofs` begins with induction on sets: a set with 0 that is closed
under successor holds every natural number. A statement about a recursive
function becomes the set of the numbers for which it is true, so what such a
function computes can be proved without a theorem that takes an operator. It
then does so for sums and selections, and gives a fold over a sequence by its
intermediate results (`FoldSteps`), for the loops of the solver.

`SatoEncoderProofs`, for all integers, domains and inequations:

* `HashTranslationExact`: for a coefficient other than 0, the primitive
  comparison made of `a.x <= b` holds of exactly the same values. By cases on
  the sign, from `FloorBounds` (what the integer quotient bounds) and
  `TimesMonotone`.
* `HashTranslationInRange`: a constant from the range the combinations use is
  translated to one for which a predicate is declared. From `FloorRange`.
* `EncodingExact`: the clauses of `computeCNF` hold of a valuation exactly
  when the inequation does, unless it is a lost tautology. The heart is
  `KeptExact`: the sum of the terms is at most the constant exactly when every
  combination with the wanted sum bounds some term. If the terms are too
  large, `SumReaches` finds a combination strictly below them; if no
  combination has the wanted sum, the constant is out of reach of the bounds.
* `LostTautologyHolds`: what is excepted does hold of every valuation. The
  finding of `sato_loose_bound` is thus the only error in the encoding of an
  inequation: a true constraint may be lost, a false one is never kept.
* `OrderAxiomsExact`: the order axioms hold exactly of the assignments whose
  predicates tell one value of the domain. By `LeastElement`.
* `PrimitivesInRange`: every constant of `computeCNF` has a predicate.
* `ClauseExact`: with the indicators, a clause is encoded as a disjunction of
  its inequations.

They assume what the objects of the code are (`IsInequation`, `IsDomain`,
`InDomain`: integers, names declared, a valuation within its domains);
the invariant below shows that the encoder makes such objects only.

`SatoEncoderProofs` then, for every command line (from `InputsAssumption` only):

* `LiteralsAreNumbered` and `ExportNeverFails` from the inductive invariant
  `IInv` = `Typed` (inequations over declared names), `Counted` (where the
  counter is in each stage), `Staged` (what is still empty), `DomainsNotEmpty`,
  `LiteralsFound` (every literal of the CNF is an indicator that has a number
  or a predicate within the first declaration of its variable),
  `OrdersNumbered` (the predicates of every declaration done have a number)
  and `FileInRange`. That every literal has a number is not inductive: it is
  false until the last variable has its order relation, and then holds because
  the constants of primitive comparisons and those of the axioms, made in two
  places, are within the same bounds.
* `ClausesAreWhatTheFileSays` from `SInv` = `IInv` with `CNFIsTheClauses` (the
  CNF is the union of the clauses and order relations done so far): in the
  CNF exported, an assignment tells a value of every declaration, and the
  integers it tells satisfy an inequation of every clause. This is where the
  theorems on the operators meet the program.

`MeaningProofs`, for every command line (from `InputsAssumption` and
`NamesAssumption`: names are sequences that are not empty, and none is a
bracket), closes the other half of the way: the inequations mean the
comparisons typed, and a model of the file is read back as what it means. All
three rest on the inductive invariant `MInv` = `SInv` with
`ConstraintsAreTheArguments` (the clauses of normal literals are those the
arguments done so far distribute to), `ClausesAreParsed` (the inequations are
theirs, in order), `FileIsTheCNF` (the file is the CNF, a literal for a
literal) and `PredicatesNumberedOnce` (a predicate has one number).

* `PredicatesOfModelsAreOrdered`: in a model the true predicates of a variable
  are an upward closed range from a value of its domain. Every declaration
  adds order axioms for its own domain, so a name declared twice has those of
  both; they fix one value if the domains leave no gap (`NoGaps`), and with a
  gap they need not.
* `ModelsOfTheFileAreSolutions`: a model is read back as a solution
  (`ParseMeans`, `NormalizeMeans`, `DistributeMeans`, then
  `ClausesAreWhatTheFileSays`). `WellPosed` excludes what the code treats
  otherwise than the command line reads: `CSP::parseExpression` skips empty
  brackets, which as a disjunction of nothing hold of no value, and
  `Solver::interprete` cuts a name at its first underscore.
* `EverySolutionHasAModel`: a solution, completed by making an indicator true
  when its inequation holds, satisfies the file (`ClauseExact`,
  `OrderAxiomsExact`) and is read back as itself. Two indicators may have one
  name when a clause has more than ten literals, so `TenAtMost`; the lost
  tautologies are excepted by `SolutionsKept` itself.

The end of `MeaningProofs` puts the two halves of the program together, for every
command line, everything an earlier run may have left in `output.txt` (nothing,
`UNSAT`, an empty file or any model, of this problem or another, of numbers up
to `MaxVars`) and every number of variables the file may have up to `MaxVars`
(`Fits`; also from `ScriptAssumption`: a model is none of the other contents of
the file). Its
invariant `ScriptInv` is `MInv`, the invariant of `EnumerationProofs`
instantiated for the models of the file, and `InStep`: the loop has not begun
before the export, and after it works on the models of that file.

* `ScriptDisplaysTheSolutions`: with no failed run, what option -i displays is
  exactly the set of solutions, on the lines of the theorems above that lose
  no tautology (`Faithful`).
* `ScriptPrintsTheSatisfiability`: on those lines the satisfiability printed
  is that of the constraints typed.

`EnumerationProofs`, for every set of assignments, problem, leftover file and
kind of failure (from `ConstantsAreDistinct` only):

* `TypeCorrect` from `TypeInv`, which adds to `TypeOK` that the two calls
  after a successful test read something other than `UNSAT`.
* `AllSolutions` and `NewModelEachTurn` from the inductive
  invariant `IInv` = `TypeInv` with `Untouched` (nothing has happened before
  the export) and `Healthy` (while no run has failed, the file has exactly the
  models not yet found, except between reading a model and excluding it, and
  `output.txt` answers for the file). The properties alone are not inductive:
  that the list is complete at the end follows from what the file has been
  at every turn.
* `CutOffShows` and `NothingElseShown` from `IInv` with a conjunct each on
  where a displayed solution can come from.
* `RightVerdict` from `IInv` and `FirstRun`, on what the first run has left to
  be read. When glucose never starts, a leftover is read as the answer and the
  script cannot tell; the two theorems say that this is the only case.

`ParallelSolversProofs`, for every number of threads, formula and set of
options (from `ParallelAssumption` only):

* `TypeCorrect`, `WinnerAnswers` and `OneWinner` from the inductive invariant
  `Inv` = `TypeOK` with `Startup` (no thread runs before it is created),
  `Searched` (a status is right, and only a thread that saw the job finished
  leaves its loop without one), `Job` (only the winner is between `IFinished`
  and its signal; its status is the job's once it is past writing it) and
  `AnswerIsWinners`. The last alone is not inductive: that the status, written
  after the lock is released, is there when the main thread reads it follows
  from the join and from what every thread that has ended has gone through.
  That there is a solver at all is `SolversInRange`.
* `UnitsAlwaysAgree` and `NothingReadIsLost` from `Inv` and `UnitInv` =
  `UnitsAgree` with `Cursors`. They rest on `PropagationIsSound`: what unit
  propagation finds follows from the clauses, because the literals of a model
  are a closed set; so two solvers never know a literal and its negation
  while the formula has a model, and what the first solver knows of the whole
  formula agrees with what the others learn.

`ClausesBufferProofs`, for every number of threads, size of the array, sizes
of clauses and number of pushes (from `BufferAssumption` only):

* `BoundariesKept`, `CountersExact` and `ClausesWhole` from the inductive
  invariant `Inv` = `TypeOK` with `Entries` (what `log` holds), `Bounds` (the
  clauses present occupy less than the array, one after the other),
  `Layout(elems)` (their headers and literals are at their places), `Cursors`
  (each before a clause that is present or after the newest), `Counters(elems)`,
  `Calls` (what the thread with the mutex has established), `Delivered` (a
  cursor is past all its thread was handed and, unless old clauses may be
  removed, past nothing else but the thread's own) and `HandedOverWhole`. Places are those of an array that does not
  wrap; `Injective` says that places less than the array apart stay apart when
  it wraps, which is why one cell must always stay free.
* `ImplementsFifo`: the array implements `ClauseFifo`, step by step: `PushClause`
  is its `Give`, `GetClause` its `Receive`, by `Delivered`, and every other step
  stutters.

`CdclInvariant` and `CdclProofs`, for every formula, every set of clauses
other threads may send, any number of variables and conflicts (from
`CdclAssumption`: the clauses received follow from the formula, are not empty
and have a variable once; and `NbVarsAssumption`): every property the run
`cdcl` checks. That nothing is done that is wrong (`CdclTypes`,
`EveryWatchIsListed`, `ReasonsForce`, `NothingButConsequences`,
`UnsatIsRight`, `FreeVariablesAreHeld` and `LearningAsserts`) is from the
inductive invariant `CInv`. It is `Given` (what the problem is), `Phase` (what
`pc` says of the level, the head of the queue and the conflict),
`HeapHoldsTheFree` and `Sound(s, FormulaModels)`, which has the parts

* `Stored`: every clause in memory has two literals at least, of different
  variables, and is listed once or marked deleted;
* `OnTrail`, `Levelled`, `Decided`: the trail is exactly the true literals,
  each once, levels do not decrease along it, and the literal after a limit is
  the only one of its level without a reason;
* `Reasoned`: the reason of a literal has it and, before it on the trail, the
  negations of its other literals;
* `Pending`: what has not been propagated is of the last level;
* `Implied`: every clause in memory, removed ones included, and every literal
  of level 0 hold in every model of the formula;
* `Watching`: every list watches the clauses it should, once, by a literal of
  theirs, and has a clause removed only if it is marked for cleaning.

None of the properties is inductive alone. That a learnt clause follows needs
the reasons, the reasons need that a clause which is one is not moved in
memory, watched elsewhere or removed while its literal is assigned
(`Locked`, which tests the first literal only), and this needs the watches:
`propagate` finds a clause by its watcher and puts the false literal second.
So the whole is proved at once. The stretch in which it is broken, while
`propagate` walks a list and has kept some watchers of it, moved some and not
seen the rest, has an invariant of its own (`Midway`), proved of one watcher
and carried through the folds by `FoldSteps`. `analyze` is the loop of
`Resolve`: `Analysing` and `Resolved` say that the clause it stands for, the
literals seen and the one to resolve, follows and is false, and that the literals of the
conflict's level still to come are counted; the minimisations keep it because
the literals they remove are implied by the others (`LitRedundant` walks the
reasons with a set of variables that only grows, so its loop ends within a
turn per variable). `garbageCollect` renames every reference; `MovedBy`
says that nothing else changes.

That nothing is missed is from `DInv`, which is `CInv` with `Going` (what
propagation leaves), `Entered` (what is remembered of the clauses added) and,
once a model is found, `RightModel`; `NothingIsLeftToInfer`, `LearningIsNew`
and, with the soundness above, `AnswersAreRight` follow.

* That a clause at hand is true or has two free literals when the search
  decides is not inductive: a backjump frees literals, and what was true may be
  free again while a watched literal stays false. What is kept is `Settled`: if
  a watched literal is false and has been propagated, another literal of the
  clause was true *by the level it became false at* (`Backed`), so that a
  backjump frees the true one only with the false one. `propagate` keeps a
  watcher when its blocker or the other watched literal is true, or when that
  literal becomes true by the clause; else the clause moves to a literal that
  is not false, or is in conflict.
* In a conflict the promise is broken for the clause in conflict and for what
  became false at the last level, which the backjump undoes. `ConflWatched`
  says which literals the clause in conflict watches: two of the last level, if
  it is one of the problem or learnt (`Apart` keeps these from the imports).
* An import promoted in conflict may have one literal only of the last level,
  and its second one stays false in the backjump. Then `analyze` resolves on
  the first literal at once and learns a part of the import (`Lone`,
  `SingleLearnt`), so that the literal asserted is the import's own and is true
  by the level of the second (`ConflictForces`).
* `Kept`: of a clause added, a part is in memory, or a literal is true at level
  0, or it is a tautology. `addClause_` drops the literals false at level 0,
  `simplify` and the lazy removal free what is true there, `reduceDB` frees
  learnt clauses only, and `garbageCollect` renames what is left
  (`Remembers` relates a state to the next by all of this). When all variables
  have a value and nothing is left to infer, every part in memory has
  a true literal, and so has every clause added.

The theorems about `ParallelSolvers`, which let a search find what follows and
answer with a model of it, thus rest on theorems about the search; what
`SimpSolver` does before it is model-checked.

Model-checked only:

* liveness everywhere (`Termination`, `AllDelivered`, `Drained`,
  `SimplificationEnds`, `JobEnds`): fairness is out of the prover's reach;
* `SimpSolver`: its state is that of `Cdcl` with occurrence lists over it, and
  every step of the simplifier breaks what `CdclProofs` knows of the clauses
  for a while.

## 5. Not modelled

* The width of numbers in the encoding: `hashTranslation` divides two floats
  and the model integers. The quotient rounded down or up is the same as long
  as constant and coefficient are below 2^53, so "every integer" in the theorems
  about the encoding means that far.
* The text: regular expressions that split the command line, DIMACS parsing,
  options, help and messages, printed statistics.
* Scores (activities, LBD, the averages of `BoundedQueue`) and the heuristics
  built on them, which choose among steps the models leave open: restarts,
  reductions, which clauses are exported, panic mode. `SolverConfiguration` is
  a table of such choices.
* Assumptions and the incremental mode, certified output and `toDimacs`: sato
  uses none of them.
* `SimpSolver::substitute`, which nothing calls, and the limits on the size of
  clauses looked at (20 and 1000 literals), beyond any formula checked.
* Clauses added to `MultiSolvers` after the clones are made and `informEnd`,
  which nothing calls.
* The words of `RegionAllocator`, generic containers and system utilities.
* The time and memory limits of the main programs, but for what a run cut off
  leaves in `output.txt`.

## 6. What could come next

1. The properties of `SimpSolver` for every formula: `CInv` with what a step of
   the simplifier breaks of it, as `Midway` does for propagation.
2. The export of clauses as part of `ParallelSolvers`, with `ClausesBuffer` as
   the channel, once an instance small enough is found.
