------------------------- MODULE ParallelSolversProofs -------------------------
(***************************************************************************)
(* For any number of threads, any formula and any options: one thread wins,*)
(* and the answer of the program is the winner's.                          *)
(***************************************************************************)
EXTENDS ParallelSolvers, TLAPS

\* At least one solver is made, and no more than the bound (adjustNumberOfCores).
LEMMA SolversInRange ==
  ASSUME NEW p \in Problems
  PROVE  NbSolvers(p) \in 1 .. MaxThreads
<1>1. /\ p.nthreads \in Nat /\ p.maxnbthreads \in Nat /\ p.maxmemory \in Nat
      /\ p.mem \in Nat \ {0} /\ NbSolvers(p) <= MaxThreads /\ MaxThreads \in Nat
  BY ParallelAssumption
<1>2. Fitting(p) \in Int
  <2>1. ((p.maxmemory * 4) \div 10) \in Int
    BY <1>1
  <2> QED BY <1>1, <2>1 DEF Fitting
<1>3. Smaller(Fitting(p), p.maxnbthreads) \in Int
  BY <1>1, <1>2 DEF Smaller
<1> QED BY <1>1, <1>3 DEF NbSolvers

LEMMA PropagatedLits ==
  ASSUME NEW clauses, NEW lits
  PROVE  Propagated(clauses, lits) \in SUBSET Lits
BY DEF Propagated

LEMMA PartialModelsLits == PartialModels \subseteq SUBSET Lits
BY DEF PartialModels

-----------------------------------------------------------------------------
(* The inductive invariant.  AnswerIsWinners alone is not inductive: what   *)
(* the main thread reads after the last join is right because of what the   *)
(* threads were doing meanwhile.                                            *)

\* No thread runs before it is created, nor is any created before the clones are.
Startup ==
  /\ main \in {"read", "generate"} => launched = 0
  /\ \A t \in Threads : launched <= t => pc[t] = "none"

\* The status of a thread is right, and only a thread that saw the job finished
\* leaves its loop without one.
Searched ==
  \A t \in Threads :
    /\ status[t] # lUndef => pc[t] \in {"loop", "finish", "won", "model", "signal", "ended"}
    /\ status[t] = lTrue  => trail[t] \in PartialModels
    /\ status[t] = lFalse => Models = {}
    /\ pc[t] = "finish" /\ status[t] = lUndef => bjobFinished

\* The status of the job is that of the winner once this one has written it,
\* and so is its model.
Won ==
  /\ status[jobFinishedBy] # lUndef
  /\ pc[jobFinishedBy] \in {"won", "model", "signal", "ended"}
  /\ pc[jobFinishedBy] = "won"  => jobStatus = lUndef
  /\ pc[jobFinishedBy] # "won"  => jobStatus = status[jobFinishedBy]
  /\ pc[jobFinishedBy] \in {"signal", "ended"} /\ status[jobFinishedBy] = lTrue
       => solverModel[jobFinishedBy] = trail[jobFinishedBy]

\* Only the winner is between IFinished and its signal, and whoever signals
\* does so after the job is finished.
Job ==
  /\ bjobFinished <=> jobFinishedBy \in Threads
  /\ ~bjobFinished => jobStatus = lUndef
  /\ bjobFinished => Won
  /\ \A t \in Threads : /\ pc[t] \in {"won", "model"} => jobFinishedBy = t
                        /\ pc[t] \in {"signal", "ended"} => bjobFinished

Inv == TypeOK /\ Startup /\ Searched /\ Job /\ AnswerIsWinners

LEMMA InvInit == Init => Inv
BY ParallelAssumption
   DEF Init, Inv, TypeOK, Startup, Searched, Job, AnswerIsWinners, Threads, Nobody, lUndef, lTrue, lFalse

\* What the steps of the threads leave alone keeps its meaning.
LEMMA SameMeaning ==
  ASSUME UNCHANGED <<problem, eliminated>>
  PROVE  Models' = Models /\ PartialModels' = PartialModels
<1>1. Models' = Models
  BY DEF Models, Formula
<1> QED BY <1>1 DEF PartialModels

-----------------------------------------------------------------------------
(* The invariant is preserved.                                             *)

LEMMA ThreadsAreNumbers == Threads \subseteq Int /\ Nobody \notin Threads /\ 0 \in Threads
BY ParallelAssumption DEF Threads, Nobody

\* The steps of the main thread before any other one runs.
LEMMA ReadingKeepsInv ==
  ASSUME Inv, AddClause \/ Eliminate \/ RefutedAtOnce \/ GenerateAllSolvers
  PROVE  Inv'
<1> USE DEF Inv
<1>0. /\ launched = 0 /\ pc = [t \in Threads |-> "none"] /\ \A t \in Threads : pc[t] = "none"
      /\ main \in {"read", "generate"}
  <2>1. main \in {"read", "generate"}
    BY DEF AddClause, Eliminate, RefutedAtOnce, GenerateAllSolvers
  <2>2. \A t \in Threads : 0 <= t
    BY ParallelAssumption DEF Threads
  <2> QED BY <2>1, <2>2 DEF Startup, TypeOK
<1>a. \A t \in Threads : status[t] = lUndef
  BY <1>0 DEF Searched
<1>b. jobFinishedBy \notin Threads /\ ~bjobFinished
  BY <1>0 DEF Job, Won
<1>1. CASE AddClause
  <2>1. TypeOK'
    BY SMTT(30), <1>1, <1>0, PropagatedLits, ThreadsAreNumbers DEF AddClause, TypeOK, unitVars, jobVars, answerVars
  <2>2. Startup' /\ Job' /\ AnswerIsWinners'
    BY <1>1, <1>0, <1>b DEF AddClause, Startup, Job, AnswerIsWinners, unitVars, jobVars, answerVars
  <2>3. Searched'
    BY <1>1, <1>0, <1>a DEF AddClause, Searched, unitVars, jobVars, answerVars, lTrue, lFalse, lUndef
  <2> QED BY <2>1, <2>2, <2>3
<1>2. CASE Eliminate
  <2>1. TypeOK'
    BY <1>2, <1>0, ThreadsAreNumbers DEF Eliminate, TypeOK, unitVars, jobVars, answerVars
  <2>2. Startup' /\ Job' /\ AnswerIsWinners'
    BY <1>2, <1>0, <1>b DEF Eliminate, Startup, Job, AnswerIsWinners, unitVars, jobVars, answerVars
  <2>3. Searched'
    BY <1>2, <1>0, <1>a DEF Eliminate, Searched, unitVars, jobVars, answerVars, lTrue, lFalse, lUndef
  <2> QED BY <2>1, <2>2, <2>3
<1>3. CASE RefutedAtOnce
  <2>1. TypeOK'
    BY <1>3, <1>0 DEF RefutedAtOnce, TypeOK, unitVars, jobVars, searchVars
  <2>2. Startup' /\ Job' /\ AnswerIsWinners'
    BY <1>3, <1>0, <1>b DEF RefutedAtOnce, Startup, Job, AnswerIsWinners, unitVars, jobVars, searchVars
  <2>3. Searched'
    BY <1>3, <1>0, <1>a DEF RefutedAtOnce, Searched, unitVars, jobVars, searchVars, lTrue, lFalse, lUndef
  <2> QED BY <2>1, <2>2, <2>3
<1>4. CASE GenerateAllSolvers
  <2>1. TypeOK'
    <3>1. NbSolvers(problem) \in 1 .. MaxThreads
      BY SolversInRange DEF TypeOK
    <3>2. nbsolvers' \in 1 .. MaxThreads /\ launched' \in 0 .. nbsolvers' /\ nbsolvers' \in 0 .. MaxThreads
      BY <1>4, <1>0, <3>1, ParallelAssumption DEF GenerateAllSolvers
    <3>3. trail' \in [Threads -> SUBSET Lits]
      BY <1>4, ThreadsAreNumbers DEF GenerateAllSolvers, TypeOK
    <3> QED BY <1>4, <3>2, <3>3 DEF GenerateAllSolvers, TypeOK, unitVars, jobVars, answerVars
  <2>2. Startup' /\ Job' /\ AnswerIsWinners'
    BY <1>4, <1>0, <1>b DEF GenerateAllSolvers, Startup, Job, AnswerIsWinners, unitVars, jobVars, answerVars
  <2>3. Searched'
    BY <1>4, <1>0, <1>a DEF GenerateAllSolvers, Searched, unitVars, jobVars, answerVars, lTrue, lFalse, lUndef
  <2> QED BY <2>1, <2>2, <2>3
<1> QED BY <1>1, <1>2, <1>3, <1>4

\* The other steps of the main thread.
LEMMA WaitingKeepsInv ==
  ASSUME Inv, CreateThread \/ AllLaunched \/ TimedWait \/ Timeout \/ SpuriousWakeup
  PROVE  Inv'
<1> USE DEF Inv
<1>1. CASE CreateThread
  <2>0. /\ launched \in Threads /\ launched + 1 \in 0 .. nbsolvers /\ pc[launched] = "none"
        /\ problem' = problem /\ eliminated' = eliminated
    BY <1>1, ParallelAssumption DEF CreateThread, TypeOK, Threads, Startup
  <2>1. TypeOK'
    BY <1>1, <2>0 DEF CreateThread, TypeOK, unitVars, jobVars, answerVars, searchVars
  <2>2. Startup'
    BY <1>1, <2>0, ThreadsAreNumbers DEF CreateThread, TypeOK, Startup
  <2>3. Searched'
    BY <1>1, <2>0, SameMeaning DEF CreateThread, TypeOK, Searched, jobVars, searchVars
  <2>4. Job'
    BY <1>1, <2>0 DEF CreateThread, TypeOK, Job, Won, jobVars, searchVars
  <2>5. AnswerIsWinners'
    BY <1>1 DEF CreateThread, AnswerIsWinners
  <2> QED BY <2>1, <2>2, <2>3, <2>4, <2>5
<1>2. CASE AllLaunched \/ TimedWait \/ Timeout \/ SpuriousWakeup
  <2>0. /\ UNCHANGED <<mainVars, pc, searchVars, unitVars, jobVars, answerVars>>
        /\ main \in {"launch", "wait", "waiting"} /\ main' \in {"wait", "waiting", "join"}
    BY <1>2 DEF AllLaunched, TimedWait, Timeout, SpuriousWakeup, MainGoes
  <2>1. TypeOK'
    BY <2>0 DEF TypeOK, mainVars, unitVars, jobVars, answerVars, searchVars
  <2>2. Startup' /\ Searched' /\ Job'
    BY <2>0, SameMeaning DEF Startup, Searched, Job, Won, mainVars, jobVars, searchVars
  <2>3. AnswerIsWinners'
    BY <2>0 DEF AnswerIsWinners
  <2> QED BY <2>1, <2>2, <2>3
<1> QED BY <1>1, <1>2

\* When all threads are joined one of them has won, and its model and status
\* are written.
LEMMA JoinKeepsInv ==
  ASSUME Inv, Join
  PROVE  Inv'
<1> USE DEF Inv
<1>0. UNCHANGED <<problem, eliminated, nbsolvers, launched, ok>>
  BY DEF Join, mainVars
<1>1. ASSUME ok
      PROVE  /\ bjobFinished /\ jobFinishedBy \in Threads
             /\ pc[jobFinishedBy] = "ended" /\ jobStatus = status[jobFinishedBy]
             /\ jobStatus # lUndef
  <2>1. 0 \in Threads /\ 0 < nbsolvers
    BY <1>1, ThreadsAreNumbers DEF Join, TypeOK
  <2>2. bjobFinished /\ jobFinishedBy \in Threads /\ Won
    BY <2>1 DEF Join, Job
  <2>3. jobFinishedBy < nbsolvers
    BY <2>2, ThreadsAreNumbers DEF Won, Startup, TypeOK
  <2> QED BY <2>2, <2>3 DEF Join, Won
<1>2. TypeOK'
  <2>1. jobStatus = lTrue => jobFinishedBy \in Threads
    BY DEF Job, lTrue, lUndef
  <2>2. model' \subseteq Lits
    BY <2>1 DEF Join, TypeOK
  <2> QED BY <2>2 DEF Join, TypeOK, mainVars, unitVars, jobVars, searchVars
<1>3. Startup' /\ Searched' /\ Job'
  BY <1>0, SameMeaning DEF Join, Startup, Searched, Job, Won, jobVars, searchVars
<1>4. AnswerIsWinners'
  <2>1. ASSUME ok'
        PROVE  /\ answer' # lUndef /\ jobFinishedBy' # Nobody
               /\ answer' = status[jobFinishedBy]
               /\ answer' = lTrue  => model' \in PartialModels
               /\ answer' = lFalse => Models = {}
    BY <1>0, <1>1, <2>1, ThreadsAreNumbers DEF Join, jobVars, Job, Won, Searched
  <2> QED BY <1>0, <2>1, SameMeaning DEF AnswerIsWinners, Join, searchVars, jobVars
<1> QED BY <1>2, <1>3, <1>4

\* A thread that searches has no answer yet; its trail, its place and what it
\* shares are all it changes.
LEMMA SearchKeepsInv ==
  ASSUME Inv, NEW t \in Threads,
         \/ Loop(t) \/ ImportUnary(t) \/ ImportDone(t) \/ Conflict(t) \/ LearnClause(t) \/ LearnUnit(t)
         \/ Refuted(t) \/ Restart(t) \/ ModelFound(t) \/ NotFirst(t)
  PROVE  Inv'
<1> USE DEF Inv
<1> DEFINE Searching == {"loop", "import", "search", "conflict", "finish"}
<1>0. /\ UNCHANGED <<mainVars, main, solverModel, jobVars, answerVars>>
      /\ pc[t] \in Searching /\ pc'[t] \in Searching \cup {"signal"}
      /\ pc'[t] = "signal" => bjobFinished
      /\ pc' \in [Threads -> {"none", "loop", "import", "search", "conflict", "finish", "won", "model",
                               "signal", "ended"}]
      /\ \A u \in Threads \ {t} : pc'[u] = pc[u]
  BY DEF Loop, ImportUnary, ImportDone, Conflict, LearnClause, LearnUnit, Refuted, Restart, ModelFound,
         NotFirst, Goes, searchVars, unitVars, TypeOK, Searched, lUndef
<1>1. /\ trail' \in [Threads -> SUBSET Lits] /\ status' \in [Threads -> {lTrue, lFalse, lUndef}]
      /\ unitLit' \in Seq(Lits) /\ nextUnit' \in [Threads -> Nat \ {0}]
      /\ \A u \in Threads \ {t} : trail'[u] = trail[u] /\ status'[u] = status[u]
  <2>1. CASE Loop(t) \/ ImportDone(t) \/ Conflict(t) \/ LearnClause(t) \/ Restart(t) \/ NotFirst(t)
    BY <2>1 DEF Loop, ImportDone, Conflict, LearnClause, Restart, NotFirst, searchVars, unitVars, TypeOK
  <2>2. CASE ImportUnary(t)
    <3>1. nextUnit[t] \in 1 .. Len(unitLit) /\ unitLit[nextUnit[t]] \in Lits
      BY <2>2 DEF ImportUnary, TypeOK
    <3> QED BY <2>2, <3>1 DEF ImportUnary, Advanced, TypeOK
  <2>3. CASE LearnUnit(t)
    <3>1. \A l \in Lits : Shared(l) \in Seq(Lits)
      BY DEF Shared, TypeOK
    <3> QED BY <2>3, <3>1 DEF LearnUnit, TypeOK
  <2>4. CASE Refuted(t)
    BY <2>4 DEF Refuted, TypeOK, unitVars
  <2>5. CASE ModelFound(t)
    BY <2>5, PartialModelsLits DEF ModelFound, TypeOK, unitVars
  <2> QED BY <2>1, <2>2, <2>3, <2>4, <2>5
<1>2. TypeOK'
  BY <1>0, <1>1 DEF TypeOK, mainVars, jobVars, answerVars
<1>3. Startup'
  BY <1>0 DEF Startup, mainVars
<1>4. Searched'
  <2>1. \A u \in Threads \ {t} :
          /\ status'[u] # lUndef => pc'[u] \in {"loop", "finish", "won", "model", "signal", "ended"}
          /\ status'[u] = lTrue  => trail'[u] \in PartialModels
          /\ status'[u] = lFalse => Models = {}
          /\ pc'[u] = "finish" /\ status'[u] = lUndef => bjobFinished
    BY <1>0, <1>1 DEF Searched
  <2>2. /\ status'[t] # lUndef => pc'[t] \in {"loop", "finish", "won", "model", "signal", "ended"}
        /\ status'[t] = lTrue  => trail'[t] \in PartialModels
        /\ status'[t] = lFalse => Models = {}
        /\ pc'[t] = "finish" /\ status'[t] = lUndef => bjobFinished
    <3>1. CASE Loop(t)
      BY <3>1 DEF Loop, Goes, Searched, TypeOK, searchVars
    <3>2. CASE NotFirst(t)
      BY <3>2 DEF NotFirst, Goes, Searched, TypeOK, searchVars
    <3>3. CASE Refuted(t)
      BY <3>3 DEF Refuted, Goes, Searched, TypeOK, lTrue, lFalse, lUndef
    <3>4. CASE ModelFound(t)
      BY <3>4 DEF ModelFound, Goes, Searched, TypeOK, lTrue, lFalse, lUndef
    <3>5. CASE ImportUnary(t) \/ ImportDone(t) \/ Conflict(t) \/ LearnClause(t) \/ LearnUnit(t) \/ Restart(t)
      <4>1. /\ pc[t] \in {"import", "search", "conflict"} /\ status' = status
            /\ pc'[t] # "finish"
        BY <3>5 DEF ImportUnary, ImportDone, Conflict, LearnClause, LearnUnit, Restart, Goes, TypeOK, searchVars
      <4>2. status'[t] = lUndef
        BY <4>1 DEF Searched
      <4> QED BY <4>1, <4>2 DEF lTrue, lFalse, lUndef
    <3> QED BY <3>1, <3>2, <3>3, <3>4, <3>5
  <2>3. Models' = Models /\ PartialModels' = PartialModels /\ bjobFinished' = bjobFinished
    BY <1>0, SameMeaning DEF mainVars, jobVars
  <2> QED BY <2>1, <2>2, <2>3 DEF Searched
<1>5. Job' /\ AnswerIsWinners'
  <2>1. bjobFinished => jobFinishedBy # t /\ jobFinishedBy \in Threads /\ Won
    BY <1>0 DEF Job, Won
  <2>2. bjobFinished => Won'
    BY <1>0, <1>1, <2>1 DEF Won, jobVars
  <2>3. Job'
    BY <1>0, <2>2 DEF Job, jobVars
  <2>4. AnswerIsWinners'
    <3>1. SUFFICES ASSUME main = "done", ok
                   PROVE  AnswerIsWinners'
      BY <1>0 DEF AnswerIsWinners, mainVars
    <3>2. jobFinishedBy \in Threads \ {t}
      BY <3>1, <2>1 DEF AnswerIsWinners, Job, TypeOK
    <3> QED BY <1>0, <1>1, <3>1, <3>2, SameMeaning DEF AnswerIsWinners, mainVars, jobVars, answerVars
  <2> QED BY <2>3, <2>4
<1> QED BY <1>2, <1>3, <1>4, <1>5

\* A thread that gives its answer: it wins, and writes status and model.
LEMMA FinishKeepsInv ==
  ASSUME Inv, NEW t \in Threads, IFinished(t) \/ SetJobStatus(t) \/ CopyModel(t) \/ Signal(t)
  PROVE  Inv'
<1> USE DEF Inv
<1>0. /\ UNCHANGED <<mainVars, trail, status, unitVars, answerVars>>
      /\ pc[t] \in {"finish", "won", "model", "signal"} /\ pc'[t] \in {"won", "model", "signal", "ended"}
      /\ pc' = [pc EXCEPT ![t] = pc'[t]]
      /\ main' = main \/ (main = "waiting" /\ main' = "join")
  BY DEF IFinished, SetJobStatus, CopyModel, Signal, Goes, searchVars, TypeOK
<1>1. Startup' /\ Searched'
  <2>1. Models' = Models /\ PartialModels' = PartialModels
    BY <1>0, SameMeaning DEF mainVars
  <2>2. Startup'
    BY <1>0 DEF Startup, TypeOK, mainVars
  <2>3. bjobFinished => bjobFinished'
    BY DEF IFinished, SetJobStatus, CopyModel, Signal, jobVars
  <2> QED BY <1>0, <2>1, <2>2, <2>3 DEF Searched, TypeOK
<1>2. CASE IFinished(t)
  <2>1. TypeOK'
    BY SMTT(30), <1>0, <1>2 DEF IFinished, TypeOK, mainVars, unitVars, answerVars, searchVars
  <2>2. Job'
    BY <1>0, <1>2 DEF IFinished, Goes, Job, Won, TypeOK, searchVars
  <2>3. ~(main = "done" /\ ok)
    BY <1>2 DEF IFinished, AnswerIsWinners, Job, TypeOK
  <2>4. AnswerIsWinners'
    BY <1>0, <2>3 DEF AnswerIsWinners, mainVars
  <2> QED BY <1>1, <2>1, <2>2, <2>4
<1>3. CASE SetJobStatus(t) \/ CopyModel(t)
  <2>0. /\ jobFinishedBy = t /\ bjobFinished /\ Won /\ UNCHANGED <<bjobFinished, jobFinishedBy, main>>
        /\ pc[t] \in {"won", "model"}
    BY <1>3 DEF SetJobStatus, CopyModel, Goes, Job, jobVars
  <2>1. TypeOK'
    BY SMTT(30), <1>0, <1>3, <2>0 DEF SetJobStatus, CopyModel, TypeOK, mainVars, unitVars, answerVars, searchVars, jobVars
  <2>2. Job'
    <3>1. Won'
      BY <1>0, <1>3, <2>0 DEF SetJobStatus, CopyModel, Goes, Won, TypeOK, searchVars, jobVars, lTrue
    <3> QED BY <1>0, <2>0, <3>1 DEF Job, TypeOK
  <2>3. AnswerIsWinners'
    BY <1>0, <2>0, SameMeaning DEF AnswerIsWinners, mainVars, answerVars
  <2> QED BY <1>1, <2>1, <2>2, <2>3
<1>4. CASE Signal(t)
  <2>1. TypeOK'
    <3>1. /\ pc' \in [Threads -> {"none", "loop", "import", "search", "conflict", "finish", "won", "model",
                                  "signal", "ended"}]
          /\ UNCHANGED <<mainVars, searchVars, unitVars, jobVars, answerVars>>
      BY <1>4 DEF Signal, Goes, TypeOK
    <3>2. main' \in {"read", "generate", "launch", "wait", "waiting", "join", "done"}
          /\ (main' = main \/ main = "waiting")
      BY <1>0 DEF TypeOK
    <3> QED BY <3>1, <3>2 DEF TypeOK, mainVars, unitVars, answerVars, searchVars, jobVars
  <2>2. Job'
    BY <1>0, <1>4 DEF Signal, Goes, Job, Won, TypeOK, searchVars, jobVars
  <2>3. AnswerIsWinners'
    BY <1>0, <1>4, SameMeaning DEF Signal, AnswerIsWinners, mainVars, answerVars, jobVars
  <2> QED BY <1>1, <2>1, <2>2, <2>3
<1> QED BY <1>2, <1>3, <1>4

LEMMA InvStep == Inv /\ [Next]_parallelVars => Inv'
<1> SUFFICES ASSUME Inv, [Next]_parallelVars
             PROVE  Inv'
  OBVIOUS
<1>1. CASE MainStep
  BY <1>1, ReadingKeepsInv, WaitingKeepsInv, JoinKeepsInv DEF MainStep
<1>2. CASE SpuriousWakeup
  BY <1>2, WaitingKeepsInv
<1>3. ASSUME NEW t \in Threads, ThreadStep(t)
      PROVE  Inv'
  BY <1>3, SearchKeepsInv, FinishKeepsInv DEF ThreadStep
<1>4. CASE UNCHANGED parallelVars
  BY <1>4, SameMeaning
     DEF parallelVars, mainVars, searchVars, unitVars, jobVars, answerVars,
         Inv, TypeOK, Startup, Searched, Job, Won, AnswerIsWinners
<1> QED BY <1>1, <1>2, <1>3, <1>4 DEF Next

LEMMA SpecKeepsInv == Spec => []Inv
BY InvInit, InvStep, PTL DEF Spec

-----------------------------------------------------------------------------
\* The types of what the threads and the main thread share: no clone, cursor or
\* literal out of range, and at least one solver once they are made.
THEOREM TypeCorrect == Spec => []TypeOK
<1>1. Inv => TypeOK
  BY DEF Inv
<1> QED BY <1>1, SpecKeepsInv, PTL

\* What solve returns after the last join is the status and the model of the
\* thread that finished first, and both are right.
THEOREM WinnerAnswers == Spec => []AnswerIsWinners
<1>1. Inv => AnswerIsWinners
  BY DEF Inv
<1> QED BY <1>1, SpecKeepsInv, PTL

\* The status of the job is written once, by the winner, though no lock protects it.
THEOREM OneWinner == Spec => FirstOneOnly
<1>1. Inv /\ [Next]_parallelVars =>
        [/\ bjobFinished => bjobFinished' /\ jobFinishedBy' = jobFinishedBy
         /\ jobStatus' # jobStatus => jobStatus = lUndef /\ jobStatus' = status[jobFinishedBy]]_parallelVars
  <2> SUFFICES ASSUME Inv, Next
               PROVE  /\ bjobFinished => bjobFinished' /\ jobFinishedBy' = jobFinishedBy
                      /\ jobStatus' # jobStatus => jobStatus = lUndef /\ jobStatus' = status[jobFinishedBy]
    OBVIOUS
  <2>1. CASE MainStep \/ SpuriousWakeup
    BY <2>1 DEF MainStep, AddClause, Eliminate, RefutedAtOnce, GenerateAllSolvers, CreateThread, AllLaunched,
                TimedWait, Timeout, SpuriousWakeup, MainGoes, Join, jobVars
  <2>2. ASSUME NEW t \in Threads, ThreadStep(t)
        PROVE  /\ bjobFinished => bjobFinished' /\ jobFinishedBy' = jobFinishedBy
               /\ jobStatus' # jobStatus => jobStatus = lUndef /\ jobStatus' = status[jobFinishedBy]
    <3>1. CASE IFinished(t)
      BY <3>1 DEF IFinished
    <3>2. CASE SetJobStatus(t)
      BY <3>2 DEF SetJobStatus, Goes, Inv, Job, Won
    <3>3. CASE ~IFinished(t) /\ ~SetJobStatus(t)
      BY <2>2, <3>3 DEF ThreadStep, Loop, ImportUnary, ImportDone, Conflict, LearnClause, LearnUnit, Refuted,
                        Restart, ModelFound, NotFirst, CopyModel, Signal, jobVars
    <3> QED BY <3>1, <3>2, <3>3
  <2> QED BY <2>1, <2>2 DEF Next
<1> QED BY <1>1, SpecKeepsInv, PTL DEF Spec, FirstOneOnly

-----------------------------------------------------------------------------
(* The literals the threads share.                                         *)

LEMMA NewVariable ==
  ASSUME NEW lits \in SUBSET Lits, Consistent(lits), NEW l \in Lits, Var(l) \notin Assigned(lits)
  PROVE  Consistent(lits \cup {l})
<1>1. \A k \in lits : Var(k) # Var(l)
  BY DEF Assigned
<1>2. \A k \in lits : k \in Int /\ k # l /\ k # -l
  BY <1>1, NbVarsAssumption DEF Lits, Vars, Var
<1>3. l \in Int /\ l # -l
  BY NbVarsAssumption DEF Lits, Vars
<1>4. SUFFICES ASSUME NEW k \in lits \cup {l} PROVE -k \notin lits \cup {l}
  BY DEF Consistent
<1>5. CASE k \in lits
  BY <1>2, <1>3, <1>5 DEF Consistent
<1>6. CASE k = l
  <2>1. \A j \in lits : j # -l
    BY <1>2
  <2> QED BY <1>3, <1>6, <2>1
<1> QED BY <1>4, <1>5, <1>6

\* A literal has one value in a model, and so does its negation, the other one.
LEMMA Opposite ==
  ASSUME NEW m, NEW l \in Lits
  PROVE  Satisfies(m, {-l}) <=> ~Satisfies(m, {l})
<1>1. l \in Int /\ l # 0 /\ Var(-l) = Var(l) /\ (-l > 0 <=> ~(l > 0))
  BY NbVarsAssumption DEF Lits, Vars, Var
<1> QED BY <1>1 DEF Satisfies

\* Unit propagation finds consequences of the formula only.
LEMMA PropagationIsSound ==
  ASSUME NEW clauses, \A c \in clauses : c \subseteq Lits, NEW m, \A c \in clauses : Satisfies(m, c),
         NEW lits \in SUBSET Lits, \A l \in lits : Satisfies(m, {l}),
         NEW l \in Propagated(clauses, lits)
  PROVE  Satisfies(m, {l})
<1> DEFINE true == {k \in Lits : Satisfies(m, {k})}
           closed(known) == \A c \in clauses : \A k \in c : (\A j \in c \ {k} : -j \in known) => k \in known
<1>1. closed(true)
  <2> SUFFICES ASSUME NEW c \in clauses, NEW k \in c, \A j \in c \ {k} : -j \in true
               PROVE  k \in true
    OBVIOUS
  <2>1. \A j \in c \ {k} : ~Satisfies(m, {j})
    BY Opposite
  <2>2. PICK j \in c : (j > 0) = (Var(j) \in m)
    BY DEF Satisfies
  <2>3. Satisfies(m, {j})
    BY <2>2 DEF Satisfies
  <2> QED BY <2>1, <2>3
<1>2. lits \subseteq true /\ true \in SUBSET Lits
  OBVIOUS
<1>3. \A known \in SUBSET Lits : lits \subseteq known /\ closed(known) => l \in known
  BY DEF Propagated
<1> HIDE DEF true, closed
<1>4. l \in true
  BY <1>1, <1>2, <1>3
<1> QED BY <1>4 DEF true

\* A thread has read no literal before it runs, and knows those it has read.
Cursors ==
  \A t \in Threads :
    /\ pc[t] = "none" => nextUnit[t] = 1
    /\ nextUnit[t] <= Len(unitLit) + 1
    /\ \A i \in 1 .. nextUnit[t] - 1 : Var(unitLit[i]) \in Assigned(trail[t])

UnitInv == UnitsAgree /\ Cursors

LEMMA UnitInvInit == Init => UnitInv
BY DEF Init, UnitInv, UnitsAgree, Cursors, Consistent

\* While the formula is read only solver 0 has literals, and all of them follow.
LEMMA ReadingKeepsUnits ==
  ASSUME Inv, UnitInv, AddClause \/ Eliminate \/ GenerateAllSolvers
  PROVE  UnitInv'
<1> USE DEF Inv, UnitInv
<1>0. /\ UNCHANGED <<problem, status, unitLit, nextUnit, pc>> /\ status[0] = lUndef
      /\ \A t \in Threads : nextUnit[t] = 1 /\ trail[t] \subseteq Lits
  <2>1. main \in {"read", "generate"} /\ UNCHANGED <<problem, status, unitLit, nextUnit, pc>>
    BY DEF AddClause, Eliminate, GenerateAllSolvers, unitVars
  <2>2. \A t \in Threads : 0 <= t
    BY ParallelAssumption DEF Threads
  <2>3. \A t \in Threads : pc[t] = "none"
    BY <2>1, <2>2 DEF Startup, TypeOK
  <2>4. status[0] = lUndef
    BY <2>3, ThreadsAreNumbers DEF Searched
  <2> QED BY <2>1, <2>3, <2>4 DEF Cursors, TypeOK
<1>1. Models' = Models
  BY <1>0 DEF Models, Formula
<1>2. Cursors'
  <2>1. \A t \in Threads : 1 .. nextUnit'[t] - 1 = {} /\ nextUnit'[t] <= Len(unitLit') + 1
    BY <1>0 DEF TypeOK
  <2> QED BY <1>0, <2>1 DEF Cursors
<1>3. \A t \in Threads : Consistent(trail'[t]) /\ (status[t] = lUndef => \A l \in trail'[t] : Implied(l))
  <2>1. CASE AddClause
    <3> DEFINE clauses == {problem.formula[i] : i \in 1 .. read'}
               known == Propagated(clauses, trail[0])
    <3>1. clauses \subseteq Formula /\ \A c \in clauses : c \subseteq Lits
      BY <2>1, ParallelAssumption DEF AddClause, TypeOK, Formula
    <3>2. \A l \in known : Implied(l)
      <4>1. SUFFICES ASSUME NEW l \in known, NEW m \in Models PROVE Satisfies(m, {l})
        BY DEF Implied
      <4>2. \A c \in clauses : Satisfies(m, c)
        BY <3>1 DEF Models, ModelsOf
      <4>3. trail[0] \in SUBSET Lits /\ \A k \in trail[0] : Satisfies(m, {k})
        BY <1>0, ThreadsAreNumbers DEF UnitsAgree, Implied
      <4> HIDE DEF clauses
      <4> QED BY <3>1, <4>2, <4>3, PropagationIsSound
    <3>3. trail' = trail \/ (Consistent(known) /\ trail' = [trail EXCEPT ![0] = known])
      BY <2>1 DEF AddClause
    <3> HIDE DEF known
    <3> QED BY <3>2, <3>3, ThreadsAreNumbers DEF UnitsAgree, TypeOK
  <2>2. CASE Eliminate
    <3>1. PICK units \in SUBSET {l \in Lits : Implied(l)} :
            Consistent(trail[0] \cup units) /\ trail' = [trail EXCEPT ![0] = @ \cup units]
      BY <2>2 DEF Eliminate
    <3> QED BY <1>0, <3>1, ThreadsAreNumbers DEF UnitsAgree, TypeOK
  <2>3. CASE GenerateAllSolvers
    <3>1. \A t \in Threads : trail'[t] = trail[0] \/ trail'[t] = {}
      BY <2>3 DEF GenerateAllSolvers
    <3>2. Consistent({})
      BY DEF Consistent
    <3> QED BY <1>0, <3>1, <3>2, ThreadsAreNumbers DEF UnitsAgree
  <2> QED BY <2>1, <2>2, <2>3
<1>4. UnitsAgree'
  BY <1>0, <1>1, <1>3 DEF UnitsAgree, Implied
<1> QED BY <1>2, <1>4

\* The searches keep them: what a thread assigns follows and is of a new
\* variable, and what it has read stays known.
LEMMA SearchKeepsUnits ==
  ASSUME Inv, UnitInv, NEW t \in Threads, ImportUnary(t) \/ LearnUnit(t) \/ Refuted(t) \/ ModelFound(t)
  PROVE  UnitInv'
<1> USE DEF Inv, UnitInv
<1>0. /\ Models' = Models /\ pc[t] # "none" /\ pc'[t] # "none"
      /\ \A u \in Threads \ {t} : pc'[u] = pc[u] /\ nextUnit'[u] = nextUnit[u] /\ trail'[u] = trail[u]
                                  /\ status'[u] = status[u]
  BY SameMeaning
     DEF ImportUnary, LearnUnit, Refuted, ModelFound, Goes, Advanced, TypeOK, mainVars, unitVars
<1>1. /\ \A i \in DOMAIN unitLit : i \in DOMAIN unitLit' /\ unitLit'[i] = unitLit[i] /\ unitLit[i] \in Lits
      /\ Len(unitLit) <= Len(unitLit') /\ Len(unitLit) \in Nat /\ unitLit' \in Seq(Lits)
      /\ DOMAIN unitLit = 1 .. Len(unitLit)
  <2>1. CASE LearnUnit(t)
    <3>1. PICK l \in Lits : unitLit' = unitLit \/ unitLit' = Append(unitLit, l)
      BY <2>1 DEF LearnUnit, Shared
    <3>2. unitLit \in Seq(Lits)
      BY DEF TypeOK
    <3>3. CASE unitLit' = unitLit
      BY <3>2, <3>3
    <3>4. CASE unitLit' = Append(unitLit, l)
      BY <3>2, <3>4
    <3> QED BY <3>1, <3>3, <3>4
  <2>2. CASE ~LearnUnit(t)
    BY <2>2 DEF ImportUnary, Refuted, ModelFound, TypeOK, unitVars
  <2> QED BY <2>1, <2>2
<1>2. /\ trail[t] \subseteq trail'[t] /\ Consistent(trail'[t])
      /\ status'[t] = lUndef => \A l \in trail'[t] : Implied(l)
  <2>1. CASE ImportUnary(t)
    <3> DEFINE l == unitLit[nextUnit[t]]
    <3>1. nextUnit[t] \in DOMAIN unitLit /\ l \in Lits /\ Implied(l)
      BY <2>1 DEF ImportUnary, TypeOK, UnitsAgree
    <3>2. \/ trail'[t] = trail[t]
          \/ Var(l) \notin Assigned(trail[t]) /\ trail'[t] = trail[t] \cup {l}
      BY <2>1 DEF ImportUnary, TypeOK
    <3>3. trail[t] \in SUBSET Lits /\ Consistent(trail[t]) /\ status' = status
      BY <2>1 DEF ImportUnary, TypeOK, UnitsAgree
    <3> HIDE DEF l
    <3> QED BY <3>1, <3>2, <3>3, NewVariable DEF UnitsAgree
  <2>2. CASE LearnUnit(t)
    <3>1. PICK l \in Lits : Implied(l) /\ Var(l) \notin Assigned(trail[t]) /\ trail'[t] = trail[t] \cup {l}
      BY <2>2 DEF LearnUnit, TypeOK
    <3>2. trail[t] \in SUBSET Lits /\ Consistent(trail[t]) /\ status' = status
      BY <2>2 DEF LearnUnit, TypeOK, UnitsAgree
    <3> QED BY <3>1, <3>2, NewVariable DEF UnitsAgree
  <2>3. CASE Refuted(t)
    BY <2>3 DEF Refuted, TypeOK, UnitsAgree, lFalse, lUndef
  <2>4. CASE ModelFound(t)
    <3>1. PICK lits \in PartialModels : trail[t] \subseteq lits /\ trail' = [trail EXCEPT ![t] = lits]
      BY <2>4 DEF ModelFound
    <3>2. Consistent(lits)
      <4>1. PICK m : lits = {l \in Lits : Satisfies(m, {l}) /\ Var(l) \notin eliminated}
        BY DEF PartialModels
      <4> QED BY <4>1, Opposite DEF Consistent
    <3> QED BY <2>4, <3>1, <3>2 DEF ModelFound, TypeOK, lTrue, lUndef
  <2> QED BY <2>1, <2>2, <2>3, <2>4
<1>3. Cursors'
  <2>1. \A u \in Threads : trail[u] \subseteq trail'[u]
    BY <1>0, <1>2
  <2>2. \A u \in Threads : nextUnit'[u] # nextUnit[u] => /\ u = t /\ ImportUnary(t)
    BY DEF ImportUnary, LearnUnit, Refuted, ModelFound, Advanced, TypeOK, unitVars
  <2>3. ASSUME NEW u \in Threads
        PROVE  /\ nextUnit'[u] <= Len(unitLit') + 1
               /\ \A i \in 1 .. nextUnit'[u] - 1 : Var(unitLit'[i]) \in Assigned(trail'[u])
    <3>1. nextUnit[u] \in Nat \ {0} /\ \A i \in 1 .. nextUnit[u] - 1 : i \in DOMAIN unitLit
      BY <1>1 DEF Cursors, TypeOK
    <3>2. \A i \in 1 .. nextUnit[u] - 1 : Var(unitLit'[i]) \in Assigned(trail'[u])
      BY <1>1, <2>1, <3>1 DEF Cursors, Assigned
    <3>3. CASE nextUnit'[u] = nextUnit[u]
      BY <1>1, <3>1, <3>2, <3>3 DEF Cursors, TypeOK
    <3>4. CASE u = t /\ ImportUnary(t)
      <4>1. nextUnit'[u] = nextUnit[u] + 1 /\ nextUnit[u] <= Len(unitLit)
            /\ nextUnit[u] \in DOMAIN unitLit /\ unitLit' = unitLit
        BY <1>1, <3>1, <3>4 DEF ImportUnary, Advanced, TypeOK
      <4>2. Var(unitLit[nextUnit[u]]) \in Assigned(trail'[u])
        BY <3>4 DEF ImportUnary, TypeOK, Assigned
      <4>3. \A i \in 1 .. nextUnit'[u] - 1 : i \in 1 .. nextUnit[u] - 1 \/ i = nextUnit[u]
        BY <3>1, <4>1
      <4> QED BY <1>1, <3>1, <3>2, <4>1, <4>2, <4>3
    <3> QED BY <2>2, <3>3, <3>4
  <2> QED BY <1>0, <2>3 DEF Cursors
<1>4. UnitsAgree'
  <2>1. \A l : Implied(l)' <=> Implied(l)
    BY <1>0 DEF Implied
  <2>2. /\ \A i, j \in DOMAIN unitLit' : Var(unitLit'[i]) = Var(unitLit'[j]) => i = j
        /\ \A i \in DOMAIN unitLit' : Implied(unitLit'[i])
    <3>1. CASE unitLit' = unitLit
      BY <3>1 DEF UnitsAgree
    <3>2. CASE unitLit' # unitLit
      <4>1. PICK l \in Lits : Implied(l) /\ unitLit' = Shared(l)
        BY <3>2 DEF ImportUnary, LearnUnit, Refuted, ModelFound, unitVars
      <4>2. unitLit' = Append(unitLit, l) /\ \A i \in DOMAIN unitLit : Var(unitLit[i]) # Var(l)
        BY <3>2, <4>1 DEF Shared
      <4>3. /\ DOMAIN unitLit' = DOMAIN unitLit \cup {Len(unitLit) + 1}
            /\ unitLit'[Len(unitLit) + 1] = l
        BY <1>1, <4>2 DEF TypeOK
      <4> QED BY <1>1, <4>1, <4>2, <4>3 DEF UnitsAgree
    <3> QED BY <3>1, <3>2
  <2> QED BY <1>0, <1>2, <2>1, <2>2 DEF UnitsAgree
<1> QED BY <1>3, <1>4

LEMMA UnitInvStep == Inv /\ UnitInv /\ [Next]_parallelVars => UnitInv'
<1> SUFFICES ASSUME Inv, UnitInv, [Next]_parallelVars
             PROVE  UnitInv'
  OBVIOUS
<1>1. CASE AddClause \/ Eliminate \/ GenerateAllSolvers
  BY <1>1, ReadingKeepsUnits
<1>2. ASSUME NEW t \in Threads, ImportUnary(t) \/ LearnUnit(t) \/ Refuted(t) \/ ModelFound(t)
      PROVE  UnitInv'
  BY <1>2, SearchKeepsUnits
<1>3. ASSUME UNCHANGED <<problem, trail, status, unitLit, nextUnit>>,
             \A t \in Threads : pc'[t] = "none" => pc[t] = "none"
      PROVE  UnitInv'
  <2>1. Models' = Models
    BY <1>3 DEF Models, Formula
  <2> QED BY <1>3, <2>1 DEF UnitInv, UnitsAgree, Cursors, Implied
<1>4. CASE \/ RefutedAtOnce \/ CreateThread \/ AllLaunched \/ TimedWait \/ Timeout \/ SpuriousWakeup \/ Join
           \/ UNCHANGED parallelVars
  <2>1. /\ UNCHANGED <<problem, trail, status, unitLit, nextUnit>>
        /\ \A t \in Threads : pc'[t] = "none" => pc[t] = "none"
    BY <1>4 DEF RefutedAtOnce, CreateThread, AllLaunched, TimedWait, Timeout, SpuriousWakeup, MainGoes, Join,
                parallelVars, mainVars, searchVars, unitVars, Inv, TypeOK
  <2> QED BY <1>3, <2>1
<1>5. ASSUME NEW t \in Threads,
             \/ Loop(t) \/ ImportDone(t) \/ Conflict(t) \/ LearnClause(t) \/ Restart(t) \/ IFinished(t)
             \/ NotFirst(t) \/ SetJobStatus(t) \/ CopyModel(t) \/ Signal(t)
      PROVE  UnitInv'
  <2>1. /\ UNCHANGED <<problem, trail, status, unitLit, nextUnit>>
        /\ \A u \in Threads : pc'[u] = "none" => pc[u] = "none"
    BY <1>5 DEF Loop, ImportDone, Conflict, LearnClause, Restart, IFinished, NotFirst, SetJobStatus, CopyModel,
                Signal, Goes, mainVars, searchVars, unitVars, Inv, TypeOK
  <2> QED BY <1>3, <2>1
<1> QED BY <1>1, <1>2, <1>4, <1>5 DEF Next, MainStep, ThreadStep

LEMMA SpecKeepsUnitInv == Spec => []UnitInv
BY SpecKeepsInv, UnitInvInit, UnitInvStep, PTL DEF Spec

\* Whatever the threads prove, in whatever order they share and import it, no
\* two shared literals are of one variable, no solver assigns a literal and its
\* negation, and until a thread has an answer all it assigns without a decision
\* follows from the formula.
THEOREM UnitsAlwaysAgree == Spec => []UnitsAgree
<1>1. UnitInv => UnitsAgree
  BY DEF UnitInv
<1> QED BY <1>1, SpecKeepsUnitInv, PTL

\* No literal is skipped by a thread that imports: its cursor never passes the
\* end, and the variables before it are assigned.
THEOREM NothingReadIsLost == Spec => []KnowsWhatItRead
<1>1. UnitInv => KnowsWhatItRead
  BY DEF UnitInv, Cursors, KnowsWhatItRead
<1> QED BY <1>1, SpecKeepsUnitInv, PTL
=============================================================================
