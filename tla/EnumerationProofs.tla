-------------------------- MODULE EnumerationProofs --------------------------
(***************************************************************************)
(* What Solver::solve guarantees for every set of assignments, every       *)
(* problem and every leftover output.txt.                                  *)
(***************************************************************************)
EXTENDS Enumeration, TLAPS

Reading == {"verdict", "test", "interprete"}

\* The two calls after a successful test read something other than UNSAT.
Answered == pc \in {"interprete", "add"} => output \in Assignments \cup {Empty}

TypeInv == TypeOK /\ Answered

LEMMA TypeInvInit == Init => TypeInv
  BY DEF Init, TypeInv, TypeOK, Answered

LEMMA TypeInvStep == TypeInv /\ [Next]_vars => TypeInv'
<1> SUFFICES ASSUME TypeInv, [Next]_vars PROVE TypeInv'
  OBVIOUS
<1> USE DEF TypeInv, TypeOK, Answered
<1>1. ASSUME NEW ms \in SUBSET Assignments, Prepare(ms) PROVE TypeInv'
  BY <1>1 DEF Prepare
<1>2. CASE Execute
  BY <1>2 DEF Execute, AfterExecute
<1>3. CASE ExecuteCutOff
  BY <1>3 DEF ExecuteCutOff, AfterExecute
<1>4. CASE ExecuteNeverStarts
  BY <1>4 DEF ExecuteNeverStarts, AfterExecute
<1>5. CASE Verdict
  BY <1>5 DEF Verdict
<1>6. CASE Test
  BY <1>6 DEF Test, CannotRead, IsSatisfiable
<1>7. CASE Interprete
  BY <1>7 DEF Interprete
<1>8. CASE AddResultInDimacs
  BY <1>8 DEF AddResultInDimacs, Remaining
<1>9. CASE UNCHANGED vars
  BY <1>9 DEF vars
<1> QED
  BY <1>1, <1>2, <1>3, <1>4, <1>5, <1>6, <1>7, <1>8, <1>9 DEF Next, Loop

\* The type invariant of the enumeration loop holds in every reachable state:
\* in particular the solutions kept are models or NULL, never the word UNSAT.
THEOREM TypeCorrect == Spec => []TypeOK
<1>1. TypeInv => TypeOK
  BY DEF TypeInv
<1> QED
  BY <1>1, TypeInvInit, TypeInvStep, PTL DEF Spec

-----------------------------------------------------------------------------
\* Before the first export nothing has happened.
Untouched == pc = "prepare" => found = {} /\ verdict = "none" /\ failed = {}

\* As long as no run of glucose has failed, sat.dimacs has exactly the models
\* not yet found (and the one about to be excluded), output.txt answers for
\* it, and the verdict is right.
Healthy ==
  /\ found \subseteq original
  /\ pc \notin {"prepare", "add"} => file = original \ found
  /\ pc = "add" => output \in found /\ file = (original \ found) \cup {output}
  /\ pc \in Reading => IF file = {} THEN output = Unsat ELSE output \in file
  /\ pc = "interprete" => output \in file
  /\ verdict = "none" => found = {} /\ pc \notin {"test", "interprete", "add"}
  /\ pc = "verdict" => verdict = "none"
  /\ pc = "done" /\ interprete => file = {}
  /\ verdict # "none" => ((verdict = "sat") <=> (original # {}))

IInv == TypeInv /\ Untouched /\ (failed = {} => Healthy)

LEMMA IInvInit == Init => IInv
  BY TypeInvInit DEF Init, IInv, Untouched, Healthy, Reading

LEMMA IInvStep == IInv /\ [Next]_vars => IInv'
<1> SUFFICES ASSUME IInv, [Next]_vars PROVE IInv'
  OBVIOUS
<1>0. TypeInv'
  BY TypeInvStep DEF IInv
<1>u. Untouched'
  BY DEF IInv, Untouched, Next, Loop, Prepare, Execute, ExecuteCutOff, ExecuteNeverStarts,
         Verdict, Test, Interprete, AddResultInDimacs, AfterExecute, vars
<1> SUFFICES ASSUME failed' = {} PROVE Healthy'
  BY <1>0, <1>u DEF IInv
<1>f. failed = {} /\ Healthy /\ TypeInv /\ Untouched
  BY DEF IInv, Next, Loop, Prepare, Execute, ExecuteCutOff, ExecuteNeverStarts,
         Verdict, Test, Interprete, AddResultInDimacs, vars
<1> USE <1>f, ConstantsAreDistinct DEF Healthy, TypeInv, TypeOK, Answered, Reading
<1>1. ASSUME NEW ms \in SUBSET Assignments, Prepare(ms) PROVE Healthy'
  BY <1>1 DEF Prepare, Untouched
<1>2. CASE Execute
  BY <1>2 DEF Execute, AfterExecute
<1>3. CASE ExecuteCutOff \/ ExecuteNeverStarts
  BY <1>3 DEF ExecuteCutOff, ExecuteNeverStarts
<1>5. CASE Verdict
  BY <1>5 DEF Verdict, CannotRead, IsSatisfiable
<1>6. CASE Test
  BY <1>6 DEF Test, CannotRead, IsSatisfiable
<1>7. CASE Interprete
  BY <1>7 DEF Interprete
<1>8. CASE AddResultInDimacs
  BY <1>8 DEF AddResultInDimacs, Remaining
<1>9. CASE UNCHANGED vars
  BY <1>9 DEF vars
<1> QED
  BY <1>1, <1>2, <1>3, <1>5, <1>6, <1>7, <1>8, <1>9 DEF Next, Loop

LEMMA Invariant == Spec => []IInv
  BY IInvInit, IInvStep, PTL DEF Spec

\* With no failed run of glucose, findAllSolutions displays the solutions of
\* all the models of the exported problem and of no other assignment.
THEOREM AllSolutions == Spec => []AllSolutionsFound
<1>1. IInv => AllSolutionsFound
  BY DEF IInv, AllSolutionsFound, Healthy, TypeInv, TypeOK
<1> QED
  BY <1>1, Invariant, PTL

\* What the first run has left to be read, and when the verdict comes.
FirstRun ==
  /\ verdict = "none" => pc \in {"prepare", "execute", "verdict", "error"}
  /\ pc = "prepare" => output = leftover
  /\ pc = "execute" /\ verdict = "none" => output = leftover /\ file = original
  /\ pc = "verdict" /\ output = Unsat => original = {} \/ ("neverStarts" \in failed /\ leftover = Unsat)
  /\ pc = "verdict" /\ output \notin {Unsat, Absent} =>
       \/ original # {}
       \/ "cutOff" \in failed
       \/ "neverStarts" \in failed /\ leftover \notin {Unsat, Absent}
  /\ VerdictIsRight

LEMMA FirstRunStep == IInv /\ FirstRun /\ [Next]_vars => FirstRun'
<1> SUFFICES ASSUME IInv, FirstRun, [Next]_vars PROVE FirstRun'
  OBVIOUS
<1>0. TypeOK /\ Untouched
  BY DEF IInv, TypeInv
<1> USE <1>0, ConstantsAreDistinct DEF FirstRun, VerdictIsRight
<1>1. ASSUME NEW ms \in SUBSET Assignments, Prepare(ms) PROVE FirstRun'
  BY <1>1 DEF Prepare, Untouched
<1>2. CASE Execute
  BY <1>2 DEF Execute, AfterExecute, TypeOK
<1>3. CASE ExecuteCutOff
  BY <1>3 DEF ExecuteCutOff, AfterExecute
<1>4. CASE ExecuteNeverStarts
  BY <1>4 DEF ExecuteNeverStarts, AfterExecute
<1>5. CASE Verdict
  BY <1>5 DEF Verdict, CannotRead, IsSatisfiable
<1>6. CASE Test
  BY <1>6 DEF Test
<1>7. CASE Interprete
  BY <1>7 DEF Interprete
<1>8. CASE AddResultInDimacs
  BY <1>8 DEF AddResultInDimacs
<1>9. CASE UNCHANGED vars
  BY <1>9 DEF vars
<1> QED
  BY <1>1, <1>2, <1>3, <1>4, <1>5, <1>6, <1>7, <1>8, <1>9 DEF Next, Loop

\* The satisfiability printed is the problem's, whatever fails after it, unless
\* a run never started and a leftover was read; a run that was cut off never
\* has a problem called unsatisfiable (Solver::isSatisfiable).
THEOREM RightVerdict == Spec => []VerdictIsRight
<1>1. Init => FirstRun
  BY DEF Init, FirstRun, VerdictIsRight
<1>2. FirstRun => VerdictIsRight
  BY DEF FirstRun
<1> QED
  BY <1>1, <1>2, FirstRunStep, Invariant, PTL DEF Spec

\* With no failed run of glucose, each turn of the loop finds a new model.
THEOREM NewModelEachTurn == Spec => NoModelTwice
<1>1. IInv /\ [Next]_vars => [pc = "interprete" /\ failed = {} => found' # found]_vars
  <2> SUFFICES ASSUME IInv, Next, pc = "interprete", failed = {} PROVE found' # found
    OBVIOUS
  <2>1. Interprete
    BY DEF Next, Loop, Prepare, Execute, ExecuteCutOff, ExecuteNeverStarts,
           Verdict, Test, AddResultInDimacs
  <2>2. output \in file /\ file = original \ found /\ file \subseteq Assignments
    BY DEF IInv, Healthy, TypeInv, TypeOK
  <2>3. output # Empty
    BY <2>2, ConstantsAreDistinct
  <2> QED
    BY <2>1, <2>2, <2>3 DEF Interprete
<1> QED
  BY <1>1, Invariant, PTL DEF Spec, NoModelTwice

-----------------------------------------------------------------------------
\* Where the trace of a run that was cut off is: in the solutions, in
\* output.txt on its way there, or nowhere because solutions are not wanted.
CutOffTrace ==
  "neverStarts" \notin failed /\ failed # {} =>
    \/ Null \in found
    \/ output = Empty /\ pc \in Reading
    \/ pc = "done" /\ ~interprete

LEMMA CutOffTraceStep == IInv /\ CutOffTrace /\ [Next]_vars => CutOffTrace'
<1> SUFFICES ASSUME IInv, CutOffTrace, [Next]_vars, "neverStarts" \notin failed', failed' # {}
             PROVE  CutOffTrace'
  BY DEF CutOffTrace
<1> USE ConstantsAreDistinct DEF CutOffTrace, Reading
<1>1. ASSUME NEW ms \in SUBSET Assignments, Prepare(ms) PROVE CutOffTrace'
  BY <1>1 DEF Prepare, IInv, Untouched
<1>2. CASE Execute
  BY <1>2 DEF Execute
<1>3. CASE ExecuteCutOff
  BY <1>3 DEF ExecuteCutOff, AfterExecute
<1>4. CASE ExecuteNeverStarts
  BY <1>4 DEF ExecuteNeverStarts
<1>5. CASE Verdict
  BY <1>5 DEF Verdict, CannotRead, IsSatisfiable
<1>6. CASE Test
  BY <1>6 DEF Test, CannotRead, IsSatisfiable
<1>7. CASE Interprete
  BY <1>7 DEF Interprete
<1>8. CASE AddResultInDimacs
  BY <1>8 DEF AddResultInDimacs
<1>9. CASE UNCHANGED vars
  BY <1>9 DEF vars
<1> QED
  BY <1>1, <1>2, <1>3, <1>4, <1>5, <1>6, <1>7, <1>8, <1>9 DEF Next, Loop

\* As long as glucose has always started, a wrong set of solutions contains a NULL.
THEOREM CutOffShows == Spec => []CutOffIsVisible
<1>1. Init => CutOffTrace
  BY DEF Init, CutOffTrace
<1>2. IInv /\ CutOffTrace => CutOffIsVisible
  BY DEF IInv, CutOffTrace, CutOffIsVisible, Healthy, TypeInv, TypeOK, Reading
<1> QED
  BY <1>1, <1>2, CutOffTraceStep, Invariant, PTL DEF Spec

-----------------------------------------------------------------------------
\* sat.dimacs only loses models, and output.txt is what it was or an answer.
Sources ==
  /\ file \subseteq original
  /\ output \in original \cup {leftover, Unsat, Empty, Absent}
  /\ pc = "prepare" => output = leftover
  /\ pc \in Reading /\ "neverStarts" \notin failed => output \in original \cup {Unsat, Empty}
  /\ NothingInvented

LEMMA SourcesStep == IInv /\ Sources /\ [Next]_vars => Sources'
<1> SUFFICES ASSUME IInv, Sources, [Next]_vars PROVE Sources'
  OBVIOUS
<1> USE ConstantsAreDistinct DEF Sources, NothingInvented, Reading
<1>1. ASSUME NEW ms \in SUBSET Assignments, Prepare(ms) PROVE Sources'
  BY <1>1 DEF Prepare, IInv, Untouched
<1>2. CASE Execute
  BY <1>2 DEF Execute, AfterExecute
<1>3. CASE ExecuteCutOff \/ ExecuteNeverStarts
  BY <1>3 DEF ExecuteCutOff, ExecuteNeverStarts, AfterExecute
<1>5. CASE Verdict \/ Test
  BY <1>5 DEF Verdict, Test
<1>7. CASE Interprete
  BY <1>7 DEF Interprete, IInv, TypeInv, Answered
<1>8. CASE AddResultInDimacs
  BY <1>8 DEF AddResultInDimacs, Remaining
<1>9. CASE UNCHANGED vars
  BY <1>9 DEF vars
<1> QED
  BY <1>1, <1>2, <1>3, <1>5, <1>7, <1>8, <1>9 DEF Next, Loop

\* Whatever glucose does, what is displayed is a model of the problem or a NULL;
\* the output.txt from before the script only after a run that never started.
THEOREM NothingElseShown == Spec => []NothingInvented
<1>1. Init => Sources
  BY DEF Init, Sources, NothingInvented, Reading
<1>2. Sources => NothingInvented
  BY DEF Sources
<1> QED
  BY <1>1, <1>2, SourcesStep, Invariant, PTL DEF Spec
=============================================================================
