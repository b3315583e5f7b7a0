---------------------------- MODULE Enumeration ----------------------------
(***************************************************************************)
(* Solver::solve and Solver::findAllSolutions: glucose is run on           *)
(* sat.dimacs, its answer is read from output.txt, the model found is      *)
(* excluded by a clause added to sat.dimacs, and so on until UNSAT.        *)
(*                                                                         *)
(* sat.dimacs is represented by the set of its models.  output.txt holds   *)
(* a model, the word UNSAT, nothing (glucose opened it and stopped), or    *)
(* does not exist; it may be left over from an earlier run.                *)
(***************************************************************************)
CONSTANTS
  Assignments,  \* what a line of numbers in output.txt can be
  Unsat, Empty, Absent,  \* the other contents of output.txt
  Null,         \* what interprete returns for an empty file
  Failures      \* how a glucose run may fail, of "cutOff" and "neverStarts"

ASSUME ConstantsAreDistinct ==
  /\ {Unsat, Empty, Absent, Null} \cap Assignments = {}
  /\ Unsat # Empty /\ Unsat # Absent /\ Empty # Absent
  /\ Failures \subseteq {"cutOff", "neverStarts"}

VARIABLES
  pc,          \* the next call of Solver::solve
  file,        \* the models of sat.dimacs
  output,      \* output.txt
  verdict,     \* what was printed about satisfiability
  interprete,  \* option -i
  found,       \* $solutions, as the models they were read from
  original,    \* the models of the file first exported
  leftover,    \* what output.txt was when the script began
  failed       \* history: how glucose runs have failed so far

vars == <<pc, file, output, verdict, interprete, found, original, leftover, failed>>

Init ==
  /\ pc = "prepare"
  /\ file = {} /\ original = {}
  /\ output \in Assignments \cup {Unsat, Empty, Absent}
  /\ leftover = output
  /\ verdict = "none"
  /\ interprete \in BOOLEAN
  /\ found = {}
  /\ failed = {}

\* Mutant: the file is written and output.txt read, glucose is not run.
PrepareOnly(ms) ==
  /\ pc = "prepare"
  /\ file' = ms /\ original' = ms
  /\ pc' = "verdict"
  /\ UNCHANGED <<output, verdict, interprete, found, leftover, failed>>

\* Solver::prepare writes the SAT object, whose models are ms.
Prepare(ms) ==
  /\ pc = "prepare"
  /\ file' = ms /\ original' = ms
  /\ pc' = "execute"
  /\ UNCHANGED <<output, verdict, interprete, found, leftover, failed>>

AfterExecute == IF verdict = "none" THEN "verdict" ELSE "test"

\* glucose runs to its end: it writes UNSAT, or any model of the file.
Execute ==
  /\ pc = "execute"
  /\ IF file = {} THEN output' = Unsat ELSE output' \in file
  /\ pc' = AfterExecute
  /\ UNCHANGED <<file, verdict, interprete, found, original, leftover, failed>>

\* Mutant: it is stopped before output.txt is emptied.
CutOffBeforeOpening ==
  /\ pc = "execute" /\ "cutOff" \in Failures
  /\ failed' = failed \cup {"cutOff"}
  /\ pc' = AfterExecute
  /\ UNCHANGED <<file, output, verdict, interprete, found, original, leftover>>

\* It is stopped, or runs out of memory, after opening output.txt for writing.
ExecuteCutOff ==
  /\ pc = "execute" /\ "cutOff" \in Failures
  /\ output' = Empty
  /\ failed' = failed \cup {"cutOff"}
  /\ pc' = AfterExecute
  /\ UNCHANGED <<file, verdict, interprete, found, original, leftover>>

\* It is not there, or stops before opening output.txt; shell_exec's result
\* is not looked at.
ExecuteNeverStarts ==
  /\ pc = "execute" /\ "neverStarts" \in Failures
  /\ failed' = failed \cup {"neverStarts"}
  /\ pc' = AfterExecute
  /\ UNCHANGED <<file, output, verdict, interprete, found, original, leftover>>

\* Mutant: an empty output counts as unsatisfiable.
HasModel == output \notin {Unsat, Empty}

\* Solver::isSatisfiable: whatever does not begin with UNSAT is satisfiable.
IsSatisfiable == output # Unsat
CannotRead    == output = Absent

Verdict ==
  /\ pc = "verdict"
  /\ IF CannotRead THEN pc' = "error" /\ UNCHANGED verdict
     ELSE /\ verdict' = IF IsSatisfiable THEN "sat" ELSE "unsat"
          /\ pc' = IF IsSatisfiable /\ interprete THEN "test" ELSE "done"
  /\ UNCHANGED <<file, output, interprete, found, original, leftover, failed>>

\* The condition of the loop of findAllSolutions.
Test ==
  /\ pc = "test"
  /\ pc' = IF CannotRead THEN "error" ELSE IF IsSatisfiable THEN "interprete" ELSE "done"
  /\ UNCHANGED <<file, output, verdict, interprete, found, original, leftover, failed>>

\* Solver::interprete; the numbers of a file left over from another problem
\* may be ones the SAT object does not have, and then it throws.
Interprete ==
  /\ pc = "interprete"
  /\ \/ /\ found' = found \cup {IF output = Empty THEN Null ELSE output}
        /\ pc' = "add"
     \/ /\ output \in Assignments \ original
        /\ pc' = "error"
        /\ UNCHANGED found
  /\ UNCHANGED <<file, output, verdict, interprete, original, leftover, failed>>

\* Mutant: the clause excludes another model as well.
ExcludeTwo ==
  /\ pc = "add"
  /\ \E m \in file : file' = IF output = Empty THEN {} ELSE file \ {output, m}
  /\ pc' = "execute"
  /\ UNCHANGED <<output, verdict, interprete, found, original, leftover, failed>>

\* Mutant: the clause is not added to the file.
ExcludeNothing ==
  /\ pc = "add"
  /\ pc' = "execute"
  /\ UNCHANGED <<file, output, verdict, interprete, found, original, leftover, failed>>

\* What the clause of the negated numbers leaves of the file: of a model of the
\* problem, the others; an empty output gives an empty clause; a line left over
\* from a smaller problem excludes whatever agrees with it.
Remaining ==
  IF output = Empty THEN {{}}
  ELSE IF output \in original THEN {file \ {output}} ELSE SUBSET file

AddResultInDimacs ==
  /\ pc = "add"
  /\ file' \in Remaining
  /\ pc' = "execute"
  /\ UNCHANGED <<output, verdict, interprete, found, original, leftover, failed>>

Loop ==
  \/ Execute \/ ExecuteCutOff \/ ExecuteNeverStarts
  \/ Verdict \/ Test \/ Interprete \/ AddResultInDimacs

Next == (\E ms \in SUBSET Assignments : Prepare(ms)) \/ Loop

Spec     == Init /\ [][Next]_vars
FairSpec == Spec /\ WF_vars(Next)

-----------------------------------------------------------------------------
\* The program counter, the files and the verdict have their types.
TypeOK ==
  /\ pc \in {"prepare", "execute", "verdict", "test", "interprete", "add", "done", "error"}
  /\ file \subseteq Assignments /\ original \subseteq Assignments
  /\ output \in Assignments \cup {Unsat, Empty, Absent}
  /\ leftover \in Assignments \cup {Unsat, Empty, Absent}
  /\ verdict \in {"none", "sat", "unsat"}
  /\ interprete \in BOOLEAN
  /\ found \subseteq Assignments \cup {Null}
  /\ failed \subseteq Failures

\* When every glucose run succeeds, the solutions displayed are those of all
\* the models of the encoded problem, and no others (findAllSolutions).
AllSolutionsFound == pc = "done" /\ interprete /\ failed = {} => found = original

\* The satisfiability printed is that of the problem, whatever fails later and
\* whatever was left in output.txt; unless a run never started and the leftover
\* is what was read, or a run was cut off, which prints that a problem is
\* satisfiable and never that it is not.
VerdictIsRight ==
  /\ verdict = "unsat" => original = {} \/ ("neverStarts" \in failed /\ leftover = Unsat)
  /\ verdict = "sat" => \/ original # {}
                        \/ "cutOff" \in failed
                        \/ "neverStarts" \in failed /\ leftover \notin {Unsat, Absent}

\* However glucose fails, what is displayed is a model of the problem or a
\* NULL; and the content of output.txt from before the script only if a run of
\* glucose never started: a run that starts and is cut off does not show it.
NothingInvented ==
  found \subseteq original \cup {Null} \cup {o \in {leftover} : "neverStarts" \in failed}

\* If glucose has always started, a result that misses or adds a solution
\* shows: it contains the bogus NULL solution of the run that was cut off.
CutOffIsVisible ==
  "neverStarts" \notin failed /\ pc = "done" /\ interprete /\ found # original => Null \in found

\* As long as no run fails each turn of the loop reads a new model, also
\* though different models may interpret to the same solution.
NoModelTwice == [][pc = "interprete" /\ failed = {} => found' # found]_vars

\* The loop of findAllSolutions ends, when no run of glucose fails.
Termination == <>(pc \in {"done", "error"} \/ failed # {})

=============================================================================
