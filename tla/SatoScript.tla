----------------------------- MODULE SatoScript -----------------------------
(***************************************************************************)
(* The whole script: the encoder, then Solver::solve on the file it        *)
(* exported.  A model is the set of the numbers it makes true.             *)
(***************************************************************************)
EXTENDS SatoEncoder

CONSTANTS
  MaxVars,  \* how many variables a file of the model can have
  Unsat, Empty, Absent, Null, Failures  \* those of Enumeration

\* A set of numbers is none of the other things output.txt can hold.
ASSUME ScriptAssumption ==
  /\ MaxVars \in Nat
  /\ \A m \in SUBSET (1 .. MaxVars) : m \notin {Unsat, Empty, Absent, Null}
  /\ Unsat # Empty /\ Unsat # Absent /\ Empty # Absent
  /\ Failures \subseteq {"cutOff", "neverStarts"}

VARIABLES stage, file, output, verdict, interprete, found, original, leftover, failed

solveVars == <<stage, file, output, verdict, interprete, found, original, leftover, failed>>

Solve == INSTANCE Enumeration WITH Assignments <- SUBSET (1 .. MaxVars), pc <- stage

\* Nothing is done yet; output.txt may have been left by any earlier run.
ScriptInit == Init /\ Solve!Init

Encode ==
  /\ ParseVariables \/ ParseArgument \/ ArgumentsParsed \/ ParseInequations
       \/ ComputeClauseCNF \/ ClausesEncoded \/ PredicateOrderRelations
  /\ UNCHANGED solveVars

\* Solver::prepare exports the SAT object.
PrepareSolver ==
  /\ ExportToDimacs
  /\ IF pc' = "exported" THEN Solve!Prepare(Models') ELSE UNCHANGED solveVars

RunSolver == pc = "exported" /\ Solve!Loop /\ UNCHANGED vars

ScriptNext == Encode \/ PrepareSolver \/ RunSolver

ScriptSpec == ScriptInit /\ [][ScriptNext]_<<vars, solveVars>>

-----------------------------------------------------------------------------
\* The solutions displayed by option -i are the solutions of the constraints
\* typed on the command line: none is lost, invented or attributed to another
\* variable on the way through the file and back.
DisplaysTheSolutions ==
  stage = "done" /\ interprete /\ failed = {} => {Interpretation(m) : m \in found} = Solutions
=============================================================================
