----------------------------- MODULE ClauseFifo -----------------------------
(***************************************************************************)
(* What the clause exchange between the solver threads promises: a clause  *)
(* given by one thread reaches the other threads at most once, in the      *)
(* order in which clauses were given, and never returns to its author.     *)
(* Unless the exchange is lossy, no clause is passed over.                 *)
(***************************************************************************)
EXTENDS Naturals, Sequences

CONSTANTS Threads, Clauses

VARIABLES
  lossy,    \* whether clauses may be dropped to make room
  log,      \* the clauses given, [clause |-> _, origin |-> _], in order
  received  \* the numbers of the clauses each thread was handed, in order

fifoVars == <<lossy, log, received>>

Init ==
  /\ lossy \in BOOLEAN
  /\ log = << >>
  /\ received = [t \in Threads |-> << >>]

Give(t, c) ==
  /\ log' = Append(log, [clause |-> c, origin |-> t])
  /\ UNCHANGED <<lossy, received>>

Newest(t) == IF received[t] = << >> THEN 0 ELSE received[t][Len(received[t])]

Receive(t, n) ==
  /\ log[n].origin # t /\ Newest(t) < n
  /\ UNCHANGED <<lossy, log>>
  /\ received' = [received EXCEPT ![t] = Append(@, n)]
  /\ lossy \/ \A k \in Newest(t) + 1 .. n - 1 : log[k].origin = t

Next ==
  \E t \in Threads :
    \/ \E c \in Clauses : Give(t, c)
    \/ \E n \in DOMAIN log : Receive(t, n)

Spec == Init /\ [][Next]_fifoVars
=============================================================================
