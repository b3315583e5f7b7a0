--------------------------- MODULE ClausesBuffer ---------------------------
(***************************************************************************)
(* The cyclic array through which the threads of the parallel solver       *)
(* exchange clauses.  A clause occupies header and literals: its size, the *)
(* number of threads that have still to read it, the thread it comes from, *)
(* its literals.  last is the index before the oldest clause, first the    *)
(* index after the newest, and every thread has a cursor of its own.       *)
(*                                                                         *)
(* SharedCompanion calls pushClause and getClause under one mutex: a turn  *)
(* of one of their loops is a step, and only the thread inside takes any.  *)
(* Clauses are numbered in the order they are accepted and every literal   *)
(* of a clause is its number: it is the arithmetic of the array that can   *)
(* go wrong, and a misplaced read shows as a wrong number.                 *)
(***************************************************************************)
EXTENDS Integers, Sequences, FiniteSets

CONSTANTS
  NbThreads,
  Maxsize,    \* the size of the array
  Sizes,      \* the sizes of the clauses pushed
  MaxPushes   \* bound on the clauses accepted

Threads == 0 .. NbThreads - 1
HeaderSize == 3

ASSUME BufferAssumption ==
  /\ NbThreads \in Nat \ {0} /\ MaxPushes \in Nat
  /\ Maxsize \in Nat \ {0}
  /\ Sizes \subseteq {s \in Nat \ {0} : s + HeaderSize < Maxsize}

VARIABLES
  elems, first, last, queuesize, lastOfThread,
  whenFullRemoveOlder,  \* option -removeolder
  pc,        \* where the thread that holds the mutex is, "idle" if there is none
  caller,    \* this thread, and the variables of the function it is in:
  csize,     \* the size of the clause to push
  thislast,  \* the cursor of getClause
  log,       \* history: the clauses accepted, [clause, origin]
  received,  \* history: what each thread was handed, [clause, origin]
  lost,      \* history: the threads for which some clause was removed unread
  oldest,    \* history: the number of the oldest clause that was not removed
  begins     \* history: where each clause and the next one begin, not wrapped

arrayVars   == <<elems, first, last, queuesize, lastOfThread, oldest, lost>>
callVars    == <<pc, caller, csize, thislast>>
historyVars == <<log, received, begins>>
vars == <<arrayVars, callVars, historyVars, whenFullRemoveOlder>>

Init ==
  /\ elems = [i \in 0 .. Maxsize - 1 |-> 0]
  /\ first = 0 /\ last = Maxsize - 1 /\ queuesize = 0
  /\ lastOfThread = [t \in Threads |-> Maxsize - 1]
  /\ whenFullRemoveOlder \in BOOLEAN
  /\ pc = "idle" /\ caller = 0 /\ csize = 0 /\ thislast = 0
  /\ log = << >> /\ received = [t \in Threads |-> << >>] /\ lost = {}
  /\ oldest = 1 /\ begins = <<Maxsize - 1>>

NextIndex(i) == IF i + 1 = Maxsize THEN 0 ELSE i + 1
AddIndex(i, a) == IF i + a >= Maxsize THEN i + a - Maxsize ELSE i + a

SizeAfter(el, i)   == el[NextIndex(i)]
UnreadAfter(el, i) == el[AddIndex(i, 2)]
OriginAfter(el, i) == el[AddIndex(i, 3)]
ClauseEnd(el, i)   == AddIndex(i, SizeAfter(el, i) + HeaderSize)

Enter(t, where, size, cursor) ==
  /\ pc = "idle"
  /\ pc' = where /\ caller' = t /\ csize' = size /\ thislast' = cursor

Return == pc' = "idle" /\ caller' = 0 /\ csize' = 0 /\ thislast' = 0

-----------------------------------------------------------------------------
(* removeLastClause, do ... while.                                         *)

\* Mutant: the cursors stay where they are.
CursorsLeftBehind(end) == lastOfThread

\* The cursors before the oldest clause move to its end.
FollowedCursors(end) ==
  [t \in Threads |-> IF lastOfThread[t] = last THEN end ELSE lastOfThread[t]]

\* The threads that have not read the oldest clause.
Losers(el) == {t \in Threads : /\ lastOfThread[t] = last
                               /\ OriginAfter(el, last) # t /\ UnreadAfter(el, last) > 0}

\* One turn: the oldest clause goes.
RemoveOldest(el) ==
  LET end == ClauseEnd(el, last)
  IN  /\ lastOfThread' = FollowedCursors(end)
      /\ last' = end
      /\ queuesize' = queuesize - (SizeAfter(el, last) + HeaderSize)
      /\ lost' = lost \cup Losers(el)
      /\ oldest' = oldest + 1

\* Mutant: only one clause goes at a time.
NoneBehind == FALSE

\* The loop goes on while the next clause has been read by all.
NextIsRead == queuesize > 0 /\ UnreadAfter(elems, last) = 0

RemoveNext ==
  /\ pc \in {"pushRemoves", "getRemoves"} /\ NextIsRead
  /\ RemoveOldest(elems)
  /\ UNCHANGED <<elems, first, callVars, historyVars, whenFullRemoveOlder>>

-----------------------------------------------------------------------------
(* pushClause                                                              *)

Fits(size) == queuesize + size + HeaderSize < Maxsize

\* Mutant: the author is counted among the readers of its clause.
EveryThread == NbThreads

Readers == IF NbThreads > 1 THEN NbThreads - 1 ELSE 1

\* How far index j is from the first free one.
FromFirst(j) == IF j >= first THEN j - first ELSE j - first + Maxsize

\* noCheckPush of the header and of the literals.
Written(size, t, c) ==
  [j \in 0 .. Maxsize - 1 |->
     CASE FromFirst(j) = 0 -> size
       [] FromFirst(j) = 1 -> Readers
       [] FromFirst(j) = 2 -> t
       [] FromFirst(j) \in 3 .. size + 2 -> c
       [] OTHER -> elems[j]]

\* A clause that does not fit is refused, unless old clauses may be removed.
PushRefused(size) ==
  /\ pc = "idle"
  /\ ~whenFullRemoveOlder /\ ~Fits(size)
  /\ UNCHANGED vars

EnterPush(t, size) ==
  /\ Len(log) < MaxPushes
  /\ whenFullRemoveOlder \/ Fits(size)
  /\ Enter(t, "push", size, 0)
  /\ UNCHANGED <<arrayVars, historyVars, whenFullRemoveOlder>>

MakeRoom ==
  /\ pc = "push" /\ ~Fits(csize)
  /\ RemoveOldest(elems)
  /\ pc' = "pushRemoves"
  /\ UNCHANGED <<elems, first, caller, csize, thislast, historyVars, whenFullRemoveOlder>>

RoomMade ==
  /\ pc = "pushRemoves" /\ ~NextIsRead
  /\ pc' = "push"
  /\ UNCHANGED <<arrayVars, caller, csize, thislast, historyVars, whenFullRemoveOlder>>

PushClause ==
  /\ pc = "push" /\ Fits(csize)
  /\ LET c == Len(log) + 1
     IN  /\ elems' = Written(csize, caller, c)
         /\ log' = Append(log, [clause |-> [k \in 1 .. csize |-> c], origin |-> caller])
  /\ first' = AddIndex(first, csize + HeaderSize)
  /\ queuesize' = queuesize + csize + HeaderSize
  /\ begins' = Append(begins, begins[Len(begins)] + csize + HeaderSize)
  /\ Return
  /\ UNCHANGED <<last, lastOfThread, lost, oldest, received, whenFullRemoveOlder>>

-----------------------------------------------------------------------------
(* getClause                                                               *)

\* A cursor the end of the array has overtaken is moved up to it.
Behind(i) ==
  \/ i < last /\ last < first
  \/ first < i /\ i < last
  \/ last < first /\ first < i

\* It returns at once when there is nothing behind the cursor.
EnterGet(t) ==
  /\ NextIndex(lastOfThread[t]) # first
  /\ Enter(t, "get", 0, IF Behind(lastOfThread[t]) THEN last ELSE lastOfThread[t])
  /\ UNCHANGED <<arrayVars, historyVars, whenFullRemoveOlder>>

AtEnd(i) == NextIndex(i) = first

\* Mutant: the counter of unread copies is taken for the author.
CounterIsOwn(i) == UnreadAfter(elems, i) = caller

\* Mutant: a thread's own clauses are not skipped.
NeverOwn(i) == FALSE

Own(i) == OriginAfter(elems, i) = caller

SkipOwn ==
  /\ pc = "get" /\ ~AtEnd(thislast) /\ Own(thislast)
  /\ thislast' = ClauseEnd(elems, thislast)
  /\ UNCHANGED <<arrayVars, pc, caller, csize, historyVars, whenFullRemoveOlder>>

\* It returns false.
GetNothing ==
  /\ pc = "get" /\ AtEnd(thislast)
  /\ lastOfThread' = [lastOfThread EXCEPT ![caller] = thislast]
  /\ Return
  /\ UNCHANGED <<elems, first, last, queuesize, oldest, lost, historyVars, whenFullRemoveOlder>>

\* It hands over the next clause; the last thread to read the oldest clause
\* removes it.
GetClause ==
  /\ pc = "get" /\ ~AtEnd(thislast) /\ ~Own(thislast)
  /\ elems' = [elems EXCEPT ![AddIndex(thislast, 2)] = @ - 1]
  /\ received' = [received EXCEPT ![caller] =
       Append(@, [clause |-> [k \in 1 .. SizeAfter(elems, thislast) |-> elems[AddIndex(thislast, 3 + k)]],
                  origin |-> OriginAfter(elems, thislast)])]
  /\ IF thislast = last /\ UnreadAfter(elems', last) = 0
       THEN /\ RemoveOldest(elems')
            /\ pc' = "getRemoves"
            /\ UNCHANGED <<caller, csize, thislast>>
       ELSE /\ lastOfThread' = [lastOfThread EXCEPT ![caller] = ClauseEnd(elems, thislast)]
            /\ Return
            /\ UNCHANGED <<last, queuesize, lost, oldest>>
  /\ UNCHANGED <<first, log, begins, whenFullRemoveOlder>>

\* The cursor ends where the removal has.
GotClause ==
  /\ pc = "getRemoves" /\ ~NextIsRead
  /\ lastOfThread' = [lastOfThread EXCEPT ![caller] = last]
  /\ Return
  /\ UNCHANGED <<elems, first, last, queuesize, oldest, lost, historyVars, whenFullRemoveOlder>>

-----------------------------------------------------------------------------
\* The thread that holds the mutex goes on.
Inside ==
  \/ RemoveNext \/ MakeRoom \/ RoomMade \/ PushClause
  \/ SkipOwn \/ GetNothing \/ GetClause \/ GotClause

Next ==
  \/ Inside
  \/ \E t \in Threads : EnterGet(t) \/ \E size \in Sizes : EnterPush(t, size)
  \/ \E size \in Sizes : PushRefused(size)

Spec == Init /\ [][Next]_vars

\* A thread leaves the mutex, and a running one goes on importing clauses
\* (parallelImportClauses).
FairSpec == Spec /\ WF_vars(Inside) /\ \A t \in Threads : WF_vars(EnterGet(t))

-----------------------------------------------------------------------------
(* The clauses in the array, oldest first, have the numbers oldest .. newest. *)

newest == Len(log)

\* Where a place of an array that is not wrapped is in this one.
Index(place) == place % Maxsize

\* The index before clause k; before the clause to come, for newest + 1.
Before(k) == Index(begins[k])

\* Types, and that the array is never completely full (part of
\* CursorsOnBoundaries).
TypeOK ==
  /\ elems \in [0 .. Maxsize - 1 -> Nat]
  /\ first \in 0 .. Maxsize - 1 /\ last \in 0 .. Maxsize - 1
  /\ queuesize \in 0 .. Maxsize - 1
  /\ lastOfThread \in [Threads -> 0 .. Maxsize - 1]
  /\ lost \subseteq Threads /\ whenFullRemoveOlder \in BOOLEAN
  /\ pc \in {"idle", "push", "pushRemoves", "get", "getRemoves"} /\ caller \in Threads
  /\ csize \in Sizes \cup {0} /\ thislast \in 0 .. Maxsize - 1

\* The array holds whole clauses, exactly those not removed, from last to
\* first, and the headers are where they were written; every cursor is before
\* one of them or after the newest: no thread ever takes a literal for a
\* header, however the array wraps and whatever is removed under its feet.
CursorsOnBoundaries ==
  /\ TypeOK
  /\ last = Before(oldest) /\ NextIndex(Before(newest + 1)) = first
  /\ queuesize = begins[newest + 1] - begins[oldest]
  /\ \A k \in oldest .. newest :
       /\ ClauseEnd(elems, Before(k)) = Before(k + 1)
       /\ SizeAfter(elems, Before(k)) = Len(log[k].clause)
       /\ OriginAfter(elems, Before(k)) = log[k].origin
  /\ \A t \in Threads : \E k \in oldest .. newest + 1 : lastOfThread[t] = Before(k)

\* The counter of a clause is the number of other threads whose cursor has not
\* passed it: nobody frees a clause another thread has still to read, and a
\* clause all have read is not kept for ever (removeAfter in getClause).
UnreadIsExact ==
  NbThreads > 1 =>
    \A k \in oldest .. newest :
       UnreadAfter(elems, Before(k)) =
         Cardinality({t \in Threads \ {log[k].origin} :
                        lastOfThread[t] \in {Before(j) : j \in oldest .. k}})

\* A clause's number in the order of acceptance is any of its literals.
NumberOf(m) == m.clause[1]

\* Clauses are handed over whole, with the size, literals and origin they were
\* pushed with, also when the array has wrapped inside them and old ones are
\* removed between the reads.
HandedOverWhole ==
  \A t \in Threads : \A k \in 1 .. Len(received[t]) :
    LET m == received[t][k]
    IN  NumberOf(m) \in 1 .. Len(log) /\ log[NumberOf(m)] = m

\* pushClause, when it has made room: "assert(queuesize > 0)" (ClausesBuffer.cc:172).
\* The clauses behind the oldest may all have been read by all.
RoomLeavesAClause == pc = "pushRemoves" /\ ~NextIsRead => queuesize > 0

Fifo == INSTANCE ClauseFifo WITH
          Clauses <- {[k \in 1 .. size |-> c] : size \in Sizes, c \in 1 .. MaxPushes},
          lossy <- whenFullRemoveOlder,
          received <- [t \in Threads |->
                         [k \in DOMAIN received[t] |-> NumberOf(received[t][k])]]

\* The array is a FIFO broadcast: reliable when clauses are refused rather than
\* removed, and otherwise one that skips clauses but never reorders, repeats
\* or returns them to their author.
IsClauseFifo == Fifo!Spec

\* A clause given is eventually handed to every other thread, unless clauses
\* are removed unread (pushClause and getClause called by running threads).
AllDelivered ==
  \A t \in Threads :
    <>[](t \in lost \/ received[t] = SelectSeq(log, LAMBDA m : m.origin # t))

\* When all has been read the array is empty again: no clause is left behind
\* for which removeLastClause was called too early.
Drained == <>[](queuesize = 0)

=============================================================================
