------------------------ MODULE ClausesBufferProofs ------------------------
(***************************************************************************)
(* For any number of threads, size of the array and sizes of clauses: the  *)
(* cursors stay on the boundaries of clauses, the counters are exact, and  *)
(* the array implements a FIFO broadcast.                                  *)
(***************************************************************************)
EXTENDS ClausesBuffer, FiniteSetTheorems, TLAPS

-----------------------------------------------------------------------------
(* Arithmetic of the array: Index(x) wraps a place of an unbounded array.  *)

LEMMA ProductOrder ==
  ASSUME NEW m \in Nat \ {0}, NEW q \in Int, NEW r \in Int, q < r
  PROVE  m * q + m <= m * r
<1>1. \A d \in Nat : m * d >= 0
  OBVIOUS
<1>2. m * (r - q - 1) >= 0
  BY <1>1
<1>3. m * (r - q - 1) = m * r - m * q - m
  OBVIOUS
<1> QED BY <1>2, <1>3

LEMMA Remainder ==
  ASSUME NEW x \in Int, NEW q \in Int, NEW r \in 0 .. Maxsize - 1, x = Maxsize * q + r
  PROVE  Index(x) = r
<1>1. Maxsize \in Nat \ {0}
  BY BufferAssumption
<1> DEFINE p == x \div Maxsize
           s == x % Maxsize
<1>2. p \in Int /\ s \in 0 .. Maxsize - 1 /\ x = Maxsize * p + s
  BY <1>1
<1>3. ~ p < q
  BY <1>1, <1>2, ProductOrder
<1>4. ~ q < p
  BY <1>1, <1>2, ProductOrder
<1>5. p = q
  BY <1>2, <1>3, <1>4
<1> QED BY <1>1, <1>2, <1>5 DEF Index

LEMMA IndexRange ==
  ASSUME NEW x \in Int
  PROVE  Index(x) \in 0 .. Maxsize - 1
BY BufferAssumption DEF Index

LEMMA IndexStep ==
  ASSUME NEW x \in Int, NEW a \in 0 .. Maxsize
  PROVE  Index(x + a) = AddIndex(Index(x), a)
<1> DEFINE q == x \div Maxsize
           r == Index(x)
<1>1. Maxsize \in Nat \ {0}
  BY BufferAssumption
<1>2. q \in Int /\ r \in 0 .. Maxsize - 1 /\ x = Maxsize * q + r
  BY <1>1 DEF Index
<1> HIDE DEF q
<1>3. CASE r + a < Maxsize
  <2>1. x + a = Maxsize * q + (r + a) /\ r + a \in 0 .. Maxsize - 1 /\ x + a \in Int
    BY <1>1, <1>2, <1>3
  <2>2. Index(x + a) = r + a
    BY <1>2, <2>1, Remainder
  <2> QED BY <1>1, <1>2, <1>3, <2>2 DEF AddIndex
<1>4. CASE r + a >= Maxsize
  <2>1. Maxsize * (q + 1) = Maxsize * q + Maxsize
    BY <1>1, <1>2
  <2>2. x + a = Maxsize * (q + 1) + (r + a - Maxsize)
    BY <1>1, <1>2, <2>1
  <2>3. q + 1 \in Int /\ r + a - Maxsize \in 0 .. Maxsize - 1 /\ x + a \in Int
    BY <1>1, <1>2, <1>4
  <2>4. Index(x + a) = r + a - Maxsize
    BY <2>2, <2>3, Remainder
  <2> QED BY <1>2, <1>4, <2>4 DEF AddIndex
<1> QED BY <1>1, <1>2, <1>3, <1>4

-----------------------------------------------------------------------------
(* The inductive invariant.                                                *)

Message   == [clause : Seq(Nat), origin : Threads]
SizeOf(k) == Len(log[k].clause)
End       == newest + 1

\* What the histories are: clause k has its number as literals and begins where
\* clause k - 1 ends.
Entries ==
  /\ log \in Seq(Message) /\ newest <= MaxPushes
  /\ begins \in Seq(Nat) /\ Len(begins) = End /\ oldest \in 1 .. End
  /\ \A k \in 1 .. newest : /\ SizeOf(k) \in Sizes
                           /\ log[k].clause = [j \in 1 .. SizeOf(k) |-> k]
                           /\ begins[k + 1] = begins[k] + SizeOf(k) + HeaderSize
  /\ \A j, k \in 1 .. End : j < k => begins[j] < begins[k]

Bounds ==
  /\ last = Before(oldest)
  /\ first = Index(begins[End] + 1)
  /\ queuesize = begins[End] - begins[oldest]

\* Headers and literals, but for the counters, are where the clauses begin.
Layout(el) ==
  \A k \in oldest .. newest :
    /\ el[Index(begins[k] + 1)] = SizeOf(k)
    /\ el[Index(begins[k] + 3)] = log[k].origin
    /\ \A j \in 1 .. SizeOf(k) : el[Index(begins[k] + 3 + j)] = k

Cursors == \A t \in Threads : \E k \in oldest .. End : lastOfThread[t] = Before(k)

\* The threads that have still to read clause k.
Waiting(k) == {t \in Threads \ {log[k].origin} : lastOfThread[t] \in {Before(j) : j \in oldest .. k}}

Counters(el) ==
  NbThreads > 1 =>
    \A k \in oldest .. newest : el[Index(begins[k] + 2)] = Cardinality(Waiting(k))

\* What the thread inside the mutex knows.
Calls ==
  /\ pc \in {"push", "pushRemoves"} => csize \in Sizes /\ newest < MaxPushes
  /\ pc = "push" => whenFullRemoveOlder \/ Fits(csize)
  /\ pc = "pushRemoves" => whenFullRemoveOlder
  /\ pc = "get" => \E k \in oldest .. End : \E m \in k .. End :
                     /\ lastOfThread[caller] = Before(k) /\ thislast = Before(m)
                     /\ \A j \in k .. m - 1 : log[j].origin = caller
  /\ pc = "getRemoves" => lastOfThread[caller] = last /\ NbThreads > 1

\* The number of the clause thread t was handed last.
Newest(t) == IF received[t] = << >> THEN 0 ELSE NumberOf(received[t][Len(received[t])])

\* A cursor is past all its thread has been handed, and past nothing else unless
\* clauses may be dropped.
DeliveredTo(t) ==
  /\ Newest(t) \in 0 .. newest
  /\ \A k \in oldest .. End : lastOfThread[t] = Before(k) =>
       /\ Newest(t) < k
       /\ whenFullRemoveOlder \/ \A j \in Newest(t) + 1 .. k - 1 : log[j].origin = t

Delivered == received \in [Threads -> Seq(Message)] /\ \A t \in Threads : DeliveredTo(t)

Inv ==
  /\ TypeOK /\ Entries /\ Bounds /\ Layout(elems) /\ Cursors /\ Counters(elems)
  /\ Calls /\ Delivered /\ HandedOverWhole

-----------------------------------------------------------------------------
(* Places of the array and clauses.                                        *)

LEMMA NextIsAdd ==
  ASSUME NEW i \in 0 .. Maxsize - 1
  PROVE  NextIndex(i) = AddIndex(i, 1) /\ AddIndex(i, 0) = i /\ AddIndex(i, Maxsize) = i
BY BufferAssumption DEF NextIndex, AddIndex

\* Two places less than a turn apart are different cells.
LEMMA Injective ==
  ASSUME NEW x \in Int, NEW y \in Int, x <= y, y - x < Maxsize, Index(x) = Index(y)
  PROVE  x = y
<1>1. y - x \in 0 .. Maxsize /\ y = x + (y - x)
  BY BufferAssumption
<1>2. Index(y) = AddIndex(Index(x), y - x)
  BY <1>1, IndexStep
<1>3. Index(x) \in 0 .. Maxsize - 1
  BY IndexRange
<1> HIDE DEF Index
<1> QED BY <1>2, <1>3, BufferAssumption DEF AddIndex

Placed == TypeOK /\ Entries /\ Bounds

\* Facts about where the clauses are.
LEMMA Places ==
  ASSUME Placed
  PROVE  /\ Maxsize \in Nat \ {0} /\ HeaderSize = 3
         /\ newest \in Nat /\ End \in Nat \ {0} /\ End = newest + 1 /\ oldest \in 1 .. End
         /\ \A k \in 1 .. End : begins[k] \in Nat
         /\ \A k \in oldest .. End : k \in 1 .. End /\ begins[oldest] <= begins[k] /\ begins[k] <= begins[End]
         /\ \A k \in oldest .. newest :
              /\ k \in 1 .. newest /\ k + 1 \in oldest .. End
              /\ SizeOf(k) \in Sizes /\ SizeOf(k) \in Nat \ {0} /\ SizeOf(k) + 3 < Maxsize
              /\ begins[k + 1] = begins[k] + SizeOf(k) + 3
         /\ begins[End] - begins[oldest] = queuesize /\ queuesize \in 0 .. Maxsize - 1
         /\ \A j, k \in oldest .. End : j < k => begins[j] < begins[k]
<1> USE DEF Placed
<1>1. Maxsize \in Nat \ {0} /\ HeaderSize = 3
  BY BufferAssumption DEF HeaderSize
<1>2. newest \in Nat /\ End \in Nat \ {0} /\ End = newest + 1 /\ oldest \in 1 .. End
  BY DEF Entries, End, newest
<1>3. \A k \in 1 .. End : begins[k] \in Nat
  BY <1>2 DEF Entries
<1>4. \A k \in oldest .. End : k \in 1 .. End
  BY <1>2
<1>5. \A j, k \in 1 .. End : j < k => begins[j] < begins[k]
  BY DEF Entries
<1>6. \A k \in oldest .. End : begins[oldest] <= begins[k] /\ begins[k] <= begins[End]
  <2> TAKE k \in oldest .. End
  <2>1. begins[oldest] \in Nat /\ begins[k] \in Nat /\ begins[End] \in Nat
    BY <1>2, <1>3
  <2>2. k = oldest \/ begins[oldest] < begins[k]
    BY <1>2, <1>5
  <2>3. k = End \/ begins[k] < begins[End]
    BY <1>2, <1>5
  <2> QED BY <2>1, <2>2, <2>3
<1>7. \A k \in oldest .. newest :
        /\ k \in 1 .. newest /\ k + 1 \in oldest .. End
        /\ SizeOf(k) \in Sizes /\ SizeOf(k) \in Nat \ {0} /\ SizeOf(k) + 3 < Maxsize
        /\ begins[k + 1] = begins[k] + SizeOf(k) + 3
  <2> TAKE k \in oldest .. newest
  <2>1. k \in 1 .. newest /\ k + 1 \in oldest .. End
    BY <1>2
  <2>2. SizeOf(k) \in Sizes /\ begins[k + 1] = begins[k] + SizeOf(k) + 3
    BY <2>1, <1>1 DEF Entries
  <2> QED BY <2>1, <2>2, BufferAssumption DEF HeaderSize
<1>8. begins[End] - begins[oldest] = queuesize /\ queuesize \in 0 .. Maxsize - 1
  BY DEF Bounds, TypeOK
<1>9. \A j, k \in oldest .. End : j < k => begins[j] < begins[k]
  BY <1>4, <1>5
<1> QED BY <1>1, <1>2, <1>3, <1>4, <1>6, <1>7, <1>8, <1>9

\* The boundaries in the array are different indices, and the newest clause is
\* followed by the first free cell.
LEMMA Boundaries ==
  ASSUME Placed
  PROVE  /\ \A j, k \in oldest .. End : Before(j) = Before(k) => j = k
         /\ \A k \in oldest .. End :
              /\ Before(k) \in 0 .. Maxsize - 1
              /\ NextIndex(Before(k)) = first <=> k = End
              /\ ~ Behind(Before(k))
<1> USE Places
<1> USE DEF Before
<1>1. ASSUME NEW j \in oldest .. End, NEW k \in oldest .. End, j < k
      PROVE  Before(j) # Before(k)
  <2>1. begins[j] < begins[k] /\ begins[k] - begins[j] < Maxsize /\ begins[j] \in Int /\ begins[k] \in Int
    BY <1>1
  <2> HIDE Places
  <2> QED BY <2>1, Injective
<1>2. \A j, k \in oldest .. End : Before(j) = Before(k) => j = k
  BY <1>1
<1>3. ASSUME NEW k \in oldest .. End
      PROVE  /\ Before(k) \in 0 .. Maxsize - 1
             /\ NextIndex(Before(k)) = first <=> k = End
             /\ ~ Behind(Before(k))
  <2> DEFINE d == begins[k] - begins[oldest]
  <2>1. begins[k] \in Int /\ begins[oldest] \in Int /\ begins[End] \in Int
    BY <1>3
  <2>2. d \in 0 .. queuesize /\ queuesize - d = begins[End] - begins[k] /\ queuesize + 1 \in 0 .. Maxsize
    BY <1>3
  <2>3. Before(k) \in 0 .. Maxsize - 1 /\ last \in 0 .. Maxsize - 1 /\ last = Index(begins[oldest])
    BY <2>1, IndexRange DEF Bounds, Placed
  <2>4. begins[k] = begins[oldest] + d
    BY <2>1
  <2>5. begins[End] + 1 = begins[oldest] + (queuesize + 1)
    BY <2>1, <2>2
  <2> HIDE DEF d
  <2>6. Before(k) = AddIndex(last, d)
    <3>1. d \in 0 .. Maxsize
      BY <2>2
    <3>2. Index(begins[oldest] + d) = AddIndex(Index(begins[oldest]), d)
      BY <2>1, <3>1, IndexStep
    <3> QED BY <2>3, <2>4, <3>2
  <2>7. first = AddIndex(last, queuesize + 1)
    BY <2>1, <2>2, <2>3, <2>5, IndexStep DEF Bounds, Placed
  <2>8. k = End <=> d = queuesize
    BY <1>3, <2>2, <2>1, <2>4
  <2> HIDE DEF Before
  <2> HIDE Places
  <2>9. Maxsize \in Nat \ {0} /\ queuesize \in 0 .. Maxsize - 1
    BY Places
  <2>10. NextIndex(Before(k)) = first <=> d = queuesize
    BY <2>2, <2>3, <2>6, <2>7, <2>9 DEF NextIndex, AddIndex
  <2>11. ~ Behind(Before(k))
    BY <2>2, <2>3, <2>6, <2>7, <2>9 DEF Behind, AddIndex
  <2> QED BY <2>3, <2>8, <2>10, <2>11
<1> HIDE DEF Before
<1> QED BY <1>2, <1>3

\* The cells of a clause, found as the code finds them from the index before it.
LEMMA Cells ==
  ASSUME Placed, NEW k \in oldest .. newest
  PROVE  /\ NextIndex(Before(k)) = Index(begins[k] + 1)
         /\ \A a \in 0 .. Maxsize : AddIndex(Before(k), a) = Index(begins[k] + a)
         /\ AddIndex(Before(k), SizeOf(k) + HeaderSize) = Before(k + 1)
<1>1. begins[k] \in Int /\ Maxsize \in Nat \ {0} /\ HeaderSize = 3
  BY Places
<1>2. Before(k) \in 0 .. Maxsize - 1
  BY <1>1, IndexRange DEF Before
<1>3. \A a \in 0 .. Maxsize : AddIndex(Before(k), a) = Index(begins[k] + a)
  BY <1>1, IndexStep DEF Before
<1>4. NextIndex(Before(k)) = Index(begins[k] + 1)
  BY <1>1, <1>2, <1>3, NextIsAdd
<1>5. SizeOf(k) + 3 \in 0 .. Maxsize /\ begins[k + 1] = begins[k] + (SizeOf(k) + 3)
  BY Places
<1>6. AddIndex(Before(k), SizeOf(k) + HeaderSize) = Before(k + 1)
  BY <1>1, <1>3, <1>5 DEF Before
<1> QED BY <1>3, <1>4, <1>6

\* What is read in a header.
LEMMA Headers ==
  ASSUME Placed, NEW el, Layout(el), NEW k \in oldest .. newest
  PROVE  /\ SizeAfter(el, Before(k)) = SizeOf(k)
         /\ OriginAfter(el, Before(k)) = log[k].origin
         /\ UnreadAfter(el, Before(k)) = el[Index(begins[k] + 2)]
         /\ ClauseEnd(el, Before(k)) = Before(k + 1)
<1>1. 1 \in 0 .. Maxsize /\ 2 \in 0 .. Maxsize /\ 3 \in 0 .. Maxsize
  BY Places
<1>2. SizeAfter(el, Before(k)) = SizeOf(k)
  BY Cells DEF Layout, SizeAfter
<1>3. OriginAfter(el, Before(k)) = log[k].origin
  BY <1>1, Cells DEF Layout, OriginAfter
<1>4. UnreadAfter(el, Before(k)) = el[Index(begins[k] + 2)]
  BY <1>1, Cells DEF UnreadAfter
<1> QED BY <1>2, <1>3, <1>4, Cells DEF ClauseEnd

-----------------------------------------------------------------------------
(* The removal of the oldest clause.                                       *)

\* The clause whose beginning a cursor that was before clause k is at when the
\* oldest clause has been removed.
Followed(k) == IF k = oldest THEN oldest + 1 ELSE k

LEMMA RemovalMoves ==
  ASSUME Placed, Layout(elems'), Cursors, oldest \in 1 .. newest,
         RemoveOldest(elems'), UNCHANGED <<first, log, begins>>
  PROVE  /\ Entries' /\ Bounds' /\ Layout(elems)' /\ Cursors'
         /\ oldest' = oldest + 1 /\ last' = Before(oldest + 1)
         /\ last' \in 0 .. Maxsize - 1 /\ queuesize' \in 0 .. Maxsize - 1
         /\ lastOfThread' \in [Threads -> 0 .. Maxsize - 1] /\ lost' \subseteq Threads
         /\ \A t \in Threads : \A k \in oldest .. End :
              lastOfThread[t] = Before(k) => lastOfThread'[t] = Before(Followed(k))
<1>1. oldest \in oldest .. newest /\ oldest \in oldest .. End /\ oldest + 1 \in oldest .. End
  BY Places
<1>2. last = Before(oldest)
  BY DEF Placed, Bounds
<1>3. /\ SizeAfter(elems', last) = SizeOf(oldest)
      /\ ClauseEnd(elems', last) = Before(oldest + 1)
  BY <1>1, <1>2, Headers
<1>4. newest' = newest /\ End' = End /\ (\A k : Before(k)' = Before(k)) /\ (\A k : SizeOf(k)' = SizeOf(k))
  BY DEF newest, End, Before, SizeOf
<1>5. oldest' = oldest + 1 /\ last' = Before(oldest + 1)
      /\ lastOfThread' = FollowedCursors(Before(oldest + 1))
  BY <1>3 DEF RemoveOldest
<1>6. queuesize' = queuesize - (SizeOf(oldest) + HeaderSize)
  BY <1>3 DEF RemoveOldest
<1>7. oldest' \in 1 .. End' /\ newest \in Nat
  BY <1>1, <1>4, <1>5, Places
<1>8. Entries'
  BY <1>4, <1>7 DEF Placed, Entries, newest
<1>9. queuesize' = begins[End] - begins[oldest + 1] /\ queuesize' \in 0 .. Maxsize - 1
  BY <1>1, <1>6, Places
<1>10. first = Index(begins[End] + 1)
  BY DEF Placed, Bounds
<1>11. Bounds'
  BY <1>4, <1>5, <1>9, <1>10 DEF Bounds
<1>12. Layout(elems)'
  BY <1>4, <1>5, <1>7 DEF Layout
<1>13. Before(oldest + 1) \in 0 .. Maxsize - 1
  BY <1>1, Boundaries
<1>14. lastOfThread \in [Threads -> 0 .. Maxsize - 1]
  BY DEF Placed, TypeOK
<1>15. lastOfThread' \in [Threads -> 0 .. Maxsize - 1]
  BY <1>5, <1>13, <1>14 DEF FollowedCursors
<1>16. ASSUME NEW t \in Threads, NEW k \in oldest .. End, lastOfThread[t] = Before(k)
       PROVE  lastOfThread'[t] = Before(Followed(k))
  <2>1. k = oldest <=> lastOfThread[t] = last
    BY <1>1, <1>2, <1>16, Boundaries
  <2> QED BY <2>1, <1>5, <1>16 DEF FollowedCursors, Followed
<1>17. Cursors'
  <2> SUFFICES ASSUME NEW t \in Threads PROVE \E k \in oldest' .. End : lastOfThread'[t] = Before(k)
    BY <1>4 DEF Cursors
  <2>1. PICK k \in oldest .. End : lastOfThread[t] = Before(k)
    BY DEF Cursors
  <2>2. lastOfThread'[t] = Before(Followed(k))
    BY <1>16, <2>1
  <2>3. Followed(k) \in oldest' .. End
    BY <1>1, <1>5, Places DEF Followed
  <2> QED BY <2>2, <2>3
<1>18. lost' \subseteq Threads
  BY DEF RemoveOldest, Losers, Placed, TypeOK
<1> QED BY <1>5, <1>8, <1>9, <1>11, <1>12, <1>13, <1>15, <1>16, <1>17, <1>18

\* The same threads wait for the other clauses.
LEMMA RemovalWaits ==
  ASSUME Placed, Cursors, oldest \in 1 .. newest,
         UNCHANGED <<log, begins>>, oldest' = oldest + 1,
         \A t \in Threads : \A k \in oldest .. End :
           lastOfThread[t] = Before(k) => lastOfThread'[t] = Before(Followed(k))
  PROVE  \A k \in oldest' .. newest : Waiting(k)' = Waiting(k)
<1> SUFFICES ASSUME NEW k \in oldest + 1 .. newest PROVE Waiting(k)' = Waiting(k)
  OBVIOUS
<1>1. \A j : Before(j)' = Before(j)
  BY DEF Before
<1>2. ASSUME NEW t \in Threads
      PROVE  lastOfThread'[t] \in {Before(j) : j \in oldest + 1 .. k}
             <=> lastOfThread[t] \in {Before(j) : j \in oldest .. k}
  <2>1. PICK m \in oldest .. End : lastOfThread[t] = Before(m)
    BY DEF Cursors
  <2>2. lastOfThread'[t] = Before(Followed(m)) /\ Followed(m) \in oldest .. End
    BY <2>1, Places DEF Followed
  <2>3. oldest .. k \subseteq oldest .. End
    BY Places
  <2>4. lastOfThread[t] \in {Before(j) : j \in oldest .. k} <=> m \in oldest .. k
    BY <2>1, <2>3, Boundaries
  <2>5. lastOfThread'[t] \in {Before(j) : j \in oldest + 1 .. k} <=> Followed(m) \in oldest + 1 .. k
    <3>1. oldest + 1 .. k \subseteq oldest .. End
      BY Places
    <3> QED BY <2>2, <3>1, Boundaries
  <2>6. m \in oldest .. k <=> Followed(m) \in oldest + 1 .. k
    BY Places DEF Followed
  <2> QED BY <2>4, <2>5, <2>6
<1> QED BY <1>1, <1>2 DEF Waiting

\* Nobody is carried past a clause it has still to read, unless clauses may be
\* dropped.
LEMMA RemovalDelivers ==
  ASSUME Placed, Cursors, Delivered, oldest \in 1 .. newest,
         UNCHANGED <<log, begins, whenFullRemoveOlder>>, oldest' = oldest + 1,
         \A t \in Threads : \A k \in oldest .. End :
           lastOfThread[t] = Before(k) => lastOfThread'[t] = Before(Followed(k)),
         NEW t \in Threads, received'[t] = received[t],
         whenFullRemoveOlder \/ (lastOfThread[t] = last => log[oldest].origin = t)
  PROVE  DeliveredTo(t)'
<1>1. (\A j : Before(j)' = Before(j)) /\ newest' = newest /\ End' = End /\ Newest(t)' = Newest(t)
  BY DEF Before, newest, End, Newest, NumberOf
<1> SUFFICES ASSUME NEW k \in oldest + 1 .. End, lastOfThread'[t] = Before(k)
             PROVE  /\ Newest(t) < k
                    /\ whenFullRemoveOlder \/ \A j \in Newest(t) + 1 .. k - 1 : log[j].origin = t
  BY <1>1 DEF DeliveredTo, Delivered
<1>2. PICK m \in oldest .. End : lastOfThread[t] = Before(m)
  BY DEF Cursors
<1>3. Followed(m) \in oldest .. End /\ k \in oldest .. End
  BY Places DEF Followed
<1>4. k = Followed(m)
  BY <1>2, <1>3, Boundaries
<1>5. /\ Newest(t) \in 0 .. newest /\ Newest(t) < m
      /\ whenFullRemoveOlder \/ \A j \in Newest(t) + 1 .. m - 1 : log[j].origin = t
  BY <1>2 DEF Delivered, DeliveredTo
<1>6. m = oldest => lastOfThread[t] = last
  BY <1>2 DEF Placed, Bounds
<1>7. oldest \in Nat /\ newest \in Nat
  BY Places
<1>8. Newest(t) < k
  BY <1>4, <1>5, <1>7 DEF Followed
<1>9. ASSUME ~ whenFullRemoveOlder, NEW j \in Newest(t) + 1 .. k - 1
      PROVE  log[j].origin = t
  <2>1. j \in Newest(t) + 1 .. m - 1 \/ (m = oldest /\ j = oldest)
    BY <1>4, <1>5, <1>7 DEF Followed
  <2> QED BY <2>1, <1>5, <1>6, <1>9
<1> QED BY <1>8, <1>9

LEMMA RemovalCounts ==
  ASSUME Placed, Layout(elems'), Cursors, oldest \in 1 .. newest,
         RemoveOldest(elems'), UNCHANGED <<first, log, begins>>,
         NbThreads > 1 => \A k \in oldest + 1 .. newest :
           elems'[Index(begins[k] + 2)] = Cardinality(Waiting(k))
  PROVE  Counters(elems)'
<1>1. oldest' = oldest + 1
      /\ \A t \in Threads : \A k \in oldest .. End :
           lastOfThread[t] = Before(k) => lastOfThread'[t] = Before(Followed(k))
  BY RemovalMoves
<1>2. \A k \in oldest' .. newest : Waiting(k)' = Waiting(k)
  BY <1>1, RemovalWaits
<1>3. newest' = newest
  BY DEF newest
<1> QED BY <1>1, <1>2, <1>3 DEF Counters

LEMMA WaitingIsFinite == \A k : IsFiniteSet(Waiting(k))
<1> TAKE k
<1>1. IsFiniteSet(Threads)
  BY FS_Interval, BufferAssumption DEF Threads
<1>2. Waiting(k) \in SUBSET Threads
  BY DEF Waiting
<1> QED BY <1>1, <1>2, FS_Subset

\* When nobody waits for the oldest clause, only its author can be before it.
LEMMA NobodyWaits ==
  ASSUME Placed, oldest \in 1 .. newest, Cardinality(Waiting(oldest)) = 0,
         NEW t \in Threads, lastOfThread[t] = last
  PROVE  log[oldest].origin = t
<1>1. Waiting(oldest) = {}
  BY WaitingIsFinite, FS_EmptySet
<1>2. lastOfThread[t] \in {Before(j) : j \in oldest .. oldest}
  BY Places DEF Placed, Bounds
<1> QED BY <1>1, <1>2 DEF Waiting

-----------------------------------------------------------------------------
(* Every action preserves the invariant.                                   *)

\* What actions that leave the histories alone keep.
LEMMA HandedOverKept == HandedOverWhole /\ UNCHANGED <<log, received>> => HandedOverWhole'
BY DEF HandedOverWhole, NumberOf

\* The oldest clause exists when there is one in the array.
LEMMA SomeClause ==
  ASSUME Placed, queuesize > 0
  PROVE  oldest \in 1 .. newest
<1>1. oldest # End
  BY Places
<1> QED BY <1>1, Places

LEMMA RemoveNextKeeps == Inv /\ RemoveNext => Inv'
<1> SUFFICES ASSUME Inv, RemoveNext PROVE Inv'
  OBVIOUS
<1> USE DEF Inv
<1>1. Placed
  BY DEF Placed
<1>2. oldest \in 1 .. newest
  BY <1>1, SomeClause DEF RemoveNext, NextIsRead
<1>3. UNCHANGED <<elems, first, callVars, historyVars, whenFullRemoveOlder>> /\ RemoveOldest(elems')
  BY DEF RemoveNext
<1>4. UNCHANGED <<elems, first, pc, caller, csize, thislast, log, received, begins, whenFullRemoveOlder>>
  BY <1>3 DEF callVars, historyVars
<1>5. Layout(elems')
  BY <1>4
<1>6. /\ Entries' /\ Bounds' /\ Layout(elems)' /\ Cursors'
      /\ oldest' = oldest + 1 /\ last' = Before(oldest + 1)
      /\ last' \in 0 .. Maxsize - 1 /\ queuesize' \in 0 .. Maxsize - 1
      /\ lastOfThread' \in [Threads -> 0 .. Maxsize - 1] /\ lost' \subseteq Threads
      /\ \A t \in Threads : \A k \in oldest .. End :
           lastOfThread[t] = Before(k) => lastOfThread'[t] = Before(Followed(k))
  BY <1>1, <1>2, <1>3, <1>4, <1>5, RemovalMoves
<1>7. TypeOK'
  BY <1>4, <1>6 DEF TypeOK
<1>8. Counters(elems)'
  <2>1. NbThreads > 1 => \A k \in oldest + 1 .. newest :
          elems'[Index(begins[k] + 2)] = Cardinality(Waiting(k))
    BY <1>2, <1>4, Places DEF Counters
  <2> QED BY <2>1, <1>1, <1>2, <1>3, <1>4, <1>5, RemovalCounts
<1>9. Calls'
  <2>1. pc = "getRemoves" => lastOfThread'[caller] = last'
    <3>1. oldest \in oldest .. End /\ last = Before(oldest) /\ caller \in Threads
      BY <1>1, Places DEF Bounds, TypeOK
    <3> QED BY <3>1, <1>6 DEF Calls, Followed
  <2>2. newest' = newest
    BY <1>4 DEF newest
  <2> QED BY <2>1, <2>2, <1>4 DEF Calls, RemoveNext, Fits
<1>10. \A t \in Threads : whenFullRemoveOlder \/ (lastOfThread[t] = last => log[oldest].origin = t)
  <2> SUFFICES ASSUME ~ whenFullRemoveOlder, NEW t \in Threads, lastOfThread[t] = last
               PROVE  log[oldest].origin = t
    OBVIOUS
  <2>1. pc = "getRemoves" /\ NbThreads > 1
    BY DEF RemoveNext, Calls
  <2>2. oldest \in oldest .. newest /\ last = Before(oldest)
    BY <1>1, <1>2, Places DEF Bounds
  <2>3. elems[Index(begins[oldest] + 2)] = 0
    BY <1>1, <2>2, Headers DEF RemoveNext, NextIsRead
  <2>4. Cardinality(Waiting(oldest)) = 0
    BY <2>1, <2>2, <2>3 DEF Counters
  <2> QED BY <1>1, <1>2, <2>4, NobodyWaits
<1>11. \A t \in Threads : DeliveredTo(t)'
  BY <1>1, <1>2, <1>4, <1>6, <1>10, RemovalDelivers
<1>12. Delivered'
  BY <1>4, <1>11 DEF Delivered
<1>13. HandedOverWhole'
  BY <1>4, HandedOverKept
<1> QED BY <1>6, <1>7, <1>8, <1>9, <1>12, <1>13

LEMMA MakeRoomKeeps == Inv /\ MakeRoom => Inv'
<1> SUFFICES ASSUME Inv, MakeRoom PROVE Inv'
  OBVIOUS
<1> USE DEF Inv
<1>1. Placed
  BY DEF Placed
<1>2. pc = "push" /\ pc' = "pushRemoves" /\ csize \in Sizes /\ newest < MaxPushes /\ whenFullRemoveOlder
  BY DEF MakeRoom, Calls
<1>3. oldest \in 1 .. newest
  <2>1. queuesize \in Nat /\ queuesize + csize + HeaderSize >= Maxsize
    BY <1>2, BufferAssumption DEF MakeRoom, Fits, TypeOK, HeaderSize
  <2>2. queuesize > 0
    BY <1>2, <2>1, BufferAssumption DEF HeaderSize
  <2> QED BY <1>1, <2>2, SomeClause
<1>4. UNCHANGED <<elems, first, caller, csize, thislast, log, received, begins, whenFullRemoveOlder>>
      /\ RemoveOldest(elems')
  BY DEF MakeRoom, historyVars
<1>5. Layout(elems')
  BY <1>4
<1>6. /\ Entries' /\ Bounds' /\ Layout(elems)' /\ Cursors'
      /\ oldest' = oldest + 1 /\ last' = Before(oldest + 1)
      /\ last' \in 0 .. Maxsize - 1 /\ queuesize' \in 0 .. Maxsize - 1
      /\ lastOfThread' \in [Threads -> 0 .. Maxsize - 1] /\ lost' \subseteq Threads
      /\ \A t \in Threads : \A k \in oldest .. End :
           lastOfThread[t] = Before(k) => lastOfThread'[t] = Before(Followed(k))
  BY <1>1, <1>3, <1>4, <1>5, RemovalMoves
<1>7. TypeOK'
  BY <1>2, <1>4, <1>6 DEF TypeOK
<1>8. Counters(elems)'
  <2>1. NbThreads > 1 => \A k \in oldest + 1 .. newest :
          elems'[Index(begins[k] + 2)] = Cardinality(Waiting(k))
    BY <1>3, <1>4, Places DEF Counters
  <2> QED BY <2>1, <1>1, <1>3, <1>4, <1>5, RemovalCounts
<1>9. Calls'
  <2>1. newest' = newest
    BY <1>4 DEF newest
  <2> QED BY <2>1, <1>2, <1>4 DEF Calls
<1>10. Delivered'
  BY <1>1, <1>2, <1>3, <1>4, <1>6, RemovalDelivers DEF Delivered
<1>11. HandedOverWhole'
  BY <1>4, HandedOverKept
<1> QED BY <1>6, <1>7, <1>8, <1>9, <1>10, <1>11

\* Entering and waiting change nothing the threads share.
LEMMA StillKeeps ==
  ASSUME Inv, UNCHANGED <<arrayVars, historyVars, whenFullRemoveOlder>>
  PROVE  /\ Entries' /\ Bounds' /\ Layout(elems)' /\ Cursors' /\ Counters(elems)'
         /\ Delivered' /\ HandedOverWhole'
         /\ newest' = newest /\ End' = End /\ (\A k : Before(k)' = Before(k))
         /\ UNCHANGED <<elems, first, last, queuesize, lastOfThread, oldest, lost,
                        log, received, begins, whenFullRemoveOlder>>
<1> USE DEF Inv
<1>1. UNCHANGED <<elems, first, last, queuesize, lastOfThread, oldest, lost,
                  log, received, begins, whenFullRemoveOlder>>
  BY DEF arrayVars, historyVars
<1>2. newest' = newest /\ End' = End /\ (\A k : Before(k)' = Before(k)) /\ (\A k : SizeOf(k)' = SizeOf(k))
  BY <1>1 DEF newest, End, Before, SizeOf
<1>3. Entries'
  BY <1>1, <1>2 DEF Entries
<1>4. Bounds'
  BY <1>1, <1>2 DEF Bounds
<1>5. Layout(elems)'
  BY <1>1, <1>2 DEF Layout
<1>6. Cursors'
  BY <1>1, <1>2 DEF Cursors
<1>7. \A k : Waiting(k)' = Waiting(k)
  BY <1>1, <1>2 DEF Waiting
<1>8. Counters(elems)'
  BY <1>1, <1>2, <1>7 DEF Counters
<1>9. \A t : Newest(t)' = Newest(t)
  BY <1>1 DEF Newest, NumberOf
<1>10. Delivered'
  BY <1>1, <1>2, <1>9 DEF Delivered, DeliveredTo
<1>11. HandedOverWhole'
  BY <1>1, HandedOverKept
<1> QED BY <1>1, <1>2, <1>3, <1>4, <1>5, <1>6, <1>8, <1>10, <1>11

LEMMA EnterPushKeeps ==
  ASSUME Inv, NEW t \in Threads, NEW size \in Sizes, EnterPush(t, size)
  PROVE  Inv'
<1> USE DEF EnterPush, Enter
<1>1. UNCHANGED <<arrayVars, historyVars, whenFullRemoveOlder>>
  OBVIOUS
<1>2. TypeOK'
  <2>1. UNCHANGED <<elems, first, last, queuesize, lastOfThread, lost, whenFullRemoveOlder>>
    BY DEF arrayVars
  <2>2. TypeOK /\ 0 \in 0 .. Maxsize - 1
    BY BufferAssumption DEF Inv
  <2> QED BY <2>1, <2>2 DEF TypeOK
<1>3. newest < MaxPushes
  BY DEF newest
<1>4. Calls'
  BY <1>1, <1>3, StillKeeps DEF Calls, Fits
<1> QED BY <1>1, <1>2, <1>4, StillKeeps DEF Inv

LEMMA RoomMadeKeeps == Inv /\ RoomMade => Inv'
<1> SUFFICES ASSUME Inv, RoomMade PROVE Inv'
  OBVIOUS
<1> USE DEF RoomMade
<1>1. UNCHANGED <<arrayVars, historyVars, whenFullRemoveOlder>>
  OBVIOUS
<1>2. TypeOK'
  BY <1>1, StillKeeps DEF Inv, TypeOK
<1>3. Calls'
  BY <1>1, StillKeeps DEF Inv, Calls
<1> QED BY <1>1, <1>2, <1>3, StillKeeps DEF Inv

\* A cursor is never behind the array, so getClause starts where it left off.
LEMMA EnterGetKeeps ==
  ASSUME Inv, NEW t \in Threads, EnterGet(t)
  PROVE  Inv'
<1> USE DEF EnterGet, Enter
<1>1. UNCHANGED <<arrayVars, historyVars, whenFullRemoveOlder>>
  OBVIOUS
<1>2. Placed
  BY DEF Inv, Placed
<1>3. PICK k \in oldest .. End : lastOfThread[t] = Before(k)
  BY DEF Inv, Cursors
<1>4. thislast' = Before(k) /\ Before(k) \in 0 .. Maxsize - 1
  BY <1>2, <1>3, Boundaries
<1>5. TypeOK'
  BY <1>1, <1>4, StillKeeps DEF Inv, TypeOK
<1>6. k \in k .. End /\ \A j \in k .. k - 1 : log[j].origin = t
  BY <1>2, <1>3, Places
<1>7. Calls'
  <2>1. pc' = "get" /\ caller' = t
    OBVIOUS
  <2>2. lastOfThread'[caller'] = Before(k)' /\ thislast' = Before(k)' /\ k \in oldest' .. End'
    BY <1>1, <1>3, <1>4, <2>1, StillKeeps
  <2>3. k \in k .. End' /\ \A j \in k .. k - 1 : log'[j].origin = caller'
    BY <1>1, <1>6, <2>1, StillKeeps
  <2> QED BY <2>1, <2>2, <2>3 DEF Calls
<1> QED BY <1>1, <1>5, <1>7, StillKeeps DEF Inv

\* Inside getClause only the thread's own clauses are between its cursor, before
\* clause k, and thislast, before clause m.
Reading(k, m) ==
  /\ k \in oldest .. End /\ m \in k .. End
  /\ lastOfThread[caller] = Before(k) /\ thislast = Before(m)
  /\ \A j \in k .. m - 1 : log[j].origin = caller

LEMMA InsideGet ==
  ASSUME Inv, pc = "get"
  PROVE  \E k \in oldest .. End : \E m \in oldest .. End : Reading(k, m)
<1>1. Placed
  BY DEF Inv, Placed
<1>2. PICK k \in oldest .. End : \E m \in k .. End : Reading(k, m)
  BY DEF Inv, Calls, Reading
<1>3. PICK m \in k .. End : Reading(k, m)
  BY <1>2
<1>4. m \in oldest .. End
  BY <1>1, <1>3, Places
<1> QED BY <1>3, <1>4

LEMMA ReadingEnds ==
  ASSUME Inv, NEW k \in oldest .. End, NEW m \in oldest .. End, Reading(k, m)
  PROVE  /\ AtEnd(thislast) <=> m = End
         /\ ~ AtEnd(thislast) => m \in oldest .. newest
<1>1. Placed
  BY DEF Inv, Placed
<1>2. AtEnd(thislast) <=> m = End
  BY <1>1, Boundaries DEF AtEnd, Reading
<1>3. m # End => m \in oldest .. newest
  BY <1>1, Places
<1> QED BY <1>2, <1>3

LEMMA SkipOwnKeeps == Inv /\ SkipOwn => Inv'
<1> SUFFICES ASSUME Inv, SkipOwn PROVE Inv'
  OBVIOUS
<1> USE DEF SkipOwn
<1>1. UNCHANGED <<arrayVars, historyVars, whenFullRemoveOlder, pc, caller, csize>>
  OBVIOUS
<1>2. Placed
  BY DEF Inv, Placed
<1>3. PICK k \in oldest .. End : \E n \in oldest .. End : Reading(k, n)
  BY InsideGet
<1>4. PICK m \in oldest .. End : Reading(k, m)
  BY <1>3
<1>5. m \in oldest .. newest
  BY <1>4, ReadingEnds
<1>6. log[m].origin = caller /\ thislast' = Before(m + 1)
  BY <1>2, <1>4, <1>5, Headers DEF Own, Inv, Reading
<1>7. m + 1 \in k .. End /\ m + 1 \in oldest .. End /\ \A j \in k .. (m + 1) - 1 : log[j].origin = caller
  <2>1. oldest \in Nat /\ newest \in Nat /\ End = newest + 1 /\ m \in oldest .. newest
    BY <1>2, <1>5, Places
  <2>2. k \in Int /\ m \in k .. End /\ \A j \in k .. m - 1 : log[j].origin = caller
    BY <1>4 DEF Reading
  <2>3. \A j \in k .. (m + 1) - 1 : j \in k .. m - 1 \/ j = m
    BY <2>1, <2>2
  <2> QED BY <2>1, <2>2, <2>3, <1>6
<1>8. Before(m + 1) \in 0 .. Maxsize - 1
  BY <1>2, <1>7, Boundaries
<1>9. TypeOK'
  BY <1>1, <1>6, <1>8, StillKeeps DEF Inv, TypeOK
<1>10. Calls'
  <2>1. lastOfThread'[caller'] = Before(k)' /\ thislast' = Before(m + 1)' /\ k \in oldest' .. End'
    BY <1>1, <1>4, <1>6, StillKeeps DEF Reading
  <2>2. m + 1 \in k .. End' /\ \A j \in k .. (m + 1) - 1 : log'[j].origin = caller'
    BY <1>1, <1>7, StillKeeps
  <2> QED BY <2>1, <2>2 DEF Calls
<1> QED BY <1>1, <1>9, <1>10, StillKeeps DEF Inv

LEMMA GotClauseKeeps == Inv /\ GotClause => Inv'
<1> SUFFICES ASSUME Inv, GotClause PROVE Inv'
  OBVIOUS
<1> USE DEF GotClause, Return
<1>1. lastOfThread[caller] = last
  BY DEF Inv, Calls
<1>2. lastOfThread' = lastOfThread
  BY <1>1 DEF Inv, TypeOK
<1>3. UNCHANGED <<arrayVars, historyVars, whenFullRemoveOlder>>
  BY <1>2 DEF arrayVars
<1>4. TypeOK'
  BY <1>3, StillKeeps, BufferAssumption DEF Inv, TypeOK, Threads
<1>5. Calls'
  BY DEF Calls
<1> QED BY <1>3, <1>4, <1>5, StillKeeps DEF Inv

\* No two cells of the clauses in the array are the same.
LEMMA CellsApart ==
  ASSUME Placed, NEW j \in oldest .. newest, NEW k \in oldest .. newest,
         NEW a \in 1 .. SizeOf(j) + 3, NEW b \in 1 .. SizeOf(k) + 3,
         Index(begins[j] + a) = Index(begins[k] + b)
  PROVE  j = k /\ a = b
<1>1. /\ Maxsize \in Nat \ {0} /\ queuesize \in 0 .. Maxsize - 1
      /\ begins[oldest] \in Nat /\ begins[End] \in Nat /\ begins[End] - begins[oldest] = queuesize
      /\ oldest \in Nat /\ newest \in Nat /\ End = newest + 1 /\ oldest \in 1 .. End
  BY Places
<1>2. \A i \in oldest .. newest :
        /\ i + 1 \in oldest .. End /\ i \in oldest .. End
        /\ SizeOf(i) \in Nat /\ begins[i] \in Nat
        /\ begins[i + 1] = begins[i] + SizeOf(i) + 3
        /\ begins[oldest] <= begins[i] /\ begins[i + 1] <= begins[End]
  BY Places
<1>3. \A h, i \in oldest .. End : h < i => begins[h] < begins[i]
  BY Places
<1>4. \A i \in oldest .. End : begins[i] \in Nat
  BY Places
<1>5. /\ begins[j] \in Nat /\ begins[k] \in Nat /\ SizeOf(j) \in Nat /\ SizeOf(k) \in Nat
      /\ a \in Nat /\ b \in Nat
  BY <1>2
<1>6. /\ begins[oldest] < begins[j] + a /\ begins[j] + a <= begins[End]
      /\ begins[oldest] < begins[k] + b /\ begins[k] + b <= begins[End]
  BY <1>1, <1>2, <1>5
<1>7. begins[j] + a = begins[k] + b
  <2>1. CASE begins[j] + a <= begins[k] + b
    BY <2>1, <1>1, <1>5, <1>6, Injective
  <2>2. CASE begins[k] + b <= begins[j] + a
    BY <2>2, <1>1, <1>5, <1>6, Injective
  <2> QED BY <1>5, <2>1, <2>2
<1>8. ASSUME NEW h \in oldest .. newest, NEW i \in oldest .. newest, h < i,
             NEW c \in 1 .. SizeOf(h) + 3, NEW d \in 1 .. SizeOf(i) + 3
      PROVE  begins[h] + c # begins[i] + d
  <2>1. h + 1 = i \/ h + 1 < i
    BY <1>1, <1>8
  <2>2. begins[h + 1] <= begins[i]
    BY <1>2, <1>3, <1>4, <2>1
  <2> QED BY <1>2, <1>8, <2>2
<1>9. j = k
  BY <1>1, <1>7, <1>8
<1> QED BY <1>5, <1>7, <1>9

\* A thread whose cursor moves from clause k to clause n waits no more for the
\* clauses in between.
LEMMA MoveWaits ==
  ASSUME Placed, NEW t \in Threads, NEW k \in oldest .. End, NEW n \in oldest .. End,
         k <= n, lastOfThread[t] = Before(k), UNCHANGED <<log, begins, oldest>>,
         lastOfThread' = [lastOfThread EXCEPT ![t] = Before(n)]
  PROVE  \A j \in oldest .. newest :
           Waiting(j)' = IF j \in k .. n - 1 THEN Waiting(j) \ {t} ELSE Waiting(j)
<1> TAKE j \in oldest .. newest
<1>1. \A i : Before(i)' = Before(i)
  BY DEF Before
<1>2. oldest .. j \subseteq oldest .. End /\ j \in Int /\ k \in Int /\ n \in Int /\ oldest \in Int
  BY Places
<1>3. lastOfThread[t] \in {Before(i) : i \in oldest .. j} <=> k <= j
  BY <1>2, Boundaries
<1>4. lastOfThread'[t] = Before(n)
  BY DEF Placed, TypeOK
<1>5. lastOfThread'[t] \in {Before(i) : i \in oldest .. j} <=> n <= j
  BY <1>2, <1>4, Boundaries
<1>6. \A u \in Threads \ {t} : lastOfThread'[u] = lastOfThread[u]
  BY DEF Placed, TypeOK
<1>7. j \in k .. n - 1 <=> k <= j /\ ~ n <= j
  BY <1>2
<1>8. n <= j => k <= j
  BY <1>2
<1> QED BY <1>1, <1>3, <1>5, <1>6, <1>7, <1>8 DEF Waiting

\* The move is no concern of the other threads.
LEMMA MoveDelivers ==
  ASSUME Placed, Delivered, NEW t \in Threads, NEW n,
         UNCHANGED <<log, begins, oldest, whenFullRemoveOlder>>,
         lastOfThread' = [lastOfThread EXCEPT ![t] = n],
         NEW u \in Threads \ {t}, received'[u] = received[u]
  PROVE  DeliveredTo(u)'
<1>1. lastOfThread'[u] = lastOfThread[u]
  BY DEF Placed, TypeOK
<1>2. newest' = newest /\ End' = End /\ (\A i : Before(i)' = Before(i)) /\ Newest(u)' = Newest(u)
  BY DEF newest, End, Before, Newest, NumberOf
<1> QED BY <1>1, <1>2 DEF Delivered, DeliveredTo

\* The cursor of getClause when there is nothing but the thread's own clauses.
LEMMA GetNothingKeeps == Inv /\ GetNothing => Inv'
<1> SUFFICES ASSUME Inv, GetNothing PROVE Inv'
  OBVIOUS
<1> USE DEF GetNothing, Return
<1>1. UNCHANGED <<elems, first, last, queuesize, oldest, lost, log, received, begins, whenFullRemoveOlder>>
  BY DEF historyVars
<1>2. Placed
  BY DEF Inv, Placed
<1>3. PICK k \in oldest .. End : \E n \in oldest .. End : Reading(k, n)
  BY InsideGet
<1>4. PICK m \in oldest .. End : Reading(k, m)
  BY <1>3
<1>5. m = End
  BY <1>4, ReadingEnds
<1>6. k <= End /\ End \in oldest .. End /\ k \in Int /\ End \in Int
  BY <1>2, Places
<1>7. PICK t \in Threads : t = caller
  BY DEF Inv, TypeOK
<1>8. lastOfThread' = [lastOfThread EXCEPT ![t] = Before(End)] /\ lastOfThread[t] = Before(k)
  BY <1>4, <1>5, <1>7 DEF Reading
<1>9. \A j \in k .. End - 1 : log[j].origin = t
  BY <1>4, <1>5, <1>7 DEF Reading
<1>10. newest' = newest /\ End' = End /\ (\A i : Before(i)' = Before(i)) /\ (\A i : SizeOf(i)' = SizeOf(i))
       /\ Newest(t)' = Newest(t)
  BY <1>1 DEF newest, End, Before, SizeOf, Newest, NumberOf
<1>11. Entries'
  BY <1>1, <1>10 DEF Inv, Entries
<1>12. Bounds' /\ Layout(elems)'
  BY <1>1, <1>10 DEF Inv, Bounds, Layout
<1>13. Before(End) \in 0 .. Maxsize - 1
  BY <1>2, <1>6, Boundaries
<1>14. lastOfThread' \in [Threads -> 0 .. Maxsize - 1]
  BY <1>8, <1>13 DEF Inv, TypeOK
<1>15. TypeOK'
  BY <1>1, <1>14, BufferAssumption DEF Inv, TypeOK, Threads
<1>16. Cursors'
  <2> SUFFICES ASSUME NEW u \in Threads PROVE \E i \in oldest .. End : lastOfThread'[u] = Before(i)
    BY <1>1, <1>10 DEF Cursors
  <2>1. CASE u = t
    BY <2>1, <1>6, <1>8 DEF Inv, TypeOK
  <2>2. CASE u # t
    BY <2>2, <1>8 DEF Inv, TypeOK, Cursors
  <2> QED BY <2>1, <2>2
<1>17. Counters(elems)'
  <2>1. \A j \in oldest .. newest : Waiting(j)' = Waiting(j)
    <3> TAKE j \in oldest .. newest
    <3>1. Waiting(j)' = IF j \in k .. End - 1 THEN Waiting(j) \ {t} ELSE Waiting(j)
      BY <1>1, <1>2, <1>6, <1>7, <1>8, MoveWaits
    <3>2. j \in k .. End - 1 => t \notin Waiting(j)
      BY <1>9 DEF Waiting
    <3> QED BY <3>1, <3>2
  <2> QED BY <2>1, <1>1, <1>10 DEF Counters, Inv
<1>18. Calls'
  BY DEF Calls
<1>19. DeliveredTo(t)'
  <2>1. /\ Newest(t) \in 0 .. newest /\ Newest(t) < k
        /\ whenFullRemoveOlder \/ \A j \in Newest(t) + 1 .. k - 1 : log[j].origin = t
    BY <1>7, <1>8 DEF Inv, Delivered, DeliveredTo
  <2>2. Newest(t) < End
    BY <1>2, <1>6, <2>1, Places
  <2>3. whenFullRemoveOlder \/ \A j \in Newest(t) + 1 .. End - 1 : log[j].origin = t
    <3>1. \A j \in Newest(t) + 1 .. End - 1 : j \in Newest(t) + 1 .. k - 1 \/ j \in k .. End - 1
      BY <1>2, <1>6, <2>1, Places
    <3> QED BY <3>1, <2>1, <1>9
  <2>4. lastOfThread'[t] = Before(End)
    BY <1>7, <1>8 DEF Inv, TypeOK
  <2>5. \A i \in oldest .. End : lastOfThread'[t] = Before(i) => i = End
    BY <1>2, <1>6, <2>4, Boundaries
  <2> QED BY <1>1, <1>10, <2>1, <2>2, <2>3, <2>5 DEF DeliveredTo
<1>20. \A u \in Threads \ {t} : DeliveredTo(u)'
  BY <1>1, <1>2, <1>7, <1>8, MoveDelivers DEF Inv
<1>21. Delivered'
  BY <1>1, <1>19, <1>20 DEF Inv, Delivered
<1>22. HandedOverWhole'
  BY <1>1, HandedOverKept DEF Inv
<1> QED BY <1>11, <1>12, <1>15, <1>16, <1>17, <1>18, <1>21, <1>22 DEF Inv

LEMMA Appended ==
  ASSUME NEW S, NEW s \in Seq(S), NEW e \in S
  PROVE  /\ Append(s, e) \in Seq(S) /\ Append(s, e) # << >>
         /\ Len(Append(s, e)) = Len(s) + 1 /\ Len(s) \in Nat
         /\ Append(s, e)[Len(s) + 1] = e
         /\ \A i \in 1 .. Len(s) : Append(s, e)[i] = s[i] /\ i \in 1 .. Len(Append(s, e))
OBVIOUS

\* What getClause hands over is clause m, whole and unchanged, and its counter
\* goes down.
LEMMA Handed ==
  ASSUME Inv, GetClause, NEW t \in Threads, t = caller,
         NEW k \in oldest .. End, NEW m \in oldest .. newest, Reading(k, m)
  PROVE  /\ log[m].origin # t /\ NbThreads > 1 /\ t \in Waiting(m)
         /\ log[m] \in Message /\ NumberOf(log[m]) = m
         /\ Newest(t) \in 0 .. newest /\ Newest(t) < m
         /\ whenFullRemoveOlder \/ \A j \in Newest(t) + 1 .. m - 1 : log[j].origin = t
         /\ received' = [received EXCEPT ![t] = Append(@, log[m])]
         /\ elems' = [elems EXCEPT ![Index(begins[m] + 2)] = @ - 1]
         /\ elems[Index(begins[m] + 2)] = Cardinality(Waiting(m))
         /\ UNCHANGED <<first, log, begins, whenFullRemoveOlder>>
<1>1. Placed
  BY DEF Inv, Placed
<1>2. m \in 1 .. newest /\ SizeOf(m) \in Nat \ {0} /\ SizeOf(m) + 3 < Maxsize /\ newest \in Nat
      /\ oldest \in Nat /\ Maxsize \in Nat /\ begins[m] \in Nat /\ k \in Int /\ m \in Int /\ End \in Int
  BY <1>1, Places
<1>3. /\ thislast = Before(m) /\ lastOfThread[t] = Before(k) /\ m \in k .. End
      /\ \A j \in k .. m - 1 : log[j].origin = t
  BY DEF Reading
<1>4. log[m].origin # t
  BY <1>1, <1>3, Headers DEF Inv, GetClause, Own
<1>5. log[m] \in Message /\ log[m].origin \in Threads
  <2>1. log \in Seq(Message) /\ m \in 1 .. Len(log)
    BY <1>2 DEF Inv, Entries, newest
  <2>2. log[m] \in Message
    BY <2>1
  <2> QED BY <2>2 DEF Message
<1>6. NbThreads > 1
  BY <1>4, <1>5, BufferAssumption DEF Threads
<1>7. t \in Waiting(m)
  <2>1. k \in oldest .. m
    BY <1>2, <1>3
  <2> QED BY <1>3, <1>4, <2>1 DEF Waiting
<1>8. log[m].clause = [j \in 1 .. SizeOf(m) |-> m]
  BY <1>2 DEF Inv, Entries
<1>9. NumberOf(log[m]) = m
  BY <1>2, <1>8 DEF NumberOf
<1>10. /\ Newest(t) \in 0 .. newest /\ Newest(t) < k
       /\ whenFullRemoveOlder \/ \A j \in Newest(t) + 1 .. k - 1 : log[j].origin = t
  BY <1>3 DEF Inv, Delivered, DeliveredTo
<1>11. Newest(t) < m
  <2>1. k <= m /\ Newest(t) \in Int /\ Newest(t) < k
    BY <1>2, <1>3, <1>10
  <2> QED BY <1>2, <2>1
<1>12. whenFullRemoveOlder \/ \A j \in Newest(t) + 1 .. m - 1 : log[j].origin = t
  <2>1. \A j \in Newest(t) + 1 .. m - 1 : j \in Newest(t) + 1 .. k - 1 \/ j \in k .. m - 1
    BY <1>2, <1>10
  <2> QED BY <2>1, <1>3, <1>10
<1>13. \A a \in 0 .. Maxsize : AddIndex(thislast, a) = Index(begins[m] + a)
  BY <1>1, <1>3, Cells
<1>14. SizeAfter(elems, thislast) = SizeOf(m) /\ OriginAfter(elems, thislast) = log[m].origin
  BY <1>1, <1>3, Headers DEF Inv
<1>15. [j \in 1 .. SizeAfter(elems, thislast) |-> elems[AddIndex(thislast, 3 + j)]] = log[m].clause
  <2>1. ASSUME NEW j \in 1 .. SizeOf(m)
        PROVE  elems[AddIndex(thislast, 3 + j)] = m
    <3>1. 3 + j \in 0 .. Maxsize /\ begins[m] + 3 + j = begins[m] + (3 + j)
      BY <1>2
    <3>2. AddIndex(thislast, 3 + j) = Index(begins[m] + 3 + j)
      BY <1>13, <3>1
    <3> QED BY <3>2 DEF Inv, Layout
  <2> QED BY <1>8, <1>14, <2>1
<1>16. log[m] = [clause |-> log[m].clause, origin |-> log[m].origin]
  BY <1>5 DEF Message
<1>17. received' = [received EXCEPT ![t] = Append(@, log[m])]
  BY <1>14, <1>15, <1>16 DEF GetClause
<1>18. elems' = [elems EXCEPT ![Index(begins[m] + 2)] = @ - 1]
  <2>1. AddIndex(thislast, 2) = Index(begins[m] + 2)
    BY <1>2, <1>13
  <2> QED BY <2>1 DEF GetClause
<1>19. elems[Index(begins[m] + 2)] = Cardinality(Waiting(m))
  BY <1>6 DEF Inv, Counters
<1>20. UNCHANGED <<first, log, begins, whenFullRemoveOlder>>
  BY DEF GetClause
<1> QED BY <1>4, <1>5, <1>6, <1>7, <1>9, <1>10, <1>11, <1>12, <1>17, <1>18, <1>19, <1>20

\* The counter goes down by the reader, and nothing else in the array changes.
LEMMA CountedDown ==
  ASSUME Inv, GetClause, NEW t \in Threads, t = caller,
         NEW k \in oldest .. End, NEW m \in oldest .. newest, Reading(k, m)
  PROVE  /\ elems' \in [0 .. Maxsize - 1 -> Nat] /\ Layout(elems')
         /\ elems'[Index(begins[m] + 2)] = Cardinality(Waiting(m) \ {t})
         /\ \A j \in oldest .. newest :
              j # m => elems'[Index(begins[j] + 2)] = Cardinality(Waiting(j))
<1> DEFINE cell == Index(begins[m] + 2)
<1>1. Placed
  BY DEF Inv, Placed
<1>2. /\ t \in Waiting(m) /\ NbThreads > 1
      /\ elems' = [elems EXCEPT ![cell] = @ - 1]
      /\ elems[cell] = Cardinality(Waiting(m))
  BY Handed
<1>3. Maxsize \in Nat /\ \A j \in oldest .. newest : begins[j] \in Nat /\ SizeOf(j) \in Nat \ {0}
  BY <1>1, Places
<1>4. cell \in 0 .. Maxsize - 1
  BY <1>3, IndexRange
<1>5. \A j \in oldest .. newest : \A a \in 1 .. SizeOf(j) + 3 :
        Index(begins[j] + a) = cell => j = m /\ a = 2
  <2> TAKE j \in oldest .. newest
  <2> TAKE a \in 1 .. SizeOf(j) + 3
  <2>1. 2 \in 1 .. SizeOf(m) + 3
    BY <1>3
  <2> QED BY <1>1, <2>1, CellsApart
<1> HIDE DEF cell
<1>6. elems \in [0 .. Maxsize - 1 -> Nat]
  BY DEF Inv, TypeOK
<1>7. IsFiniteSet(Waiting(m)) /\ Cardinality(Waiting(m)) \in Nat
  BY WaitingIsFinite, FS_CardinalityType
<1>8. Cardinality(Waiting(m) \ {t}) = Cardinality(Waiting(m)) - 1
  BY <1>2, <1>7, FS_RemoveElement
<1>9. Cardinality(Waiting(m) \ {t}) \in Nat
  BY <1>7, FS_RemoveElement, FS_CardinalityType
<1>10. elems'[cell] = Cardinality(Waiting(m) \ {t})
  BY <1>2, <1>4, <1>6, <1>8
<1>11. elems' \in [0 .. Maxsize - 1 -> Nat]
  <2>1. elems[cell] - 1 \in Nat
    BY <1>2, <1>8, <1>9
  <2> QED BY <1>2, <1>4, <1>6, <2>1
<1>12. \A i : i # cell => elems'[i] = elems[i]
  <2>1. \A i \in 0 .. Maxsize - 1 : i # cell => elems'[i] = elems[i]
    BY <1>2, <1>6
  <2> QED BY <2>1, <1>2, <1>6
<1>13. Layout(elems')
  <2> SUFFICES ASSUME NEW j \in oldest .. newest
               PROVE  /\ elems'[Index(begins[j] + 1)] = SizeOf(j)
                      /\ elems'[Index(begins[j] + 3)] = log[j].origin
                      /\ \A i \in 1 .. SizeOf(j) : elems'[Index(begins[j] + 3 + i)] = j
    BY DEF Layout
  <2>1. 1 \in 1 .. SizeOf(j) + 3 /\ 3 \in 1 .. SizeOf(j) + 3
    BY <1>3
  <2>2. Index(begins[j] + 1) # cell /\ Index(begins[j] + 3) # cell
    BY <1>5, <2>1
  <2>3. ASSUME NEW i \in 1 .. SizeOf(j)
        PROVE  Index(begins[j] + 3 + i) # cell
    <3>1. 3 + i \in 1 .. SizeOf(j) + 3 /\ begins[j] + 3 + i = begins[j] + (3 + i) /\ 3 + i # 2
      BY <1>3
    <3>2. Index(begins[j] + (3 + i)) # cell
      BY <1>5, <3>1
    <3> QED BY <3>1, <3>2
  <2> QED BY <1>12, <2>2, <2>3 DEF Inv, Layout
<1>14. ASSUME NEW j \in oldest .. newest, j # m
       PROVE  elems'[Index(begins[j] + 2)] = Cardinality(Waiting(j))
  <2>1. 2 \in 1 .. SizeOf(j) + 3
    BY <1>3
  <2> QED BY <1>2, <1>5, <1>12, <1>14, <2>1 DEF Inv, Counters
<1> QED BY <1>10, <1>11, <1>13, <1>14 DEF cell

\* The history after clause m has been handed over.
LEMMA HandedOn ==
  ASSUME Inv, GetClause, NEW t \in Threads, t = caller,
         NEW k \in oldest .. End, NEW m \in oldest .. newest, Reading(k, m),
         oldest' \in oldest .. m + 1, lastOfThread'[t] = Before(m + 1)
  PROVE  /\ received' \in [Threads -> Seq(Message)] /\ Newest(t)' = m
         /\ DeliveredTo(t)' /\ HandedOverWhole'
         /\ \A u \in Threads \ {t} : received'[u] = received[u]
<1>1. Placed
  BY DEF Inv, Placed
<1>2. /\ log[m] \in Message /\ NumberOf(log[m]) = m
      /\ received' = [received EXCEPT ![t] = Append(@, log[m])]
      /\ UNCHANGED <<log, begins, whenFullRemoveOlder>>
  BY Handed
<1>3. received \in [Threads -> Seq(Message)]
  BY DEF Inv, Delivered
<1>4. received' \in [Threads -> Seq(Message)]
  BY <1>2, <1>3
<1>5. received'[t] = Append(received[t], log[m]) /\ received[t] \in Seq(Message)
  BY <1>2, <1>3
<1>6. /\ received'[t] # << >> /\ Len(received'[t]) = Len(received[t]) + 1
      /\ received'[t][Len(received'[t])] = log[m]
      /\ \A i \in 1 .. Len(received[t]) : received'[t][i] = received[t][i]
  BY <1>2, <1>5, Appended
<1>7. Newest(t)' = m
  BY <1>2, <1>6 DEF Newest, NumberOf
<1>8. newest' = newest /\ End' = End /\ (\A i : Before(i)' = Before(i))
  BY <1>2 DEF newest, End, Before
<1>9. m \in 0 .. newest /\ m + 1 \in oldest .. End /\ m \in Int /\ oldest \in Nat
  BY <1>1, Places
<1>10. \A i \in oldest .. End : lastOfThread'[t] = Before(i) => i = m + 1
  BY <1>1, <1>9, Boundaries
<1>11. oldest' .. End \subseteq oldest .. End
  BY <1>9
<1>12. m < m + 1 /\ m + 1 .. (m + 1) - 1 = {}
  BY <1>9
<1>13. DeliveredTo(t)'
  BY <1>7, <1>8, <1>9, <1>10, <1>11, <1>12 DEF DeliveredTo
<1>14. \A u \in Threads \ {t} : received'[u] = received[u]
  BY <1>2, <1>3
<1>15. HandedOverWhole'
  <2> SUFFICES ASSUME NEW u \in Threads, NEW i \in 1 .. Len(received'[u])
               PROVE  /\ NumberOf(received'[u][i]) \in 1 .. Len(log)
                      /\ log[NumberOf(received'[u][i])] = received'[u][i]
    BY <1>2 DEF HandedOverWhole, NumberOf
  <2>1. CASE i \in 1 .. Len(received[u]) /\ received'[u][i] = received[u][i]
    BY <2>1 DEF Inv, HandedOverWhole
  <2>2. CASE received'[u][i] = log[m]
    BY <1>1, <1>2, <2>2, Places DEF newest
  <2>3. (i \in 1 .. Len(received[u]) /\ received'[u][i] = received[u][i]) \/ received'[u][i] = log[m]
    <3>1. CASE u = t
      BY <1>5, <1>6, <3>1, <1>2
    <3>2. CASE u # t
      BY <1>14, <3>2
    <3> QED BY <3>1, <3>2
  <2> QED BY <2>1, <2>2, <2>3
<1> QED BY <1>4, <1>7, <1>13, <1>14, <1>15

LEMMA GetClauseKeeps == Inv /\ GetClause => Inv'
<1> SUFFICES ASSUME Inv, GetClause PROVE Inv'
  OBVIOUS
<1>1. Placed
  BY DEF Inv, Placed
<1>2. PICK t \in Threads : t = caller
  BY DEF Inv, TypeOK
<1>3. PICK k \in oldest .. End : \E n \in oldest .. End : Reading(k, n)
  BY InsideGet DEF GetClause
<1>4. PICK m \in oldest .. End : Reading(k, m)
  BY <1>3
<1>5. m \in oldest .. newest
  BY <1>4, ReadingEnds DEF GetClause
<1>6. /\ log[m].origin # t /\ NbThreads > 1 /\ t \in Waiting(m)
      /\ UNCHANGED <<first, log, begins, whenFullRemoveOlder>>
  BY <1>2, <1>4, <1>5, Handed
<1>7. /\ elems' \in [0 .. Maxsize - 1 -> Nat] /\ Layout(elems')
      /\ elems'[Index(begins[m] + 2)] = Cardinality(Waiting(m) \ {t})
      /\ \A j \in oldest .. newest :
           j # m => elems'[Index(begins[j] + 2)] = Cardinality(Waiting(j))
  BY <1>2, <1>4, <1>5, CountedDown
<1>8. /\ oldest \in Nat /\ newest \in Nat /\ End = newest + 1 /\ m \in Int /\ k \in Int
      /\ m + 1 \in oldest .. End /\ oldest \in oldest .. m + 1 /\ oldest + 1 \in oldest .. m + 1
  BY <1>1, <1>5, Places
<1>9. /\ thislast = Before(m) /\ lastOfThread[t] = Before(k) /\ k <= m
      /\ \A j \in k .. m - 1 : log[j].origin = t
  BY <1>2, <1>4, <1>8 DEF Reading
<1>10. newest' = newest /\ End' = End /\ (\A i : Before(i)' = Before(i)) /\ (\A i : SizeOf(i)' = SizeOf(i))
  BY <1>6 DEF newest, End, Before, SizeOf
<1>11. last = Before(oldest) /\ oldest \in oldest .. End
  BY <1>1, <1>8, Places DEF Placed, Bounds
<1>12. CASE thislast = last /\ UnreadAfter(elems', last) = 0
  <2>1. m = oldest
    BY <1>1, <1>5, <1>8, <1>9, <1>11, <1>12, Boundaries
  <2>2. k = oldest
    BY <1>8, <1>9, <2>1
  <2>3. RemoveOldest(elems') /\ pc' = "getRemoves" /\ UNCHANGED <<caller, csize, thislast>>
    BY <1>12 DEF GetClause
  <2>4. oldest \in 1 .. newest
    BY <1>1, <1>5, <2>1, Places
  <2>5. /\ Entries' /\ Bounds' /\ Layout(elems)' /\ Cursors'
        /\ oldest' = oldest + 1 /\ last' = Before(oldest + 1)
        /\ last' \in 0 .. Maxsize - 1 /\ queuesize' \in 0 .. Maxsize - 1
        /\ lastOfThread' \in [Threads -> 0 .. Maxsize - 1] /\ lost' \subseteq Threads
        /\ \A u \in Threads : \A i \in oldest .. End :
             lastOfThread[u] = Before(i) => lastOfThread'[u] = Before(Followed(i))
    BY <1>1, <1>6, <1>7, <2>3, <2>4, RemovalMoves DEF Inv
  <2>6. lastOfThread'[t] = Before(oldest + 1)
    BY <1>9, <2>2, <2>5 DEF Followed
  <2>7. TypeOK'
    BY <1>6, <1>7, <2>3, <2>5 DEF Inv, TypeOK
  <2>8. Counters(elems)'
    <3>1. \A i \in oldest + 1 .. newest : i \in oldest .. newest /\ i # m
      BY <1>8, <2>1
    <3>2. \A i \in oldest + 1 .. newest : elems'[Index(begins[i] + 2)] = Cardinality(Waiting(i))
      BY <1>7, <3>1
    <3> QED BY <1>1, <1>6, <1>7, <2>3, <2>4, <3>2, RemovalCounts DEF Inv
  <2>9. Calls'
    BY <1>2, <1>6, <2>3, <2>5, <2>6 DEF Calls
  <2>10. /\ received' \in [Threads -> Seq(Message)] /\ DeliveredTo(t)' /\ HandedOverWhole'
         /\ \A u \in Threads \ {t} : received'[u] = received[u]
    BY <1>2, <1>4, <1>5, <1>8, <2>1, <2>5, <2>6, HandedOn
  <2>11. \A u \in Threads \ {t} : lastOfThread[u] = last => log[oldest].origin = u
    <3> SUFFICES ASSUME NEW u \in Threads \ {t}, lastOfThread[u] = last PROVE log[oldest].origin = u
      OBVIOUS
    <3>1. UnreadAfter(elems', last) = elems'[Index(begins[oldest] + 2)]
      BY <1>1, <1>5, <1>7, <1>11, <2>1, Headers
    <3>2. Cardinality(Waiting(oldest) \ {t}) = 0
      BY <1>7, <1>12, <2>1, <3>1
    <3>3. IsFiniteSet(Waiting(oldest) \ {t})
      BY WaitingIsFinite, FS_RemoveElement
    <3>4. Waiting(oldest) \ {t} = {}
      BY <3>2, <3>3, FS_EmptySet
    <3>5. lastOfThread[u] \in {Before(j) : j \in oldest .. oldest}
      BY <1>8, <1>11
    <3> QED BY <3>4, <3>5 DEF Waiting
  <2>12. \A u \in Threads \ {t} : DeliveredTo(u)'
    BY <1>1, <1>6, <2>4, <2>5, <2>10, <2>11, RemovalDelivers DEF Inv
  <2>13. Delivered'
    BY <2>10, <2>12 DEF Delivered
  <2> QED BY <2>5, <2>7, <2>8, <2>9, <2>10, <2>13 DEF Inv
<1>13. CASE ~ (thislast = last /\ UnreadAfter(elems', last) = 0)
  <2>1. ClauseEnd(elems, thislast) = Before(m + 1)
    BY <1>1, <1>5, <1>9, Headers DEF Inv
  <2>2. lastOfThread' = [lastOfThread EXCEPT ![t] = Before(m + 1)]
    BY <1>2, <1>13, <2>1 DEF GetClause
  <2>3. /\ UNCHANGED <<last, queuesize, lost, oldest>>
        /\ pc' = "idle" /\ caller' = 0 /\ csize' = 0 /\ thislast' = 0
    BY <1>13 DEF GetClause, Return
  <2>4. lastOfThread \in [Threads -> 0 .. Maxsize - 1] /\ Before(m + 1) \in 0 .. Maxsize - 1
    BY <1>1, <1>8, Boundaries DEF Inv, TypeOK
  <2>5. lastOfThread' \in [Threads -> 0 .. Maxsize - 1] /\ lastOfThread'[t] = Before(m + 1)
    BY <2>2, <2>4
  <2>6. Entries'
    BY <1>6, <1>10, <2>3 DEF Inv, Entries
  <2>7. Bounds'
    BY <1>6, <1>10, <2>3 DEF Inv, Bounds
  <2>8. Layout(elems)'
    BY <1>6, <1>7, <1>10, <2>3 DEF Layout
  <2>9. TypeOK'
    <3>1. 0 \in 0 .. Maxsize - 1 /\ 0 \in Threads
      BY BufferAssumption DEF Threads
    <3> QED BY <1>6, <1>7, <2>3, <2>5, <3>1 DEF Inv, TypeOK
  <2>10. Cursors'
    <3> SUFFICES ASSUME NEW u \in Threads PROVE \E i \in oldest .. End : lastOfThread'[u] = Before(i)
      BY <1>10, <2>3 DEF Cursors
    <3>1. CASE u = t
      BY <3>1, <1>8, <2>5
    <3>2. CASE u # t
      BY <3>2, <2>2, <2>4 DEF Inv, Cursors
    <3> QED BY <3>1, <3>2
  <2>11. Counters(elems)'
    <3> SUFFICES ASSUME NEW j \in oldest .. newest
                 PROVE  elems'[Index(begins[j] + 2)] = Cardinality(Waiting(j)')
      BY <1>6, <1>10, <2>3 DEF Counters
    <3>1. Waiting(j)' = IF j \in k .. (m + 1) - 1 THEN Waiting(j) \ {t} ELSE Waiting(j)
      <4>1. PICK n \in oldest .. End : n = m + 1
        BY <1>8
      <4>2. k <= n
        BY <1>8, <1>9, <4>1
      <4>3. lastOfThread' = [lastOfThread EXCEPT ![t] = Before(n)] /\ UNCHANGED <<log, begins, oldest>>
        BY <1>6, <2>2, <2>3, <4>1
      <4>4. Waiting(j)' = IF j \in k .. n - 1 THEN Waiting(j) \ {t} ELSE Waiting(j)
        BY <1>1, <1>9, <4>2, <4>3, MoveWaits
      <4> QED BY <4>1, <4>4
    <3>2. j = m => j \in k .. (m + 1) - 1
      BY <1>8, <1>9
    <3>3. j # m /\ j \in k .. (m + 1) - 1 => j \in k .. m - 1
      BY <1>8
    <3>4. j # m /\ j \in k .. (m + 1) - 1 => t \notin Waiting(j)
      BY <1>9, <3>3 DEF Waiting
    <3> QED BY <1>7, <3>1, <3>2, <3>4
  <2>12. Calls'
    BY <2>3 DEF Calls
  <2>13. /\ received' \in [Threads -> Seq(Message)] /\ DeliveredTo(t)' /\ HandedOverWhole'
         /\ \A u \in Threads \ {t} : received'[u] = received[u]
    BY <1>2, <1>4, <1>5, <1>8, <2>3, <2>5, HandedOn
  <2>14. \A u \in Threads \ {t} : DeliveredTo(u)'
    BY <1>1, <1>6, <2>2, <2>3, <2>13, MoveDelivers DEF Inv
  <2>15. Delivered'
    BY <2>13, <2>14 DEF Delivered
  <2> QED BY <2>6, <2>7, <2>8, <2>9, <2>10, <2>11, <2>12, <2>13, <2>15 DEF Inv
<1> QED BY <1>12, <1>13

\* Where the new clause is written: distances from first.
LEMMA Distances ==
  ASSUME Placed
  PROVE  /\ \A a \in 0 .. Maxsize - 1 : FromFirst(Index(begins[End] + 1 + a)) = a
         /\ \A k \in oldest .. newest : \A a \in 1 .. SizeOf(k) + 3 :
              FromFirst(Index(begins[k] + a)) >= Maxsize - queuesize
<1>1. /\ Maxsize \in Nat \ {0} /\ queuesize \in 0 .. Maxsize - 1
      /\ begins[oldest] \in Nat /\ begins[End] \in Nat /\ begins[End] - begins[oldest] = queuesize
  BY Places
<1>2. first = Index(begins[End] + 1) /\ first \in 0 .. Maxsize - 1
  BY DEF Placed, Bounds, TypeOK
<1>3. ASSUME NEW a \in 0 .. Maxsize - 1
      PROVE  FromFirst(Index(begins[End] + 1 + a)) = a
  <2>1. begins[End] + 1 \in Int /\ a \in 0 .. Maxsize
    BY <1>1
  <2>2. Index(begins[End] + 1 + a) = AddIndex(first, a)
    BY <1>2, <2>1, IndexStep
  <2> QED BY <1>1, <1>2, <2>2 DEF AddIndex, FromFirst
<1>4. ASSUME NEW k \in oldest .. newest, NEW a \in 1 .. SizeOf(k) + 3
      PROVE  FromFirst(Index(begins[k] + a)) >= Maxsize - queuesize
  <2>1. /\ begins[k] \in Nat /\ SizeOf(k) \in Nat /\ begins[k + 1] = begins[k] + SizeOf(k) + 3
        /\ begins[oldest] <= begins[k] /\ begins[k + 1] <= begins[End]
    BY Places
  <2> DEFINE x == begins[k] + a
             d == x + Maxsize - (begins[End] + 1)
  <2>2. x \in Int /\ d \in 0 .. Maxsize - 1 /\ d >= Maxsize - queuesize
        /\ x + Maxsize = begins[End] + 1 + d
    BY <1>1, <2>1
  <2> HIDE DEF x, d
  <2>3. Index(x + Maxsize) = AddIndex(Index(x), Maxsize)
    BY <1>1, <2>2, IndexStep
  <2>4. Index(x + Maxsize) = Index(x)
    BY <2>2, <2>3, IndexRange, NextIsAdd
  <2>5. FromFirst(Index(x)) = d
    BY <1>3, <2>2, <2>4
  <2> QED BY <2>2, <2>5 DEF x
<1> QED BY <1>3, <1>4

\* The clauses there stay and the new one is written as it was given.
LEMMA WrittenLayout ==
  ASSUME Placed, Layout(elems), NEW size \in Sizes, NEW t \in Threads, NEW c \in Nat, Fits(size),
         NEW el, el = Written(size, t, c)
  PROVE  /\ el \in [0 .. Maxsize - 1 -> Nat]
         /\ \A k \in oldest .. newest :
              \A a \in 1 .. SizeOf(k) + 3 : el[Index(begins[k] + a)] = elems[Index(begins[k] + a)]
         /\ el[Index(begins[End] + 1)] = size
         /\ el[Index(begins[End] + 2)] = Readers
         /\ el[Index(begins[End] + 3)] = t
         /\ \A j \in 1 .. size : el[Index(begins[End] + 3 + j)] = c
<1>1. /\ Maxsize \in Nat \ {0} /\ queuesize \in 0 .. Maxsize - 1 /\ begins[End] \in Nat
      /\ size \in Nat \ {0} /\ queuesize + size + 3 < Maxsize
  BY Places, BufferAssumption DEF Fits, HeaderSize
<1>2. \A x \in Int : Index(x) \in 0 .. Maxsize - 1
  BY IndexRange
<1>3. Readers \in Nat /\ t \in Nat
  BY BufferAssumption DEF Readers, Threads
<1>4. elems \in [0 .. Maxsize - 1 -> Nat]
  BY DEF Placed, TypeOK
<1>5. el \in [0 .. Maxsize - 1 -> Nat]
  BY <1>1, <1>3, <1>4 DEF Written
<1>6. ASSUME NEW k \in oldest .. newest, NEW a \in 1 .. SizeOf(k) + 3
      PROVE  el[Index(begins[k] + a)] = elems[Index(begins[k] + a)]
  <2>1. begins[k] + a \in Int
    BY Places
  <2> DEFINE i == Index(begins[k] + a)
  <2>2. i \in 0 .. Maxsize - 1 /\ FromFirst(i) >= Maxsize - queuesize
    BY <1>2, <2>1, Distances
  <2> HIDE DEF i
  <2>3. FromFirst(i) \in Int
    BY <1>1, <2>2 DEF FromFirst, Placed, TypeOK
  <2>4. FromFirst(i) # 0 /\ FromFirst(i) # 1 /\ FromFirst(i) # 2 /\ FromFirst(i) \notin 3 .. size + 2
    BY <1>1, <2>2, <2>3
  <2>5. el[i] = elems[i]
    BY <2>2, <2>4 DEF Written
  <2> QED BY <2>5 DEF i
<1>7. ASSUME NEW a \in 0 .. size + 2
      PROVE  /\ Index(begins[End] + 1 + a) \in 0 .. Maxsize - 1
             /\ FromFirst(Index(begins[End] + 1 + a)) = a
  <2>1. a \in 0 .. Maxsize - 1 /\ begins[End] + 1 + a \in Int
    BY <1>1
  <2> QED BY <1>2, <2>1, Distances
<1>8. el[Index(begins[End] + 1)] = size
  <2>1. 0 \in 0 .. size + 2 /\ begins[End] + 1 + 0 = begins[End] + 1
    BY <1>1
  <2>2. Index(begins[End] + 1) \in 0 .. Maxsize - 1 /\ FromFirst(Index(begins[End] + 1)) = 0
    BY <1>7, <2>1
  <2> QED BY <2>2 DEF Written
<1>9. el[Index(begins[End] + 2)] = Readers
  <2>1. 1 \in 0 .. size + 2 /\ begins[End] + 1 + 1 = begins[End] + 2
    BY <1>1
  <2>2. Index(begins[End] + 2) \in 0 .. Maxsize - 1 /\ FromFirst(Index(begins[End] + 2)) = 1
    BY <1>7, <2>1
  <2> QED BY <2>2 DEF Written
<1>10. el[Index(begins[End] + 3)] = t
  <2>1. 2 \in 0 .. size + 2 /\ begins[End] + 1 + 2 = begins[End] + 3
    BY <1>1
  <2>2. Index(begins[End] + 3) \in 0 .. Maxsize - 1 /\ FromFirst(Index(begins[End] + 3)) = 2
    BY <1>7, <2>1
  <2> QED BY <2>2 DEF Written
<1>11. ASSUME NEW j \in 1 .. size
       PROVE  el[Index(begins[End] + 3 + j)] = c
  <2>1. 2 + j \in 0 .. size + 2 /\ begins[End] + 1 + (2 + j) = begins[End] + 3 + j
    BY <1>1
  <2>2. /\ Index(begins[End] + 3 + j) \in 0 .. Maxsize - 1
        /\ FromFirst(Index(begins[End] + 3 + j)) = 2 + j
    BY <1>7, <2>1
  <2>3. 2 + j \in 3 .. size + 2 /\ 2 + j # 0 /\ 2 + j # 1 /\ 2 + j # 2
    BY <1>1
  <2> QED BY <2>2, <2>3 DEF Written
<1> QED BY <1>5, <1>6, <1>8, <1>9, <1>10, <1>11

\* What pushClause makes of the histories.
LEMMA Pushed ==
  ASSUME Inv, PushClause
  PROVE  /\ newest' = End /\ End' = End + 1
         /\ log' \in Seq(Message) /\ begins' \in Seq(Nat) /\ Len(begins') = End + 1
         /\ \A k \in 1 .. newest : log'[k] = log[k]
         /\ log'[End] = [clause |-> [j \in 1 .. csize |-> End], origin |-> caller]
         /\ \A k \in 1 .. End : begins'[k] = begins[k]
         /\ begins'[End + 1] = begins[End] + csize + 3
         /\ csize \in Sizes /\ csize \in Nat \ {0} /\ caller \in Threads /\ queuesize + csize + 3 < Maxsize
         /\ queuesize' = queuesize + csize + 3 /\ first' = Index(begins[End] + csize + 4)
<1> DEFINE m == [clause |-> [j \in 1 .. csize |-> End], origin |-> caller]
<1>1. Placed
  BY DEF Inv, Placed
<1>2. csize \in Sizes /\ caller \in Threads
  BY DEF Inv, Calls, PushClause, TypeOK
<1>3. csize \in Nat \ {0} /\ queuesize + csize + 3 < Maxsize
  BY <1>2, BufferAssumption DEF PushClause, Fits, HeaderSize
<1>4. newest = Len(log) /\ End = Len(log) + 1 /\ End \in Nat \ {0} /\ Len(begins) = End
  BY <1>1, Places DEF newest, End, Placed, Entries
<1>5. log \in Seq(Message) /\ begins \in Seq(Nat)
  BY DEF Inv, Entries
<1>6. m \in Message
  <2>1. [j \in 1 .. csize |-> End] \in Seq(Nat)
    BY <1>3, <1>4
  <2> QED BY <1>2, <2>1 DEF Message
<1>7. log' = Append(log, m)
  BY <1>4 DEF PushClause
<1>8. begins' = Append(begins, begins[End] + csize + 3) /\ begins[End] \in Nat
  BY <1>1, <1>4, Places DEF PushClause, HeaderSize
<1> HIDE DEF m
<1>9. /\ log' \in Seq(Message) /\ Len(log') = Len(log) + 1 /\ log'[End] = m
      /\ \A k \in 1 .. newest : log'[k] = log[k]
  BY <1>4, <1>5, <1>6, <1>7, Appended
<1>10. begins[End] + csize + 3 \in Nat
  BY <1>3, <1>8
<1>11. /\ begins' \in Seq(Nat) /\ Len(begins') = End + 1 /\ begins'[End + 1] = begins[End] + csize + 3
       /\ \A k \in 1 .. End : begins'[k] = begins[k]
  BY <1>4, <1>5, <1>8, <1>10, Appended
<1>12. newest' = End /\ End' = End + 1
  BY <1>4, <1>9 DEF newest, End
<1>13. queuesize' = queuesize + csize + 3
  BY DEF PushClause, HeaderSize
<1>14. first' = Index(begins[End] + csize + 4)
  <2>1. first = Index(begins[End] + 1) /\ first' = AddIndex(first, csize + 3)
    BY DEF PushClause, HeaderSize, Inv, Bounds
  <2>2. begins[End] + 1 \in Int /\ csize + 3 \in 0 .. Maxsize
        /\ begins[End] + 1 + (csize + 3) = begins[End] + csize + 4
    <3>1. queuesize \in Nat /\ Maxsize \in Nat
      BY <1>1, Places
    <3> QED BY <1>3, <1>8, <3>1
  <2>3. Index(begins[End] + 1 + (csize + 3)) = AddIndex(Index(begins[End] + 1), csize + 3)
    BY <2>2, IndexStep
  <2> QED BY <2>1, <2>2, <2>3
<1> QED BY <1>2, <1>3, <1>9, <1>11, <1>12, <1>13, <1>14 DEF m

LEMMA PushClauseKeeps == Inv /\ PushClause => Inv'
<1> SUFFICES ASSUME Inv, PushClause PROVE Inv'
  OBVIOUS
<1>1. Placed
  BY DEF Inv, Placed
<1>2. /\ newest' = End /\ End' = End + 1
      /\ log' \in Seq(Message) /\ begins' \in Seq(Nat) /\ Len(begins') = End + 1
      /\ \A k \in 1 .. newest : log'[k] = log[k]
      /\ log'[End] = [clause |-> [j \in 1 .. csize |-> End], origin |-> caller]
      /\ \A k \in 1 .. End : begins'[k] = begins[k]
      /\ begins'[End + 1] = begins[End] + csize + 3
  BY Pushed
<1>3. /\ csize \in Sizes /\ csize \in Nat \ {0} /\ caller \in Threads /\ queuesize + csize + 3 < Maxsize
      /\ queuesize' = queuesize + csize + 3 /\ first' = Index(begins[End] + csize + 4)
  BY Pushed
<1>4. UNCHANGED <<last, lastOfThread, lost, oldest, received, whenFullRemoveOlder>>
      /\ pc' = "idle" /\ caller' = 0 /\ csize' = 0 /\ thislast' = 0
  BY DEF PushClause, Return
<1>5. /\ newest \in Nat /\ End = newest + 1 /\ oldest \in 1 .. End /\ oldest \in Nat /\ End \in Nat
      /\ \A k \in oldest .. newest : k \in 1 .. newest /\ k \in 1 .. End /\ SizeOf(k) \in Nat
      /\ \A k \in oldest .. End : k \in 1 .. End
      /\ \A k \in 1 .. End : begins[k] \in Nat
  BY <1>1, Places
<1>6. /\ \A k \in 1 .. newest : SizeOf(k)' = SizeOf(k)
      /\ \A k \in Nat : k = End => SizeOf(k)' = csize
  BY <1>2, <1>3 DEF SizeOf
<1>7. \A k \in 1 .. End : Before(k)' = Before(k)
  BY <1>2 DEF Before
<1>8. Entries'
  <2>1. newest' <= MaxPushes
    BY <1>2, <1>5, BufferAssumption DEF Inv, Calls, PushClause
  <2>2. oldest' \in 1 .. End'
    BY <1>2, <1>4, <1>5
  <2>3. ASSUME NEW k \in 1 .. End
        PROVE  /\ SizeOf(k)' \in Sizes
               /\ log'[k].clause = [j \in 1 .. SizeOf(k)' |-> k]
               /\ begins'[k + 1] = begins'[k] + SizeOf(k)' + HeaderSize
    <3>1. CASE k = End
      BY <3>1, <1>2, <1>3, <1>6 DEF HeaderSize
    <3>2. CASE k # End
      <4>1. k \in 1 .. newest /\ k + 1 \in 1 .. End
        BY <1>5, <3>2
      <4> QED BY <4>1, <1>2, <1>6 DEF Inv, Entries
    <3> QED BY <3>1, <3>2
  <2>4. ASSUME NEW j \in 1 .. End + 1, NEW k \in 1 .. End + 1, j < k
        PROVE  begins'[j] < begins'[k]
    <3>1. j \in 1 .. End
      BY <1>5, <2>4
    <3>2. CASE k \in 1 .. End
      BY <1>2, <2>4, <3>1, <3>2 DEF Inv, Entries
    <3>3. CASE k = End + 1
      <4>1. begins[j] <= begins[End]
        <5>1. j = End \/ j < End
          BY <1>5, <3>1
        <5>2. End \in 1 .. End
          BY <1>5
        <5> QED BY <1>5, <3>1, <5>1, <5>2 DEF Inv, Entries
      <4> QED BY <1>2, <1>3, <1>5, <3>1, <3>3, <4>1
    <3> QED BY <1>5, <3>2, <3>3
  <2> QED BY <1>2, <2>1, <2>2, <2>3, <2>4 DEF Entries
<1>9. Bounds'
  <2>1. last' = Before(oldest)'
    BY <1>4, <1>5, <1>7 DEF Inv, Bounds
  <2>2. first' = Index(begins'[End'] + 1)
    <3>1. begins[End] + csize + 3 + 1 = begins[End] + csize + 4
      BY <1>3, <1>5
    <3> QED BY <1>2, <1>3, <3>1
  <2>3. queuesize' = begins'[End'] - begins'[oldest']
    <3>1. begins[End] - begins[oldest] = queuesize /\ begins[End] \in Nat /\ begins[oldest] \in Nat
      BY <1>1, <1>5, Places
    <3>2. begins'[End'] = begins[End] + csize + 3 /\ begins'[oldest'] = begins[oldest]
      BY <1>2, <1>4, <1>5
    <3> QED BY <1>3, <3>1, <3>2
  <2> QED BY <2>1, <2>2, <2>3 DEF Bounds
<1>10. Fits(csize) /\ elems' = Written(csize, caller, End) /\ Layout(elems)
  BY DEF PushClause, Inv, newest, End
<1>11. /\ elems' \in [0 .. Maxsize - 1 -> Nat]
       /\ \A k \in oldest .. newest :
            \A a \in 1 .. SizeOf(k) + 3 : elems'[Index(begins[k] + a)] = elems[Index(begins[k] + a)]
       /\ elems'[Index(begins[End] + 1)] = csize
       /\ elems'[Index(begins[End] + 2)] = Readers
       /\ elems'[Index(begins[End] + 3)] = caller
       /\ \A j \in 1 .. csize : elems'[Index(begins[End] + 3 + j)] = End
  BY <1>1, <1>3, <1>5, <1>10, WrittenLayout
<1>12. Layout(elems)'
  <2> SUFFICES ASSUME NEW k \in oldest .. End
               PROVE  /\ elems'[Index(begins'[k] + 1)] = SizeOf(k)'
                      /\ elems'[Index(begins'[k] + 3)] = log'[k].origin
                      /\ \A j \in 1 .. SizeOf(k)' : elems'[Index(begins'[k] + 3 + j)] = k
    BY <1>2, <1>4 DEF Layout
  <2>1. k \in 1 .. End /\ begins'[k] = begins[k] /\ k \in Nat
    BY <1>2, <1>5
  <2>2. CASE k = End
    BY <1>2, <1>6, <1>11, <2>1, <2>2
  <2>3. CASE k # End
    <3>1. k \in oldest .. newest /\ log'[k] = log[k] /\ SizeOf(k)' = SizeOf(k) /\ SizeOf(k) \in Nat
      <4>1. k \in oldest .. newest
        BY <1>5, <2>3
      <4> QED BY <4>1, <1>2, <1>5, <1>6
    <3>2. 1 \in 1 .. SizeOf(k) + 3 /\ 3 \in 1 .. SizeOf(k) + 3
      BY <3>1
    <3>3. ASSUME NEW j \in 1 .. SizeOf(k)
          PROVE  elems'[Index(begins[k] + 3 + j)] = k
      <4>1. 3 + j \in 1 .. SizeOf(k) + 3 /\ begins[k] + 3 + j = begins[k] + (3 + j)
        BY <1>5, <2>1, <3>1
      <4>2. elems'[Index(begins[k] + (3 + j))] = elems[Index(begins[k] + (3 + j))]
        BY <1>11, <3>1, <4>1
      <4> QED BY <1>10, <3>1, <4>1, <4>2 DEF Layout
    <3>4. elems'[Index(begins[k] + 1)] = SizeOf(k)
      BY <1>10, <1>11, <3>1, <3>2 DEF Layout
    <3>5. elems'[Index(begins[k] + 3)] = log[k].origin
      BY <1>10, <1>11, <3>1, <3>2 DEF Layout
    <3> QED BY <2>1, <3>1, <3>3, <3>4, <3>5
  <2> QED BY <2>2, <2>3
<1>13. TypeOK'
  <2>1. first' \in 0 .. Maxsize - 1
    <3>1. begins[End] + csize + 4 \in Int
      BY <1>3, <1>5
    <3> QED BY <1>3, <3>1, IndexRange
  <2>2. queuesize' \in 0 .. Maxsize - 1
    BY <1>1, <1>3, Places
  <2>3. 0 \in 0 .. Maxsize - 1 /\ 0 \in Threads
    BY BufferAssumption DEF Threads
  <2> QED BY <1>4, <1>11, <2>1, <2>2, <2>3 DEF Inv, TypeOK
<1>14. ASSUME NEW t \in Threads
       PROVE  \E k \in oldest .. End : lastOfThread[t] = Before(k) /\ k \in oldest' .. End' /\ Before(k)' = Before(k)
  <2>1. PICK k \in oldest .. End : lastOfThread[t] = Before(k)
    BY DEF Inv, Cursors
  <2> QED BY <1>2, <1>4, <1>5, <1>7, <2>1
<1>15. Cursors'
  BY <1>4, <1>14 DEF Cursors
<1>16. Counters(elems)'
  <2> SUFFICES ASSUME NbThreads > 1, NEW k \in oldest .. End
               PROVE  elems'[Index(begins'[k] + 2)] = Cardinality(Waiting(k)')
    BY <1>2, <1>4 DEF Counters
  <2>1. k \in 1 .. End /\ begins'[k] = begins[k] /\ \A j \in oldest .. k : Before(j)' = Before(j)
    <3>1. k \in 1 .. End /\ oldest .. k \subseteq oldest .. End
      BY <1>2, <1>5
    <3>2. begins'[k] = begins[k]
      BY <1>2, <3>1
    <3>3. ASSUME NEW j \in oldest .. k PROVE Before(j)' = Before(j)
      <4>1. j \in oldest .. End
        BY <3>1
      <4> QED BY <4>1, <1>5, <1>7
    <3> QED BY <3>1, <3>2, <3>3
  <2>2. CASE k = End
    <3>1. Waiting(k)' = Threads \ {caller}
      <4>1. \A t \in Threads : lastOfThread'[t] \in {Before(j)' : j \in oldest' .. k}
        <5> TAKE t \in Threads
        <5>1. PICK j \in oldest .. End : lastOfThread[t] = Before(j)
          BY DEF Inv, Cursors
        <5> QED BY <1>4, <2>1, <2>2, <5>1
      <4>2. log'[k].origin = caller
        BY <1>2, <2>2
      <4> QED BY <4>1, <4>2 DEF Waiting
    <3>2. IsFiniteSet(Threads) /\ Cardinality(Threads) = NbThreads
      BY FS_Interval, BufferAssumption DEF Threads
    <3>3. Cardinality(Threads \ {caller}) = NbThreads - 1
      BY <1>3, <3>2, FS_RemoveElement
    <3>4. elems'[Index(begins'[k] + 2)] = NbThreads - 1
      BY <1>11, <2>1, <2>2 DEF Readers
    <3> QED BY <3>1, <3>3, <3>4
  <2>3. CASE k # End
    <3>1. k \in oldest .. newest /\ log'[k] = log[k] /\ SizeOf(k) \in Nat
      <4>1. k \in oldest .. newest
        BY <1>5, <2>3
      <4> QED BY <4>1, <1>2, <1>5
    <3>2. Waiting(k)' = Waiting(k)
      BY <1>4, <2>1, <3>1 DEF Waiting
    <3>3. 2 \in 1 .. SizeOf(k) + 3
      BY <3>1
    <3>4. elems'[Index(begins[k] + 2)] = elems[Index(begins[k] + 2)]
      BY <1>11, <3>1, <3>3
    <3> QED BY <2>1, <3>1, <3>2, <3>4 DEF Inv, Counters
  <2> QED BY <2>2, <2>3
<1>17. Calls'
  BY <1>4 DEF Calls
<1>18. Delivered'
  <2>1. received' \in [Threads -> Seq(Message)]
    BY <1>4 DEF Inv, Delivered
  <2>2. ASSUME NEW t \in Threads PROVE DeliveredTo(t)'
    <3>1. Newest(t)' = Newest(t) /\ Newest(t) \in 0 .. newest
      BY <1>4 DEF Newest, NumberOf, Inv, Delivered, DeliveredTo
    <3>2. ASSUME NEW k \in oldest .. End + 1, lastOfThread[t] = Before(k)'
          PROVE  /\ Newest(t) < k
                 /\ whenFullRemoveOlder \/ \A j \in Newest(t) + 1 .. k - 1 : log'[j].origin = t
      <4>1. PICK n \in oldest .. End : lastOfThread[t] = Before(n)
        BY DEF Inv, Cursors
      <4>2. k # End + 1
        <5> SUFFICES ASSUME k = End + 1 PROVE FALSE
          OBVIOUS
        <5>1. Index(begins[n]) = Index(begins[End] + csize + 3)
          BY <1>2, <3>2, <4>1 DEF Before
        <5>2. /\ begins[n] \in Nat /\ begins[End] \in Nat /\ begins[n] <= begins[End]
              /\ begins[oldest] \in Nat /\ begins[oldest] <= begins[n]
              /\ begins[End] - begins[oldest] = queuesize /\ queuesize \in Nat /\ Maxsize \in Nat
          BY <1>1, <1>5, Places
        <5>3. /\ begins[n] \in Int /\ begins[End] + csize + 3 \in Int
              /\ begins[n] <= begins[End] + csize + 3 /\ (begins[End] + csize + 3) - begins[n] < Maxsize
              /\ begins[n] # begins[End] + csize + 3
          BY <1>3, <5>2
        <5> QED BY <5>1, <5>3, Injective
      <4>3. k \in oldest .. End /\ Before(k)' = Before(k) /\ k \in Int
        BY <1>5, <1>7, <4>2
      <4>4. /\ Newest(t) < k
            /\ whenFullRemoveOlder \/ \A j \in Newest(t) + 1 .. k - 1 : log[j].origin = t
        BY <3>2, <4>3 DEF Inv, Delivered, DeliveredTo
      <4>5. \A j \in Newest(t) + 1 .. k - 1 : log'[j] = log[j]
        BY <1>2, <1>5, <3>1, <4>3
      <4> QED BY <4>4, <4>5
    <3>3. Newest(t)' \in 0 .. newest'
      BY <1>2, <1>5, <3>1
    <3> QED BY <1>2, <1>4, <3>1, <3>2, <3>3 DEF DeliveredTo
  <2> QED BY <2>1, <2>2 DEF Delivered
<1>19. HandedOverWhole'
  <2>1. \A k \in 1 .. Len(log) : log'[k] = log[k] /\ k \in 1 .. Len(log')
    BY <1>2, <1>5 DEF newest
  <2> QED BY <1>4, <2>1 DEF Inv, HandedOverWhole, NumberOf
<1> QED BY <1>8, <1>9, <1>12, <1>13, <1>15, <1>16, <1>17, <1>18, <1>19 DEF Inv

-----------------------------------------------------------------------------
LEMMA InvInit == Init => Inv
<1> SUFFICES ASSUME Init PROVE Inv
  OBVIOUS
<1> USE DEF Init
<1>1. Maxsize \in Nat \ {0} /\ 0 \in 0 .. Maxsize - 1 /\ Maxsize - 1 \in 0 .. Maxsize - 1 /\ 0 \in Threads
  BY BufferAssumption DEF Threads
<1>2. TypeOK
  BY <1>1 DEF TypeOK
<1>3. newest = 0 /\ End = 1 /\ begins[1] = Maxsize - 1
  BY DEF newest, End
<1>4. Entries
  BY <1>1, <1>3, BufferAssumption DEF Entries
<1>5. Before(1) = Maxsize - 1
  <2>1. Maxsize - 1 = Maxsize * 0 + (Maxsize - 1) /\ Maxsize - 1 \in Int
    BY <1>1
  <2>2. Index(Maxsize - 1) = Maxsize - 1
    BY <1>1, <2>1, Remainder
  <2> QED BY <1>3, <2>2 DEF Before
<1>6. Index(begins[End] + 1) = 0
  <2>1. Maxsize = Maxsize * 1 + 0 /\ Maxsize \in Int /\ begins[End] + 1 = Maxsize
    BY <1>1, <1>3
  <2> QED BY <1>1, <2>1, Remainder
<1>7. Bounds
  BY <1>1, <1>3, <1>5, <1>6 DEF Bounds
<1>8. Layout(elems) /\ Counters(elems)
  BY <1>3 DEF Layout, Counters
<1>9. Cursors
  BY <1>3, <1>5 DEF Cursors
<1>10. Calls
  BY DEF Calls
<1>11. Delivered
  BY <1>3 DEF Delivered, DeliveredTo, Newest
<1>12. HandedOverWhole
  BY DEF HandedOverWhole
<1> QED BY <1>2, <1>4, <1>7, <1>8, <1>9, <1>10, <1>11, <1>12 DEF Inv

LEMMA InvStep == Inv /\ [Next]_vars => Inv'
<1> SUFFICES ASSUME Inv, [Next]_vars PROVE Inv'
  OBVIOUS
<1>1. CASE Inside
  BY <1>1, RemoveNextKeeps, MakeRoomKeeps, RoomMadeKeeps, PushClauseKeeps, SkipOwnKeeps,
     GetNothingKeeps, GetClauseKeeps, GotClauseKeeps DEF Inside
<1>2. ASSUME NEW t \in Threads, EnterGet(t) PROVE Inv'
  BY <1>2, EnterGetKeeps
<1>3. ASSUME NEW t \in Threads, NEW size \in Sizes, EnterPush(t, size) PROVE Inv'
  BY <1>3, EnterPushKeeps
<1>4. CASE UNCHANGED vars
  <2>1. UNCHANGED <<arrayVars, historyVars, whenFullRemoveOlder, pc, caller, csize, thislast>>
    BY <1>4 DEF vars, callVars
  <2>2. TypeOK'
    BY <2>1, StillKeeps DEF Inv, TypeOK
  <2>3. Calls'
    BY <2>1, StillKeeps DEF Inv, Calls, Fits
  <2> QED BY <2>1, <2>2, <2>3, StillKeeps DEF Inv
<1>5. ASSUME NEW size \in Sizes, PushRefused(size) PROVE Inv'
  BY <1>4, <1>5 DEF PushRefused
<1> QED BY <1>1, <1>2, <1>3, <1>4, <1>5 DEF Next

LEMMA Invariance == Spec => []Inv
BY InvInit, InvStep, PTL DEF Spec

-----------------------------------------------------------------------------
\* Whatever the number of threads, the size of the array and the sizes of the
\* clauses: the array holds whole clauses from last to first, their headers are
\* where they were written, and every cursor of getClause is before one of them.
THEOREM BoundariesKept == Spec => []CursorsOnBoundaries
<1>1. Inv => CursorsOnBoundaries
  <2> SUFFICES ASSUME Inv PROVE CursorsOnBoundaries
    OBVIOUS
  <2>1. Placed /\ Layout(elems)
    BY DEF Inv, Placed
  <2>2. NextIndex(Before(newest + 1)) = first
    BY <2>1, Boundaries, Places
  <2>3. last = Before(oldest) /\ queuesize = begins[newest + 1] - begins[oldest]
    BY DEF Inv, Bounds, End
  <2>4. \A k \in oldest .. newest :
          /\ ClauseEnd(elems, Before(k)) = Before(k + 1)
          /\ SizeAfter(elems, Before(k)) = Len(log[k].clause)
          /\ OriginAfter(elems, Before(k)) = log[k].origin
    BY <2>1, Headers DEF SizeOf
  <2>5. \A t \in Threads : \E k \in oldest .. newest + 1 : lastOfThread[t] = Before(k)
    BY DEF Inv, Cursors, End
  <2> QED BY <2>2, <2>3, <2>4, <2>5 DEF Inv, CursorsOnBoundaries
<1> QED BY <1>1, Invariance, PTL

\* The counter of a clause is the number of the other threads whose cursor has
\* not passed it, so it is freed when, and only when, all have read it.
THEOREM CountersExact == Spec => []UnreadIsExact
<1>1. Inv => UnreadIsExact
  <2> SUFFICES ASSUME Inv, NbThreads > 1, NEW k \in oldest .. newest
               PROVE  UnreadAfter(elems, Before(k)) = Cardinality(Waiting(k))
    BY DEF UnreadIsExact, Waiting
  <2>1. Placed /\ Layout(elems)
    BY DEF Inv, Placed
  <2>2. UnreadAfter(elems, Before(k)) = elems[Index(begins[k] + 2)]
    BY <2>1, Headers
  <2> QED BY <2>2 DEF Inv, Counters
<1> QED BY <1>1, Invariance, PTL

\* getClause hands over what pushClause was given: size, literals and origin.
THEOREM ClausesWhole == Spec => []HandedOverWhole
<1>1. Inv => HandedOverWhole
  BY DEF Inv
<1> QED BY <1>1, Invariance, PTL

-----------------------------------------------------------------------------
(* The array implements the abstract exchange of ClauseFifo.               *)

Numbers(s) == [k \in DOMAIN s |-> NumberOf(s[k])]

LEMMA NumbersOf ==
  ASSUME NEW s \in Seq(Message)
  PROVE  /\ Len(Numbers(s)) = Len(s) /\ (Numbers(s) = << >> <=> s = << >>)
         /\ s # << >> => Numbers(s)[Len(s)] = NumberOf(s[Len(s)])
         /\ \A m \in Message : Numbers(Append(s, m)) = Append(Numbers(s), NumberOf(m))
<1> DEFINE T == {NumberOf(m) : m \in Message}
<1>1. DOMAIN s = 1 .. Len(s) /\ Len(s) \in Nat /\ \A k \in 1 .. Len(s) : s[k] \in Message
  OBVIOUS
<1>2. Numbers(s) = [k \in 1 .. Len(s) |-> NumberOf(s[k])]
  BY <1>1 DEF Numbers
<1>3. Numbers(s) \in Seq(T) /\ Len(Numbers(s)) = Len(s)
  BY <1>1, <1>2
<1>4. Numbers(s) = << >> <=> s = << >>
  BY <1>3
<1>5. s # << >> => Numbers(s)[Len(s)] = NumberOf(s[Len(s)])
  BY <1>1, <1>2
<1>6. ASSUME NEW m \in Message
      PROVE  Numbers(Append(s, m)) = Append(Numbers(s), NumberOf(m))
  <2>1. /\ Append(s, m) \in Seq(Message) /\ Len(Append(s, m)) = Len(s) + 1
        /\ Append(s, m)[Len(s) + 1] = m /\ \A k \in 1 .. Len(s) : Append(s, m)[k] = s[k]
    BY Appended
  <2>2. DOMAIN Append(s, m) = 1 .. Len(s) + 1
    BY <2>1
  <2>3. Numbers(Append(s, m)) = [k \in 1 .. Len(s) + 1 |-> NumberOf(Append(s, m)[k])]
    BY <2>2 DEF Numbers
  <2>4. NumberOf(m) \in T
    OBVIOUS
  <2> HIDE DEF T
  <2>5. Append(Numbers(s), NumberOf(m)) \in Seq(T)
        /\ Len(Append(Numbers(s), NumberOf(m))) = Len(s) + 1
        /\ Append(Numbers(s), NumberOf(m))[Len(s) + 1] = NumberOf(m)
        /\ \A k \in 1 .. Len(s) : Append(Numbers(s), NumberOf(m))[k] = NumberOf(s[k])
    <3>1. \A k \in 1 .. Len(s) : Numbers(s)[k] = NumberOf(s[k])
      BY <1>2
    <3> QED BY <1>3, <2>4, <3>1, Appended
  <2>6. \A k \in 1 .. Len(s) + 1 : Append(Numbers(s), NumberOf(m))[k] = NumberOf(Append(s, m)[k])
    BY <1>1, <2>1, <2>5
  <2>7. Append(Numbers(s), NumberOf(m)) = [k \in 1 .. Len(s) + 1 |-> NumberOf(Append(s, m)[k])]
    <3> DEFINE q == Append(Numbers(s), NumberOf(m))
    <3>1. q \in Seq(T) /\ Len(q) = Len(s) + 1
      BY <2>5
    <3> HIDE DEF q
    <3>2. q = [k \in 1 .. Len(s) + 1 |-> q[k]]
      BY <3>1, <1>1
    <3>3. \A k \in 1 .. Len(s) + 1 : q[k] = NumberOf(Append(s, m)[k])
      BY <2>6 DEF q
    <3>4. q = [k \in 1 .. Len(s) + 1 |-> NumberOf(Append(s, m)[k])]
      BY <3>2, <3>3
    <3> QED BY <3>4 DEF q
  <2> QED BY <2>3, <2>7
<1> QED BY <1>3, <1>4, <1>5, <1>6

LEMMA NewestIsLast ==
  ASSUME Inv, NEW t \in Threads
  PROVE  Fifo!Newest(t) = Newest(t)
<1>1. received[t] \in Seq(Message)
  BY DEF Inv, Delivered
<1> QED BY <1>1, NumbersOf DEF Fifo!Newest, Newest, Numbers

LEMMA PushGives == Inv /\ PushClause => Fifo!Next
<1> SUFFICES ASSUME Inv, PushClause PROVE Fifo!Next
  OBVIOUS
<1>1. caller \in Threads /\ csize \in Sizes /\ Len(log) < MaxPushes
  BY DEF Inv, TypeOK, Calls, PushClause, newest
<1>2. Len(log) + 1 \in 1 .. MaxPushes
  BY <1>1, BufferAssumption DEF Inv, Entries
<1> DEFINE c == [k \in 1 .. csize |-> Len(log) + 1]
<1>3. c \in {[k \in 1 .. size |-> n] : size \in Sizes, n \in 1 .. MaxPushes}
  BY <1>1, <1>2
<1>4. Fifo!Give(caller, c)
  BY DEF PushClause, Fifo!Give
<1> QED BY <1>1, <1>3, <1>4 DEF Fifo!Next

LEMMA GetReceives == Inv /\ GetClause => Fifo!Next
<1> SUFFICES ASSUME Inv, GetClause PROVE Fifo!Next
  OBVIOUS
<1>1. PICK t \in Threads : t = caller
  BY DEF Inv, TypeOK
<1>2. PICK k \in oldest .. End : \E n \in oldest .. End : Reading(k, n)
  BY InsideGet DEF GetClause
<1>3. PICK m \in oldest .. End : Reading(k, m)
  BY <1>2
<1>4. m \in oldest .. newest
  BY <1>3, ReadingEnds DEF GetClause
<1>5. /\ log[m].origin # t /\ log[m] \in Message /\ NumberOf(log[m]) = m /\ Newest(t) < m
      /\ whenFullRemoveOlder \/ \A j \in Newest(t) + 1 .. m - 1 : log[j].origin = t
      /\ received' = [received EXCEPT ![t] = Append(@, log[m])]
      /\ UNCHANGED <<log, whenFullRemoveOlder>>
  BY <1>1, <1>3, <1>4, Handed
<1>6. received \in [Threads -> Seq(Message)]
  BY DEF Inv, Delivered
<1> DEFINE before == [u \in Threads |-> Numbers(received[u])]
           after  == [u \in Threads |-> Numbers(received'[u])]
<1>7. after = [before EXCEPT ![t] = Append(@, m)]
  <2>1. received'[t] = Append(received[t], log[m]) /\ received[t] \in Seq(Message)
    BY <1>5, <1>6
  <2>2. Numbers(received'[t]) = Append(Numbers(received[t]), m)
    BY <1>5, <2>1, NumbersOf
  <2>3. \A u \in Threads \ {t} : received'[u] = received[u]
    BY <1>5, <1>6
  <2> QED BY <2>2, <2>3
<1>8. m \in DOMAIN log
  <2>1. Placed
    BY DEF Inv, Placed
  <2>2. m \in 1 .. Len(log)
    BY <1>4, <2>1, Places DEF newest
  <2> QED BY <2>2 DEF Inv, Entries
<1>9. Fifo!Newest(t) = Newest(t)
  BY NewestIsLast
<1>10. Fifo!Receive(t, m)
  BY <1>5, <1>7, <1>9 DEF Fifo!Receive, Numbers
<1> QED BY <1>8, <1>10 DEF Fifo!Next

LEMMA OthersStutter ==
  UNCHANGED <<log, received, whenFullRemoveOlder>> => UNCHANGED Fifo!fifoVars
BY DEF Fifo!fifoVars, NumberOf

\* Every execution of the array is one of the FIFO broadcast of ClauseFifo: no
\* clause is handed over twice, out of order or to its author, and none is passed
\* over unless -removeolder drops clauses.
THEOREM ImplementsFifo == Spec => IsClauseFifo
<1>1. Init => Fifo!Init
  <2> SUFFICES ASSUME Init PROVE Fifo!Init
    OBVIOUS
  <2>1. \A t \in Threads : Numbers(received[t]) = << >>
    <3>1. << >> \in Seq(Message)
      OBVIOUS
    <3> QED BY <3>1, NumbersOf DEF Init
  <2> QED BY <2>1 DEF Init, Fifo!Init, Numbers
<1>2. Inv /\ [Next]_vars => [Fifo!Next]_(Fifo!fifoVars)
  <2> SUFFICES ASSUME Inv, [Next]_vars PROVE [Fifo!Next]_(Fifo!fifoVars)
    OBVIOUS
  <2>1. CASE PushClause
    BY <2>1, PushGives
  <2>2. CASE GetClause
    BY <2>2, GetReceives
  <2>3. CASE RemoveNext \/ MakeRoom \/ RoomMade \/ SkipOwn \/ GetNothing \/ GotClause
    BY <2>3, OthersStutter
    DEF RemoveNext, MakeRoom, RoomMade, SkipOwn, GetNothing, GotClause, historyVars
  <2>4. ASSUME NEW t \in Threads, EnterGet(t) PROVE UNCHANGED Fifo!fifoVars
    BY <2>4, OthersStutter DEF EnterGet, historyVars
  <2>5. ASSUME NEW t \in Threads, NEW size \in Sizes, EnterPush(t, size) PROVE UNCHANGED Fifo!fifoVars
    BY <2>5, OthersStutter DEF EnterPush, historyVars
  <2>6. ASSUME UNCHANGED vars PROVE UNCHANGED Fifo!fifoVars
    BY <2>6, OthersStutter DEF vars, historyVars
  <2>7. ASSUME NEW size \in Sizes, PushRefused(size) PROVE UNCHANGED Fifo!fifoVars
    <3>1. UNCHANGED vars
      BY <2>7 DEF PushRefused
    <3> QED BY <2>6, <3>1
  <2> QED BY <2>1, <2>2, <2>3, <2>4, <2>5, <2>6, <2>7 DEF Next, Inside
<1> QED BY <1>1, <1>2, Invariance, PTL DEF Spec, IsClauseFifo, Fifo!Spec

=============================================================================
