-------------------------------- MODULE Heap --------------------------------
(***************************************************************************)
(* The binary heap of glucose (mtl/Heap.h): a sequence in which no element *)
(* has a lower key than its parent.  The comparison is a parameter of the  *)
(* code's; the keys are one here.  The index the code keeps of every       *)
(* element is the place it has in the sequence.                            *)
(***************************************************************************)
EXTENDS Integers, SequencesExt

Parent(i) == i \div 2

Swapped(c, i, j) == [c EXCEPT ![i] = c[j], ![j] = c[i]]

\* The code moves a hole where these exchange neighbours.  A path is never
\* longer than the heap, and nothing moves once it has reached its end.
PercolateUp(h, i, key) ==
  LET step(a, x) ==
        IF a.i > 1 /\ key[a.h[a.i]] < key[a.h[Parent(a.i)]]
          THEN [h |-> Swapped(a.h, a.i, Parent(a.i)), i |-> Parent(a.i)]
          ELSE a
  IN  FoldLeft(step, [h |-> h, i |-> i], h).h

PercolateDown(h, i, key) ==
  LET first(g, j) == IF 2 * j + 1 <= Len(g) /\ key[g[2 * j + 1]] < key[g[2 * j]] THEN 2 * j + 1 ELSE 2 * j
      step(a, x) ==
        IF 2 * a.i <= Len(a.h) /\ key[a.h[first(a.h, a.i)]] < key[a.h[a.i]]
          THEN [h |-> Swapped(a.h, a.i, first(a.h, a.i)), i |-> first(a.h, a.i)]
          ELSE a
  IN  FoldLeft(step, [h |-> h, i |-> i], h).h

InHeap(h, n)  == n \in ToSet(h)
IndexIn(h, n) == CHOOSE i \in DOMAIN h : h[i] = n

HeapInsert(h, n, key)   == PercolateUp(Append(h, n), Len(h) + 1, key)
HeapIncrease(h, n, key) == PercolateDown(h, IndexIn(h, n), key)

\* update: an element whose key may have changed either way.
HeapUpdate(h, n, key) ==
  IF ~InHeap(h, n) THEN HeapInsert(h, n, key)
  ELSE LET up == PercolateUp(h, IndexIn(h, n), key)
       IN  PercolateDown(up, IndexIn(up, n), key)

\* removeMin returns h[1] and leaves this: the last element takes its place.
WithoutMin(h, key) ==
  IF Len(h) = 1 THEN << >> ELSE PercolateDown([Front(h) EXCEPT ![1] = Last(h)], 1, key)

\* No element has a lower key than its parent: the first one is a least one.
IsHeap(h, key) == \A i \in 2 .. Len(h) : key[h[i]] >= key[h[Parent(i)]]
=============================================================================
