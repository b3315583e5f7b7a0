-------------------------- MODULE RecursionProofs --------------------------
(***************************************************************************)
(* What the recursive functions of Lists compute, for every sequence:      *)
(* SumOf is the last of the partial sums, grows with the items and takes   *)
(* every value between two of its values; Selected and Unique keep the     *)
(* items asked for and lose none.                                          *)
(***************************************************************************)
EXTENDS Lists, FiniteSetTheorems, WellFoundedInduction, SequenceTheorems, TLAPS

-----------------------------------------------------------------------------
(* Induction for statements given as sets.  The provers do not instantiate *)
(* a theorem with an operator parameter; a set they do: the natural        *)
(* numbers, or the elements of a finite set, for which a statement holds.  *)

\* Every non-empty set of natural numbers has a least element.
LEMMA LeastElement ==
  ASSUME NEW S, S \subseteq Nat, S # {}
  PROVE  \E m \in S : \A n \in S : m <= n
<1> DEFINE Below == {0 .. n : n \in S}
           R     == StrictSubsetOrdering(Nat)
<1>1. Below \subseteq FiniteSubsetsOf(Nat) /\ Below # {}
  <2> SUFFICES ASSUME NEW n \in S PROVE 0 .. n \in FiniteSubsetsOf(Nat)
    OBVIOUS
  <2>1. n \in Int /\ IsFiniteSet(0 .. n)
    BY FS_Interval
  <2>2. 0 .. n \in SUBSET Nat
    BY <2>1
  <2> QED BY <2>1, <2>2 DEF FiniteSubsetsOf
<1>2. \E b \in Below : \A c \in Below : ~(<<c, b>> \in R)
  <2>1. IsWellFoundedOn(R, FiniteSubsetsOf(Nat))
    BY FS_StrictSubsetOrderingWellFounded
  <2> HIDE DEF Below, R
  <2> QED BY <1>1, <2>1, WFMin
<1>3. PICK m \in S : \A n \in S : ~(<<0 .. n, 0 .. m>> \in R)
  BY <1>2
<1>4. ASSUME NEW n \in S, ~(m <= n) PROVE FALSE
  <2>1. m \in 0 .. m /\ m \notin 0 .. n /\ 0 .. n \subseteq 0 .. m /\ 0 .. m \subseteq Nat
    BY <1>4
  <2> QED BY <1>3, <2>1 DEF StrictSubsetOrdering
<1> QED BY <1>4

\* A set of natural numbers with 0 and closed under successor is Nat.
LEMMA NatInductionOnSet ==
  ASSUME NEW S, 0 \in S, \A n \in Nat : n \in S => n + 1 \in S
  PROVE  Nat \subseteq S
<1> SUFFICES ASSUME Nat \ S # {} PROVE FALSE
  OBVIOUS
<1>1. PICK m \in Nat \ S : \A n \in Nat \ S : m <= n
  BY LeastElement
<1>2. m - 1 \in Nat /\ m - 1 \notin Nat \ S
  BY <1>1
<1> QED BY <1>1, <1>2

\* Up to a bound.
LEMMA BoundedInduction ==
  ASSUME NEW n \in Nat, NEW S, 0 \in S, \A i \in 1 .. n : i - 1 \in S => i \in S
  PROVE  0 .. n \subseteq S
<1> DEFINE Reached == {k \in Nat : k <= n => k \in S}
<1>1. 0 \in Reached
  OBVIOUS
<1>2. ASSUME NEW k \in Nat, k \in Reached PROVE k + 1 \in Reached
  <2> SUFFICES ASSUME k + 1 <= n PROVE k + 1 \in S
    OBVIOUS
  <2> DEFINE j == k + 1
  <2>1. j \in 1 .. n /\ j - 1 = k /\ k \in S
    BY <1>2
  <2> HIDE DEF j
  <2>2. j \in S
    BY <2>1
  <2> QED BY <2>2 DEF j
<1>3. Nat \subseteq Reached
  <2> HIDE DEF Reached
  <2> QED BY <1>1, <1>2, NatInductionOnSet
<1> QED BY <1>3

\* A function given by its first value and a step exists.
Steps(n, V) == [1 .. n -> [V -> V]]

Follows(f, n, V, base, step) ==
  f \in [0 .. n -> V] /\ f[0] = base /\ \A i \in 1 .. n : f[i] = step[i][f[i - 1]]

LEMMA RecursiveFunction ==
  ASSUME NEW n \in Nat, NEW V, NEW base \in V, NEW step \in Steps(n, V)
  PROVE  \E f : Follows(f, n, V, base, step)
<1> DEFINE Upto(k) == {f \in [0 .. k -> V] : f[0] = base /\ \A i \in 1 .. k : f[i] = step[i][f[i - 1]]}
           S == {k \in 0 .. n : Upto(k) # {}}
<1>0. step \in [1 .. n -> [V -> V]]
  BY DEF Steps
<1>1. 0 \in S
  <2>1. [i \in 0 .. 0 |-> base] \in Upto(0)
    OBVIOUS
  <2> HIDE DEF Upto
  <2> QED BY <2>1
<1>2. ASSUME NEW k \in 1 .. n, k - 1 \in S PROVE k \in S
  <2>1. PICK f \in Upto(k - 1) : TRUE
    BY <1>2
  <2> DEFINE g == [i \in 0 .. k |-> IF i = k THEN step[k][f[k - 1]] ELSE f[i]]
  <2>2. f \in [0 .. k - 1 -> V] /\ f[0] = base /\ \A i \in 1 .. k - 1 : f[i] = step[i][f[i - 1]]
    BY <2>1
  <2>3. g \in [0 .. k -> V]
    <3>1. f[k - 1] \in V
      BY <2>2
    <3>2. step[k] \in [V -> V]
      BY <1>0
    <3>3. step[k][f[k - 1]] \in V
      BY <3>1, <3>2
    <3> HIDE DEF g
    <3>4. \A i \in 0 .. k : i # k => f[i] \in V
      BY <2>2
    <3> QED BY <3>3, <3>4 DEF g
  <2>4. g[0] = base
    BY <2>2
  <2>5. ASSUME NEW i \in 1 .. k PROVE g[i] = step[i][g[i - 1]]
    <3>1. g[i - 1] = f[i - 1]
      <4>1. i - 1 \in 0 .. k /\ i - 1 # k
        OBVIOUS
      <4> QED BY <4>1
    <3>2. CASE i = k
      BY <3>1, <3>2
    <3>3. CASE i # k
      <4>1. i \in 1 .. k - 1 /\ g[i] = f[i]
        BY <3>3
      <4> HIDE DEF g
      <4> QED BY <2>2, <3>1, <4>1
    <3> QED BY <3>2, <3>3
  <2> HIDE DEF g
  <2>6. g \in Upto(k)
    BY <2>3, <2>4, <2>5
  <2> HIDE DEF Upto
  <2> QED BY <2>6
<1>3. n \in S
  <2> HIDE DEF S
  <2>1. 0 .. n \subseteq S
    BY <1>1, <1>2, BoundedInduction
  <2> QED BY <2>1
<1>4. PICK f \in Upto(n) : TRUE
  BY <1>3
<1>5. f \in [0 .. n -> V] /\ f[0] = base /\ \A i \in 1 .. n : f[i] = step[i][f[i - 1]]
  BY <1>4
<1> QED BY <1>5 DEF Follows

-----------------------------------------------------------------------------
(* Sums.                                                                   *)

\* The sum of a sequence is the last of its partial sums.
LEMMA PartialSums ==
  ASSUME NEW n \in Nat, NEW s \in [1 .. n -> Int]
  PROVE  \E p \in [0 .. n -> Int] :
            p[0] = 0 /\ (\A i \in 1 .. n : p[i] = p[i - 1] + s[i]) /\ SumOf(s) = p[n]
<1> DEFINE Sums(k) == {p \in [0 .. k -> Int] : p = [i \in 0 .. k |-> IF i = 0 THEN 0 ELSE p[i - 1] + s[i]]}
           S == {k \in Nat : k <= n => Sums(k) # {}}
<1>1. 0 \in S
  <2>1. [i \in 0 .. 0 |-> 0] \in Sums(0)
    OBVIOUS
  <2> QED BY <2>1
<1>2. ASSUME NEW k \in Nat, k \in S PROVE k + 1 \in S
  <2> HIDE DEF Sums
  <2> SUFFICES ASSUME k + 1 <= n PROVE Sums(k + 1) # {}
    OBVIOUS
  <2>a. k <= n
    OBVIOUS
  <2>b. Sums(k) # {}
    BY <1>2, <2>a
  <2>1. PICK p : p \in Sums(k)
    BY ONLY <2>b
  <2> USE DEF Sums
  <2> DEFINE q == [i \in 0 .. k + 1 |-> IF i = k + 1 THEN p[k] + s[k + 1] ELSE p[i]]
  <2>2. p \in [0 .. k -> Int] /\ p = [i \in 0 .. k |-> IF i = 0 THEN 0 ELSE p[i - 1] + s[i]]
    BY <2>1
  <2>3. q \in [0 .. k + 1 -> Int]
    BY <2>2
  <2>4. \A i \in 0 .. k + 1 : q[i] = IF i = 0 THEN 0 ELSE q[i - 1] + s[i]
    <3> TAKE i \in 0 .. k + 1
    <3>1. CASE i = k + 1
      BY <3>1
    <3>2. CASE i # k + 1
      <4>1. i \in 0 .. k /\ (i # 0 => i - 1 \in 0 .. k /\ i - 1 # k + 1 /\ i - 1 \in 0 .. k + 1)
        BY <3>2
      <4>2. p[i] = IF i = 0 THEN 0 ELSE p[i - 1] + s[i]
        BY <2>2, <4>1
      <4> QED BY <3>2, <4>1, <4>2
    <3> QED BY <3>1, <3>2
  <2>5. q \in Sums(k + 1)
    <3> HIDE DEF q
    <3> QED BY <2>3, <2>4
  <2> QED BY <2>5
<1>3. Sums(n) # {}
  <2> HIDE DEF S
  <2>1. n \in S
    BY <1>1, <1>2, NatInductionOnSet
  <2> QED BY <2>1 DEF S
<1> DEFINE sum[i \in 0 .. n] == IF i = 0 THEN 0 ELSE sum[i - 1] + s[i]
<1>4. PICK p \in [0 .. n -> Int] : p = [i \in 0 .. n |-> IF i = 0 THEN 0 ELSE p[i - 1] + s[i]]
  BY <1>3
<1>5. sum = [i \in 0 .. n |-> IF i = 0 THEN 0 ELSE sum[i - 1] + s[i]]
  <2>1. \E f : f = [i \in 0 .. n |-> IF i = 0 THEN 0 ELSE f[i - 1] + s[i]]
    BY <1>4
  <2> QED BY <2>1, Zenon
<1>6. SumOf(s) = sum[n]
  <2>1. Len(s) = n
    BY LenProperties, SeqDef
  <2> QED BY <2>1 DEF SumOf
<1> HIDE DEF sum
<1>7. sum \in [0 .. n -> Int]
  <2> DEFINE T == {k \in Nat : k <= n => sum[k] \in Int}
  <2>1. 0 \in T
    BY <1>5
  <2>2. ASSUME NEW k \in Nat, k \in T PROVE k + 1 \in T
    <3> SUFFICES ASSUME k + 1 <= n PROVE sum[k + 1] \in Int
      OBVIOUS
    <3>1. k + 1 \in 0 .. n /\ k + 1 # 0 /\ sum[k + 1] = sum[k + 1 - 1] + s[k + 1] /\ k + 1 - 1 = k
      BY <1>5
    <3> QED BY <2>2, <3>1
  <2> HIDE DEF T
  <2>3. Nat \subseteq T
    BY <2>1, <2>2, NatInductionOnSet
  <2>4. \A k \in 0 .. n : sum[k] \in Int
    BY <2>3 DEF T
  <2> QED BY <1>5, <2>4
<1>8. sum[0] = 0 /\ \A i \in 1 .. n : sum[i] = sum[i - 1] + s[i]
  BY <1>5
<1> QED BY <1>6, <1>7, <1>8

\* What starts lower and never climbs more ends lower.
LEMMA Climb ==
  ASSUME NEW n \in Nat, NEW p, NEW q,
         \A i \in 0 .. n : p[i] \in Int /\ q[i] \in Int,
         p[0] <= q[0], \A i \in 1 .. n : p[i] - p[i - 1] <= q[i] - q[i - 1]
  PROVE  p[n] <= q[n]
<1> DEFINE S == {k \in Nat : k <= n => p[k] <= q[k]}
<1>1. 0 \in S
  OBVIOUS
<1>2. ASSUME NEW k \in Nat, k \in S PROVE k + 1 \in S
  <2> SUFFICES ASSUME k + 1 <= n PROVE p[k + 1] <= q[k + 1]
    OBVIOUS
  <2>1. k + 1 \in 1 .. n /\ k \in 0 .. n /\ k + 1 \in 0 .. n /\ k + 1 - 1 = k
    OBVIOUS
  <2>2. p[k] <= q[k] /\ p[k + 1] - p[k] <= q[k + 1] - q[k]
    BY <1>2, <2>1
  <2>3. p[k] \in Int /\ q[k] \in Int /\ p[k + 1] \in Int /\ q[k + 1] \in Int
    BY <2>1
  <2> QED BY <2>2, <2>3
<1> HIDE DEF S
<1>3. Nat \subseteq S
  BY <1>1, <1>2, NatInductionOnSet
<1> QED BY <1>3 DEF S

\* Smaller items have a smaller sum.
LEMMA SumMonotone ==
  ASSUME NEW n \in Nat, NEW s \in [1 .. n -> Int], NEW t \in [1 .. n -> Int],
         \A i \in 1 .. n : s[i] <= t[i]
  PROVE  SumOf(s) \in Int /\ SumOf(t) \in Int /\ SumOf(s) <= SumOf(t)
<1>1. PICK p \in [0 .. n -> Int] :
        p[0] = 0 /\ (\A i \in 1 .. n : p[i] = p[i - 1] + s[i]) /\ SumOf(s) = p[n]
  BY PartialSums
<1>2. PICK q \in [0 .. n -> Int] :
        q[0] = 0 /\ (\A i \in 1 .. n : q[i] = q[i - 1] + t[i]) /\ SumOf(t) = q[n]
  BY PartialSums
<1>3. \A i \in 0 .. n : p[i] \in Int /\ q[i] \in Int
  OBVIOUS
<1>4. ASSUME NEW i \in 1 .. n PROVE p[i] - p[i - 1] <= q[i] - q[i - 1]
  <2>1. i \in 0 .. n /\ i - 1 \in 0 .. n
    OBVIOUS
  <2>2. p[i] = p[i - 1] + s[i] /\ q[i] = q[i - 1] + t[i] /\ s[i] <= t[i] /\ s[i] \in Int /\ t[i] \in Int
    BY <1>1, <1>2
  <2>3. p[i - 1] \in Int /\ q[i - 1] \in Int
    BY <1>3, <2>1
  <2> QED BY <2>2, <2>3
<1>5. p[n] <= q[n]
  <2>1. p[0] <= q[0]
    BY <1>1, <1>2
  <2> QED BY <1>3, <1>4, <2>1, Climb, Zenon
<1> QED BY <1>1, <1>2, <1>3, <1>5

\* The sum is the last of any partial sums.
LEMMA SumIs ==
  ASSUME NEW n \in Nat, NEW s \in [1 .. n -> Int], NEW p \in [0 .. n -> Int],
         p[0] = 0, \A i \in 1 .. n : p[i] - p[i - 1] = s[i]
  PROVE  SumOf(s) = p[n]
<1>1. PICK q \in [0 .. n -> Int] :
        q[0] = 0 /\ (\A i \in 1 .. n : q[i] = q[i - 1] + s[i]) /\ SumOf(s) = q[n]
  BY PartialSums
<1>2. \A i \in 0 .. n : p[i] \in Int /\ q[i] \in Int
  OBVIOUS
<1>3. ASSUME NEW i \in 1 .. n PROVE p[i] - p[i - 1] = q[i] - q[i - 1] /\ q[i] - q[i - 1] \in Int
  <2>1. i - 1 \in 0 .. n /\ i \in 0 .. n
    OBVIOUS
  <2> DEFINE a == q[i - 1]
             b == q[i]
             d == s[i]
  <2>2. b = a + d /\ d \in Int /\ a \in Int
    BY <1>1, <1>2, <2>1
  <2>3. p[i] - p[i - 1] = d
    OBVIOUS
  <2> HIDE DEF a, b, d
  <2>4. b - a = d /\ b - a \in Int
    BY <2>2
  <2> QED BY <2>3, <2>4 DEF a, b
<1>4. /\ p[0] <= q[0] /\ q[0] <= p[0]
      /\ \A i \in 1 .. n : p[i] - p[i - 1] <= q[i] - q[i - 1] /\ q[i] - q[i - 1] <= p[i] - p[i - 1]
  BY <1>1, <1>3
<1>5. p[n] <= q[n] /\ q[n] <= p[n]
  BY <1>2, <1>4, Climb, Zenon
<1>6. n \in 0 .. n
  OBVIOUS
<1> QED BY <1>1, <1>2, <1>5, <1>6

\* One less in each of n items is n less in the sum.
LEMMA SumOfPredecessors ==
  ASSUME NEW n \in Nat, NEW s \in [1 .. n -> Int]
  PROVE  SumOf(s) \in Int /\ SumOf([i \in 1 .. n |-> s[i] - 1]) = SumOf(s) - n
<1>1. PICK p \in [0 .. n -> Int] :
        p[0] = 0 /\ (\A i \in 1 .. n : p[i] = p[i - 1] + s[i]) /\ SumOf(s) = p[n]
  BY PartialSums
<1> DEFINE q == [i \in 0 .. n |-> p[i] - i]
           t == [i \in 1 .. n |-> s[i] - 1]
<1>2. /\ q \in [0 .. n -> Int] /\ \A i \in 0 .. n : q[i] = p[i] - i /\ p[i] \in Int
      /\ t \in [1 .. n -> Int] /\ \A i \in 1 .. n : t[i] = s[i] - 1 /\ s[i] \in Int
  OBVIOUS
<1>3. 0 \in 0 .. n /\ n \in 0 .. n
  OBVIOUS
<1> HIDE DEF q, t
<1>4. q[0] = 0
  BY <1>1, <1>2, <1>3
<1>5. ASSUME NEW i \in 1 .. n PROVE q[i] - q[i - 1] = t[i]
  <2>1. i \in 0 .. n /\ i - 1 \in 0 .. n
    OBVIOUS
  <2>2. q[i] = p[i] - i /\ q[i - 1] = p[i - 1] - (i - 1) /\ p[i - 1] \in Int
    BY <1>2, <2>1
  <2>3. p[i] = p[i - 1] + s[i] /\ t[i] = s[i] - 1 /\ s[i] \in Int
    BY <1>1, <1>2
  <2> QED BY <2>2, <2>3
<1>6. SumOf(t) = q[n]
  BY <1>2, <1>4, <1>5, SumIs
<1> QED BY <1>1, <1>2, <1>3, <1>6 DEF t

\* The sum of n items each of which is less is less by n.
LEMMA SumStrict ==
  ASSUME NEW n \in Nat, NEW s \in [1 .. n -> Int], NEW t \in [1 .. n -> Int],
         \A i \in 1 .. n : s[i] < t[i]
  PROVE  SumOf(s) \in Int /\ SumOf(t) \in Int /\ SumOf(s) + n <= SumOf(t)
<1> DEFINE r == [i \in 1 .. n |-> t[i] - 1]
<1>1. r \in [1 .. n -> Int] /\ \A i \in 1 .. n : s[i] <= r[i]
  OBVIOUS
<1>2. SumOf(r) = SumOf(t) - n /\ SumOf(t) \in Int
  BY SumOfPredecessors
<1> HIDE DEF r
<1>3. SumOf(s) \in Int /\ SumOf(s) <= SumOf(r)
  BY <1>1, SumMonotone
<1> QED BY <1>2, <1>3

LEMMA Predecessor ==
  ASSUME NEW n \in Nat, NEW k \in Nat, k + 1 <= n, NEW i \in 1 .. (k + 1)
  PROVE  i \in 0 .. n /\ i - 1 \in 0 .. n /\ i - 1 # k + 1
OBVIOUS

LEMMA Between ==
  ASSUME NEW l \in Int, NEW h \in Int, NEW lo \in Int, NEW hi \in Int, NEW x \in Int,
         l <= h, lo <= hi, l + lo <= x, x <= h + hi
  PROVE  \E y \in l .. h : x - y \in lo .. hi
<1>1. CASE x - hi >= l
  <2>1. x - hi \in l .. h /\ x - (x - hi) \in lo .. hi
    BY <1>1
  <2> QED BY <2>1
<1>2. CASE ~(x - hi >= l)
  <2>1. l \in l .. h /\ x - l \in lo .. hi
    BY <1>2
  <2> QED BY <2>1
<1> QED BY <1>1, <1>2

\* Between the sums of two sequences every integer is the sum of a sequence
\* between the two.
LEMMA SumReaches ==
  ASSUME NEW n \in Nat, NEW lo \in [1 .. n -> Int], NEW hi \in [1 .. n -> Int],
         \A i \in 1 .. n : lo[i] <= hi[i],
         NEW m \in SumOf(lo) .. SumOf(hi)
  PROVE  \E s \in [1 .. n -> Int] :
            (\A i \in 1 .. n : s[i] \in lo[i] .. hi[i]) /\ SumOf(s) = m
<1>1. PICK l \in [0 .. n -> Int] :
        l[0] = 0 /\ (\A i \in 1 .. n : l[i] = l[i - 1] + lo[i]) /\ SumOf(lo) = l[n]
  BY PartialSums
<1>2. PICK h \in [0 .. n -> Int] :
        h[0] = 0 /\ (\A i \in 1 .. n : h[i] = h[i - 1] + hi[i]) /\ SumOf(hi) = h[n]
  BY PartialSums
<1> DEFINE Reaches(k, x, p) == /\ p \in [0 .. n -> Int] /\ p[0] = 0 /\ p[k] = x
                               /\ \A i \in 1 .. k : p[i] - p[i - 1] \in lo[i] .. hi[i]
           S == {k \in Nat : k <= n => \A x \in l[k] .. h[k] : \E p : Reaches(k, x, p)}
<1>3. 0 \in S
  <2>1. ASSUME NEW x \in l[0] .. h[0] PROVE Reaches(0, x, [i \in 0 .. n |-> 0])
    BY <1>1, <1>2
  <2> HIDE DEF Reaches
  <2> QED BY <2>1
<1>4. ASSUME NEW k \in Nat, k \in S PROVE k + 1 \in S
  <2> SUFFICES ASSUME k + 1 <= n, NEW x \in l[k + 1] .. h[k + 1]
               PROVE  \E p : Reaches(k + 1, x, p)
    <3> HIDE DEF Reaches
    <3> QED OBVIOUS
  <2>1. k + 1 \in 1 .. n /\ k \in 0 .. n /\ k + 1 \in 0 .. n /\ k + 1 - 1 = k
    OBVIOUS
  <2>2. /\ l[k + 1] = l[k] + lo[k + 1] /\ h[k + 1] = h[k] + hi[k + 1] /\ lo[k + 1] <= hi[k + 1]
        /\ l[k] \in Int /\ h[k] \in Int /\ lo[k + 1] \in Int /\ hi[k + 1] \in Int
    BY <1>1, <1>2, <2>1
  <2>3. \E y \in l[k] .. h[k] : x - y \in lo[k + 1] .. hi[k + 1]
    <3>1. x \in Int /\ l[k] + lo[k + 1] <= x /\ x <= h[k] + hi[k + 1]
      BY <2>2
    <3>2. l[k] <= h[k]
      <4>1. \A i \in 0 .. k : l[i] \in Int /\ h[i] \in Int
        BY <2>1
      <4>2. ASSUME NEW i \in 1 .. k PROVE l[i] - l[i - 1] <= h[i] - h[i - 1]
        <5>1. i \in 1 .. n /\ i - 1 \in 0 .. k
          BY <2>1
        <5>2. l[i] = l[i - 1] + lo[i] /\ h[i] = h[i - 1] + hi[i] /\ lo[i] <= hi[i]
          BY <1>1, <1>2, <5>1
        <5>3. l[i - 1] \in Int /\ h[i - 1] \in Int /\ lo[i] \in Int /\ hi[i] \in Int
          BY <4>1, <5>1
        <5> QED BY SMTT(30), <5>2, <5>3
      <4>3. l[0] <= h[0]
        BY <1>1, <1>2
      <4> QED BY <4>1, <4>2, <4>3, Climb, Zenon
    <3> QED BY <2>2, <3>1, <3>2, Between
  <2>4. PICK y \in l[k] .. h[k] : x - y \in lo[k + 1] .. hi[k + 1]
    BY <2>3
  <2>5. PICK p : Reaches(k, y, p)
    <3> HIDE DEF Reaches
    <3> QED BY <1>4, <2>1
  <2> DEFINE q == [i \in 0 .. n |-> IF i = k + 1 THEN x ELSE p[i]]
  <2>6. \A i \in 0 .. n : p[i] \in Int /\ p[0] = 0 /\ p[k] = y
    BY <2>5
  <2>7. q \in [0 .. n -> Int] /\ \A i \in 0 .. n : q[i] = IF i = k + 1 THEN x ELSE p[i]
    BY <2>2, <2>6
  <2> HIDE DEF q
  <2>8. ASSUME NEW i \in 1 .. k + 1 PROVE q[i] - q[i - 1] \in lo[i] .. hi[i]
    <3>1. i \in 0 .. n /\ i - 1 \in 0 .. n /\ i - 1 # k + 1
      <4>1. k + 1 <= n
        OBVIOUS
      <4> HIDE DEF S, Reaches
      <4> QED BY <4>1, Predecessor
    <3>2. q[i - 1] = p[i - 1]
      BY <2>7, <3>1
    <3>3. CASE i = k + 1
      <4>1. q[i] = x /\ q[i - 1] = y
        BY <2>1, <2>6, <2>7, <3>1, <3>2, <3>3
      <4> QED BY <2>4, <3>3, <4>1
    <3>4. CASE i # k + 1
      <4>1. i \in 1 .. k /\ q[i] = p[i]
        BY <2>7, <3>1, <3>4
      <4> QED BY <2>5, <3>2, <4>1
    <3> QED BY <3>3, <3>4
  <2>9. q[0] = 0 /\ q[k + 1] = x
    <3>1. 0 \in 0 .. n /\ 0 # k + 1
      OBVIOUS
    <3> QED BY <2>1, <2>6, <2>7, <3>1
  <2>10. Reaches(k + 1, x, q)
    BY <2>7, <2>8, <2>9
  <2> HIDE DEF Reaches
  <2> QED BY <2>10
<1>5. PICK p : Reaches(n, m, p)
  <2> HIDE DEF S, Reaches
  <2>1. Nat \subseteq S
    BY <1>3, <1>4, NatInductionOnSet
  <2>2. \A x \in l[n] .. h[n] : \E p : Reaches(n, x, p)
    BY <2>1 DEF S
  <2> QED BY <1>1, <1>2, <2>2
<1> DEFINE s == [i \in 1 .. n |-> p[i] - p[i - 1]]
<1>6. \A i \in 1 .. n : s[i] = p[i] - p[i - 1] /\ s[i] \in lo[i] .. hi[i] /\ s[i] \in Int
  <2>1. \A i \in 1 .. n : p[i] - p[i - 1] \in lo[i] .. hi[i]
    BY <1>5
  <2>2. \A i \in 1 .. n : s[i] = p[i] - p[i - 1]
    OBVIOUS
  <2> HIDE DEF s
  <2> QED BY <2>1, <2>2
<1>7. s \in [1 .. n -> Int]
  BY <1>5
<1>8. p \in [0 .. n -> Int] /\ p[0] = 0 /\ p[n] = m
  BY <1>5
<1> HIDE DEF s
<1>9. SumOf(s) = m
  BY <1>6, <1>7, <1>8, SumIs
<1> QED BY <1>6, <1>7, <1>9

-----------------------------------------------------------------------------
\* The items of t are those of s at the positions in I.
Chosen(t, s, I) ==
  \A x : (\E k \in DOMAIN t : t[k] = x) <=> \E i \in 1 .. Len(s) : i \in I /\ s[i] = x

\* The items selected among the first i, for every i.
SelectedUpto(f, s, I) ==
  /\ f[0] = << >>
  /\ \A i \in 1 .. Len(s) : f[i] = IF i \in I THEN Append(f[i - 1], s[i]) ELSE f[i - 1]

LEMMA SelectedSteps ==
  ASSUME NEW S, NEW s \in Seq(S), NEW I
  PROVE  \E f \in [0 .. Len(s) -> Seq(S)] : SelectedUpto(f, s, I) /\ Selected(s, I) = f[Len(s)]
<1> DEFINE n == Len(s)
           V == Seq(S)
           step == [i \in 1 .. n |-> [q \in V |-> IF i \in I THEN Append(q, s[i]) ELSE q]]
           Next1(f, i) == IF i = 0 THEN << >>
                          ELSE IF i \in I THEN Append(f[i - 1], s[i]) ELSE f[i - 1]
           upto[i \in 0 .. n] == IF i = 0 THEN << >>
                                 ELSE IF i \in I THEN Append(upto[i - 1], s[i]) ELSE upto[i - 1]
<1>1. n \in Nat /\ \A i \in 1 .. n : s[i] \in S
  BY LenProperties, ElementOfSeq
<1>2. << >> \in V
  OBVIOUS
<1>3. step \in Steps(n, V)
  <2>1. \A i \in 1 .. n : \A q \in V : Append(q, s[i]) \in V
    BY <1>1, AppendProperties
  <2>2. \A i \in 1 .. n : [q \in V |-> IF i \in I THEN Append(q, s[i]) ELSE q] \in [V -> V]
    <3> HIDE DEF n, V
    <3> QED BY <2>1
  <2> HIDE DEF n, V
  <2> QED BY <2>2 DEF Steps
<1>4. PICK f : Follows(f, n, V, << >>, step)
  <2> HIDE DEF n, V, step, upto
  <2> QED BY <1>1, <1>2, <1>3, RecursiveFunction
<1>5. f = [i \in 0 .. n |-> Next1(f, i)]
  <2>1. ASSUME NEW i \in 1 .. n PROVE step[i][f[i - 1]] = Next1(f, i)
    <3>1. i - 1 \in 0 .. n /\ i # 0
      BY <1>1
    <3>2. f[i - 1] \in V
      BY <1>4, <3>1 DEF Follows
    <3> HIDE DEF V, n
    <3> QED BY <3>1, <3>2
  <2>2. ASSUME NEW i \in 0 .. n PROVE f[i] = Next1(f, i)
    <3>1. f[0] = << >> /\ \A j \in 1 .. n : f[j] = step[j][f[j - 1]]
      BY <1>4 DEF Follows
    <3>2. i # 0 => i \in 1 .. n
      BY <1>1
    <3> HIDE DEF step, n, V
    <3> QED BY <2>1, <3>1, <3>2
  <2>3. f = [i \in 0 .. n |-> f[i]]
    <3> HIDE DEF V, step, n
    <3> QED BY <1>4 DEF Follows
  <2> HIDE DEF Next1, step, n, V
  <2> QED BY <2>2, <2>3
<1>6. upto = [i \in 0 .. n |-> Next1(upto, i)]
  <2>1. \E g : g = [i \in 0 .. n |-> Next1(g, i)]
    BY <1>5
  <2> QED BY <2>1, Zenon
<1>7. Selected(s, I) = upto[n]
  BY DEF Selected
<1> HIDE DEF upto, step, n
<1>8. \A i \in 0 .. n : upto[i] = Next1(upto, i)
  BY <1>6
<1> HIDE DEF V
<1> DEFINE Typable == {i \in 0 .. n : upto[i] \in V}
<1>9. 0 \in Typable
  <2>1. 0 \in 0 .. n
    BY <1>1
  <2>2. upto[0] = Next1(upto, 0)
    BY <1>8, <2>1
  <2> QED BY <1>2, <2>1, <2>2
<1>10. ASSUME NEW i \in 1 .. n, i - 1 \in Typable PROVE i \in Typable
  <2>1. i \in 0 .. n /\ i # 0
    BY <1>1
  <2>2. upto[i] = IF i \in I THEN Append(upto[i - 1], s[i]) ELSE upto[i - 1]
    BY <1>8, <2>1
  <2>3. \A q \in V : Append(q, s[i]) \in V
    BY <1>1, AppendProperties DEF V
  <2> QED BY <1>10, <2>1, <2>2, <2>3
<1>11. \A i \in 0 .. n : upto[i] \in V
  <2> HIDE DEF Typable
  <2>1. 0 .. n \subseteq Typable
    BY <1>1, <1>9, <1>10, BoundedInduction
  <2> QED BY <2>1 DEF Typable
<1>12. upto \in [0 .. n -> V]
  <2>1. upto = [i \in 0 .. n |-> upto[i]]
    BY <1>6, <1>8
  <2> QED BY <1>11, <2>1
<1>13. \A i \in 1 .. n : i \in 0 .. n /\ i # 0
  BY <1>1
<1>14. 0 \in 0 .. n
  BY <1>1
<1>15. upto[0] = << >> /\ \A i \in 1 .. n : upto[i] = IF i \in I THEN Append(upto[i - 1], s[i]) ELSE upto[i - 1]
  BY <1>8, <1>13, <1>14
<1> HIDE DEF Next1
<1> QED BY <1>7, <1>12, <1>15 DEF SelectedUpto, n, V

\* Selected keeps the items at the positions asked for, and only those.
LEMMA SelectedItems ==
  ASSUME NEW S, NEW s \in Seq(S), NEW I
  PROVE  Selected(s, I) \in Seq(S) /\ Chosen(Selected(s, I), s, I)
<1> DEFINE n == Len(s)
           V == Seq(S)
<1>1. n \in Nat /\ \A i \in 1 .. n : s[i] \in S
  BY LenProperties, ElementOfSeq
<1>2. << >> \in V
  OBVIOUS
<1>7. PICK upto \in [0 .. n -> V] : SelectedUpto(upto, s, I) /\ Selected(s, I) = upto[n]
  BY SelectedSteps
<1>8. upto[0] = << >> /\ \A i \in 1 .. n : upto[i] = IF i \in I THEN Append(upto[i - 1], s[i]) ELSE upto[i - 1]
  BY <1>7 DEF SelectedUpto
<1> HIDE DEF n
<1> DEFINE Good(i, q) == /\ q \in V
                         /\ \A x : (\E k \in 1 .. Len(q) : q[k] = x) <=> \E j \in 1 .. i : j \in I /\ s[j] = x
           Reached == {i \in 0 .. n : Good(i, upto[i])}
<1>9. 0 \in Reached
  <2>0. 0 \in 0 .. n
    BY <1>1
  <2>1. upto[0] = << >> /\ 0 \in 0 .. n
    BY <1>8, <2>0
  <2>2. Good(0, << >>)
    <3>1. ~(\E k \in 1 .. Len(<< >>) : TRUE) /\ ~(\E j \in 1 .. 0 : TRUE)
      OBVIOUS
    <3> HIDE DEF V
    <3> QED BY <1>2, <3>1
  <2> HIDE DEF Good
  <2> QED BY <2>1, <2>2
<1>10. ASSUME NEW i \in 1 .. n, i - 1 \in Reached PROVE i \in Reached
  <2> DEFINE q == upto[i - 1]
             r == upto[i]
  <2>1. i \in 0 .. n /\ i # 0 /\ i \in Nat /\ i - 1 \in Nat /\ 1 .. i = 1 .. (i - 1) \cup {i}
    BY <1>1
  <2>2. q \in V /\ \A x : (\E k \in 1 .. Len(q) : q[k] = x) <=> \E j \in 1 .. (i - 1) : j \in I /\ s[j] = x
    BY <1>10
  <2>3. r = IF i \in I THEN Append(q, s[i]) ELSE q
    BY <1>8, <2>1
  <2> HIDE DEF q, r, V
  <2>4. Good(i, r)
    <3>1. CASE i \in I
      <4>0. q \in Seq(S) /\ s[i] \in S /\ r = Append(q, s[i])
        BY <1>1, <2>2, <2>3, <3>1 DEF V
      <4>1. /\ r \in V /\ Len(r) = Len(q) + 1 /\ Len(q) \in Nat /\ r[Len(q) + 1] = s[i]
            /\ \A k \in 1 .. Len(q) : r[k] = q[k]
        BY <4>0, AppendProperties, LenProperties DEF V
      <4>2. \A x : (\E k \in 1 .. Len(r) : r[k] = x) <=> (\E k \in 1 .. Len(q) : q[k] = x) \/ s[i] = x
        <5>1. 1 .. Len(r) = 1 .. Len(q) \cup {Len(q) + 1}
          BY <4>1
        <5> QED BY <4>1, <5>1
      <4>3. \A x : (\E j \in 1 .. i : j \in I /\ s[j] = x) <=> (\E j \in 1 .. (i - 1) : j \in I /\ s[j] = x) \/ s[i] = x
        BY <2>1, <3>1
      <4> QED BY <2>2, <4>1, <4>2, <4>3
    <3>2. CASE i \notin I
      <4>1. \A x : (\E j \in 1 .. i : j \in I /\ s[j] = x) <=> \E j \in 1 .. (i - 1) : j \in I /\ s[j] = x
        BY <2>1, <3>2
      <4> QED BY <2>2, <2>3, <3>2, <4>1
    <3> QED BY <3>1, <3>2
  <2> HIDE DEF Good
  <2> QED BY <2>1, <2>4 DEF r
<1>11. Good(n, upto[n])
  <2> HIDE DEF Reached
  <2>1. 0 .. n \subseteq Reached
    BY <1>1, <1>9, <1>10, BoundedInduction
  <2>2. n \in 0 .. n
    BY <1>1
  <2> HIDE DEF Good
  <2> QED BY <2>1, <2>2 DEF Reached
<1>12. DOMAIN upto[n] = 1 .. Len(upto[n])
  BY <1>11, LenProperties
<1> QED BY <1>7, <1>11, <1>12 DEF n, Chosen

\* Unique keeps every item.
LEMMA UniqueItems ==
  ASSUME NEW S, NEW s \in Seq(S)
  PROVE  /\ Unique(s) \in Seq(S)
         /\ \A i \in 1 .. Len(s) : Contains(Unique(s), s[i])
         /\ \A k \in DOMAIN Unique(s) : \E i \in 1 .. Len(s) : Unique(s)[k] = s[i]
<1> DEFINE n == Len(s)
           I == {i \in DOMAIN s : \A j \in 1 .. i - 1 : s[j] # s[i]}
           u == Unique(s)
<1>1. n \in Nat /\ DOMAIN s = 1 .. n
  BY LenProperties
<1>2. u \in Seq(S) /\ Chosen(u, s, I)
  BY SelectedItems DEF Unique
<1>3. DOMAIN u = 1 .. Len(u)
  <2> HIDE DEF u
  <2> QED BY <1>2, LenProperties
<1>4. ASSUME NEW i \in 1 .. n PROVE \E j \in 1 .. n : j \in I /\ s[j] = s[i]
  <2> DEFINE Same == {j \in Nat : j \in 1 .. n /\ s[j] = s[i]}
  <2>1. i \in Same
    BY <1>1
  <2>2. PICK m \in Same : \A j \in Same : m <= j
    <3> HIDE DEF Same
    <3>1. Same \subseteq Nat
      BY DEF Same
    <3> QED BY <2>1, <3>1, LeastElement
  <2>3. ASSUME NEW j \in 1 .. m - 1, s[j] = s[m] PROVE FALSE
    <3>1. j \in Nat /\ j \in 1 .. n /\ ~(m <= j)
      BY <1>1
    <3> QED BY <2>2, <2>3, <3>1
  <2> QED BY <1>1, <2>2, <2>3
<1> HIDE DEF I, u
<1>5. \A i \in 1 .. n : Contains(u, s[i])
  <2> TAKE i \in 1 .. n
  <2>1. \E k \in DOMAIN u : u[k] = s[i]
    BY <1>2, <1>4 DEF Chosen
  <2> QED BY <1>3, <2>1 DEF Contains
<1>6. \A k \in DOMAIN u : \E i \in 1 .. n : u[k] = s[i]
  BY <1>2 DEF Chosen
<1> QED BY <1>2, <1>5, <1>6 DEF u

\* No item occurs twice.
Distinct(s) == \A i, j \in DOMAIN s : s[i] = s[j] => i = j

LEMMA SelectedDistinct ==
  ASSUME NEW S, NEW s \in Seq(S), NEW I,
         \A i, j \in 1 .. Len(s) : i \in I /\ j \in I /\ s[i] = s[j] => i = j
  PROVE  Distinct(Selected(s, I))
<1> DEFINE n == Len(s)
           V == Seq(S)
<1>1. n \in Nat /\ \A i \in 1 .. n : s[i] \in S
  BY LenProperties, ElementOfSeq
<1>2. PICK f \in [0 .. n -> V] : SelectedUpto(f, s, I) /\ Selected(s, I) = f[n]
  BY SelectedSteps
<1>3. f[0] = << >> /\ \A i \in 1 .. n : f[i] = IF i \in I THEN Append(f[i - 1], s[i]) ELSE f[i - 1]
  BY <1>2 DEF SelectedUpto
<1> HIDE DEF n
<1> DEFINE From(i, q) == \A k \in 1 .. Len(q) : \E j \in 1 .. i : j \in I /\ s[j] = q[k]
           Twice(q) == \E k, h \in 1 .. Len(q) : q[k] = q[h] /\ k # h
           Good == {i \in 0 .. n : From(i, f[i]) /\ ~Twice(f[i])}
<1>4. 0 \in Good
  <2>1. 0 \in 0 .. n
    BY <1>1
  <2>2. From(0, << >>) /\ ~Twice(<< >>)
    OBVIOUS
  <2> HIDE DEF From, Twice
  <2> QED BY <1>3, <2>1, <2>2
<1>5. ASSUME NEW i \in 1 .. n, i - 1 \in Good PROVE i \in Good
  <2> DEFINE q == f[i - 1]
             r == f[i]
             j == i - 1
  <2>1. i \in 0 .. n /\ j \in 0 .. n /\ i \in Nat /\ \A h : h \in 1 .. i <=> h \in 1 .. j \/ h = i
    BY <1>1
  <2>2. q \in V /\ r = (IF i \in I THEN Append(q, s[i]) ELSE q)
    BY <1>3, <2>1
  <2>3. From(j, q) /\ ~Twice(q)
    BY <1>5
  <2>4. i \notin 1 .. j
    BY <2>1
  <2>5. \A h \in 1 .. j : h \in 1 .. n
    BY <1>1
  <2> HIDE DEF q, r, j, V, Good
  <2>6. From(i, r) /\ ~Twice(r)
    <3>1. CASE i \in I
      <4>1. q \in Seq(S) /\ s[i] \in S /\ r = Append(q, s[i])
        BY <1>1, <2>2, <3>1 DEF V
      <4> DEFINE m == Len(q)
                 m1 == Len(q) + 1
      <4>2. m \in Nat /\ Len(r) = m1 /\ r[m1] = s[i] /\ \A k \in 1 .. m : r[k] = q[k]
        BY <4>1, AppendProperties, LenProperties
      <4>3. \A k : k \in 1 .. m1 <=> k \in 1 .. m \/ k = m1
        BY <4>2
      <4> HIDE DEF m1
      <4>4. \A k \in 1 .. m : q[k] # s[i]
        <5> TAKE k \in 1 .. m
        <5>1. PICK h \in 1 .. j : h \in I /\ s[h] = q[k]
          BY <2>3
        <5>2. h # i /\ h \in 1 .. n
          BY <2>4, <2>5
        <5> QED BY <3>1, <5>1, <5>2 DEF n
      <4>5. From(i, r)
        BY <2>1, <2>3, <3>1, <4>2, <4>3
      <4>6. ~Twice(r)
        BY <2>3, <4>2, <4>3, <4>4
      <4> QED BY <4>5, <4>6
    <3>2. CASE i \notin I
      BY <2>1, <2>2, <2>3, <3>2
    <3> QED BY <3>1, <3>2
  <2> HIDE DEF From, Twice
  <2> QED BY <2>1, <2>6 DEF Good, r
<1>6. n \in Good
  <2> HIDE DEF Good
  <2>1. 0 .. n \subseteq Good
    BY <1>1, <1>4, <1>5, BoundedInduction
  <2>2. n \in 0 .. n
    BY <1>1
  <2> QED BY <2>1, <2>2
<1>7. ~Twice(f[n]) /\ f[n] \in V
  BY <1>6
<1>8. DOMAIN f[n] = 1 .. Len(f[n])
  BY <1>7, LenProperties
<1> QED BY <1>2, <1>7, <1>8 DEF Distinct, n

LEMMA UniqueDistinct ==
  ASSUME NEW S, NEW s \in Seq(S)
  PROVE  Distinct(Unique(s))
<1> DEFINE I == {i \in DOMAIN s : \A j \in 1 .. i - 1 : s[j] # s[i]}
<1>1. Len(s) \in Nat
  BY LenProperties
<1>2. ASSUME NEW i \in 1 .. Len(s), NEW j \in 1 .. Len(s), i \in I, j \in I, s[i] = s[j]
      PROVE  i = j
  <2>1. ~(i < j)
    <3>1. i < j => i \in 1 .. j - 1
      BY <1>1
    <3> QED BY <1>2, <3>1
  <2>2. ~(j < i)
    <3>1. j < i => j \in 1 .. i - 1
      BY <1>1
    <3> QED BY <1>2, <3>1
  <2> QED BY <1>1, <2>1, <2>2
<1>3. Unique(s) = Selected(s, I)
  BY DEF Unique
<1> HIDE DEF I
<1> QED BY <1>2, <1>3, SelectedDistinct

-----------------------------------------------------------------------------
(* The algebra of finite sums.                                             *)

LEMMA SumAdd ==
  ASSUME NEW n \in Nat, NEW s \in [1 .. n -> Int], NEW t \in [1 .. n -> Int]
  PROVE  /\ SumOf(s) \in Int /\ SumOf(t) \in Int
         /\ SumOf([i \in 1 .. n |-> s[i] + t[i]]) = SumOf(s) + SumOf(t)
<1>1. PICK p \in [0 .. n -> Int] :
        p[0] = 0 /\ (\A i \in 1 .. n : p[i] = p[i - 1] + s[i]) /\ SumOf(s) = p[n]
  BY PartialSums
<1>2. PICK q \in [0 .. n -> Int] :
        q[0] = 0 /\ (\A i \in 1 .. n : q[i] = q[i - 1] + t[i]) /\ SumOf(t) = q[n]
  BY PartialSums
<1> DEFINE r == [i \in 0 .. n |-> p[i] + q[i]]
           u == [i \in 1 .. n |-> s[i] + t[i]]
<1>3. \A i \in 0 .. n : r[i] = p[i] + q[i] /\ p[i] \in Int /\ q[i] \in Int
  OBVIOUS
<1>4. r \in [0 .. n -> Int] /\ u \in [1 .. n -> Int]
  <2>1. \A i \in 0 .. n : p[i] + q[i] \in Int
    BY <1>3
  <2>2. \A i \in 1 .. n : s[i] \in Int /\ t[i] \in Int
    OBVIOUS
  <2>3. \A i \in 1 .. n : s[i] + t[i] \in Int
    BY <2>2
  <2> QED BY <2>1, <2>3
<1>5. \A i \in 1 .. n : u[i] = s[i] + t[i] /\ s[i] \in Int /\ t[i] \in Int
  OBVIOUS
<1>6. 0 \in 0 .. n /\ n \in 0 .. n
  OBVIOUS
<1> HIDE DEF r, u
<1>7. r[0] = 0
  <2>1. r[0] = p[0] + q[0] /\ p[0] = 0 /\ q[0] = 0
    BY <1>1, <1>2, <1>3, <1>6
  <2> QED BY <2>1
<1>8. ASSUME NEW i \in 1 .. n PROVE r[i] - r[i - 1] = u[i]
  <2>1. i \in 0 .. n /\ i - 1 \in 0 .. n
    OBVIOUS
  <2>2. r[i] = p[i] + q[i] /\ r[i - 1] = p[i - 1] + q[i - 1] /\ p[i - 1] \in Int /\ q[i - 1] \in Int
    BY <1>3, <2>1
  <2>3. p[i] = p[i - 1] + s[i] /\ q[i] = q[i - 1] + t[i]
    BY <1>1, <1>2
  <2>4. u[i] = s[i] + t[i] /\ s[i] \in Int /\ t[i] \in Int
    BY <1>5
  <2> QED BY ONLY SMTT(30), <2>2, <2>3, <2>4
<1>9. SumOf(u) = r[n]
  BY <1>4, <1>7, <1>8, SumIs
<1> QED BY <1>1, <1>2, <1>3, <1>6, <1>9 DEF u

LEMMA SumScale ==
  ASSUME NEW n \in Nat, NEW s \in [1 .. n -> Int], NEW x \in Int
  PROVE  /\ SumOf(s) \in Int
         /\ SumOf([i \in 1 .. n |-> s[i] * x]) = SumOf(s) * x
<1>1. PICK p \in [0 .. n -> Int] :
        p[0] = 0 /\ (\A i \in 1 .. n : p[i] = p[i - 1] + s[i]) /\ SumOf(s) = p[n]
  BY PartialSums
<1> DEFINE r == [i \in 0 .. n |-> p[i] * x]
           u == [i \in 1 .. n |-> s[i] * x]
<1>2. \A a \in Int : a * x \in Int
  BY Z3
<1>3. \A i \in 0 .. n : r[i] = p[i] * x /\ p[i] \in Int
  OBVIOUS
<1>4. r \in [0 .. n -> Int] /\ u \in [1 .. n -> Int]
  BY <1>2
<1>5. \A i \in 1 .. n : u[i] = s[i] * x /\ s[i] \in Int
  OBVIOUS
<1>6. 0 \in 0 .. n /\ n \in 0 .. n
  OBVIOUS
<1> HIDE DEF r, u
<1>7. r[0] = 0
  <2>1. r[0] = 0 * x
    BY <1>1, <1>3, <1>6
  <2>2. 0 * x = 0
    BY Z3
  <2> QED BY <2>1, <2>2
<1>8. ASSUME NEW i \in 1 .. n PROVE r[i] - r[i - 1] = u[i]
  <2>1. i \in 0 .. n /\ i - 1 \in 0 .. n
    OBVIOUS
  <2>2. r[i] = p[i] * x /\ r[i - 1] = p[i - 1] * x /\ p[i - 1] \in Int
    BY <1>3, <2>1
  <2>3. p[i] = p[i - 1] + s[i] /\ u[i] = s[i] * x /\ s[i] \in Int
    BY <1>1, <1>5
  <2>4. \A a \in Int, b \in Int : (a + b) * x - a * x = b * x
    BY Z3
  <2> QED BY <2>2, <2>3, <2>4
<1>9. SumOf(u) = r[n]
  BY <1>4, <1>7, <1>8, SumIs
<1> QED BY <1>1, <1>3, <1>6, <1>9 DEF u

LEMMA SumOfZeros ==
  ASSUME NEW n \in Nat, NEW s \in [1 .. n -> Int], \A i \in 1 .. n : s[i] = 0
  PROVE  SumOf(s) = 0
<1> DEFINE p == [i \in 0 .. n |-> 0]
<1>1. p \in [0 .. n -> Int] /\ \A i \in 0 .. n : p[i] = 0
  OBVIOUS
<1>2. 0 \in 0 .. n /\ n \in 0 .. n /\ \A i \in 1 .. n : i \in 0 .. n /\ i - 1 \in 0 .. n
  OBVIOUS
<1> HIDE DEF p
<1>3. p[0] = 0 /\ \A i \in 1 .. n : p[i] - p[i - 1] = s[i]
  BY <1>1, <1>2
<1>4. SumOf(s) = p[n]
  BY <1>1, <1>3, SumIs
<1> QED BY <1>1, <1>2, <1>4

\* A sum with one item.
LEMMA SumSingle ==
  ASSUME NEW n \in Nat, NEW k \in 1 .. n, NEW x \in Int,
         NEW s \in [1 .. n -> Int], \A i \in 1 .. n : s[i] = IF i = k THEN x ELSE 0
  PROVE  SumOf(s) = x
<1> DEFINE p == [i \in 0 .. n |-> IF i < k THEN 0 ELSE x]
<1>1. p \in [0 .. n -> Int] /\ \A i \in 0 .. n : p[i] = IF i < k THEN 0 ELSE x
  OBVIOUS
<1>2. 0 \in 0 .. n /\ n \in 0 .. n /\ 0 < k /\ ~(n < k)
  OBVIOUS
<1> HIDE DEF p
<1>3. p[0] = 0 /\ p[n] = x
  BY <1>1, <1>2
<1>4. ASSUME NEW i \in 1 .. n PROVE p[i] - p[i - 1] = s[i]
  <2>1. i \in 0 .. n /\ i - 1 \in 0 .. n
    OBVIOUS
  <2>2. CASE i < k
    BY <1>1, <2>1, <2>2
  <2>3. CASE i = k
    BY <1>1, <2>1, <2>3
  <2>4. CASE i > k
    BY <1>1, <2>1, <2>4
  <2> QED BY <2>2, <2>3, <2>4
<1>5. SumOf(s) = p[n]
  BY <1>1, <1>3, <1>4, SumIs
<1> QED BY <1>3, <1>5

\* Rows first or columns first.
LEMMA SumSwap ==
  ASSUME NEW n \in Nat, NEW k \in Nat, NEW m, \A i \in 1 .. n : \A j \in 1 .. k : m[i][j] \in Int
  PROVE  SumOf([i \in 1 .. n |-> SumOf([j \in 1 .. k |-> m[i][j]])])
           = SumOf([j \in 1 .. k |-> SumOf([i \in 1 .. n |-> m[i][j]])])
<1> DEFINE row(i) == [j \in 1 .. k |-> m[i][j]]
           col(j) == [i \in 1 .. n |-> m[i][j]]
           IsPartial(p, j) == /\ p \in [0 .. n -> Int]
                              /\ p[0] = 0 /\ (\A i \in 1 .. n : p[i] = p[i - 1] + m[i][j])
                              /\ SumOf(col(j)) = p[n]
           c == [j \in 1 .. k |-> CHOOSE p : IsPartial(p, j)]
           below(i) == [j \in 1 .. k |-> c[j][i]]
           acc == [i \in 0 .. n |-> SumOf(below(i))]
           rows == [i \in 1 .. n |-> SumOf(row(i))]
<1>1. \A i \in 1 .. n : row(i) \in [1 .. k -> Int]
  OBVIOUS
<1>2. ASSUME NEW j \in 1 .. k PROVE \E p : IsPartial(p, j)
  <2>1. col(j) \in [1 .. n -> Int] /\ \A i \in 1 .. n : col(j)[i] = m[i][j]
    OBVIOUS
  <2> HIDE DEF col
  <2>2. PICK p \in [0 .. n -> Int] :
          p[0] = 0 /\ (\A i \in 1 .. n : p[i] = p[i - 1] + col(j)[i]) /\ SumOf(col(j)) = p[n]
    BY <2>1, PartialSums
  <2> QED BY <2>1, <2>2
<1>3. \A j \in 1 .. k : IsPartial(c[j], j)
  <2> HIDE DEF IsPartial
  <2> QED BY <1>2
<1> HIDE DEF c, col
<1>4. /\ \A j \in 1 .. k : \A i \in 0 .. n : c[j][i] \in Int
      /\ \A j \in 1 .. k : c[j][0] = 0 /\ SumOf(col(j)) = c[j][n]
      /\ \A j \in 1 .. k : \A i \in 1 .. n : c[j][i] = c[j][i - 1] + m[i][j]
  BY <1>3
<1> HIDE DEF IsPartial
<1>5. \A i \in 0 .. n : below(i) \in [1 .. k -> Int] /\ \A j \in 1 .. k : below(i)[j] = c[j][i]
  BY <1>4
<1>6. \A i \in 0 .. n : SumOf(below(i)) \in Int
  <2> HIDE DEF below
  <2> QED BY <1>5, SumOfPredecessors
<1>7. acc \in [0 .. n -> Int] /\ \A i \in 0 .. n : acc[i] = SumOf(below(i))
  <2> HIDE DEF below
  <2> QED BY <1>6
<1>8. 0 \in 0 .. n /\ n \in 0 .. n
  OBVIOUS
<1> HIDE DEF acc
<1>9. acc[0] = 0
  <2>1. \A j \in 1 .. k : below(0)[j] = 0
    BY <1>4, <1>5, <1>8
  <2> HIDE DEF below
  <2>2. SumOf(below(0)) = 0
    BY <1>5, <1>8, <2>1, SumOfZeros
  <2> QED BY <1>7, <1>8, <2>2
<1>10. ASSUME NEW i \in 1 .. n PROVE acc[i] - acc[i - 1] = rows[i]
  <2>1. i \in 0 .. n /\ i - 1 \in 0 .. n
    OBVIOUS
  <2> DEFINE b == below(i - 1)
             r == row(i)
             sum == [j \in 1 .. k |-> b[j] + r[j]]
  <2>2. b \in [1 .. k -> Int] /\ \A j \in 1 .. k : b[j] = c[j][i - 1]
    BY <1>5, <2>1
  <2>3. r \in [1 .. k -> Int] /\ \A j \in 1 .. k : r[j] = m[i][j]
    BY <1>1
  <2>4. below(i) = sum
    <3>1. \A j \in 1 .. k : c[j][i] = b[j] + r[j]
      BY <1>4, <2>2, <2>3
    <3> HIDE DEF b, r
    <3> QED BY <3>1
  <2> HIDE DEF b, r, below
  <2>5. SumOf(b) \in Int /\ SumOf(r) \in Int /\ SumOf(sum) = SumOf(b) + SumOf(r)
    BY <2>2, <2>3, SumAdd
  <2> HIDE DEF sum
  <2>6. acc[i] = SumOf(b) + SumOf(r) /\ acc[i - 1] = SumOf(b)
    BY <1>7, <2>1, <2>4, <2>5 DEF b
  <2>7. rows[i] = SumOf(r)
    BY DEF r
  <2> QED BY <2>5, <2>6, <2>7
<1>11. rows \in [1 .. n -> Int]
  <2>1. \A i \in 1 .. n : SumOf(row(i)) \in Int
    <3> HIDE DEF row
    <3> QED BY <1>1, SumOfPredecessors
  <2> QED BY <2>1
<1>12. SumOf(rows) = acc[n]
  <2> HIDE DEF rows
  <2> QED BY <1>7, <1>9, <1>10, <1>11, SumIs
<1>13. below(n) = [j \in 1 .. k |-> SumOf(col(j))]
  BY <1>4
<1>14. SumOf(rows) = SumOf([j \in 1 .. k |-> SumOf(col(j))])
  <2> HIDE DEF rows, below, col
  <2> QED BY <1>7, <1>8, <1>12, <1>13
<1> QED BY <1>14 DEF col

\* The sum of a sequence one longer.
LEMMA SumLonger ==
  ASSUME NEW n \in Nat, NEW s \in [1 .. n + 1 -> Int], NEW t \in [1 .. n -> Int],
         \A i \in 1 .. n : s[i] = t[i]
  PROVE  SumOf(t) \in Int /\ SumOf(s) = SumOf(t) + s[n + 1]
<1>1. PICK p \in [0 .. n -> Int] :
        p[0] = 0 /\ (\A i \in 1 .. n : p[i] = p[i - 1] + t[i]) /\ SumOf(t) = p[n]
  BY PartialSums
<1> DEFINE m == n + 1
           x == s[m]
           q == [i \in 0 .. m |-> IF i \in 0 .. n THEN p[i] ELSE p[n] + x]
<1>2. m \in Nat /\ x \in Int /\ s \in [1 .. m -> Int]
  OBVIOUS
<1>3. n \in 0 .. n /\ 0 \in 0 .. n /\ m \in 0 .. m /\ m \notin 0 .. n /\ 0 \in 0 .. m /\ m - 1 = n /\ n \in 0 .. m
  OBVIOUS
<1>4. \A i \in 0 .. n : p[i] \in Int
  OBVIOUS
<1>5. p[n] + x \in Int
  BY <1>2, <1>3, <1>4
<1>6. q \in [0 .. m -> Int] /\ q[m] = p[n] + x /\ \A i \in 0 .. n : i \in 0 .. m => q[i] = p[i]
  <2> HIDE DEF m, x
  <2> QED BY <1>3, <1>4, <1>5
<1>7. \A i \in 0 .. n : q[i] = p[i]
  <2>1. \A i \in 0 .. n : i \in 0 .. m
    OBVIOUS
  <2> QED BY <1>6, <2>1
<1> HIDE DEF q
<1>8. ASSUME NEW i \in 1 .. m PROVE q[i] - q[i - 1] = s[i]
  <2>1. CASE i = m
    <3>1. q[i] = p[n] + x /\ q[i - 1] = p[n] /\ p[n] \in Int
      BY <1>3, <1>4, <1>6, <1>7, <2>1
    <3> HIDE DEF m
    <3> QED BY <1>2, <2>1, <3>1
  <2>2. CASE i # m
    <3>1. i \in 1 .. n /\ i \in 0 .. n /\ i - 1 \in 0 .. n
      BY <2>2
    <3>2. q[i] = p[i] /\ q[i - 1] = p[i - 1] /\ p[i - 1] \in Int
      BY <1>4, <1>7, <3>1
    <3>3. p[i] = p[i - 1] + t[i] /\ t[i] \in Int /\ s[i] = t[i]
      BY <1>1, <3>1
    <3> QED BY <3>2, <3>3
  <2> QED BY <2>1, <2>2
<1>9. q[0] = 0
  BY <1>1, <1>3, <1>7
<1>10. SumOf(s) = q[m]
  <2> HIDE DEF m
  <2> QED BY <1>2, <1>6, <1>8, <1>9, SumIs
<1> QED BY <1>1, <1>3, <1>4, <1>6, <1>10

\* The images of the items selected add up to the items at their positions.
LEMMA SumOfSelected ==
  ASSUME NEW S, NEW s \in Seq(S), NEW I, NEW g \in [S -> Int],
         NEW t, t = Selected(s, I),
         NEW u \in [1 .. Len(t) -> Int], \A k \in 1 .. Len(t) : u[k] = g[t[k]],
         NEW v \in [1 .. Len(s) -> Int], \A i \in 1 .. Len(s) : v[i] = IF i \in I THEN g[s[i]] ELSE 0
  PROVE  SumOf(u) = SumOf(v)
<1> DEFINE n == Len(s)
           V == Seq(S)
           images(q) == [k \in 1 .. Len(q) |-> g[q[k]]]
<1>1. n \in Nat /\ \A i \in 1 .. n : s[i] \in S /\ g[s[i]] \in Int
  BY LenProperties, ElementOfSeq
<1>2. PICK f \in [0 .. n -> V] : SelectedUpto(f, s, I) /\ Selected(s, I) = f[n]
  BY SelectedSteps
<1>3. /\ f[0] = << >>
      /\ \A i \in 1 .. n : f[i] = IF i \in I THEN Append(f[i - 1], s[i]) ELSE f[i - 1]
  BY <1>2 DEF SelectedUpto
<1>4. v \in [1 .. n -> Int] /\ \A i \in 1 .. n : v[i] = IF i \in I THEN g[s[i]] ELSE 0
  BY <1>1
<1>5. \A q \in V : Len(q) \in Nat /\ images(q) \in [1 .. Len(q) -> Int]
  <2> TAKE q \in V
  <2>1. Len(q) \in Nat /\ \A k \in 1 .. Len(q) : q[k] \in S
    BY LenProperties, ElementOfSeq
  <2> QED BY <2>1
<1>6. \A q \in V : SumOf(images(q)) \in Int
  <2> HIDE DEF images, V
  <2> QED BY <1>5, SumOfPredecessors
<1>7. ASSUME NEW q \in V, NEW x \in S
      PROVE  SumOf(images(Append(q, x))) = SumOf(images(q)) + g[x]
  <2> DEFINE r == Append(q, x)
             m == Len(q)
  <2>1. r \in V /\ Len(r) = m + 1 /\ r[m + 1] = x /\ \A k \in 1 .. m : r[k] = q[k]
    BY AppendProperties
  <2>2. m \in Nat
    BY LenProperties
  <2>3. images(r) \in [1 .. m + 1 -> Int] /\ images(q) \in [1 .. m -> Int]
    <3> HIDE DEF r, images, V
    <3> QED BY <1>5, <2>1
  <2>4. images(r)[m + 1] = g[x] /\ \A k \in 1 .. m : images(r)[k] = images(q)[k]
    <3>1. m + 1 \in 1 .. m + 1 /\ \A k \in 1 .. m : k \in 1 .. m + 1
      BY <2>2
    <3> HIDE DEF r, m
    <3> QED BY <2>1, <3>1 DEF m
  <2> HIDE DEF images, r, m
  <2>5. SumOf(images(r)) = SumOf(images(q)) + g[x]
    BY ONLY <2>2, <2>3, <2>4, SumLonger
  <2> QED BY <2>5 DEF r
<1> DEFINE p == [i \in 0 .. n |-> SumOf(images(f[i]))]
<1>8. p \in [0 .. n -> Int] /\ \A i \in 0 .. n : p[i] = SumOf(images(f[i])) /\ p[i] \in Int
  <2> HIDE DEF images, V, n
  <2> QED BY <1>6
<1>9. 0 \in 0 .. n /\ n \in 0 .. n
  BY <1>1
<1>10. p[0] = 0
  <2>1. f[0] \in V /\ Len(f[0]) = 0
    BY <1>3
  <2>2. images(f[0]) \in [1 .. 0 -> Int]
    <3> HIDE DEF images, V
    <3> QED BY <1>5, <2>1
  <2>3. SumOf(images(f[0])) = 0
    <3> HIDE DEF images
    <3>1. 0 \in Nat /\ \A i \in 1 .. 0 : images(f[0])[i] = 0
      OBVIOUS
    <3> QED BY <2>2, <3>1, SumOfZeros
  <2> HIDE DEF p, images
  <2> QED BY <1>8, <1>9, <2>3
<1> HIDE DEF p, images, V
<1>11. ASSUME NEW i \in 1 .. n PROVE p[i] - p[i - 1] = v[i]
  <2>1. i \in 0 .. n /\ i - 1 \in 0 .. n
    BY <1>1
  <2>2. p[i] = SumOf(images(f[i])) /\ p[i - 1] = SumOf(images(f[i - 1])) /\ p[i - 1] \in Int
    BY <1>8, <2>1
  <2>3. f[i - 1] \in V
    BY <2>1
  <2>4. CASE i \in I
    <3>1. SumOf(images(f[i])) = SumOf(images(f[i - 1])) + g[s[i]]
      BY <1>1, <1>3, <1>7, <2>3, <2>4
    <3> QED BY <1>1, <1>4, <2>2, <2>4, <3>1
  <2>5. CASE i \notin I
    BY <1>3, <1>4, <2>2, <2>5
  <2> QED BY <2>4, <2>5
<1>12. SumOf(v) = p[n]
  <2> HIDE DEF n
  <2> QED BY <1>1, <1>4, <1>8, <1>10, <1>11, SumIs
<1>13. u = images(t)
  BY DEF images
<1> QED BY <1>2, <1>8, <1>9, <1>12, <1>13

-----------------------------------------------------------------------------
(* Folds over a sequence.  MapThenFoldSet takes the greatest position away *)
(* as long as there is one.                                                *)

LEMMA GreatestPosition ==
  ASSUME NEW n \in Nat, NEW S, S \subseteq 1 .. n, S # {}
  PROVE  Max(S) \in S /\ \A i \in S : i <= Max(S)
<1> DEFINE D == {n - i : i \in S}
<1>1. D \subseteq Nat /\ D # {}
  <2>1. \A i \in S : i \in 1 .. n /\ n - i \in Nat
    OBVIOUS
  <2>2. \E i : i \in S
    OBVIOUS
  <2> QED BY <2>1, <2>2
<1>2. PICK d \in D : \A e \in D : d <= e
  BY <1>1, LeastElement
<1>3. PICK m \in S : d = n - m
  BY <1>2
<1>4. \A i \in S : m >= i
  <2> SUFFICES ASSUME NEW i \in S PROVE m >= i
    OBVIOUS
  <2>1. n - i \in D /\ i \in Int /\ m \in Int
    OBVIOUS
  <2>2. n - m <= n - i
    <3> HIDE DEF D
    <3> QED BY <2>1, <1>2, <1>3
  <2> QED BY <2>1, <2>2
<1>5. \E x \in S : \A y \in S : x >= y
  BY <1>4
<1>6. Max(S) \in S /\ \A y \in S : Max(S) >= y
  BY <1>5, Zenon DEF Max
<1>7. \A i \in S : i \in Int
  OBVIOUS
<1> QED BY <1>6, <1>7

LEMMA GreatestOfInterval ==
  ASSUME NEW n \in Nat, NEW k \in 1 .. n
  PROVE  Max(1 .. k) = k /\ (1 .. k) \ {k} = 1 .. k - 1
<1>1. k \in 1 .. k /\ 1 .. k \subseteq 1 .. n /\ 1 .. k # {}
  OBVIOUS
<1>2. Max(1 .. k) \in 1 .. k /\ \A i \in 1 .. k : i <= Max(1 .. k)
  BY <1>1, GreatestPosition
<1> QED BY <1>1, <1>2

\* The recursive function of a fold exists, for any step from V to V.
Folds(it, n, base, F) ==
  it = [S \in SUBSET (1 .. n) |-> IF S = {} THEN base ELSE F[<<Max(S), it[S \ {Max(S)}]>>]]

LEMMA FoldExists ==
  ASSUME NEW n \in Nat, NEW V, NEW base \in V, NEW F \in [(1 .. n) \X V -> V]
  PROVE  \E it \in [SUBSET (1 .. n) -> V] : Folds(it, n, base, F)
<1> DEFINE Good(k) == {it \in [SUBSET (1 .. k) -> V] : Folds(it, k, base, F)}
           Reached == {k \in 0 .. n : Good(k) # {}}
<1>1. 0 \in Reached
  <2> DEFINE it == [S \in SUBSET (1 .. 0) |-> base]
  <2>1. \A S \in SUBSET (1 .. 0) : S = {}
    OBVIOUS
  <2>2. it \in [SUBSET (1 .. 0) -> V] /\ Folds(it, 0, base, F)
    BY <2>1 DEF Folds
  <2> QED BY <2>2
<1>2. ASSUME NEW i \in 1 .. n, i - 1 \in Reached PROVE i \in Reached
  <2> DEFINE k == i - 1
  <2>0. k \in 0 .. n /\ Good(k) # {} /\ i = k + 1
    <3> HIDE DEF Good
    <3> QED BY <1>2
  <2>1. PICK g \in [SUBSET (1 .. k) -> V] : Folds(g, k, base, F)
    BY <2>0
  <2> DEFINE h == [S \in SUBSET (1 .. i) |-> IF S \in SUBSET (1 .. k) THEN g[S] ELSE F[<<i, g[S \ {i}]>>]]
             body == [S \in SUBSET (1 .. i) |-> IF S = {} THEN base ELSE F[<<Max(S), h[S \ {Max(S)}]>>]]
  <2>2. \A S \in SUBSET (1 .. i) : S \ {i} \in SUBSET (1 .. k)
    BY <2>0
  <2>3. h \in [SUBSET (1 .. i) -> V]
    BY <2>2
  <2>4. ASSUME NEW S \in SUBSET (1 .. i) PROVE h[S] = body[S]
    <3>0. S \subseteq 1 .. n /\ i \in Nat
      OBVIOUS
    <3>1. CASE S = {}
      <4>1. g[S] = base
        BY <2>1, <3>1 DEF Folds
      <4> QED BY <3>1, <4>1
    <3>2. CASE S # {} /\ S \in SUBSET (1 .. k)
      <4>1. Max(S) \in S
        BY <3>0, <3>2, GreatestPosition
      <4>2. S \ {Max(S)} \in SUBSET (1 .. k) /\ S \ {Max(S)} \in SUBSET (1 .. i)
        BY <3>2
      <4>3. g[S] = F[<<Max(S), g[S \ {Max(S)}]>>]
        BY <2>1, <3>2 DEF Folds
      <4>4. h[S] = g[S] /\ h[S \ {Max(S)}] = g[S \ {Max(S)}]
        BY <3>2, <4>2
      <4>5. body[S] = F[<<Max(S), h[S \ {Max(S)}]>>]
        BY <3>2
      <4> QED BY <4>3, <4>4, <4>5
    <3>3. CASE S # {} /\ S \notin SUBSET (1 .. k)
      <4>1. Max(S) \in S /\ \A j \in S : j <= Max(S)
        BY <3>0, <3>3, GreatestPosition
      <4>2. i \in S
        BY <2>0, <3>3
      <4>3. Max(S) = i
        <5>1. Max(S) \in Int /\ Max(S) <= i /\ i <= Max(S)
          <6> DEFINE j == Max(S)
          <6>1. j \in S /\ i <= j
            BY <4>1, <4>2
          <6>2. j \in 1 .. i
            BY <6>1
          <6> HIDE DEF j
          <6>3. j \in Int /\ j <= i
            BY <6>2
          <6> QED BY <6>1, <6>3 DEF j
        <5> QED BY <5>1
      <4>4. S \ {i} \in SUBSET (1 .. k) /\ S \ {i} \in SUBSET (1 .. i)
        BY <2>2
      <4>5. h[S] = F[<<i, g[S \ {i}]>>] /\ h[S \ {i}] = g[S \ {i}]
        BY <3>3, <4>4
      <4>6. body[S] = F[<<i, h[S \ {i}]>>]
        BY <3>3, <4>3
      <4> QED BY <4>5, <4>6
    <3> QED BY <3>1, <3>2, <3>3
  <2>5. h = body
    <3>1. h = [S \in SUBSET (1 .. i) |-> h[S]] /\ body = [S \in SUBSET (1 .. i) |-> body[S]]
      OBVIOUS
    <3> HIDE DEF h, body
    <3> QED BY <2>4, <3>1
  <2>6. Folds(h, i, base, F)
    <3> HIDE DEF h
    <3> QED BY <2>5 DEF Folds
  <2>7. h \in Good(i)
    <3> HIDE DEF h
    <3> QED BY <2>3, <2>6
  <2>8. i \in 0 .. n
    OBVIOUS
  <2> HIDE DEF Good, h, body
  <2> QED BY <2>7, <2>8
<1>3. n \in 0 .. n /\ 0 .. n \subseteq Reached
  <2> HIDE DEF Reached
  <2> QED BY <1>1, <1>2, BoundedInduction
<1> QED BY <1>3

\* On the first positions it takes one step after the other.
LEMMA FoldSteps ==
  ASSUME NEW n \in Nat, NEW V, NEW base \in V, NEW F \in [(1 .. n) \X V -> V], NEW it,
         it[{}] = base,
         \A S \in SUBSET (1 .. n) : S # {} /\ it[S \ {Max(S)}] \in V => it[S] = F[<<Max(S), it[S \ {Max(S)}]>>]
  PROVE  \E f \in [0 .. n -> V] :
            f[0] = base /\ (\A i \in 1 .. n : f[i] = F[<<i, f[i - 1]>>]) /\ it[1 .. n] = f[n]
<1> DEFINE Reached == {k \in 0 .. n : it[1 .. k] \in V}
           f == [k \in 0 .. n |-> it[1 .. k]]
<1>0. 1 .. 0 = {}
  OBVIOUS
<1>1. ASSUME NEW i \in 1 .. n, it[1 .. i - 1] \in V
      PROVE  it[1 .. i] = F[<<i, it[1 .. i - 1]>>] /\ it[1 .. i] \in V
  <2>1. Max(1 .. i) = i /\ (1 .. i) \ {i} = 1 .. i - 1
    BY GreatestOfInterval
  <2>2. 1 .. i \in SUBSET (1 .. n) /\ 1 .. i # {}
    OBVIOUS
  <2>3. it[1 .. i] = F[<<i, it[1 .. i - 1]>>]
    BY <1>1, <2>1, <2>2
  <2>4. <<i, it[1 .. i - 1]>> \in (1 .. n) \X V
    BY <1>1
  <2>5. F[<<i, it[1 .. i - 1]>>] \in V
    BY <2>4
  <2> QED BY <2>3, <2>5
<1>2. 0 .. n \subseteq Reached
  <2>1. 0 \in Reached
    BY <1>0
  <2>2. \A i \in 1 .. n : i - 1 \in Reached => i \in Reached
    <3> SUFFICES ASSUME NEW i \in 1 .. n, i - 1 \in Reached PROVE i \in Reached
      OBVIOUS
    <3>1. it[1 .. i - 1] \in V /\ i \in 0 .. n
      OBVIOUS
    <3>2. it[1 .. i] \in V
      BY <1>1, <3>1
    <3> QED BY <3>1, <3>2
  <2> HIDE DEF Reached
  <2> QED BY <2>1, <2>2, BoundedInduction
<1>3. f \in [0 .. n -> V] /\ f[0] = base /\ it[1 .. n] = f[n]
  BY <1>0, <1>2
<1>4. \A i \in 1 .. n : f[i] = F[<<i, f[i - 1]>>]
  <2> SUFFICES ASSUME NEW i \in 1 .. n PROVE f[i] = F[<<i, f[i - 1]>>]
    OBVIOUS
  <2>1. i \in 0 .. n /\ i - 1 \in 0 .. n
    OBVIOUS
  <2>2. f[i] = it[1 .. i] /\ f[i - 1] = it[1 .. i - 1] /\ it[1 .. i - 1] \in V
    BY <1>2, <2>1
  <2> HIDE DEF f
  <2> QED BY <1>1, <2>2
<1> HIDE DEF f
<1> QED BY <1>3, <1>4
=============================================================================
