------------------------------- MODULE Lists -------------------------------
(* Sums and selections of the items of a sequence. *)
EXTENDS Integers, SequencesExt

SumOf(s) ==
  LET sum[i \in 0 .. Len(s)] == IF i = 0 THEN 0 ELSE sum[i - 1] + s[i]
  IN  sum[Len(s)]

\* The items of s at the positions in I.
Selected(s, I) ==
  LET upto[i \in 0 .. Len(s)] ==
        IF i = 0 THEN << >>
        ELSE IF i \in I THEN Append(upto[i - 1], s[i]) ELSE upto[i - 1]
  IN  upto[Len(s)]

\* The first occurrence of every item (array_unique).
Unique(s) == Selected(s, {i \in DOMAIN s : \A j \in 1 .. i - 1 : s[j] # s[i]})
=============================================================================
