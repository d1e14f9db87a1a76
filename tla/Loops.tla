------------------------------- MODULE Loops -------------------------------
(* Loops of a known number of rounds, as recursive functions of that number.   *)
EXTENDS Integers, Sequences, FiniteSets, Functions

\* What the k-th round makes of the value is round(value, k).
Loop(round(_, _), x, n) ==
  LET value[k \in 0..n] == IF k = 0 THEN x ELSE round(value[k - 1], k) IN value[n]

\* b to the n.
Power(b, n) == LET round(x, k) == x * b IN Loop(round, 1, n)

\* The elements of s at the positions in I, in their order.
Subsequence(s, I) ==
  LET round(kept, i) == IF i \in I THEN Append(kept, s[i]) ELSE kept
  IN  Loop(round, <<>>, Len(s))

Flatten(seqs) ==
  LET round(all, k) == all \o seqs[k] IN Loop(round, <<>>, Len(seqs))

\* The orders in which a loop over a map may come to the elements of S.
Visits(S) == Bijection(1..Cardinality(S), S)
============================================================================
