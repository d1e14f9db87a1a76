------------------------------ MODULE Frontier ------------------------------
(***************************************************************************)
(* The frontier (internal/engine/frontier.go): a max-heap of candidates by  *)
(* score, kept in a slice by Go's container/heap.  A heap is a sequence of  *)
(* records with a field score; the children of position i are 2i and 2i+1.  *)
(***************************************************************************)
EXTENDS Loops

(* container/heap.                                                          *)

Less(h, i, j) == h[i].score > h[j].score
Swap(h, i, j) == [h EXCEPT ![i] = h[j], ![j] = h[i]]

\* One round of a sift: s.heap, in which the element at s.at is on its way.
siftUp(s) ==
  IF s.at = 1 \/ ~Less(s.heap, s.at, s.at \div 2) THEN s
  ELSE [heap |-> Swap(s.heap, s.at, s.at \div 2), at |-> s.at \div 2]

Child(g, at, n) ==
  IF 2 * at + 1 <= n /\ Less(g, 2 * at + 1, 2 * at) THEN 2 * at + 1 ELSE 2 * at
siftDown(s, n) ==
  LET j == Child(s.heap, s.at, n)
  IN  IF 2 * s.at > n \/ ~Less(s.heap, j, s.at) THEN s
      ELSE [heap |-> Swap(s.heap, s.at, j), at |-> j]

\* An element is in its place after fewer rounds than there are positions.
up(h, j) ==
  LET round(s, k) == siftUp(s) IN Loop(round, [heap |-> h, at |-> j], j).heap
\* Only the first n elements are looked at.
down(h, i, n) ==
  LET round(s, k) == siftDown(s, n) IN Loop(round, [heap |-> h, at |-> i], n).heap

\* An element that did not move down may have to move up.
Settle(h, i, n) == LET g == down(h, i, n) IN IF g = h THEN up(h, i) ELSE g

heapPush(h, c) == up(Append(h, c), Len(h) + 1)
heapRemove(h, i) ==
  LET n == Len(h)
  IN  SubSeq(IF i = n THEN h ELSE Settle(Swap(h, i, n), i, n - 1), 1, n - 1)
heapFix(h, i) == Settle(h, i, Len(h))
heapInit(h) ==
  LET n == Len(h)
      round(g, k) == down(g, n \div 2 + 1 - k, n)
  IN  Loop(round, h, n \div 2)

-----------------------------------------------------------------------------
(* The frontier's methods.                                                  *)

Push(h, c) == heapPush(h, c)
PushAll(h, cands) ==
  LET round(g, k) == heapPush(g, cands[k]) IN Loop(round, h, Len(cands))

\* The callbacks are functions on the queued candidates and sets of them.
Reprioritize(h, fn) ==
  LET round(g, i) == [g EXCEPT ![i] = fn[h[i]]] IN heapInit(Loop(round, h, Len(h)))

\* The first match in the order of the slice.
UpdateMatching(h, id, fn) ==
  LET found == {i \in DOMAIN h : <<h[i].dir, h[i].path>> = id}
      i == CHOOSE i \in found : \A j \in found : i <= j
  IN  IF found = {} THEN h ELSE heapFix([h EXCEPT ![i] = fn[h[i]]], i)

RemoveMatching(h, gone) == heapInit(Subsequence(h, {i \in DOMAIN h : h[i] \notin gone}))

\* Where Pop, PopBand and SampleMidTier may take a candidate from.  PopBand takes
\* one within a twentieth of the root's score; the middle third is that of a sort
\* by score, in which candidates of one score come in any order.
PopAt(h) == {1}
PopBandAt(h) ==
  IF Len(h) <= 1 \/ h[1].score <= 0 THEN PopAt(h)
  ELSE {i \in DOMAIN h : h[i].score >= h[1].score - h[1].score \div 20}
SampleMidTierAt(h) ==
  LET n == Len(h)
      lo == IF (2 * n) \div 3 <= n \div 3 THEN 0 ELSE n \div 3
      hi == IF (2 * n) \div 3 <= n \div 3 THEN n ELSE (2 * n) \div 3
      above(i) == Cardinality({j \in DOMAIN h : h[j].score > h[i].score})
      level(i) == Cardinality({j \in DOMAIN h : h[j].score = h[i].score})
  IN  {i \in DOMAIN h : above(i) < hi /\ above(i) + level(i) > lo}

\* Mutant: the last candidate takes the place and stays there.
PopUnsettled(h, i) == SubSeq(Swap(h, i, Len(h)), 1, Len(h) - 1)

Pop(h, i) == heapRemove(h, i)
=============================================================================
