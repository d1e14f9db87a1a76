---------------------------- MODULE RankingProofs ----------------------------
(***************************************************************************)
(* Theorems about Ranking, for every set of rules, corpus, stack, heap and   *)
(* order of events: the baseline of the root covers its stack, no rule       *)
(* votes twice, queued candidates have the score of the moment, and the heap *)
(* implements the priority queue.                                           *)
(*                                                                         *)
(* Induction on naturals comes first, from the well-foundedness of <: what   *)
(* each round of a loop keeps, the loop keeps.  Then what the operations of  *)
(* the heap, the layers of rules and the signals return, and an invariant    *)
(* for each theorem.                                                        *)
(***************************************************************************)
EXTENDS Ranking, FiniteSetTheorems, SequenceTheorems, TLAPS

-----------------------------------------------------------------------------
(* Loops and lists.                                                          *)

\* A set of naturals that holds 0 and every successor holds them all.
LEMMA NatSet ==
  ASSUME NEW S, 0 \in S, \A n \in Nat : n \in S => n + 1 \in S
  PROVE  Nat \subseteq S
<1> SUFFICES ASSUME Nat \ S # {} PROVE FALSE
  OBVIOUS
<1> DEFINE R == OpToRel(<, Nat)
<1>1. IsWellFoundedOn(R, Nat)
  BY NatLessThanWellFounded
<1>2. \A a, b \in Nat : <<a, b>> \in R <=> a < b
  BY DEF OpToRel
<1> HIDE DEF R
<1>3. PICK x \in Nat \ S : \A y \in Nat \ S : <<y, x>> \notin R
  BY <1>1, WFMin
<1>4. x # 0
  BY <1>3
<1>5. x - 1 \in Nat /\ x - 1 < x /\ (x - 1) + 1 = x
  BY <1>3, <1>4
<1>6. QED
  BY <1>2, <1>3, <1>5

\* The same for the rounds of a loop.
LEMMA Upto ==
  ASSUME NEW n \in Nat, NEW S, 0 \in S, \A k \in 1..n : k - 1 \in S => k \in S
  PROVE  0..n \subseteq S
<1> DEFINE T == {k \in Nat : k <= n => k \in S}
<1>1. 0 \in T /\ \A k \in Nat : k \in T => k + 1 \in T
  OBVIOUS
<1>2. Nat \subseteq T
  <2> HIDE DEF T
  <2> QED BY <1>1, NatSet
<1>3. QED
  BY <1>2

\* A set of naturals that is not empty has a least element.
LEMMA LeastOf ==
  ASSUME NEW S \in SUBSET Nat, S # {}
  PROVE  \E m \in S : \A k \in S : m <= k
<1> SUFFICES ASSUME \A m \in S : \E k \in S : k < m PROVE FALSE
  OBVIOUS
<1> DEFINE T == {n \in Nat : \A k \in S : n <= k}
<1>1. 0 \in T /\ \A n \in Nat : n \in T => n + 1 \in T
  OBVIOUS
<1>2. Nat \subseteq T
  <2> HIDE DEF T
  <2> QED BY <1>1, NatSet
<1>3. PICK m : m \in S
  OBVIOUS
<1>4. QED
  BY <1>2, <1>3

\* The values of a loop whose k-th round applies step[k] to a value of A.
Trace(f, n, A, x, step) ==
  f \in [0..n -> A] /\ f[0] = x /\ \A k \in 1..n : f[k] = step[k][f[k - 1]]

\* Every loop has its values.
LEMMA TraceExists ==
  ASSUME NEW n \in Nat, NEW A, NEW x \in A, NEW step \in [1..n -> [A -> A]]
  PROVE  \E f : Trace(f, n, A, x, step)
<1> DEFINE Good(m) == {f \in [0..m -> A] :
                         f[0] = x /\ \A k \in 1..m : f[k] = step[k][f[k - 1]]}
           S == {m \in 0..n : Good(m) # {}}
<1>1. 0 \in S
  <2>1. [k \in 0..0 |-> x] \in Good(0)
    OBVIOUS
  <2>2. QED
    BY <2>1
<1>2. ASSUME NEW m \in 1..n, m - 1 \in S PROVE m \in S
  <2>1. PICK f \in [0..(m - 1) -> A] :
               f[0] = x /\ \A k \in 1..(m - 1) : f[k] = step[k][f[k - 1]]
    BY <1>2
  <2>2. f[m - 1] \in A /\ step[m][f[m - 1]] \in A
    BY <2>1
  <2> DEFINE g == [k \in 0..m |-> IF k = m THEN step[m][f[m - 1]] ELSE f[k]]
  <2>3. g \in Good(m)
    BY <2>1, <2>2
  <2>4. QED
    BY SMTT(30), <2>3
<1> HIDE DEF S
<1>3. 0..n \subseteq S
  BY <1>1, <1>2, Upto
<1>4. QED
  BY <1>3 DEF S, Trace

\* A function on an initial segment of the naturals is a sequence.
LEMMA SegmentIsSeq ==
  ASSUME NEW S, NEW n \in Nat, NEW s \in [1..n -> S]
  PROVE  s \in Seq(S) /\ Len(s) = n
BY SeqDef, LenProperties

\* A sequence is one of its own elements.
LEMMA SeqOfElements ==
  ASSUME NEW S, NEW s \in Seq(S)
  PROVE  s \in Seq(Range(s)) /\ Range(s) \subseteq S
<1>1. Len(s) \in Nat /\ DOMAIN s = 1..Len(s) /\ s \in [1..Len(s) -> S]
  BY LenProperties
<1>2. s \in [1..Len(s) -> Range(s)]
  BY <1>1 DEF Range
<1>3. QED
  BY <1>1, <1>2, SegmentIsSeq DEF Range

\* Every value of a loop is in a set that its rounds do not leave.
LEMMA LoopIn ==
  ASSUME NEW n \in Nat, NEW A, NEW v, v = [k \in 0..n |-> v[k]], v[0] \in A,
         \A k \in 1..n : v[k - 1] \in A => v[k] \in A
  PROVE  v \in [0..n -> A]
<1> DEFINE T == {k \in 0..n : v[k] \in A}
<1>1. 0 \in T /\ \A k \in 1..n : k - 1 \in T => k \in T
  OBVIOUS
<1>2. 0..n \subseteq T
  <2> HIDE DEF T
  <2> QED BY <1>1, Upto
<1>3. QED
  BY <1>2

\* The values of the loop that Subsequence is.
SubsequenceRun(f, s, S, I) ==
  /\ f \in [0..Len(s) -> Seq(S)]
  /\ f[0] = <<>> /\ Subsequence(s, I) = f[Len(s)]
  /\ \A k \in 1..Len(s) : f[k] = IF k \in I THEN Append(f[k - 1], s[k]) ELSE f[k - 1]

\* The loop has these values.
LEMMA SubsequenceRuns ==
  ASSUME NEW S, NEW s \in Seq(S), NEW I
  PROVE  \E f : SubsequenceRun(f, s, S, I)
<1> DEFINE N == Len(s)
           A == Seq(S)
           x == <<>>
           op(a, k) == IF k \in I THEN Append(a, s[k]) ELSE a
           F(v) == [k \in 0..N |-> IF k = 0 THEN x ELSE op(v[k - 1], k)]
           v == CHOOSE f : f = F(f)
           step == [k \in 1..N |-> [a \in A |-> op(a, k)]]
<1>1. N \in Nat /\ x \in A
  BY LenProperties
<1>2. \A a \in A : \A k \in 1..N : op(a, k) \in A
  BY LenProperties
<1>3. Subsequence(s, I) = v[N]
  BY DEF Subsequence, Loop
<1> HIDE DEF N, A, x, op
<1>4. PICK f : Trace(f, N, A, x, step)
  <2>1. step \in [1..N -> [A -> A]]
    BY <1>2
  <2> HIDE DEF step
  <2>2. QED
    BY <1>1, <2>1, TraceExists
<1>5. f = F(f)
  <2>1. f \in [0..N -> A] /\ f[0] = x /\ \A k \in 1..N : f[k] = op(f[k - 1], k)
    <3>1. f \in [0..N -> A] /\ \A k \in 1..N : k \in 0..N /\ k - 1 \in 0..N
      BY <1>1, <1>4 DEF Trace
    <3>2. QED
      BY <1>4, <3>1 DEF Trace
  <2>2. \A k \in 0..N : f[k] = IF k = 0 THEN x ELSE op(f[k - 1], k)
    <3>1. \A k \in 0..N : k # 0 => k \in 1..N
      BY <1>1
    <3>2. QED
      BY <2>1, <3>1
  <2>3. QED
    BY <2>1, <2>2
<1>6. v = F(v)
  BY <1>5
<1> HIDE DEF v, step
<1>7. v[0] = x /\ \A k \in 1..N : v[k] = op(v[k - 1], k)
  <2>1. \A k \in 1..N : k \in 0..N /\ k # 0
    BY <1>1
  <2>2. QED
    BY <1>1, <1>6, <2>1
<1>8. v \in [0..N -> A]
  <2>1. v = [k \in 0..N |-> v[k]] /\ v[0] \in A
    BY <1>1, <1>6, <1>7
  <2>2. \A k \in 1..N : v[k - 1] \in A => v[k] \in A
    BY <1>2, <1>7
  <2>3. QED
    BY <1>1, <2>1, <2>2, LoopIn
<1>9. SubsequenceRun(v, s, S, I)
  BY <1>3, <1>7, <1>8 DEF N, A, x, op, SubsequenceRun
<1>10. QED
  BY <1>9

\* t is the elements of s at the positions of I, each position once and in order.
Picks(pos, t, s, I) ==
  /\ pos \in [1..Len(t) -> I \cap (1..Len(s))]
  /\ \A i \in 1..Len(t) : t[i] = s[pos[i]]
  /\ \A i, j \in 1..Len(t) : i < j => pos[i] < pos[j]
  /\ \A q \in I \cap (1..Len(s)) : \E i \in 1..Len(t) : pos[i] = q

\* That is what a subsequence is.
LEMMA SubsequencePicks ==
  ASSUME NEW S, NEW s \in Seq(S), NEW I
  PROVE  Subsequence(s, I) \in Seq(S) /\ \E pos : Picks(pos, Subsequence(s, I), s, I)
<1>1. PICK f : SubsequenceRun(f, s, S, I)
  BY SubsequenceRuns
<1>a. /\ f \in [0..Len(s) -> Seq(S)]
      /\ f[0] = <<>> /\ Subsequence(s, I) = f[Len(s)]
  BY <1>1 DEF SubsequenceRun
<1>b. \A k \in 1..Len(s) : f[k] = IF k \in I THEN Append(f[k - 1], s[k]) ELSE f[k - 1]
  BY <1>1 DEF SubsequenceRun
<1> DEFINE At(k, pos) ==
             /\ \A i \in 1..Len(f[k]) : f[k][i] = s[pos[i]]
             /\ \A i, j \in 1..Len(f[k]) : i < j => pos[i] < pos[j]
             /\ \A q \in I \cap (1..k) : \E i \in 1..Len(f[k]) : pos[i] = q
           T == {k \in 0..Len(s) : \E pos \in [1..Len(f[k]) -> I \cap (1..k)] : At(k, pos)}
<1>2. Len(s) \in Nat /\ \A k \in 0..Len(s) : Len(f[k]) \in Nat /\ f[k] \in Seq(S)
  BY <1>a, LenProperties
<1>3. 0 \in T
  <2>1. Len(f[0]) = 0 /\ 1..0 = {}
    BY <1>a, EmptySeq
  <2>2. [i \in {} |-> 0] \in [1..Len(f[0]) -> I \cap (1..0)] /\ At(0, [i \in {} |-> 0])
    BY <1>2, <2>1
  <2>3. QED
    BY SMTT(30), <1>2, <2>2
<1>4. ASSUME NEW k \in 1..Len(s), k - 1 \in T
      PROVE  k \in T
  <2>1. PICK pos \in [1..Len(f[k - 1]) -> I \cap (1..(k - 1))] : At(k - 1, pos)
    BY <1>4
  <2>2. /\ k - 1 \in 0..Len(s) /\ k \in 0..Len(s) /\ k \in Nat
        /\ f[k - 1] \in Seq(S) /\ Len(f[k - 1]) \in Nat /\ s[k] \in S
    BY <1>2, ElementOfSeq
  <2>3. CASE k \in I
    <3> DEFINE m == Len(f[k - 1])
               new == [i \in 1..(m + 1) |-> IF i = m + 1 THEN k ELSE pos[i]]
    <3>0. f[k] = Append(f[k - 1], s[k])
      BY <1>b, <2>3
    <3>1. /\ Len(f[k]) = m + 1
          /\ f[k][m + 1] = s[k] /\ \A i \in 1..m : f[k][i] = f[k - 1][i]
      BY <2>2, <3>0, AppendProperties
    <3>2. m \in Nat /\ \A i \in 1..(m + 1) : i # m + 1 => i \in 1..m
      BY <2>2
    <3>3. \A i \in 1..m : pos[i] \in I /\ pos[i] \in Nat /\ pos[i] < k /\ pos[i] \in 1..k
      <4> HIDE DEF At
      <4>1. pos \in [1..m -> I \cap (1..(k - 1))]
        BY <2>1
      <4>2. \A i \in 1..m : pos[i] \in I \cap (1..(k - 1))
        BY <4>1
      <4>3. QED
        BY <2>2, <4>2
    <3>4. new \in [1..(m + 1) -> I \cap (1..k)]
      BY <2>2, <2>3, <3>2, <3>3
    <3>5. At(k, new)
      <4>1. \A i \in 1..(m + 1) : f[k][i] = s[new[i]]
        BY <2>1, <3>1, <3>2
      <4>2. \A i, j \in 1..(m + 1) : i < j => new[i] < new[j]
        BY <2>1, <3>2, <3>3
      <4>3. \A q \in I \cap (1..k) : \E i \in 1..(m + 1) : new[i] = q
        <5> SUFFICES ASSUME NEW q \in I \cap (1..k)
                     PROVE  \E i \in 1..(m + 1) : new[i] = q
          OBVIOUS
        <5>1. CASE q = k
          <6>1. m + 1 \in 1..(m + 1) /\ new[m + 1] = k
            BY <3>2
          <6>2. QED
            BY <5>1, <6>1
        <5>2. CASE q # k
          <6>1. q \in I \cap (1..(k - 1))
            BY <2>2, <5>2
          <6>2. PICK i \in 1..m : pos[i] = q
            BY <2>1, <6>1
          <6>3. i \in 1..(m + 1) /\ new[i] = q
            BY <3>2, <6>2
          <6>4. QED
            BY <6>3
        <5>3. QED
          BY <5>1, <5>2
      <4>4. QED
        BY <3>1, <4>1, <4>2, <4>3
    <3> HIDE DEF At, new
    <3>6. QED
      BY <2>2, <3>1, <3>4, <3>5
  <2>4. CASE k \notin I
    <3>1. f[k] = f[k - 1]
      BY <1>b, <2>4
    <3>2. I \cap (1..(k - 1)) = I \cap (1..k)
      BY <2>2, <2>4
    <3>3. QED
      BY SMTT(30), <2>1, <2>2, <3>1, <3>2
  <2>5. QED
    BY <2>3, <2>4
<1>5. 0..Len(s) \subseteq T
  <2> HIDE DEF T
  <2> QED BY <1>2, <1>3, <1>4, Upto
<1>6. Len(s) \in 0..Len(s)
  BY <1>2
<1>7. PICK pos \in [1..Len(f[Len(s)]) -> I \cap (1..Len(s))] : At(Len(s), pos)
  <2> HIDE DEF At
  <2> QED BY <1>5, <1>6
<1>8. Picks(pos, f[Len(s)], s, I)
  BY <1>7 DEF Picks
<1>9. QED
  BY <1>2, <1>6, <1>8, <1>a

\* The values of the loop that Flatten is.
FlattenRun(f, seqs, S) ==
  /\ f \in [0..Len(seqs) -> Seq(S)]
  /\ f[0] = <<>> /\ Flatten(seqs) = f[Len(seqs)]
  /\ \A k \in 1..Len(seqs) : f[k] = f[k - 1] \o seqs[k]

\* The loop has these values.
LEMMA FlattenRuns ==
  ASSUME NEW S, NEW seqs \in Seq(Seq(S))
  PROVE  \E f : FlattenRun(f, seqs, S)
<1> DEFINE N == Len(seqs)
           A == Seq(S)
           x == <<>>
           op(a, k) == a \o seqs[k]
           F(v) == [k \in 0..N |-> IF k = 0 THEN x ELSE op(v[k - 1], k)]
           v == CHOOSE f : f = F(f)
           step == [k \in 1..N |-> [a \in A |-> op(a, k)]]
<1>1. N \in Nat /\ x \in A
  BY LenProperties
<1>2. \A a \in A : \A k \in 1..N : op(a, k) \in A
  <2>1. \A k \in 1..N : seqs[k] \in Seq(S)
    BY ElementOfSeq
  <2>2. QED
    BY <2>1, ConcatProperties
<1>3. Flatten(seqs) = v[N]
  BY DEF Flatten, Loop
<1> HIDE DEF N, A, x, op
<1>4. PICK f : Trace(f, N, A, x, step)
  <2>1. step \in [1..N -> [A -> A]]
    BY <1>2
  <2> HIDE DEF step
  <2>2. QED
    BY <1>1, <2>1, TraceExists
<1>5. f = F(f)
  <2>1. f \in [0..N -> A] /\ f[0] = x /\ \A k \in 1..N : f[k] = op(f[k - 1], k)
    <3>1. f \in [0..N -> A] /\ \A k \in 1..N : k \in 0..N /\ k - 1 \in 0..N
      BY <1>1, <1>4 DEF Trace
    <3>2. QED
      BY <1>4, <3>1 DEF Trace
  <2>2. \A k \in 0..N : f[k] = IF k = 0 THEN x ELSE op(f[k - 1], k)
    <3>1. \A k \in 0..N : k # 0 => k \in 1..N
      BY <1>1
    <3>2. QED
      BY <2>1, <3>1
  <2>3. QED
    BY <2>1, <2>2
<1>6. v = F(v)
  BY <1>5
<1> HIDE DEF v, step
<1>7. v[0] = x /\ \A k \in 1..N : v[k] = op(v[k - 1], k)
  <2>1. \A k \in 1..N : k \in 0..N /\ k # 0
    BY <1>1
  <2>2. QED
    BY <1>1, <1>6, <2>1
<1>8. v \in [0..N -> A]
  <2>1. v = [k \in 0..N |-> v[k]] /\ v[0] \in A
    BY <1>1, <1>6, <1>7
  <2>2. \A k \in 1..N : v[k - 1] \in A => v[k] \in A
    BY <1>2, <1>7
  <2>3. QED
    BY <1>1, <2>1, <2>2, LoopIn
<1>9. FlattenRun(v, seqs, S)
  BY <1>3, <1>7, <1>8 DEF N, A, x, op, FlattenRun
<1>10. QED
  BY <1>9

\* A sequence of sequences is flattened into a sequence.
LEMMA FlattenIsSeq ==
  ASSUME NEW S, NEW seqs \in Seq(Seq(S))
  PROVE  Flatten(seqs) \in Seq(S)
<1>1. Len(seqs) \in Nat
  BY LenProperties
<1>2. PICK f : FlattenRun(f, seqs, S)
  BY FlattenRuns
<1>3. QED
  BY <1>1, <1>2 DEF FlattenRun

-----------------------------------------------------------------------------
(* The heap: what its operations keep.                                       *)

\* g has the elements of h, in some order.
Rearranged(h) ==
  {g \in Seq(Range(h)) : Len(g) = Len(h) /\ Range(g) = Range(h)}

\* A sift within the first n elements: the rest stay in their places.
Sifts(h, n) ==
  {s \in [heap : Rearranged(h), at : 1..n] : \A q \in (n + 1)..Len(h) : s.heap[q] = h[q]}

\* A sequence is a rearrangement of itself.
LEMMA RearrangedSelf ==
  ASSUME NEW E, NEW h \in Seq(E)
  PROVE  h \in Rearranged(h)
BY SeqOfElements DEF Rearranged

\* A rearrangement of a rearrangement is one.
LEMMA RearrangedTwice ==
  ASSUME NEW h, NEW g \in Rearranged(h), NEW f \in Rearranged(g)
  PROVE  f \in Rearranged(h)
BY DEF Rearranged

\* A swap rearranges, and moves only the two.
LEMMA SwapRearranges ==
  ASSUME NEW E, NEW h \in Seq(E), NEW i \in 1..Len(h), NEW j \in 1..Len(h)
  PROVE  /\ Swap(h, i, j) \in Rearranged(h)
         /\ Swap(h, i, j)[i] = h[j] /\ Swap(h, i, j)[j] = h[i]
         /\ \A q \in 1..Len(h) : q # i /\ q # j => Swap(h, i, j)[q] = h[q]
<1>1. /\ Len(h) \in Nat /\ DOMAIN h = 1..Len(h) /\ h \in [1..Len(h) -> E]
  BY LenProperties
<1> DEFINE g == Swap(h, i, j)
<1>2. /\ g[i] = h[j] /\ g[j] = h[i] /\ DOMAIN g = 1..Len(h)
      /\ \A q \in 1..Len(h) : q # i /\ q # j => g[q] = h[q]
  BY <1>1 DEF Swap
<1>3. g \in [1..Len(h) -> Range(h)]
  BY <1>1 DEF Swap, Range
<1>4. g \in Seq(Range(h)) /\ Len(g) = Len(h)
  <2> HIDE DEF g
  <2> QED BY <1>1, <1>3, SegmentIsSeq
<1> HIDE DEF g
<1>5. Range(g) = Range(h)
  BY <1>1, <1>2 DEF Range
<1>6. QED
  BY <1>2, <1>4, <1>5 DEF g, Rearranged

\* A swap within the first n elements is a step of a sift.
LEMMA SwapSifts ==
  ASSUME NEW E, NEW h \in Seq(E), NEW n \in 1..Len(h), NEW s \in Sifts(h, n), NEW j \in 1..n
  PROVE  [heap |-> Swap(s.heap, s.at, j), at |-> j] \in Sifts(h, n)
<1>1. /\ s.heap \in Rearranged(h) /\ s.at \in 1..n /\ Len(h) \in Nat
      /\ \A q \in (n + 1)..Len(h) : s.heap[q] = h[q]
  BY LenProperties DEF Sifts
<1>2. s.heap \in Seq(Range(h)) /\ Len(s.heap) = Len(h)
  BY <1>1 DEF Rearranged
<1>3. s.at \in 1..Len(s.heap) /\ j \in 1..Len(s.heap)
  BY <1>1, <1>2
<1>4. /\ Swap(s.heap, s.at, j) \in Rearranged(s.heap)
      /\ \A q \in 1..Len(h) : q # s.at /\ q # j => Swap(s.heap, s.at, j)[q] = s.heap[q]
  BY <1>2, <1>3, SwapRearranges
<1>5. Swap(s.heap, s.at, j) \in Rearranged(h)
  BY <1>1, <1>4, RearrangedTwice
<1>6. \A q \in (n + 1)..Len(h) : q \in 1..Len(h) /\ q # s.at /\ q # j
  BY <1>1
<1>7. QED
  BY <1>1, <1>4, <1>5, <1>6 DEF Sifts

\* Half of a position is a position.
LEMMA Half ==
  ASSUME NEW i \in Nat, i >= 2
  PROVE  i \div 2 \in Nat /\ i \div 2 >= 1 /\ i \div 2 < i
         /\ (i = 2 * (i \div 2) \/ i = 2 * (i \div 2) + 1)
OBVIOUS

\* A round of up stays within the first n elements.
LEMMA SiftUpSifts ==
  ASSUME NEW E, NEW h \in Seq(E), NEW n \in 1..Len(h), NEW s \in Sifts(h, n)
  PROVE  siftUp(s) \in Sifts(h, n)
<1>1. s.at \in 1..n /\ Len(h) \in Nat
  BY LenProperties DEF Sifts
<1>2. CASE s.at = 1 \/ ~Less(s.heap, s.at, s.at \div 2)
  BY <1>2 DEF siftUp
<1>3. CASE ~(s.at = 1 \/ ~Less(s.heap, s.at, s.at \div 2))
  <2>1. s.at \div 2 \in 1..n
    BY <1>1, <1>3, Half
  <2>2. [heap |-> Swap(s.heap, s.at, s.at \div 2), at |-> s.at \div 2] \in Sifts(h, n)
    BY <2>1, SwapSifts
  <2>3. QED
    BY <1>3, <2>2 DEF siftUp
<1>4. QED
  BY <1>2, <1>3

\* So does a round of down.
LEMMA SiftDownSifts ==
  ASSUME NEW E, NEW h \in Seq(E), NEW n \in 1..Len(h), NEW s \in Sifts(h, n)
  PROVE  siftDown(s, n) \in Sifts(h, n)
<1> DEFINE j == Child(s.heap, s.at, n)
<1>1. s.at \in 1..n /\ Len(h) \in Nat
  BY LenProperties DEF Sifts
<1>2. CASE 2 * s.at > n \/ ~Less(s.heap, j, s.at)
  BY <1>2 DEF siftDown
<1>3. CASE ~(2 * s.at > n \/ ~Less(s.heap, j, s.at))
  <2>1. j \in 1..n
    BY <1>1, <1>3 DEF Child
  <2>2. [heap |-> Swap(s.heap, s.at, j), at |-> j] \in Sifts(h, n)
    <3> HIDE DEF j
    <3> QED BY <2>1, SwapSifts
  <2>3. QED
    BY <1>3, <2>2 DEF siftDown
<1>4. QED
  BY <1>2, <1>3

\* A sift begins where the element is.
LEMMA SiftBegins ==
  ASSUME NEW E, NEW h \in Seq(E), NEW n \in 1..Len(h), NEW i \in 1..n
  PROVE  [heap |-> h, at |-> i] \in Sifts(h, n)
BY RearrangedSelf DEF Sifts

\* The values of the loop of up.
upRun(f, h, j) ==
  /\ f \in [0..j -> Sifts(h, j)]
  /\ f[0] = [heap |-> h, at |-> j] /\ up(h, j) = f[j].heap
  /\ \A k \in 1..j : f[k] = siftUp(f[k - 1])

\* The loop has these values.
LEMMA upRuns ==
  ASSUME NEW E, NEW h \in Seq(E), NEW j \in 1..Len(h)
  PROVE  \E f : upRun(f, h, j)
<1> DEFINE N == j
           A == Sifts(h, j)
           x == [heap |-> h, at |-> j]
           op(a, k) == siftUp(a)
           F(v) == [k \in 0..N |-> IF k = 0 THEN x ELSE op(v[k - 1], k)]
           v == CHOOSE f : f = F(f)
           step == [k \in 1..N |-> [a \in A |-> op(a, k)]]
<1>1. N \in Nat /\ x \in A
  <2>1. Len(h) \in Nat /\ j \in 1..j
    BY LenProperties
  <2>2. QED
    BY <2>1, SiftBegins
<1>2. \A a \in A : \A k \in 1..N : op(a, k) \in A
  BY SiftUpSifts
<1>3. up(h, j) = v[N].heap
  BY DEF up, Loop
<1> HIDE DEF N, A, x, op
<1>4. PICK f : Trace(f, N, A, x, step)
  <2>1. step \in [1..N -> [A -> A]]
    BY <1>2
  <2> HIDE DEF step
  <2>2. QED
    BY <1>1, <2>1, TraceExists
<1>5. f = F(f)
  <2>1. f \in [0..N -> A] /\ f[0] = x /\ \A k \in 1..N : f[k] = op(f[k - 1], k)
    <3>1. f \in [0..N -> A] /\ \A k \in 1..N : k \in 0..N /\ k - 1 \in 0..N
      BY <1>1, <1>4 DEF Trace
    <3>2. QED
      BY <1>4, <3>1 DEF Trace
  <2>2. \A k \in 0..N : f[k] = IF k = 0 THEN x ELSE op(f[k - 1], k)
    <3>1. \A k \in 0..N : k # 0 => k \in 1..N
      BY <1>1
    <3>2. QED
      BY <2>1, <3>1
  <2>3. QED
    BY <2>1, <2>2
<1>6. v = F(v)
  BY <1>5
<1> HIDE DEF v, step
<1>7. v[0] = x /\ \A k \in 1..N : v[k] = op(v[k - 1], k)
  <2>1. \A k \in 1..N : k \in 0..N /\ k # 0
    BY <1>1
  <2>2. QED
    BY <1>1, <1>6, <2>1
<1>8. v \in [0..N -> A]
  <2>1. v = [k \in 0..N |-> v[k]] /\ v[0] \in A
    BY <1>1, <1>6, <1>7
  <2>2. \A k \in 1..N : v[k - 1] \in A => v[k] \in A
    BY <1>2, <1>7
  <2>3. QED
    BY <1>1, <2>1, <2>2, LoopIn
<1>9. upRun(v, h, j)
  BY <1>3, <1>7, <1>8 DEF N, A, x, op, upRun
<1>10. QED
  BY <1>9

\* The values of the loop of down.
downRun(f, h, i, n) ==
  /\ f \in [0..n -> Sifts(h, n)]
  /\ f[0] = [heap |-> h, at |-> i] /\ down(h, i, n) = f[n].heap
  /\ \A k \in 1..n : f[k] = siftDown(f[k - 1], n)

\* The loop has these values.
LEMMA downRuns ==
  ASSUME NEW E, NEW h \in Seq(E), NEW n \in 1..Len(h), NEW i \in 1..n
  PROVE  \E f : downRun(f, h, i, n)
<1> DEFINE N == n
           A == Sifts(h, n)
           x == [heap |-> h, at |-> i]
           op(a, k) == siftDown(a, n)
           F(v) == [k \in 0..N |-> IF k = 0 THEN x ELSE op(v[k - 1], k)]
           v == CHOOSE f : f = F(f)
           step == [k \in 1..N |-> [a \in A |-> op(a, k)]]
<1>1. N \in Nat /\ x \in A
  BY SiftBegins, LenProperties
<1>2. \A a \in A : \A k \in 1..N : op(a, k) \in A
  BY SiftDownSifts
<1>3. down(h, i, n) = v[N].heap
  BY DEF down, Loop
<1> HIDE DEF N, A, x, op
<1>4. PICK f : Trace(f, N, A, x, step)
  <2>1. step \in [1..N -> [A -> A]]
    BY <1>2
  <2> HIDE DEF step
  <2>2. QED
    BY <1>1, <2>1, TraceExists
<1>5. f = F(f)
  <2>1. f \in [0..N -> A] /\ f[0] = x /\ \A k \in 1..N : f[k] = op(f[k - 1], k)
    <3>1. f \in [0..N -> A] /\ \A k \in 1..N : k \in 0..N /\ k - 1 \in 0..N
      BY <1>1, <1>4 DEF Trace
    <3>2. QED
      BY <1>4, <3>1 DEF Trace
  <2>2. \A k \in 0..N : f[k] = IF k = 0 THEN x ELSE op(f[k - 1], k)
    <3>1. \A k \in 0..N : k # 0 => k \in 1..N
      BY <1>1
    <3>2. QED
      BY <2>1, <3>1
  <2>3. QED
    BY <2>1, <2>2
<1>6. v = F(v)
  BY <1>5
<1> HIDE DEF v, step
<1>7. v[0] = x /\ \A k \in 1..N : v[k] = op(v[k - 1], k)
  <2>1. \A k \in 1..N : k \in 0..N /\ k # 0
    BY <1>1
  <2>2. QED
    BY <1>1, <1>6, <2>1
<1>8. v \in [0..N -> A]
  <2>1. v = [k \in 0..N |-> v[k]] /\ v[0] \in A
    BY <1>1, <1>6, <1>7
  <2>2. \A k \in 1..N : v[k - 1] \in A => v[k] \in A
    BY <1>2, <1>7
  <2>3. QED
    BY <1>1, <2>1, <2>2, LoopIn
<1>9. downRun(v, h, i, n)
  BY <1>3, <1>7, <1>8 DEF N, A, x, op, downRun
<1>10. QED
  BY <1>9

\* Both rearrange, up the elements to j and down the first n.
LEMMA UpRearranges ==
  ASSUME NEW E, NEW h \in Seq(E), NEW j \in 1..Len(h)
  PROVE  /\ up(h, j) \in Rearranged(h)
         /\ \A q \in (j + 1)..Len(h) : up(h, j)[q] = h[q]
<1>1. PICK f : upRun(f, h, j)
  BY upRuns
<1>2. Len(h) \in Nat /\ f[j] \in Sifts(h, j) /\ up(h, j) = f[j].heap
  BY <1>1, LenProperties DEF upRun
<1>3. QED
  BY <1>2 DEF Sifts

\* down moves elements only, and only the first n.
LEMMA DownRearranges ==
  ASSUME NEW E, NEW h \in Seq(E), NEW n \in 1..Len(h), NEW i \in 1..n
  PROVE  /\ down(h, i, n) \in Rearranged(h)
         /\ \A q \in (n + 1)..Len(h) : down(h, i, n)[q] = h[q]
<1>1. PICK f : downRun(f, h, i, n)
  BY downRuns
<1>2. Len(h) \in Nat /\ f[n] \in Sifts(h, n) /\ down(h, i, n) = f[n].heap
  BY <1>1, LenProperties DEF downRun
<1>3. QED
  BY <1>2 DEF Sifts

\* Settle touches only the first n elements.
LEMMA SettleRearranges ==
  ASSUME NEW E, NEW h \in Seq(E), NEW n \in 1..Len(h), NEW i \in 1..n
  PROVE  /\ Settle(h, i, n) \in Rearranged(h)
         /\ \A q \in (n + 1)..Len(h) : Settle(h, i, n)[q] = h[q]
<1>1. Len(h) \in Nat /\ i \in 1..Len(h) /\ \A q \in (n + 1)..Len(h) : q \in (i + 1)..Len(h)
  BY LenProperties
<1>2. QED
  BY <1>1, UpRearranges, DownRearranges DEF Settle

\* A rearrangement of a sequence is a sequence of the same elements.
LEMMA RearrangedIsSeq ==
  ASSUME NEW E, NEW h \in Seq(E), NEW g \in Rearranged(h)
  PROVE  g \in Seq(E)
<1>1. Range(h) \subseteq E /\ g \in Seq(Range(h))
  BY SeqOfElements DEF Rearranged
<1>2. QED
  BY <1>1, SeqMonotonic

\* The values of the loop of heap.Init.
heapInitRun(f, h) ==
  /\ f \in [0..(Len(h) \div 2) -> Rearranged(h)]
  /\ f[0] = h /\ heapInit(h) = f[(Len(h) \div 2)]
  /\ \A k \in 1..(Len(h) \div 2) : f[k] = down(f[k - 1], Len(h) \div 2 + 1 - k, Len(h))

\* The loop has these values.
LEMMA heapInitRuns ==
  ASSUME NEW E, NEW h \in Seq(E)
  PROVE  \E f : heapInitRun(f, h)
<1> DEFINE N == (Len(h) \div 2)
           A == Rearranged(h)
           x == h
           op(a, k) == down(a, Len(h) \div 2 + 1 - k, Len(h))
           F(v) == [k \in 0..N |-> IF k = 0 THEN x ELSE op(v[k - 1], k)]
           v == CHOOSE f : f = F(f)
           step == [k \in 1..N |-> [a \in A |-> op(a, k)]]
<1>1. N \in Nat /\ x \in A
  BY RearrangedSelf, LenProperties
<1>2. \A a \in A : \A k \in 1..N : op(a, k) \in A
  <2> SUFFICES ASSUME NEW a \in A, NEW k \in 1..N PROVE op(a, k) \in A
    OBVIOUS
  <2>1. Len(h) \in Nat /\ a \in Seq(Range(h)) /\ Len(a) = Len(h)
    BY LenProperties DEF Rearranged
  <2>2. Len(h) \div 2 + 1 - k \in 1..Len(h) /\ Len(h) \in 1..Len(h)
    BY <2>1
  <2>3. op(a, k) \in Rearranged(a)
    BY <2>1, <2>2, DownRearranges
  <2>4. QED
    BY <2>3, RearrangedTwice
<1>3. heapInit(h) = v[N]
  BY DEF heapInit, Loop
<1> HIDE DEF N, A, x, op
<1>4. PICK f : Trace(f, N, A, x, step)
  <2>1. step \in [1..N -> [A -> A]]
    BY <1>2
  <2> HIDE DEF step
  <2>2. QED
    BY <1>1, <2>1, TraceExists
<1>5. f = F(f)
  <2>1. f \in [0..N -> A] /\ f[0] = x /\ \A k \in 1..N : f[k] = op(f[k - 1], k)
    <3>1. f \in [0..N -> A] /\ \A k \in 1..N : k \in 0..N /\ k - 1 \in 0..N
      BY <1>1, <1>4 DEF Trace
    <3>2. QED
      BY <1>4, <3>1 DEF Trace
  <2>2. \A k \in 0..N : f[k] = IF k = 0 THEN x ELSE op(f[k - 1], k)
    <3>1. \A k \in 0..N : k # 0 => k \in 1..N
      BY <1>1
    <3>2. QED
      BY <2>1, <3>1
  <2>3. QED
    BY <2>1, <2>2
<1>6. v = F(v)
  BY <1>5
<1> HIDE DEF v, step
<1>7. v[0] = x /\ \A k \in 1..N : v[k] = op(v[k - 1], k)
  <2>1. \A k \in 1..N : k \in 0..N /\ k # 0
    BY <1>1
  <2>2. QED
    BY <1>1, <1>6, <2>1
<1>8. v \in [0..N -> A]
  <2>1. v = [k \in 0..N |-> v[k]] /\ v[0] \in A
    BY <1>1, <1>6, <1>7
  <2>2. \A k \in 1..N : v[k - 1] \in A => v[k] \in A
    BY <1>2, <1>7
  <2>3. QED
    BY <1>1, <2>1, <2>2, LoopIn
<1>9. heapInitRun(v, h)
  BY <1>3, <1>7, <1>8 DEF N, A, x, op, heapInitRun
<1>10. QED
  BY <1>9

\* heap.Init rearranges.
LEMMA InitRearranges ==
  ASSUME NEW E, NEW h \in Seq(E)
  PROVE  heapInit(h) \in Rearranged(h)
<1>1. PICK f : heapInitRun(f, h)
  BY heapInitRuns
<1>2. Len(h) \div 2 \in 0..(Len(h) \div 2)
  BY LenProperties
<1>3. QED
  BY <1>1, <1>2 DEF heapInitRun

\* heap.Push adds one element.
LEMMA PushAdds ==
  ASSUME NEW E, NEW h \in Seq(E), NEW c \in E
  PROVE  /\ heapPush(h, c) \in Seq(E) /\ Len(heapPush(h, c)) = Len(h) + 1
         /\ Range(heapPush(h, c)) = Range(h) \cup {c}
<1> DEFINE g == Append(h, c)
<1>1. /\ g \in Seq(E) /\ Len(g) = Len(h) + 1 /\ Len(h) \in Nat
      /\ g[Len(h) + 1] = c /\ \A i \in 1..Len(h) : g[i] = h[i]
  BY AppendProperties, LenProperties
<1>2. Range(g) = Range(h) \cup {c}
  <2>1. DOMAIN g = 1..(Len(h) + 1) /\ DOMAIN h = 1..Len(h)
    BY <1>1, LenProperties
  <2>2. \A i \in 1..(Len(h) + 1) : i = Len(h) + 1 \/ i \in 1..Len(h)
    BY <1>1
  <2>3. Len(h) + 1 \in 1..(Len(h) + 1) /\ \A i \in 1..Len(h) : i \in 1..(Len(h) + 1)
    BY <1>1
  <2> HIDE DEF g
  <2>4. QED
    BY <1>1, <2>1, <2>2, <2>3 DEF Range
<1>3. Len(h) + 1 \in 1..Len(g)
  BY <1>1
<1>4. heapPush(h, c) = up(g, Len(h) + 1)
  BY DEF heapPush
<1> HIDE DEF g
<1>5. up(g, Len(h) + 1) \in Rearranged(g) /\ up(g, Len(h) + 1) \in Seq(E)
  BY <1>1, <1>3, UpRearranges, RearrangedIsSeq
<1>6. QED
  BY <1>1, <1>2, <1>4, <1>5 DEF Rearranged

\* heap.Remove and heap.Pop take one element out and lose no other.
LEMMA RemoveTakes ==
  ASSUME NEW E, NEW h \in Seq(E), NEW i \in 1..Len(h)
  PROVE  /\ heapRemove(h, i) \in Seq(E) /\ Len(heapRemove(h, i)) = Len(h) - 1
         /\ Range(h) = Range(heapRemove(h, i)) \cup {h[i]}
<1> DEFINE n == Len(h)
           g == IF i = n THEN h ELSE Settle(Swap(h, i, n), i, n - 1)
<1>1. n \in Nat /\ n \in 1..n /\ n >= 1 /\ i \in 1..n
  BY LenProperties
<1>2. g \in Rearranged(h) /\ g[n] = h[i]
  <2>1. CASE i = n
    BY <2>1, RearrangedSelf
  <2>2. CASE i # n
    <3>1. Swap(h, i, n) \in Rearranged(h) /\ Swap(h, i, n)[n] = h[i]
      BY <1>1, SwapRearranges
    <3>2. Swap(h, i, n) \in Seq(E) /\ Len(Swap(h, i, n)) = n
      BY <3>1, RearrangedIsSeq DEF Rearranged
    <3>3. n - 1 \in 1..n /\ i \in 1..(n - 1) /\ n \in (n - 1 + 1)..n
      BY <1>1, <2>2
    <3>4. /\ Settle(Swap(h, i, n), i, n - 1) \in Rearranged(Swap(h, i, n))
          /\ Settle(Swap(h, i, n), i, n - 1)[n] = Swap(h, i, n)[n]
      <4> HIDE DEF n
      <4> QED BY <3>2, <3>3, SettleRearranges
    <3>5. QED
      BY <2>2, <3>1, <3>4, RearrangedTwice
  <2>3. QED
    BY <2>1, <2>2
<1>3. heapRemove(h, i) = SubSeq(g, 1, n - 1)
  BY DEF heapRemove
<1> HIDE DEF g
<1>4. g \in Seq(E) /\ Len(g) = n /\ Range(g) = Range(h) /\ DOMAIN g = 1..n
  BY <1>2, RearrangedIsSeq, LenProperties DEF Rearranged
<1>5. /\ SubSeq(g, 1, n - 1) \in Seq(E) /\ Len(SubSeq(g, 1, n - 1)) = n - 1
      /\ \A q \in 1..(n - 1) : SubSeq(g, 1, n - 1)[q] = g[q]
  BY SMTT(30), <1>1, <1>4, SubSeqProperties
<1>6. Range(g) = Range(SubSeq(g, 1, n - 1)) \cup {g[n]}
  <2>1. DOMAIN SubSeq(g, 1, n - 1) = 1..(n - 1)
    BY <1>5, LenProperties
  <2>2. \A q \in 1..n : q = n \/ q \in 1..(n - 1)
    BY <1>1
  <2>3. \A q \in 1..(n - 1) : q \in 1..n
    BY <1>1
  <2>4. QED
    BY <1>1, <1>4, <1>5, <2>1, <2>2, <2>3 DEF Range
<1>7. QED
  BY <1>2, <1>3, <1>4, <1>5, <1>6

\* The values of the loop that pushes a list.
PushAllRun(f, h, cands, E) ==
  /\ f \in [0..Len(cands) -> Seq(E)]
  /\ f[0] = h /\ PushAll(h, cands) = f[Len(cands)]
  /\ \A k \in 1..Len(cands) : f[k] = heapPush(f[k - 1], cands[k])

\* The loop has these values.
LEMMA PushAllRuns ==
  ASSUME NEW E, NEW h \in Seq(E), NEW cands \in Seq(E)
  PROVE  \E f : PushAllRun(f, h, cands, E)
<1> DEFINE N == Len(cands)
           A == Seq(E)
           x == h
           op(a, k) == heapPush(a, cands[k])
           F(v) == [k \in 0..N |-> IF k = 0 THEN x ELSE op(v[k - 1], k)]
           v == CHOOSE f : f = F(f)
           step == [k \in 1..N |-> [a \in A |-> op(a, k)]]
<1>1. N \in Nat /\ x \in A
  BY LenProperties
<1>2. \A a \in A : \A k \in 1..N : op(a, k) \in A
  <2>1. \A k \in 1..N : cands[k] \in E
    BY ElementOfSeq
  <2>2. QED
    BY <2>1, PushAdds
<1>3. PushAll(h, cands) = v[N]
  BY DEF PushAll, Loop
<1> HIDE DEF N, A, x, op
<1>4. PICK f : Trace(f, N, A, x, step)
  <2>1. step \in [1..N -> [A -> A]]
    BY <1>2
  <2> HIDE DEF step
  <2>2. QED
    BY <1>1, <2>1, TraceExists
<1>5. f = F(f)
  <2>1. f \in [0..N -> A] /\ f[0] = x /\ \A k \in 1..N : f[k] = op(f[k - 1], k)
    <3>1. f \in [0..N -> A] /\ \A k \in 1..N : k \in 0..N /\ k - 1 \in 0..N
      BY <1>1, <1>4 DEF Trace
    <3>2. QED
      BY <1>4, <3>1 DEF Trace
  <2>2. \A k \in 0..N : f[k] = IF k = 0 THEN x ELSE op(f[k - 1], k)
    <3>1. \A k \in 0..N : k # 0 => k \in 1..N
      BY <1>1
    <3>2. QED
      BY <2>1, <3>1
  <2>3. QED
    BY <2>1, <2>2
<1>6. v = F(v)
  BY <1>5
<1> HIDE DEF v, step
<1>7. v[0] = x /\ \A k \in 1..N : v[k] = op(v[k - 1], k)
  <2>1. \A k \in 1..N : k \in 0..N /\ k # 0
    BY <1>1
  <2>2. QED
    BY <1>1, <1>6, <2>1
<1>8. v \in [0..N -> A]
  <2>1. v = [k \in 0..N |-> v[k]] /\ v[0] \in A
    BY <1>1, <1>6, <1>7
  <2>2. \A k \in 1..N : v[k - 1] \in A => v[k] \in A
    BY <1>2, <1>7
  <2>3. QED
    BY <1>1, <2>1, <2>2, LoopIn
<1>9. PushAllRun(v, h, cands, E)
  BY <1>3, <1>7, <1>8 DEF N, A, x, op, PushAllRun
<1>10. QED
  BY <1>9

\* Pushing a list adds its elements.
LEMMA PushAllAdds ==
  ASSUME NEW E, NEW h \in Seq(E), NEW cands \in Seq(E)
  PROVE  /\ PushAll(h, cands) \in Seq(E) /\ Len(PushAll(h, cands)) = Len(h) + Len(cands)
         /\ Range(PushAll(h, cands)) = Range(h) \cup Range(cands)
<1>1. PICK f : PushAllRun(f, h, cands, E)
  BY PushAllRuns
<1>2. /\ f \in [0..Len(cands) -> Seq(E)] /\ f[0] = h /\ PushAll(h, cands) = f[Len(cands)]
      /\ Len(cands) \in Nat /\ Len(h) \in Nat /\ DOMAIN cands = 1..Len(cands)
  BY <1>1, LenProperties DEF PushAllRun
<1>3. \A k \in 1..Len(cands) : f[k] = heapPush(f[k - 1], cands[k])
  BY <1>1 DEF PushAllRun
<1> DEFINE T == {k \in 0..Len(cands) : /\ Len(f[k]) = Len(h) + k
                                      /\ Range(f[k]) = Range(h) \cup {cands[i] : i \in 1..k}}
<1>4. 0 \in T
  <2>1. {cands[i] : i \in 1..0} = {}
    OBVIOUS
  <2>2. QED
    BY <1>2, <2>1
<1>5. ASSUME NEW k \in 1..Len(cands), k - 1 \in T
      PROVE  k \in T
  <2>0. k - 1 \in 0..Len(cands) /\ k \in 0..Len(cands) /\ cands[k] \in E
    BY <1>2, ElementOfSeq
  <2>1. f[k - 1] \in Seq(E)
    BY <1>2, <2>0
  <2>a. f[k] = heapPush(f[k - 1], cands[k])
    BY <1>3
  <2>2. Len(f[k]) = Len(f[k - 1]) + 1 /\ Range(f[k]) = Range(f[k - 1]) \cup {cands[k]}
    <3> DEFINE g == f[k - 1]
               c == cands[k]
    <3>1. g \in Seq(E) /\ c \in E /\ f[k] = heapPush(g, c)
      BY <2>0, <2>1, <2>a
    <3> HIDE DEF g, c
    <3>2. Len(heapPush(g, c)) = Len(g) + 1 /\ Range(heapPush(g, c)) = Range(g) \cup {c}
      BY <3>1, PushAdds
    <3>3. QED
      BY <3>1, <3>2 DEF g, c
  <2>3. {cands[i] : i \in 1..k} = {cands[i] : i \in 1..(k - 1)} \cup {cands[k]}
    <3>1. \A i \in 1..k : i = k \/ i \in 1..(k - 1)
      BY <1>2
    <3>2. k \in 1..k /\ \A i \in 1..(k - 1) : i \in 1..k
      BY <1>2
    <3>3. QED
      BY <3>1, <3>2
  <2>4. Len(f[k]) = Len(h) + k
    BY <1>2, <1>5, <2>0, <2>2
  <2>5. Range(f[k]) = Range(h) \cup {cands[i] : i \in 1..k}
    BY <1>5, <2>2, <2>3
  <2>6. QED
    BY <2>0, <2>4, <2>5
<1>6. 0..Len(cands) \subseteq T
  <2> HIDE DEF T
  <2> QED BY <1>2, <1>4, <1>5, Upto
<1>7. Len(cands) \in T
  BY <1>2, <1>6
<1>8. QED
  BY ZenonT(60), <1>2, <1>7 DEF Range

\* RemoveMatching keeps what does not match, and nothing else.
LEMMA RemoveMatchingKeeps ==
  ASSUME NEW E, NEW h \in Seq(E), NEW gone
  PROVE  /\ RemoveMatching(h, gone) \in Seq(E)
         /\ Range(RemoveMatching(h, gone)) = Range(h) \ gone
<1> DEFINE I == {i \in DOMAIN h : h[i] \notin gone}
           t == Subsequence(h, I)
<1>1. t \in Seq(E) /\ DOMAIN h = 1..Len(h)
  BY SubsequencePicks, LenProperties
<1>2. PICK pos : Picks(pos, t, h, I)
  <2> HIDE DEF I
  <2> QED BY SubsequencePicks
<1>3. Range(t) = Range(h) \ gone
  <2>1. /\ \A i \in 1..Len(t) : pos[i] \in I /\ t[i] = h[pos[i]]
        /\ \A q \in I : \E i \in 1..Len(t) : pos[i] = q
    BY <1>1, <1>2 DEF Picks
  <2>2. DOMAIN t = 1..Len(t)
    BY <1>1, LenProperties
  <2>3. \A c \in Range(t) : c \in Range(h) /\ c \notin gone
    <3> HIDE DEF t
    <3> QED BY <1>1, <2>1, <2>2 DEF Range
  <2>4. ASSUME NEW c \in Range(h), c \notin gone
        PROVE  c \in Range(t)
    <3>1. PICK q \in I : h[q] = c
      BY <2>4 DEF Range
    <3>2. PICK i \in 1..Len(t) : pos[i] = q
      BY <2>1, <3>1
    <3>3. t[i] = c
      BY <2>1, <3>1, <3>2
    <3> HIDE DEF t
    <3>4. QED
      BY <2>2, <3>2, <3>3 DEF Range
  <2>5. QED
    BY <2>3, <2>4
<1>4. RemoveMatching(h, gone) = heapInit(t)
  BY DEF RemoveMatching
<1> HIDE DEF t
<1>5. QED
  BY <1>1, <1>3, <1>4, InitRearranges, RearrangedIsSeq DEF Rearranged

\* The values of the loop that applies fn.
ReprioritizeRun(f, h, fn, E) ==
  /\ f \in [0..Len(h) -> {g \in Seq(E) : Len(g) = Len(h)}]
  /\ f[0] = h /\ Reprioritize(h, fn) = heapInit(f[Len(h)])
  /\ \A k \in 1..Len(h) : f[k] = [f[k - 1] EXCEPT ![k] = fn[h[k]]]

\* The loop has these values.
LEMMA ReprioritizeRuns ==
  ASSUME NEW E, NEW h \in Seq(E), NEW fn \in [Range(h) -> E]
  PROVE  \E f : ReprioritizeRun(f, h, fn, E)
<1> DEFINE N == Len(h)
           A == {g \in Seq(E) : Len(g) = Len(h)}
           x == h
           op(a, k) == [a EXCEPT ![k] = fn[h[k]]]
           F(v) == [k \in 0..N |-> IF k = 0 THEN x ELSE op(v[k - 1], k)]
           v == CHOOSE f : f = F(f)
           step == [k \in 1..N |-> [a \in A |-> op(a, k)]]
<1>1. N \in Nat /\ x \in A
  BY LenProperties
<1>2. \A a \in A : \A k \in 1..N : op(a, k) \in A
  <2> SUFFICES ASSUME NEW a \in A, NEW k \in 1..N PROVE op(a, k) \in A
    OBVIOUS
  <2>1. DOMAIN h = 1..Len(h) /\ fn[h[k]] \in E
    BY LenProperties DEF Range
  <2>2. QED
    BY <2>1, ExceptSeq
<1>3. Reprioritize(h, fn) = heapInit(v[N])
  BY DEF Reprioritize, Loop
<1> HIDE DEF N, A, x, op
<1>4. PICK f : Trace(f, N, A, x, step)
  <2>1. step \in [1..N -> [A -> A]]
    BY <1>2
  <2> HIDE DEF step
  <2>2. QED
    BY <1>1, <2>1, TraceExists
<1>5. f = F(f)
  <2>1. f \in [0..N -> A] /\ f[0] = x /\ \A k \in 1..N : f[k] = op(f[k - 1], k)
    <3>1. f \in [0..N -> A] /\ \A k \in 1..N : k \in 0..N /\ k - 1 \in 0..N
      BY <1>1, <1>4 DEF Trace
    <3>2. QED
      BY <1>4, <3>1 DEF Trace
  <2>2. \A k \in 0..N : f[k] = IF k = 0 THEN x ELSE op(f[k - 1], k)
    <3>1. \A k \in 0..N : k # 0 => k \in 1..N
      BY <1>1
    <3>2. QED
      BY <2>1, <3>1
  <2>3. QED
    BY <2>1, <2>2
<1>6. v = F(v)
  BY <1>5
<1> HIDE DEF v, step
<1>7. v[0] = x /\ \A k \in 1..N : v[k] = op(v[k - 1], k)
  <2>1. \A k \in 1..N : k \in 0..N /\ k # 0
    BY <1>1
  <2>2. QED
    BY <1>1, <1>6, <2>1
<1>8. v \in [0..N -> A]
  <2>1. v = [k \in 0..N |-> v[k]] /\ v[0] \in A
    BY <1>1, <1>6, <1>7
  <2>2. \A k \in 1..N : v[k - 1] \in A => v[k] \in A
    BY <1>2, <1>7
  <2>3. QED
    BY <1>1, <2>1, <2>2, LoopIn
<1>9. ReprioritizeRun(v, h, fn, E)
  BY <1>3, <1>7, <1>8 DEF N, A, x, op, ReprioritizeRun
<1>10. QED
  BY <1>9

\* Reprioritize applies fn to every element.
LEMMA ReprioritizeMaps ==
  ASSUME NEW E, NEW h \in Seq(E), NEW fn \in [Range(h) -> E]
  PROVE  /\ Reprioritize(h, fn) \in Seq(E) /\ Len(Reprioritize(h, fn)) = Len(h)
         /\ Range(Reprioritize(h, fn)) = {fn[c] : c \in Range(h)}
<1>1. PICK f : ReprioritizeRun(f, h, fn, E)
  BY ReprioritizeRuns
<1> DEFINE n == Len(h)
<1>2. /\ f \in [0..n -> {g \in Seq(E) : Len(g) = n}] /\ f[0] = h
      /\ Reprioritize(h, fn) = heapInit(f[n]) /\ n \in Nat /\ DOMAIN h = 1..n
  BY <1>1, LenProperties DEF ReprioritizeRun
<1>3. \A k \in 1..n : f[k] = [f[k - 1] EXCEPT ![k] = fn[h[k]]]
  BY <1>1 DEF ReprioritizeRun
<1>4. \A k \in 0..n : f[k] \in Seq(E) /\ Len(f[k]) = n /\ DOMAIN f[k] = 1..n
  BY <1>2, LenProperties
<1> HIDE DEF n
<1> DEFINE T == {k \in 0..n : \A i \in 1..k : f[k][i] = fn[h[i]]}
<1>5. 0 \in T
  BY <1>2
<1>6. ASSUME NEW k \in 1..n, k - 1 \in T
      PROVE  k \in T
  <2>1. k - 1 \in 0..n /\ k \in 0..n /\ DOMAIN f[k - 1] = 1..n
    BY <1>2, <1>4
  <2>2. f[k] = [f[k - 1] EXCEPT ![k] = fn[h[k]]]
    BY <1>3
  <2>3. \A i \in 1..k : i \in 1..n /\ (i = k \/ i \in 1..(k - 1))
    BY <1>2
  <2>4. \A i \in 1..k : f[k][i] = fn[h[i]]
    BY <1>6, <2>1, <2>2, <2>3
  <2>5. QED
    BY <2>1, <2>4
<1>7. 0..n \subseteq T
  <2> HIDE DEF T
  <2> QED BY <1>2, <1>5, <1>6, Upto
<1>8. n \in 0..n
  BY <1>2
<1>9. \A i \in 1..n : f[n][i] = fn[h[i]]
  BY <1>7, <1>8
<1>10. Range(f[n]) = {fn[c] : c \in Range(h)}
  <2>1. DOMAIN f[n] = 1..n
    BY <1>4, <1>8
  <2>2. Range(h) = {h[i] : i \in 1..n} /\ Range(f[n]) = {f[n][i] : i \in 1..n}
    BY <1>2, <2>1 DEF Range
  <2>3. QED
    BY <1>9, <2>2
<1>11. heapInit(f[n]) \in Rearranged(f[n]) /\ heapInit(f[n]) \in Seq(E)
  BY <1>4, <1>8, InitRearranges, RearrangedIsSeq
<1>12. QED
  BY <1>2, <1>4, <1>8, <1>10, <1>11 DEF Rearranged, n

\* UpdateMatching replaces the element it finds.
LEMMA UpdateMatchingReplaces ==
  ASSUME NEW E, NEW h \in Seq(E), NEW id, NEW fn \in [Range(h) -> E]
  PROVE  /\ UpdateMatching(h, id, fn) \in Seq(E)
         /\ \A c \in Range(UpdateMatching(h, id, fn)) :
              c \in Range(h) \/ \E e \in Range(h) : c = fn[e]
<1> DEFINE found == {i \in DOMAIN h : <<h[i].dir, h[i].path>> = id}
           m == CHOOSE i \in found : \A j \in found : i <= j
           g == [h EXCEPT ![m] = fn[h[m]]]
<1>1. Len(h) \in Nat /\ DOMAIN h = 1..Len(h)
  BY LenProperties
<1>2. CASE found = {}
  BY <1>2 DEF UpdateMatching
<1>3. CASE found # {}
  <2>1. m \in 1..Len(h)
    <3>1. found \in SUBSET Nat /\ found \subseteq 1..Len(h)
      BY <1>1
    <3> HIDE DEF found
    <3>2. \E i \in found : \A j \in found : i <= j
      BY <1>3, <3>1, LeastOf
    <3>3. m \in found
      BY <3>2
    <3>4. QED
      BY <3>1, <3>3
  <2>2. UpdateMatching(h, id, fn) = heapFix(g, m)
    BY <1>3 DEF UpdateMatching
  <2> HIDE DEF m, found
  <2>3. h[m] \in Range(h) /\ fn[h[m]] \in E
    BY <1>1, <2>1 DEF Range
  <2>4. g \in Seq(E) /\ Len(g) = Len(h)
    BY <2>1, <2>3, ExceptSeq
  <2>5. Len(g) \in 1..Len(g)
    BY <1>1, <2>1, <2>4
  <2>6. Settle(g, m, Len(g)) \in Rearranged(g)
    <3> HIDE DEF g
    <3> QED BY <2>1, <2>4, <2>5, SettleRearranges
  <2>7. UpdateMatching(h, id, fn) = Settle(g, m, Len(g))
    BY <2>2 DEF heapFix
  <2>8. \A c \in Range(g) : c \in Range(h) \/ c = fn[h[m]]
    BY <1>1, <2>1 DEF Range
  <2> HIDE DEF g
  <2>9. QED
    BY <2>3, <2>4, <2>6, <2>7, <2>8, RearrangedIsSeq DEF Rearranged
<1>4. QED
  BY <1>2, <1>3

-----------------------------------------------------------------------------
(* Sequences whose elements are left open.                                    *)

IsSeq(s) == s \in Seq(Range(s))

\* A function on 1..n is a sequence.
LEMMA SegmentIs ==
  ASSUME NEW n \in Nat, NEW s, s = [i \in 1..n |-> s[i]]
  PROVE  IsSeq(s) /\ Len(s) = n /\ DOMAIN s = 1..n
<1>1. s \in [1..n -> Range(s)] /\ DOMAIN s = 1..n
  BY DEF Range
<1>2. QED
  BY <1>1, SegmentIsSeq DEF IsSeq

\* A sequence of any elements is one.
LEMMA SeqIs ==
  ASSUME NEW S, NEW s \in Seq(S)
  PROVE  IsSeq(s) /\ Range(s) \subseteq S /\ Len(s) \in Nat /\ DOMAIN s = 1..Len(s)
BY SeqOfElements, LenProperties DEF IsSeq

\* Two sequences make one.
LEMMA ConcatIs ==
  ASSUME NEW s, NEW t, IsSeq(s), IsSeq(t)
  PROVE  /\ IsSeq(s \o t) /\ Range(s \o t) = Range(s) \cup Range(t)
         /\ Len(s \o t) = Len(s) + Len(t)
         /\ \A i \in 1..(Len(s) + Len(t)) :
              (s \o t)[i] = IF i <= Len(s) THEN s[i] ELSE t[i - Len(s)]
<1> DEFINE S == Range(s) \cup Range(t)
<1>1. s \in Seq(S) /\ t \in Seq(S)
  BY SeqMonotonic DEF IsSeq
<1> HIDE DEF S
<1>2. /\ s \o t \in Seq(S) /\ Len(s \o t) = Len(s) + Len(t)
      /\ \A i \in 1..(Len(s) + Len(t)) :
           (s \o t)[i] = IF i <= Len(s) THEN s[i] ELSE t[i - Len(s)]
  BY <1>1, ConcatProperties
<1>3. /\ Len(s) \in Nat /\ Len(t) \in Nat /\ DOMAIN s = 1..Len(s) /\ DOMAIN t = 1..Len(t)
      /\ IsSeq(s \o t) /\ DOMAIN (s \o t) = 1..(Len(s) + Len(t))
      /\ Range(s \o t) \subseteq S
  BY <1>1, <1>2, SeqIs
<1>4. \A i \in 1..Len(s) : i \in 1..(Len(s) + Len(t)) /\ (s \o t)[i] = s[i]
  BY <1>2, <1>3
<1>5. \A i \in 1..Len(t) : Len(s) + i \in 1..(Len(s) + Len(t)) /\ (s \o t)[Len(s) + i] = t[i]
  BY <1>2, <1>3
<1>6. Range(s) \subseteq Range(s \o t)
  BY <1>3, <1>4 DEF Range
<1>7. Range(t) \subseteq Range(s \o t)
  BY <1>3, <1>5 DEF Range
<1>8. QED
  BY <1>2, <1>3, <1>6, <1>7 DEF S

\* So do several.
LEMMA FlattenIs ==
  ASSUME NEW seqs, IsSeq(seqs), \A i \in 1..Len(seqs) : IsSeq(seqs[i])
  PROVE  IsSeq(Flatten(seqs))
<1> DEFINE S == UNION {Range(seqs[i]) : i \in 1..Len(seqs)}
<1>1. Len(seqs) \in Nat /\ DOMAIN seqs = 1..Len(seqs)
  BY SeqIs DEF IsSeq
<1>2. \A i \in 1..Len(seqs) : seqs[i] \in Seq(S)
  <2> SUFFICES ASSUME NEW i \in 1..Len(seqs) PROVE seqs[i] \in Seq(S)
    OBVIOUS
  <2>1. seqs[i] \in Seq(Range(seqs[i])) /\ Range(seqs[i]) \subseteq S
    BY DEF IsSeq
  <2> HIDE DEF S
  <2>2. QED
    BY <2>1, SeqMonotonic
<1>3. seqs \in [1..Len(seqs) -> Seq(S)]
  <2> HIDE DEF S
  <2> QED BY <1>1, <1>2, LenProperties DEF IsSeq
<1>4. seqs \in Seq(Seq(S))
  <2> HIDE DEF S
  <2> QED BY <1>1, <1>3, SegmentIsSeq
<1> HIDE DEF S
<1>5. QED
  BY <1>4, FlattenIsSeq, SeqIs

\* What is picked out of a sequence is one.
LEMMA SubsequenceIs ==
  ASSUME NEW s, IsSeq(s), NEW I
  PROVE  /\ IsSeq(Subsequence(s, I)) /\ Range(Subsequence(s, I)) \subseteq Range(s)
         /\ \E pos : Picks(pos, Subsequence(s, I), s, I)
BY SubsequencePicks, SeqIs DEF IsSeq

-----------------------------------------------------------------------------
(* The rules.                                                                *)

Distinct(rules) == \A i, j \in DOMAIN rules : Key(rules[i]) = Key(rules[j]) => i = j

\* A subsequence of distinct rules is distinct.
LEMMA SubsequenceDistinct ==
  ASSUME NEW s, IsSeq(s), Distinct(s), NEW I
  PROVE  Distinct(Subsequence(s, I))
<1> DEFINE t == Subsequence(s, I)
<1>1. IsSeq(t) /\ \E pos : Picks(pos, t, s, I)
  BY SubsequenceIs
<1> HIDE DEF t
<1>2. PICK pos : Picks(pos, t, s, I)
  BY <1>1
<1>3. DOMAIN t = 1..Len(t) /\ Len(t) \in Nat /\ DOMAIN s = 1..Len(s)
  BY <1>1, SeqIs DEF IsSeq
<1>4. \A i, j \in 1..Len(t) : pos[i] = pos[j] => i = j
  <2>1. \A i, j \in 1..Len(t) : i < j => pos[i] < pos[j]
    BY <1>2 DEF Picks
  <2>2. \A i \in 1..Len(t) : pos[i] \in Nat
    BY <1>2 DEF Picks
  <2>3. QED
    BY <1>3, <2>1, <2>2
<1>5. \A i \in 1..Len(t) : pos[i] \in DOMAIN s /\ t[i] = s[pos[i]]
  BY <1>2, <1>3 DEF Picks
<1>6. QED
  BY <1>3, <1>4, <1>5 DEF Distinct, t

\* mergeByID: the rules are those of the two layers, and each key comes once.
LEMMA MergeRules ==
  ASSUME NEW base, NEW overlay, IsSeq(base), IsSeq(overlay), Distinct(base), Distinct(overlay)
  PROVE  /\ IsSeq(mergeByID(base, overlay)) /\ Distinct(mergeByID(base, overlay))
         /\ Range(mergeByID(base, overlay)) \subseteq Range(base) \cup Range(overlay)
<1> DEFINE keys(rules) == {Key(rules[i]) : i \in DOMAIN rules}
           over(r) == overlay[CHOOSE i \in DOMAIN overlay : Key(overlay[i]) = Key(r)]
           b == [i \in DOMAIN base |-> IF Key(base[i]) \in keys(overlay) THEN over(base[i])
                                       ELSE base[i]]
           I == {i \in DOMAIN overlay : Key(overlay[i]) \notin keys(base)}
           t == Subsequence(overlay, I)
<1>1. mergeByID(base, overlay) = b \o t
  BY DEF mergeByID
<1>2. DOMAIN base = 1..Len(base) /\ Len(base) \in Nat /\ DOMAIN overlay = 1..Len(overlay)
  BY SeqIs DEF IsSeq
<1>3. \A i \in 1..Len(base) : b[i] \in Range(base) \cup Range(overlay) /\ Key(b[i]) = Key(base[i])
  <2> SUFFICES ASSUME NEW i \in 1..Len(base)
               PROVE  b[i] \in Range(base) \cup Range(overlay) /\ Key(b[i]) = Key(base[i])
    OBVIOUS
  <2>1. CASE Key(base[i]) \in keys(overlay)
    <3>1. \E j \in DOMAIN overlay : Key(overlay[j]) = Key(base[i])
      BY <2>1
    <3>2. PICK j \in DOMAIN overlay : over(base[i]) = overlay[j] /\ Key(overlay[j]) = Key(base[i])
      BY <3>1
    <3>3. b[i] = overlay[j]
      BY <1>2, <2>1, <3>2
    <3>4. QED
      BY <3>2, <3>3 DEF Range
  <2>2. CASE Key(base[i]) \notin keys(overlay)
    <3>1. b[i] = base[i]
      BY <1>2, <2>2
    <3>2. QED
      BY <1>2, <3>1 DEF Range
  <2>3. QED
    BY <2>1, <2>2
<1>4. b = [i \in 1..Len(base) |-> b[i]]
  BY <1>2
<1>5. IsSeq(b) /\ Len(b) = Len(base) /\ DOMAIN b = 1..Len(base)
  <2> HIDE DEF b
  <2> QED BY <1>2, <1>4, SegmentIs
<1>6. /\ IsSeq(t) /\ Range(t) \subseteq Range(overlay) /\ Distinct(t)
      /\ DOMAIN t = 1..Len(t) /\ Len(t) \in Nat
  <2>1. IsSeq(t) /\ Range(t) \subseteq Range(overlay) /\ Distinct(t)
    BY SubsequenceIs, SubsequenceDistinct
  <2>2. QED
    BY <2>1, SeqIs DEF IsSeq
<1>7. \A i \in 1..Len(t) : \A j \in 1..Len(base) : Key(t[i]) # Key(base[j])
  <2>1. PICK pos : Picks(pos, t, overlay, I)
    <3> HIDE DEF I
    <3> QED BY SubsequenceIs
  <2>2. \A i \in 1..Len(t) : pos[i] \in I /\ t[i] = overlay[pos[i]]
    BY <2>1 DEF Picks
  <2>3. QED
    BY <1>2, <2>2
<1> HIDE DEF b, t
<1>8. /\ IsSeq(b \o t) /\ Range(b \o t) = Range(b) \cup Range(t)
      /\ Len(b \o t) = Len(base) + Len(t)
      /\ \A i \in 1..(Len(base) + Len(t)) :
           (b \o t)[i] = IF i <= Len(base) THEN b[i] ELSE t[i - Len(base)]
  BY <1>5, <1>6, ConcatIs
<1>9. Distinct(b \o t)
  <2> SUFFICES ASSUME NEW i \in 1..(Len(base) + Len(t)), NEW j \in 1..(Len(base) + Len(t)),
                      Key((b \o t)[i]) = Key((b \o t)[j])
               PROVE  i = j
    <3>1. DOMAIN (b \o t) = 1..(Len(base) + Len(t))
      BY <1>8, SeqIs DEF IsSeq
    <3>2. QED
      BY <3>1 DEF Distinct
  <2>1. CASE i <= Len(base) /\ j <= Len(base)
    <3>1. i \in 1..Len(base) /\ j \in 1..Len(base)
      BY <1>2, <1>6, <2>1
    <3>2. (b \o t)[i] = b[i] /\ (b \o t)[j] = b[j]
      BY <1>8, <2>1
    <3>3. Key(base[i]) = Key(base[j])
      BY <1>3, <3>1, <3>2
    <3>4. QED
      BY <1>2, <3>1, <3>3 DEF Distinct
  <2>2. CASE i > Len(base) /\ j > Len(base)
    <3>1. i - Len(base) \in 1..Len(t) /\ j - Len(base) \in 1..Len(t)
      BY <1>2, <1>6, <2>2
    <3>2. Key(t[i - Len(base)]) = Key(t[j - Len(base)])
      BY <1>2, <1>8, <2>2
    <3>3. i - Len(base) = j - Len(base)
      BY <1>6, <3>1, <3>2 DEF Distinct
    <3>4. QED
      BY <1>2, <3>3
  <2>3. ASSUME NEW x \in {i, j}, NEW y \in {i, j}, x <= Len(base), y > Len(base),
               Key((b \o t)[x]) = Key((b \o t)[y])
        PROVE  FALSE
    <3>1. x \in 1..Len(base) /\ y - Len(base) \in 1..Len(t)
      BY SMTT(30), <1>2, <1>6, <2>3
    <3>2. (b \o t)[x] = b[x] /\ (b \o t)[y] = t[y - Len(base)]
      BY <1>2, <1>8, <2>3
    <3>3. Key(t[y - Len(base)]) = Key(base[x])
      BY <1>3, <2>3, <3>1, <3>2
    <3>4. QED
      BY <1>7, <3>1, <3>3
  <2>4. i \in Nat /\ j \in Nat /\ Len(base) \in Nat
    BY <1>2, <1>6
  <2>5. CASE i <= Len(base) /\ j > Len(base)
    BY <2>3, <2>5
  <2>6. CASE i > Len(base) /\ j <= Len(base)
    BY <2>3, <2>6
  <2>7. QED
    BY <2>1, <2>2, <2>4, <2>5, <2>6
<1>10. Range(b) \subseteq Range(base) \cup Range(overlay)
  BY <1>3, <1>5 DEF Range
<1>11. QED
  BY <1>1, <1>6, <1>8, <1>9, <1>10

AllRules == Range(Embedded) \cup Range(SystemRules) \cup Range(UserRules)

\* Load: rules of the layers, each key once.
LEMMA LoadRules ==
  IsSeq(Load) /\ Distinct(Load) /\ Range(Load) \subseteq AllRules
<1> DEFINE m1 == mergeByID(Embedded, SystemRules)
           m2 == mergeByID(m1, UserRules)
<1>1. /\ IsSeq(Embedded) /\ IsSeq(SystemRules) /\ IsSeq(UserRules)
      /\ Distinct(Embedded) /\ Distinct(SystemRules) /\ Distinct(UserRules)
  <2>1. IsSeq(Embedded) /\ IsSeq(SystemRules) /\ IsSeq(UserRules)
    BY ProfileAssumption, SeqIs
  <2>2. \A rules \in {Embedded, SystemRules, UserRules} : Distinct(rules)
    BY ProfileAssumption DEF Distinct, Key
  <2>3. QED
    BY <2>1, <2>2
<1>2. IsSeq(m1) /\ Distinct(m1) /\ Range(m1) \subseteq AllRules
  BY <1>1, MergeRules DEF AllRules
<1> HIDE DEF m1
<1>3. IsSeq(m2) /\ Distinct(m2) /\ Range(m2) \subseteq AllRules
  BY <1>1, <1>2, MergeRules DEF AllRules
<1>4. Load = applyRulesOff(m2)
  BY DEF Load, m1
<1> HIDE DEF m2
<1>5. QED
  BY <1>3, <1>4, SubsequenceIs, SubsequenceDistinct DEF applyRulesOff

\* The rules of a source: rules of that source, each key once, with a category if every
\* rule has one.
LEMMA FromRules ==
  ASSUME NEW source
  PROVE  /\ From(source) \in Seq(Rule(Sources)) /\ Distinct(From(source))
         /\ \A i \in 1..Len(From(source)) : From(source)[i].source = source
         /\ Categorised /\ source # "activeprobe" =>
              \A i \in 1..Len(From(source)) : From(source)[i].category # NoCategory
<1> DEFINE all == Load \o Detections
           I == {i \in DOMAIN all : all[i].source = source}
           t == Subsequence(all, I)
<1>1. /\ IsSeq(Detections) /\ Distinct(Detections) /\ Range(Detections) \subseteq Rule(Detectors)
      /\ AllRules \subseteq Rule(Sources \ Detectors)
  <2>1. IsSeq(Detections) /\ Range(Detections) \subseteq Rule(Detectors)
    BY ProfileAssumption, SeqIs
  <2>2. Distinct(Detections)
    BY ProfileAssumption DEF Distinct, Key
  <2>3. \A rules \in {Embedded, SystemRules, UserRules} : Range(rules) \subseteq Rule(Sources \ Detectors)
    BY ProfileAssumption, SeqIs
  <2>4. QED
    BY <2>1, <2>2, <2>3 DEF AllRules
<1>2. /\ Len(Load) \in Nat /\ DOMAIN Load = 1..Len(Load)
      /\ Len(Detections) \in Nat /\ DOMAIN Detections = 1..Len(Detections)
  BY <1>1, LoadRules, SeqIs DEF IsSeq
<1>3. /\ IsSeq(all) /\ Range(all) = Range(Load) \cup Range(Detections)
      /\ Len(all) = Len(Load) + Len(Detections)
      /\ \A i \in 1..(Len(Load) + Len(Detections)) :
           all[i] = IF i <= Len(Load) THEN Load[i] ELSE Detections[i - Len(Load)]
  BY <1>1, LoadRules, ConcatIs
<1>4. DOMAIN all = 1..(Len(Load) + Len(Detections))
  BY <1>3, SeqIs DEF IsSeq
<1>5. Range(all) \subseteq Rule(Sources)
  <2>1. Rule(Sources \ Detectors) \subseteq Rule(Sources) /\ Rule(Detectors) \subseteq Rule(Sources)
    BY DEF Rule, Sources, Detectors
  <2>2. QED
    BY <1>1, <1>3, <2>1, LoadRules
<1> HIDE DEF all
<1>6. Distinct(all)
  <2> SUFFICES ASSUME NEW i \in 1..(Len(Load) + Len(Detections)),
                      NEW j \in 1..(Len(Load) + Len(Detections)), Key(all[i]) = Key(all[j])
               PROVE  i = j
    BY <1>4 DEF Distinct
  <2>1. CASE i <= Len(Load) /\ j <= Len(Load)
    BY <1>2, <1>3, <2>1, LoadRules DEF Distinct
  <2>2. CASE i > Len(Load) /\ j > Len(Load)
    <3>1. i - Len(Load) \in 1..Len(Detections) /\ j - Len(Load) \in 1..Len(Detections)
      BY <1>2, <2>2
    <3>2. Key(Detections[i - Len(Load)]) = Key(Detections[j - Len(Load)])
      BY <1>2, <1>3, <2>2
    <3>3. i - Len(Load) = j - Len(Load)
      BY <1>1, <1>2, <3>1, <3>2 DEF Distinct
    <3>4. QED
      BY <1>2, <3>3
  <2>3. ASSUME NEW x \in {i, j}, NEW y \in {i, j}, x <= Len(Load), y > Len(Load),
               Key(all[x]) = Key(all[y])
        PROVE  FALSE
    <3>1. x \in 1..Len(Load) /\ y - Len(Load) \in 1..Len(Detections)
      BY <1>2, <2>3
    <3>2. all[x] = Load[x] /\ all[y] = Detections[y - Len(Load)]
      BY <1>2, <1>3, <2>3
    <3>3. all[x] \in Rule(Sources \ Detectors) /\ all[y] \in Rule(Detectors)
      BY <1>1, <1>2, <3>1, <3>2, LoadRules DEF Range
    <3>4. all[x].source \notin Detectors /\ all[y].source \in Detectors
      BY <3>3 DEF Rule
    <3>5. QED
      BY <2>3, <3>4 DEF Key
  <2>4. QED
    BY <1>2, <2>1, <2>2, <2>3
<1>7. From(source) = t
  BY DEF From, all
<1>8. PICK pos : Picks(pos, t, all, I)
  <2> HIDE DEF I
  <2> QED BY <1>3, SubsequenceIs
<1>9. \A i \in 1..Len(t) : pos[i] \in I /\ t[i] = all[pos[i]]
  BY <1>8 DEF Picks
<1>10. t \in Seq(Rule(Sources)) /\ Distinct(t)
  <2>1. IsSeq(t) /\ Range(t) \subseteq Range(all)
    <3> HIDE DEF I
    <3> QED BY <1>3, SubsequenceIs
  <2>2. Distinct(t)
    <3> HIDE DEF I
    <3> QED BY <1>3, <1>6, SubsequenceDistinct
  <2> HIDE DEF t
  <2>3. t \in Seq(Range(t)) /\ Range(t) \subseteq Rule(Sources)
    BY <1>5, <2>1 DEF IsSeq
  <2>4. QED
    BY <2>2, <2>3, SeqMonotonic
<1>11. ASSUME Categorised, source # "activeprobe", NEW i \in 1..Len(t)
       PROVE  t[i].category # NoCategory
  <2>1. all[pos[i]] \in Range(Load) \cup Range(Detections) /\ all[pos[i]].source = source
    BY <1>3, <1>9 DEF Range
  <2>2. all[pos[i]] \in Range(Embedded) \cup Range(SystemRules) \cup Range(UserRules)
                          \cup Range(Detections)
    BY <2>1, LoadRules DEF AllRules
  <2>3. PICK rules \in {Embedded, SystemRules, UserRules, Detections} :
                all[pos[i]] \in Range(rules)
    BY <2>2
  <2>4. PICK j \in DOMAIN rules : all[pos[i]] = rules[j]
    BY <2>3 DEF Range
  <2>5. QED
    BY <1>9, <1>11, <2>1, <2>4 DEF Categorised
<1>12. QED
  BY <1>7, <1>9, <1>10, <1>11

-----------------------------------------------------------------------------
(* Votes.                                                                    *)

\* A vote: a rule, or what a probe makes of one.
Category == STRING \cup {NoCategory}
Votes ==
  [id : STRING, source : Sources, tech : STRING, category : Category, layer : Layers,
   confidence : 0..100]
TechRecord ==
  [confidence : Int, category : Category, votes : [Layers -> Nat], layer : Layers,
   ruleIDs : Seq(Sources \X STRING)]
Profiles ==
  {q \in UNION {[D -> TechRecord] : D \in SUBSET STRING} : IsFiniteSet(DOMAIN q)}

\* What a profile is.
LEMMA ProfileIs ==
  ASSUME NEW q \in Profiles
  PROVE  /\ DOMAIN q \subseteq STRING /\ IsFiniteSet(DOMAIN q)
         /\ \A name \in DOMAIN q : q[name] \in TechRecord
BY DEF Profiles

\* A fused confidence is a number.
LEMMA FusedIsInt ==
  ASSUME NEW a \in Int, NEW b \in Int
  PROVE  Fused(a, b) \in Int
<1> DEFINE m == (100 - a) * (100 - b)
<1>1. m \in Int
  OBVIOUS
<1> HIDE DEF m
<1>2. m \div 100 \in Int
  BY <1>1
<1>3. Fused(a, b) = IF 100 - m \div 100 > 99 THEN 99 ELSE 100 - m \div 100
  BY DEF Fused, m
<1>4. QED
  BY <1>2, <1>3

\* A rule is a vote.
LEMMA RuleVotes ==
  ASSUME NEW r \in Rule(Sources)
  PROVE  r \in Votes
BY DEF Rule, Votes, Category

\* What a vote changes: the technology it is for, by its rule.
LEMMA VoteFacts ==
  ASSUME NEW p \in Profiles, NEW r \in Votes
  PROVE  /\ vote(p, r) \in Profiles /\ DOMAIN vote(p, r) = DOMAIN p \cup {r.tech}
         /\ \A name \in DOMAIN p : name # r.tech => vote(p, r)[name] = p[name]
         /\ vote(p, r)[r.tech].ruleIDs = Append(TechIn(p, r.tech).ruleIDs, Key(r))
         /\ vote(p, r)[r.tech].category =
              IF TechIn(p, r.tech).category = NoCategory THEN r.category ELSE TechIn(p, r.tech).category
         /\ TechIn(p, r.tech) \in TechRecord
<1> DEFINE t == TechIn(p, r.tech)
           votes == [t.votes EXCEPT ![r.layer] = @ + 1]
           voted == [confidence |-> Fused(t.confidence, r.confidence),
                     category |-> IF t.category = NoCategory THEN r.category ELSE t.category,
                     votes |-> votes, layer |-> majorityLayer(votes),
                     ruleIDs |-> Append(t.ruleIDs, Key(r))]
           q == [name \in DOMAIN p \cup {r.tech} |-> IF name = r.tech THEN voted ELSE p[name]]
<1>1. vote(p, r) = q
  BY DEF vote
<1>2. /\ r.tech \in STRING /\ r.layer \in Layers /\ r.confidence \in Int
      /\ r.category \in Category /\ Key(r) \in Sources \X STRING
  BY DEF Votes, Key
<1>3. t \in TechRecord
  <2>1. NoTech \in TechRecord
    <3> DEFINE none == [l \in Layers |-> 0]
               empty == <<>>
    <3>1. none \in [Layers -> Nat] /\ empty \in Seq(Sources \X STRING) /\ "unknown" \in Layers
      BY EmptySeq DEF Layers
    <3>4. NoCategory \in Category
      BY DEF Category
    <3>2. NoTech = [confidence |-> 0, category |-> NoCategory, votes |-> none, layer |-> "unknown",
                    ruleIDs |-> empty]
      BY DEF NoTech
    <3> HIDE DEF none, empty
    <3>3. QED
      BY <3>1, <3>2, <3>4 DEF TechRecord
  <2>2. QED
    BY <2>1, ProfileIs DEF TechIn
<1> HIDE DEF t
<1>4. /\ t.confidence \in Int /\ t.category \in Category /\ t.votes \in [Layers -> Nat]
      /\ t.ruleIDs \in Seq(Sources \X STRING)
  BY <1>3 DEF TechRecord
<1>5. voted \in TechRecord
  <2>1. votes \in [Layers -> Nat]
    BY <1>2, <1>4
  <2>2. majorityLayer(votes) \in Layers
    BY DEF majorityLayer, Layers
  <2>3. Append(t.ruleIDs, Key(r)) \in Seq(Sources \X STRING)
    BY <1>2, <1>4, AppendProperties
  <2>4. Fused(t.confidence, r.confidence) \in Int
    BY <1>2, <1>4, FusedIsInt
  <2> HIDE DEF votes
  <2>5. QED
    BY <1>2, <1>4, <2>1, <2>2, <2>3, <2>4 DEF TechRecord
<1>6. q \in Profiles
  <2>1. q \in [DOMAIN p \cup {r.tech} -> TechRecord]
    <3> HIDE DEF voted
    <3> QED BY <1>5, ProfileIs
  <2>2. DOMAIN p \cup {r.tech} \in SUBSET STRING /\ IsFiniteSet(DOMAIN p \cup {r.tech})
    BY <1>2, ProfileIs, FS_AddElement
  <2> HIDE DEF q
  <2>3. QED
    BY <2>1, <2>2 DEF Profiles
<1>7. q[r.tech] = voted
  <2> HIDE DEF voted
  <2> QED OBVIOUS
<1>8. \A name \in DOMAIN p : name # r.tech => q[name] = p[name]
  <2> HIDE DEF voted
  <2> QED OBVIOUS
<1>9. DOMAIN q = DOMAIN p \cup {r.tech}
  OBVIOUS
<1> HIDE DEF q, votes
<1>10. /\ q[r.tech].ruleIDs = Append(t.ruleIDs, Key(r))
       /\ q[r.tech].category = IF t.category = NoCategory THEN r.category ELSE t.category
  BY <1>7
<1>11. QED
  BY <1>1, <1>3, <1>6, <1>8, <1>9, <1>10 DEF t

\* A round of a signal: nothing, or one vote of the rule with this key.
Voted(q, q2, key) ==
  q2 = q \/ \E r \in Votes : Key(r) = key /\ q2 = vote(q, r)
\* The same, when the vote is for a known technology or says its category.
VotedNamed(q, q2) ==
  q2 = q \/ \E r \in Votes : q2 = vote(q, r) /\ (r.category # NoCategory \/ r.tech \in DOMAIN q)

\* No rule is counted twice, and those counted are of the sources in S.
Once(q) == \A name \in DOMAIN q : IsInjective(q[name].ruleIDs)
OfSources(q, S) ==
  \A name \in DOMAIN q : \A i \in 1..Len(q[name].ruleIDs) : q[name].ruleIDs[i][1] \in S
Named(q) == \A name \in DOMAIN q : q[name].category # NoCategory
\* The technologies of p are known to q as what they were.
Refined(p, q) ==
  DOMAIN p \subseteq DOMAIN q /\ \A name \in DOMAIN p : q[name].category = p[name].category

\* A vote by a rule not counted before counts every rule once.
LEMMA VoteOnce ==
  ASSUME NEW p \in Profiles, NEW r \in Votes, Once(p), NEW K,
         \A name \in DOMAIN p : \A i \in 1..Len(p[name].ruleIDs) : p[name].ruleIDs[i] \in K,
         Key(r) \notin K
  PROVE  /\ Once(vote(p, r))
         /\ \A name \in DOMAIN vote(p, r) : \A i \in 1..Len(vote(p, r)[name].ruleIDs) :
              vote(p, r)[name].ruleIDs[i] \in K \cup {Key(r)}
<1> DEFINE q == vote(p, r)
           ids == TechIn(p, r.tech).ruleIDs
<1>1. /\ DOMAIN q = DOMAIN p \cup {r.tech} /\ q[r.tech].ruleIDs = Append(ids, Key(r))
      /\ \A name \in DOMAIN p : name # r.tech => q[name] = p[name]
      /\ TechIn(p, r.tech) \in TechRecord
  BY VoteFacts
<1>2. ids \in Seq(Sources \X STRING) /\ Key(r) \in Sources \X STRING
  BY <1>1 DEF TechRecord, Votes, Key
<1>3. Len(ids) \in Nat /\ DOMAIN ids = 1..Len(ids)
  BY <1>2, LenProperties
<1>4. /\ \A i, j \in 1..Len(ids) : ids[i] = ids[j] => i = j
      /\ \A i \in 1..Len(ids) : ids[i] \in K
  <2>1. CASE r.tech \in DOMAIN p
    <3>1. ids = p[r.tech].ruleIDs
      BY <2>1 DEF TechIn
    <3> HIDE DEF ids
    <3>2. IsInjective(ids)
      BY <2>1, <3>1 DEF Once
    <3>3. QED
      BY <1>3, <2>1, <3>1, <3>2 DEF IsInjective
  <2>2. CASE r.tech \notin DOMAIN p
    <3>1. ids = <<>>
      BY <2>2 DEF TechIn, NoTech
    <3>2. Len(ids) = 0
      BY <3>1, EmptySeq
    <3> HIDE DEF ids
    <3>3. QED
      BY <3>2
  <2>3. QED
    BY <2>1, <2>2
<1> HIDE DEF q, ids
<1> DEFINE new == Append(ids, Key(r))
<1>5. /\ Len(new) = Len(ids) + 1 /\ new[Len(ids) + 1] = Key(r)
      /\ \A i \in 1..Len(ids) : new[i] = ids[i]
      /\ DOMAIN new = 1..(Len(ids) + 1)
  BY <1>2, AppendProperties, LenProperties
<1>6. \A i \in 1..(Len(ids) + 1) : i = Len(ids) + 1 \/ i \in 1..Len(ids)
  BY <1>3
<1> HIDE DEF new
<1>7. IsInjective(new) /\ \A i \in 1..Len(new) : new[i] \in K \cup {Key(r)}
  BY <1>4, <1>5, <1>6 DEF IsInjective
<1>8. q[r.tech].ruleIDs = new
  BY <1>1 DEF new
<1>9. \A name \in DOMAIN q : name = r.tech \/ (name \in DOMAIN p /\ q[name] = p[name])
  BY <1>1
<1>10. Once(q)
  BY <1>7, <1>8, <1>9 DEF Once
<1>11. \A name \in DOMAIN q : \A i \in 1..Len(q[name].ruleIDs) : q[name].ruleIDs[i] \in K \cup {Key(r)}
  BY <1>7, <1>8, <1>9
<1>12. QED
  BY <1>10, <1>11 DEF q

\* A signal whose rules are distinct, and of a source no rule counted so far is of,
\* counts every rule once.
LEMMA SignalOnce ==
  ASSUME NEW rules \in Seq(Rule(Sources)), Distinct(rules), NEW source,
         \A i \in 1..Len(rules) : rules[i].source = source,
         NEW f \in [0..Len(rules) -> Profiles], NEW S, source \notin S,
         \A k \in 1..Len(rules) : Voted(f[k - 1], f[k], Key(rules[k])),
         Once(f[0]), OfSources(f[0], S)
  PROVE  Once(f[Len(rules)]) /\ OfSources(f[Len(rules)], S \cup {source})
<1> DEFINE n == Len(rules)
           K(k) == {key \in Sources \X STRING :
                      key[1] \in S \/ \E i \in 1..k : key = Key(rules[i])}
           Counted(q, k) == \A name \in DOMAIN q : \A i \in 1..Len(q[name].ruleIDs) :
                              q[name].ruleIDs[i] \in K(k)
           T == {k \in 0..n : Once(f[k]) /\ Counted(f[k], k)}
<1>1. n \in Nat /\ DOMAIN rules = 1..n /\ \A i \in 1..n : Key(rules[i]) \in Sources \X STRING
                /\ Key(rules[i])[1] = source
  <2>1. n \in Nat /\ DOMAIN rules = 1..n /\ \A i \in 1..n : rules[i] \in Rule(Sources)
    BY LenProperties, ElementOfSeq
  <2>2. QED
    BY <2>1 DEF Key, Rule
<1>2. ASSUME NEW q \in Profiles, NEW name \in DOMAIN q, NEW i \in 1..Len(q[name].ruleIDs)
      PROVE  q[name].ruleIDs[i] \in Sources \X STRING
  <2>1. q[name].ruleIDs \in Seq(Sources \X STRING)
    BY ProfileIs DEF TechRecord
  <2> DEFINE ids == q[name].ruleIDs
  <2> HIDE DEF ids
  <2>2. ids \in Seq(Sources \X STRING) /\ i \in 1..Len(ids)
    BY <2>1 DEF ids
  <2>3. ids[i] \in Sources \X STRING
    BY <2>2, ElementOfSeq
  <2>4. QED
    BY <2>3 DEF ids
<1>3. 0 \in T
  <2>1. f[0] \in Profiles
    BY <1>1
  <2>2. Counted(f[0], 0)
    BY <1>2, <2>1 DEF OfSources
  <2>3. QED
    BY <1>1, <2>2
<1>4. ASSUME NEW k \in 1..n, k - 1 \in T
      PROVE  k \in T
  <2>1. k - 1 \in 0..n /\ k \in 0..n /\ k \in Nat /\ f[k - 1] \in Profiles
    BY <1>1
  <2>2. K(k - 1) \subseteq K(k) /\ K(k - 1) \cup {Key(rules[k])} \subseteq K(k)
    BY <1>1, <2>1
  <2>3. Once(f[k - 1]) /\ Counted(f[k - 1], k - 1)
    BY <1>4
  <2>4. CASE f[k] = f[k - 1]
    <3>1. Counted(f[k], k)
      <4> HIDE DEF K
      <4> QED BY <2>2, <2>3, <2>4
    <3> HIDE DEF Counted
    <3>2. QED
      BY <2>1, <2>3, <2>4, <3>1
  <2>5. ASSUME NEW r \in Votes, Key(r) = Key(rules[k]), f[k] = vote(f[k - 1], r)
        PROVE  k \in T
    <3>1. Key(r) \notin K(k - 1)
      <4>1. source \notin S /\ Key(rules[k])[1] = source
        BY <1>1
      <4>2. \A i \in 1..(k - 1) : Key(rules[i]) # Key(rules[k])
        BY SMTT(30), <1>1, <2>1 DEF Distinct
      <4>3. QED
        BY <2>5, <4>1, <4>2
    <3> HIDE DEF K
    <3>2. Once(vote(f[k - 1], r)) /\ \A name \in DOMAIN vote(f[k - 1], r) :
            \A i \in 1..Len(vote(f[k - 1], r)[name].ruleIDs) :
              vote(f[k - 1], r)[name].ruleIDs[i] \in K(k - 1) \cup {Key(r)}
      BY <2>1, <2>3, <3>1, VoteOnce
    <3>3. Counted(f[k], k)
      BY <2>2, <2>5, <3>2
    <3> HIDE DEF Counted
    <3>4. QED
      BY <2>1, <2>5, <3>2, <3>3
  <2>6. QED
    BY <2>4, <2>5 DEF Voted
<1>5. 0..n \subseteq T
  <2> HIDE DEF T
  <2> QED BY <1>1, <1>3, <1>4, Upto
<1>6. n \in T
  BY <1>1, <1>5
<1>7. \A key \in K(n) : key[1] \in S \cup {source}
  BY <1>1
<1>8. Once(f[n]) /\ Counted(f[n], n)
  <2> HIDE DEF Counted
  <2> QED BY <1>6
<1>9. OfSources(f[n], S \cup {source})
  <2> HIDE DEF K
  <2> QED BY <1>7, <1>8 DEF OfSources
<1>10. QED
  BY <1>8, <1>9

\* Votes that say a category, or are for a known technology, name every technology and
\* keep the names of those known.
LEMMA SignalNamed ==
  ASSUME NEW n \in Nat, NEW f \in [0..n -> Profiles], Named(f[0]),
         \A k \in 1..n : VotedNamed(f[k - 1], f[k])
  PROVE  Named(f[n]) /\ Refined(f[0], f[n])
<1> DEFINE T == {k \in 0..n : Named(f[k]) /\ Refined(f[0], f[k])}
<1>1. 0 \in T
  BY DEF Refined
<1>2. ASSUME NEW k \in 1..n, k - 1 \in T
      PROVE  k \in T
  <2>1. k - 1 \in 0..n /\ k \in 0..n /\ f[k - 1] \in Profiles
        /\ Named(f[k - 1]) /\ Refined(f[0], f[k - 1])
    BY <1>2
  <2>2. CASE f[k] = f[k - 1]
    BY <2>1, <2>2
  <2>3. ASSUME NEW r \in Votes, f[k] = vote(f[k - 1], r),
               r.category # NoCategory \/ r.tech \in DOMAIN f[k - 1]
        PROVE  k \in T
    <3> DEFINE p == f[k - 1]
               q == f[k]
    <3>1. /\ DOMAIN q = DOMAIN p \cup {r.tech}
          /\ \A name \in DOMAIN p : name # r.tech => q[name] = p[name]
          /\ q[r.tech].category = IF TechIn(p, r.tech).category = NoCategory THEN r.category
                                  ELSE TechIn(p, r.tech).category
      <4>1. p \in Profiles /\ q = vote(p, r)
        BY <2>1, <2>3
      <4> HIDE DEF p, q
      <4>2. QED
        BY <4>1, VoteFacts
    <3>2. /\ r.tech \in DOMAIN p => q[r.tech].category = p[r.tech].category
          /\ q[r.tech].category # NoCategory
      BY <2>1, <2>3, <3>1 DEF Named, TechIn, NoTech
    <3> HIDE DEF p, q
    <3>3. Named(q) /\ Refined(p, q)
      BY <2>1, <3>1, <3>2 DEF Named, Refined, p
    <3>4. Refined(f[0], q)
      BY <2>1, <3>3 DEF Refined, p
    <3>5. QED
      BY <2>1, <3>3, <3>4 DEF q
  <2>4. QED
    BY <2>2, <2>3 DEF VotedNamed
<1>3. 0..n \subseteq T
  <2> HIDE DEF T
  <2> QED BY <1>1, <1>2, Upto
<1>4. QED
  BY <1>3

\* The values of the loop of a signal.
VoteAllRun(f, p, rules, matching) ==
  /\ f \in [0..Len(rules) -> Profiles]
  /\ f[0] = p /\ VoteAll(p, rules, matching) = f[Len(rules)]
  /\ \A k \in 1..Len(rules) : f[k] = 
                             IF rules[k].id \in matching THEN vote(f[k - 1], rules[k]) ELSE f[k - 1]

\* The loop has these values.
LEMMA VoteAllRuns ==
  ASSUME NEW p \in Profiles, NEW rules \in Seq(Rule(Sources)), NEW matching
  PROVE  \E f : VoteAllRun(f, p, rules, matching)
<1> DEFINE N == Len(rules)
           A == Profiles
           x == p
           op(a, k) == IF rules[k].id \in matching THEN vote(a, rules[k]) ELSE a
           F(v) == [k \in 0..N |-> IF k = 0 THEN x ELSE op(v[k - 1], k)]
           v == CHOOSE f : f = F(f)
           step == [k \in 1..N |-> [a \in A |-> op(a, k)]]
<1>1. N \in Nat /\ x \in A
  BY LenProperties
<1>2. \A a \in A : \A k \in 1..N : op(a, k) \in A
  <2>1. \A k \in 1..N : rules[k] \in Rule(Sources)
    BY ElementOfSeq
  <2>2. QED
    BY <2>1, VoteFacts, RuleVotes
<1>3. VoteAll(p, rules, matching) = v[N]
  BY DEF VoteAll, Loop
<1> HIDE DEF N, A, x, op
<1>4. PICK f : Trace(f, N, A, x, step)
  <2>1. step \in [1..N -> [A -> A]]
    BY <1>2
  <2> HIDE DEF step
  <2>2. QED
    BY <1>1, <2>1, TraceExists
<1>5. f = F(f)
  <2>1. f \in [0..N -> A] /\ f[0] = x /\ \A k \in 1..N : f[k] = op(f[k - 1], k)
    <3>1. f \in [0..N -> A] /\ \A k \in 1..N : k \in 0..N /\ k - 1 \in 0..N
      BY <1>1, <1>4 DEF Trace
    <3>2. QED
      BY <1>4, <3>1 DEF Trace
  <2>2. \A k \in 0..N : f[k] = IF k = 0 THEN x ELSE op(f[k - 1], k)
    <3>1. \A k \in 0..N : k # 0 => k \in 1..N
      BY <1>1
    <3>2. QED
      BY <2>1, <3>1
  <2>3. QED
    BY <2>1, <2>2
<1>6. v = F(v)
  BY <1>5
<1> HIDE DEF v, step
<1>7. v[0] = x /\ \A k \in 1..N : v[k] = op(v[k - 1], k)
  <2>1. \A k \in 1..N : k \in 0..N /\ k # 0
    BY <1>1
  <2>2. QED
    BY <1>1, <1>6, <2>1
<1>8. v \in [0..N -> A]
  <2>1. v = [k \in 0..N |-> v[k]] /\ v[0] \in A
    BY <1>1, <1>6, <1>7
  <2>2. \A k \in 1..N : v[k - 1] \in A => v[k] \in A
    BY <1>2, <1>7
  <2>3. QED
    BY <1>1, <2>1, <2>2, LoopIn
<1>9. VoteAllRun(v, p, rules, matching)
  BY <1>3, <1>7, <1>8 DEF N, A, x, op, VoteAllRun
<1>10. QED
  BY <1>9

\* What a signal of rules does to a profile: every rule counted once if none of its
\* source was counted, every technology named if the rules name theirs.
LEMMA VoteAllFacts ==
  ASSUME NEW p \in Profiles, NEW source, NEW matching
  PROVE  LET q == VoteAll(p, From(source), matching)
         IN  /\ q \in Profiles
             /\ \A S : Once(p) /\ OfSources(p, S) /\ source \notin S =>
                         Once(q) /\ OfSources(q, S \cup {source})
             /\ Categorised /\ source # "activeprobe" /\ Named(p) => Named(q) /\ Refined(p, q)
<1> DEFINE rules == From(source)
           n == Len(rules)
<1>1. /\ rules \in Seq(Rule(Sources)) /\ Distinct(rules) /\ n \in Nat
      /\ \A i \in 1..n : rules[i].source = source /\ rules[i] \in Rule(Sources)
      /\ Categorised /\ source # "activeprobe" => \A i \in 1..n : rules[i].category # NoCategory
  BY FromRules, LenProperties, ElementOfSeq
<1> HIDE DEF rules
<1>2. PICK f : VoteAllRun(f, p, rules, matching)
  BY <1>1, VoteAllRuns
<1>3. f \in [0..n -> Profiles] /\ f[0] = p /\ VoteAll(p, rules, matching) = f[n]
  BY <1>2 DEF VoteAllRun
<1>4. \A k \in 1..n : f[k] = f[k - 1] \/ f[k] = vote(f[k - 1], rules[k])
  BY <1>2 DEF VoteAllRun
<1>5. ASSUME NEW S, Once(p), OfSources(p, S), source \notin S
      PROVE  Once(f[n]) /\ OfSources(f[n], S \cup {source})
  <2>1. \A k \in 1..n : Voted(f[k - 1], f[k], Key(rules[k]))
    BY <1>1, <1>4, RuleVotes DEF Voted
  <2>2. QED
    BY <1>1, <1>3, <1>5, <2>1, SignalOnce
<1>6. ASSUME Categorised, source # "activeprobe", Named(p)
      PROVE  Named(f[n]) /\ Refined(p, f[n])
  <2>1. \A k \in 1..n : VotedNamed(f[k - 1], f[k])
    BY <1>1, <1>4, <1>6, RuleVotes DEF VotedNamed
  <2>2. QED
    BY <1>1, <1>3, <1>6, <2>1, SignalNamed
<1>7. f[n] \in Profiles
  <2>1. n \in 0..n
    BY <1>1
  <2> HIDE DEF n
  <2>2. QED
    BY <1>3, <2>1
<1>8. QED
  BY <1>3, <1>5, <1>6, <1>7 DEF rules

\* A probe is a vote of its rule, in the category and layer the technology has.
LEMMA ProbeFacts ==
  ASSUME NEW q \in Profiles, NEW r \in Rule(Sources), NEW confirming
  PROVE  /\ probe(q, r, confirming) \in Profiles
         /\ Voted(q, probe(q, r, confirming), Key(r)) /\ VotedNamed(q, probe(q, r, confirming))
<1> DEFINE r2 == [r EXCEPT !.category = q[r.tech].category, !.layer = q[r.tech].layer]
<1>1. probe(q, r, confirming) = q \/ (r.tech \in DOMAIN q /\ probe(q, r, confirming) = vote(q, r2))
  BY DEF probe
<1>2. CASE probe(q, r, confirming) = q
  BY <1>2 DEF Voted, VotedNamed
<1>3. CASE r.tech \in DOMAIN q /\ probe(q, r, confirming) = vote(q, r2)
  <2>1. q[r.tech].category \in Category /\ q[r.tech].layer \in Layers
    BY <1>3, ProfileIs DEF TechRecord
  <2>2. r2 \in Votes /\ Key(r2) = Key(r) /\ r2.tech = r.tech
    BY ZenonT(60), <2>1, RuleVotes DEF Votes, Key
  <2> HIDE DEF r2
  <2>3. QED
    BY <1>3, <2>2, VoteFacts DEF Voted, VotedNamed
<1>4. QED
  BY <1>1, <1>2, <1>3

\* The values of the loop over the probes.
runActiveProbesRun(f, p, confirming) ==
  /\ f \in [0..Len(From("activeprobe")) -> Profiles]
  /\ f[0] = p /\ runActiveProbes(p, confirming) = f[Len(From("activeprobe"))]
  /\ \A k \in 1..Len(From("activeprobe")) : f[k] = 
           probe(f[k - 1], From("activeprobe")[k], confirming)

\* The loop has these values.
LEMMA runActiveProbesRuns ==
  ASSUME NEW p \in Profiles, NEW confirming
  PROVE  \E f : runActiveProbesRun(f, p, confirming)
<1> DEFINE N == Len(From("activeprobe"))
           A == Profiles
           x == p
           op(a, k) == probe(a, From("activeprobe")[k], confirming)
           F(v) == [k \in 0..N |-> IF k = 0 THEN x ELSE op(v[k - 1], k)]
           v == CHOOSE f : f = F(f)
           step == [k \in 1..N |-> [a \in A |-> op(a, k)]]
<1>1. N \in Nat /\ x \in A
  BY FromRules, LenProperties
<1>2. \A a \in A : \A k \in 1..N : op(a, k) \in A
  <2>1. \A k \in 1..N : From("activeprobe")[k] \in Rule(Sources)
    BY FromRules, ElementOfSeq
  <2>2. QED
    BY <2>1, ProbeFacts
<1>3. runActiveProbes(p, confirming) = v[N]
  BY DEF runActiveProbes, Loop
<1> HIDE DEF N, A, x, op
<1>4. PICK f : Trace(f, N, A, x, step)
  <2>1. step \in [1..N -> [A -> A]]
    BY <1>2
  <2> HIDE DEF step
  <2>2. QED
    BY <1>1, <2>1, TraceExists
<1>5. f = F(f)
  <2>1. f \in [0..N -> A] /\ f[0] = x /\ \A k \in 1..N : f[k] = op(f[k - 1], k)
    <3>1. f \in [0..N -> A] /\ \A k \in 1..N : k \in 0..N /\ k - 1 \in 0..N
      BY <1>1, <1>4 DEF Trace
    <3>2. QED
      BY <1>4, <3>1 DEF Trace
  <2>2. \A k \in 0..N : f[k] = IF k = 0 THEN x ELSE op(f[k - 1], k)
    <3>1. \A k \in 0..N : k # 0 => k \in 1..N
      BY <1>1
    <3>2. QED
      BY <2>1, <3>1
  <2>3. QED
    BY <2>1, <2>2
<1>6. v = F(v)
  BY <1>5
<1> HIDE DEF v, step
<1>7. v[0] = x /\ \A k \in 1..N : v[k] = op(v[k - 1], k)
  <2>1. \A k \in 1..N : k \in 0..N /\ k # 0
    BY <1>1
  <2>2. QED
    BY <1>1, <1>6, <2>1
<1>8. v \in [0..N -> A]
  <2>1. v = [k \in 0..N |-> v[k]] /\ v[0] \in A
    BY <1>1, <1>6, <1>7
  <2>2. \A k \in 1..N : v[k - 1] \in A => v[k] \in A
    BY <1>2, <1>7
  <2>3. QED
    BY <1>1, <2>1, <2>2, LoopIn
<1>9. runActiveProbesRun(v, p, confirming)
  BY <1>3, <1>7, <1>8 DEF N, A, x, op, runActiveProbesRun
<1>10. QED
  BY <1>9

\* The same for the probes.
LEMMA ProbesFacts ==
  ASSUME NEW p \in Profiles, NEW confirming
  PROVE  LET q == runActiveProbes(p, confirming)
         IN  /\ q \in Profiles
             /\ \A S : Once(p) /\ OfSources(p, S) /\ "activeprobe" \notin S =>
                         Once(q) /\ OfSources(q, S \cup {"activeprobe"})
             /\ Named(p) => Named(q) /\ Refined(p, q)
<1> DEFINE rules == From("activeprobe")
           n == Len(rules)
<1>1. /\ rules \in Seq(Rule(Sources)) /\ Distinct(rules) /\ n \in Nat
      /\ \A i \in 1..n : rules[i].source = "activeprobe" /\ rules[i] \in Rule(Sources)
  BY FromRules, LenProperties, ElementOfSeq
<1>2. PICK f : runActiveProbesRun(f, p, confirming)
  BY runActiveProbesRuns
<1>3. f \in [0..n -> Profiles] /\ f[0] = p /\ runActiveProbes(p, confirming) = f[n]
  BY <1>2 DEF runActiveProbesRun
<1>4. \A k \in 1..n : f[k] = probe(f[k - 1], rules[k], confirming)
  BY <1>2 DEF runActiveProbesRun
<1> HIDE DEF rules
<1>5. \A k \in 1..n : Voted(f[k - 1], f[k], Key(rules[k])) /\ VotedNamed(f[k - 1], f[k])
  <2> SUFFICES ASSUME NEW k \in 1..n
               PROVE  Voted(f[k - 1], f[k], Key(rules[k])) /\ VotedNamed(f[k - 1], f[k])
    OBVIOUS
  <2>1. k - 1 \in 0..n
    BY <1>1
  <2>2. f[k - 1] \in Profiles /\ rules[k] \in Rule(Sources)
    BY <1>1, <1>3, <2>1
  <2>3. QED
    BY <1>4, <2>2, ProbeFacts
<1>6. ASSUME NEW S, Once(p), OfSources(p, S), "activeprobe" \notin S
      PROVE  Once(f[n]) /\ OfSources(f[n], S \cup {"activeprobe"})
  BY <1>1, <1>3, <1>5, <1>6, SignalOnce
<1>7. ASSUME Named(p)
      PROVE  Named(f[n]) /\ Refined(p, f[n])
  BY <1>1, <1>3, <1>5, <1>7, SignalNamed
<1>8. f[n] \in Profiles
  BY <1>1, <1>3
<1>9. QED
  BY <1>3, <1>6, <1>7, <1>8

-----------------------------------------------------------------------------
(* The signals of a scan.                                                    *)

\* The sources that vote before the root is refined.
Front == Sources \ {"errorpage", "activeprobe"}

\* A profile that counted every rule once, of these sources, and names what it knows.
Fair(q, S) ==
  q \in Profiles /\ Once(q) /\ OfSources(q, S) /\ (Categorised => Named(q))

\* A signal of a source not heard before leaves a fair profile.
LEMMA SignalFair ==
  ASSUME NEW p, NEW S, Fair(p, S), NEW source, source \notin S, source # "activeprobe",
         NEW matching
  PROVE  Fair(VoteAll(p, From(source), matching), S \cup {source})
BY VoteAllFacts DEF Fair

\* A scan begins with a fair profile.
LEMMA EmptyFair == Fair(newTargetProfile, {})
<1>1. newTargetProfile \in [{} -> TechRecord] /\ DOMAIN newTargetProfile = {}
  <2>1. newTargetProfile \in Seq(TechRecord) /\ Len(newTargetProfile) = 0
    BY EmptySeq DEF newTargetProfile
  <2>2. newTargetProfile \in [1..0 -> TechRecord] /\ 1..0 = {}
    BY <2>1, LenProperties
  <2>3. QED
    BY <2>2
<1>2. IsFiniteSet({}) /\ {} \in SUBSET STRING
  BY FS_EmptySet
<1> HIDE DEF newTargetProfile
<1>3. newTargetProfile \in Profiles
  BY <1>1, <1>2 DEF Profiles
<1>4. QED
  BY <1>1, <1>3 DEF Fair, Once, OfSources, Named

\* The passive signals, nmap's included, leave a fair profile.
LEMMA TargetFair ==
  ASSUME NEW matching
  PROVE  Fair(ProfileTarget(matching), Front) /\ Fair(VoteNmap(ProfileTarget(matching), matching), Front)
<1> DEFINE headers == applyHeaderSignals(newTargetProfile, matching)
           cookies == applyCookieSignals(headers, matching)
           html == applyHTMLSignals(cookies, matching)
           waf == detectWAF(html, matching)
           page == applyWappalyzerSignal(waf, matching)
           icon == applyFaviconSignal(page, matching)
           passive == ProfileTarget(matching)
<1>1. Fair(headers, {"header"})
  BY EmptyFair, SignalFair DEF applyHeaderSignals
<1> HIDE DEF headers
<1>2. Fair(cookies, {"header", "cookie"})
  <2>1. Fair(cookies, {"header"} \cup {"cookie"})
    BY <1>1, SignalFair DEF applyCookieSignals
  <2>2. {"header"} \cup {"cookie"} = {"header", "cookie"}
    OBVIOUS
  <2> HIDE DEF cookies
  <2>3. QED
    BY <2>1, <2>2
<1> HIDE DEF cookies
<1>3. Fair(html, {"header", "cookie"} \cup {"html"})
  BY <1>2, SignalFair DEF applyHTMLSignals
<1> HIDE DEF html
<1>4. Fair(waf, {"header", "cookie"} \cup {"html"} \cup {"waf"})
  BY <1>3, SignalFair DEF detectWAF
<1> HIDE DEF waf
<1>5. Fair(page, {"header", "cookie"} \cup {"html"} \cup {"waf"} \cup {"wappalyzer"})
  BY <1>4, SignalFair DEF applyWappalyzerSignal
<1> HIDE DEF page
<1>6. Fair(icon, {"header", "cookie"} \cup {"html"} \cup {"waf"} \cup {"wappalyzer"} \cup {"favicon"})
  BY <1>5, SignalFair DEF applyFaviconSignal
<1> HIDE DEF icon
<1> DEFINE S == Front \ {"nmap"}
<1>7. ASSUME NEW q, NEW T, T \subseteq S, Fair(q, T)
      PROVE  Fair(q, S)
  <2> HIDE DEF S
  <2> QED BY <1>7 DEF Fair, OfSources
<1>8. passive = icon \/ passive = page
  BY DEF ProfileTarget, headers, cookies, html, waf, page, icon
<1> HIDE DEF passive
<1>9. Fair(passive, S)
  <2>1. {"header", "cookie"} \cup {"html"} \cup {"waf"} \cup {"wappalyzer"} \subseteq S
    BY DEF Front, Sources
  <2>2. {"header", "cookie"} \cup {"html"} \cup {"waf"} \cup {"wappalyzer"} \cup {"favicon"} \subseteq S
    BY DEF Front, Sources
  <2> HIDE DEF S
  <2>3. Fair(icon, S) /\ Fair(page, S)
    BY <1>5, <1>6, <1>7, <2>1, <2>2
  <2>4. QED
    BY <1>8, <2>3
<1>10. "nmap" \notin S /\ "nmap" # "activeprobe" /\ S \cup {"nmap"} = Front /\ S \subseteq Front
  BY DEF Front, Sources
<1> HIDE DEF S
<1>11. Fair(VoteNmap(passive, matching), S \cup {"nmap"})
  BY <1>9, <1>10, SignalFair DEF VoteNmap
<1>12. Fair(passive, Front)
  BY <1>9, <1>10 DEF Fair, OfSources
<1>13. QED
  BY <1>10, <1>11, <1>12 DEF passive

\* Refining a profile not refined before leaves a fair one, in which what was known
\* keeps its category.
LEMMA RefineFair ==
  ASSUME NEW p, Fair(p, Front), NEW matching
  PROVE  /\ Fair(RefineAfterCalibration(p, matching), Sources)
         /\ Categorised => Refined(p, RefineAfterCalibration(p, matching))
<1> DEFINE paged == ApplyErrorPageSignal(p, matching)
           probed == runActiveProbes(paged, matching)
           S == Front \cup {"errorpage"}
<1>0. /\ "errorpage" \notin Front /\ "errorpage" # "activeprobe"
      /\ S \cup {"activeprobe"} = Sources /\ S \subseteq Sources /\ "activeprobe" \notin S
  BY DEF Front, Sources
<1>1. Fair(paged, S) /\ (Categorised => Refined(p, paged))
  <2>1. paged = VoteAll(p, From("errorpage"), matching)
    BY DEF ApplyErrorPageSignal
  <2> HIDE DEF paged, S
  <2>2. Fair(paged, Front \cup {"errorpage"})
    BY <1>0, <2>1, SignalFair
  <2>3. Categorised => Refined(p, paged)
    BY <1>0, <2>1, VoteAllFacts DEF Fair
  <2>4. QED
    BY <2>2, <2>3 DEF S
<1> HIDE DEF paged, S
<1>2. /\ probed \in Profiles
      /\ Once(probed) /\ OfSources(probed, S \cup {"activeprobe"})
      /\ Named(paged) => Named(probed) /\ Refined(paged, probed)
  BY <1>0, <1>1, ProbesFacts DEF Fair
<1> HIDE DEF probed
<1>3. Fair(probed, Sources)
  BY <1>0, <1>1, <1>2 DEF Fair
<1>4. Categorised => Refined(p, probed)
  BY <1>1, <1>2 DEF Refined, Fair
<1>5. Fair(paged, Sources)
  BY <1>0, <1>1 DEF Fair, OfSources
<1>6. RefineAfterCalibration(p, matching) = probed \/ RefineAfterCalibration(p, matching) = paged
  BY DEF RefineAfterCalibration, probed, paged
<1>7. QED
  BY <1>1, <1>3, <1>4, <1>5, <1>6

-----------------------------------------------------------------------------
(* VotesOnce.                                                                *)

\* The rules counted are those that voted so far, and before the root is refined the
\* error page and the probes have not.
ProfileInv == Fair(profile, Sources) /\ (~rootRefined => Fair(profile, Front))

\* It holds before the target is profiled.
LEMMA ProfileInit == Init => ProfileInv
BY EmptyFair DEF Init, ProfileInv, Fair, OfSources

\* A new profile satisfies it.
LEMMA ProfileFirst ==
  ASSUME NEW matching, NEW named, ProfileAndSeed(matching, named)
  PROVE  ProfileInv'
<1>1. profile' = VoteNmap(ProfileTarget(matching), matching)
  BY DEF ProfileAndSeed
<1>2. Fair(profile', Front)
  BY <1>1, TargetFair
<1>3. Front \subseteq Sources
  BY DEF Front
<1>4. QED
  BY <1>2, <1>3 DEF ProfileInv, Fair, OfSources

\* The root is refined once.
LEMMA ProfileRefined ==
  ASSUME ProfileInv, NEW matching, NEW spa, FinishCalibrationRoot(matching, spa)
  PROVE  /\ ProfileInv' /\ rootRefined'
         /\ profile' = profile \/ (Categorised => Refined(profile, profile'))
<1>1. rootRefined' = TRUE /\ profile' = IF ~rootRefined THEN RefineAfterCalibration(profile, matching)
                                        ELSE profile
  BY DEF FinishCalibrationRoot, Refines
<1>2. QED
  BY <1>1, RefineFair DEF ProfileInv

\* Every other step leaves the profile alone.
LEMMA ProfileKept ==
  ASSUME [Next]_vars
  PROVE  \/ \E matching \in FrontPages, named \in NmapPaths : ProfileAndSeed(matching, named)
         \/ \E matching \in ErrorPages, spa \in BOOLEAN : FinishCalibrationRoot(matching, spa)
         \/ UNCHANGED profileVars
<1>1. CASE FinishCalibrationSub
  BY <1>1 DEF FinishCalibrationSub
<1>2. CASE PopNext
  BY <1>2 DEF PopNext
<1>3. ASSUME NEW c \in out, NEW opens \in BOOLEAN, Answered(c, opens)
      PROVE  UNCHANGED profileVars
  BY <1>3 DEF Answered
<1>4. ASSUME NEW c \in out, NEW opens \in BOOLEAN, NEW what, LearnFromHit(c, what, opens)
      PROVE  UNCHANGED profileVars
  BY <1>4 DEF LearnFromHit
<1>5. CASE Elapse
  BY <1>5 DEF Elapse
<1>6. ASSUME NEW sd \in Seeds, Seed(sd)
      PROVE  UNCHANGED profileVars
  BY <1>6 DEF Seed
<1>7. ASSUME NEW p \in Patterns, ApplyPin(p)
      PROVE  UNCHANGED profileVars
  BY <1>7 DEF ApplyPin
<1>8. ASSUME NEW p \in Patterns, NEW kind, ApplyOverride(p, kind)
      PROVE  UNCHANGED profileVars
  BY <1>8 DEF ApplyOverride
<1>9. ASSUME NEW p \in Patterns, ApplyExclude(p)
      PROVE  UNCHANGED profileVars
  BY <1>9 DEF ApplyExclude
<1>10. CASE UNCHANGED vars
  BY <1>10 DEF vars
<1>11. QED
  BY <1>1, <1>2, <1>3, <1>4, <1>5, <1>6, <1>7, <1>8, <1>9, <1>10 DEF Next

\* A step keeps the profile fair.
LEMMA ProfileStep ==
  ASSUME ProfileInv, [Next]_vars
  PROVE  ProfileInv'
<1>1. CASE UNCHANGED profileVars
  BY <1>1 DEF profileVars, ProfileInv
<1>2. ASSUME NEW matching, NEW named, ProfileAndSeed(matching, named)
      PROVE  ProfileInv'
  BY <1>2, ProfileFirst
<1>3. ASSUME NEW matching, NEW spa, FinishCalibrationRoot(matching, spa)
      PROVE  ProfileInv'
  BY <1>3, ProfileRefined
<1>4. QED
  BY <1>1, <1>2, <1>3, ProfileKept

\* Whatever the rules, the layers they come in and what matches, no rule votes twice
\* for a technology.
THEOREM RulesVoteOnce == Spec => []VotesOnce
<1>1. ProfileInv => VotesOnce
  BY DEF ProfileInv, Fair, Once, VotesOnce
<1>2. ProfileInv /\ [Next]_vars => ProfileInv'
  BY ProfileStep
<1>3. QED
  BY <1>1, <1>2, ProfileInit, PTL DEF Spec

-----------------------------------------------------------------------------
(* The root's baseline.                                                      *)

\* While the root is calibrated its baseline is built with the extensions taken
\* last, and after the refinement these cover the stack; before it exists nothing is
\* refined, opened or queued.
Baseline ==
  /\ DOMAIN dirs = Dir /\ DOMAIN calibrated = Dir
  /\ dirs[Root] = "absent" =>
       ~rootRefined /\ dirs[Sub] = "absent" /\ heap = <<>> /\ out = {}
  /\ dirs[Root] \in {"absent", "calibrating", "scanning"}
  /\ dirs[Root] = "calibrating" =>
       /\ calibrated[Root] = extSet
       /\ rootRefined => StackSet(profile) \subseteq extSet
  /\ ExtensionsCalibrated

\* What Baseline says of the root is kept by a step that changes neither the root's
\* record nor the profile and its extensions.
LEMMA RootUntouched ==
  ASSUME Baseline, UNCHANGED profileVars, dirs[Root] # "absent",
         DOMAIN dirs' = Dir, DOMAIN calibrated' = Dir,
         dirs'[Root] = dirs[Root], calibrated'[Root] = calibrated[Root]
  PROVE  Baseline'
BY DEF Baseline, ExtensionsCalibrated, profileVars

\* enqueueChildDirectory opens a directory other than the root.
LEMMA OpenedBaseline ==
  ASSUME Baseline, UNCHANGED profileVars, dirs[Root] # "absent",
         NEW opens \in BOOLEAN, Opened(opens)
  PROVE  Baseline'
<1>1. CASE opens /\ dirs[Sub] = "absent"
  <2>1. /\ dirs' = [dirs EXCEPT ![Sub] = "calibrating"]
        /\ calibrated' = [calibrated EXCEPT ![Sub] = extSet]
    BY <1>1 DEF Opened
  <2>2. QED
    BY <2>1, RootUntouched, RankingAssumption DEF Baseline, Dir
<1>2. CASE ~(opens /\ dirs[Sub] = "absent")
  BY <1>2, RootUntouched DEF Opened, dirVars, Baseline
<1>3. QED
  BY <1>1, <1>2

\* finishCalibration of the root: a stack that outgrew the baseline is probed again
\* before a candidate is queued, and no candidate is queued without that check.
LEMMA FinishRootBaseline ==
  ASSUME Baseline, NEW matching, NEW spa, FinishCalibrationRoot(matching, spa)
  PROVE  Baseline'
<1> DEFINE p == IF Refines THEN RefineAfterCalibration(profile, matching) ELSE profile
<1>1. /\ dirs[Root] = "calibrating" /\ profile' = p /\ rootRefined' = TRUE
      /\ Root \in Dir
  BY DEF FinishCalibrationRoot, Dir
<1>2. CASE Refines /\ Recalibrates(StackSet(p))
  <2>1. /\ extSet' = StackSet(p)
        /\ calibrated' = [calibrated EXCEPT ![Root] = StackSet(p)] /\ dirs' = dirs
    BY <1>2 DEF FinishCalibrationRoot
  <2>2. QED
    BY <1>1, <2>1 DEF Baseline, ExtensionsCalibrated
<1>3. CASE ~(Refines /\ Recalibrates(StackSet(p)))
  <2>1. /\ extSet' = extSet /\ calibrated' = calibrated
        /\ dirs' = [dirs EXCEPT ![Root] = "scanning"]
    BY <1>3 DEF FinishCalibrationRoot, PushCandidates
  <2>2. StackSet(p) \subseteq extSet
    BY <1>1, <1>3 DEF Refines, Recalibrates, Baseline
  <2>3. calibrated[Root] = extSet
    BY <1>1 DEF Baseline
  <2>4. QED
    BY <1>1, <2>1, <2>2, <2>3 DEF Baseline, ExtensionsCalibrated
<1>4. QED
  BY <1>2, <1>3

\* Every step keeps the baseline of the root.
LEMMA StepBaseline ==
  ASSUME Baseline, [Next]_vars
  PROVE  Baseline'
<1>1. ASSUME NEW matching \in FrontPages, NEW named \in NmapPaths,
             ProfileAndSeed(matching, named)
      PROVE  Baseline'
  <2>1. /\ dirs[Root] = "absent" /\ rootRefined' = rootRefined
        /\ dirs' = [dirs EXCEPT ![Root] = "calibrating"]
        /\ calibrated' = [calibrated EXCEPT ![Root] = extSet']
    BY <1>1 DEF ProfileAndSeed
  <2>2. QED
    BY <2>1 DEF Baseline, Dir, ExtensionsCalibrated
<1>2. CASE FinishCalibrationSub
  <2>1. /\ dirs[Sub] = "calibrating" /\ dirs' = [dirs EXCEPT ![Sub] = "scanning"]
        /\ calibrated' = calibrated /\ UNCHANGED profileVars
    BY <1>2 DEF FinishCalibrationSub, PushCandidates
  <2>2. QED
    BY <2>1, RootUntouched, RankingAssumption DEF Baseline, Dir
<1>3. ASSUME NEW matching \in ErrorPages, NEW spa \in BOOLEAN,
             FinishCalibrationRoot(matching, spa)
      PROVE  Baseline'
  BY <1>3, FinishRootBaseline
<1>4. CASE PopNext
  <2>1. heap # <<>> /\ UNCHANGED <<profileVars, dirVars>>
    BY <1>4 DEF PopNext
  <2>2. QED
    BY <2>1, RootUntouched DEF Baseline, dirVars
<1>5. ASSUME NEW c \in out, NEW opens \in BOOLEAN, Answered(c, opens)
      PROVE  Baseline'
  <2>1. Opened(opens) /\ UNCHANGED profileVars
    BY <1>5 DEF Answered
  <2>2. QED
    BY <1>5, <2>1, OpenedBaseline DEF Baseline
<1>6. ASSUME NEW c \in out, NEW opens \in BOOLEAN, NEW what, LearnFromHit(c, what, opens)
      PROVE  Baseline'
  <2>1. Opened(opens) /\ UNCHANGED profileVars
    BY <1>6 DEF LearnFromHit
  <2>2. QED
    BY <1>6, <2>1, OpenedBaseline DEF Baseline
<1>7. ASSUME NEW sd, Seed(sd)
      PROVE  Baseline'
  <2>1. /\ dirs[Root] # "absent" /\ Opened(sd.dir = Sub) /\ UNCHANGED profileVars
    BY <1>7 DEF Seed, Event, enqueueSeed
  <2>2. QED
    BY <2>1, OpenedBaseline
<1>8. ASSUME NEW q, ApplyPin(q)
      PROVE  Baseline'
  <2>1. dirs[Root] # "absent" /\ UNCHANGED profileVars
    BY <1>8 DEF ApplyPin, MayOverride, Event
  <2>2. UNCHANGED dirVars \/ Opened(q.names[1] = Sub)
    BY <1>8 DEF ApplyPin, enqueueSeed
  <2>3. QED
    BY <2>1, <2>2, OpenedBaseline, RootUntouched DEF Baseline, dirVars
<1>9. ASSUME NEW q, NEW kind, ApplyOverride(q, kind) \/ ApplyExclude(q)
      PROVE  Baseline'
  <2>1. dirs[Root] # "absent" /\ UNCHANGED <<profileVars, dirVars>>
    BY <1>9 DEF ApplyOverride, ApplyExclude, MayOverride, Event
  <2>2. QED
    BY <2>1, RootUntouched DEF Baseline, dirVars
<1>10. CASE Elapse
  BY <1>10 DEF Elapse, Baseline, ExtensionsCalibrated, profileVars, dirVars, heapVars, takeVars
<1>11. CASE UNCHANGED vars
  BY <1>11 DEF vars, Baseline, ExtensionsCalibrated, profileVars, dirVars, heapVars, takeVars
<1>12. QED
  BY <1>1, <1>2, <1>3, <1>4, <1>5, <1>6, <1>7, <1>8, <1>9, <1>10, <1>11 DEF Next

\* The root's candidates are judged by a baseline probed with every extension of the
\* stack, whatever the rules, the votes of nmap, of the error page and of the probes,
\* and whatever seeds, hits and commands do before the root is calibrated.
THEOREM BaselineCoversStack == Spec => []ExtensionsCalibrated
<1>1. Init => Baseline
  BY RankingAssumption DEF Init, Baseline, ExtensionsCalibrated, Dir
<1>2. Baseline /\ [Next]_vars => Baseline'
  BY StepBaseline
<1>3. Baseline => ExtensionsCalibrated
  BY DEF Baseline
<1>4. QED
  BY <1>1, <1>2, <1>3, PTL DEF Spec

-----------------------------------------------------------------------------
(* Scores.                                                                   *)

\* A candidate has these fields.
Cand(c) ==
  c = [dir |-> c.dir, path |-> c.path, kind |-> c.kind, base |-> c.base, tags |-> c.tags,
       crawl |-> c.crawl, nmap |-> c.nmap, score |-> c.score]

\* The score depends on these fields, not on the score there was.
LEMMA SameScore ==
  ASSUME NEW c, NEW e, NEW k, e.dir = c.dir, e.path = c.path, e.base = c.base,
         e.tags = c.tags, e.crawl = c.crawl
  PROVE  scoreCandidate(e, k) = scoreCandidate(c, k)
<1>1. semSignal(e, k.protected, k.listed) = semSignal(c, k.protected, k.listed)
  BY DEF semSignal, isSensitiveCandidate
<1>2. assocSignal(e, k.terms) = assocSignal(c, k.terms)
  BY DEF assocSignal
<1>3. convSignal(e, k.terms, k.trained) = convSignal(c, k.terms, k.trained)
  BY DEF convSignal
<1>4. Boost(e, k) = Boost(c, k)
  BY <1>1, <1>2, <1>3 DEF Boost
<1>5. Id(e) = Id(c)
  BY DEF Id
<1>6. QED
  BY <1>4, <1>5 DEF scoreCandidate

\* A candidate that is scored keeps its other fields.
LEMMA ScoredIs ==
  ASSUME NEW c, Cand(c), NEW k
  PROVE  /\ Cand(Scored(c, k)) /\ Scored(c, k).score = scoreCandidate(Scored(c, k), k)
         /\ Scored(c, k).nmap = c.nmap
<1> DEFINE v == scoreCandidate(c, k)
           e == [c EXCEPT !.score = v]
<1>1. Scored(c, k) = e
  BY DEF Scored
<1> HIDE DEF v
<1>2. /\ e = [dir |-> c.dir, path |-> c.path, kind |-> c.kind, base |-> c.base, tags |-> c.tags,
              crawl |-> c.crawl, nmap |-> c.nmap, score |-> v]
  BY DEF Cand
<1> HIDE DEF e
<1>3. /\ Cand(e) /\ e.dir = c.dir /\ e.path = c.path /\ e.base = c.base /\ e.tags = c.tags
      /\ e.crawl = c.crawl /\ e.nmap = c.nmap /\ e.score = v
  BY <1>2 DEF Cand
<1>4. scoreCandidate(e, k) = v
  BY <1>3, SameScore DEF v
<1>5. QED
  BY <1>1, <1>3, <1>4

\* What Candidate makes is one, and so is what is upgraded or merged.
LEMMA CandidateIs ==
  ASSUME NEW d, NEW path, NEW kind, NEW base, NEW tags, NEW crawl
  PROVE  Cand(Candidate(d, path, kind, base, tags, crawl))
BY DEF Cand, Candidate

\* What is upgraded or merged is still a candidate.
LEMMA UpgradedIs ==
  ASSUME NEW c, Cand(c), NEW base, NEW crawl
  PROVE  Cand([c EXCEPT !.base = base, !.crawl = crawl])
<1> DEFINE e == [c EXCEPT !.base = base, !.crawl = crawl]
<1>1. PICK d, p, kd, b, t, cr, n, v :
        c = [dir |-> d, path |-> p, kind |-> kd, base |-> b, tags |-> t, crawl |-> cr,
             nmap |-> n, score |-> v]
  BY DEF Cand
<1> DEFINE e1 == [c EXCEPT !.base = base]
<1>a. e = [e1 EXCEPT !.crawl = crawl]
  OBVIOUS
<1>b. e1 = [dir |-> d, path |-> p, kind |-> kd, base |-> base, tags |-> t, crawl |-> cr,
            nmap |-> n, score |-> v]
  BY <1>1
<1> HIDE DEF e, e1
<1>2. e = [dir |-> d, path |-> p, kind |-> kd, base |-> base, tags |-> t, crawl |-> crawl,
           nmap |-> n, score |-> v]
  BY <1>a, <1>b
<1>3. Cand(e)
  BY <1>2 DEF Cand
<1>4. QED
  BY <1>3 DEF e

-----------------------------------------------------------------------------
(* Queues of candidates.                                                     *)

Current(c, k) ==
  c.score = scoreCandidate(c, k) \/ (c.nmap > 0 /\ c.score = nmapSeedScore)

\* A sequence of candidates that wait with the score they have by k, if it need be.
Queue(h, k, open) == IsSeq(h) /\ \A c \in Range(h) : Cand(c) /\ (open \/ Current(c, k))

\* The empty heap is a queue.
LEMMA EmptyQueue ==
  ASSUME NEW k, NEW open
  PROVE  Queue(<<>>, k, open)
<1> DEFINE none == <<>>
           E == {}
<1>1. none \in Seq(E)
  BY EmptySeq
<1> HIDE DEF none, E
<1>2. IsSeq(none) /\ Range(none) \subseteq E
  BY <1>1, SeqIs
<1>3. \A c \in Range(none) : FALSE
  BY <1>2 DEF E
<1>4. Queue(none, k, open)
  BY <1>2, <1>3 DEF Queue
<1>5. QED
  BY <1>4 DEF none

\* A scored candidate is current.
LEMMA ScoredCurrent ==
  ASSUME NEW c, Cand(c), NEW k
  PROVE  Cand(Scored(c, k)) /\ Current(Scored(c, k), k)
BY ScoredIs DEF Current

\* A sweep makes every score current.
LEMMA SweepQueue ==
  ASSUME NEW h, NEW k0, NEW k, NEW open, Queue(h, k0, open)
  PROVE  Queue(Sweep(h, k), k, FALSE)
<1> DEFINE fn == [c \in Range(h) |-> Scored(c, k)]
           E == Range(h) \cup {Scored(c, k) : c \in Range(h)}
           g == Reprioritize(h, fn)
<1>1. h \in Seq(E) /\ fn \in [Range(h) -> E]
  <2>1. h \in Seq(Range(h)) /\ Range(h) \subseteq E
    BY DEF Queue, IsSeq
  <2>2. fn \in [Range(h) -> E]
    OBVIOUS
  <2> HIDE DEF E
  <2>3. QED
    BY <2>1, <2>2, SeqMonotonic
<1>2. \A c \in Range(h) : fn[c] = Scored(c, k)
  OBVIOUS
<1>3. g = Sweep(h, k)
  BY DEF Sweep
<1> HIDE DEF E, fn
<1>4. g \in Seq(E) /\ Range(g) = {fn[c] : c \in Range(h)}
  BY <1>1, ReprioritizeMaps
<1> HIDE DEF g
<1>5. IsSeq(g)
  BY <1>4, SeqIs
<1>6. \A c \in Range(g) : Cand(c) /\ Current(c, k)
  <2> SUFFICES ASSUME NEW c \in Range(g) PROVE Cand(c) /\ Current(c, k)
    OBVIOUS
  <2>1. PICK e \in Range(h) : c = Scored(e, k)
    BY <1>2, <1>4
  <2>2. Cand(e)
    BY DEF Queue
  <2>3. QED
    BY <2>1, <2>2, ScoredCurrent
<1>7. QED
  BY <1>3, <1>5, <1>6 DEF Queue

\* Pushing current candidates keeps the queue.
LEMMA PushAllQueue ==
  ASSUME NEW h, NEW k, NEW open, Queue(h, k, open), NEW s, Queue(s, k, open)
  PROVE  Queue(PushAll(h, s), k, open)
<1> DEFINE E == Range(h) \cup Range(s)
           g == PushAll(h, s)
<1>1. Range(h) \subseteq E /\ Range(s) \subseteq E /\ E = Range(h) \cup Range(s)
  OBVIOUS
<1> HIDE DEF E
<1>2. h \in Seq(E) /\ s \in Seq(E)
  BY <1>1, SeqMonotonic DEF Queue, IsSeq
<1>3. g \in Seq(E) /\ Range(g) = E
  BY <1>1, <1>2, PushAllAdds
<1> HIDE DEF g
<1>4. IsSeq(g)
  BY <1>3, SeqIs
<1>5. QED
  BY <1>1, <1>3, <1>4 DEF Queue, g

\* A list of candidates, scored, is a queue.
LEMMA ScoredQueue ==
  ASSUME NEW k, NEW s, IsSeq(s), \A i \in DOMAIN s : Cand(s[i])
  PROVE  Queue([i \in DOMAIN s |-> Scored(s[i], k)], k, FALSE)
<1> DEFINE t == [i \in DOMAIN s |-> Scored(s[i], k)]
           n == Len(s)
<1>1. n \in Nat /\ DOMAIN s = 1..n
  BY SeqIs DEF IsSeq
<1>2. t = [i \in 1..n |-> t[i]] /\ \A i \in 1..n : t[i] = Scored(s[i], k)
  BY <1>1
<1> HIDE DEF t
<1>3. IsSeq(t) /\ DOMAIN t = 1..n
  BY <1>1, <1>2, SegmentIs
<1>4. \A c \in Range(t) : Cand(c) /\ Current(c, k)
  <2> SUFFICES ASSUME NEW c \in Range(t) PROVE Cand(c) /\ Current(c, k)
    OBVIOUS
  <2>1. PICK i \in 1..n : c = t[i]
    BY <1>3 DEF Range
  <2>2. QED
    BY <1>1, <1>2, <2>1, ScoredCurrent
<1>5. QED
  BY <1>3, <1>4 DEF Queue, t

\* A queue may be read as one whose scores are open.
LEMMA OpenQueue ==
  ASSUME NEW h, NEW k, NEW k2, NEW open, NEW open2, Queue(h, k, open),
         open2 \/ (~open /\ k2 = k)
  PROVE  Queue(h, k2, open2)
BY DEF Queue

\* The order in which a set is visited is a sequence of its elements.
LEMMA VisitsAre ==
  ASSUME NEW S, IsFiniteSet(S), NEW s \in Visits(S)
  PROVE  IsSeq(s) /\ \A i \in DOMAIN s : s[i] \in S
<1>1. Cardinality(S) \in Nat
  BY FS_CardinalityType
<1>2. s \in [1..Cardinality(S) -> S]
  BY DEF Visits, Bijection, Injection
<1>3. s = [i \in 1..Cardinality(S) |-> s[i]]
  BY <1>2
<1>4. QED
  BY <1>1, <1>2, <1>3, SegmentIs

\* What is enqueued waits with its score.
LEMMA EnqueuedQueue ==
  ASSUME NEW h, NEW k, NEW open, Queue(h, k, open), NEW cands, IsFiniteSet(cands),
         \A c \in cands : Cand(c), NEW g \in Enqueued(h, cands, k)
  PROVE  Queue(g, k, open)
<1>1. PICK s \in Visits(cands) : g = PushAll(h, [i \in DOMAIN s |-> Scored(s[i], k)])
  BY DEF Enqueued
<1>2. IsSeq(s) /\ \A i \in DOMAIN s : Cand(s[i])
  BY VisitsAre
<1> DEFINE t == [i \in DOMAIN s |-> Scored(s[i], k)]
<1>3. Queue(t, k, FALSE)
  BY <1>2, ScoredQueue
<1>4. g = PushAll(h, t)
  BY <1>1
<1> HIDE DEF t
<1>5. Queue(t, k, open)
  BY <1>3 DEF Queue
<1>6. QED
  BY <1>4, <1>5, PushAllQueue

\* A push of one scored candidate.
LEMMA PushQueue ==
  ASSUME NEW h, NEW k, NEW open, Queue(h, k, open), NEW c, Cand(c)
  PROVE  Queue(Push(h, Scored(c, k)), k, open)
<1> DEFINE e == Scored(c, k)
           E == Range(h) \cup {e}
           g == heapPush(h, e)
<1>1. Range(h) \subseteq E /\ e \in E /\ E = Range(h) \cup {e}
  OBVIOUS
<1>2. Cand(e) /\ Current(e, k)
  BY ScoredCurrent
<1>3. Push(h, e) = g
  BY DEF Push
<1> HIDE DEF E, e
<1>4. h \in Seq(E)
  BY <1>1, SeqMonotonic DEF Queue, IsSeq
<1>5. g \in Seq(E) /\ Range(g) = E
  BY <1>1, <1>4, PushAdds
<1> HIDE DEF g
<1>6. IsSeq(g)
  BY <1>5, SeqIs
<1>7. Queue(g, k, open)
  BY <1>1, <1>2, <1>5, <1>6 DEF Queue
<1>8. QED
  BY <1>3, <1>7 DEF e

\* An upgrade in place.
LEMMA UpgradeQueue ==
  ASSUME NEW h, NEW k, NEW open, Queue(h, k, open), NEW c, NEW id
  PROVE  Queue(UpdateMatching(h, id, [e \in Range(h) |-> UpgradedScored(e, c, k)]), k, open)
<1> DEFINE fn == [e \in Range(h) |-> UpgradedScored(e, c, k)]
           E == Range(h) \cup {UpgradedScored(e, c, k) : e \in Range(h)}
           g == UpdateMatching(h, id, fn)
<1>1. Range(h) \subseteq E /\ fn \in [Range(h) -> E]
  OBVIOUS
<1>2. \A e \in Range(h) : fn[e] = UpgradedScored(e, c, k)
  OBVIOUS
<1> HIDE DEF E, fn
<1>3. h \in Seq(E)
  BY <1>1, SeqMonotonic DEF Queue, IsSeq
<1>4. g \in Seq(E) /\ \A x \in Range(g) : x \in Range(h) \/ \E e \in Range(h) : x = fn[e]
  BY <1>1, <1>3, UpdateMatchingReplaces
<1> HIDE DEF g
<1>5. IsSeq(g)
  BY <1>4, SeqIs
<1>6. ASSUME NEW e \in Range(h)
      PROVE  Cand(fn[e]) /\ Current(fn[e], k)
  <2>1. Cand(e)
    BY DEF Queue
  <2>2. Cand(Upgraded(e, c))
    BY <2>1, UpgradedIs DEF Upgraded
  <2>3. fn[e] = Scored(Upgraded(e, c), k)
    BY <1>2 DEF UpgradedScored
  <2>4. QED
    BY <2>2, <2>3, ScoredCurrent
<1>7. \A x \in Range(g) : Cand(x) /\ (open \/ Current(x, k))
  BY <1>4, <1>6 DEF Queue
<1>8. QED
  BY <1>5, <1>7 DEF Queue, g, fn

\* What is taken out of a queue leaves one.
LEMMA PopQueue ==
  ASSUME NEW h, NEW k, NEW open, Queue(h, k, open), NEW i \in DOMAIN h
  PROVE  Queue(Pop(h, i), k, open)
<1> DEFINE g == heapRemove(h, i)
<1>1. h \in Seq(Range(h)) /\ i \in 1..Len(h)
  BY SeqIs DEF Queue, IsSeq
<1>2. g \in Seq(Range(h))
  BY <1>1, RemoveTakes
<1> HIDE DEF g
<1>3. IsSeq(g) /\ Range(g) \subseteq Range(h)
  BY <1>2, SeqIs
<1>4. QED
  BY <1>3 DEF Queue, Pop, g

\* The same for what is excluded.
LEMMA ExcludeQueue ==
  ASSUME NEW h, NEW k, NEW open, Queue(h, k, open), NEW gone
  PROVE  Queue(RemoveMatching(h, gone), k, open)
<1> DEFINE g == RemoveMatching(h, gone)
<1>1. h \in Seq(Range(h))
  BY DEF Queue, IsSeq
<1>2. g \in Seq(Range(h))
  BY <1>1, RemoveMatchingKeeps
<1> HIDE DEF g
<1>3. IsSeq(g) /\ Range(g) \subseteq Range(h)
  BY <1>2, SeqIs
<1>4. QED
  BY <1>3 DEF Queue, g

-----------------------------------------------------------------------------
(* The template is a list.                                                   *)

\* A list with one element.
LEMMA OneIs ==
  ASSUME NEW x
  PROVE  IsSeq(<<x>>)
<1> DEFINE s == <<x>>
<1>1. s \in Seq({x})
  OBVIOUS
<1> HIDE DEF s
<1>2. IsSeq(s)
  BY <1>1, SeqIs
<1>3. QED
  BY <1>2 DEF s

\* A list without elements.
LEMMA NoneIs == IsSeq(<<>>)
<1> DEFINE none == <<>>
           E == {}
<1>1. none \in Seq(E)
  BY EmptySeq
<1> HIDE DEF none, E
<1>2. IsSeq(none)
  BY <1>1, SeqIs
<1>3. QED
  BY <1>2 DEF none

\* The extensions of a stack are a list.
LEMMA ExtensionsAre ==
  ASSUME NEW p \in Profiles, NEW exts \in ExtensionsForStack(p)
  PROVE  IsSeq(exts)
<1> DEFINE of(name) == IF name \in DOMAIN StackExtensions THEN StackExtensions[name] ELSE <<>>
           lists(names) == [i \in DOMAIN names |-> of(names[i])]
           all(names) == Flatten(lists(names)) \o <<GenericExtension>>
<1>1. \A name : IsSeq(of(name))
  <2>1. \A name \in DOMAIN StackExtensions : IsSeq(StackExtensions[name])
    BY ProfileAssumption, SeqIs
  <2>2. QED
    BY <2>1, NoneIs
<1>2. PICK names \in Visits(Behind(p)) : exts = Firsts(all(names))
  BY DEF ExtensionsForStack
<1>3. IsFiniteSet(Behind(p))
  <2>1. IsFiniteSet(DOMAIN p) /\ Behind(p) \subseteq DOMAIN p
    BY ProfileIs DEF Behind
  <2>2. QED
    BY <2>1, FS_Subset
<1>4. IsSeq(names)
  BY <1>3, VisitsAre
<1>5. Len(names) \in Nat /\ DOMAIN names = 1..Len(names)
  BY <1>4, SeqIs DEF IsSeq
<1> HIDE DEF of
<1>6. /\ lists(names) = [i \in 1..Len(names) |-> lists(names)[i]]
      /\ \A i \in 1..Len(names) : lists(names)[i] = of(names[i])
  BY <1>5
<1> HIDE DEF lists
<1>7. IsSeq(lists(names)) /\ Len(lists(names)) = Len(names)
  BY <1>5, <1>6, SegmentIs
<1>8. IsSeq(Flatten(lists(names)))
  BY <1>1, <1>6, <1>7, FlattenIs
<1>9. IsSeq(all(names))
  BY <1>8, OneIs, ConcatIs
<1> HIDE DEF all
<1>10. QED
  BY <1>2, <1>9, SubsequenceIs DEF Firsts

\* The terms selected are a list.
LEMMA SelectIs ==
  ASSUME NEW p
  PROVE  IsSeq(Select(p))
<1> DEFINE tagged == [i \in DOMAIN Corpus |-> [Corpus[i] EXCEPT !.tags = @ \cap tagSetFor(p)]]
           I == {i \in DOMAIN tagged : tagged[i].tags # {}}
           terms == Subsequence(tagged, I)
<1>1. Len(Corpus) \in Nat /\ DOMAIN Corpus = 1..Len(Corpus)
  BY ProfileAssumption, LenProperties
<1>2. tagged = [i \in 1..Len(Corpus) |-> tagged[i]]
  BY <1>1
<1>3. Select(p) = IF CorpusMax > 0 /\ Len(terms) > CorpusMax THEN SubSeq(terms, 1, CorpusMax) ELSE terms
  BY DEF Select
<1> HIDE DEF tagged, I
<1>4. IsSeq(tagged)
  BY <1>1, <1>2, SegmentIs
<1>5. IsSeq(terms)
  BY <1>4, SubsequenceIs
<1> HIDE DEF terms
<1>6. CASE CorpusMax > 0 /\ Len(terms) > CorpusMax
  <2>1. terms \in Seq(Range(terms)) /\ Len(terms) \in Nat /\ CorpusMax \in Nat
    BY <1>5, SeqIs, ProfileAssumption DEF IsSeq
  <2>2. \A i \in 1..CorpusMax : terms[i] \in Range(terms)
    BY <1>6, <2>1, ElementOfSeq
  <2>3. SubSeq(terms, 1, CorpusMax) \in Seq(Range(terms))
    BY <1>6, <2>1, <2>2, SubSeqProperties
  <2>4. QED
    BY <1>3, <1>6, <2>3, SeqIs
<1>7. QED
  BY <1>3, <1>5, <1>6

\* So are the backups of a candidate.
LEMMA BackupsAre ==
  ASSUME NEW c
  PROVE  IsSeq(backupsFor(c))
<1> DEFINE b == [i \in DOMAIN BackupSuffixes |->
                   [c EXCEPT !.path = Append(c.path, BackupSuffixes[i]),
                             !.base = (c.base * 13) \div 10]]
           n == Len(BackupSuffixes)
<1>1. n \in Nat /\ DOMAIN BackupSuffixes = 1..n
  BY ProfileAssumption, LenProperties
<1>2. b = [i \in 1..n |-> b[i]]
  BY <1>1
<1>3. backupsFor(c) = <<>> \/ backupsFor(c) = b
  BY DEF backupsFor
<1> HIDE DEF b
<1>4. IsSeq(b)
  BY <1>1, <1>2, SegmentIs
<1>5. QED
  BY <1>3, <1>4, NoneIs

\* And what a stem expands to.
LEMMA StemIs ==
  ASSUME NEW c, NEW exts, IsSeq(exts)
  PROVE  IsSeq(expandStem(c, exts))
<1> DEFINE file(i) == [c EXCEPT !.path = Joined(c.path, exts[i]), !.kind = "file",
                                !.base = Decayed(c.base, i)]
           lists == [i \in DOMAIN exts |-> <<file(i)>> \o backupsFor(file(i))]
<1>1. Len(exts) \in Nat /\ DOMAIN exts = 1..Len(exts)
  BY SeqIs DEF IsSeq
<1>2. expandStem(c, exts) = Flatten(lists)
  BY DEF expandStem
<1> HIDE DEF file
<1>3. \A i : IsSeq(<<file(i)>> \o backupsFor(file(i)))
  BY OneIs, BackupsAre, ConcatIs
<1>4. /\ lists = [i \in 1..Len(exts) |-> lists[i]]
      /\ \A i \in 1..Len(exts) : lists[i] = <<file(i)>> \o backupsFor(file(i))
  BY <1>1
<1> HIDE DEF lists
<1>5. IsSeq(lists) /\ Len(lists) = Len(exts)
  BY <1>1, <1>4, SegmentIs
<1>6. QED
  BY <1>2, <1>3, <1>4, <1>5, FlattenIs

\* And a term.
LEMMA TermIs ==
  ASSUME NEW term, NEW exts, IsSeq(exts)
  PROVE  IsSeq(expandTerm(term, exts))
<1> DEFINE c == Shaped(term)
           more == IF "generic" \in c.tags /\ hasBackendStack(exts) THEN expandStem(c, exts) ELSE <<>>
<1>1. IsSeq(more) /\ IsSeq(<<c>>) /\ IsSeq(backupsFor(c)) /\ IsSeq(expandStem(c, exts))
  BY NoneIs, OneIs, BackupsAre, StemIs
<1>2. \/ expandTerm(term, exts) = expandStem(c, exts)
      \/ expandTerm(term, exts) = <<c>> \o more
      \/ expandTerm(term, exts) = <<c>> \o backupsFor(c)
  BY DEF expandTerm
<1> HIDE DEF c, more
<1>3. QED
  BY <1>1, <1>2, ConcatIs

\* And all of it without repetitions.
LEMMA ExpandIs ==
  ASSUME NEW terms, IsSeq(terms), NEW exts, IsSeq(exts), NEW p
  PROVE  IsSeq(Expand(terms, exts, p))
<1> DEFINE lists == [i \in DOMAIN terms |-> expandTerm(terms[i], exts)]
           cands == Flatten(lists)
<1>1. Len(terms) \in Nat /\ DOMAIN terms = 1..Len(terms)
  BY SeqIs DEF IsSeq
<1>2. /\ lists = [i \in 1..Len(terms) |-> lists[i]]
      /\ \A i \in 1..Len(terms) : lists[i] = expandTerm(terms[i], exts)
  BY <1>1
<1>3. Expand(terms, exts, p) = dedup(cands, p)
  BY DEF Expand
<1> HIDE DEF lists
<1>4. IsSeq(lists) /\ Len(lists) = Len(terms)
  BY <1>1, <1>2, SegmentIs
<1>5. IsSeq(cands)
  BY <1>2, <1>4, TermIs, FlattenIs
<1> HIDE DEF cands
<1> DEFINE worth(j) == CorpusScore(p, cands[j].base, cands[j].tags)
           same(i) == {j \in DOMAIN cands : cands[j].path = cands[i].path}
           best(i) == CHOOSE j \in same(i) :
                        \A k \in same(i) : worth(j) > worth(k) \/ (worth(j) = worth(k) /\ j <= k)
           one(i) == [cands[best(i)] EXCEPT
                        !.kind = IF \E j \in same(i) : cands[j].kind = "dir" THEN "dir" ELSE @,
                        !.tags = UNION {cands[j].tags : j \in same(i)}]
           ones == [i \in DOMAIN cands |-> one(i)]
           I == {i \in DOMAIN cands : \A j \in same(i) : i <= j}
<1>6. dedup(cands, p) = Subsequence(ones, I)
  BY DEF dedup
<1>7. Len(cands) \in Nat /\ DOMAIN cands = 1..Len(cands)
  BY <1>5, SeqIs DEF IsSeq
<1> HIDE DEF one, I
<1>8. ones = [i \in 1..Len(cands) |-> ones[i]]
  BY <1>7
<1> HIDE DEF ones
<1>9. IsSeq(ones)
  BY <1>7, <1>8, SegmentIs
<1>10. QED
  BY <1>3, <1>6, <1>9, SubsequenceIs

-----------------------------------------------------------------------------
(* What a score depends on.                                                  *)

\* Profiles that know the same technologies in the same categories, with the same
\* signature, match tags alike.
LEMMA SameMatch ==
  ASSUME NEW p, NEW q, Refined(p, q), profileSignature(p) = profileSignature(q), NEW tags
  PROVE  MatchScore(q, tags) = MatchScore(p, tags)
<1>1. DOMAIN profileSignature(p) = DOMAIN p /\ DOMAIN profileSignature(q) = DOMAIN q
  BY DEF profileSignature
<1>2. DOMAIN p = DOMAIN q
  BY <1>1
<1>3. /\ \A name \in DOMAIN p : profileSignature(p)[name] = p[name].confidence
      /\ \A name \in DOMAIN q : profileSignature(q)[name] = q[name].confidence
  BY DEF profileSignature
<1>4. \A name \in DOMAIN p : q[name].confidence = p[name].confidence /\ q[name].category = p[name].category
  BY <1>2, <1>3 DEF Refined
<1> DEFINE named(r) == {n \in DOMAIN r : n \in tags \/ r[n].category \in tags}
           matched(r) == {0} \cup {r[name].confidence : name \in named(r)}
<1>5. named(q) = named(p)
  BY <1>2, <1>4
<1>6. matched(q) = matched(p)
  <2>1. named(p) \subseteq DOMAIN p
    OBVIOUS
  <2> HIDE DEF named
  <2>2. QED
    BY <1>4, <1>5, <2>1
<1>7. \A r : MatchScore(r, tags) = CHOOSE m \in matched(r) : \A n \in matched(r) : m >= n
  BY DEF MatchScore
<1> HIDE DEF matched
<1>8. QED
  BY <1>6, <1>7

\* Neither does a score change with the profile then.
LEMMA SameProfileScore ==
  ASSUME NEW k, NEW k2, k2.spa = k.spa, k2.overrides = k.overrides, k2.terms = k.terms,
         k2.trained = k.trained, k2.protected = k.protected, k2.listed = k.listed,
         Refined(k.profile, k2.profile),
         profileSignature(k.profile) = profileSignature(k2.profile), NEW c
  PROVE  scoreCandidate(c, k2) = scoreCandidate(c, k)
<1>1. MatchScore(k2.profile, c.tags) = MatchScore(k.profile, c.tags)
  BY SameMatch
<1>2. CorpusScore(k2.profile, c.base, c.tags) = CorpusScore(k.profile, c.base, c.tags)
  BY <1>1 DEF CorpusScore
<1>3. Boost(c, k2) = Boost(c, k)
  BY DEF Boost
<1>4. QED
  BY <1>2, <1>3 DEF scoreCandidate

\* Loops without a known range: a function that is its own round exists.
LEMMA OverrideRuns ==
  ASSUME NEW id, NEW ovs, NEW n \in Nat, n = Len(ovs)
  PROVE  \E v : /\ v[0] = OverrideScale /\ \A k \in 1..n : v[k] = overridden(v[k - 1], ovs[k], id)
                /\ overrideMultiplier(id, ovs) = v[n]
<1> DEFINE Is(f, m) == f = [k \in 0..m |-> IF k = 0 THEN OverrideScale
                                           ELSE overridden(f[k - 1], ovs[k], id)]
           S == {m \in 0..n : \E f : Is(f, m)}
           v == CHOOSE f : Is(f, n)
<1>1. overrideMultiplier(id, ovs) = v[n]
  BY DEF overrideMultiplier, Loop
<1>2. 0 \in S
  <2> DEFINE f == [k \in 0..0 |-> OverrideScale]
  <2>1. Is(f, 0)
    OBVIOUS
  <2> HIDE DEF Is, f
  <2>2. QED
    BY <2>1
<1>3. ASSUME NEW m \in 1..n, m - 1 \in S
      PROVE  m \in S
  <2>1. PICK f : Is(f, m - 1)
    BY <1>3
  <2>2. m \in Nat /\ m >= 1 /\ m \in 0..n
    OBVIOUS
  <2>3. DOMAIN f = 0..(m - 1) /\ \A k \in 0..(m - 1) :
          f[k] = IF k = 0 THEN OverrideScale ELSE overridden(f[k - 1], ovs[k], id)
    BY <2>1
  <2> DEFINE g == [k \in 0..m |-> IF k = m THEN overridden(f[m - 1], ovs[m], id) ELSE f[k]]
  <2>4. DOMAIN g = 0..m /\ g[m] = overridden(f[m - 1], ovs[m], id) /\ \A k \in 0..(m - 1) : g[k] = f[k]
    BY <2>2
  <2>5. \A k \in 0..m : k = m \/ k \in 0..(m - 1)
    BY <2>2
  <2>6. \A k \in 0..m : k # 0 => k - 1 \in 0..(m - 1)
    BY <2>2
  <2>7. g = [k \in 0..m |-> g[k]]
    OBVIOUS
  <2> HIDE DEF g
  <2>8. \A k \in 0..m : g[k] = IF k = 0 THEN OverrideScale ELSE overridden(g[k - 1], ovs[k], id)
    BY <2>2, <2>3, <2>4, <2>5, <2>6
  <2>9. Is(g, m)
    BY <2>7, <2>8
  <2> HIDE DEF Is
  <2>10. QED
    BY <2>2, <2>9
<1>4. 0..n \subseteq S
  <2> HIDE DEF S
  <2> QED BY <1>2, <1>3, Upto
<1>5. n \in S
  BY <1>4
<1>6. Is(v, n)
  <2>1. \E f : Is(f, n)
    <3> HIDE DEF Is
    <3> QED BY <1>5
  <2> HIDE DEF Is
  <2>2. QED
    BY <2>1
<1> HIDE DEF v
<1>7. v[0] = OverrideScale /\ \A k \in 1..n : v[k] = overridden(v[k - 1], ovs[k], id)
  <2>1. \A k \in 1..n : k \in 0..n /\ k # 0
    OBVIOUS
  <2>2. QED
    BY <1>6, <2>1
<1>8. QED
  BY <1>1, <1>7

\* An exclusion changes no score.
LEMMA ExcludeScores ==
  ASSUME NEW id, NEW ovs, IsSeq(ovs), NEW ov, ov.kind = "exclude"
  PROVE  overrideMultiplier(id, Append(ovs, ov)) = overrideMultiplier(id, ovs)
<1> DEFINE n == Len(ovs)
           more == Append(ovs, ov)
<1>1. n \in Nat /\ n + 1 \in Nat
  BY SeqIs DEF IsSeq
<1>2. Len(more) = n + 1 /\ more[n + 1] = ov /\ \A k \in 1..n : more[k] = ovs[k]
  <2>1. ovs \in Seq(Range(ovs) \cup {ov})
    BY SeqMonotonic DEF IsSeq
  <2>2. QED
    BY <2>1, AppendProperties
<1> HIDE DEF more
<1>3. PICK v : /\ v[0] = OverrideScale /\ \A k \in 1..n : v[k] = overridden(v[k - 1], ovs[k], id)
               /\ overrideMultiplier(id, ovs) = v[n]
  BY <1>1, OverrideRuns
<1>4. PICK w : /\ w[0] = OverrideScale
               /\ \A k \in 1..(n + 1) : w[k] = overridden(w[k - 1], more[k], id)
               /\ overrideMultiplier(id, more) = w[n + 1]
  BY SMTT(30), <1>1, <1>2, OverrideRuns
<1> DEFINE T == {k \in 0..n : w[k] = v[k]}
<1>5. 0 \in T
  BY <1>1, <1>3, <1>4
<1>6. ASSUME NEW k \in 1..n, k - 1 \in T
      PROVE  k \in T
  <2>1. k \in 1..(n + 1) /\ k \in 0..n
    BY <1>1
  <2>2. w[k - 1] = v[k - 1]
    BY <1>6
  <2>3. w[k] = v[k]
    BY <1>2, <1>3, <1>4, <2>1, <2>2
  <2>4. QED
    BY <2>1, <2>3
<1>7. 0..n \subseteq T
  <2> HIDE DEF T
  <2> QED BY <1>1, <1>5, <1>6, Upto
<1>8. w[n] = v[n]
  BY <1>1, <1>7
<1>9. overridden(w[n], ov, id) = w[n]
  BY DEF overridden
<1>10. w[n + 1] = overridden(w[n], ov, id)
  <2>1. n + 1 \in 1..(n + 1) /\ (n + 1) - 1 = n
    BY <1>1
  <2>2. w[n + 1] = overridden(w[(n + 1) - 1], more[n + 1], id)
    BY <1>4, <2>1
  <2>3. QED
    BY <1>2, <2>1, <2>2
<1>11. QED
  BY <1>3, <1>4, <1>8, <1>9, <1>10 DEF more

\* The image of a finite set is finite.
LEMMA ImageFinite ==
  ASSUME NEW S, IsFiniteSet(S), NEW f, f = [x \in S |-> f[x]], NEW T, T = {f[x] : x \in S}
  PROVE  IsFiniteSet(T)
<1>1. f \in Surjection(S, T)
  BY DEF Surjection
<1>2. QED
  BY <1>1, FS_Surjection

\* What a hit suggests is a finite set of candidates.
LEMMA GenerateIs ==
  ASSUME NEW c
  PROVE  IsFiniteSet(Generate(c)) /\ \A g \in Generate(c) : Cand(g)
<1> DEFINE suffixes == Range(BackupSuffixes)
           backups == IF c.kind = "file" THEN {Append(c.path, s) : s \in suffixes} ELSE {}
           pairs == {q \in Siblings : q[1] = c.path}
           siblings == {pair[2] : pair \in pairs}
           one(path) == Candidate(c.dir, path, "file", c.base, c.tags, FALSE)
           two(path) == Candidate(c.dir, path, c.kind, c.base, c.tags, FALSE)
<1>1. Generate(c) = {one(path) : path \in backups} \cup {two(path) : path \in siblings}
  BY DEF Generate
<1>2. \A path : Cand(one(path)) /\ Cand(two(path))
  BY CandidateIs
<1>3. IsFiniteSet(suffixes)
  <2>1. Len(BackupSuffixes) \in Nat /\ DOMAIN BackupSuffixes = 1..Len(BackupSuffixes)
    BY ProfileAssumption, LenProperties
  <2>2. IsFiniteSet(1..Len(BackupSuffixes))
    BY <2>1, FS_Interval
  <2>3. suffixes = {BackupSuffixes[i] : i \in 1..Len(BackupSuffixes)}
    BY <2>1 DEF Range
  <2>4. BackupSuffixes = [i \in 1..Len(BackupSuffixes) |-> BackupSuffixes[i]]
    BY ProfileAssumption, LenProperties
  <2> HIDE DEF suffixes
  <2>5. QED
    BY <2>2, <2>3, <2>4, ImageFinite
<1>4. IsFiniteSet(pairs)
  <2>1. pairs \subseteq Siblings
    OBVIOUS
  <2> HIDE DEF pairs
  <2>2. QED
    BY <2>1, RankingAssumption, FS_Subset
<1> HIDE DEF suffixes, pairs
<1>5. IsFiniteSet(siblings)
  <2> DEFINE f == [pair \in pairs |-> pair[2]]
  <2>1. f = [x \in pairs |-> f[x]] /\ siblings = {f[x] : x \in pairs}
    OBVIOUS
  <2> HIDE DEF f, siblings
  <2>2. QED
    BY <1>4, <2>1, ImageFinite
<1>6. IsFiniteSet(backups)
  <2> DEFINE f == [s \in suffixes |-> Append(c.path, s)]
             T == {Append(c.path, s) : s \in suffixes}
  <2>1. IsFiniteSet(T)
    <3>1. f = [x \in suffixes |-> f[x]] /\ T = {f[x] : x \in suffixes}
      OBVIOUS
    <3> HIDE DEF f, T
    <3>2. QED
      BY <1>3, <3>1, ImageFinite
  <2>2. QED
    BY <2>1, FS_EmptySet
<1> HIDE DEF siblings, backups, one, two
<1> DEFINE ones == {one(path) : path \in backups}
           twos == {two(path) : path \in siblings}
<1>a. IsFiniteSet(ones)
  <2> DEFINE f == [path \in backups |-> one(path)]
  <2>1. f = [x \in backups |-> f[x]] /\ ones = {f[x] : x \in backups}
    OBVIOUS
  <2> HIDE DEF f, ones
  <2>2. QED
    BY <1>6, <2>1, ImageFinite
<1>b. IsFiniteSet(twos)
  <2> DEFINE f == [path \in siblings |-> two(path)]
  <2>1. f = [x \in siblings |-> f[x]] /\ twos = {f[x] : x \in siblings}
    OBVIOUS
  <2> HIDE DEF f, twos
  <2>2. QED
    BY <1>5, <2>1, ImageFinite
<1>8. IsFiniteSet(Generate(c))
  <2>1. Generate(c) = ones \cup twos
    BY <1>1
  <2> HIDE DEF ones, twos
  <2>2. QED
    BY <1>a, <1>b, <2>1, FS_Union
<1>9. \A g \in Generate(c) : Cand(g)
  BY <1>1, <1>2
<1>10. QED
  BY <1>8, <1>9

-----------------------------------------------------------------------------
(* The steps that queue candidates.                                          *)

\* The seeds that wait for a directory.
Pending(pend) ==
  DOMAIN pend = Dir /\ \A d \in Dir : IsFiniteSet(pend[d]) /\ \A c \in pend[d] : Cand(c)

\* The template's candidates for a directory.
LEMMA TemplateIs ==
  ASSUME IsSeq(template), NEW d
  PROVE  IsSeq(TemplateFor(d)) /\ \A i \in DOMAIN TemplateFor(d) : Cand(TemplateFor(d)[i])
<1> DEFINE n == Len(template)
           one(i) == Merged(Candidate(d, template[i].path, template[i].kind, template[i].base,
                                      template[i].tags, FALSE), pendingSeeds[d])
           t == TemplateFor(d)
<1>1. n \in Nat /\ DOMAIN template = 1..n
  BY SeqIs DEF IsSeq
<1>2. \A i : Cand(one(i))
  BY CandidateIs, UpgradedIs DEF Merged
<1>3. t = [i \in DOMAIN template |-> one(i)]
  BY DEF TemplateFor
<1> HIDE DEF one, t
<1>4. t = [i \in 1..n |-> t[i]] /\ \A i \in 1..n : t[i] = one(i)
  BY <1>1, <1>3
<1>5. IsSeq(t) /\ DOMAIN t = 1..n
  BY <1>1, <1>4, SegmentIs
<1>6. QED
  BY <1>2, <1>4, <1>5 DEF t

\* A candidate for a path of nmap.
ForNmap(c, i, v) == [c EXCEPT !.nmap = i, !.score = v]

\* It is a candidate with that score.
LEMMA NmapIs ==
  ASSUME NEW c, Cand(c), NEW i, NEW v
  PROVE  Cand(ForNmap(c, i, v)) /\ ForNmap(c, i, v).nmap = i /\ ForNmap(c, i, v).score = v
<1> DEFINE e == ForNmap(c, i, v)
           e1 == [c EXCEPT !.nmap = i]
<1>1. PICK d, p, kd, b, t, cr, n, v0 :
        c = [dir |-> d, path |-> p, kind |-> kd, base |-> b, tags |-> t, crawl |-> cr,
             nmap |-> n, score |-> v0]
  BY DEF Cand
<1>2. e = [e1 EXCEPT !.score = v]
  BY DEF ForNmap
<1>3. e1 = [dir |-> d, path |-> p, kind |-> kd, base |-> b, tags |-> t, crawl |-> cr,
            nmap |-> i, score |-> v0]
  BY <1>1
<1> HIDE DEF e, e1
<1>4. e = [dir |-> d, path |-> p, kind |-> kd, base |-> b, tags |-> t, crawl |-> cr,
           nmap |-> i, score |-> v]
  BY <1>2, <1>3
<1>5. Cand(e) /\ e.nmap = i /\ e.score = v
  BY <1>4 DEF Cand
<1>6. QED
  BY <1>5 DEF e

\* The paths nmap named wait with a score of their own.
LEMMA NmapQueue ==
  ASSUME IsSeq(nmapSeeds), NEW d, NEW k, NEW open
  PROVE  Queue(NmapCandidates(d), k, open)
<1>1. CASE d # Root
  BY <1>1, EmptyQueue DEF NmapCandidates
<1>2. CASE d = Root
  <2> DEFINE n == Len(nmapSeeds)
             plain(i) == Candidate(Root, nmapSeeds[i], "fullpath", One, {}, FALSE)
             one(i) == [plain(i) EXCEPT !.nmap = i, !.score = nmapSeedScore]
             t == NmapCandidates(d)
  <2>1. n \in Nat /\ DOMAIN nmapSeeds = 1..n
    BY SeqIs DEF IsSeq
  <2>2. t = [i \in DOMAIN nmapSeeds |-> one(i)]
    BY <1>2 DEF NmapCandidates
  <2>3. ASSUME NEW i \in 1..n
        PROVE  Cand(one(i)) /\ Current(one(i), k)
    <3> DEFINE e == one(i)
               c == plain(i)
    <3>1. Cand(c)
      BY CandidateIs
    <3>2. e = ForNmap(c, i, nmapSeedScore)
      BY DEF ForNmap
    <3> HIDE DEF one, e, c
    <3>5. Cand(e) /\ e.nmap = i /\ e.score = nmapSeedScore
      BY <3>1, <3>2, NmapIs
    <3>6. i > 0
      BY <2>1
    <3>7. QED
      BY <3>5, <3>6 DEF Current, e
  <2> HIDE DEF one, t
  <2>4. t = [i \in 1..n |-> t[i]] /\ \A i \in 1..n : t[i] = one(i)
    BY <2>1, <2>2
  <2>5. IsSeq(t) /\ DOMAIN t = 1..n
    BY <2>1, <2>4, SegmentIs
  <2>6. \A c \in Range(t) : \E i \in 1..n : c = t[i]
    BY <2>5 DEF Range
  <2>7. QED
    BY <2>3, <2>4, <2>5, <2>6 DEF Queue, t
<1>3. QED
  BY <1>1, <1>2

\* A directory's candidates wait with the scores of the moment.
LEMMA PushCandidatesQueue ==
  ASSUME IsSeq(template), IsSeq(nmapSeeds), Pending(pendingSeeds), NEW d \in Dir,
         NEW h, NEW k, NEW open, Queue(h, k, open), PushCandidates(d, h, k)
  PROVE  Queue(heap', k, open) /\ Pending(pendingSeeds')
<1> DEFINE listed == TemplateFor(d)
           paths == {listed[i].path : i \in DOMAIN listed}
           left == Unknown(pendingSeeds[d], paths)
           scored == [i \in DOMAIN listed |-> Scored(listed[i], k)]
           based == PushAll(h, scored)
<1>1. Queue(scored, k, open)
  <2>1. Queue(scored, k, FALSE)
    BY TemplateIs, ScoredQueue
  <2> HIDE DEF scored
  <2>2. QED
    BY <2>1 DEF Queue
<1>2. PICK g \in Enqueued(based, left, k) : heap' = PushAll(g, NmapCandidates(d))
  BY DEF PushCandidates
<1>3. pendingSeeds' = [pendingSeeds EXCEPT ![d] = {}]
  BY DEF PushCandidates
<1>4. IsFiniteSet(left) /\ \A c \in left : Cand(c)
  <2>1. left \subseteq pendingSeeds[d]
    BY DEF Unknown
  <2> HIDE DEF left
  <2>2. QED
    BY <2>1, FS_Subset DEF Pending
<1> HIDE DEF left, scored
<1>5. Queue(based, k, open)
  BY <1>1, PushAllQueue
<1> HIDE DEF based
<1>6. Queue(g, k, open)
  BY <1>4, <1>5, EnqueuedQueue
<1>7. Queue(heap', k, open)
  BY <1>2, <1>6, NmapQueue, PushAllQueue
<1>8. Pending(pendingSeeds')
  BY <1>3, FS_EmptySet DEF Pending
<1>9. QED
  BY <1>7, <1>8

\* What staging works on: the heap, the paths known and the seeds that wait.
Staged(s, k, open) ==
  /\ s = [heap |-> s.heap, known |-> s.known, pending |-> s.pending]
  /\ Queue(s.heap, k, open) /\ Pending(s.pending)

\* A candidate that is staged is scored, upgraded, or kept for its directory.
LEMMA StageQueue ==
  ASSUME NEW s, NEW k, NEW open, Staged(s, k, open), NEW c, Cand(c), c.dir \in Dir
  PROVE  Staged(stageDirCandidate(s, c, k), k, open)
<1> DEFINE waiting == {w \in s.pending[c.dir] : w.path = c.path}
           upgrade == [e \in Range(s.heap) |-> UpgradedScored(e, c, k)]
           up1 == UpdateMatching(s.heap, Id(c), upgrade)
           push == Push(s.heap, Scored(c, k))
           more == IF waiting = {} THEN s.pending[c.dir] \cup {c}
                   ELSE (s.pending[c.dir] \ waiting) \cup {Upgraded(w, c) : w \in waiting}
           known == [s.known EXCEPT ![c.dir] = @ \cup {c.path}]
           pend == [s.pending EXCEPT ![c.dir] = more]
           r == stageDirCandidate(s, c, k)
<1>1. \/ r = [s EXCEPT !.heap = up1]
      \/ r = [s EXCEPT !.heap = push, !.known[c.dir] = @ \cup {c.path}]
      \/ r = [s EXCEPT !.pending[c.dir] = more]
  BY DEF stageDirCandidate
<1>2. Queue(up1, k, open)
  BY UpgradeQueue DEF Staged
<1>3. Queue(push, k, open)
  BY PushQueue DEF Staged
<1>4. Pending(pend)
  <2> DEFINE here == s.pending[c.dir]
             better == {Upgraded(w, c) : w \in waiting}
  <2>1. IsFiniteSet(here) /\ (\A w \in here : Cand(w)) /\ waiting \subseteq here
    BY DEF Staged, Pending
  <2>2. more = here \cup {c} \/ more = (here \ waiting) \cup better
    OBVIOUS
  <2> HIDE DEF here, waiting
  <2>3. IsFiniteSet(waiting)
    BY <2>1, FS_Subset
  <2>4. IsFiniteSet(better)
    <3> DEFINE f == [w \in waiting |-> Upgraded(w, c)]
    <3>1. f = [x \in waiting |-> f[x]] /\ better = {f[x] : x \in waiting}
      OBVIOUS
    <3> HIDE DEF f, better
    <3>2. QED
      BY <2>3, <3>1, ImageFinite
  <2>5. \A w \in better : Cand(w)
    <3> SUFFICES ASSUME NEW w \in waiting PROVE Cand(Upgraded(w, c))
      OBVIOUS
    <3>1. Cand(w)
      BY <2>1
    <3>2. QED
      BY <3>1, UpgradedIs DEF Upgraded
  <2> HIDE DEF better
  <2>6. IsFiniteSet(here \cup {c}) /\ IsFiniteSet(here \ waiting)
    BY <2>1, FS_AddElement, FS_Subset
  <2>7. IsFiniteSet((here \ waiting) \cup better)
    BY <2>4, <2>6, FS_Union
  <2> HIDE DEF more
  <2>8. IsFiniteSet(more) /\ \A w \in more : Cand(w)
    BY <2>1, <2>2, <2>5, <2>6, <2>7
  <2>9. QED
    BY <2>8 DEF Staged, Pending
<1> HIDE DEF up1, push, more
<1>5. CASE r = [s EXCEPT !.heap = up1]
  <2>1. r = [heap |-> up1, known |-> s.known, pending |-> s.pending]
    BY <1>5 DEF Staged
  <2> HIDE DEF r
  <2>2. r.heap = up1 /\ r.known = s.known /\ r.pending = s.pending
    BY <2>1
  <2>3. QED
    BY <1>2, <2>1, <2>2 DEF Staged, r
<1>6. CASE r = [s EXCEPT !.heap = push, !.known[c.dir] = @ \cup {c.path}]
  <2> DEFINE mid == [s EXCEPT !.heap = push]
  <2>1. mid = [heap |-> push, known |-> s.known, pending |-> s.pending]
    BY DEF Staged
  <2>2. r = [mid EXCEPT !.known[c.dir] = @ \cup {c.path}]
    BY <1>6
  <2> HIDE DEF mid, r
  <2>3. r = [heap |-> push, known |-> known, pending |-> s.pending]
    BY <2>1, <2>2
  <2> HIDE DEF known
  <2>4. r.heap = push /\ r.known = known /\ r.pending = s.pending
    BY <2>3
  <2>5. QED
    BY <1>3, <2>3, <2>4 DEF Staged, r
<1>7. CASE r = [s EXCEPT !.pending[c.dir] = more]
  <2>1. r = [heap |-> s.heap, known |-> s.known, pending |-> pend]
    BY <1>7 DEF Staged
  <2> HIDE DEF r, pend
  <2>2. r.heap = s.heap /\ r.known = s.known /\ r.pending = pend
    BY <2>1
  <2>3. QED
    BY <1>4, <2>1, <2>2 DEF Staged, r
<1>8. QED
  BY <1>1, <1>5, <1>6, <1>7

\* A seed leaves a queue.
LEMMA SeedQueue ==
  ASSUME Pending(pendingSeeds), NEW h, NEW k, NEW open, Queue(h, k, open),
         NEW sd, sd.dir \in Dir, enqueueSeed(sd, h, k)
  PROVE  Queue(heap', k, open) /\ Pending(pendingSeeds')
<1> DEFINE now == [heap |-> h, known |-> knownPaths, pending |-> pendingSeeds]
           rootward == SeedCandidate(Root, SubName, "dir", sd)
           chain == IF sd.dir = Root THEN now ELSE stageDirCandidate(now, rootward, k)
           cand == SeedCandidate(sd.dir, sd.path, sd.kind, sd)
           all == stageDirCandidate(chain, cand, k)
<1>1. heap' = all.heap /\ pendingSeeds' = all.pending
  BY DEF enqueueSeed
<1>2. Staged(now, k, open)
  BY DEF Staged
<1>3. Cand(rootward) /\ rootward.dir = Root /\ Cand(cand) /\ cand.dir = sd.dir /\ Root \in Dir
  BY CandidateIs DEF SeedCandidate, Candidate, Dir
<1> HIDE DEF now, rootward, cand
<1>4. Staged(chain, k, open)
  BY <1>2, <1>3, StageQueue
<1> HIDE DEF chain
<1>5. Staged(all, k, open)
  BY <1>3, <1>4, StageQueue
<1> HIDE DEF all
<1>6. QED
  BY <1>1, <1>5 DEF Staged

-----------------------------------------------------------------------------
(* ScoresCurrent.                                                            *)

\* The scores may be behind: a sweep is due, or the rules do not name what they are for.
Open == scorerDirty \/ ~Categorised

\* The signature is that of the profile, what the heap is built from are lists and
\* finite sets of candidates, and every candidate waits with the score of the moment.
Ranked ==
  /\ lastReprioSig = profileSignature(profile)
  /\ spaMode \in BOOLEAN /\ order \in Orders /\ scorerDirty \in BOOLEAN
  /\ IsSeq(template) /\ IsSeq(nmapSeeds) /\ IsSeq(overrides)
  /\ Pending(pendingSeeds)
  /\ Queue(heap, Knowledge, Open)

RankInv == Baseline /\ ProfileInv /\ Ranked

\* A list with one element more is a list.
LEMMA AppendIs ==
  ASSUME NEW s, IsSeq(s), NEW x
  PROVE  IsSeq(Append(s, x))
<1> DEFINE E == Range(s) \cup {x}
<1>1. Range(s) \subseteq E /\ x \in E
  OBVIOUS
<1> HIDE DEF E
<1>2. s \in Seq(E)
  BY <1>1, SeqMonotonic DEF IsSeq
<1>3. Append(s, x) \in Seq(E)
  BY <1>1, <1>2, AppendProperties
<1>4. QED
  BY <1>3, SeqIs

\* It holds in the initial states.
LEMMA RankedInit == Init => Ranked
<1> SUFFICES ASSUME Init PROVE Ranked
  OBVIOUS
<1>1. /\ lastReprioSig = profileSignature(profile)
      /\ spaMode \in BOOLEAN /\ order \in Orders /\ scorerDirty \in BOOLEAN
  BY DEF Init
<1>2. template = <<>> /\ nmapSeeds = <<>> /\ overrides = <<>> /\ heap = <<>>
      /\ pendingSeeds = [d \in Dir |-> {}]
  BY DEF Init
<1>3. Pending(pendingSeeds)
  BY <1>2, FS_EmptySet DEF Pending
<1>4. IsSeq(template) /\ IsSeq(nmapSeeds) /\ IsSeq(overrides)
  BY <1>2, NoneIs
<1>5. Queue(heap, Knowledge, Open)
  BY <1>2, EmptyQueue
<1>6. QED
  BY <1>1, <1>3, <1>4, <1>5 DEF Ranked

\* Before the target is profiled nothing waits.
LEMMA RankedFirst ==
  ASSUME RankInv, NEW matching, NEW named \in NmapPaths, ProfileAndSeed(matching, named)
  PROVE  Ranked'
<1> DEFINE p == VoteNmap(ProfileTarget(matching), matching)
<1>1. /\ dirs[Root] = "absent" /\ profile' = p /\ nmapSeeds' = named
      /\ lastReprioSig' = profileSignature(p)
  BY DEF ProfileAndSeed
<1>2. PICK exts \in ExtensionsForStack(p) : template' = Expand(Select(p), exts, p)
  BY DEF ProfileAndSeed
<1>3. UNCHANGED <<seedVars, heapVars, userVars, sweepVars>>
  BY DEF ProfileAndSeed
<1>4. p \in Profiles
  BY TargetFair DEF Fair
<1> HIDE DEF p
<1>5. IsSeq(template')
  BY <1>2, <1>4, ExtensionsAre, SelectIs, ExpandIs
<1>6. IsSeq(nmapSeeds')
  BY <1>1, RankingAssumption, SeqIs
<1>7. heap' = <<>>
  BY <1>1, <1>3 DEF RankInv, Baseline, heapVars
<1>8. Queue(heap', Knowledge', Open')
  BY <1>7, EmptyQueue
<1>9. /\ spaMode' = spaMode /\ order' = order /\ scorerDirty' = scorerDirty
      /\ overrides' = overrides /\ pendingSeeds' = pendingSeeds
  BY <1>3 DEF seedVars, heapVars, takeVars, userVars, sweepVars
<1>10. QED
  BY <1>1, <1>5, <1>6, <1>8, <1>9 DEF RankInv, Ranked

\* A directory other than the root.
LEMMA RankedSub ==
  ASSUME RankInv, FinishCalibrationSub
  PROVE  Ranked'
<1>1. PushCandidates(Sub, heap, Knowledge) /\ UNCHANGED <<profileVars, takeVars, userVars, learnVars, sweepVars>>
  BY DEF FinishCalibrationSub
<1>2. Queue(heap', Knowledge, Open) /\ Pending(pendingSeeds')
  BY <1>1, PushCandidatesQueue DEF RankInv, Ranked, Dir
<1>3. Knowledge' = Knowledge /\ Open' = Open
  BY <1>1 DEF Knowledge, Open, profileVars, userVars, learnVars, sweepVars
<1>4. Queue(heap', Knowledge', Open')
  BY <1>2, <1>3
<1>5. QED
  BY <1>1, <1>2, <1>4 DEF RankInv, Ranked, profileVars, userVars, takeVars, sweepVars

\* The root: a profile with the signature of the one before gives the same scores.
LEMMA RefinedQueue ==
  ASSUME RankInv, NEW p, p = profile \/ (Categorised => Refined(profile, p)),
         NEW k, k = [Knowledge EXCEPT !.profile = p]
  PROVE  /\ Queue(Sweep(heap, k), k, Open)
         /\ profileSignature(p) = lastReprioSig => Queue(heap, k, Open)
<1>1. Queue(heap, Knowledge, Open) /\ lastReprioSig = profileSignature(profile)
  BY DEF RankInv, Ranked
<1>2. Queue(Sweep(heap, k), k, Open)
  <2>1. Queue(Sweep(heap, k), k, FALSE)
    BY <1>1, SweepQueue
  <2>2. QED
    BY <2>1 DEF Queue
<1>3. k = [profile |-> p, spa |-> spaMode, overrides |-> overrides, terms |-> hitTerms,
           trained |-> trained, protected |-> sawProtected, listed |-> sawIndexOf]
  BY DEF Knowledge
<1>4. /\ k.profile = p /\ k.spa = spaMode /\ k.overrides = overrides /\ k.terms = hitTerms
      /\ k.trained = trained /\ k.protected = sawProtected /\ k.listed = sawIndexOf
  BY <1>3
<1>5. /\ Knowledge.profile = profile /\ Knowledge.spa = spaMode
      /\ Knowledge.overrides = overrides /\ Knowledge.terms = hitTerms
      /\ Knowledge.trained = trained /\ Knowledge.protected = sawProtected
      /\ Knowledge.listed = sawIndexOf
  BY DEF Knowledge
<1>6. ASSUME profileSignature(p) = lastReprioSig
      PROVE  Queue(heap, k, Open)
  <2>1. CASE p = profile
    <3>1. k = Knowledge
      BY <1>3, <2>1 DEF Knowledge
    <3>2. QED
      BY <1>1, <3>1
  <2>2. CASE ~Categorised
    <3>1. Open
      BY <2>2 DEF Open
    <3>2. QED
      BY <1>1, <3>1 DEF Queue
  <2>3. CASE Refined(profile, p)
    <3>1. \A c : scoreCandidate(c, k) = scoreCandidate(c, Knowledge)
      BY <1>1, <1>4, <1>5, <1>6, <2>3, SameProfileScore
    <3>2. QED
      BY <1>1, <3>1 DEF Queue, Current
  <2>4. QED
    BY <2>1, <2>2, <2>3
<1>7. QED
  BY <1>2, <1>6

\* Refined, swept, calibrated again or scanned: the root's candidates, and all that
\* wait, have the scores of the refined profile and of the pivot.
LEMMA RankedRoot ==
  ASSUME RankInv, NEW matching, NEW spa \in BOOLEAN, FinishCalibrationRoot(matching, spa)
  PROVE  Ranked'
<1> DEFINE p == IF Refines THEN RefineAfterCalibration(profile, matching) ELSE profile
           refined == [Knowledge EXCEPT !.profile = p]
           swept == IF profileSignature(p) # lastReprioSig THEN Sweep(heap, refined) ELSE heap
           pivot == [refined EXCEPT !.spa = spaMode \/ spa]
           queued == IF spa THEN Sweep(swept, pivot) ELSE swept
<1>1. /\ profile' = p /\ lastReprioSig' = profileSignature(p)
      /\ UNCHANGED <<template, nmapSeeds, takeVars, overrides, learnVars, sweepVars>>
  BY DEF FinishCalibrationRoot
<1>2. \/ /\ pendingSeeds' = [pendingSeeds EXCEPT ![Root] = {}] /\ heap' = swept
         /\ spaMode' = spaMode
      \/ PushCandidates(Root, queued, pivot) /\ spaMode' = pivot.spa
  BY DEF FinishCalibrationRoot
<1>3. p = profile \/ (Categorised => Refined(profile, p))
  BY <1>1, ProfileRefined DEF RankInv
<1> HIDE DEF p
<1>4. refined = [profile |-> p, spa |-> spaMode, overrides |-> overrides, terms |-> hitTerms,
                 trained |-> trained, protected |-> sawProtected, listed |-> sawIndexOf]
  BY DEF Knowledge
<1>5. Queue(swept, refined, Open)
  BY <1>3, RefinedQueue
<1> HIDE DEF refined
<1>6. pivot = [profile |-> p, spa |-> spaMode \/ spa, overrides |-> overrides, terms |-> hitTerms,
               trained |-> trained, protected |-> sawProtected, listed |-> sawIndexOf]
  BY <1>4
<1>7. spaMode \in BOOLEAN /\ Pending(pendingSeeds) /\ IsSeq(template) /\ IsSeq(nmapSeeds)
  BY DEF RankInv, Ranked
<1> HIDE DEF swept, pivot
<1>8. Queue(queued, pivot, Open)
  <2>1. CASE spa
    <3>1. Queue(Sweep(swept, pivot), pivot, FALSE)
      BY <1>5, SweepQueue
    <3>2. QED
      BY <2>1, <3>1 DEF Queue
  <2>2. CASE ~spa
    <3>1. (spaMode \/ spa) = spaMode
      BY <1>7, <2>2
    <3>2. pivot = refined
      BY <1>4, <1>6, <3>1
    <3>3. QED
      BY <1>5, <2>2, <3>2
  <2>3. QED
    BY <2>1, <2>2
<1> HIDE DEF queued
<1>9. /\ scorerDirty' = scorerDirty /\ overrides' = overrides /\ hitTerms' = hitTerms
      /\ trained' = trained /\ sawProtected' = sawProtected /\ sawIndexOf' = sawIndexOf
      /\ order' = order /\ template' = template /\ nmapSeeds' = nmapSeeds /\ Open' = Open
  BY <1>1 DEF takeVars, learnVars, sweepVars, Open
<1>10. CASE pendingSeeds' = [pendingSeeds EXCEPT ![Root] = {}] /\ heap' = swept /\ spaMode' = spaMode
  <2>1. Knowledge' = refined
    BY <1>1, <1>4, <1>9, <1>10 DEF Knowledge
  <2>2. Queue(heap', Knowledge', Open')
    BY <1>5, <1>9, <1>10, <2>1
  <2>3. Pending(pendingSeeds')
    BY <1>7, <1>10, FS_EmptySet DEF Pending
  <2>4. QED
    BY <1>1, <1>9, <1>10, <2>2, <2>3 DEF RankInv, Ranked
<1>11. CASE PushCandidates(Root, queued, pivot) /\ spaMode' = pivot.spa
  <2>1. Queue(heap', pivot, Open) /\ Pending(pendingSeeds')
    BY <1>7, <1>8, <1>11, PushCandidatesQueue DEF Dir
  <2>2. pivot.spa = (spaMode \/ spa) /\ (spaMode \/ spa) \in BOOLEAN
    BY <1>6
  <2>3. Knowledge' = pivot
    BY <1>1, <1>6, <1>9, <1>11, <2>2 DEF Knowledge
  <2>4. Queue(heap', Knowledge', Open')
    BY <1>9, <2>1, <2>3
  <2>5. QED
    BY <1>1, <1>9, <1>11, <2>1, <2>2, <2>4 DEF RankInv, Ranked
<1>12. QED
  BY <1>2, <1>10, <1>11

\* A step that leaves alone what the scores depend on.
LEMMA RankedKept ==
  ASSUME RankInv, UNCHANGED <<profileVars, learnVars, userVars, order, scorerDirty>>,
         Queue(heap', Knowledge, Open), Pending(pendingSeeds')
  PROVE  Ranked'
<1>1. Knowledge' = Knowledge /\ Open' = Open
  BY DEF Knowledge, Open, profileVars, userVars, learnVars
<1>2. Queue(heap', Knowledge', Open')
  BY <1>1
<1>3. QED
  BY <1>2 DEF RankInv, Ranked, profileVars, userVars

\* A dispatch takes a candidate that waits.
LEMMA RankedPop ==
  ASSUME RankInv, PopNext
  PROVE  Ranked'
<1>1. /\ heap # <<>> /\ UNCHANGED <<profileVars, learnVars, userVars, order, scorerDirty>>
      /\ pendingSeeds' = pendingSeeds
  BY DEF PopNext, seedVars, sweepVars
<1>2. PICK i \in PopPositions : heap' = Pop(heap, i)
  BY DEF PopNext
<1>3. Queue(heap, Knowledge, Open) /\ order \in Orders /\ Pending(pendingSeeds)
  BY DEF RankInv, Ranked
<1>4. 1 \in DOMAIN heap
  <2>1. heap \in Seq(Range(heap))
    BY <1>3 DEF Queue, IsSeq
  <2>2. Len(heap) \in Nat /\ DOMAIN heap = 1..Len(heap)
    BY <2>1, LenProperties
  <2>3. Len(heap) # 0
    BY <1>1, <2>1, EmptySeq
  <2>4. QED
    BY <2>2, <2>3
<1>5. PopAt(heap) \subseteq DOMAIN heap
  BY <1>4 DEF PopAt
<1>6. PopBandAt(heap) \subseteq DOMAIN heap
  BY <1>5 DEF PopBandAt
<1>7. SampleMidTierAt(heap) \subseteq DOMAIN heap
  BY DEF SampleMidTierAt
<1>8. order \in {"strict", "band", "explore"}
  BY <1>3, RankingAssumption
<1>9. i \in DOMAIN heap
  BY <1>2, <1>5, <1>6, <1>7, <1>8 DEF PopPositions
<1>10. Queue(heap', Knowledge, Open)
  BY <1>2, <1>3, <1>9, PopQueue
<1>11. QED
  BY <1>1, <1>3, <1>10, RankedKept

\* A hit: what it suggests is scored with what it taught, and all of the heap if a
\* sweep is due; if not, the scorer is marked.
LEMMA RankedHit ==
  ASSUME RankInv, NEW c, NEW what, NEW opens, LearnFromHit(c, what, opens)
  PROVE  Ranked'
<1> DEFINE protected == sawProtected \cup IF what = "protected" THEN {c.dir} ELSE {}
           listed == sawIndexOf \cup IF what = "listing" /\ Id(c) = <<Root, SubName>> THEN {Sub} ELSE {}
           terms == [hitTerms EXCEPT ![c.dir] = @ \cup {c.path}]
           more == trained + 1
           k == [Knowledge EXCEPT !.protected = protected, !.listed = listed, !.terms = terms,
                                  !.trained = more]
           new == Unknown(Generate(c), knownPaths[c.dir])
<1>1. /\ hitTerms' = terms /\ trained' = more /\ sawProtected' = protected /\ sawIndexOf' = listed
      /\ scorerDirty' = ~SweepDue
  BY DEF LearnFromHit
<1>2. PICK g \in Enqueued(heap, new, k) : heap' = IF SweepDue THEN Sweep(g, k) ELSE g
  BY DEF LearnFromHit
<1>3. UNCHANGED <<profileVars, pendingSeeds, order, userVars>>
  BY DEF LearnFromHit
<1> HIDE DEF protected, listed, terms, more
<1>4. k = [profile |-> profile, spa |-> spaMode, overrides |-> overrides, terms |-> terms,
           trained |-> more, protected |-> protected, listed |-> listed]
  <2> DEFINE k1 == [Knowledge EXCEPT !.protected = protected]
             k2 == [k1 EXCEPT !.listed = listed]
             k3 == [k2 EXCEPT !.terms = terms]
  <2>1. k = [k3 EXCEPT !.trained = more]
    BY Zenon
  <2>2. k1 = [profile |-> profile, spa |-> spaMode, overrides |-> overrides, terms |-> hitTerms,
              trained |-> trained, protected |-> protected, listed |-> sawIndexOf]
    BY DEF Knowledge
  <2> HIDE DEF k, k1
  <2>3. k2 = [profile |-> profile, spa |-> spaMode, overrides |-> overrides, terms |-> hitTerms,
              trained |-> trained, protected |-> protected, listed |-> listed]
    BY <2>2
  <2> HIDE DEF k2
  <2>4. k3 = [profile |-> profile, spa |-> spaMode, overrides |-> overrides, terms |-> terms,
              trained |-> trained, protected |-> protected, listed |-> listed]
    BY <2>3
  <2> HIDE DEF k3
  <2>5. QED
    BY <2>1, <2>4
<1>5. IsFiniteSet(new) /\ \A e \in new : Cand(e)
  <2>1. new \subseteq Generate(c)
    BY DEF Unknown
  <2> HIDE DEF new
  <2>2. QED
    BY <2>1, GenerateIs, FS_Subset
<1> HIDE DEF k, new
<1>6. Queue(heap, k, TRUE)
  BY DEF RankInv, Ranked, Queue
<1>7. Queue(g, k, TRUE)
  BY <1>5, <1>6, EnqueuedQueue
<1>8. Knowledge' = k
  BY <1>1, <1>3, <1>4 DEF Knowledge, profileVars, userVars
<1>9. Queue(heap', k, Open')
  <2>1. CASE SweepDue
    <3>1. Queue(Sweep(g, k), k, FALSE)
      BY <1>7, SweepQueue
    <3>2. heap' = Sweep(g, k)
      BY <1>2, <2>1
    <3>3. QED
      BY <3>1, <3>2 DEF Queue
  <2>2. CASE ~SweepDue
    <3>1. scorerDirty' /\ heap' = g
      BY <1>1, <1>2, <2>2
    <3>2. Open'
      BY <3>1 DEF Open
    <3>3. QED
      BY <1>7, <3>1, <3>2 DEF Queue
  <2>3. QED
    BY <2>1, <2>2
<1>10. Queue(heap', Knowledge', Open') /\ scorerDirty' \in BOOLEAN
  BY <1>1, <1>8, <1>9
<1>11. QED
  BY <1>3, <1>10 DEF RankInv, Ranked, profileVars, userVars

\* A seed.
LEMMA RankedSeed ==
  ASSUME RankInv, NEW sd \in Seeds, Seed(sd)
  PROVE  Ranked'
<1>1. enqueueSeed(sd, heap, Knowledge) /\ UNCHANGED <<profileVars, learnVars, userVars, order, scorerDirty>>
  BY DEF Seed, userVars, takeVars, sweepVars
<1>2. sd.dir \in Dir
  BY RankingAssumption
<1>3. Queue(heap', Knowledge, Open) /\ Pending(pendingSeeds')
  BY <1>1, <1>2, SeedQueue DEF RankInv, Ranked
<1>4. QED
  BY <1>1, <1>3, RankedKept

\* A command that changes scores sweeps.
LEMMA RankedCommand ==
  ASSUME RankInv, NEW ov, NEW k, k = Commanded(ov), overrides' = k.overrides,
         UNCHANGED <<profileVars, learnVars, spaMode, order, scorerDirty>>,
         NEW h, Queue(h, k, Open), heap' = h, Pending(pendingSeeds')
  PROVE  Ranked'
<1>1. k = [profile |-> profile, spa |-> spaMode, overrides |-> Append(overrides, ov),
           terms |-> hitTerms, trained |-> trained, protected |-> sawProtected,
           listed |-> sawIndexOf]
  BY DEF Commanded, Knowledge
<1>2. overrides' = Append(overrides, ov)
  BY <1>1
<1>3. Knowledge' = k /\ Open' = Open
  BY <1>1, <1>2 DEF Knowledge, Open, profileVars, learnVars
<1>4. IsSeq(overrides')
  BY <1>2, AppendIs DEF RankInv, Ranked
<1>5. Queue(heap', Knowledge', Open')
  BY <1>3
<1>6. QED
  BY <1>4, <1>5 DEF RankInv, Ranked, profileVars

\* A pin, which may queue what it names.
LEMMA RankedPin ==
  ASSUME RankInv, NEW p \in Patterns, ApplyPin(p)
  PROVE  Ranked'
<1> DEFINE ov == [kind |-> "boost", factor |-> PinScore, covers |-> p.covers]
           k == Commanded(ov)
           swept == Sweep(heap, k)
           sd == [dir |-> p.names[1], path |-> p.names[2], kind |-> "file", base |-> One,
                  crawl |-> FALSE]
<1>1. /\ overrides' = k.overrides
      /\ UNCHANGED <<profileVars, learnVars, spaMode, order, scorerDirty>>
      /\ IF p.names = <<>> THEN heap' = swept /\ pendingSeeds' = pendingSeeds
         ELSE enqueueSeed(sd, swept, k)
  BY DEF ApplyPin, takeVars, sweepVars
<1>2. Pending(pendingSeeds) /\ Queue(heap, Knowledge, Open)
  BY DEF RankInv, Ranked
<1> HIDE DEF ov
<1>3. Queue(swept, k, Open)
  <2>1. Queue(swept, k, FALSE)
    BY <1>2, SweepQueue
  <2>2. QED
    BY <2>1 DEF Queue
<1>4. Queue(heap', k, Open) /\ Pending(pendingSeeds')
  <2>1. CASE p.names = <<>>
    <3> HIDE DEF swept, k
    <3> QED BY <1>1, <1>2, <1>3, <2>1
  <2>2. CASE p.names # <<>>
    <3>1. p.names \in Dir \X Seq(STRING)
      BY <2>2, RankingAssumption
    <3>2. sd.dir \in Dir
      BY <3>1
    <3> HIDE DEF swept, k, sd
    <3>3. QED
      BY <1>1, <1>2, <1>3, <2>2, <3>2, SeedQueue
  <2>3. QED
    BY <2>1, <2>2
<1> HIDE DEF swept
<1>5. QED
  BY <1>1, <1>4, RankedCommand

\* A boost or a demotion.
LEMMA RankedOverride ==
  ASSUME RankInv, NEW p, NEW kind, ApplyOverride(p, kind)
  PROVE  Ranked'
<1> DEFINE ov == [kind |-> kind, factor |-> Factor, covers |-> p.covers]
           k == Commanded(ov)
           swept == Sweep(heap, k)
<1>1. /\ overrides' = k.overrides /\ heap' = swept /\ pendingSeeds' = pendingSeeds
      /\ UNCHANGED <<profileVars, learnVars, spaMode, order, scorerDirty>>
  BY DEF ApplyOverride, takeVars, sweepVars, seedVars
<1>2. Pending(pendingSeeds') /\ Queue(heap, Knowledge, Open)
  BY <1>1 DEF RankInv, Ranked
<1> HIDE DEF ov
<1>3. Queue(swept, k, Open)
  <2>1. Queue(swept, k, FALSE)
    BY <1>2, SweepQueue
  <2>2. QED
    BY <2>1 DEF Queue
<1> HIDE DEF swept
<1>4. QED
  BY <1>1, <1>2, <1>3, RankedCommand

\* An exclusion changes no score.
LEMMA RankedExclude ==
  ASSUME RankInv, NEW p, ApplyExclude(p)
  PROVE  Ranked'
<1> DEFINE ov == [kind |-> "exclude", factor |-> 1, covers |-> p.covers]
           k == Commanded(ov)
           covered == {c \in Range(heap) : Id(c) \in p.covers}
           h == RemoveMatching(heap, covered)
<1>1. /\ overrides' = Append(overrides, ov) /\ heap' = h /\ pendingSeeds' = pendingSeeds
      /\ UNCHANGED <<profileVars, learnVars, spaMode, order, scorerDirty>>
  BY DEF ApplyExclude, takeVars, sweepVars, seedVars
<1>2. Pending(pendingSeeds') /\ Queue(heap, Knowledge, Open) /\ IsSeq(overrides)
  BY <1>1 DEF RankInv, Ranked
<1>3. ov.kind = "exclude"
  OBVIOUS
<1> HIDE DEF ov, covered
<1>4. Queue(h, Knowledge, Open)
  BY <1>2, ExcludeQueue
<1> HIDE DEF h
<1>5. k = [profile |-> profile, spa |-> spaMode, overrides |-> Append(overrides, ov),
           terms |-> hitTerms, trained |-> trained, protected |-> sawProtected,
           listed |-> sawIndexOf]
  BY DEF Commanded, Knowledge
<1> HIDE DEF k
<1>6. /\ k.profile = profile /\ k.spa = spaMode /\ k.overrides = Append(overrides, ov)
      /\ k.terms = hitTerms /\ k.trained = trained /\ k.protected = sawProtected
      /\ k.listed = sawIndexOf
  BY <1>5
<1>7. /\ Knowledge.profile = profile /\ Knowledge.spa = spaMode
      /\ Knowledge.overrides = overrides /\ Knowledge.terms = hitTerms
      /\ Knowledge.trained = trained /\ Knowledge.protected = sawProtected
      /\ Knowledge.listed = sawIndexOf
  BY DEF Knowledge
<1>8. ASSUME NEW c
      PROVE  scoreCandidate(c, k) = scoreCandidate(c, Knowledge)
  <2>1. overrideMultiplier(Id(c), k.overrides) = overrideMultiplier(Id(c), Knowledge.overrides)
    BY <1>2, <1>3, <1>6, <1>7, ExcludeScores
  <2>2. Boost(c, k) = Boost(c, Knowledge)
    BY <1>6, <1>7 DEF Boost
  <2>3. k.profile = Knowledge.profile /\ k.spa = Knowledge.spa
    BY <1>6, <1>7
  <2>4. QED
    BY <2>1, <2>2, <2>3 DEF scoreCandidate
<1>9. Queue(h, k, Open)
  BY <1>4, <1>8 DEF Queue, Current
<1>10. QED
  BY <1>1, <1>2, <1>6, <1>9, RankedCommand DEF k

\* Every step keeps the scores current.
LEMMA RankedStep ==
  ASSUME RankInv, [Next]_vars
  PROVE  Ranked'
<1>1. ASSUME NEW matching \in FrontPages, NEW named \in NmapPaths, ProfileAndSeed(matching, named)
      PROVE  Ranked'
  BY <1>1, RankedFirst
<1>2. CASE FinishCalibrationSub
  BY <1>2, RankedSub
<1>3. ASSUME NEW matching \in ErrorPages, NEW spa \in BOOLEAN, FinishCalibrationRoot(matching, spa)
      PROVE  Ranked'
  BY <1>3, RankedRoot
<1>4. CASE PopNext
  BY <1>4, RankedPop
<1>5. Queue(heap, Knowledge, Open) /\ Pending(pendingSeeds)
  BY DEF RankInv, Ranked
<1>6. ASSUME NEW c \in out, NEW opens \in BOOLEAN, Answered(c, opens)
      PROVE  Ranked'
  <2>1. heap' = heap /\ pendingSeeds' = pendingSeeds
        /\ UNCHANGED <<profileVars, learnVars, userVars, order, scorerDirty>>
    BY <1>6 DEF Answered, seedVars, sweepVars
  <2>2. QED
    BY <1>5, <2>1, RankedKept
<1>7. ASSUME NEW c \in out, NEW opens \in BOOLEAN, NEW what, LearnFromHit(c, what, opens)
      PROVE  Ranked'
  BY <1>7, RankedHit
<1>8. CASE Elapse
  <2>1. heap' = heap /\ pendingSeeds' = pendingSeeds
        /\ UNCHANGED <<profileVars, learnVars, userVars, order, scorerDirty>>
    BY <1>8 DEF Elapse, seedVars, heapVars, takeVars
  <2>2. QED
    BY <1>5, <2>1, RankedKept
<1>9. ASSUME NEW sd \in Seeds, Seed(sd)
      PROVE  Ranked'
  BY <1>9, RankedSeed
<1>10. ASSUME NEW p \in Patterns, ApplyPin(p)
       PROVE  Ranked'
  BY <1>10, RankedPin
<1>11. ASSUME NEW p \in Patterns, NEW kind, ApplyOverride(p, kind)
       PROVE  Ranked'
  BY <1>11, RankedOverride
<1>12. ASSUME NEW p \in Patterns, ApplyExclude(p)
       PROVE  Ranked'
  BY <1>12, RankedExclude
<1>13. CASE UNCHANGED vars
  <2>1. heap' = heap /\ pendingSeeds' = pendingSeeds
        /\ UNCHANGED <<profileVars, learnVars, userVars, order, scorerDirty>>
    BY <1>13 DEF vars, seedVars, heapVars, takeVars, sweepVars
  <2>2. QED
    BY <1>5, <2>1, RankedKept
<1>14. QED
  BY <1>1, <1>2, <1>3, <1>4, <1>6, <1>7, <1>8, <1>9, <1>10, <1>11, <1>12, <1>13 DEF Next

\* If every rule says of which category its technology is, no candidate waits with a
\* score that is behind what the scan knows, whatever the profile, the hits, the pivot,
\* the seeds and the commands, unless a sweep is due.
THEOREM ScoresStayCurrent == Spec => [](Categorised => ScoresCurrent)
<1>1. Init => RankInv
  <2>1. Init => Baseline
    BY RankingAssumption DEF Init, Baseline, ExtensionsCalibrated, Dir
  <2>2. QED
    BY <2>1, ProfileInit, RankedInit DEF RankInv
<1>2. RankInv /\ [Next]_vars => RankInv'
  BY StepBaseline, ProfileStep, RankedStep DEF RankInv
<1>3. RankInv => (Categorised => ScoresCurrent)
  <2> SUFFICES ASSUME RankInv, Categorised, ~scorerDirty, NEW i \in DOMAIN heap
               PROVE  \/ heap[i].score = scoreCandidate(heap[i], Knowledge)
                      \/ heap[i].nmap > 0 /\ heap[i].score = nmapSeedScore
    BY DEF ScoresCurrent
  <2>1. heap[i] \in Range(heap)
    BY DEF Range
  <2>2. Current(heap[i], Knowledge)
    BY <2>1 DEF RankInv, Ranked, Queue, Open
  <2>3. QED
    BY <2>2 DEF Current
<1>4. QED
  BY <1>1, <1>2, <1>3, PTL DEF Spec

-----------------------------------------------------------------------------
(* The order of the heap.                                                    *)

Scoring(E) == \A e \in E : e.score \in Int

\* From position lo on, no element of the first n is above one with a higher score.
Ordered(g, lo, n) == \A k \in 2..n : k \div 2 >= lo => g[k \div 2].score >= g[k].score

\* Ordered, but for the element at a position, which may have to move up ...
UpOrdered(g, at, n) ==
  /\ \A k \in 2..n : k # at => g[k \div 2].score >= g[k].score
  /\ at > 1 => \A k \in 2..n : k \div 2 = at => g[at \div 2].score >= g[k].score

\* ... or up or down ...
Around(g, at, lo, n) ==
  /\ \A k \in 2..n : k \div 2 >= lo /\ k \div 2 # at /\ k # at => g[k \div 2].score >= g[k].score
  /\ at \div 2 >= lo => \A k \in 2..n : k \div 2 = at => g[at \div 2].score >= g[k].score

\* ... or only down.
Below(g, at, lo) == at \div 2 >= lo => g[at \div 2].score >= g[at].score
Above(g, at, n) == \A k \in 2..n : k \div 2 = at => g[at].score >= g[k].score

\* The parent of a position.
LEMMA Halves ==
  \A k \in Nat : k >= 2 =>
    /\ k \div 2 \in Nat /\ 1 <= k \div 2 /\ k \div 2 < k
    /\ 2 * (k \div 2) <= k /\ k <= 2 * (k \div 2) + 1
OBVIOUS

\* Among the first n positions, i and j have exchanged their scores.
Exchanged(s, g, i, j, n) ==
  /\ s[i].score = g[j].score /\ s[j].score = g[i].score
  /\ \A q \in 1..n : q # i /\ q # j => s[q].score = g[q].score
  /\ \A q \in 1..n : g[q].score \in Int /\ s[q].score \in Int

\* That is what Swap does.
LEMMA SwapHas ==
  ASSUME NEW E, Scoring(E), NEW g \in Seq(E), NEW n \in Nat, n <= Len(g),
         NEW i \in 1..n, NEW j \in 1..n, NEW s, s = Swap(g, i, j)
  PROVE  Exchanged(s, g, i, j, n)
<1>1. Len(g) \in Nat
  BY LenProperties
<1>2. i \in 1..Len(g) /\ j \in 1..Len(g) /\ \A q \in 1..n : q \in 1..Len(g)
  BY <1>1
<1>3. /\ s \in Rearranged(g) /\ s[i] = g[j] /\ s[j] = g[i]
      /\ \A q \in 1..Len(g) : q # i /\ q # j => s[q] = g[q]
  BY <1>2, SwapRearranges
<1>4. s \in Seq(E) /\ Len(s) = Len(g)
  BY <1>3, RearrangedIsSeq DEF Rearranged
<1>5. \A q \in 1..Len(g) : g[q] \in E /\ s[q] \in E
  BY <1>4, ElementOfSeq
<1>6. \A q \in 1..n : g[q].score \in Int /\ s[q].score \in Int
  BY <1>2, <1>5 DEF Scoring
<1>7. QED
  BY <1>2, <1>3, <1>6 DEF Exchanged

\* An element in its place: the heap is ordered.
LEMMA UpEnds ==
  ASSUME NEW E, Scoring(E), NEW g \in Seq(E), NEW n \in Nat, n <= Len(g), NEW at \in 1..n,
         UpOrdered(g, at, n), at = 1 \/ ~Less(g, at, at \div 2)
  PROVE  Ordered(g, 1, n)
<1>1. Len(g) \in Nat /\ \A q \in 1..n : g[q].score \in Int
  BY LenProperties, ElementOfSeq DEF Scoring
<1>2. at # 1 => at \div 2 \in 1..n
  BY Halves
<1>3. at # 1 => g[at \div 2].score >= g[at].score
  BY <1>1, <1>2 DEF Less
<1>4. QED
  BY SMTT(30), <1>3 DEF Ordered, UpOrdered

\* One that moves up leaves order behind it.
LEMMA UpMoves ==
  ASSUME NEW E, Scoring(E), NEW g \in Seq(E), NEW n \in Nat, n <= Len(g), NEW at \in 2..n,
         UpOrdered(g, at, n), Less(g, at, at \div 2)
  PROVE  UpOrdered(Swap(g, at, at \div 2), at \div 2, n)
<1> DEFINE p == at \div 2
           f == Swap(g, at, p)
<1>0. Len(g) \in Nat
  BY LenProperties
<1>1. p \in Nat /\ 1 <= p /\ p < at /\ p \in 1..n /\ at \in 1..n
  BY Halves
<1>2. p \in 1..Len(g) /\ at \in 1..Len(g) /\ 1..n \subseteq 1..Len(g)
  BY <1>0, <1>1
<1> HIDE DEF f
<1>3. /\ f[at].score = g[p].score /\ f[p].score = g[at].score
      /\ \A q \in 1..n : q # at /\ q # p => f[q].score = g[q].score
      /\ \A q \in 1..n : g[q].score \in Int /\ f[q].score \in Int
  <2>1. f = Swap(g, at, p) /\ p \in 1..n /\ at \in 1..n
    BY <1>1 DEF f
  <2> HIDE DEF p
  <2>2. Exchanged(f, g, at, p, n)
    BY <2>1, SwapHas
  <2>3. QED
    BY <2>2 DEF Exchanged
<1>4. g[at].score > g[p].score
  BY DEF Less
<1>5. \A k \in 2..n : k # at => g[k \div 2].score >= g[k].score
  BY DEF UpOrdered
<1>6. \A k \in 2..n : k \div 2 = at => g[p].score >= g[k].score
  BY DEF UpOrdered
<1>h. \A k \in 2..n : k \in 1..n /\ k \div 2 \in 1..n /\ k \div 2 # k
  BY Halves
<1> HIDE DEF p
<1>7. ASSUME NEW k \in 2..n, k # p PROVE f[k \div 2].score >= f[k].score
  <2> DEFINE m == k \div 2
  <2>0. m \in 1..n /\ m # k /\ k \in 1..n
    BY <1>h
  <2>1. CASE k = at
    BY <1>1, <1>3, <1>4, <2>1 DEF p
  <2>2. CASE k # at
    <3>1. g[m].score >= g[k].score /\ (m = at => g[p].score >= g[k].score) /\ f[k].score = g[k].score
      BY <1>3, <1>5, <1>6, <1>7, <2>0, <2>2
    <3> HIDE DEF m
    <3>2. f[m].score >= f[k].score
      <4>1. CASE m = at
        BY <1>3, <3>1, <4>1
      <4>2. CASE m = p
        <5>1. f[m].score = g[at].score /\ g[p].score >= g[k].score
          BY <1>3, <3>1, <4>2
        <5>2. /\ f[m].score \in Int /\ g[p].score \in Int /\ g[k].score \in Int
              /\ f[m].score > g[p].score
          BY <1>1, <1>3, <1>4, <2>0, <5>1
        <5>3. QED
          BY SMTT(30), <3>1, <5>1, <5>2
      <4>3. CASE m # at /\ m # p
        BY <1>3, <2>0, <3>1, <4>3
      <4>4. QED
        BY <4>1, <4>2, <4>3
    <3>3. QED
      BY <3>2 DEF m
  <2>3. QED
    BY <2>1, <2>2
<1>8. ASSUME NEW k \in 2..n, k \div 2 = p, p > 1 PROVE f[p \div 2].score >= f[k].score
  <2> DEFINE m == p \div 2
  <2>0. m \in 1..n /\ m # p /\ k \in 1..n /\ k # p /\ p \in 2..n /\ m < p
    BY <1>1, <1>8, <1>h, Halves
  <2>1. g[m].score >= g[p].score /\ (k # at => g[p].score >= g[k].score)
    BY SMTT(30), <1>1, <1>5, <1>8, <2>0
  <2> HIDE DEF m
  <2>2. f[m].score >= f[k].score
    BY SMTT(30), <1>1, <1>3, <2>0, <2>1
  <2>3. QED
    BY <2>2 DEF m
<1>9. QED
  BY <1>7, <1>8 DEF UpOrdered, f, p

\* up restores the order.
LEMMA UpOrders ==
  ASSUME NEW E, Scoring(E), NEW h \in Seq(E), NEW n \in Nat, n <= Len(h), NEW j \in 1..n,
         UpOrdered(h, j, n)
  PROVE  Ordered(up(h, j), 1, n)
<1>0. Len(h) \in Nat /\ j \in 1..Len(h) /\ j \in Nat
  BY LenProperties
<1>1. PICK f : upRun(f, h, j)
  BY <1>0, upRuns
<1>2. /\ f \in [0..j -> Sifts(h, j)] /\ f[0] = [heap |-> h, at |-> j] /\ up(h, j) = f[j].heap
  BY <1>1 DEF upRun
<1>3. \A k \in 1..j : f[k] = siftUp(f[k - 1])
  BY <1>1 DEF upRun
<1>4. ASSUME NEW k \in 0..j
      PROVE  f[k].heap \in Seq(E) /\ Len(f[k].heap) = Len(h) /\ f[k].at \in 1..n /\ f[k].at \in Nat
  <2>1. f[k].heap \in Rearranged(h) /\ f[k].at \in 1..j
    BY <1>2 DEF Sifts
  <2>2. f[k].heap \in Seq(E)
    BY <2>1, RearrangedIsSeq
  <2>3. QED
    BY <1>0, <2>1, <2>2 DEF Rearranged
<1> DEFINE Done(s) == UpOrdered(s.heap, s.at, n) /\ Ordered(s.heap, 1, n)
           Moving(s, k) == UpOrdered(s.heap, s.at, n) /\ s.at + k <= j
           T == {k \in 0..j : Done(f[k]) \/ Moving(f[k], k)}
<1>5. 0 \in T
  <2>1. f[0].heap = h /\ f[0].at = j
    BY <1>2
  <2>2. QED
    BY <1>0, <2>1
<1>6. ASSUME NEW k \in 1..j, k - 1 \in T PROVE k \in T
  <2> DEFINE s == f[k - 1]
             g == s.heap
             at == s.at
  <2>1. k - 1 \in 0..j /\ k \in 0..j /\ (Done(s) \/ Moving(s, k - 1))
    BY <1>0, <1>6
  <2>2. g \in Seq(E) /\ Len(g) = Len(h) /\ at \in 1..n /\ at \in Nat
    BY <1>4, <2>1
  <2>3. f[k] = siftUp(s)
    BY <1>3
  <2>u. UpOrdered(g, at, n)
    BY <2>1
  <2> HIDE DEF g, at
  <2>4. CASE at = 1 \/ ~Less(g, at, at \div 2)
    <3>1. f[k] = s
      BY <2>3, <2>4 DEF siftUp, g, at
    <3>2. Ordered(g, 1, n)
      BY <2>2, <2>4, <2>u, UpEnds
    <3>3. Done(f[k])
      BY <2>u, <3>1, <3>2 DEF g, at
    <3>4. QED
      BY <2>1, <3>3
  <2>5. CASE at # 1 /\ Less(g, at, at \div 2)
    <3>1. f[k] = [heap |-> Swap(g, at, at \div 2), at |-> at \div 2]
      BY <2>3, <2>5 DEF siftUp, g, at
    <3>2. at \in 2..n
      BY <2>2, <2>5
    <3>3. UpOrdered(Swap(g, at, at \div 2), at \div 2, n)
      BY <2>2, <2>5, <2>u, <3>2, UpMoves
    <3>4. ~Ordered(g, 1, n)
      <4>1. at \div 2 \in 1..n /\ at \in 1..n
        BY <3>2, Halves
      <4>2. g[at].score \in Int /\ g[at \div 2].score \in Int
        BY <1>0, <2>2, <4>1, ElementOfSeq DEF Scoring
      <4>3. QED
        BY <2>5, <3>2, <4>1, <4>2 DEF Ordered, Less
    <3>5. at + (k - 1) <= j
      BY <2>1, <3>4 DEF g, at
    <3>6. at \div 2 + k <= j
      BY <1>0, <2>2, <3>2, <3>5, Halves
    <3>7. Moving(f[k], k)
      BY <3>1, <3>3, <3>6
    <3>8. QED
      BY <2>1, <3>7
  <2>6. QED
    BY <2>4, <2>5
<1>7. 0..j \subseteq T
  <2> HIDE DEF T
  <2> QED BY <1>0, <1>5, <1>6, Upto
<1>8. j \in 0..j /\ j \in T
  BY <1>0, <1>7
<1>9. ~(f[j].at + j <= j)
  BY <1>0, <1>4, <1>8
<1>10. QED
  BY <1>2, <1>8, <1>9

\* The child that down compares with is the better one.
LEMMA ChildBest ==
  ASSUME NEW E, Scoring(E), NEW g \in Seq(E), NEW n \in Nat, n <= Len(g), NEW at \in 1..n,
         2 * at <= n
  PROVE  /\ Child(g, at, n) \in 2..n /\ Child(g, at, n) \div 2 = at /\ Child(g, at, n) > at
         /\ \A k \in 2..n : k \div 2 = at => g[Child(g, at, n)].score >= g[k].score
<1>1. Len(g) \in Nat /\ \A q \in 1..n : g[q].score \in Int
  BY LenProperties, ElementOfSeq DEF Scoring
<1>2. \A k \in 2..n : k \div 2 = at => k = 2 * at \/ k = 2 * at + 1
  BY Halves
<1>3. (2 * at) \div 2 = at /\ (2 * at + 1) \div 2 = at
  OBVIOUS
<1>4. CASE 2 * at + 1 <= n /\ Less(g, 2 * at + 1, 2 * at)
  <2>1. Child(g, at, n) = 2 * at + 1
    BY <1>4 DEF Child
  <2>2. g[2 * at + 1].score >= g[2 * at].score /\ g[2 * at + 1].score >= g[2 * at + 1].score
    BY <1>1, <1>4 DEF Less
  <2>3. QED
    BY SMTT(30), <1>2, <1>3, <1>4, <2>1, <2>2
<1>5. CASE ~(2 * at + 1 <= n /\ Less(g, 2 * at + 1, 2 * at))
  <2>1. Child(g, at, n) = 2 * at
    BY <1>5 DEF Child
  <2>2. /\ g[2 * at].score >= g[2 * at].score
        /\ 2 * at + 1 <= n => g[2 * at].score >= g[2 * at + 1].score
    BY <1>1, <1>5 DEF Less
  <2>3. QED
    BY SMTT(30), <1>2, <1>3, <2>1, <2>2
<1>6. QED
  BY <1>4, <1>5

\* An element that stays is above its children.
LEMMA DownEnds ==
  ASSUME NEW E, Scoring(E), NEW g \in Seq(E), NEW n \in Nat, n <= Len(g), NEW at \in 1..n,
         2 * at > n \/ ~Less(g, Child(g, at, n), at)
  PROVE  Above(g, at, n)
<1>1. Len(g) \in Nat /\ \A q \in 1..n : g[q].score \in Int
  BY LenProperties, ElementOfSeq DEF Scoring
<1>2. CASE 2 * at > n
  <2>1. \A k \in 2..n : k \div 2 # at
    BY <1>2, Halves
  <2>2. QED
    BY <2>1 DEF Above
<1>3. CASE 2 * at <= n
  <2> DEFINE c == Child(g, at, n)
  <2>1. c \in 2..n /\ \A k \in 2..n : k \div 2 = at => g[c].score >= g[k].score
    BY <1>3, ChildBest
  <2>2. ~Less(g, c, at)
    BY <1>3
  <2> HIDE DEF c
  <2>3. g[at].score >= g[c].score
    BY <1>1, <2>1, <2>2 DEF Less
  <2>4. QED
    BY SMTT(30), <1>1, <2>1, <2>3 DEF Above
<1>4. QED
  BY <1>2, <1>3

\* One in its place: the heap is ordered.
LEMMA AroundOrdered ==
  ASSUME NEW g, NEW n \in Nat, NEW at \in 1..n, NEW lo,
         Around(g, at, lo, n), Above(g, at, n), Below(g, at, lo)
  PROVE  Ordered(g, lo, n)
BY DEF Ordered, Around, Above, Below

\* One that moves down leaves order behind it.
LEMMA DownMoves ==
  ASSUME NEW E, Scoring(E), NEW g \in Seq(E), NEW n \in Nat, n <= Len(g), NEW at \in 1..n,
         2 * at <= n, NEW lo \in Nat, 1 <= lo, lo <= at, Around(g, at, lo, n),
         Less(g, Child(g, at, n), at)
  PROVE  /\ Around(Swap(g, at, Child(g, at, n)), Child(g, at, n), lo, n)
         /\ Below(Swap(g, at, Child(g, at, n)), Child(g, at, n), lo)
<1> DEFINE c == Child(g, at, n)
           f == Swap(g, at, c)
<1>0. Len(g) \in Nat
  BY LenProperties
<1>1. c \in 2..n /\ c \div 2 = at /\ c > at /\ \A k \in 2..n : k \div 2 = at => g[c].score >= g[k].score
  BY ChildBest
<1>2. c \in 1..Len(g) /\ at \in 1..Len(g) /\ 1..n \subseteq 1..Len(g)
  BY <1>0, <1>1
<1>4. Less(g, c, at)
  OBVIOUS
<1> HIDE DEF f, c
<1>3. /\ f[at].score = g[c].score /\ f[c].score = g[at].score
      /\ \A q \in 1..n : q # at /\ q # c => f[q].score = g[q].score
      /\ \A q \in 1..n : g[q].score \in Int /\ f[q].score \in Int
  <2>1. f = Swap(g, at, c) /\ c \in 1..n
    BY <1>1 DEF f
  <2>2. Exchanged(f, g, at, c, n)
    BY <2>1, SwapHas
  <2>3. QED
    BY <2>2 DEF Exchanged
<1>5. g[c].score > g[at].score
  BY <1>4 DEF Less
<1>6. /\ \A k \in 2..n : k \div 2 >= lo /\ k \div 2 # at /\ k # at => g[k \div 2].score >= g[k].score
      /\ at \div 2 >= lo => g[at \div 2].score >= g[c].score
  BY <1>1 DEF Around
<1>h. \A k \in 2..n : k \in 1..n /\ k \div 2 \in 1..n /\ k \div 2 < k
  BY Halves
<1>7. ASSUME NEW k \in 2..n, k \div 2 >= lo, k \div 2 # c, k # c
      PROVE  f[k \div 2].score >= f[k].score
  <2> DEFINE m == k \div 2
  <2>0. m \in 1..n /\ m < k /\ k \in 1..n /\ m >= lo /\ m # c
    BY <1>7, <1>h
  <2>1. CASE m = at
    <3>1. f[k].score = g[k].score /\ g[c].score >= g[k].score
      BY SMTT(30), <1>1, <1>3, <1>7, <2>0, <2>1
    <3>2. QED
      BY <1>3, <2>1, <3>1
  <2>2. CASE m # at /\ k = at
    <3>1. g[m].score >= g[c].score /\ f[m].score = g[m].score
      BY <1>3, <1>6, <2>0, <2>2
    <3>2. QED
      BY <1>3, <2>2, <3>1
  <2>3. CASE m # at /\ k # at
    <3>1. g[m].score >= g[k].score /\ f[m].score = g[m].score /\ f[k].score = g[k].score
      BY <1>3, <1>6, <1>7, <2>0, <2>3
    <3>2. QED
      BY <3>1
  <2>4. QED
    BY <2>1, <2>2, <2>3
<1>8. ASSUME NEW k \in 2..n, k \div 2 = c PROVE f[at].score >= f[k].score
  <2>1. k \in 1..n /\ k # at /\ k # c /\ k \div 2 >= lo /\ k \div 2 # at
    BY SMTT(30), <1>1, <1>8, <1>h
  <2>2. g[c].score >= g[k].score
    BY <1>6, <1>8, <2>1
  <2>3. QED
    BY <1>3, <2>1, <2>2
<1>9. f[at].score >= f[c].score
  BY <1>1, <1>3, <1>5
<1>10. Around(f, c, lo, n) /\ Below(f, c, lo)
  BY <1>1, <1>7, <1>8, <1>9 DEF Around, Below
<1>11. QED
  BY <1>10 DEF f, c

\* down restores the order, or finds that the element does not belong lower.
LEMMA DownOrders ==
  ASSUME NEW E, Scoring(E), NEW h \in Seq(E), NEW n \in Nat, n <= Len(h), NEW i \in 1..n,
         NEW lo \in Nat, 1 <= lo, lo <= i, Around(h, i, lo, n)
  PROVE  Ordered(down(h, i, n), lo, n) \/ (down(h, i, n) = h /\ Above(h, i, n))
<1>0. Len(h) \in Nat /\ n \in 1..Len(h) /\ i \in Nat
  BY LenProperties
<1>1. PICK f : downRun(f, h, i, n)
  BY <1>0, downRuns
<1>2. /\ f \in [0..n -> Sifts(h, n)] /\ f[0] = [heap |-> h, at |-> i] /\ down(h, i, n) = f[n].heap
  BY <1>1 DEF downRun
<1>3. \A k \in 1..n : f[k] = siftDown(f[k - 1], n)
  BY <1>1 DEF downRun
<1>4. ASSUME NEW k \in 0..n
      PROVE  f[k].heap \in Seq(E) /\ Len(f[k].heap) = Len(h) /\ f[k].at \in 1..n /\ f[k].at \in Nat
  <2>1. f[k].heap \in Rearranged(h) /\ f[k].at \in 1..n
    BY <1>2 DEF Sifts
  <2>2. f[k].heap \in Seq(E)
    BY <2>1, RearrangedIsSeq
  <2>3. QED
    BY <1>0, <2>1, <2>2 DEF Rearranged
<1> DEFINE Still(s, k) == s.heap = h /\ s.at = i /\ (k > 0 => Above(h, i, n))
           Moving(s, k) == Around(s.heap, s.at, lo, n) /\ Below(s.heap, s.at, lo) /\ s.at >= i + k
           Done(s) == Around(s.heap, s.at, lo, n) /\ Below(s.heap, s.at, lo) /\ Above(s.heap, s.at, n) /\ s.at >= i
           T == {k \in 0..n : Still(f[k], k) \/ Moving(f[k], k) \/ Done(f[k])}
<1>5. 0 \in T
  BY <1>0, <1>2
<1>6. ASSUME NEW k \in 1..n, k - 1 \in T PROVE k \in T
  <2> DEFINE s == f[k - 1]
             g == s.heap
             at == s.at
             c == Child(g, at, n)
  <2>1. k - 1 \in 0..n /\ k \in 0..n /\ (Still(s, k - 1) \/ Moving(s, k - 1) \/ Done(s))
    BY <1>0, <1>6
  <2>2. g \in Seq(E) /\ Len(g) = Len(h) /\ at \in 1..n /\ at \in Nat
    BY <1>4, <2>1
  <2>3. f[k] = siftDown(s, n)
    BY <1>3
  <2>4. Around(g, at, lo, n) /\ at >= i
    <3>1. CASE Still(s, k - 1)
      BY <1>0, <3>1
    <3>2. CASE Moving(s, k - 1)
      BY SMTT(30), <1>0, <2>1, <2>2, <3>2
    <3>3. CASE Done(s)
      BY <3>3
    <3>4. QED
      BY <2>1, <3>1, <3>2, <3>3
  <2> HIDE DEF g, at, c
  <2>5. CASE 2 * at > n \/ ~Less(g, c, at)
    <3>1. f[k] = s
      BY <2>3, <2>5 DEF siftDown, g, at, c
    <3>2. Above(g, at, n)
      BY <2>2, <2>5, DownEnds DEF c
    <3>3. Still(f[k], k) \/ Done(f[k])
      BY <2>1, <2>4, <3>1, <3>2 DEF g, at
    <3>4. QED
      BY <2>1, <3>3
  <2>6. CASE 2 * at <= n /\ Less(g, c, at)
    <3>1. f[k] = [heap |-> Swap(g, at, c), at |-> c]
      BY <2>2, <2>6, <2>3 DEF siftDown, g, at, c
    <3>2. Around(Swap(g, at, c), c, lo, n) /\ Below(Swap(g, at, c), c, lo)
      BY <1>0, <2>2, <2>4, <2>6, DownMoves DEF c
    <3>3. c \in 2..n /\ c \div 2 = at /\ c > at
      BY <2>2, <2>6, ChildBest DEF c
    <3>4. ~Above(g, at, n)
      <4>1. g[at].score \in Int /\ g[c].score \in Int
        BY <1>0, <2>2, <3>3, ElementOfSeq DEF Scoring
      <4>2. QED
        BY SMTT(30), <2>6, <3>3, <4>1 DEF Above, Less
    <3>5. at >= i + (k - 1)
      <4>1. CASE Still(s, k - 1)
        <5>1. ~(k - 1 > 0)
          BY <3>4, <4>1 DEF g, at
        <5>2. k = 1
          BY <1>0, <2>1, <5>1
        <5>3. QED
          BY <1>0, <2>4, <2>2, <5>2
      <4>2. CASE Moving(s, k - 1)
        BY <4>2 DEF at
      <4>3. CASE Done(s)
        BY <3>4, <4>3 DEF g, at
      <4>4. QED
        BY <2>1, <4>1, <4>2, <4>3
    <3>6. c >= i + k
      BY <1>0, <2>2, <3>3, <3>5
    <3>7. Moving(f[k], k)
      BY <3>1, <3>2, <3>6
    <3>8. QED
      BY <2>1, <3>7
  <2>7. QED
    BY <2>2, <2>5, <2>6
<1>7. 0..n \subseteq T
  <2> HIDE DEF T
  <2> QED BY <1>0, <1>5, <1>6, Upto
<1>8. n \in 0..n /\ n \in T
  BY <1>0, <1>7
<1>9. ~Moving(f[n], n)
  BY <1>0, <1>4, <1>8
<1>10. CASE Still(f[n], n)
  BY <1>0, <1>2, <1>10
<1>11. CASE Done(f[n])
  <2> DEFINE g == f[n].heap
             at == f[n].at
  <2>1. at \in 1..n /\ Around(g, at, lo, n) /\ Above(g, at, n) /\ Below(g, at, lo)
    BY <1>4, <1>8, <1>11
  <2> HIDE DEF g, at
  <2>2. Ordered(g, lo, n)
    BY <2>1, AroundOrdered
  <2>3. QED
    BY <1>2, <2>2 DEF g
<1>12. QED
  BY <1>8, <1>9, <1>10, <1>11

\* Fix and Remove restore the order around a position.
LEMMA SettleOrders ==
  ASSUME NEW E, Scoring(E), NEW h \in Seq(E), NEW n \in Nat, n <= Len(h), NEW i \in 1..n,
         Around(h, i, 1, n)
  PROVE  Ordered(Settle(h, i, n), 1, n)
<1> DEFINE g == down(h, i, n)
<1>1. Ordered(g, 1, n) \/ (g = h /\ Above(h, i, n))
  BY DownOrders
<1> HIDE DEF g
<1>2. CASE g # h
  BY <1>1, <1>2 DEF Settle, g
<1>3. CASE g = h
  <2>1. Settle(h, i, n) = up(h, i)
    BY <1>3 DEF Settle, g
  <2>2. UpOrdered(h, i, n)
    <3>h. /\ \A k \in 2..n : k \div 2 >= 1
          /\ i > 1 => i \div 2 >= 1
      BY Halves
    <3>1. CASE Above(h, i, n)
      BY <3>h, <3>1 DEF Around, Above, UpOrdered
    <3>2. CASE Ordered(h, 1, n)
      BY <3>2, <3>h DEF Ordered, UpOrdered, Around
    <3>3. QED
      BY <1>1, <1>3, <3>1, <3>2
  <2>3. QED
    BY <2>1, <2>2, UpOrders
<1>4. QED
  BY <1>2, <1>3

Heap(h) == Ordered(h, 1, Len(h))

\* Parents are in the heap.
LEMMA HeapEdge ==
  ASSUME NEW E, NEW h \in Seq(E), Heap(h), NEW k \in 2..Len(h)
  PROVE  /\ k \in 1..Len(h) /\ k \div 2 \in 1..Len(h) /\ k \div 2 < k
         /\ h[k \div 2].score >= h[k].score
<1>1. Len(h) \in Nat
  BY LenProperties
<1>2. k \div 2 >= 1 /\ k \div 2 < k /\ k \div 2 \in Nat
  BY <1>1, Halves
<1>3. QED
  BY <1>1, <1>2 DEF Heap, Ordered

\* heap.Push keeps the order.
LEMMA PushOrders ==
  ASSUME NEW E, Scoring(E), NEW h \in Seq(E), NEW c \in E, Heap(h)
  PROVE  Heap(heapPush(h, c))
<1> DEFINE g == Append(h, c)
           n == Len(h) + 1
<1>1. /\ g \in Seq(E) /\ Len(g) = n /\ Len(h) \in Nat
      /\ g[n] = c /\ \A i \in 1..Len(h) : g[i] = h[i]
  BY AppendProperties, LenProperties
<1>2. heapPush(h, c) = up(g, n)
  BY DEF heapPush
<1> HIDE DEF g
<1>3. UpOrdered(g, n, n)
  <2>1. \A k \in 2..n : k # n => g[k \div 2].score >= g[k].score
    <3> SUFFICES ASSUME NEW k \in 2..n, k # n PROVE g[k \div 2].score >= g[k].score
      OBVIOUS
    <3>1. k \in 2..Len(h)
      BY <1>1
    <3>2. k \in 1..Len(h) /\ k \div 2 \in 1..Len(h) /\ h[k \div 2].score >= h[k].score
      BY <3>1, HeapEdge
    <3>3. QED
      BY <1>1, <3>2
  <2>2. \A k \in 2..n : k \div 2 # n
    BY <1>1, Halves
  <2>3. QED
    BY <2>1, <2>2 DEF UpOrdered
<1>4. n \in Nat /\ n <= Len(g) /\ n \in 1..n
  BY <1>1
<1> HIDE DEF n
<1>5. Ordered(up(g, n), 1, n)
  BY <1>1, <1>3, <1>4, UpOrders
<1>6. Len(heapPush(h, c)) = n
  BY PushAdds DEF n
<1>7. QED
  BY <1>2, <1>5, <1>6 DEF Heap

\* heap.Fix, after one element was replaced.
LEMMA FixOrders ==
  ASSUME NEW E, Scoring(E), NEW h \in Seq(E), Heap(h), NEW g \in Seq(E), Len(g) = Len(h),
         NEW i \in 1..Len(h), \A q \in 1..Len(h) : q # i => g[q] = h[q]
  PROVE  Heap(heapFix(g, i))
<1> DEFINE n == Len(h)
<1>0. n \in Nat /\ n \in 1..Len(g) /\ i \in 1..n /\ i \in Nat
  BY LenProperties
<1>1. \A q \in 1..n : g[q].score \in Int /\ h[q].score \in Int
  BY <1>0, ElementOfSeq DEF Scoring
<1>2. Around(g, i, 1, n)
  <2>1. \A k \in 2..n : k \div 2 # i /\ k # i => g[k \div 2].score >= g[k].score
    <3> SUFFICES ASSUME NEW k \in 2..n, k \div 2 # i, k # i PROVE g[k \div 2].score >= g[k].score
      OBVIOUS
    <3>1. k \in 1..n /\ k \div 2 \in 1..n /\ h[k \div 2].score >= h[k].score
      BY HeapEdge
    <3>2. QED
      BY <3>1
  <2>2. ASSUME i \div 2 >= 1, NEW k \in 2..n, k \div 2 = i PROVE g[i \div 2].score >= g[k].score
    <3>1. i \in 2..n
      BY <1>0, <2>2
    <3>2. i \div 2 \in 1..n /\ i \div 2 # i /\ h[i \div 2].score >= h[i].score
      BY <3>1, HeapEdge
    <3>3. k \in 1..n /\ k # i /\ h[i].score >= h[k].score
      BY SMTT(30), <2>2, HeapEdge
    <3>4. QED
      BY SMTT(30), <1>1, <3>2, <3>3
  <2>3. QED
    BY <2>1, <2>2 DEF Around
<1>3. Ordered(Settle(g, i, n), 1, n)
  <2> HIDE DEF n
  <2>1. n <= Len(g)
    BY <1>0
  <2>2. QED
    BY <1>0, <1>2, <2>1, SettleOrders
<1>4. heapFix(g, i) = Settle(g, i, n)
  BY DEF heapFix
<1>5. Settle(g, i, n) \in Rearranged(g)
  BY <1>0, SettleRearranges
<1>6. Len(heapFix(g, i)) = n
  BY <1>4, <1>5 DEF Rearranged
<1>7. QED
  BY <1>3, <1>4, <1>6 DEF Heap

\* heap.Remove and heap.Pop keep the order.
LEMMA RemoveOrders ==
  ASSUME NEW E, Scoring(E), NEW h \in Seq(E), Heap(h), NEW i \in 1..Len(h)
  PROVE  Heap(heapRemove(h, i))
<1> DEFINE n == Len(h)
           m == n - 1
           s == Swap(h, i, n)
           g == IF i = n THEN h ELSE Settle(s, i, m)
<1>1. n \in Nat /\ n \in 1..n /\ n >= 1 /\ i \in 1..n /\ m \in Nat
  BY LenProperties
<1>2. g \in Seq(E) /\ Len(g) = n /\ Ordered(g, 1, m)
  <2>1. CASE i = n
    <3>1. Ordered(h, 1, n)
      BY DEF Heap
    <3>2. Ordered(h, 1, m)
      BY <1>1, <3>1 DEF Ordered
    <3>3. QED
      BY <2>1, <3>2
  <2>2. CASE i # n
    <3>1. /\ s \in Rearranged(h) /\ s[i] = h[n] /\ s[n] = h[i]
          /\ \A q \in 1..n : q # i /\ q # n => s[q] = h[q]
      BY <1>1, SwapRearranges
    <3>2. s \in Seq(E) /\ Len(s) = n
      BY <3>1, RearrangedIsSeq DEF Rearranged
    <3>3. m \in 1..n /\ i \in 1..m /\ m <= n /\ i \in Nat
      BY <1>1, <2>2
    <3> HIDE DEF s
    <3>4. \A q \in 1..n : s[q].score \in Int /\ h[q].score \in Int
      BY <3>2, ElementOfSeq DEF Scoring
    <3>5. \A q \in 1..m : q \in 1..n /\ (q # i => s[q] = h[q])
      BY <1>1, <3>1
    <3>6. \A k \in 2..m : k \in 1..m /\ k \div 2 \in 1..m /\ k \div 2 < k /\ h[k \div 2].score >= h[k].score
      <4> SUFFICES ASSUME NEW k \in 2..m
                   PROVE  k \in 1..m /\ k \div 2 \in 1..m /\ k \div 2 < k /\ h[k \div 2].score >= h[k].score
        OBVIOUS
      <4>1. k \in 2..n
        BY <1>1
      <4>2. k \div 2 \in 1..n /\ k \div 2 < k /\ h[k \div 2].score >= h[k].score
        BY <4>1, HeapEdge
      <4>3. QED
        BY <1>1, <4>1, <4>2
    <3> HIDE DEF n, m
    <3>7. Around(s, i, 1, m)
      <4>1. \A k \in 2..m : k \div 2 # i /\ k # i => s[k \div 2].score >= s[k].score
        BY <3>5, <3>6
      <4>2. ASSUME i \div 2 >= 1, NEW k \in 2..m, k \div 2 = i PROVE s[i \div 2].score >= s[k].score
        <5>1. i \in 2..m
          BY <3>3, <4>2
        <5>2. i \div 2 \in 1..m /\ i \div 2 # i /\ h[i \div 2].score >= h[i].score
          BY <1>1, <3>3, <3>6, <5>1
        <5>3. k \in 1..m /\ k # i /\ h[i].score >= h[k].score
          BY SMTT(30), <3>6, <4>2
        <5>4. QED
          BY SMTT(30), <3>3, <3>4, <3>5, <5>2, <5>3
      <4>3. QED
        BY <4>1, <4>2 DEF Around
    <3>8. Ordered(Settle(s, i, m), 1, m)
      BY <1>1, <3>2, <3>3, <3>7, SettleOrders
    <3>9. Settle(s, i, m) \in Rearranged(s) /\ Settle(s, i, m) \in Seq(E)
      BY <3>2, <3>3, SettleRearranges, RearrangedIsSeq
    <3>10. QED
      BY <2>2, <3>2, <3>8, <3>9 DEF Rearranged
  <2>3. QED
    BY <2>1, <2>2
<1>3. heapRemove(h, i) = SubSeq(g, 1, m)
  BY DEF heapRemove
<1> HIDE DEF g, n, m
<1>4. m = n - 1
  BY DEF m
<1>5. /\ Len(SubSeq(g, 1, m)) = m /\ \A q \in 1..m : SubSeq(g, 1, m)[q] = g[q]
  BY <1>1, <1>2, <1>4, SubSeqProperties
<1>6. \A k \in 2..m : k \in 1..m /\ k \div 2 \in 1..m
  BY <1>1, Halves
<1>7. QED
  BY <1>2, <1>3, <1>5, <1>6 DEF Heap, Ordered

\* heap.Init orders any slice.
LEMMA InitOrders ==
  ASSUME NEW E, Scoring(E), NEW h \in Seq(E)
  PROVE  Heap(heapInit(h))
<1> DEFINE n == Len(h)
           r == n \div 2
<1>0. n \in Nat /\ r \in Nat /\ r <= n /\ \A k \in 2..n : k \div 2 <= r /\ k \div 2 >= 1
  BY LenProperties, Halves
<1>1. PICK f : heapInitRun(f, h)
  BY heapInitRuns
<1>2. f \in [0..r -> Rearranged(h)] /\ f[0] = h /\ heapInit(h) = f[r]
  BY <1>1 DEF heapInitRun
<1>3. \A k \in 1..r : f[k] = down(f[k - 1], r + 1 - k, n)
  BY <1>1 DEF heapInitRun
<1>4. \A k \in 0..r : f[k] \in Seq(E) /\ Len(f[k]) = n
  BY <1>2, RearrangedIsSeq DEF Rearranged
<1> HIDE DEF r, n
<1> DEFINE T == {k \in 0..r : Ordered(f[k], r + 1 - k, n)}
<1>5. 0 \in T
  BY <1>0, <1>2 DEF Ordered
<1>6. ASSUME NEW k \in 1..r, k - 1 \in T PROVE k \in T
  <2> DEFINE g == f[k - 1]
             lo == r + 1 - k
  <2>1. /\ k - 1 \in 0..r /\ k \in 0..r /\ lo \in Nat /\ 1 <= lo /\ lo \in 1..n /\ lo <= lo
        /\ r + 1 - (k - 1) = lo + 1
    BY <1>0
  <2>2. g \in Seq(E) /\ Len(g) = n /\ n <= Len(g)
    BY <1>0, <1>4, <2>1
  <2>3. Ordered(g, lo + 1, n)
    BY <1>6, <2>1
  <2>4. f[k] = down(g, lo, n)
    BY <1>3
  <2> HIDE DEF g, lo
  <2>5. ~(lo \div 2 >= lo)
    BY <2>1
  <2>6. Around(g, lo, lo, n) /\ Below(g, lo, lo)
    <3>1. \A q \in 2..n : q \div 2 >= lo /\ q \div 2 # lo => q \div 2 >= lo + 1
      BY <1>0, <2>1
    <3>2. QED
      BY <2>3, <2>5, <3>1 DEF Around, Below, Ordered
  <2>7. Ordered(down(g, lo, n), lo, n) \/ (down(g, lo, n) = g /\ Above(g, lo, n))
    BY <1>0, <2>1, <2>2, <2>6, DownOrders
  <2>8. Ordered(f[k], lo, n)
    BY <1>0, <2>1, <2>4, <2>6, <2>7, AroundOrdered
  <2>9. QED
    BY <2>1, <2>8 DEF lo
<1>7. 0..r \subseteq T
  <2> HIDE DEF T
  <2> QED BY <1>0, <1>5, <1>6, Upto
<1>8. r \in 0..r /\ r + 1 - r = 1
  BY <1>0
<1>9. Ordered(f[r], 1, n) /\ Len(f[r]) = n
  BY <1>4, <1>7, <1>8
<1>10. QED
  BY <1>2, <1>9 DEF Heap

\* Pushing a list keeps the order.
LEMMA PushAllOrders ==
  ASSUME NEW E, Scoring(E), NEW h \in Seq(E), Heap(h), NEW cands \in Seq(E)
  PROVE  Heap(PushAll(h, cands))
<1>1. PICK f : PushAllRun(f, h, cands, E)
  BY PushAllRuns
<1>2. /\ f \in [0..Len(cands) -> Seq(E)] /\ f[0] = h /\ PushAll(h, cands) = f[Len(cands)]
      /\ Len(cands) \in Nat
  BY <1>1, LenProperties DEF PushAllRun
<1>3. \A k \in 1..Len(cands) : f[k] = heapPush(f[k - 1], cands[k])
  BY <1>1 DEF PushAllRun
<1> DEFINE T == {k \in 0..Len(cands) : Heap(f[k])}
<1>4. 0 \in T
  BY <1>2
<1>5. ASSUME NEW k \in 1..Len(cands), k - 1 \in T PROVE k \in T
  <2> DEFINE g == f[k - 1]
             c == cands[k]
  <2>1. k - 1 \in 0..Len(cands) /\ k \in 0..Len(cands)
    BY <1>2
  <2>2. g \in Seq(E) /\ c \in E /\ f[k] = heapPush(g, c) /\ Heap(g)
    BY <1>2, <1>3, <1>5, <2>1, ElementOfSeq
  <2> HIDE DEF g, c
  <2>3. Heap(heapPush(g, c))
    BY <2>2, PushOrders
  <2>4. QED
    BY <2>1, <2>2, <2>3
<1>6. 0..Len(cands) \subseteq T
  <2> HIDE DEF T
  <2> QED BY <1>2, <1>4, <1>5, Upto
<1>7. QED
  BY <1>2, <1>6

\* A sweep leaves a heap.
LEMMA ReprioritizeOrders ==
  ASSUME NEW E, Scoring(E), NEW h \in Seq(E), NEW fn \in [Range(h) -> E]
  PROVE  Heap(Reprioritize(h, fn))
<1>1. PICK f : ReprioritizeRun(f, h, fn, E)
  BY ReprioritizeRuns
<1>2. Len(h) \in 0..Len(h)
  BY LenProperties
<1>3. Reprioritize(h, fn) = heapInit(f[Len(h)]) /\ f[Len(h)] \in Seq(E)
  BY <1>1, <1>2 DEF ReprioritizeRun
<1>4. QED
  BY <1>3, InitOrders

\* So does an exclusion.
LEMMA RemoveMatchingOrders ==
  ASSUME NEW E, Scoring(E), NEW h \in Seq(E), NEW gone
  PROVE  Heap(RemoveMatching(h, gone))
<1> DEFINE t == Subsequence(h, {i \in DOMAIN h : h[i] \notin gone})
<1>1. t \in Seq(E)
  BY SubsequencePicks
<1>2. RemoveMatching(h, gone) = heapInit(t)
  BY DEF RemoveMatching
<1> HIDE DEF t
<1>3. QED
  BY <1>1, <1>2, InitOrders

\* UpdateMatching replaces the first match and keeps the order.
LEMMA UpdateMatchingOrders ==
  ASSUME NEW E, Scoring(E), NEW h \in Seq(E), Heap(h), NEW id, NEW fn \in [Range(h) -> E]
  PROVE  /\ Heap(UpdateMatching(h, id, fn))
         /\ \/ UpdateMatching(h, id, fn) = h
            \/ \E g \in Seq(E), i \in 1..Len(h) :
                 /\ Len(g) = Len(h) /\ g[i] = fn[h[i]] /\ <<h[i].dir, h[i].path>> = id
                 /\ \A q \in 1..Len(h) : q # i => g[q] = h[q]
                 /\ UpdateMatching(h, id, fn) \in Rearranged(g)
<1> DEFINE found == {i \in DOMAIN h : <<h[i].dir, h[i].path>> = id}
           m == CHOOSE i \in found : \A j \in found : i <= j
           g == [h EXCEPT ![m] = fn[h[m]]]
<1>1. Len(h) \in Nat /\ DOMAIN h = 1..Len(h)
  BY LenProperties
<1>2. CASE found = {}
  BY <1>2 DEF UpdateMatching
<1>3. CASE found # {}
  <2>1. m \in 1..Len(h) /\ m \in found
    <3>1. found \in SUBSET Nat /\ found \subseteq 1..Len(h)
      BY <1>1
    <3> HIDE DEF found
    <3>2. \E i \in found : \A j \in found : i <= j
      BY <1>3, <3>1, LeastOf
    <3>3. m \in found
      BY <3>2
    <3>4. QED
      BY <3>1, <3>3
  <2>2. UpdateMatching(h, id, fn) = heapFix(g, m)
    BY <1>3 DEF UpdateMatching
  <2>i. <<h[m].dir, h[m].path>> = id
    <3> HIDE DEF m
    <3> QED BY <2>1
  <2> HIDE DEF m, found
  <2>3. h[m] \in Range(h) /\ fn[h[m]] \in E
    BY <1>1, <2>1 DEF Range
  <2>4. g \in Seq(E) /\ Len(g) = Len(h)
    BY <2>1, <2>3, ExceptSeq
  <2>5. g[m] = fn[h[m]] /\ \A q \in 1..Len(h) : q # m => g[q] = h[q]
    BY <1>1, <2>1
  <2>6. Len(g) \in 1..Len(g)
    BY <1>1, <2>1, <2>4
  <2> HIDE DEF g
  <2>7. Settle(g, m, Len(g)) \in Rearranged(g)
    BY <2>1, <2>4, <2>6, SettleRearranges
  <2>8. Heap(heapFix(g, m))
    BY <2>1, <2>4, <2>5, FixOrders
  <2>9. heapFix(g, m) \in Rearranged(g)
    BY <2>7 DEF heapFix
  <2>10. QED
    BY <2>1, <2>2, <2>4, <2>5, <2>8, <2>9, <2>i
<1>4. QED
  BY <1>2, <1>3

\* No candidate is better than the one at the top.
LEMMA HeapTop ==
  ASSUME NEW E, Scoring(E), NEW h \in Seq(E), Heap(h)
  PROVE  \A i \in 1..Len(h) : h[1].score >= h[i].score
<1> DEFINE S == {i \in 1..Len(h) : ~(h[1].score >= h[i].score)}
<1>1. Len(h) \in Nat /\ \A q \in 1..Len(h) : h[q].score \in Int
  BY LenProperties, ElementOfSeq DEF Scoring
<1>2. SUFFICES ASSUME S # {} PROVE FALSE
  OBVIOUS
<1>3. S \in SUBSET Nat
  BY <1>1
<1>4. PICK i \in S : \A k \in S : i <= k
  <2> HIDE DEF S
  <2> QED BY <1>2, <1>3, LeastOf
<1>5. i \in 1..Len(h) /\ i # 1
  BY <1>1, <1>4
<1>6. i \in 2..Len(h)
  BY <1>1, <1>5
<1>7. i \div 2 \in 1..Len(h) /\ i \div 2 < i /\ h[i \div 2].score >= h[i].score
  BY <1>6, HeapEdge
<1>8. i \div 2 \notin S
  BY <1>1, <1>4, <1>5, <1>7
<1>9. h[1].score >= h[i \div 2].score
  BY <1>7, <1>8
<1>10. 1 \in 1..Len(h) /\ h[1].score >= h[i].score
  BY <1>1, <1>5, <1>7, <1>9
<1>11. QED
  BY <1>4, <1>10

-----------------------------------------------------------------------------
(* Scores are naturals.                                                      *)

\* A finite set of integers that is not empty has a greatest element.
LEMMA GreatestOf ==
  ASSUME NEW S \in SUBSET Int, IsFiniteSet(S), S # {}
  PROVE  \E m \in S : \A k \in S : m >= k
<1> DEFINE Tops(T) == \E m \in T : \A k \in T : m >= k
           N == {n \in Nat : \A T \in SUBSET Int :
                   IsFiniteSet(T) /\ T # {} /\ Cardinality(T) = n => Tops(T)}
<1>1. 0 \in N
  BY FS_EmptySet
<1>2. ASSUME NEW n \in Nat, n \in N
      PROVE  n + 1 \in N
  <2> SUFFICES ASSUME NEW T \in SUBSET Int, IsFiniteSet(T), T # {}, Cardinality(T) = n + 1
               PROVE  Tops(T)
    OBVIOUS
  <2>1. PICK x \in T : TRUE
    OBVIOUS
  <2>2. IsFiniteSet(T \ {x}) /\ Cardinality(T \ {x}) = n
    <3>1. IsFiniteSet(T \ {x}) /\ Cardinality(T \ {x}) = (n + 1) - 1
      BY <2>1, FS_RemoveElement
    <3>2. (n + 1) - 1 = n
      OBVIOUS
    <3>3. QED
      BY <3>1, <3>2
  <2>3. CASE T \ {x} = {}
    <3>1. T = {x} /\ x \in Int
      BY <2>1, <2>3
    <3>2. QED
      BY <3>1
  <2>4. CASE T \ {x} # {}
    <3>1. Tops(T \ {x})
      BY <1>2, <2>2, <2>4
    <3>2. PICK m \in T \ {x} : \A k \in T \ {x} : m >= k
      BY <3>1
    <3>3. CASE m >= x
      <4>1. m \in T /\ \A k \in T : m >= k
        BY <3>2, <3>3
      <4>2. QED
        BY <4>1
    <3>4. CASE ~(m >= x)
      <4>1. x >= m /\ m \in Int /\ x \in Int
        BY <2>1, <3>2, <3>4
      <4>2. \A k \in T : x >= k
        BY <2>1, <3>2, <4>1
      <4>3. QED
        BY <2>1, <4>2
    <3>5. QED
      BY <3>3, <3>4
  <2>5. QED
    BY <2>3, <2>4
<1>3. Nat \subseteq N
  <2> HIDE DEF N
  <2> QED BY <1>1, <1>2, NatSet
<1>4. Cardinality(S) \in N
  BY <1>3, FS_CardinalityType
<1>5. QED
  BY <1>4

\* A greatest element that is not below a natural is one.
LEMMA MaxIsNat ==
  ASSUME NEW S \in SUBSET Nat, IsFiniteSet(S), S # {}
  PROVE  Max(S) \in S
<1>1. S \in SUBSET Int
  OBVIOUS
<1>2. \E m \in S : \A k \in S : m >= k
  BY <1>1, GreatestOf
<1>3. QED
  BY <1>2 DEF Max

\* The powers of a number.
PowerRun(f, b, n) ==
  /\ f \in [0..n -> Nat]
  /\ f[0] = 1 /\ Power(b, n) = f[n]
  /\ \A k \in 1..n : f[k] = f[k - 1] * b

\* The loop has these values.
LEMMA PowerRuns ==
  ASSUME NEW b \in Nat, NEW n \in Nat
  PROVE  \E f : PowerRun(f, b, n)
<1> DEFINE N == n
           A == Nat
           x == 1
           op(a, k) == a * b
           F(v) == [k \in 0..N |-> IF k = 0 THEN x ELSE op(v[k - 1], k)]
           v == CHOOSE f : f = F(f)
           step == [k \in 1..N |-> [a \in A |-> op(a, k)]]
<1>1. N \in Nat /\ x \in A
  OBVIOUS
<1>2. \A a \in A : \A k \in 1..N : op(a, k) \in A
  BY SMTT(30)
<1>3. Power(b, n) = v[N]
  BY DEF Power, Loop
<1> HIDE DEF N, A, x, op
<1>4. PICK f : Trace(f, N, A, x, step)
  <2>1. step \in [1..N -> [A -> A]]
    BY <1>2
  <2> HIDE DEF step
  <2>2. QED
    BY <1>1, <2>1, TraceExists
<1>5. f = F(f)
  <2>1. f \in [0..N -> A] /\ f[0] = x /\ \A k \in 1..N : f[k] = op(f[k - 1], k)
    <3>1. f \in [0..N -> A] /\ \A k \in 1..N : k \in 0..N /\ k - 1 \in 0..N
      BY <1>1, <1>4 DEF Trace
    <3>2. QED
      BY <1>4, <3>1 DEF Trace
  <2>2. \A k \in 0..N : f[k] = IF k = 0 THEN x ELSE op(f[k - 1], k)
    <3>1. \A k \in 0..N : k # 0 => k \in 1..N
      BY <1>1
    <3>2. QED
      BY <2>1, <3>1
  <2>3. QED
    BY <2>1, <2>2
<1>6. v = F(v)
  BY <1>5
<1> HIDE DEF v, step
<1>7. v[0] = x /\ \A k \in 1..N : v[k] = op(v[k - 1], k)
  <2>1. \A k \in 1..N : k \in 0..N /\ k # 0
    BY <1>1
  <2>2. QED
    BY <1>1, <1>6, <2>1
<1>8. v \in [0..N -> A]
  <2>1. v = [k \in 0..N |-> v[k]] /\ v[0] \in A
    BY <1>1, <1>6, <1>7
  <2>2. \A k \in 1..N : v[k - 1] \in A => v[k] \in A
    BY <1>2, <1>7
  <2>3. QED
    BY <1>1, <2>1, <2>2, LoopIn
<1>9. PowerRun(v, b, n)
  BY <1>3, <1>7, <1>8 DEF N, A, x, op, PowerRun
<1>10. QED
  BY <1>9

\* Powers are naturals.
LEMMA PowerIsNat ==
  ASSUME NEW b \in Nat, NEW n \in Nat
  PROVE  Power(b, n) \in Nat
<1>1. PICK f : PowerRun(f, b, n)
  BY PowerRuns
<1>2. QED
  BY <1>1 DEF PowerRun

\* Powers of a positive number are positive.
LEMMA PowerIsPositive ==
  ASSUME NEW b \in Nat, b > 0, NEW n \in Nat
  PROVE  Power(b, n) > 0
<1>1. PICK f : PowerRun(f, b, n)
  BY PowerRuns
<1> DEFINE T == {k \in 0..n : f[k] > 0}
<1>2. 0 \in T
  BY <1>1 DEF PowerRun
<1>3. ASSUME NEW k \in 1..n, k - 1 \in T
      PROVE  k \in T
  <2>1. k \in 0..n /\ f[k - 1] \in Nat /\ f[k - 1] > 0 /\ f[k] = f[k - 1] * b
    BY <1>1, <1>3 DEF PowerRun
  <2>2. f[k - 1] * b > 0
    BY <2>1, SMTT(30)
  <2>3. QED
    BY <2>1, <2>2
<1>4. 0..n \subseteq T
  <2> HIDE DEF T
  <2> QED BY <1>2, <1>3, Upto
<1>5. f[n] > 0
  BY <1>4
<1>6. QED
  BY <1>1, <1>5 DEF PowerRun

\* A product of naturals is a natural.
LEMMA NatTimes ==
  ASSUME NEW a \in Nat, NEW b \in Nat
  PROVE  a * b \in Nat
  BY SMTT(30)

\* So is a quotient.
LEMMA NatDiv ==
  ASSUME NEW a \in Nat, NEW b \in Nat, b > 0
  PROVE  a \div b \in Nat
  BY SMTT(30)

\* How well a profile matches tags.
LEMMA MatchIsNat ==
  ASSUME NEW p \in Profiles, NEW tags
  PROVE  MatchScore(p, tags) \in Nat
<1> DEFINE D == {n \in DOMAIN p : n \in tags \/ p[n].category \in tags}
           C == {p[name].confidence : name \in D}
           matched == {0} \cup C
<1>1. IsFiniteSet(D) /\ \A name \in D : p[name].confidence \in Int
  <2>1. D \subseteq DOMAIN p /\ IsFiniteSet(DOMAIN p) /\ \A name \in DOMAIN p : p[name] \in TechRecord
    BY ProfileIs
  <2>2. \A name \in DOMAIN p : p[name].confidence \in Int
    BY <2>1 DEF TechRecord
  <2> HIDE DEF D
  <2>3. QED
    BY <2>1, <2>2, FS_Subset
<1>2. MatchScore(p, tags) = CHOOSE m \in matched : \A n \in matched : m >= n
  BY DEF MatchScore
<1> HIDE DEF D
<1>3. IsFiniteSet(C)
  <2> DEFINE f == [name \in D |-> p[name].confidence]
  <2>1. f = [x \in D |-> f[x]] /\ C = {f[x] : x \in D}
    OBVIOUS
  <2> HIDE DEF f, C
  <2>2. QED
    BY <1>1, <2>1, ImageFinite
<1>4. matched \in SUBSET Int /\ 0 \in matched
  BY <1>1
<1> HIDE DEF C
<1>5. IsFiniteSet(matched)
  BY <1>3, FS_Union, FS_Singleton
<1> HIDE DEF matched
<1>6. \E m \in matched : \A n \in matched : m >= n
  BY <1>4, <1>5, GreatestOf
<1>7. MatchScore(p, tags) \in matched /\ MatchScore(p, tags) >= 0
  BY <1>2, <1>4, <1>6
<1>8. \A x \in Int : x >= 0 => x \in Nat
  OBVIOUS
<1>9. MatchScore(p, tags) \in Int
  BY <1>4, <1>7
<1>10. QED
  BY <1>7, <1>8, <1>9

\* The corpus gives a natural.
LEMMA CorpusIsNat ==
  ASSUME NEW p \in Profiles, NEW base \in Nat, NEW tags
  PROVE  CorpusScore(p, base, tags) \in Nat
<1>1. MatchScore(p, tags) \in Nat /\ TechBoostW \in Nat
  BY MatchIsNat, ProfileAssumption
<1>2. TechBoostW * MatchScore(p, tags) \in Nat
  BY <1>1, NatTimes
<1>3. 100 + TechBoostW * MatchScore(p, tags) \in Nat
  BY <1>2
<1>4. QED
  BY <1>3, NatTimes DEF CorpusScore

\* So do the learners.
LEMMA BoostIsNat ==
  ASSUME NEW c, NEW k
  PROVE  Boost(c, k) \in Nat
<1> DEFINE s == semSignal(c, k.protected, k.listed)
           a == assocSignal(c, k.terms)
           v == convSignal(c, k.terms, k.trained)
<1>1. s \in Nat
  BY DEF semSignal
<1>2. a \in Nat
  BY DEF assocSignal
<1>3. v \in Nat
  BY DEF convSignal
<1>4. Boost(c, k) = (1 + WSem * s) * (5 + WAssoc * a) * (1 + WConv * v)
  BY DEF Boost
<1> HIDE DEF s, a, v
<1>5. WSem * s \in Nat /\ WAssoc * a \in Nat /\ WConv * v \in Nat
  BY <1>1, <1>2, <1>3, NatTimes, RankingAssumption
<1>6. 1 + WSem * s \in Nat /\ 5 + WAssoc * a \in Nat /\ 1 + WConv * v \in Nat
  BY <1>5
<1>7. (1 + WSem * s) * (5 + WAssoc * a) \in Nat
  BY <1>6, NatTimes
<1>8. QED
  BY <1>4, <1>6, <1>7, NatTimes

\* The factors of the user's commands.
Factors(ovs) == IsSeq(ovs) /\ \A i \in 1..Len(ovs) : ovs[i].factor \in Nat \ {0}

\* And so do the commands.
LEMMA MultiplierIsNat ==
  ASSUME NEW ovs, Factors(ovs), NEW id
  PROVE  overrideMultiplier(id, ovs) \in Nat
<1>1. Len(ovs) \in Nat
  BY SeqIs DEF Factors, IsSeq
<1>2. PICK v : /\ v[0] = OverrideScale
               /\ \A k \in 1..Len(ovs) : v[k] = overridden(v[k - 1], ovs[k], id)
               /\ overrideMultiplier(id, ovs) = v[Len(ovs)]
  BY <1>1, OverrideRuns
<1> DEFINE T == {k \in 0..Len(ovs) : v[k] \in Nat}
<1>3. 0 \in T
  <2>1. OverrideScale \in Nat
    BY PowerIsNat, RankingAssumption DEF OverrideScale
  <2>2. QED
    BY <1>1, <1>2, <2>1
<1>4. ASSUME NEW k \in 1..Len(ovs), k - 1 \in T
      PROVE  k \in T
  <2> DEFINE m == v[k - 1]
             x == ovs[k].factor
  <2>1. m \in Nat /\ x \in Nat /\ x > 0 /\ k \in 0..Len(ovs)
    BY <1>1, <1>4 DEF Factors
  <2>2. v[k] = overridden(m, ovs[k], id)
    BY <1>2
  <2>3. overridden(m, ovs[k], id) \in {m * x, m \div x, m}
    BY DEF overridden
  <2> HIDE DEF m, x
  <2>4. m * x \in Nat /\ m \div x \in Nat
    BY <2>1, NatTimes, NatDiv
  <2>5. QED
    BY <2>1, <2>2, <2>3, <2>4
<1>5. 0..Len(ovs) \subseteq T
  <2> HIDE DEF T
  <2> QED BY <1>1, <1>3, <1>4, Upto
<1>6. v[Len(ovs)] \in Nat
  BY <1>1, <1>5
<1>7. QED
  BY <1>2, <1>6

\* What is known, as far as a score needs it to be numbers.
Knows(k) == k.profile \in Profiles /\ Factors(k.overrides)

\* A score is a natural.
LEMMA ScoreIsNat ==
  ASSUME NEW c, c.base \in Nat, NEW k, Knows(k)
  PROVE  scoreCandidate(c, k) \in Nat
<1> DEFINE a == CorpusScore(k.profile, c.base, c.tags)
           b == Boost(c, k)
           s == IF k.spa /\ ~c.crawl THEN 1 ELSE SPABruteForceScoreDown
           m == overrideMultiplier(Id(c), k.overrides)
<1>1. a \in Nat
  BY CorpusIsNat DEF Knows
<1>2. b \in Nat
  BY BoostIsNat
<1>3. s \in Nat
  BY DEF SPABruteForceScoreDown
<1>4. m \in Nat
  BY MultiplierIsNat DEF Knows
<1>5. scoreCandidate(c, k) = a * b * s * m
  BY DEF scoreCandidate
<1> HIDE DEF a, b, s, m
<1>6. a * b \in Nat
  BY <1>1, <1>2, NatTimes
<1>7. a * b * s \in Nat
  BY <1>3, <1>6, NatTimes
<1>8. QED
  BY <1>4, <1>5, <1>7, NatTimes

\* The score of a path of nmap is one.
LEMMA NmapScoreIsNat == nmapSeedScore \in Nat
<1>1. OverrideScale \in Nat
  BY PowerIsNat, RankingAssumption DEF OverrideScale
<1>2. 2 * One * 100 * 5 * SPABruteForceScoreDown = 100000
  BY DEF One, SPABruteForceScoreDown
<1>3. QED
  BY <1>1, <1>2, NatTimes DEF nmapSeedScore

-----------------------------------------------------------------------------
(* The template holds a path once, with a weight.                            *)

\* A term has these fields.
Weighed(c) ==
  c = [path |-> c.path, kind |-> c.kind, base |-> c.base, tags |-> c.tags] /\ c.base \in Nat

Terms(s) == IsSeq(s) /\ \A c \in Range(s) : Weighed(c)

\* The forms in which the corpus's code changes a term.
Retagged(c, tags) == [c EXCEPT !.tags = tags]
Rekinded(c, kind) == [c EXCEPT !.kind = kind]
Relabelled(c, kind, tags) == [c EXCEPT !.kind = kind, !.tags = tags]
Renamed(c, path, base) == [c EXCEPT !.path = path, !.base = base]
Remade(c, path, kind, base) == [c EXCEPT !.path = path, !.kind = kind, !.base = base]

\* Another kind or other tags leave a term one, with its path.
LEMMA Relabels ==
  ASSUME NEW c, Weighed(c), NEW kind, NEW tags
  PROVE  /\ Weighed(Retagged(c, tags)) /\ Weighed(Rekinded(c, kind))
         /\ Weighed(Relabelled(c, kind, tags)) /\ Relabelled(c, kind, tags).path = c.path
<1>1. PICK p, kd, b, t : c = [path |-> p, kind |-> kd, base |-> b, tags |-> t] /\ b \in Nat
  BY DEF Weighed
<1> DEFINE e1 == [c EXCEPT !.tags = tags]
           e2 == [c EXCEPT !.kind = kind]
           e3 == [e2 EXCEPT !.tags = tags]
<1>2. e1 = [path |-> p, kind |-> kd, base |-> b, tags |-> tags]
  BY <1>1
<1>3. e2 = [path |-> p, kind |-> kind, base |-> b, tags |-> t]
  BY <1>1
<1>4. Retagged(c, tags) = e1 /\ Rekinded(c, kind) = e2 /\ Relabelled(c, kind, tags) = e3
  BY DEF Retagged, Rekinded, Relabelled
<1> HIDE DEF e2
<1>5. e3 = [path |-> p, kind |-> kind, base |-> b, tags |-> tags]
  BY <1>3
<1> HIDE DEF e1, e3
<1>6. Weighed(e1) /\ Weighed(e2)
  BY <1>1, <1>2, <1>3 DEF Weighed
<1>7. Weighed(e3) /\ e3.path = c.path
  BY <1>1, <1>5 DEF Weighed
<1>8. QED
  BY <1>4, <1>6, <1>7

\* So does another path with its weight.
LEMMA Renames ==
  ASSUME NEW c, Weighed(c), NEW path, NEW kind, NEW base \in Nat
  PROVE  Weighed(Renamed(c, path, base)) /\ Weighed(Remade(c, path, kind, base))
<1>1. PICK p, kd, b, t : c = [path |-> p, kind |-> kd, base |-> b, tags |-> t] /\ b \in Nat
  BY DEF Weighed
<1> DEFINE e4 == [c EXCEPT !.path = path]
           e5 == [e4 EXCEPT !.base = base]
           e6 == [e4 EXCEPT !.kind = kind]
           e7 == [e6 EXCEPT !.base = base]
<1>2. e4 = [path |-> path, kind |-> kd, base |-> b, tags |-> t]
  BY <1>1
<1>3. Renamed(c, path, base) = e5 /\ Remade(c, path, kind, base) = e7
  BY DEF Renamed, Remade
<1> HIDE DEF e4
<1>4. e5 = [path |-> path, kind |-> kd, base |-> base, tags |-> t]
  BY <1>2
<1>5. e6 = [path |-> path, kind |-> kind, base |-> b, tags |-> t]
  BY <1>2
<1> HIDE DEF e6
<1>6. e7 = [path |-> path, kind |-> kind, base |-> base, tags |-> t]
  BY <1>5
<1> HIDE DEF e5, e7
<1>7. Weighed(e5) /\ Weighed(e7)
  BY <1>1, <1>4, <1>6 DEF Weighed
<1>8. QED
  BY <1>3, <1>7

\* A list whose elements are terms.
LEMMA TermsAre ==
  ASSUME NEW n \in Nat, NEW s, s = [i \in 1..n |-> s[i]], \A i \in 1..n : Weighed(s[i])
  PROVE  Terms(s)
<1>1. IsSeq(s) /\ Len(s) = n /\ DOMAIN s = 1..n
  BY SegmentIs
<1>2. \A c \in Range(s) : \E i \in 1..n : c = s[i]
  BY <1>1 DEF Range
<1>3. QED
  BY <1>1, <1>2 DEF Terms

\* The elements of a list of terms.
LEMMA TermsHave ==
  ASSUME NEW s, Terms(s)
  PROVE  /\ IsSeq(s) /\ Len(s) \in Nat /\ DOMAIN s = 1..Len(s)
         /\ \A i \in 1..Len(s) : Weighed(s[i]) /\ s[i] \in Range(s)
<1>1. IsSeq(s) /\ Len(s) \in Nat /\ DOMAIN s = 1..Len(s)
  BY SeqIs DEF Terms, IsSeq
<1>2. \A i \in 1..Len(s) : s[i] \in Range(s)
  BY <1>1 DEF Range
<1>3. QED
  BY <1>1, <1>2 DEF Terms

\* One term, and none.
LEMMA OneTerm ==
  ASSUME NEW c, Weighed(c)
  PROVE  Terms(<<c>>)
<1> DEFINE s == <<c>>
<1>1. Len(s) = 1 /\ s[1] = c /\ s = [i \in 1..1 |-> s[i]] /\ 1 \in Nat
  OBVIOUS
<1>2. \A i \in 1..1 : i = 1
  OBVIOUS
<1> HIDE DEF s
<1>3. \A i \in 1..1 : Weighed(s[i])
  BY <1>1, <1>2
<1>4. Terms(s)
  BY <1>1, <1>3, TermsAre
<1>5. QED
  BY <1>4 DEF s

\* No term.
LEMMA NoTerms == Terms(<<>>)
<1> DEFINE none == <<>>
           E == {}
<1>1. none \in Seq(E)
  BY EmptySeq
<1>2. Range(none) = {}
  <2>1. DOMAIN none = 1..0 /\ \A i \in 1..0 : FALSE
    OBVIOUS
  <2> HIDE DEF none
  <2>2. QED
    BY <2>1 DEF Range
<1> HIDE DEF none, E
<1>3. IsSeq(none)
  BY <1>1, SeqIs
<1>4. Terms(none)
  BY <1>2, <1>3 DEF Terms
<1>5. QED
  BY <1>4 DEF none

\* Two lists of terms.
LEMMA ConcatTerms ==
  ASSUME NEW s, NEW t, Terms(s), Terms(t)
  PROVE  Terms(s \o t)
<1>1. IsSeq(s \o t) /\ Range(s \o t) = Range(s) \cup Range(t)
  BY ConcatIs DEF Terms
<1>2. QED
  BY <1>1 DEF Terms

\* Lists of terms, one after the other.
LEMMA FlattenTerms ==
  ASSUME NEW seqs, IsSeq(seqs), \A i \in 1..Len(seqs) : Terms(seqs[i])
  PROVE  Terms(Flatten(seqs))
<1> DEFINE S == UNION {Range(seqs[i]) : i \in 1..Len(seqs)}
<1>1. Len(seqs) \in Nat /\ DOMAIN seqs = 1..Len(seqs)
  BY SeqIs DEF IsSeq
<1>2. \A i \in 1..Len(seqs) : seqs[i] \in Seq(S)
  <2> SUFFICES ASSUME NEW i \in 1..Len(seqs) PROVE seqs[i] \in Seq(S)
    OBVIOUS
  <2>1. seqs[i] \in Seq(Range(seqs[i])) /\ Range(seqs[i]) \subseteq S
    BY DEF Terms, IsSeq
  <2> HIDE DEF S
  <2>2. QED
    BY <2>1, SeqMonotonic
<1>3. seqs \in [1..Len(seqs) -> Seq(S)]
  <2> HIDE DEF S
  <2> QED BY <1>1, <1>2, LenProperties DEF IsSeq
<1>4. seqs \in Seq(Seq(S))
  <2> HIDE DEF S
  <2> QED BY <1>1, <1>3, SegmentIsSeq
<1>5. \A c \in S : Weighed(c)
  BY DEF Terms
<1> HIDE DEF S
<1>6. IsSeq(Flatten(seqs)) /\ Range(Flatten(seqs)) \subseteq S
  BY <1>4, FlattenIsSeq, SeqIs
<1>7. QED
  BY <1>5, <1>6 DEF Terms

\* What is selected are terms.
LEMMA SelectTerms ==
  ASSUME NEW p
  PROVE  Terms(Select(p))
<1> DEFINE tagged == [i \in DOMAIN Corpus |-> [Corpus[i] EXCEPT !.tags = @ \cap tagSetFor(p)]]
           I == {i \in DOMAIN tagged : tagged[i].tags # {}}
           terms == Subsequence(tagged, I)
           n == Len(Corpus)
<1>1. n \in Nat /\ DOMAIN Corpus = 1..n /\ \A i \in 1..n : Corpus[i] \in Term
  BY ProfileAssumption, LenProperties, ElementOfSeq
<1>2. \A i \in 1..n : Weighed(Corpus[i])
  BY <1>1 DEF Term, Weighed
<1>3. Select(p) = IF CorpusMax > 0 /\ Len(terms) > CorpusMax THEN SubSeq(terms, 1, CorpusMax) ELSE terms
  BY DEF Select
<1>4. \A i \in 1..n : tagged[i] = [Corpus[i] EXCEPT !.tags = Corpus[i].tags \cap tagSetFor(p)]
  <2>1. \A i \in 1..n : Corpus[i] = [path |-> Corpus[i].path, kind |-> Corpus[i].kind,
                                     base |-> Corpus[i].base, tags |-> Corpus[i].tags]
    BY <1>2 DEF Weighed
  <2>2. QED
    BY <1>1, <2>1
<1>5. tagged = [i \in 1..n |-> tagged[i]]
  BY <1>1
<1> HIDE DEF tagged, I
<1>6. ASSUME NEW i \in 1..n
      PROVE  Weighed(tagged[i])
  <2> DEFINE c == Corpus[i]
             t == c.tags \cap tagSetFor(p)
  <2>1. tagged[i] = Retagged(c, t) /\ Weighed(c)
    BY <1>2, <1>4 DEF Retagged
  <2> HIDE DEF c, t
  <2>2. QED
    BY <2>1, Relabels
<1>7. Terms(tagged)
  BY <1>1, <1>5, <1>6, TermsAre
<1>8. Terms(terms)
  BY <1>7, SubsequenceIs DEF Terms
<1> HIDE DEF terms
<1>9. CASE CorpusMax > 0 /\ Len(terms) > CorpusMax
  <2>1. terms \in Seq(Range(terms)) /\ Len(terms) \in Nat /\ CorpusMax \in Nat
    BY <1>8, SeqIs, ProfileAssumption DEF Terms, IsSeq
  <2>2. \A i \in 1..CorpusMax : terms[i] \in Range(terms)
    BY <1>9, <2>1, ElementOfSeq
  <2>3. SubSeq(terms, 1, CorpusMax) \in Seq(Range(terms))
    BY <1>9, <2>1, <2>2, SubSeqProperties
  <2>4. IsSeq(SubSeq(terms, 1, CorpusMax)) /\ Range(SubSeq(terms, 1, CorpusMax)) \subseteq Range(terms)
    BY <2>3, SeqIs
  <2>5. QED
    BY <1>3, <1>8, <1>9, <2>4 DEF Terms
<1>10. QED
  BY <1>3, <1>8, <1>9

\* So are its backups.
LEMMA BackupTerms ==
  ASSUME NEW c, Weighed(c)
  PROVE  Terms(backupsFor(c))
<1> DEFINE base == (c.base * 13) \div 10
           b == [i \in DOMAIN BackupSuffixes |-> Renamed(c, Append(c.path, BackupSuffixes[i]), base)]
           n == Len(BackupSuffixes)
<1>1. n \in Nat /\ DOMAIN BackupSuffixes = 1..n
  BY ProfileAssumption, LenProperties
<1>2. base \in Nat
  <2>1. c.base * 13 \in Nat
    BY DEF Weighed
  <2>2. QED
    BY <2>1, NatDiv
<1>3. backupsFor(c) = <<>> \/ backupsFor(c) = b
  BY DEF backupsFor, Renamed
<1> HIDE DEF base
<1>4. \A i \in 1..n : Weighed(b[i])
  BY <1>1, <1>2, Renames
<1>5. b = [i \in 1..n |-> b[i]]
  BY <1>1
<1> HIDE DEF b
<1>6. Terms(b)
  BY <1>1, <1>4, <1>5, TermsAre
<1>7. QED
  BY <1>3, <1>6, NoTerms

\* A later extension still has a weight.
LEMMA DecayedIsNat ==
  ASSUME NEW base \in Nat, NEW i \in Nat, i >= 1
  PROVE  Decayed(base, i) \in Nat
<1> DEFINE x == Power(9, i - 1)
           y == Power(10, i - 1)
<1>1. i - 1 \in Nat /\ 9 \in Nat /\ 10 \in Nat /\ 10 > 0
  OBVIOUS
<1>2. x \in Nat /\ y \in Nat /\ y > 0
  BY <1>1, PowerIsNat, PowerIsPositive
<1>3. Decayed(base, i) = IF (base * x) \div y > 0 THEN (base * x) \div y ELSE 1
  BY DEF Decayed
<1> HIDE DEF x, y
<1>4. (base * x) \div y \in Nat
  BY <1>2, NatTimes, NatDiv
<1>5. QED
  BY <1>3, <1>4

\* And what a stem expands to.
LEMMA StemTerms ==
  ASSUME NEW c, Weighed(c), NEW exts, IsSeq(exts)
  PROVE  Terms(expandStem(c, exts))
<1> DEFINE file(i) == Remade(c, Joined(c.path, exts[i]), "file", Decayed(c.base, i))
           lists == [i \in DOMAIN exts |-> <<file(i)>> \o backupsFor(file(i))]
<1>1. Len(exts) \in Nat /\ DOMAIN exts = 1..Len(exts)
  BY SeqIs DEF IsSeq
<1>2. expandStem(c, exts) = Flatten(lists)
  BY DEF expandStem, Remade
<1>3. \A i \in 1..Len(exts) : Decayed(c.base, i) \in Nat
  <2>1. \A i \in 1..Len(exts) : i \in Nat /\ i >= 1
    BY <1>1
  <2>2. QED
    BY <2>1, DecayedIsNat DEF Weighed
<1>4. \A i \in 1..Len(exts) : Weighed(file(i))
  BY <1>3, Renames
<1> HIDE DEF file
<1>5. \A i \in 1..Len(exts) : Terms(<<file(i)>> \o backupsFor(file(i)))
  BY <1>4, OneTerm, BackupTerms, ConcatTerms
<1>6. /\ lists = [i \in 1..Len(exts) |-> lists[i]]
      /\ \A i \in 1..Len(exts) : lists[i] = <<file(i)>> \o backupsFor(file(i))
  BY <1>1
<1> HIDE DEF lists
<1>7. IsSeq(lists) /\ Len(lists) = Len(exts)
  BY <1>1, <1>6, SegmentIs
<1>8. QED
  BY <1>2, <1>5, <1>6, <1>7, FlattenTerms

\* And a term.
LEMMA TermTerms ==
  ASSUME NEW term, Weighed(term), NEW exts, IsSeq(exts)
  PROVE  Terms(expandTerm(term, exts))
<1> DEFINE c == Shaped(term)
           kind == IF Len(term.path) > 1 THEN "file" ELSE "dir"
           more == IF "generic" \in c.tags /\ hasBackendStack(exts) THEN expandStem(c, exts) ELSE <<>>
<1>1. Weighed(c)
  <2>1. c = term \/ c = Rekinded(term, kind)
    BY DEF Shaped, Rekinded
  <2> HIDE DEF c, kind
  <2>2. QED
    BY <2>1, Relabels
<1>2. \/ expandTerm(term, exts) = expandStem(c, exts)
      \/ expandTerm(term, exts) = <<c>> \o more
      \/ expandTerm(term, exts) = <<c>> \o backupsFor(c)
  BY DEF expandTerm
<1> HIDE DEF c
<1>3. Terms(more) /\ Terms(<<c>>) /\ Terms(backupsFor(c)) /\ Terms(expandStem(c, exts))
  BY <1>1, NoTerms, OneTerm, BackupTerms, StemTerms
<1> HIDE DEF more
<1>4. QED
  BY <1>2, <1>3, ConcatTerms

\* Of the candidates with one path there is a best, and a first of the best.
LEMMA BestExists ==
  ASSUME NEW S \in SUBSET Nat, S # {}, IsFiniteSet(S), NEW w, w = [j \in S |-> w[j]],
         \A j \in S : w[j] \in Nat
  PROVE  \E j \in S : \A k \in S : w[j] > w[k] \/ (w[j] = w[k] /\ j <= k)
<1> DEFINE W == {w[j] : j \in S}
<1>1. IsFiniteSet(W)
  <2> HIDE DEF W
  <2> QED BY ImageFinite DEF W
<1>2. W \in SUBSET Int /\ W # {}
  OBVIOUS
<1>3. PICK m \in W : \A k \in W : m >= k
  <2> HIDE DEF W
  <2> QED BY <1>1, <1>2, GreatestOf
<1> DEFINE T == {j \in S : w[j] = m}
<1>4. T \in SUBSET Nat /\ T # {}
  BY <1>3
<1>5. PICK j \in T : \A k \in T : j <= k
  <2> HIDE DEF T
  <2> QED BY <1>4, LeastOf
<1>6. j \in S /\ w[j] = m
  BY <1>5
<1>7. ASSUME NEW k \in S
      PROVE  w[j] > w[k] \/ (w[j] = w[k] /\ j <= k)
  <2>1. w[k] \in W /\ w[k] \in Nat /\ m \in Nat /\ m >= w[k]
    BY <1>3
  <2>2. CASE w[k] = m
    BY <1>5, <1>6, <2>2
  <2>3. CASE w[k] # m
    BY <1>6, <2>1, <2>3
  <2>4. QED
    BY <2>2, <2>3
<1>8. QED
  BY <1>6, <1>7

\* A template: terms, none with the path of another.
Template(t) == Terms(t) /\ \A i, j \in 1..Len(t) : t[i].path = t[j].path => i = j

\* Without repetitions, the terms are a template.
LEMMA DedupTemplate ==
  ASSUME NEW cands, Terms(cands), NEW p \in Profiles
  PROVE  Template(dedup(cands, p))
<1> DEFINE worth(j) == CorpusScore(p, cands[j].base, cands[j].tags)
           same(i) == {j \in DOMAIN cands : cands[j].path = cands[i].path}
           best(i) == CHOOSE j \in same(i) :
                        \A k \in same(i) : worth(j) > worth(k) \/ (worth(j) = worth(k) /\ j <= k)
           kind(i) == IF \E j \in same(i) : cands[j].kind = "dir" THEN "dir" ELSE cands[best(i)].kind
           tags(i) == UNION {cands[j].tags : j \in same(i)}
           one(i) == Relabelled(cands[best(i)], kind(i), tags(i))
           ones == [i \in DOMAIN cands |-> one(i)]
           I == {i \in DOMAIN cands : \A j \in same(i) : i <= j}
           n == Len(cands)
<1>1. n \in Nat /\ DOMAIN cands = 1..n /\ \A i \in 1..n : Weighed(cands[i])
  BY TermsHave
<1>2. \A i \in 1..n : best(i) \in same(i)
  <2> SUFFICES ASSUME NEW i \in 1..n PROVE best(i) \in same(i)
    OBVIOUS
  <2> DEFINE S == same(i)
             w == [j \in S |-> worth(j)]
  <2>1. S \in SUBSET Nat /\ S # {} /\ S \subseteq 1..n
    BY <1>1
  <2>2. IsFiniteSet(S)
    <3>1. IsFiniteSet(1..n)
      <4> HIDE DEF n
      <4> QED BY <1>1, FS_Interval
    <3> HIDE DEF S, n
    <3>2. QED
      BY <2>1, <3>1, FS_Subset
  <2>3. \A j \in S : worth(j) \in Nat
    <3>1. \A j \in S : cands[j].base \in Nat
      BY <1>1, <2>1 DEF Weighed
    <3> HIDE DEF S
    <3>2. QED
      BY <3>1, CorpusIsNat
  <2> HIDE DEF worth
  <2>4. w = [j \in S |-> w[j]] /\ \A j \in S : w[j] = worth(j)
    OBVIOUS
  <2> HIDE DEF S, w
  <2>5. \E j \in S : \A k \in S : w[j] > w[k] \/ (w[j] = w[k] /\ j <= k)
    <3>1. \A j \in S : w[j] \in Nat
      BY <2>3, <2>4
    <3>2. QED
      BY <2>1, <2>2, <2>4, <3>1, BestExists
  <2>6. \E j \in S : \A k \in S : worth(j) > worth(k) \/ (worth(j) = worth(k) /\ j <= k)
    BY <2>4, <2>5
  <2>7. QED
    BY <2>6 DEF S
<1>3. dedup(cands, p) = Subsequence(ones, I)
  <2> DEFINE orig(i) == [cands[best(i)] EXCEPT
                          !.kind = IF \E j \in same(i) : cands[j].kind = "dir" THEN "dir" ELSE @,
                          !.tags = UNION {cands[j].tags : j \in same(i)}]
  <2>1. dedup(cands, p) = Subsequence([i \in DOMAIN cands |-> orig(i)], I)
    BY DEF dedup
  <2>2. ASSUME NEW i \in 1..n
        PROVE  orig(i) = one(i)
    <3> DEFINE c == cands[best(i)]
               b == \E j \in same(i) : cands[j].kind = "dir"
               T == UNION {cands[j].tags : j \in same(i)}
    <3>1. Weighed(c)
      BY <1>1, <1>2
    <3>2. orig(i) = [c EXCEPT !.kind = IF b THEN "dir" ELSE @, !.tags = T]
      OBVIOUS
    <3>3. one(i) = Relabelled(c, IF b THEN "dir" ELSE c.kind, T)
      OBVIOUS
    <3> HIDE DEF c, b, T, orig, one
    <3>4. [c EXCEPT !.kind = IF b THEN "dir" ELSE @, !.tags = T]
            = [c EXCEPT !.kind = IF b THEN "dir" ELSE c.kind, !.tags = T]
      BY <3>1 DEF Weighed
    <3>5. QED
      BY <3>2, <3>3, <3>4 DEF Relabelled
  <2> HIDE DEF orig, one, I
  <2>3. [i \in DOMAIN cands |-> orig(i)] = ones
    BY SMTT(30), <1>1, <2>2
  <2>4. QED
    BY <2>1, <2>3
<1>4. \A i \in 1..n : cands[best(i)].path = cands[i].path /\ Weighed(cands[best(i)])
  BY <1>1, <1>2
<1>5. \A i, j \in 1..n : i \in I /\ j \in I /\ cands[i].path = cands[j].path => i = j
  <2> SUFFICES ASSUME NEW i \in 1..n, NEW j \in 1..n, i \in I, j \in I, cands[i].path = cands[j].path
               PROVE  i = j
    OBVIOUS
  <2>1. i \in same(j) /\ j \in same(i)
    BY <1>1
  <2>2. i <= j /\ j <= i
    BY <2>1
  <2>3. QED
    BY <1>1, <2>2
<1> HIDE DEF best, kind, tags
<1>6. \A i \in 1..n : Weighed(one(i)) /\ one(i).path = cands[i].path
  BY <1>4, Relabels
<1> HIDE DEF one, I
<1>7. ones = [i \in 1..n |-> ones[i]] /\ \A i \in 1..n : ones[i] = one(i)
  BY <1>1
<1> HIDE DEF ones
<1>8. Terms(ones) /\ Len(ones) = n
  BY <1>1, <1>6, <1>7, TermsAre, SegmentIs
<1> DEFINE t == Subsequence(ones, I)
<1>9. /\ IsSeq(t) /\ Range(t) \subseteq Range(ones) /\ \E pos : Picks(pos, t, ones, I)
  BY <1>8, SubsequenceIs DEF Terms
<1> HIDE DEF t
<1>10. Terms(t)
  BY <1>8, <1>9 DEF Terms
<1>11. PICK pos : Picks(pos, t, ones, I)
  BY <1>9
<1>12. Len(t) \in Nat
  BY <1>9, SeqIs DEF IsSeq
<1>13. ASSUME NEW i \in 1..Len(t), NEW j \in 1..Len(t), t[i].path = t[j].path
       PROVE  i = j
  <2>1. /\ pos[i] \in I /\ pos[i] \in 1..n /\ pos[j] \in I /\ pos[j] \in 1..n
        /\ t[i] = ones[pos[i]] /\ t[j] = ones[pos[j]]
    BY <1>8, <1>11 DEF Picks
  <2>2. cands[pos[i]].path = cands[pos[j]].path
    BY <1>6, <1>7, <1>13, <2>1
  <2>3. pos[i] = pos[j]
    BY <1>5, <2>1, <2>2
  <2>4. (i < j => pos[i] < pos[j]) /\ (j < i => pos[j] < pos[i])
    BY <1>11 DEF Picks
  <2>5. QED
    BY <1>1, <1>12, <2>1, <2>3, <2>4
<1>14. QED
  BY <1>3, <1>10, <1>13 DEF Template, t

\* And so is what the selection expands to.
LEMMA ExpandTemplate ==
  ASSUME NEW terms, Terms(terms), NEW exts, IsSeq(exts), NEW p \in Profiles
  PROVE  Template(Expand(terms, exts, p))
<1> DEFINE lists == [i \in DOMAIN terms |-> expandTerm(terms[i], exts)]
           n == Len(terms)
<1>1. n \in Nat /\ DOMAIN terms = 1..n /\ \A i \in 1..n : Weighed(terms[i])
  BY TermsHave
<1>2. /\ lists = [i \in 1..n |-> lists[i]]
      /\ \A i \in 1..n : lists[i] = expandTerm(terms[i], exts)
  BY <1>1
<1>3. Expand(terms, exts, p) = dedup(Flatten(lists), p)
  BY DEF Expand
<1> HIDE DEF lists
<1>4. IsSeq(lists) /\ Len(lists) = n
  BY <1>1, <1>2, SegmentIs
<1>5. \A i \in 1..n : Terms(lists[i])
  BY <1>1, <1>2, TermTerms
<1>6. Terms(Flatten(lists))
  BY <1>4, <1>5, FlattenTerms
<1>7. QED
  BY <1>3, <1>6, DedupTemplate

-----------------------------------------------------------------------------
(* The heap holds a candidate once.                                          *)

\* A list repeats nothing exactly when it has as many elements as places.
LEMMA OnceEach ==
  ASSUME NEW s, IsSeq(s)
  PROVE  /\ IsFiniteSet(Range(s)) /\ Cardinality(Range(s)) \in Nat /\ Len(s) \in Nat
         /\ Cardinality(Range(s)) <= Len(s)
         /\ Cardinality(Range(s)) = Len(s) <=>
              \A i, j \in 1..Len(s) : s[i] = s[j] => i = j
<1> DEFINE n == Len(s)
           R == Range(s)
<1>1. n \in Nat /\ DOMAIN s = 1..n /\ s \in [1..n -> R]
  <2>1. s \in Seq(R)
    BY DEF IsSeq
  <2> HIDE DEF R
  <2>2. QED
    BY <2>1, LenProperties
<1>2. s \in Surjection(1..n, R)
  BY <1>1 DEF Surjection, Range
<1>3. IsFiniteSet(1..n) /\ Cardinality(1..n) = n
  <2> HIDE DEF n
  <2>1. IsFiniteSet(1..n) /\ Cardinality(1..n) = IF 1 > n THEN 0 ELSE n - 1 + 1
    BY <1>1, FS_Interval
  <2>2. QED
    BY <1>1, <2>1
<1> HIDE DEF R, n
<1>4. IsFiniteSet(R) /\ Cardinality(R) <= n /\ (Cardinality(R) = n <=> s \in Injection(1..n, R))
  BY <1>2, <1>3, FS_Surjection
<1>5. s \in Injection(1..n, R) <=> \A i, j \in 1..n : s[i] = s[j] => i = j
  BY <1>1 DEF Injection, IsInjective
<1>6. Cardinality(R) \in Nat
  BY <1>4, FS_CardinalityType
<1>7. QED
  BY <1>1, <1>4, <1>5, <1>6 DEF R, n

\* A candidate whose weight and score are numbers, of one of the directories.
Sound(c) == Cand(c) /\ c.base \in Nat /\ c.score \in Nat /\ c.dir \in Dir

Idents(S) == {Ident(c) : c \in S}
Apart(S) == \A c, e \in S : Ident(c) = Ident(e) => c = e

\* A list of candidates that holds none twice, and the heap.
Batch(s) ==
  /\ IsSeq(s) /\ Cardinality(Range(s)) = Len(s) /\ Apart(Range(s))
  /\ \A c \in Range(s) : Sound(c)
Stored(h) == Batch(h) /\ Heap(h)

\* A list in which no two candidates are the same.
LEMMA BatchIs ==
  ASSUME NEW n \in Nat, NEW s, s = [i \in 1..n |-> s[i]], \A i \in 1..n : Sound(s[i]),
         \A i, j \in 1..n : Ident(s[i]) = Ident(s[j]) => i = j
  PROVE  Batch(s) /\ Range(s) = {s[i] : i \in 1..n}
<1>1. IsSeq(s) /\ Len(s) = n /\ DOMAIN s = 1..n
  BY SegmentIs
<1>2. Range(s) = {s[i] : i \in 1..n}
  BY <1>1 DEF Range
<1>3. \A i, j \in 1..n : s[i] = s[j] => i = j
  OBVIOUS
<1>4. Cardinality(Range(s)) = Len(s)
  BY <1>1, <1>3, OnceEach
<1>5. Apart(Range(s))
  BY <1>2 DEF Apart
<1>6. QED
  BY <1>1, <1>2, <1>4, <1>5 DEF Batch

\* What a batch is, place by place.
LEMMA BatchHas ==
  ASSUME NEW s, Batch(s)
  PROVE  /\ IsSeq(s) /\ Len(s) \in Nat /\ DOMAIN s = 1..Len(s) /\ IsFiniteSet(Range(s))
         /\ \A i \in 1..Len(s) : s[i] \in Range(s) /\ Sound(s[i])
         /\ \A c \in Range(s) : \E i \in 1..Len(s) : c = s[i]
         /\ \A i, j \in 1..Len(s) : Ident(s[i]) = Ident(s[j]) => i = j
<1>1. IsSeq(s) /\ Len(s) \in Nat /\ DOMAIN s = 1..Len(s)
  BY SeqIs DEF Batch, IsSeq
<1>2. \A i \in 1..Len(s) : s[i] \in Range(s)
  BY <1>1 DEF Range
<1>3. \A c \in Range(s) : \E i \in 1..Len(s) : c = s[i]
  BY <1>1 DEF Range
<1>4. IsFiniteSet(Range(s)) /\ \A i, j \in 1..Len(s) : s[i] = s[j] => i = j
  BY <1>1, OnceEach DEF Batch
<1>5. QED
  BY <1>1, <1>2, <1>3, <1>4 DEF Batch, Apart

\* The scores of sound candidates can be compared.
LEMMA SoundScores ==
  ASSUME NEW E, \A c \in E : Sound(c)
  PROVE  Scoring(E)
BY DEF Scoring, Sound

\* A candidate that is scored keeps its place.
LEMMA ScoredSound ==
  ASSUME NEW c, Sound(c), NEW k, Knows(k)
  PROVE  /\ Sound(Scored(c, k)) /\ Ident(Scored(c, k)) = Ident(c)
         /\ Scored(c, k).dir = c.dir /\ Scored(c, k).path = c.path /\ Scored(c, k).nmap = c.nmap
<1> DEFINE v == scoreCandidate(c, k)
           e == [c EXCEPT !.score = v]
<1>1. Scored(c, k) = e
  BY DEF Scored
<1>2. v \in Nat
  BY ScoreIsNat DEF Sound
<1> HIDE DEF v
<1>3. e = [dir |-> c.dir, path |-> c.path, kind |-> c.kind, base |-> c.base, tags |-> c.tags,
           crawl |-> c.crawl, nmap |-> c.nmap, score |-> v]
  BY DEF Sound, Cand
<1> HIDE DEF e
<1>4. /\ Cand(e) /\ e.dir = c.dir /\ e.path = c.path /\ e.base = c.base /\ e.nmap = c.nmap
      /\ e.score = v
  BY <1>3 DEF Cand
<1>5. QED
  BY <1>1, <1>2, <1>4 DEF Sound, Ident

\* So does one that is upgraded or merged.
LEMMA UpgradedSound ==
  ASSUME NEW c, Sound(c), NEW base \in Nat, NEW crawl
  PROVE  LET e == [c EXCEPT !.base = base, !.crawl = crawl]
         IN  Sound(e) /\ Ident(e) = Ident(c) /\ e.dir = c.dir /\ e.path = c.path /\ e.nmap = c.nmap
<1> DEFINE e == [c EXCEPT !.base = base, !.crawl = crawl]
           e1 == [c EXCEPT !.base = base]
<1>1. PICK d, p, kd, b, t, cr, n, v :
        c = [dir |-> d, path |-> p, kind |-> kd, base |-> b, tags |-> t, crawl |-> cr,
             nmap |-> n, score |-> v]
  BY DEF Sound, Cand
<1>2. e = [e1 EXCEPT !.crawl = crawl]
  OBVIOUS
<1>3. e1 = [dir |-> d, path |-> p, kind |-> kd, base |-> base, tags |-> t, crawl |-> cr,
            nmap |-> n, score |-> v]
  BY <1>1
<1> HIDE DEF e, e1
<1>4. e = [dir |-> d, path |-> p, kind |-> kd, base |-> base, tags |-> t, crawl |-> crawl,
           nmap |-> n, score |-> v]
  BY <1>2, <1>3
<1>5. /\ Cand(e) /\ e.dir = c.dir /\ e.path = c.path /\ e.nmap = c.nmap /\ e.score = c.score
      /\ e.base = base
  BY <1>1, <1>4 DEF Cand
<1>6. Sound(e) /\ Ident(e) = Ident(c) /\ e.dir = c.dir /\ e.path = c.path /\ e.nmap = c.nmap
  BY <1>5 DEF Sound, Ident
<1>7. QED
  BY <1>6 DEF e

\* Candidates in a list are scored in their places.
LEMMA ScoredBatch ==
  ASSUME NEW s, IsSeq(s), \A i \in 1..Len(s) : Sound(s[i]),
         \A i, j \in 1..Len(s) : Ident(s[i]) = Ident(s[j]) => i = j, NEW k, Knows(k)
  PROVE  /\ Batch([i \in DOMAIN s |-> Scored(s[i], k)])
         /\ Range([i \in DOMAIN s |-> Scored(s[i], k)]) = {Scored(s[i], k) : i \in 1..Len(s)}
<1> DEFINE t == [i \in DOMAIN s |-> Scored(s[i], k)]
           n == Len(s)
<1>1. n \in Nat /\ DOMAIN s = 1..n
  BY SeqIs DEF IsSeq
<1>2. t = [i \in 1..n |-> t[i]] /\ \A i \in 1..n : t[i] = Scored(s[i], k)
  BY <1>1
<1> HIDE DEF t
<1>3. \A i \in 1..n : Sound(t[i]) /\ Ident(t[i]) = Ident(s[i])
  BY <1>2, ScoredSound
<1>4. Batch(t) /\ Range(t) = {t[i] : i \in 1..n}
  BY <1>1, <1>2, <1>3, BatchIs
<1>5. Range(t) = {Scored(s[i], k) : i \in 1..n}
  BY <1>2, <1>4
<1>6. QED
  BY <1>4, <1>5 DEF t

-----------------------------------------------------------------------------
(* What the frontier's methods keep.                                         *)

\* Candidates pushed that are not in the heap.
LEMMA PushAllStored ==
  ASSUME NEW h, Stored(h), NEW s, Batch(s), Idents(Range(h)) \cap Idents(Range(s)) = {}
  PROVE  Stored(PushAll(h, s)) /\ Range(PushAll(h, s)) = Range(h) \cup Range(s)
<1> DEFINE A == Range(h)
           B == Range(s)
           E == A \cup B
           g == PushAll(h, s)
<1>1. /\ IsSeq(h) /\ IsSeq(s) /\ Apart(A) /\ Apart(B) /\ Heap(h)
      /\ Cardinality(A) = Len(h) /\ Cardinality(B) = Len(s)
      /\ (\A c \in A : Sound(c)) /\ (\A c \in B : Sound(c))
  BY DEF Stored, Batch
<1>2. IsFiniteSet(A) /\ IsFiniteSet(B) /\ Len(h) \in Nat /\ Len(s) \in Nat
  BY <1>1, OnceEach
<1>3. \A c \in A, e \in B : Ident(c) # Ident(e)
  BY DEF Idents
<1>4. A \subseteq E /\ B \subseteq E /\ E = A \cup B /\ A \cap B = {}
  BY <1>3
<1>5. h \in Seq(A) /\ s \in Seq(B)
  BY <1>1 DEF IsSeq
<1> HIDE DEF A, B, E
<1>6. h \in Seq(E) /\ s \in Seq(E)
  BY <1>4, <1>5, SeqMonotonic
<1>7. Scoring(E)
  BY <1>1, <1>4, SoundScores
<1>8. g \in Seq(E) /\ Len(g) = Len(h) + Len(s) /\ Range(g) = E
  BY <1>4, <1>6, PushAllAdds DEF A, B
<1>9. Heap(g)
  BY <1>1, <1>6, <1>7, PushAllOrders
<1> HIDE DEF g
<1>10. IsSeq(g)
  BY <1>8, SeqIs
<1>11. Cardinality(E) = Len(h) + Len(s)
  <2>1. Cardinality(E) = Cardinality(A) + Cardinality(B) - Cardinality(A \cap B)
    BY <1>2, <1>4, FS_Union
  <2>2. Cardinality(A \cap B) = 0
    BY <1>4, FS_EmptySet
  <2>3. QED
    BY <1>1, <1>2, <2>1, <2>2
<1>12. Apart(E)
  BY <1>1, <1>3, <1>4 DEF Apart
<1>13. QED
  BY <1>1, <1>4, <1>8, <1>9, <1>10, <1>11, <1>12 DEF Stored, Batch, g, A, B

\* One candidate pushed.
LEMMA PushStored ==
  ASSUME NEW h, Stored(h), NEW e, Sound(e), Ident(e) \notin Idents(Range(h))
  PROVE  Stored(Push(h, e)) /\ Range(Push(h, e)) = Range(h) \cup {e}
<1> DEFINE A == Range(h)
           E == A \cup {e}
           g == heapPush(h, e)
<1>1. /\ IsSeq(h) /\ Apart(A) /\ Heap(h) /\ Cardinality(A) = Len(h) /\ \A c \in A : Sound(c)
  BY DEF Stored, Batch
<1>2. IsFiniteSet(A) /\ Len(h) \in Nat
  BY <1>1, OnceEach
<1>3. \A c \in A : Ident(c) # Ident(e)
  BY DEF Idents
<1>4. A \subseteq E /\ e \in E /\ E = A \cup {e} /\ e \notin A
  BY <1>3
<1>5. h \in Seq(A)
  BY <1>1 DEF IsSeq
<1> HIDE DEF A, E
<1>6. h \in Seq(E)
  BY <1>4, <1>5, SeqMonotonic
<1>7. Scoring(E)
  BY <1>1, <1>4, SoundScores
<1>8. g \in Seq(E) /\ Len(g) = Len(h) + 1 /\ Range(g) = E
  BY <1>4, <1>6, PushAdds DEF A
<1>9. Heap(g)
  BY <1>1, <1>4, <1>6, <1>7, PushOrders
<1> HIDE DEF g
<1>10. IsSeq(g)
  BY <1>8, SeqIs
<1>11. Cardinality(E) = Len(h) + 1
  BY <1>1, <1>2, <1>4, FS_AddElement
<1>12. Apart(E)
  BY <1>1, <1>3, <1>4 DEF Apart
<1>13. Push(h, e) = g
  BY DEF Push, g
<1>14. QED
  BY <1>1, <1>4, <1>8, <1>9, <1>10, <1>11, <1>12, <1>13 DEF Stored, Batch, A

\* A sweep gives every candidate its score and takes none out.
LEMMA SweepStored ==
  ASSUME NEW h, Stored(h), NEW k, Knows(k)
  PROVE  Stored(Sweep(h, k)) /\ Idents(Range(Sweep(h, k))) = Idents(Range(h))
<1> DEFINE A == Range(h)
           fn == [c \in A |-> Scored(c, k)]
           B == {Scored(c, k) : c \in A}
           E == A \cup B
           g == Reprioritize(h, fn)
<1>1. /\ IsSeq(h) /\ Apart(A) /\ Heap(h) /\ Cardinality(A) = Len(h) /\ \A c \in A : Sound(c)
  BY DEF Stored, Batch
<1>2. IsFiniteSet(A) /\ Len(h) \in Nat
  BY <1>1, OnceEach
<1>3. \A c \in A : Sound(Scored(c, k)) /\ Ident(Scored(c, k)) = Ident(c)
  BY <1>1, ScoredSound
<1>4. /\ \A c \in A : fn[c] = Scored(c, k)
      /\ fn \in [A -> E] /\ fn \in [A -> B] /\ A \subseteq E /\ B \subseteq E
      /\ B = {fn[c] : c \in A} /\ E = A \cup B
  OBVIOUS
<1>5. g = Sweep(h, k)
  BY DEF Sweep
<1>6. h \in Seq(A)
  BY <1>1 DEF IsSeq
<1>7. \A c \in B : \E a \in A : c = Scored(a, k)
  OBVIOUS
<1> HIDE DEF B, E, fn, A
<1>8. \A c \in B : Sound(c)
  BY <1>3, <1>7
<1>9. h \in Seq(E) /\ Scoring(E)
  BY <1>1, <1>4, <1>6, <1>8, SeqMonotonic, SoundScores
<1>10. fn \in [Range(h) -> E]
  BY <1>4 DEF A
<1>11. g \in Seq(E) /\ Len(g) = Len(h) /\ Range(g) = {fn[c] : c \in Range(h)}
  BY <1>9, <1>10, ReprioritizeMaps
<1>12. Heap(g)
  BY <1>9, <1>10, ReprioritizeOrders
<1> HIDE DEF g
<1>13. IsSeq(g) /\ Range(g) = B
  BY <1>4, <1>11, SeqIs DEF A
<1>14. Apart(B)
  <2> SUFFICES ASSUME NEW c \in B, NEW e \in B, Ident(c) = Ident(e) PROVE c = e
    BY DEF Apart
  <2>1. PICK a \in A, b \in A : c = Scored(a, k) /\ e = Scored(b, k)
    BY <1>7
  <2>2. a = b
    BY <1>1, <1>3, <2>1 DEF Apart
  <2>3. QED
    BY <2>1, <2>2
<1>15. Cardinality(B) = Len(h)
  <2>1. fn \in Surjection(A, B)
    BY <1>4 DEF Surjection
  <2>2. fn \in Injection(A, B)
    <3>1. \A a, b \in A : fn[a] = fn[b] => a = b
      BY <1>1, <1>3, <1>4 DEF Apart
    <3>2. QED
      BY <1>4, <3>1 DEF Injection, IsInjective
  <2>3. Cardinality(B) = Cardinality(A)
    BY <1>2, <2>1, <2>2, FS_Surjection
  <2>4. QED
    BY <1>1, <2>3
<1>16. Idents(B) = Idents(A)
  <2>1. \A c \in B : \E a \in A : Ident(c) = Ident(a)
    BY <1>3, <1>7
  <2>2. \A a \in A : fn[a] \in B /\ Ident(fn[a]) = Ident(a)
    BY <1>3, <1>4
  <2>3. \A a \in A : \E c \in B : Ident(c) = Ident(a)
    BY <2>2
  <2>4. QED
    BY <2>1, <2>3 DEF Idents
<1>17. Stored(g) /\ Idents(Range(g)) = Idents(A)
  BY <1>8, <1>11, <1>12, <1>13, <1>14, <1>15, <1>16 DEF Stored, Batch
<1>18. QED
  BY <1>5, <1>17 DEF A

\* What is popped leaves the heap, and nothing else.
LEMMA PopStored ==
  ASSUME NEW h, Stored(h), NEW i \in 1..Len(h)
  PROVE  Stored(Pop(h, i)) /\ Range(Pop(h, i)) = Range(h) \ {h[i]}
<1> DEFINE A == Range(h)
           g == heapRemove(h, i)
           B == Range(g)
<1>1. /\ IsSeq(h) /\ Apart(A) /\ Heap(h) /\ Cardinality(A) = Len(h) /\ \A c \in A : Sound(c)
  BY DEF Stored, Batch
<1>2. IsFiniteSet(A) /\ Len(h) \in Nat /\ h[i] \in A /\ h \in Seq(A)
  BY <1>1, BatchHas DEF Stored, IsSeq
<1> HIDE DEF A
<1>3. Scoring(A)
  BY <1>1, SoundScores
<1>4. g \in Seq(A) /\ Len(g) = Len(h) - 1 /\ A = B \cup {h[i]}
  BY <1>2, RemoveTakes DEF A
<1>5. Heap(g)
  BY <1>1, <1>2, <1>3, RemoveOrders
<1> HIDE DEF g
<1>6. IsSeq(g) /\ B \subseteq A
  BY <1>4, SeqIs
<1>7. IsFiniteSet(B) /\ Cardinality(B) \in Nat /\ Cardinality(B) <= Len(h) - 1
  BY <1>4, <1>6, OnceEach
<1> HIDE DEF B
<1>8. h[i] \notin B /\ Cardinality(B) = Len(h) - 1
  <2>1. Cardinality(A) = IF h[i] \in B THEN Cardinality(B) ELSE Cardinality(B) + 1
    BY <1>4, <1>7, FS_AddElement
  <2>2. QED
    BY <1>1, <1>2, <1>7, <2>1
<1>9. B = A \ {h[i]}
  BY <1>4, <1>8
<1>10. Apart(B) /\ \A c \in B : Sound(c)
  BY <1>1, <1>6 DEF Apart
<1>11. Pop(h, i) = g
  BY DEF Pop, g
<1>12. QED
  BY <1>4, <1>5, <1>6, <1>8, <1>9, <1>10, <1>11 DEF Stored, Batch, A, B

\* What is excluded leaves the heap, and nothing else.
LEMMA ExcludeStored ==
  ASSUME NEW h, Stored(h), NEW gone
  PROVE  Stored(RemoveMatching(h, gone)) /\ Range(RemoveMatching(h, gone)) = Range(h) \ gone
<1> DEFINE A == Range(h)
           I == {i \in DOMAIN h : h[i] \notin gone}
           t == Subsequence(h, I)
           g == RemoveMatching(h, gone)
<1>1. /\ IsSeq(h) /\ Apart(A) /\ Cardinality(A) = Len(h) /\ \A c \in A : Sound(c)
  BY DEF Stored, Batch
<1>2. h \in Seq(A) /\ Len(h) \in Nat /\ \A i, j \in 1..Len(h) : h[i] = h[j] => i = j
  BY <1>1, OnceEach DEF IsSeq
<1>3. g = heapInit(t)
  BY DEF RemoveMatching
<1> HIDE DEF A, I, t, g
<1>4. Scoring(A)
  BY <1>1, SoundScores
<1>5. g \in Seq(A) /\ Range(g) = A \ gone
  BY <1>2, RemoveMatchingKeeps DEF A, g
<1>6. Heap(g)
  BY <1>2, <1>4, RemoveMatchingOrders DEF g
<1>7. t \in Seq(A) /\ \E pos : Picks(pos, t, h, I)
  BY <1>2, SubsequencePicks DEF t
<1>8. g \in Rearranged(t)
  BY <1>3, <1>7, InitRearranges
<1>9. Len(g) = Len(t) /\ Range(g) = Range(t)
  BY <1>8 DEF Rearranged
<1>10. IsSeq(t) /\ Len(t) \in Nat
  BY <1>7, SeqIs
<1>11. \A i, j \in 1..Len(t) : t[i] = t[j] => i = j
  <2>1. PICK pos : Picks(pos, t, h, I)
    BY <1>7
  <2> SUFFICES ASSUME NEW i \in 1..Len(t), NEW j \in 1..Len(t), t[i] = t[j] PROVE i = j
    OBVIOUS
  <2>2. pos[i] \in 1..Len(h) /\ pos[j] \in 1..Len(h) /\ h[pos[i]] = h[pos[j]]
    BY <2>1 DEF Picks
  <2>3. pos[i] = pos[j]
    BY <1>2, <2>2
  <2>4. (i < j => pos[i] < pos[j]) /\ (j < i => pos[j] < pos[i])
    BY <2>1 DEF Picks
  <2>5. QED
    BY <1>2, <1>10, <2>2, <2>3, <2>4
<1>12. Cardinality(Range(t)) = Len(t)
  BY <1>10, <1>11, OnceEach
<1>13. IsSeq(g) /\ Range(g) \subseteq A
  BY <1>5, SeqIs
<1>14. Apart(Range(g)) /\ \A c \in Range(g) : Sound(c)
  BY <1>1, <1>13 DEF Apart
<1>15. Stored(g) /\ Range(g) = A \ gone
  BY <1>5, <1>6, <1>9, <1>12, <1>13, <1>14 DEF Stored, Batch
<1>16. QED
  BY <1>15 DEF A, g

\* An upgrade changes a candidate in its place.
LEMMA UpgradeStored ==
  ASSUME NEW h, Stored(h), NEW k, Knows(k), NEW c, c.base \in Nat, NEW id
  PROVE  LET u == UpdateMatching(h, id, [e \in Range(h) |-> UpgradedScored(e, c, k)])
         IN  Stored(u) /\ Idents(Range(u)) = Idents(Range(h))
<1> DEFINE A == Range(h)
           fn == [e \in A |-> UpgradedScored(e, c, k)]
           B == {UpgradedScored(e, c, k) : e \in A}
           E == A \cup B
           u == UpdateMatching(h, id, fn)
           n == Len(h)
<1>1. /\ Batch(h) /\ IsSeq(h) /\ Heap(h) /\ \A e \in A : Sound(e)
  BY DEF Stored, Batch
<1>2. \A e \in A : Sound(UpgradedScored(e, c, k)) /\ Ident(UpgradedScored(e, c, k)) = Ident(e)
  <2> SUFFICES ASSUME NEW e \in A
               PROVE  Sound(UpgradedScored(e, c, k)) /\ Ident(UpgradedScored(e, c, k)) = Ident(e)
    OBVIOUS
  <2> DEFINE b == Max({e.base, c.base})
             r == e.crawl \/ c.crawl
             x == Upgraded(e, c)
  <2>1. Sound(e)
    BY <1>1
  <2>2. b \in Nat
    <3> DEFINE S == {e.base, c.base}
    <3>1. S \in SUBSET Nat /\ S # {}
      BY <2>1 DEF Sound
    <3>2. IsFiniteSet(S)
      <4>1. S = {e.base} \cup {c.base}
        OBVIOUS
      <4> HIDE DEF S
      <4>2. QED
        BY <4>1, FS_Singleton, FS_Union
    <3> HIDE DEF S
    <3>3. Max(S) \in Nat
      BY <3>1, <3>2, MaxIsNat
    <3>4. QED
      BY <3>3 DEF S
  <2>3. x = [e EXCEPT !.base = b, !.crawl = r]
    BY DEF Upgraded
  <2> HIDE DEF b, r, x
  <2>4. Sound(x) /\ Ident(x) = Ident(e)
    BY <2>1, <2>2, <2>3, UpgradedSound
  <2>5. UpgradedScored(e, c, k) = Scored(x, k)
    BY DEF UpgradedScored, x
  <2>6. QED
    BY <2>4, <2>5, ScoredSound
<1>3. /\ \A e \in A : fn[e] = UpgradedScored(e, c, k)
      /\ fn \in [A -> E] /\ A \subseteq E /\ E = A \cup B
  OBVIOUS
<1>4. \A x \in B : \E e \in A : x = UpgradedScored(e, c, k)
  OBVIOUS
<1>5. h \in Seq(A)
  BY <1>1 DEF IsSeq
<1> HIDE DEF B, E, fn, A
<1>6. \A x \in E : Sound(x)
  BY <1>1, <1>2, <1>3, <1>4
<1>7. h \in Seq(E) /\ Scoring(E)
  BY <1>3, <1>5, <1>6, SeqMonotonic, SoundScores
<1>8. fn \in [Range(h) -> E]
  BY <1>3 DEF A
<1>9. /\ Heap(u)
      /\ \/ u = h
         \/ \E g \in Seq(E), i \in 1..n :
              /\ Len(g) = n /\ g[i] = fn[h[i]] /\ <<h[i].dir, h[i].path>> = id
              /\ \A q \in 1..n : q # i => g[q] = h[q]
              /\ u \in Rearranged(g)
  BY <1>1, <1>7, <1>8, UpdateMatchingOrders
<1> HIDE DEF u
<1>10. ASSUME NEW g \in Seq(E), NEW i \in 1..n, Len(g) = n, g[i] = fn[h[i]],
              \A q \in 1..n : q # i => g[q] = h[q], u \in Rearranged(g)
       PROVE  Batch(u) /\ Idents(Range(u)) = Idents(A)
  <2>1. /\ n \in Nat /\ \A q \in 1..n : h[q] \in A /\ Sound(h[q])
        /\ \A e \in A : \E q \in 1..n : e = h[q]
        /\ \A q, r \in 1..n : Ident(h[q]) = Ident(h[r]) => q = r
    BY <1>1, BatchHas DEF A
  <2>2. g = [q \in 1..n |-> g[q]]
    BY <1>10, LenProperties
  <2>3. \A q \in 1..n : Sound(g[q]) /\ Ident(g[q]) = Ident(h[q])
    BY <1>2, <1>3, <1>10, <2>1
  <2>4. \A q, r \in 1..n : Ident(g[q]) = Ident(g[r]) => q = r
    BY <2>1, <2>3
  <2>5. Batch(g) /\ Range(g) = {g[q] : q \in 1..n}
    BY SMTT(30), <2>1, <2>2, <2>3, <2>4, BatchIs
  <2>6. u \in Seq(Range(g)) /\ Len(u) = Len(g) /\ Range(u) = Range(g)
    BY <1>10 DEF Rearranged
  <2>7. IsSeq(u)
    BY ZenonT(60), <2>6, SeqIs
  <2>8. Batch(u)
    BY ZenonT(60), <2>5, <2>6, <2>7 DEF Batch
  <2>9. ASSUME NEW x \in Range(g) PROVE \E e \in A : Ident(x) = Ident(e)
    <3>1. PICK q \in 1..n : x = g[q]
      BY <2>5
    <3>2. QED
      BY <2>1, <2>3, <3>1
  <2>10. ASSUME NEW e \in A PROVE \E x \in Range(g) : Ident(x) = Ident(e)
    <3>1. PICK q \in 1..n : e = h[q]
      BY <2>1
    <3>2. QED
      BY <2>3, <2>5, <3>1
  <2>11. Idents(Range(g)) = Idents(A)
    BY <2>9, <2>10 DEF Idents
  <2>12. QED
    BY <2>6, <2>8, <2>11
<1>11. Batch(u) /\ Idents(Range(u)) = Idents(A)
  BY <1>1, <1>9, <1>10 DEF A
<1>12. QED
  BY <1>9, <1>11 DEF Stored, u, fn, A

-----------------------------------------------------------------------------
(* Where candidates come from.                                               *)

\* The names of candidates that wait: their directory is scanned, and their path
\* known if it is not one of the n paths of nmap.
Lot(I, known, n, open) ==
  \A id \in I : /\ id[1] \in open /\ id[3] \in 0..n
                /\ id[3] = 0 => id[2] \in known[id[1]]

Stock(h, known, n, open) == Stored(h) /\ Lot(Idents(Range(h)), known, n, open)

\* The seeds that wait for a directory are its own, at most one for a path.
Own(S, d) ==
  /\ \A c \in S : Sound(c) /\ c.dir = d /\ c.nmap = 0
  /\ \A c, e \in S : c.path = e.path => c = e
Waiting(pend) == Pending(pend) /\ \A d \in Dir : Own(pend[d], d)

\* The names of such seeds tell them apart.
LEMMA OwnApart ==
  ASSUME NEW S, NEW d, Own(S, d)
  PROVE  /\ Apart(S) /\ \A c \in S : Sound(c)
         /\ Idents(S) = {<<d, c.path, 0>> : c \in S}
<1>1. \A c \in S : Ident(c) = <<d, c.path, 0>>
  BY DEF Own, Ident
<1>2. Apart(S)
  BY <1>1 DEF Own, Apart
<1>3. Idents(S) = {<<d, c.path, 0>> : c \in S}
  BY <1>1 DEF Idents
<1>4. QED
  BY <1>2, <1>3 DEF Own

\* What Candidate makes has these fields.
LEMMA CandidateHas ==
  ASSUME NEW d \in Dir, NEW path, NEW kind, NEW base \in Nat, NEW tags, NEW crawl,
         NEW c, c = Candidate(d, path, kind, base, tags, crawl)
  PROVE  /\ Sound(c) /\ c.dir = d /\ c.path = path /\ c.nmap = 0 /\ c.base = base
         /\ Ident(c) = <<d, path, 0>>
<1>1. Cand(c)
  BY CandidateIs
<1>2. c.dir = d /\ c.path = path /\ c.nmap = 0 /\ c.base = base /\ c.score = 0
  BY DEF Candidate
<1>3. QED
  BY <1>1, <1>2 DEF Sound, Ident

\* A seed that waits upgrades the template's candidate in its place.
LEMMA MergedSound ==
  ASSUME NEW c, Sound(c), NEW pend, IsFiniteSet(pend), \A s \in pend : s.base \in Nat
  PROVE  /\ Sound(Merged(c, pend)) /\ Ident(Merged(c, pend)) = Ident(c)
         /\ Merged(c, pend).path = c.path
<1> DEFINE at == {s \in pend : s.path = c.path}
           B == {s.base : s \in at}
           S == {c.base} \cup B
           r == c.crawl \/ \E s \in at : s.crawl
<1>1. IsFiniteSet(at) /\ \A s \in at : s.base \in Nat
  <2>1. at \subseteq pend
    OBVIOUS
  <2> HIDE DEF at
  <2>2. QED
    BY <2>1, FS_Subset
<1>2. Merged(c, pend) = [c EXCEPT !.base = Max(S), !.crawl = r]
  BY DEF Merged
<1> HIDE DEF at, r
<1>3. IsFiniteSet(B)
  <2> DEFINE f == [s \in at |-> s.base]
  <2>1. f = [x \in at |-> f[x]] /\ B = {f[x] : x \in at}
    OBVIOUS
  <2> HIDE DEF f, B
  <2>2. QED
    BY <1>1, <2>1, ImageFinite
<1>4. S \in SUBSET Nat /\ S # {}
  BY <1>1 DEF Sound
<1> HIDE DEF B
<1>5. IsFiniteSet(S)
  BY <1>3, FS_Singleton, FS_Union
<1> DEFINE b == Max(S)
<1> HIDE DEF S
<1>6. b \in Nat
  BY <1>4, <1>5, MaxIsNat
<1> DEFINE m == Merged(c, pend)
<1>7. m = [c EXCEPT !.base = b, !.crawl = r]
  BY <1>2
<1> HIDE DEF b, m
<1>8. Sound(m) /\ Ident(m) = Ident(c) /\ m.path = c.path
  BY ZenonT(60), <1>6, <1>7, UpgradedSound
<1>9. QED
  BY <1>8 DEF m

\* The template's candidates for a directory.
LEMMA TemplateStock ==
  ASSUME Template(template), Waiting(pendingSeeds), NEW d \in Dir
  PROVE  LET t == TemplateFor(d)
         IN  /\ IsSeq(t) /\ \A i \in 1..Len(t) : Sound(t[i]) /\ Ident(t[i]) = <<d, t[i].path, 0>>
             /\ \A i, j \in 1..Len(t) : Ident(t[i]) = Ident(t[j]) => i = j
<1> DEFINE n == Len(template)
           plain(i) == Candidate(d, template[i].path, template[i].kind, template[i].base,
                                 template[i].tags, FALSE)
           one(i) == Merged(plain(i), pendingSeeds[d])
           t == TemplateFor(d)
<1>1. n \in Nat /\ DOMAIN template = 1..n /\ \A i \in 1..n : Weighed(template[i])
  BY TermsHave DEF Template
<1>2. IsFiniteSet(pendingSeeds[d]) /\ \A s \in pendingSeeds[d] : s.base \in Nat
  BY DEF Waiting, Pending, Own, Sound
<1>3. ASSUME NEW i \in 1..n
      PROVE  Sound(one(i)) /\ Ident(one(i)) = <<d, template[i].path, 0>> /\ one(i).path = template[i].path
  <2> DEFINE c == plain(i)
  <2>1. template[i].base \in Nat
    BY <1>1 DEF Weighed
  <2> DEFINE no == FALSE
  <2>a. c = Candidate(d, template[i].path, template[i].kind, template[i].base, template[i].tags, no)
    OBVIOUS
  <2> HIDE DEF c, no
  <2>2. Sound(c) /\ Ident(c) = <<d, template[i].path, 0>> /\ c.path = template[i].path
    BY <2>1, <2>a, CandidateHas
  <2>3. Sound(Merged(c, pendingSeeds[d])) /\ Ident(Merged(c, pendingSeeds[d])) = Ident(c)
        /\ Merged(c, pendingSeeds[d]).path = c.path
    BY <1>2, <2>2, MergedSound
  <2>4. QED
    BY <2>2, <2>3 DEF c
<1>4. t = [i \in DOMAIN template |-> one(i)]
  BY DEF TemplateFor
<1> HIDE DEF one, t
<1>5. t = [i \in 1..n |-> t[i]] /\ \A i \in 1..n : t[i] = one(i)
  BY <1>1, <1>4
<1>6. IsSeq(t) /\ Len(t) = n
  BY <1>1, <1>5, SegmentIs
<1>7. \A i \in 1..n : Sound(t[i]) /\ Ident(t[i]) = <<d, t[i].path, 0>> /\ t[i].path = template[i].path
  BY <1>3, <1>5
<1>8. \A i, j \in 1..n : Ident(t[i]) = Ident(t[j]) => template[i].path = template[j].path
  BY <1>7
<1>9. \A i, j \in 1..n : Ident(t[i]) = Ident(t[j]) => i = j
  BY <1>8 DEF Template
<1>10. QED
  BY <1>6, <1>7, <1>9 DEF t

\* The paths of nmap are numbered.
LEMMA NmapStock ==
  ASSUME IsSeq(nmapSeeds), NEW d \in Dir
  PROVE  /\ Batch(NmapCandidates(d))
         /\ \A id \in Idents(Range(NmapCandidates(d))) :
              d = Root /\ id[1] = Root /\ id[3] \in 1..Len(nmapSeeds)
<1> DEFINE n == Len(nmapSeeds)
           plain(i) == Candidate(Root, nmapSeeds[i], "fullpath", One, {}, FALSE)
           one(i) == ForNmap(plain(i), i, nmapSeedScore)
           t == NmapCandidates(d)
<1>1. n \in Nat /\ DOMAIN nmapSeeds = 1..n
  BY SeqIs DEF IsSeq
<1>2. CASE d # Root
  <2> DEFINE none == <<>>
  <2>1. t = none
    BY <1>2 DEF NmapCandidates
  <2>2. none = [i \in 1..0 |-> none[i]] /\ 0 \in Nat
    OBVIOUS
  <2>3. \A i \in 1..0 : FALSE
    OBVIOUS
  <2> HIDE DEF none, t
  <2>4. Batch(none) /\ Range(none) = {none[i] : i \in 1..0}
    BY <2>2, <2>3, BatchIs
  <2>5. Range(none) = {}
    BY <2>3, <2>4
  <2>6. QED
    BY <2>1, <2>4, <2>5 DEF Idents, t
<1>3. CASE d = Root
  <2>1. t = [i \in DOMAIN nmapSeeds |-> one(i)]
    BY <1>3 DEF NmapCandidates, ForNmap
  <2>2. ASSUME NEW i \in 1..n
        PROVE  Sound(one(i)) /\ Ident(one(i)) = <<Root, nmapSeeds[i], i>>
    <3> DEFINE c == plain(i)
               e == ForNmap(c, i, nmapSeedScore)
               e1 == [c EXCEPT !.nmap = i]
    <3>1. nmapSeedScore \in Nat /\ Root \in Dir /\ One \in Nat
      BY NmapScoreIsNat DEF Dir, One
    <3> DEFINE no == FALSE
    <3>a. c = Candidate(Root, nmapSeeds[i], "fullpath", One, {}, no)
      OBVIOUS
    <3> HIDE DEF c, no
    <3>2. Sound(c) /\ c.dir = Root /\ c.path = nmapSeeds[i] /\ c.base = One
      BY <3>1, <3>a, CandidateHas
    <3>3. PICK dd, p, kd, b, tg, cr, m, v0 :
            c = [dir |-> dd, path |-> p, kind |-> kd, base |-> b, tags |-> tg, crawl |-> cr,
                 nmap |-> m, score |-> v0]
      BY <3>2 DEF Sound, Cand
    <3>4. e = [e1 EXCEPT !.score = nmapSeedScore]
      BY DEF ForNmap
    <3>5. e1 = [dir |-> dd, path |-> p, kind |-> kd, base |-> b, tags |-> tg, crawl |-> cr,
                nmap |-> i, score |-> v0]
      BY <3>3
    <3> HIDE DEF e, e1
    <3>6. e = [dir |-> dd, path |-> p, kind |-> kd, base |-> b, tags |-> tg, crawl |-> cr,
               nmap |-> i, score |-> nmapSeedScore]
      BY <3>4, <3>5
    <3>7. /\ Cand(e) /\ e.nmap = i /\ e.score = nmapSeedScore /\ e.dir = Root
          /\ e.path = nmapSeeds[i] /\ e.base = One
      BY <3>2, <3>3, <3>6 DEF Cand
    <3>8. QED
      BY <3>1, <3>7 DEF Sound, Ident, e, c
  <2> HIDE DEF one, t
  <2>3. t = [i \in 1..n |-> t[i]] /\ \A i \in 1..n : t[i] = one(i)
    BY <1>1, <2>1
  <2>4. \A i \in 1..n : Sound(t[i]) /\ Ident(t[i]) = <<Root, nmapSeeds[i], i>>
    BY <2>2, <2>3
  <2>5. \A i, j \in 1..n : Ident(t[i]) = Ident(t[j]) => i = j
    BY <2>4
  <2>6. Batch(t) /\ Range(t) = {t[i] : i \in 1..n}
    BY SMTT(30), <1>1, <2>3, <2>4, <2>5, BatchIs
  <2>7. \A id \in Idents(Range(t)) : \E i \in 1..n : id = <<Root, nmapSeeds[i], i>>
    BY <2>4, <2>6 DEF Idents
  <2>8. \A id \in Idents(Range(t)) : id[1] = Root /\ id[3] \in 1..n
    BY <2>7
  <2>9. QED
    BY <1>3, <2>6, <2>8 DEF t
<1>4. QED
  BY <1>2, <1>3

\* What is enqueued joins the heap.
LEMMA EnqueuedStored ==
  ASSUME NEW h, Stored(h), NEW k, Knows(k), NEW cands, IsFiniteSet(cands), Apart(cands),
         \A c \in cands : Sound(c), Idents(Range(h)) \cap Idents(cands) = {},
         NEW g \in Enqueued(h, cands, k)
  PROVE  Stored(g) /\ Idents(Range(g)) = Idents(Range(h)) \cup Idents(cands)
<1>1. PICK s \in Visits(cands) : g = PushAll(h, [i \in DOMAIN s |-> Scored(s[i], k)])
  BY DEF Enqueued
<1> DEFINE t == [i \in DOMAIN s |-> Scored(s[i], k)]
           n == Len(s)
<1>2. IsSeq(s) /\ \A i \in DOMAIN s : s[i] \in cands
  BY VisitsAre
<1>3. n \in Nat /\ DOMAIN s = 1..n
  BY <1>2, SeqIs DEF IsSeq
<1>4. /\ \A i \in 1..n : s[i] \in cands /\ Sound(s[i])
      /\ \A c \in cands : \E i \in 1..n : c = s[i]
      /\ \A i, j \in 1..n : s[i] = s[j] => i = j
  <2>1. s \in Bijection(1..Cardinality(cands), cands)
    BY DEF Visits
  <2>2. DOMAIN s = 1..Cardinality(cands)
    BY <2>1 DEF Bijection, Injection
  <2>3. QED
    BY <1>2, <1>3, <2>1, <2>2 DEF Bijection, Injection, Surjection, IsInjective
<1>5. \A i, j \in 1..n : Ident(s[i]) = Ident(s[j]) => i = j
  BY <1>4 DEF Apart
<1>6. Batch(t) /\ Range(t) = {Scored(s[i], k) : i \in 1..n}
  BY <1>2, <1>4, <1>5, ScoredBatch
<1>7. g = PushAll(h, t)
  BY <1>1
<1> HIDE DEF t
<1>8. Idents(Range(t)) = Idents(cands)
  <2>1. \A i \in 1..n : Ident(Scored(s[i], k)) = Ident(s[i])
    BY <1>4, ScoredSound
  <2>2. \A x \in Range(t) : \E c \in cands : Ident(x) = Ident(c)
    BY <1>4, <1>6, <2>1
  <2>3. \A c \in cands : \E x \in Range(t) : Ident(x) = Ident(c)
    BY <1>4, <1>6, <2>1
  <2>4. QED
    BY <2>2, <2>3 DEF Idents
<1>9. Stored(g) /\ Range(g) = Range(h) \cup Range(t)
  BY <1>6, <1>7, <1>8, PushAllStored
<1>10. Idents(Range(g)) = Idents(Range(h)) \cup Idents(Range(t))
  BY <1>9 DEF Idents
<1>11. QED
  BY <1>8, <1>9, <1>10

\* A directory that is calibrated gets its candidates; none of it waited.
LEMMA PushCandidatesStock ==
  ASSUME Template(template), IsSeq(nmapSeeds), Waiting(pendingSeeds), DOMAIN knownPaths = Dir,
         NEW d \in Dir, NEW h, NEW open \in SUBSET Dir, d \notin open,
         Stock(h, knownPaths, Len(nmapSeeds), open), NEW k, Knows(k), PushCandidates(d, h, k)
  PROVE  /\ Stock(heap', knownPaths', Len(nmapSeeds), open \cup {d})
         /\ Idents(Range(h)) \subseteq Idents(Range(heap'))
         /\ Waiting(pendingSeeds') /\ DOMAIN knownPaths' = Dir
<1> DEFINE n == Len(nmapSeeds)
           listed == TemplateFor(d)
           paths == {listed[i].path : i \in DOMAIN listed}
           left == Unknown(pendingSeeds[d], paths)
           scored == [i \in DOMAIN listed |-> Scored(listed[i], k)]
           based == PushAll(h, scored)
           nmaps == NmapCandidates(d)
           A == Idents(Range(h))
           B == Idents(Range(scored))
           C == Idents(left)
           D == Idents(Range(nmaps))
           known == paths \cup {c.path : c \in left} \cup (IF d = Root THEN Range(nmapSeeds) ELSE {})
<1>1. PICK g \in Enqueued(based, left, k) : heap' = PushAll(g, nmaps)
  BY DEF PushCandidates
<1>2. /\ knownPaths' = [knownPaths EXCEPT ![d] = known]
      /\ pendingSeeds' = [pendingSeeds EXCEPT ![d] = {}]
  BY DEF PushCandidates
<1>3. /\ IsSeq(listed)
      /\ \A i \in 1..Len(listed) : Sound(listed[i]) /\ Ident(listed[i]) = <<d, listed[i].path, 0>>
      /\ \A i, j \in 1..Len(listed) : Ident(listed[i]) = Ident(listed[j]) => i = j
  BY TemplateStock
<1> HIDE DEF listed
<1>4. Len(listed) \in Nat /\ DOMAIN listed = 1..Len(listed)
  BY <1>3, SeqIs DEF IsSeq
<1>5. Batch(scored) /\ Range(scored) = {Scored(listed[i], k) : i \in 1..Len(listed)}
  BY <1>3, ScoredBatch
<1>6. /\ Own(left, d) /\ IsFiniteSet(left) /\ \A c \in left : c.path \notin paths
  <2>1. left \subseteq pendingSeeds[d] /\ \A c \in left : c.path \notin paths
    BY DEF Unknown
  <2>2. IsFiniteSet(pendingSeeds[d]) /\ Own(pendingSeeds[d], d)
    BY DEF Waiting, Pending
  <2> HIDE DEF left, paths
  <2>3. IsFiniteSet(left)
    BY <2>1, <2>2, FS_Subset
  <2>4. Own(left, d)
    BY <2>1, <2>2 DEF Own
  <2>5. QED
    BY <2>1, <2>3, <2>4
<1>7. Apart(left) /\ (\A c \in left : Sound(c)) /\ C = {<<d, c.path, 0>> : c \in left}
  <2> HIDE DEF left
  <2> QED BY <1>6, OwnApart
<1>8. Batch(nmaps) /\ \A id \in D : d = Root /\ id[1] = Root /\ id[3] \in 1..n
  BY NmapStock
<1> HIDE DEF scored, left, nmaps
<1>9. \A id \in B : id = <<d, id[2], 0>> /\ id[1] = d /\ id[3] = 0 /\ id[2] \in paths
  <2> SUFFICES ASSUME NEW id \in B
               PROVE  id = <<d, id[2], 0>> /\ id[1] = d /\ id[3] = 0 /\ id[2] \in paths
    OBVIOUS
  <2>1. PICK x \in Range(scored) : id = Ident(x)
    BY DEF Idents
  <2>2. PICK i \in 1..Len(listed) : x = Scored(listed[i], k)
    BY <1>5, <2>1
  <2>3. Ident(x) = <<d, listed[i].path, 0>>
    BY <1>3, <2>2, ScoredSound
  <2>4. listed[i].path \in paths
    BY <1>4
  <2>5. QED
    BY <2>1, <2>3, <2>4
<1> HIDE DEF paths
<1>10. \A id \in A : id[1] \in open /\ id[3] \in 0..n /\ (id[3] = 0 => id[2] \in knownPaths[id[1]])
  BY DEF Stock, Lot
<1>11. \A id \in C : id[1] = d /\ id[3] = 0 /\ id[2] \in known /\ id[2] \notin paths
  BY <1>6, <1>7
<1>12. \A id \in B : id[2] \in known
  BY <1>9
<1> HIDE DEF A, B, C, D, known
<1>13. A \cap B = {}
  BY <1>9, <1>10
<1>14. Stored(h)
  BY DEF Stock
<1>15. Stored(based) /\ Idents(Range(based)) = A \cup B
  <2>1. Stored(based) /\ Range(based) = Range(h) \cup Range(scored)
    BY <1>5, <1>13, <1>14, PushAllStored DEF A, B
  <2>2. QED
    BY <2>1 DEF Idents, A, B
<1> HIDE DEF based
<1>16. (A \cup B) \cap C = {}
  BY <1>9, <1>10, <1>11
<1>17. Stored(g) /\ Idents(Range(g)) = A \cup B \cup C
  BY <1>6, <1>7, <1>15, <1>16, EnqueuedStored DEF C
<1>18. (A \cup B \cup C) \cap D = {}
  <2> SUFFICES ASSUME NEW id \in D PROVE id \notin A \cup B \cup C
    OBVIOUS
  <2>1. id[1] = d /\ id[3] \in 1..n
    BY <1>8
  <2>2. id[3] # 0
    BY <2>1
  <2>3. id \notin A
    BY <1>10, <2>1
  <2>4. QED
    BY <1>9, <1>11, <2>2, <2>3
<1>19. Stored(heap') /\ Idents(Range(heap')) = A \cup B \cup C \cup D
  <2> DEFINE f == PushAll(g, nmaps)
  <2>1. Stored(f) /\ Range(f) = Range(g) \cup Range(nmaps)
    BY <1>8, <1>17, <1>18, PushAllStored DEF D
  <2>2. Idents(Range(f)) = A \cup B \cup C \cup D
    BY <1>17, <2>1 DEF Idents, D
  <2>3. QED
    BY <1>1, <2>1, <2>2
<1>20. Lot(A \cup B \cup C \cup D, knownPaths', n, open \cup {d})
  <2>1. \A e \in Dir : knownPaths'[e] = IF e = d THEN known ELSE knownPaths[e]
    BY <1>2
  <2>2. n \in Nat
    BY SeqIs DEF IsSeq
  <2> SUFFICES ASSUME NEW id \in A \cup B \cup C \cup D
               PROVE  /\ id[1] \in open \cup {d} /\ id[3] \in 0..n
                      /\ id[3] = 0 => id[2] \in knownPaths'[id[1]]
    BY DEF Lot
  <2>3. CASE id \in A
    <3>1. id[1] \in Dir /\ id[1] # d
      BY <1>10, <2>3
    <3>2. QED
      BY <1>10, <2>1, <2>3, <3>1
  <2>4. CASE id \in B \cup C
    <3>1. id[1] = d /\ id[3] = 0 /\ id[2] \in known
      BY <1>9, <1>11, <1>12, <2>4
    <3>2. knownPaths'[id[1]] = known /\ 0 \in 0..n
      BY <2>1, <2>2, <3>1
    <3>3. QED
      BY <3>1, <3>2
  <2>5. CASE id \in D
    <3>1. id[1] = d /\ id[3] \in 1..n
      BY <1>8, <2>5
    <3>2. id[3] \in 0..n /\ id[3] # 0
      BY <2>2, <3>1
    <3>3. QED
      BY <3>1, <3>2
  <2>6. QED
    BY <2>3, <2>4, <2>5
<1>21. Waiting(pendingSeeds') /\ DOMAIN knownPaths' = Dir
  <2>1. Pending(pendingSeeds')
    BY <1>2, FS_EmptySet DEF Waiting, Pending
  <2>2. \A e \in Dir : Own(pendingSeeds'[e], e)
    BY <1>2 DEF Waiting, Pending, Own
  <2>3. QED
    BY <1>2, <2>1, <2>2 DEF Waiting
<1>22. QED
  BY <1>19, <1>20, <1>21 DEF Stock, A

-----------------------------------------------------------------------------
(* Seeds.                                                                    *)

Scanning == {d \in Dir : dirs[d] = "scanning"}

\* What staging works on, and what it leaves.
Staging(s, n) ==
  /\ s = [heap |-> s.heap, known |-> s.known, pending |-> s.pending]
  /\ DOMAIN s.known = Dir /\ Waiting(s.pending) /\ Stock(s.heap, s.known, n, Scanning)

\* A seed that upgrades another stays in its place.
LEMMA WaitingUpgraded ==
  ASSUME NEW w, Sound(w), NEW c, c.base \in Nat
  PROVE  /\ Sound(Upgraded(w, c)) /\ Ident(Upgraded(w, c)) = Ident(w)
         /\ Upgraded(w, c).dir = w.dir /\ Upgraded(w, c).path = w.path /\ Upgraded(w, c).nmap = w.nmap
<1> DEFINE S == {w.base, c.base}
           b == Max(S)
           r == w.crawl \/ c.crawl
           x == Upgraded(w, c)
<1>1. b \in Nat
  <2>1. S \in SUBSET Nat /\ S # {} /\ S = {w.base} \cup {c.base}
    BY DEF Sound
  <2> HIDE DEF S
  <2>2. IsFiniteSet(S)
    BY <2>1, FS_Singleton, FS_Union
  <2>3. QED
    BY <2>1, <2>2, MaxIsNat
<1>2. x = [w EXCEPT !.base = b, !.crawl = r]
  BY DEF Upgraded
<1> HIDE DEF b, r, x
<1>3. Sound(x) /\ Ident(x) = Ident(w) /\ x.dir = w.dir /\ x.path = w.path /\ x.nmap = w.nmap
  BY ZenonT(60), <1>1, <1>2, UpgradedSound
<1>4. QED
  BY <1>3 DEF x

\* Seeds wait at most one for a path.
LEMMA StagePending ==
  ASSUME NEW pend, Waiting(pend), NEW c, Sound(c), c.nmap = 0, NEW waiting,
         waiting = {w \in pend[c.dir] : w.path = c.path}, NEW more,
         more = IF waiting = {} THEN pend[c.dir] \cup {c}
                ELSE (pend[c.dir] \ waiting) \cup {Upgraded(w, c) : w \in waiting}
  PROVE  Waiting([pend EXCEPT ![c.dir] = more])
<1> DEFINE here == pend[c.dir]
           better == {Upgraded(w, c) : w \in waiting}
           d == c.dir
<1>1. d \in Dir /\ c.base \in Nat /\ Cand(c)
  BY DEF Sound
<1>2. IsFiniteSet(here) /\ Own(here, d) /\ waiting \subseteq here
  BY <1>1 DEF Waiting, Pending
<1>3. IsFiniteSet(waiting)
  <2> HIDE DEF here
  <2> QED BY <1>2, FS_Subset
<1>4. \A w \in waiting : Sound(w) /\ w.dir = d /\ w.path = c.path /\ w.nmap = 0
  BY <1>2 DEF Own
<1>5. \A v, w \in waiting : v = w
  BY <1>2, <1>4 DEF Own
<1>6. \A x \in better : \E w \in waiting : x = Upgraded(w, c)
  OBVIOUS
<1>7. IsFiniteSet(better)
  <2> DEFINE f == [w \in waiting |-> Upgraded(w, c)]
  <2>1. f = [x \in waiting |-> f[x]] /\ better = {f[x] : x \in waiting}
    OBVIOUS
  <2> HIDE DEF f, better
  <2>2. QED
    BY <1>3, <2>1, ImageFinite
<1>8. more = here \cup {c} \/ more = (here \ waiting) \cup better
  OBVIOUS
<1>9. waiting = {} => more = here \cup {c}
  OBVIOUS
<1>10. waiting # {} => more = (here \ waiting) \cup better
  OBVIOUS
<1>11. \A w \in here : w.path = c.path => w \in waiting
  OBVIOUS
<1> HIDE DEF here, better
<1>12. \A x \in better : Sound(x) /\ x.dir = d /\ x.path = c.path /\ x.nmap = 0
  <2> SUFFICES ASSUME NEW w \in waiting
               PROVE  /\ Sound(Upgraded(w, c)) /\ Upgraded(w, c).dir = d
                      /\ Upgraded(w, c).path = c.path /\ Upgraded(w, c).nmap = 0
    BY <1>6
  <2>1. QED
    BY <1>1, <1>4, WaitingUpgraded
<1>13. IsFiniteSet(more)
  <2>1. IsFiniteSet(here \cup {c}) /\ IsFiniteSet(here \ waiting)
    BY <1>2, FS_AddElement, FS_Subset
  <2>2. IsFiniteSet((here \ waiting) \cup better)
    BY <1>7, <2>1, FS_Union
  <2>3. QED
    BY <1>8, <2>1, <2>2
<1>14. Own(more, d)
  <2>1. CASE waiting = {}
    <3>1. more = here \cup {c} /\ \A w \in here : w.path # c.path
      BY <1>9, <1>11, <2>1
    <3>2. QED
      BY <1>2, <3>1 DEF Own
  <2>2. CASE waiting # {}
    <3>1. more = (here \ waiting) \cup better
      BY <1>10, <2>2
    <3>2. \A w \in here \ waiting : w.path # c.path
      BY <1>11
    <3>3. \A x, y \in better : x = y
      BY <1>5, <1>6
    <3>4. \A x \in more : Sound(x) /\ x.dir = d /\ x.nmap = 0
      BY <1>2, <1>12, <3>1 DEF Own
    <3>5. \A x, y \in more : x.path = y.path => x = y
      BY <1>2, <1>12, <3>1, <3>2, <3>3 DEF Own
    <3>6. QED
      BY <3>4, <3>5 DEF Own
  <2>3. QED
    BY <2>1, <2>2
<1> DEFINE new == [pend EXCEPT ![d] = more]
<1>15. DOMAIN new = Dir /\ new[d] = more /\ \A e \in Dir : e # d => new[e] = pend[e]
  BY <1>1 DEF Waiting, Pending
<1> HIDE DEF new
<1>16. \A x \in more : Cand(x)
  BY <1>14 DEF Own, Sound
<1>17. Pending(new)
  <2> SUFFICES ASSUME NEW e \in Dir PROVE IsFiniteSet(new[e]) /\ \A x \in new[e] : Cand(x)
    BY <1>15 DEF Pending
  <2>1. CASE e = d
    BY <1>13, <1>15, <1>16, <2>1
  <2>2. CASE e # d
    BY <1>15, <2>2 DEF Waiting, Pending
  <2>3. QED
    BY <2>1, <2>2
<1>18. \A e \in Dir : Own(new[e], e)
  <2> SUFFICES ASSUME NEW e \in Dir PROVE Own(new[e], e)
    OBVIOUS
  <2>1. CASE e = d
    BY <1>14, <1>15, <2>1
  <2>2. CASE e # d
    BY <1>15, <2>2 DEF Waiting
  <2>3. QED
    BY <2>1, <2>2
<1>19. QED
  BY <1>17, <1>18 DEF Waiting, new

\* More paths known, and the names still fit.
LEMMA LotGrows ==
  ASSUME NEW I, NEW known, NEW n, NEW open \in SUBSET Dir, Lot(I, known, n, open),
         DOMAIN known = Dir, NEW d \in Dir, NEW S
  PROVE  Lot(I, [known EXCEPT ![d] = @ \cup S], n, open)
<1> DEFINE more == [known EXCEPT ![d] = @ \cup S]
<1>1. \A e \in Dir : known[e] \subseteq more[e]
  OBVIOUS
<1> HIDE DEF more
<1>2. Lot(I, more, n, open)
  BY <1>1 DEF Lot
<1>3. QED
  BY <1>2 DEF more

\* A candidate that is staged is upgraded, queued, or kept for its directory.
LEMMA StageStock ==
  ASSUME NEW s, NEW n \in Nat, Staging(s, n), NEW c, Sound(c), c.nmap = 0, NEW k, Knows(k)
  PROVE  /\ Staging(stageDirCandidate(s, c, k), n)
         /\ Idents(Range(s.heap)) \subseteq Idents(Range(stageDirCandidate(s, c, k).heap))
<1> DEFINE waiting == {w \in s.pending[c.dir] : w.path = c.path}
           upgrade == [e \in Range(s.heap) |-> UpgradedScored(e, c, k)]
           up1 == UpdateMatching(s.heap, Id(c), upgrade)
           push == Push(s.heap, Scored(c, k))
           more == IF waiting = {} THEN s.pending[c.dir] \cup {c}
                   ELSE (s.pending[c.dir] \ waiting) \cup {Upgraded(w, c) : w \in waiting}
           known == [s.known EXCEPT ![c.dir] = @ \cup {c.path}]
           pend == [s.pending EXCEPT ![c.dir] = more]
           r == stageDirCandidate(s, c, k)
           A == Idents(Range(s.heap))
<1>1. \/ r = [s EXCEPT !.heap = up1]
      \/ /\ dirs[c.dir] = "scanning" /\ c.path \notin s.known[c.dir]
         /\ r = [s EXCEPT !.heap = push, !.known[c.dir] = @ \cup {c.path}]
      \/ r = [s EXCEPT !.pending[c.dir] = more]
  BY DEF stageDirCandidate
<1>2. /\ s = [heap |-> s.heap, known |-> s.known, pending |-> s.pending]
      /\ DOMAIN s.known = Dir /\ Waiting(s.pending)
      /\ Stored(s.heap) /\ Lot(A, s.known, n, Scanning)
  BY DEF Staging, Stock
<1>3. c.dir \in Dir /\ c.base \in Nat /\ Scanning \in SUBSET Dir
  BY DEF Sound, Scanning
<1>4. Stored(up1) /\ Idents(Range(up1)) = A
  BY <1>2, <1>3, UpgradeStored
<1>5. Waiting(pend)
  <2> DEFINE w0 == waiting
             m0 == more
  <2>1. w0 = {w \in s.pending[c.dir] : w.path = c.path}
    OBVIOUS
  <2>2. m0 = IF w0 = {} THEN s.pending[c.dir] \cup {c}
             ELSE (s.pending[c.dir] \ w0) \cup {Upgraded(w, c) : w \in w0}
    OBVIOUS
  <2> HIDE DEF w0, m0
  <2>3. Waiting([s.pending EXCEPT ![c.dir] = m0])
    BY <1>2, <2>1, <2>2, StagePending
  <2>4. QED
    BY <2>3 DEF m0, w0
<1>6. ASSUME dirs[c.dir] = "scanning", c.path \notin s.known[c.dir]
      PROVE  Stock(push, known, n, Scanning) /\ A \subseteq Idents(Range(push))
  <2> DEFINE e == Scored(c, k)
  <2>1. Sound(e) /\ Ident(e) = Ident(c)
    BY ScoredSound
  <2> HIDE DEF e
  <2>2. Ident(e) = <<c.dir, c.path, 0>>
    BY <2>1 DEF Ident
  <2>3. Ident(e) \notin A
    <3> DEFINE id == Ident(e)
    <3>1. id[1] = c.dir /\ id[2] = c.path /\ id[3] = 0
      BY <2>2
    <3> HIDE DEF id, A
    <3>2. QED
      BY <1>2, <1>6, <3>1 DEF Lot, id
  <2>4. Stored(push) /\ Range(push) = Range(s.heap) \cup {e}
    BY <1>2, <2>1, <2>3, PushStored DEF e
  <2>5. Idents(Range(push)) = A \cup {Ident(e)}
    BY <2>4 DEF Idents
  <2>6. Lot(A, known, n, Scanning)
    <3> HIDE DEF A
    <3> QED BY <1>2, <1>3, LotGrows
  <2>7. c.path \in known[c.dir] /\ c.dir \in Scanning /\ 0 \in 0..n
    BY <1>2, <1>3, <1>6 DEF Scanning
  <2> HIDE DEF known, push, A
  <2>8. Lot(A \cup {Ident(e)}, known, n, Scanning)
    <3> SUFFICES ASSUME NEW id \in A \cup {Ident(e)}
                 PROVE  /\ id[1] \in Scanning /\ id[3] \in 0..n
                        /\ id[3] = 0 => id[2] \in known[id[1]]
      BY DEF Lot
    <3>1. CASE id \in A
      BY <2>6, <3>1 DEF Lot
    <3>2. CASE id = Ident(e)
      <4>1. id[1] = c.dir /\ id[2] = c.path /\ id[3] = 0
        BY <2>2, <3>2
      <4>2. QED
        BY <2>7, <4>1
    <3>3. QED
      BY <3>1, <3>2
  <2>9. QED
    BY <2>4, <2>5, <2>8 DEF Stock
<1> HIDE DEF up1, push, more, A
<1>7. CASE r = [s EXCEPT !.heap = up1]
  <2>1. r = [heap |-> up1, known |-> s.known, pending |-> s.pending]
    BY <1>2, <1>7
  <2> HIDE DEF r
  <2>2. r.heap = up1 /\ r.known = s.known /\ r.pending = s.pending
    BY <2>1
  <2>3. Stock(up1, s.known, n, Scanning)
    BY <1>2, <1>4 DEF Stock
  <2>4. Staging(r, n) /\ A \subseteq Idents(Range(r.heap))
    BY <1>2, <1>4, <2>1, <2>2, <2>3 DEF Staging
  <2>5. QED
    BY <2>4 DEF r, A
<1>8. CASE /\ dirs[c.dir] = "scanning" /\ c.path \notin s.known[c.dir]
           /\ r = [s EXCEPT !.heap = push, !.known[c.dir] = @ \cup {c.path}]
  <2> DEFINE mid == [s EXCEPT !.heap = push]
  <2>1. mid = [heap |-> push, known |-> s.known, pending |-> s.pending]
    BY <1>2
  <2>2. r = [mid EXCEPT !.known[c.dir] = @ \cup {c.path}]
    BY <1>8
  <2>3. DOMAIN known = Dir
    BY <1>2
  <2> HIDE DEF mid, r
  <2>4. r = [heap |-> push, known |-> known, pending |-> s.pending]
    BY <2>1, <2>2
  <2> HIDE DEF known
  <2>5. r.heap = push /\ r.known = known /\ r.pending = s.pending
    BY <2>4
  <2>6. Stock(push, known, n, Scanning) /\ A \subseteq Idents(Range(push))
    BY <1>6, <1>8
  <2>7. Staging(r, n) /\ A \subseteq Idents(Range(r.heap))
    BY <1>2, <2>3, <2>4, <2>5, <2>6 DEF Staging
  <2>8. QED
    BY <2>7 DEF r, A
<1>9. CASE r = [s EXCEPT !.pending[c.dir] = more]
  <2>1. r = [heap |-> s.heap, known |-> s.known, pending |-> pend]
    BY <1>2, <1>9
  <2> HIDE DEF r, pend
  <2>2. r.heap = s.heap /\ r.known = s.known /\ r.pending = pend
    BY <2>1
  <2>3. Stock(s.heap, s.known, n, Scanning)
    BY DEF Staging
  <2>4. Staging(r, n) /\ A \subseteq Idents(Range(r.heap))
    BY <1>2, <1>5, <2>1, <2>2, <2>3 DEF Staging, A
  <2>5. QED
    BY <2>4 DEF r, A
<1>10. QED
  BY <1>1, <1>7, <1>8, <1>9

\* A seed.
LEMMA SeedStock ==
  ASSUME Waiting(pendingSeeds), DOMAIN knownPaths = Dir, NEW n \in Nat, NEW h,
         Stock(h, knownPaths, n, Scanning), NEW k, Knows(k),
         NEW sd, sd.dir \in Dir, sd.base \in Nat, enqueueSeed(sd, h, k)
  PROVE  /\ Waiting(pendingSeeds') /\ DOMAIN knownPaths' = Dir
         /\ Stock(heap', knownPaths', n, Scanning)
         /\ Idents(Range(h)) \subseteq Idents(Range(heap'))
<1> DEFINE now == [heap |-> h, known |-> knownPaths, pending |-> pendingSeeds]
           rootward == SeedCandidate(Root, SubName, "dir", sd)
           chain == IF sd.dir = Root THEN now ELSE stageDirCandidate(now, rootward, k)
           cand == SeedCandidate(sd.dir, sd.path, sd.kind, sd)
           all == stageDirCandidate(chain, cand, k)
<1>1. heap' = all.heap /\ knownPaths' = all.known /\ pendingSeeds' = all.pending
  BY DEF enqueueSeed
<1>2. Staging(now, n) /\ now.heap = h
  BY DEF Staging
<1>3. Sound(rootward) /\ rootward.nmap = 0
  <2>1. rootward = Candidate(Root, SubName, "dir", sd.base, {"generic"}, sd.crawl) /\ Root \in Dir
    BY DEF SeedCandidate, Dir
  <2> HIDE DEF rootward
  <2>2. QED
    BY <2>1, CandidateHas
<1>4. Sound(cand) /\ cand.nmap = 0
  <2>1. cand = Candidate(sd.dir, sd.path, sd.kind, sd.base, {"generic"}, sd.crawl)
    BY DEF SeedCandidate
  <2> HIDE DEF cand
  <2>2. QED
    BY <2>1, CandidateHas
<1> HIDE DEF now, rootward, cand
<1>5. Staging(chain, n) /\ Idents(Range(h)) \subseteq Idents(Range(chain.heap))
  BY <1>2, <1>3, StageStock
<1> HIDE DEF chain
<1>6. Staging(all, n) /\ Idents(Range(chain.heap)) \subseteq Idents(Range(all.heap))
  BY <1>4, <1>5, StageStock
<1> HIDE DEF all
<1>7. QED
  BY <1>1, <1>5, <1>6 DEF Staging

-----------------------------------------------------------------------------
(* The heap holds every candidate once, best first.                          *)

\* The heap is ordered and holds no candidate twice; what waits or is out belongs to a
\* directory that is scanned, and its path is known; the factors of the commands are
\* positive, and there are none before the target is profiled.
Stocked ==
  /\ Template(template) /\ Waiting(pendingSeeds) /\ DOMAIN knownPaths = Dir
  /\ Stock(heap, knownPaths, Len(nmapSeeds), Scanning)
  /\ \A c \in out : Sound(c) /\ c.dir \in Scanning
  /\ Factors(overrides)
  /\ dirs[Root] = "absent" => overrides = <<>>

StockInv == RankInv /\ Stocked

\* What waited still waits.
Kept == Idents(Range(heap)) \subseteq Idents(Range(heap'))

\* An empty heap.
LEMMA EmptyStock ==
  ASSUME NEW known, NEW n, NEW open
  PROVE  Stock(<<>>, known, n, open)
<1> DEFINE h == <<>>
<1>1. h = [i \in 1..0 |-> h[i]] /\ 0 \in Nat
  <2>1. h \in Seq(Range(h)) /\ Len(h) = 0
    BY NoneIs DEF IsSeq
  <2> HIDE DEF h
  <2>2. h \in [1..0 -> Range(h)]
    BY <2>1, LenProperties
  <2>3. QED
    BY <2>2
<1> HIDE DEF h
<1>2. Batch(h) /\ Range(h) = {h[i] : i \in 1..0}
  <2> DEFINE n0 == 0
  <2>1. /\ n0 \in Nat /\ h = [i \in 1..n0 |-> h[i]]
        /\ \A i \in 1..n0 : FALSE
    BY <1>1
  <2> HIDE DEF n0
  <2>2. Batch(h) /\ Range(h) = {h[i] : i \in 1..n0}
    BY <2>1, BatchIs
  <2>3. QED
    BY <2>2 DEF n0
<1>3. Range(h) = {} /\ Idents(Range(h)) = {}
  BY <1>2 DEF Idents
<1>4. Len(h) = 0
  BY <1>1, SegmentIs
<1>5. Heap(h)
  BY <1>4 DEF Heap, Ordered
<1>6. QED
  BY <1>2, <1>3, <1>5 DEF Stock, Stored, Lot, h

\* It holds in the initial states.
LEMMA StockedInit == Init => Stocked
<1> SUFFICES ASSUME Init PROVE Stocked
  OBVIOUS
<1>1. /\ template = <<>> /\ overrides = <<>> /\ heap = <<>> /\ out = {}
      /\ pendingSeeds = [d \in Dir |-> {}] /\ knownPaths = [d \in Dir |-> {}]
  BY DEF Init
<1>2. Pending(pendingSeeds)
  BY <1>1, FS_EmptySet DEF Pending
<1>3. Waiting(pendingSeeds)
  BY <1>1, <1>2 DEF Waiting, Own
<1>4. Stock(heap, knownPaths, Len(nmapSeeds), Scanning)
  BY <1>1, EmptyStock
<1>5. Len(<<>>) = 0
  OBVIOUS
<1>6. Factors(overrides)
  BY <1>1, <1>5, NoneIs DEF Factors
<1>7. Template(template)
  BY <1>1, <1>5, NoTerms DEF Template
<1>8. QED
  BY <1>1, <1>3, <1>4, <1>6, <1>7 DEF Stocked

\* What the scores are computed from.
LEMMA KnowsNow ==
  ASSUME StockInv
  PROVE  Knows(Knowledge)
<1>1. Knowledge.profile = profile /\ Knowledge.overrides = overrides
  BY DEF Knowledge
<1>2. QED
  BY <1>1 DEF StockInv, RankInv, ProfileInv, Fair, Stocked, Knows

\* enqueueChildDirectory: a directory that is calibrated is not scanned yet.
LEMMA OpenedScanning ==
  ASSUME StockInv, NEW opens, Opened(opens)
  PROVE  Scanning' = Scanning /\ dirs'[Root] = dirs[Root]
<1>1. DOMAIN dirs = Dir
  BY DEF StockInv, RankInv, Baseline
<1>2. \/ dirs' = dirs
      \/ dirs' = [dirs EXCEPT ![Sub] = "calibrating"] /\ dirs[Sub] = "absent"
  BY DEF Opened, dirVars
<1>3. QED
  BY <1>1, <1>2, RankingAssumption DEF Scanning, Dir

\* The target is profiled: nothing waits.
LEMMA StockedFirst ==
  ASSUME StockInv, NEW matching, NEW named, ProfileAndSeed(matching, named)
  PROVE  Stocked' /\ Kept
<1> DEFINE p == VoteNmap(ProfileTarget(matching), matching)
<1>1. /\ dirs[Root] = "absent" /\ dirs' = [dirs EXCEPT ![Root] = "calibrating"]
      /\ knownPaths' = knownPaths /\ pendingSeeds' = pendingSeeds /\ heap' = heap
      /\ out' = out /\ overrides' = overrides
  BY DEF ProfileAndSeed, seedVars, heapVars, takeVars, userVars
<1>2. PICK exts \in ExtensionsForStack(p) : template' = Expand(Select(p), exts, p)
  BY DEF ProfileAndSeed
<1>3. p \in Profiles
  BY TargetFair DEF Fair
<1> HIDE DEF p
<1>4. Template(template')
  BY <1>2, <1>3, ExtensionsAre, SelectTerms, ExpandTemplate
<1>5. heap = <<>> /\ out = {} /\ Root \in DOMAIN dirs
  BY <1>1 DEF StockInv, RankInv, Baseline, Dir
<1>6. Stock(heap', knownPaths', Len(nmapSeeds'), Scanning')
  BY <1>1, <1>5, EmptyStock
<1>7. dirs'[Root] = "calibrating"
  BY <1>1, <1>5
<1>8. Stocked'
  BY <1>1, <1>4, <1>5, <1>6, <1>7 DEF StockInv, Stocked
<1>9. QED
  BY <1>1, <1>8 DEF Kept

\* A directory that is calibrated is scanned.
LEMMA PushedScanning ==
  ASSUME StockInv, NEW d \in Dir, dirs[d] = "calibrating", NEW h, NEW k, PushCandidates(d, h, k)
  PROVE  Scanning' = Scanning \cup {d} /\ d \notin Scanning /\ dirs'[Root] # "absent"
<1>1. DOMAIN dirs = Dir /\ (dirs[Root] = "absent" => dirs[Sub] = "absent")
  BY DEF StockInv, RankInv, Baseline
<1>2. dirs' = [dirs EXCEPT ![d] = "scanning"]
  BY DEF PushCandidates
<1>3. Scanning' = Scanning \cup {d} /\ d \notin Scanning
  BY <1>1, <1>2 DEF Scanning
<1>4. dirs[Root] # "absent"
  BY <1>1 DEF Dir
<1>5. QED
  BY <1>1, <1>2, <1>3, <1>4 DEF Dir

\* A directory other than the root.
LEMMA StockedSub ==
  ASSUME StockInv, FinishCalibrationSub
  PROVE  Stocked' /\ Kept
<1>1. /\ dirs[Sub] = "calibrating" /\ PushCandidates(Sub, heap, Knowledge)
      /\ template' = template /\ nmapSeeds' = nmapSeeds /\ out' = out /\ overrides' = overrides
  BY DEF FinishCalibrationSub, profileVars, takeVars, userVars
<1>2. Sub \in Dir /\ Scanning \in SUBSET Dir
  BY DEF Dir, Scanning
<1>3. Scanning' = Scanning \cup {Sub} /\ Sub \notin Scanning /\ dirs'[Root] # "absent"
  BY <1>1, <1>2, PushedScanning
<1>4. Knows(Knowledge)
  BY KnowsNow
<1>5. /\ Template(template) /\ Waiting(pendingSeeds) /\ DOMAIN knownPaths = Dir /\ IsSeq(nmapSeeds)
      /\ Stock(heap, knownPaths, Len(nmapSeeds), Scanning)
  BY DEF StockInv, RankInv, Ranked, Stocked
<1>6. /\ Stock(heap', knownPaths', Len(nmapSeeds), Scanning \cup {Sub}) /\ Kept
      /\ Waiting(pendingSeeds') /\ DOMAIN knownPaths' = Dir
  BY <1>1, <1>2, <1>3, <1>4, <1>5, PushCandidatesStock DEF Kept
<1>7. QED
  BY <1>1, <1>3, <1>6 DEF StockInv, Stocked

\* The root, refined, swept, and calibrated again or scanned.
LEMMA StockedRoot ==
  ASSUME StockInv, NEW matching, NEW spa, FinishCalibrationRoot(matching, spa)
  PROVE  Stocked' /\ Kept
<1> DEFINE p == IF Refines THEN RefineAfterCalibration(profile, matching) ELSE profile
           refined == [Knowledge EXCEPT !.profile = p]
           swept == IF profileSignature(p) # lastReprioSig THEN Sweep(heap, refined) ELSE heap
           pivot == [refined EXCEPT !.spa = spaMode \/ spa]
           queued == IF spa THEN Sweep(swept, pivot) ELSE swept
           A == Idents(Range(heap))
           n == Len(nmapSeeds)
<1>1. /\ dirs[Root] = "calibrating" /\ profile' = p
      /\ template' = template /\ nmapSeeds' = nmapSeeds /\ out' = out /\ overrides' = overrides
  BY DEF FinishCalibrationRoot, takeVars
<1>2. \/ /\ pendingSeeds' = [pendingSeeds EXCEPT ![Root] = {}] /\ heap' = swept
         /\ dirs' = dirs /\ knownPaths' = knownPaths
      \/ PushCandidates(Root, queued, pivot)
  BY DEF FinishCalibrationRoot
<1>3. p \in Profiles
  <2>1. ProfileInv'
    BY ProfileRefined DEF StockInv, RankInv
  <2>2. QED
    BY <1>1, <2>1 DEF ProfileInv, Fair
<1> HIDE DEF p
<1>4. refined = [profile |-> p, spa |-> spaMode, overrides |-> overrides, terms |-> hitTerms,
                 trained |-> trained, protected |-> sawProtected, listed |-> sawIndexOf]
  BY DEF Knowledge
<1> HIDE DEF refined
<1>5. pivot = [profile |-> p, spa |-> spaMode \/ spa, overrides |-> overrides, terms |-> hitTerms,
               trained |-> trained, protected |-> sawProtected, listed |-> sawIndexOf]
  BY <1>4
<1> HIDE DEF pivot
<1>6. Factors(overrides) /\ Stored(heap) /\ Lot(A, knownPaths, n, Scanning)
  BY DEF StockInv, Stocked, Stock
<1>7. Knows(refined) /\ Knows(pivot)
  <2>1. refined.profile = p /\ refined.overrides = overrides
    BY <1>4
  <2>2. pivot.profile = p /\ pivot.overrides = overrides
    BY <1>5
  <2>3. QED
    BY <1>3, <1>6, <2>1, <2>2 DEF Knows
<1>8. Stored(swept) /\ Idents(Range(swept)) = A
  BY <1>6, <1>7, SweepStored
<1> HIDE DEF swept
<1>9. Stored(queued) /\ Idents(Range(queued)) = A
  BY <1>7, <1>8, SweepStored
<1> HIDE DEF queued
<1>10. /\ Template(template) /\ Waiting(pendingSeeds) /\ DOMAIN knownPaths = Dir /\ IsSeq(nmapSeeds)
       /\ Root \in Dir /\ Scanning \in SUBSET Dir
  BY DEF StockInv, RankInv, Ranked, Stocked, Dir, Scanning
<1>11. CASE /\ pendingSeeds' = [pendingSeeds EXCEPT ![Root] = {}] /\ heap' = swept
            /\ dirs' = dirs /\ knownPaths' = knownPaths
  <2>1. Scanning' = Scanning
    BY <1>11 DEF Scanning
  <2>2. Pending(pendingSeeds')
    BY <1>10, <1>11, FS_EmptySet DEF Waiting, Pending
  <2>3. \A e \in Dir : Own(pendingSeeds'[e], e)
    BY <1>10, <1>11 DEF Waiting, Pending, Own
  <2>4. Waiting(pendingSeeds')
    BY <2>2, <2>3 DEF Waiting
  <2>5. Stock(heap', knownPaths', Len(nmapSeeds'), Scanning') /\ Kept
    BY <1>1, <1>6, <1>8, <1>11, <2>1 DEF Stock, Kept
  <2>6. QED
    BY <1>1, <1>11, <2>1, <2>4, <2>5 DEF StockInv, Stocked
<1>12. CASE PushCandidates(Root, queued, pivot)
  <2>1. Scanning' = Scanning \cup {Root} /\ Root \notin Scanning /\ dirs'[Root] # "absent"
    BY <1>1, <1>10, <1>12, PushedScanning
  <2>2. Stock(queued, knownPaths, n, Scanning)
    BY <1>6, <1>9 DEF Stock
  <2>3. /\ Stock(heap', knownPaths', n, Scanning \cup {Root})
        /\ A \subseteq Idents(Range(heap'))
        /\ Waiting(pendingSeeds') /\ DOMAIN knownPaths' = Dir
    BY <1>7, <1>9, <1>10, <1>12, <2>1, <2>2, PushCandidatesStock
  <2>4. QED
    BY <1>1, <2>1, <2>3 DEF StockInv, Stocked, Kept
<1>13. QED
  BY <1>2, <1>11, <1>12

\* What popNext chooses from.
LEMMA PopPositionsAre ==
  ASSUME StockInv, heap # <<>>
  PROVE  PopPositions \subseteq 1..Len(heap) /\ Len(heap) \in Nat /\ DOMAIN heap = 1..Len(heap)
<1>1. IsSeq(heap) /\ order \in {"strict", "band", "explore"}
  BY RankingAssumption DEF StockInv, RankInv, Ranked, Queue
<1>2. Len(heap) \in Nat /\ DOMAIN heap = 1..Len(heap) /\ Len(heap) # 0
  <2>1. heap \in Seq(Range(heap))
    BY <1>1 DEF IsSeq
  <2>2. QED
    BY <2>1, LenProperties, EmptySeq
<1>3. PopAt(heap) \subseteq DOMAIN heap
  BY <1>2 DEF PopAt
<1>4. PopBandAt(heap) \subseteq DOMAIN heap
  BY <1>3 DEF PopBandAt
<1>5. SampleMidTierAt(heap) \subseteq DOMAIN heap
  BY DEF SampleMidTierAt
<1>6. QED
  BY <1>1, <1>2, <1>3, <1>4, <1>5 DEF PopPositions

\* A dispatch takes one candidate out of the heap.
LEMMA StockedPop ==
  ASSUME StockInv, PopNext
  PROVE  Stocked'
<1>1. PICK i \in PopPositions : heap' = Pop(heap, i) /\ out' = out \cup {heap[i]}
  BY DEF PopNext
<1>2. /\ heap # <<>> /\ template' = template /\ nmapSeeds' = nmapSeeds /\ dirs' = dirs
      /\ knownPaths' = knownPaths /\ pendingSeeds' = pendingSeeds /\ overrides' = overrides
  BY DEF PopNext, profileVars, dirVars, seedVars, userVars
<1>3. i \in 1..Len(heap) /\ DOMAIN heap = 1..Len(heap)
  BY <1>1, <1>2, PopPositionsAre
<1>4. Stored(heap) /\ Lot(Idents(Range(heap)), knownPaths, Len(nmapSeeds), Scanning)
  BY DEF StockInv, Stocked, Stock
<1>5. Stored(heap') /\ Range(heap') = Range(heap) \ {heap[i]}
  BY <1>1, <1>3, <1>4, PopStored
<1>6. Scanning' = Scanning
  BY <1>2 DEF Scanning
<1>7. Idents(Range(heap')) \subseteq Idents(Range(heap))
  BY <1>5 DEF Idents
<1>8. Stock(heap', knownPaths', Len(nmapSeeds'), Scanning')
  BY <1>2, <1>4, <1>5, <1>6, <1>7 DEF Stock, Lot
<1>9. Sound(heap[i]) /\ heap[i].dir \in Scanning
  <2>1. heap[i] \in Range(heap)
    BY <1>3 DEF Range
  <2>2. Ident(heap[i]) \in Idents(Range(heap))
    BY <2>1 DEF Idents
  <2>3. Ident(heap[i])[1] = heap[i].dir
    BY DEF Ident
  <2>4. Sound(heap[i])
    BY <1>4, <2>1 DEF Stored, Batch
  <2>5. QED
    BY <1>4, <2>2, <2>3, <2>4 DEF Lot
<1>10. QED
  BY <1>1, <1>2, <1>6, <1>8, <1>9 DEF StockInv, Stocked

\* What a hit suggests are candidates of its directory, one for a path: only a file has
\* backups, and its siblings are files as well.
LEMMA GenerateOwn ==
  ASSUME NEW c, Sound(c)
  PROVE  Own(Generate(c), c.dir)
<1> DEFINE suffixes == Range(BackupSuffixes)
           backups == IF c.kind = "file" THEN {Append(c.path, s) : s \in suffixes} ELSE {}
           siblings == {pair[2] : pair \in {q \in Siblings : q[1] = c.path}}
           no == FALSE
           of(path, kind) == Candidate(c.dir, path, kind, c.base, c.tags, no)
<1>1. Generate(c) = {of(path, "file") : path \in backups} \cup {of(path, c.kind) : path \in siblings}
  BY DEF Generate
<1>2. \A path \in backups : c.kind = "file"
  OBVIOUS
<1> HIDE DEF backups, siblings, no
<1>3. ASSUME NEW path, NEW kind
      PROVE  /\ Sound(of(path, kind)) /\ of(path, kind).dir = c.dir
             /\ of(path, kind).path = path /\ of(path, kind).nmap = 0
  <2> DEFINE x == of(path, kind)
             b == c.base
             d == c.dir
             tags == c.tags
  <2>1. b \in Nat /\ d \in Dir /\ x = Candidate(d, path, kind, b, tags, no)
    BY DEF Sound
  <2> HIDE DEF x, b, d, tags
  <2>2. Sound(x) /\ x.dir = d /\ x.path = path /\ x.nmap = 0
    BY <2>1, CandidateHas
  <2>3. QED
    BY <2>2 DEF x, b, d, tags
<1>4. \A x \in Generate(c) : \E path : x = of(path, c.kind)
  BY <1>1, <1>2
<1> HIDE DEF of
<1>5. \A x \in Generate(c) : x = of(x.path, c.kind) /\ Sound(x) /\ x.dir = c.dir /\ x.nmap = 0
  BY <1>3, <1>4
<1>6. QED
  BY <1>5 DEF Own

\* What is new joins the heap, and its paths are known.
LEMMA NewStock ==
  ASSUME NEW h, NEW known, DOMAIN known = Dir, NEW n \in Nat, NEW open \in SUBSET Dir,
         Stock(h, known, n, open), NEW k, Knows(k), NEW d \in open, NEW new, IsFiniteSet(new),
         Own(new, d), \A c \in new : c.path \notin known[d], NEW g \in Enqueued(h, new, k),
         NEW more, \A e \in Dir : known[e] \subseteq more[e], \A c \in new : c.path \in more[d]
  PROVE  Stock(g, more, n, open) /\ Idents(Range(h)) \subseteq Idents(Range(g))
<1> DEFINE A == Idents(Range(h))
           B == Idents(new)
<1>1. Stored(h) /\ Lot(A, known, n, open)
  BY DEF Stock
<1>2. Apart(new) /\ (\A c \in new : Sound(c)) /\ B = {<<d, c.path, 0>> : c \in new}
  BY OwnApart
<1>3. \A id \in B : id[1] = d /\ id[3] = 0 /\ id[2] \notin known[d] /\ id[2] \in more[d]
  BY <1>2
<1>4. A \cap B = {}
  <2> HIDE DEF A, B
  <2> QED BY <1>1, <1>3 DEF Lot
<1>5. Stored(g) /\ Idents(Range(g)) = A \cup B
  BY <1>1, <1>2, <1>4, EnqueuedStored
<1>6. Lot(A, more, n, open)
  <2> HIDE DEF A
  <2> QED BY <1>1 DEF Lot
<1> HIDE DEF A, B
<1>7. Lot(A \cup B, more, n, open)
  BY <1>3, <1>6 DEF Lot
<1>8. QED
  BY <1>5, <1>7 DEF Stock, A

\* A hit.
LEMMA StockedHit ==
  ASSUME StockInv, NEW c, NEW what, NEW opens, LearnFromHit(c, what, opens)
  PROVE  Stocked' /\ Kept /\ out' \subseteq out
<1> DEFINE protected == sawProtected \cup IF what = "protected" THEN {c.dir} ELSE {}
           listed == sawIndexOf \cup IF what = "listing" /\ Id(c) = <<Root, SubName>> THEN {Sub} ELSE {}
           terms == [hitTerms EXCEPT ![c.dir] = @ \cup {c.path}]
           more == trained + 1
           k == [Knowledge EXCEPT !.protected = protected, !.listed = listed, !.terms = terms,
                                  !.trained = more]
           known == knownPaths[c.dir]
           new == Unknown(Generate(c), known)
           n == Len(nmapSeeds)
<1>1. /\ c \in out /\ out' = out \ {c} /\ Opened(opens)
      /\ knownPaths' = [knownPaths EXCEPT ![c.dir] = @ \cup {x.path : x \in new}]
  BY DEF LearnFromHit
<1>2. PICK g \in Enqueued(heap, new, k) : heap' = IF SweepDue THEN Sweep(g, k) ELSE g
  BY DEF LearnFromHit
<1>3. /\ template' = template /\ nmapSeeds' = nmapSeeds /\ pendingSeeds' = pendingSeeds
      /\ overrides' = overrides
  BY DEF LearnFromHit, profileVars, userVars
<1> HIDE DEF protected, listed, terms, more
<1>4. k = [profile |-> profile, spa |-> spaMode, overrides |-> overrides, terms |-> terms,
           trained |-> more, protected |-> protected, listed |-> listed]
  <2> DEFINE k1 == [Knowledge EXCEPT !.protected = protected]
             k2 == [k1 EXCEPT !.listed = listed]
             k3 == [k2 EXCEPT !.terms = terms]
  <2>1. k = [k3 EXCEPT !.trained = more]
    BY Zenon
  <2>2. k1 = [profile |-> profile, spa |-> spaMode, overrides |-> overrides, terms |-> hitTerms,
              trained |-> trained, protected |-> protected, listed |-> sawIndexOf]
    BY DEF Knowledge
  <2> HIDE DEF k, k1
  <2>3. k2 = [profile |-> profile, spa |-> spaMode, overrides |-> overrides, terms |-> hitTerms,
              trained |-> trained, protected |-> protected, listed |-> listed]
    BY <2>2
  <2> HIDE DEF k2
  <2>4. k3 = [profile |-> profile, spa |-> spaMode, overrides |-> overrides, terms |-> terms,
              trained |-> trained, protected |-> protected, listed |-> listed]
    BY <2>3
  <2> HIDE DEF k3
  <2>5. QED
    BY <2>1, <2>4
<1> HIDE DEF k
<1>5. k.profile = profile /\ k.overrides = overrides
  BY <1>4
<1>6. Knows(k)
  BY <1>5 DEF StockInv, RankInv, ProfileInv, Fair, Stocked, Knows
<1>7. Sound(c) /\ c.dir \in Scanning
  BY <1>1 DEF StockInv, Stocked
<1>8. IsFiniteSet(new) /\ Own(new, c.dir) /\ \A x \in new : x.path \notin knownPaths[c.dir]
  <2>1. new \subseteq Generate(c) /\ \A x \in new : x.path \notin knownPaths[c.dir]
    BY DEF Unknown
  <2>2. IsFiniteSet(Generate(c)) /\ Own(Generate(c), c.dir)
    BY <1>7, GenerateIs, GenerateOwn
  <2> HIDE DEF new
  <2>3. IsFiniteSet(new)
    BY <2>1, <2>2, FS_Subset
  <2>4. QED
    BY <2>1, <2>2, <2>3 DEF Own
<1> HIDE DEF new
<1>9. /\ Stock(heap, knownPaths, n, Scanning) /\ DOMAIN knownPaths = Dir /\ n \in Nat
      /\ Scanning \in SUBSET Dir
  <2>1. IsSeq(nmapSeeds)
    BY DEF StockInv, RankInv, Ranked
  <2>2. n \in Nat
    BY <2>1, SeqIs DEF IsSeq
  <2>3. QED
    BY <2>2 DEF StockInv, Stocked, Scanning
<1>10. Stock(g, knownPaths', n, Scanning) /\ Idents(Range(heap)) \subseteq Idents(Range(g))
  <2> DEFINE d == c.dir
             all == knownPaths'
  <2>1. d \in Scanning /\ Own(new, d) /\ \A x \in new : x.path \notin knownPaths[d]
    BY <1>7, <1>8
  <2>2. (\A e \in Dir : knownPaths[e] \subseteq all[e]) /\ \A x \in new : x.path \in all[d]
    BY <1>1, <1>9, <2>1
  <2> HIDE DEF d, n, all
  <2>3. Stock(g, all, n, Scanning) /\ Idents(Range(heap)) \subseteq Idents(Range(g))
    BY <1>6, <1>8, <1>9, <2>1, <2>2, NewStock
  <2>4. QED
    BY <2>3 DEF all
<1>11. Stock(heap', knownPaths', n, Scanning) /\ Kept
  <2>1. CASE SweepDue
    <3>1. Stored(g) /\ heap' = Sweep(g, k)
      BY <1>2, <1>10, <2>1 DEF Stock
    <3>2. Stored(Sweep(g, k)) /\ Idents(Range(Sweep(g, k))) = Idents(Range(g))
      BY <1>6, <3>1, SweepStored
    <3>3. QED
      BY <1>10, <3>1, <3>2 DEF Stock, Kept
  <2>2. CASE ~SweepDue
    BY <1>2, <1>10, <2>2 DEF Kept
  <2>3. QED
    BY <2>1, <2>2
<1>12. Scanning' = Scanning /\ dirs'[Root] = dirs[Root]
  BY <1>1, OpenedScanning
<1>13. DOMAIN knownPaths' = Dir
  BY <1>1, <1>9
<1>14. QED
  BY <1>1, <1>3, <1>11, <1>12, <1>13 DEF StockInv, Stocked

\* A step that changes none of this.
LEMMA StockedKept ==
  ASSUME StockInv, template' = template, nmapSeeds' = nmapSeeds, pendingSeeds' = pendingSeeds,
         knownPaths' = knownPaths, heap' = heap, overrides' = overrides, out' \subseteq out,
         Scanning' = Scanning, dirs'[Root] = dirs[Root]
  PROVE  Stocked' /\ Kept
BY DEF StockInv, Stocked, Kept

\* A seed.
LEMMA StockedSeed ==
  ASSUME StockInv, NEW sd \in Seeds, Seed(sd)
  PROVE  Stocked' /\ Kept
<1>1. /\ enqueueSeed(sd, heap, Knowledge) /\ dirs[Root] # "absent"
      /\ template' = template /\ nmapSeeds' = nmapSeeds /\ overrides' = overrides /\ out' = out
  BY DEF Seed, Event, profileVars, takeVars
<1>2. sd.dir \in Dir /\ sd.base \in Nat
  BY RankingAssumption
<1>3. /\ Waiting(pendingSeeds) /\ DOMAIN knownPaths = Dir /\ IsSeq(nmapSeeds)
      /\ Stock(heap, knownPaths, Len(nmapSeeds), Scanning)
  BY DEF StockInv, RankInv, Ranked, Stocked
<1>4. Len(nmapSeeds) \in Nat
  BY <1>3, SeqIs DEF IsSeq
<1>5. /\ Waiting(pendingSeeds') /\ DOMAIN knownPaths' = Dir
      /\ Stock(heap', knownPaths', Len(nmapSeeds), Scanning) /\ Kept
  BY <1>1, <1>2, <1>3, <1>4, KnowsNow, SeedStock DEF Kept
<1>6. Scanning' = Scanning /\ dirs'[Root] = dirs[Root]
  BY <1>1, OpenedScanning DEF enqueueSeed
<1>7. QED
  BY <1>1, <1>5, <1>6 DEF StockInv, Stocked

\* A command has a positive factor.
LEMMA CommandFactors ==
  ASSUME NEW ovs, Factors(ovs), NEW ov, ov.factor \in Nat \ {0}
  PROVE  Factors(Append(ovs, ov))
<1> DEFINE more == Append(ovs, ov)
           E == Range(ovs) \cup {ov}
<1>1. IsSeq(more)
  BY AppendIs DEF Factors
<1>2. ovs \in Seq(E) /\ ov \in E
  <2>1. ovs \in Seq(Range(ovs)) /\ Range(ovs) \subseteq E /\ ov \in E
    BY DEF Factors, IsSeq
  <2> HIDE DEF E
  <2>2. QED
    BY <2>1, SeqMonotonic
<1> HIDE DEF E
<1>3. Len(more) = Len(ovs) + 1 /\ Len(ovs) \in Nat
      /\ \A i \in 1..Len(more) : more[i] = ov \/ (i \in 1..Len(ovs) /\ more[i] = ovs[i])
  BY <1>2, AppendProperties, LenProperties
<1> HIDE DEF more
<1>4. QED
  BY <1>1, <1>3 DEF Factors, more

\* What a command makes of what the scores are computed from.
LEMMA CommandKnows ==
  ASSUME StockInv, NEW ov, ov.factor \in Nat \ {0}, NEW k, k = Commanded(ov)
  PROVE  Knows(k) /\ k.overrides = Append(overrides, ov) /\ Factors(Append(overrides, ov))
<1>1. k = [profile |-> profile, spa |-> spaMode, overrides |-> Append(overrides, ov),
           terms |-> hitTerms, trained |-> trained, protected |-> sawProtected,
           listed |-> sawIndexOf]
  BY DEF Commanded, Knowledge
<1>2. k.profile = profile /\ k.overrides = Append(overrides, ov)
  BY <1>1
<1>3. Factors(overrides) /\ profile \in Profiles
  BY DEF StockInv, RankInv, ProfileInv, Fair, Stocked
<1>4. QED
  BY <1>2, <1>3, CommandFactors DEF Knows

\* A pin, which may queue what it names.
LEMMA StockedPin ==
  ASSUME StockInv, NEW p \in Patterns, ApplyPin(p)
  PROVE  Stocked' /\ Kept
<1> DEFINE ov == [kind |-> "boost", factor |-> PinScore, covers |-> p.covers]
           k == Commanded(ov)
           swept == Sweep(heap, k)
           sd == [dir |-> p.names[1], path |-> p.names[2], kind |-> "file", base |-> One,
                  crawl |-> FALSE]
           n == Len(nmapSeeds)
           A == Idents(Range(heap))
<1>1. /\ overrides' = k.overrides /\ dirs[Root] # "absent"
      /\ template' = template /\ nmapSeeds' = nmapSeeds /\ out' = out
      /\ IF p.names = <<>> THEN /\ heap' = swept /\ pendingSeeds' = pendingSeeds
                                /\ knownPaths' = knownPaths /\ dirs' = dirs
         ELSE enqueueSeed(sd, swept, k)
  BY DEF ApplyPin, MayOverride, Event, profileVars, takeVars, dirVars
<1>2. ov.factor \in Nat \ {0}
  BY DEF PinScore
<1> HIDE DEF ov
<1>3. Knows(k) /\ Factors(overrides')
  BY <1>1, <1>2, CommandKnows
<1>4. /\ Waiting(pendingSeeds) /\ DOMAIN knownPaths = Dir /\ IsSeq(nmapSeeds)
      /\ Stored(heap) /\ Lot(A, knownPaths, n, Scanning)
  BY DEF StockInv, RankInv, Ranked, Stocked, Stock
<1> HIDE DEF k
<1>5. Stored(swept) /\ Idents(Range(swept)) = A
  BY <1>3, <1>4, SweepStored
<1>6. Stock(swept, knownPaths, n, Scanning) /\ n \in Nat
  BY <1>4, <1>5, SeqIs DEF Stock, IsSeq
<1> HIDE DEF swept
<1>7. /\ Waiting(pendingSeeds') /\ DOMAIN knownPaths' = Dir
      /\ Stock(heap', knownPaths', n, Scanning) /\ A \subseteq Idents(Range(heap'))
      /\ Scanning' = Scanning /\ dirs'[Root] = dirs[Root]
  <2>1. CASE p.names = <<>>
    BY <1>1, <1>4, <1>5, <1>6, <2>1 DEF Scanning
  <2>2. CASE p.names # <<>>
    <3>1. p.names \in Dir \X Seq(STRING)
      BY <2>2, RankingAssumption
    <3>2. sd.dir \in Dir /\ sd.base \in Nat
      BY <3>1 DEF One
    <3> HIDE DEF sd
    <3>3. enqueueSeed(sd, swept, k)
      BY <1>1, <2>2
    <3>4. /\ Waiting(pendingSeeds') /\ DOMAIN knownPaths' = Dir
          /\ Stock(heap', knownPaths', n, Scanning)
          /\ Idents(Range(swept)) \subseteq Idents(Range(heap'))
      BY <1>3, <1>4, <1>6, <3>2, <3>3, SeedStock
    <3>5. Scanning' = Scanning /\ dirs'[Root] = dirs[Root]
      BY <3>3, OpenedScanning DEF enqueueSeed
    <3>6. QED
      BY <1>5, <3>4, <3>5
  <2>3. QED
    BY <2>1, <2>2
<1>8. QED
  BY <1>1, <1>3, <1>7 DEF StockInv, Stocked, Kept

\* A boost or a demotion.
LEMMA StockedOverride ==
  ASSUME StockInv, NEW p, NEW kind, ApplyOverride(p, kind)
  PROVE  Stocked' /\ Kept
<1> DEFINE ov == [kind |-> kind, factor |-> Factor, covers |-> p.covers]
           k == Commanded(ov)
<1>1. /\ overrides' = k.overrides /\ heap' = Sweep(heap, k) /\ dirs' = dirs /\ dirs[Root] # "absent"
      /\ template' = template /\ nmapSeeds' = nmapSeeds /\ out' = out
      /\ knownPaths' = knownPaths /\ pendingSeeds' = pendingSeeds
  BY DEF ApplyOverride, MayOverride, Event, profileVars, dirVars, seedVars, takeVars
<1>2. ov.factor \in Nat \ {0}
  BY RankingAssumption
<1> HIDE DEF ov
<1>3. Knows(k) /\ Factors(overrides')
  BY <1>1, <1>2, CommandKnows
<1>4. Stored(heap) /\ Lot(Idents(Range(heap)), knownPaths, Len(nmapSeeds), Scanning)
  BY DEF StockInv, Stocked, Stock
<1> HIDE DEF k
<1>5. Stored(heap') /\ Idents(Range(heap')) = Idents(Range(heap))
  BY <1>1, <1>3, <1>4, SweepStored
<1>6. Scanning' = Scanning
  BY <1>1 DEF Scanning
<1>7. Stock(heap', knownPaths', Len(nmapSeeds'), Scanning') /\ Kept
  BY <1>1, <1>4, <1>5, <1>6 DEF Stock, Kept
<1>8. QED
  BY <1>1, <1>3, <1>6, <1>7 DEF StockInv, Stocked

\* An exclusion.
LEMMA StockedExclude ==
  ASSUME StockInv, NEW p, ApplyExclude(p)
  PROVE  Stocked' /\ Range(heap') = Range(heap) \ {c \in Range(heap) : Id(c) \in p.covers}
<1> DEFINE ov == [kind |-> "exclude", factor |-> 1, covers |-> p.covers]
           covered == {c \in Range(heap) : Id(c) \in p.covers}
<1>1. /\ overrides' = Append(overrides, ov) /\ heap' = RemoveMatching(heap, covered)
      /\ dirs' = dirs /\ dirs[Root] # "absent"
      /\ template' = template /\ nmapSeeds' = nmapSeeds /\ out' = out
      /\ knownPaths' = knownPaths /\ pendingSeeds' = pendingSeeds
  BY DEF ApplyExclude, Event, profileVars, dirVars, seedVars, takeVars
<1>2. ov.factor \in Nat \ {0}
  OBVIOUS
<1> HIDE DEF ov, covered
<1>3. Factors(overrides')
  BY <1>1, <1>2, CommandFactors DEF StockInv, Stocked
<1>4. Stored(heap) /\ Lot(Idents(Range(heap)), knownPaths, Len(nmapSeeds), Scanning)
  BY DEF StockInv, Stocked, Stock
<1>5. Stored(heap') /\ Range(heap') = Range(heap) \ covered
  BY <1>1, <1>4, ExcludeStored
<1>6. Scanning' = Scanning /\ Idents(Range(heap')) \subseteq Idents(Range(heap))
  BY <1>1, <1>5 DEF Scanning, Idents
<1>7. Stock(heap', knownPaths', Len(nmapSeeds'), Scanning')
  BY <1>1, <1>4, <1>5, <1>6 DEF Stock, Lot
<1>8. Stocked'
  BY <1>1, <1>3, <1>6, <1>7 DEF StockInv, Stocked
<1>9. QED
  BY <1>5, <1>8 DEF covered

-----------------------------------------------------------------------------
(* The heap is the priority queue.                                           *)

\* What the queue knows of a candidate and of a heap.
Entry(c) == [id |-> Ident(c), score |-> c.score]
Entries(h) == {[id |-> Ident(h[i]), score |-> h[i].score] : i \in DOMAIN h}

\* A set has as many elements as what an injective function makes of it.
LEMMA ImageCounts ==
  ASSUME NEW S, IsFiniteSet(S), NEW f, f = [x \in S |-> f[x]], NEW T, T = {f[x] : x \in S},
         \A x, y \in S : f[x] = f[y] => x = y
  PROVE  Cardinality(T) = Cardinality(S)
<1>1. f \in Bijection(S, T)
  BY DEF Bijection, Injection, Surjection, IsInjective
<1>2. ExistsBijection(S, T)
  BY <1>1 DEF ExistsBijection
<1>3. QED
  BY <1>2, FS_Bijection

\* The entries of a heap are as many as its candidates, and so are their names.
LEMMA EntriesAre ==
  ASSUME NEW h, Stored(h)
  PROVE  /\ \A c \in Range(h) : Entry(c) \in Entries(h)
         /\ \A e \in Entries(h) : \E c \in Range(h) : e = Entry(c)
         /\ {e.id : e \in Entries(h)} = Idents(Range(h))
         /\ Cardinality(Entries(h)) = Len(h)
         /\ Cardinality({e.id : e \in Entries(h)}) = Len(h)
<1> DEFINE n == Len(h)
           Q == Entries(h)
           I == {e.id : e \in Q}
<1>1. /\ n \in Nat /\ DOMAIN h = 1..n /\ Range(h) = {h[i] : i \in 1..n}
      /\ \A i, j \in 1..n : Ident(h[i]) = Ident(h[j]) => i = j
  BY BatchHas DEF Stored, Range
<1>2. Q = {Entry(h[i]) : i \in 1..n}
  BY <1>1 DEF Entries, Entry
<1>3. \A c : Entry(c).id = Ident(c)
  BY DEF Entry
<1> HIDE DEF Q, n
<1>4. I = {Ident(h[i]) : i \in 1..n}
  BY <1>2, <1>3
<1>5. IsFiniteSet(1..n) /\ Cardinality(1..n) = n
  BY <1>1, FS_Interval
<1>6. Cardinality(Q) = n
  <2> DEFINE f == [i \in 1..n |-> Entry(h[i])]
  <2>1. f = [i \in 1..n |-> f[i]] /\ Q = {f[i] : i \in 1..n}
    BY <1>2
  <2>2. \A i, j \in 1..n : f[i] = f[j] => i = j
    BY <1>1, <1>3
  <2> HIDE DEF f
  <2>3. QED
    BY <1>5, <2>1, <2>2, ImageCounts
<1>7. Cardinality(I) = n
  <2> DEFINE f == [i \in 1..n |-> Ident(h[i])]
  <2>1. f = [i \in 1..n |-> f[i]] /\ I = {f[i] : i \in 1..n}
    BY <1>4
  <2>2. \A i, j \in 1..n : f[i] = f[j] => i = j
    BY <1>1
  <2> HIDE DEF f, I
  <2>3. QED
    BY <1>5, <2>1, <2>2, ImageCounts
<1>8. I = Idents(Range(h))
  BY ZenonT(60), <1>1, <1>4 DEF Idents
<1>9. (\A c \in Range(h) : Entry(c) \in Q) /\ \A e \in Q : \E c \in Range(h) : e = Entry(c)
  BY <1>1, <1>2
<1>10. QED
  BY <1>6, <1>7, <1>8, <1>9 DEF Q, n

-----------------------------------------------------------------------------
(* What the user excluded.                                                   *)

Exclusions(ovs) == UNION {ovs[i].covers : i \in {j \in DOMAIN ovs : ovs[j].kind \in {"exclude"}}}

\* With the paths of nmap.
LEMMA ExcludedIs ==
  Excluded = {<<id[1], id[2], n>> : id \in Exclusions(overrides), n \in 0..Len(nmapSeeds)}
BY DEF Excluded, Exclusions, OverridesOf

\* Only an exclusion adds to them.
LEMMA AppendExclusions ==
  ASSUME NEW ovs, IsSeq(ovs), NEW ov
  PROVE  /\ ov.kind # "exclude" => Exclusions(Append(ovs, ov)) = Exclusions(ovs)
         /\ ov.kind = "exclude" => Exclusions(Append(ovs, ov)) = Exclusions(ovs) \cup ov.covers
<1> DEFINE more == Append(ovs, ov)
           E == Range(ovs) \cup {ov}
           n == Len(ovs)
<1>1. ovs \in Seq(E) /\ ov \in E
  <2>1. ovs \in Seq(Range(ovs)) /\ Range(ovs) \subseteq E /\ ov \in E
    BY DEF IsSeq
  <2> HIDE DEF E
  <2>2. QED
    BY <2>1, SeqMonotonic
<1> HIDE DEF E
<1>2. n \in Nat /\ DOMAIN ovs = 1..n
  BY <1>1, LenProperties
<1>3. /\ DOMAIN more = 1..(n + 1) /\ more[n + 1] = ov
      /\ \A i \in 1..n : more[i] = ovs[i]
  BY <1>1, <1>2, AppendProperties, LenProperties
<1> HIDE DEF more, n
<1>4. \A x : x \in Exclusions(more) <=>
              \E i \in 1..(n + 1) : more[i].kind = "exclude" /\ x \in more[i].covers
  BY <1>3 DEF Exclusions
<1>5. \A x : x \in Exclusions(ovs) <=> \E i \in 1..n : ovs[i].kind = "exclude" /\ x \in ovs[i].covers
  BY <1>2 DEF Exclusions
<1>6. 1..(n + 1) = 1..n \cup {n + 1}
  BY <1>2
<1>7. \A x : x \in Exclusions(more) <=>
              x \in Exclusions(ovs) \/ (ov.kind = "exclude" /\ x \in ov.covers)
  BY <1>3, <1>4, <1>5, <1>6
<1>8. QED
  BY <1>7 DEF more

\* Nothing is excluded before there is a command.
LEMMA NoExclusions == Exclusions(<<>>) = {}
BY DEF Exclusions

\* A command that excludes nothing.
LEMMA ExcludedKept ==
  ASSUME StockInv, nmapSeeds' = nmapSeeds,
         overrides' = overrides \/ \E ov : ov.kind # "exclude" /\ overrides' = Append(overrides, ov)
  PROVE  Excluded' = Excluded
<1>1. Exclusions(overrides') = Exclusions(overrides)
  BY AppendExclusions DEF StockInv, RankInv, Ranked
<1>2. Excluded' = {<<id[1], id[2], n>> : id \in Exclusions(overrides'), n \in 0..Len(nmapSeeds')}
  BY DEF Excluded, Exclusions, OverridesOf
<1>3. QED
  BY <1>1, <1>2, ExcludedIs

-----------------------------------------------------------------------------
(* The steps of the queue.                                                   *)

\* The queue counts as the heap does.
LEMMA SameCardinality ==
  ASSUME NEW S
  PROVE  Abstract!Cardinality(S) = Cardinality(S)
BY DEF Abstract!Cardinality, Cardinality

\* What waited still waits, nothing is queued twice, nothing is taken or excluded.
LEMMA LearnStep ==
  ASSUME StockInv, Stocked', Kept, out' \subseteq out, order' = order, Excluded' = Excluded
  PROVE  Abstract!Learn
<1> DEFINE Q == Entries(heap)
           P == Entries(heap')
<1>1. Stored(heap) /\ Stored(heap')
  BY DEF StockInv, Stocked, Stock
<1>2. {e.id : e \in Q} \subseteq {e.id : e \in P} /\ Cardinality(P) = Cardinality({e.id : e \in P})
  BY <1>1, EntriesAre DEF Kept
<1>3. {Ident(c) : c \in out'} \subseteq {Ident(c) : c \in out}
  OBVIOUS
<1>4. Abstract!Cardinality(P) = Abstract!Cardinality({e.id : e \in P})
  BY <1>2, SameCardinality
<1>5. QED
  BY <1>2, <1>3, <1>4 DEF Abstract!Learn, Abstract!Ids, Entries

\* The highest score is at the root of the heap.
LEMMA TopBest ==
  ASSUME NEW h, Stored(h)
  PROVE  \A i \in 1..Len(h) : h[1].score >= h[i].score
<1>1. h \in Seq(Range(h)) /\ Heap(h) /\ \A c \in Range(h) : Sound(c)
  BY DEF Stored, Batch, IsSeq
<1>2. Scoring(Range(h))
  BY <1>1 DEF Scoring, Sound
<1>3. QED
  BY <1>1, <1>2, HeapTop

\* A twentieth less of a higher score is no less.
LEMMA BandKept ==
  ASSUME NEW a \in Nat, NEW b \in Nat, a >= b
  PROVE  a - a \div 20 >= b - b \div 20 /\ a >= a - a \div 20
OBVIOUS

\* What popNext takes is one the order allows.
LEMMA PopEligible ==
  ASSUME StockInv, heap # <<>>, NEW i \in PopPositions
  PROVE  Abstract!Eligible(Entry(heap[i]))
<1> DEFINE Q == Entries(heap)
           n == Len(heap)
           e == Entry(heap[i])
<1>1. Stored(heap) /\ order \in {"strict", "band", "explore"}
  BY RankingAssumption DEF StockInv, Stocked, Stock, RankInv, Ranked
<1>2. i \in 1..n /\ n \in Nat /\ DOMAIN heap = 1..n /\ 1 \in 1..n
  BY PopPositionsAre
<1>3. \A j \in 1..n : heap[j].score \in Nat /\ heap[1].score >= heap[j].score
  BY <1>1, <1>2, TopBest, BatchHas DEF Stored, Sound
<1>4. \A f \in Q : \E j \in 1..n : f = Entry(heap[j])
  BY <1>2 DEF Entries, Entry
<1>5. \A c : Entry(c).score = c.score
  BY DEF Entry
<1>6. i \in PopAt(heap) => Abstract!Best(e)
  <2> SUFFICES ASSUME i = 1 PROVE \A f \in Q : e.score >= f.score
    BY DEF PopAt, Abstract!Best, Entries
  <2> HIDE DEF Q
  <2>1. QED
    BY <1>3, <1>4, <1>5
<1>7. i \in PopBandAt(heap) => Abstract!NearBest(e)
  <2> SUFFICES ASSUME i \in PopBandAt(heap), NEW f \in Q PROVE e.score >= f.score - f.score \div 20
    BY DEF Abstract!NearBest, Entries
  <2> HIDE DEF Q
  <2>1. PICK j \in 1..n : f.score = heap[j].score
    BY <1>4, <1>5
  <2> DEFINE top == heap[1].score
             x == f.score
             y == heap[i].score
  <2>2. x \in Nat /\ top \in Nat /\ y \in Nat /\ top >= x /\ e.score = y
    BY <1>2, <1>3, <1>5, <2>1
  <2>3. y = top \/ y >= top - top \div 20
    BY DEF PopBandAt, PopAt
  <2> HIDE DEF top, x, y, e
  <2>4. y >= x - x \div 20
    BY <2>2, <2>3, BandKept
  <2>5. QED
    BY <2>2, <2>4 DEF x
<1>8. n > 2 /\ i \in SampleMidTierAt(heap) => Abstract!Middling(e)
  <2> SUFFICES ASSUME n > 2, i \in SampleMidTierAt(heap) PROVE Abstract!Middling(e)
    OBVIOUS
  <2> DEFINE J == {j \in DOMAIN heap : heap[j].score > heap[i].score}
             K == {j \in DOMAIN heap : heap[j].score = heap[i].score}
             above == {f \in Q : f.score > e.score}
             level == {f \in Q : f.score = e.score}
  <2>1. (2 * n) \div 3 > n \div 3
    BY <1>2
  <2>2. Cardinality(J) < (2 * n) \div 3 /\ Cardinality(J) + Cardinality(K) > n \div 3
    <3>1. ~((2 * n) \div 3 <= n \div 3)
      BY <1>2, <2>1
    <3> HIDE DEF n
    <3>2. QED
      BY <3>1 DEF SampleMidTierAt, n
  <2>3. \A I \in SUBSET (1..n) : Cardinality({Entry(heap[j]) : j \in I}) = Cardinality(I)
    <3> SUFFICES ASSUME NEW I \in SUBSET (1..n)
                 PROVE  Cardinality({Entry(heap[j]) : j \in I}) = Cardinality(I)
      OBVIOUS
    <3> DEFINE f == [j \in I |-> Entry(heap[j])]
               T == {Entry(heap[j]) : j \in I}
    <3>1. IsFiniteSet(I)
      <4>1. IsFiniteSet(1..n)
        BY <1>2, FS_Interval
      <4>2. QED
        BY <4>1, FS_Subset
    <3>2. \A j, k \in 1..n : Ident(heap[j]) = Ident(heap[k]) => j = k
      BY <1>1, BatchHas DEF Stored
    <3>3. f = [j \in I |-> f[j]] /\ T = {f[j] : j \in I}
      OBVIOUS
    <3>4. \A j, k \in I : f[j] = f[k] => j = k
      BY <3>2 DEF Entry
    <3> HIDE DEF f, T
    <3>5. Cardinality(T) = Cardinality(I)
      BY <3>1, <3>3, <3>4, ImageCounts
    <3>6. QED
      BY <3>5 DEF T
  <2>4. Q = {Entry(heap[j]) : j \in 1..n}
    BY <1>2 DEF Entries, Entry
  <2> HIDE DEF Q
  <2>5. above = {Entry(heap[j]) : j \in J} /\ level = {Entry(heap[j]) : j \in K}
    <3> HIDE DEF n
    <3> QED BY <1>2, <1>5, <2>4
  <2>6. J \in SUBSET (1..n) /\ K \in SUBSET (1..n)
    BY <1>2
  <2> HIDE DEF J, K, above, level
  <2>7. Cardinality(above) = Cardinality(J) /\ Cardinality(level) = Cardinality(K)
    BY <2>3, <2>5, <2>6
  <2>8. Cardinality(Q) = n
    BY <1>1, EntriesAre DEF Q
  <2>9. /\ Abstract!Cardinality(Q) = n /\ Abstract!Cardinality(above) = Cardinality(J)
        /\ Abstract!Cardinality(level) = Cardinality(K)
    BY <2>7, <2>8, SameCardinality
  <2>10. /\ Abstract!Cardinality(Q) > 2
         /\ Abstract!Cardinality(above) < (2 * Abstract!Cardinality(Q)) \div 3
         /\ Abstract!Cardinality(above) + Abstract!Cardinality(level)
              > Abstract!Cardinality(Q) \div 3
    BY <2>2, <2>9
  <2>11. QED
    BY <2>10 DEF Abstract!Middling, Q, Entries, above, level
<1>9. QED
  BY <1>1, <1>6, <1>7, <1>8 DEF PopPositions, Abstract!Eligible

\* A dispatch.
LEMMA TakeStep ==
  ASSUME StockInv, PopNext
  PROVE  Abstract!Next
<1> DEFINE Q == Entries(heap)
           P == Entries(heap')
<1>1. PICK i \in PopPositions : heap' = Pop(heap, i) /\ out' = out \cup {heap[i]}
  BY DEF PopNext
<1>2. heap # <<>> /\ order' = order /\ nmapSeeds' = nmapSeeds /\ overrides' = overrides
  BY DEF PopNext, profileVars, userVars
<1>3. Abstract!Eligible(Entry(heap[i]))
  BY <1>2, PopEligible
<1>4. Stored(heap) /\ i \in 1..Len(heap) /\ DOMAIN heap = 1..Len(heap)
  BY <1>1, <1>2, PopPositionsAre DEF StockInv, Stocked, Stock
<1>5. Stored(heap') /\ Range(heap') = Range(heap) \ {heap[i]}
  BY <1>1, <1>4, PopStored
<1>6. heap[i] \in Range(heap) /\ Apart(Range(heap))
  BY <1>4, BatchHas DEF Stored, Batch
<1>7. \A c, d \in Range(heap) : Entry(c) = Entry(d) => c = d
  BY <1>6 DEF Apart, Entry
<1>8. PICK e \in Q : e = Entry(heap[i])
  BY <1>4, <1>6, EntriesAre
<1>9. P = Q \ {e}
  <2>1. /\ \A c \in Range(heap) : Entry(c) \in Q
        /\ \A f \in Q : \E c \in Range(heap) : f = Entry(c)
        /\ \A c \in Range(heap') : Entry(c) \in P
        /\ \A f \in P : \E c \in Range(heap') : f = Entry(c)
    BY <1>4, <1>5, EntriesAre
  <2> HIDE DEF P, Q
  <2>2. QED
    BY <1>5, <1>6, <1>7, <1>8, <2>1
<1>10. {Ident(c) : c \in out'} = {Ident(c) : c \in out} \cup {e.id}
  BY <1>1, <1>8 DEF Entry
<1>11. Excluded' = Excluded
  BY <1>2, ExcludedKept
<1>12. Abstract!Eligible(e)
  BY <1>3, <1>8
<1>13. Abstract!Take(e)
  BY <1>2, <1>9, <1>10, <1>11, <1>12 DEF Abstract!Take, Entries
<1>14. QED
  BY <1>13 DEF Abstract!Next, Entries

\* An exclusion.
LEMMA ExcludeStep ==
  ASSUME StockInv, NEW p \in Patterns, ApplyExclude(p)
  PROVE  Abstract!Next
<1> DEFINE Q == Entries(heap)
           P == Entries(heap')
           n == Len(nmapSeeds)
           ov == [kind |-> "exclude", factor |-> 1, covers |-> p.covers]
<1>1. /\ overrides' = Append(overrides, ov) /\ order' = order /\ out' = out /\ nmapSeeds' = nmapSeeds
  BY DEF ApplyExclude, takeVars, profileVars
<1>2. Stocked' /\ Range(heap') = Range(heap) \ {c \in Range(heap) : Id(c) \in p.covers}
  BY StockedExclude
<1>3. Stored(heap) /\ Stored(heap') /\ Lot(Idents(Range(heap)), knownPaths, n, Scanning)
  BY <1>2 DEF StockInv, Stocked, Stock
<1>4. /\ \A c \in Range(heap) : Entry(c) \in Q
      /\ \A f \in Q : \E c \in Range(heap) : f = Entry(c)
      /\ \A c \in Range(heap') : Entry(c) \in P
      /\ \A f \in P : \E c \in Range(heap') : f = Entry(c)
      /\ {f.id : f \in P} = Idents(Range(heap'))
  BY <1>3, EntriesAre
<1>5. ov.kind = "exclude" /\ ov.covers = p.covers
  OBVIOUS
<1> HIDE DEF ov, Q, P
<1>6. Exclusions(overrides') = Exclusions(overrides) \cup p.covers
  BY <1>1, <1>5, AppendExclusions DEF StockInv, RankInv, Ranked
<1>7. Excluded' = {<<id[1], id[2], m>> : id \in Exclusions(overrides) \cup p.covers, m \in 0..n}
  <2>1. Excluded' = {<<id[1], id[2], m>> : id \in Exclusions(overrides'), m \in 0..Len(nmapSeeds')}
    BY DEF Excluded, Exclusions, OverridesOf
  <2>2. QED
    BY <1>1, <1>6, <2>1
<1>8. Excluded = {<<id[1], id[2], m>> : id \in Exclusions(overrides), m \in 0..n}
  BY ExcludedIs
<1>9. Excluded \subseteq Excluded'
  BY <1>7, <1>8
<1>10. P \subseteq Q
  BY <1>2, <1>4
<1>11. {f.id : f \in Q \ P} \subseteq Excluded'
  <2> SUFFICES ASSUME NEW f \in Q \ P PROVE f.id \in Excluded'
    OBVIOUS
  <2>1. PICK c \in Range(heap) : f = Entry(c) /\ Id(c) \in p.covers
    BY <1>2, <1>4
  <2>2. f.id = <<c.dir, c.path, c.nmap>> /\ Id(c) = <<c.dir, c.path>>
    BY <2>1 DEF Entry, Ident, Id
  <2>3. c.nmap \in 0..n
    <3>1. Ident(c) \in Idents(Range(heap)) /\ Ident(c)[3] = c.nmap
      BY DEF Idents, Ident
    <3>2. QED
      BY <1>3, <3>1 DEF Lot
  <2>4. QED
    BY <1>7, <2>1, <2>2, <2>3
<1>12. {f.id : f \in P} \cap (Excluded' \ Excluded) = {}
  <2> SUFFICES ASSUME NEW c \in Range(heap'), Ident(c) \in Excluded', Ident(c) \notin Excluded
               PROVE  FALSE
    BY <1>4 DEF Idents
  <2>1. PICK id \in Exclusions(overrides) \cup p.covers, m \in 0..n : Ident(c) = <<id[1], id[2], m>>
    BY <1>7
  <2>2. id \in p.covers
    BY <1>8, <2>1
  <2>3. id \in Dir \X Seq(STRING)
    BY <2>2, RankingAssumption
  <2>4. id = <<id[1], id[2]>> /\ c.dir = id[1] /\ c.path = id[2]
    BY <2>1, <2>3 DEF Ident
  <2>5. Id(c) \in p.covers
    BY <2>2, <2>4 DEF Id
  <2>6. QED
    BY <1>2, <2>5
<1>13. Abstract!Exclude
  BY <1>1, <1>9, <1>10, <1>11, <1>12 DEF Abstract!Exclude, Abstract!Ids, P, Q, Entries
<1>14. QED
  BY <1>13 DEF Abstract!Next

\* A step of the scan keeps the heap as it should be, and is a step of the queue.
LEMMA QueueStep ==
  ASSUME StockInv, [Next]_vars
  PROVE  Stocked' /\ [Abstract!Next]_(Abstract!queueVars)
<1> DEFINE Done == Stocked' /\ [Abstract!Next]_(Abstract!queueVars)
<1>0. ASSUME Stocked', Abstract!Next PROVE Done
  BY <1>0
<1> SUFFICES Done
  OBVIOUS
<1> HIDE DEF Done
<1>1. ASSUME Stocked', Kept, out' \subseteq out, order' = order, Excluded' = Excluded
      PROVE  Done
  BY <1>0, <1>1, LearnStep DEF Abstract!Next
<1>2. ASSUME NEW matching, NEW named, ProfileAndSeed(matching, named)
      PROVE  Done
  <2>1. Stocked' /\ Kept
    BY <1>2, StockedFirst
  <2>2. out' = out /\ order' = order /\ overrides = <<>> /\ overrides' = <<>>
    BY <1>2 DEF ProfileAndSeed, heapVars, takeVars, userVars, StockInv, Stocked
  <2>3. Excluded = {}
    BY <2>2, ExcludedIs, NoExclusions
  <2>4. Excluded' = {<<id[1], id[2], n>> : id \in Exclusions(overrides'), n \in 0..Len(nmapSeeds')}
    BY DEF Excluded, Exclusions, OverridesOf
  <2>5. Excluded' = {}
    BY <2>2, <2>4, NoExclusions
  <2>6. QED
    BY <1>1, <2>1, <2>2, <2>3, <2>5
<1>3. CASE FinishCalibrationSub
  <2>1. Stocked' /\ Kept
    BY <1>3, StockedSub
  <2>2. out' = out /\ order' = order /\ nmapSeeds' = nmapSeeds /\ overrides' = overrides
    BY <1>3 DEF FinishCalibrationSub, takeVars, profileVars, userVars
  <2>3. QED
    BY <1>1, <2>1, <2>2, ExcludedKept
<1>4. ASSUME NEW matching, NEW spa, FinishCalibrationRoot(matching, spa)
      PROVE  Done
  <2>1. Stocked' /\ Kept
    BY <1>4, StockedRoot
  <2>2. out' = out /\ order' = order /\ nmapSeeds' = nmapSeeds /\ overrides' = overrides
    BY <1>4 DEF FinishCalibrationRoot, takeVars
  <2>3. QED
    BY <1>1, <2>1, <2>2, ExcludedKept
<1>5. CASE PopNext
  BY <1>0, <1>5, StockedPop, TakeStep
<1>6. ASSUME NEW c, NEW opens, Answered(c, opens)
      PROVE  Done
  <2>1. /\ out' \subseteq out /\ Opened(opens) /\ order' = order /\ nmapSeeds' = nmapSeeds
        /\ overrides' = overrides /\ template' = template /\ pendingSeeds' = pendingSeeds
        /\ knownPaths' = knownPaths /\ heap' = heap
    BY <1>6 DEF Answered, profileVars, seedVars, userVars
  <2>2. Stocked' /\ Kept
    BY <2>1, OpenedScanning, StockedKept
  <2>3. QED
    BY <1>1, <2>1, <2>2, ExcludedKept
<1>7. ASSUME NEW c, NEW opens, NEW what, LearnFromHit(c, what, opens)
      PROVE  Done
  <2>1. Stocked' /\ Kept /\ out' \subseteq out
    BY <1>7, StockedHit
  <2>2. order' = order /\ nmapSeeds' = nmapSeeds /\ overrides' = overrides
    BY <1>7 DEF LearnFromHit, profileVars, userVars
  <2>3. QED
    BY <1>1, <2>1, <2>2, ExcludedKept
<1>8. CASE Elapse \/ UNCHANGED vars
  <2>1. /\ out' = out /\ dirs' = dirs /\ order' = order /\ nmapSeeds' = nmapSeeds
        /\ overrides' = overrides /\ template' = template /\ pendingSeeds' = pendingSeeds
        /\ knownPaths' = knownPaths /\ heap' = heap
    BY <1>8 DEF Elapse, vars, profileVars, dirVars, seedVars, heapVars, takeVars, userVars
  <2>2. Scanning' = Scanning
    BY <2>1 DEF Scanning
  <2>3. Stocked' /\ Kept
    BY <2>1, <2>2, StockedKept
  <2>4. QED
    BY <1>1, <2>1, <2>3, ExcludedKept
<1>9. ASSUME NEW sd \in Seeds, Seed(sd)
      PROVE  Done
  <2>1. Stocked' /\ Kept
    BY <1>9, StockedSeed
  <2>2. out' = out /\ order' = order /\ nmapSeeds' = nmapSeeds /\ overrides' = overrides
    BY <1>9 DEF Seed, takeVars, profileVars
  <2>3. QED
    BY <1>1, <2>1, <2>2, ExcludedKept
<1>10. ASSUME NEW ov, ov.kind # "exclude", ov.factor \in Nat \ {0}, overrides' = Commanded(ov).overrides,
              nmapSeeds' = nmapSeeds
       PROVE  Excluded' = Excluded
  <2>1. overrides' = Append(overrides, ov)
    BY <1>10, CommandKnows
  <2>2. QED
    BY <1>10, <2>1, ExcludedKept
<1>11. ASSUME NEW p \in Patterns, ApplyPin(p)
       PROVE  Done
  <2> DEFINE ov == [kind |-> "boost", factor |-> PinScore, covers |-> p.covers]
  <2>1. Stocked' /\ Kept
    BY <1>11, StockedPin
  <2>2. /\ out' = out /\ order' = order /\ nmapSeeds' = nmapSeeds
        /\ overrides' = Commanded(ov).overrides
    BY <1>11 DEF ApplyPin, takeVars, profileVars
  <2>3. ov.kind # "exclude" /\ ov.factor \in Nat \ {0}
    BY DEF PinScore
  <2> HIDE DEF ov
  <2>4. QED
    BY <1>1, <1>10, <2>1, <2>2, <2>3
<1>12. ASSUME NEW p \in Patterns, NEW kind, kind # "exclude", ApplyOverride(p, kind)
       PROVE  Done
  <2> DEFINE ov == [kind |-> kind, factor |-> Factor, covers |-> p.covers]
  <2>1. Stocked' /\ Kept
    BY <1>12, StockedOverride
  <2>2. /\ out' = out /\ order' = order /\ nmapSeeds' = nmapSeeds
        /\ overrides' = Commanded(ov).overrides
    BY <1>12 DEF ApplyOverride, takeVars, profileVars
  <2>3. ov.kind # "exclude" /\ ov.factor \in Nat \ {0}
    BY <1>12, RankingAssumption
  <2> HIDE DEF ov
  <2>4. QED
    BY <1>1, <1>10, <2>1, <2>2, <2>3
<1>13. ASSUME NEW p \in Patterns, ApplyExclude(p)
       PROVE  Done
  BY <1>0, <1>13, StockedExclude, ExcludeStep
<1>14. "boost" # "exclude" /\ "demote" # "exclude"
  OBVIOUS
<1>15. QED
  BY <1>2, <1>3, <1>4, <1>5, <1>6, <1>7, <1>8, <1>9, <1>11, <1>12, <1>13, <1>14 DEF Next

\* The heap with its sweeps, upgrades and removals, the template and the seeds implement
\* the priority queue, whatever the rules, the corpus, the hits, the seeds and the
\* commands: what is dispatched is the best candidate or one the order allows, none is
\* queued twice, and only a dispatch or an exclusion takes one out.
THEOREM ImplementsPriorityQueue == Spec => Implements
<1>1. Init => StockInv
  <2>1. Init => Baseline
    BY RankingAssumption DEF Init, Baseline, ExtensionsCalibrated, Dir
  <2>2. QED
    BY <2>1, ProfileInit, RankedInit, StockedInit DEF RankInv, StockInv
<1>2. StockInv /\ [Next]_vars => StockInv'
  <2>1. RankInv /\ [Next]_vars => RankInv'
    BY StepBaseline, ProfileStep, RankedStep DEF RankInv
  <2>2. QED
    BY <2>1, QueueStep DEF StockInv
<1>3. StockInv /\ [Next]_vars => [Abstract!Next]_(Abstract!queueVars)
  BY QueueStep
<1>4. Init => Abstract!Init
  <2> SUFFICES ASSUME Init PROVE Abstract!Init
    OBVIOUS
  <2>1. heap = <<>> /\ out = {} /\ overrides = <<>>
    BY DEF Init
  <2>2. Excluded = {}
    BY <2>1, ExcludedIs, NoExclusions
  <2>3. Entries(heap) = {}
    BY <2>1 DEF Entries
  <2>4. QED
    BY <2>1, <2>2, <2>3 DEF Abstract!Init, Entries
<1>5. QED
  BY <1>1, <1>2, <1>3, <1>4, PTL DEF Spec, Implements, Abstract!Spec
=============================================================================
