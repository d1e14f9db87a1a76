---------------------------- MODULE PriorityQueue ----------------------------
(***************************************************************************)
(* What the scan loop relies on when it ranks its candidates: the one taken *)
(* is the best (or one the configured order allows), nothing queued is lost *)
(* but by being taken or excluded, and nothing is queued twice.  Scores may  *)
(* change at any time.  Ranking.tla implements it with a heap.               *)
(***************************************************************************)
EXTENDS Integers, FiniteSets

VARIABLES
  queue,      \* the candidates queued: records of id and score
  out,        \* the ids taken and not yet answered
  excluded,   \* the ids the user excluded
  order       \* "strict", "band" (near-equal scores shuffled), "explore" (sometimes
              \* from the middle of the queue)

queueVars == <<queue, out, excluded, order>>

Ids(q) == {e.id : e \in q}

Best(e) == \A f \in queue : e.score >= f.score
NearBest(e) == \A f \in queue : e.score >= f.score - f.score \div 20
\* Some are ahead of it and some behind, when there are enough to tell.
Middling(e) ==
  LET above == {f \in queue : f.score > e.score}
      level == {f \in queue : f.score = e.score}
      n == Cardinality(queue)
  IN  n > 2 /\ Cardinality(above) < (2 * n) \div 3
            /\ Cardinality(above) + Cardinality(level) > n \div 3

Eligible(e) ==
  CASE order = "strict"  -> Best(e)
    [] order = "band"    -> NearBest(e)
    [] order = "explore" -> Best(e) \/ Middling(e)

Init == queue = {} /\ out = {} /\ excluded = {}

Take(e) ==
  /\ Eligible(e)
  /\ queue' = queue \ {e} /\ out' = out \cup {e.id}
  /\ UNCHANGED <<excluded, order>>

\* An answer, a seed, a command, a new directory: candidates are added and scored
\* anew.
Learn ==
  /\ Ids(queue) \subseteq Ids(queue') /\ out' \subseteq out
  /\ Cardinality(queue') = Cardinality(Ids(queue'))
  /\ UNCHANGED <<excluded, order>>

Exclude ==
  /\ excluded \subseteq excluded'
  /\ queue' \subseteq queue /\ Ids(queue \ queue') \subseteq excluded'
  /\ Ids(queue') \cap (excluded' \ excluded) = {}
  /\ UNCHANGED <<out, order>>

Next == (\E e \in queue : Take(e)) \/ Learn \/ Exclude
Spec == Init /\ [][Next]_queueVars
=============================================================================
