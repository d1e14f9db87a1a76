------------------------- MODULE CoordinatorProofs -------------------------
(***************************************************************************)
(* Proofs about the coordinator: its bookkeeping of directories,           *)
(* candidates and probes is exact in every reachable state, for every      *)
(* value of the constants.                                                 *)
(***************************************************************************)
EXTENDS Coordinator, FiniteSetTheorems, TLAPS

(* The inductive invariant, one directory at a time.                       *)

\* Real requests of one directory: F queued, R in flight, Q ever dispatched.
Sound(ds, F, R, Q) ==
  /\ IsFiniteSet(F) /\ IsFiniteSet(R) /\ IsFiniteSet(ds.pendingSeeds)
  /\ \A c \in F \cup Q : c.name \in ds.knownPaths
  /\ F \cap Q = {} /\ R \subseteq Q
Balanced(ds, F, R) ==
  ds.candidatesTotal = ds.candidatesAccountedFor + Cardinality(F) + Cardinality(R)
Tally(ds, F, R, Q) ==
  /\ Sound(ds, F, R, Q)
  /\ IF ds.state = "calibrating"
     THEN F = {} /\ Q = {} /\ ds.candidatesAccountedFor = 0
     ELSE /\ Balanced(ds, F, R)
          /\ ds.state = "done" <=> ds.candidatesAccountedFor = ds.candidatesTotal

\* Its probes: out are in flight.
ProbeTally(ds, out) ==
  IF ds.state = "calibrating"
  THEN /\ IsFiniteSet(out)
       /\ ds.probesTotal = ds.probesDone + Cardinality(ds.probeQueue) + Cardinality(out)
       /\ ds.probesDone < ds.probesTotal
       /\ \A p \in out : p.index \notin ds.probeQueue
  ELSE ds.probeQueue = {} /\ out = {}

\* The whole tree D, with the candidates F queued, R in flight and Q ever
\* dispatched, and the probes O in flight.
TreeOK(D, F, R, Q, O) ==
  /\ DOMAIN D \subseteq Dir /\ D \in [DOMAIN D -> DirState]
  /\ F \subseteq Candidate /\ Q \subseteq Candidate
  /\ O \subseteq [dir : Dir, index : 1..NProbes]
  /\ R \subseteq Q
  /\ \A c \in F \cup Q \cup O : c.dir \in DOMAIN D
  /\ \A d \in DOMAIN D : /\ Tally(D[d], Under(d, F), Under(d, R), Under(d, Q))
                         /\ ProbeTally(D[d], Under(d, O))

\* What TypeOK says of the variables the tree does not own.
OtherTypesOK ==
  /\ phase \in {"seedRoot", "seedPassive", "running", "finished", "stopped"}
  /\ staged \subseteq Candidate
  /\ harvestQueue \subseteq Url /\ fetchesOut \subseteq Url
  /\ crawlVisited \subseteq Url /\ mined \subseteq Url
  /\ pendingHarvest \in Nat
  /\ seenContent \subseteq Hash /\ rootRefined \in BOOLEAN
  /\ excludes \subseteq Patterns /\ paused \in BOOLEAN /\ cancelled \in BOOLEAN
  /\ concurrencyCap \in Concurrency
  /\ lastDispatchDir \in Dir /\ dispatchStreak \in 0..SubtreeBurst

Tree == TreeOK(dirs, frontier, realOut, requested, probesOut)

IInv ==
  /\ OtherTypesOK
  /\ Tree
  /\ phase = "seedRoot" => DOMAIN dirs = {}

-----------------------------------------------------------------------------
(* Sets and cardinalities.                                                 *)

\* Queueing one candidate per name of S queues as many candidates as S has
\* names.
LEMMA CandCardinality ==
  ASSUME NEW d, NEW S, IsFiniteSet(S), NEW T,
         \/ /\ \A n \in S : Cand(d, n) \in T
            /\ \A t \in T : \E n \in S : t = Cand(d, n)
         \/ /\ \A n \in S : NmapCand(d, n) \in T
            /\ \A t \in T : \E n \in S : t = NmapCand(d, n)
  PROVE  IsFiniteSet(T) /\ Cardinality(T) = Cardinality(S)
<1>1. ExistsBijection(S, T)
  <2>1. CASE /\ \A n \in S : Cand(d, n) \in T
             /\ \A t \in T : \E n \in S : t = Cand(d, n)
    <3> DEFINE f == [n \in S |-> Cand(d, n)]
    <3>1. f \in [S -> T] /\ \A t \in T : \E n \in S : f[n] = t
      BY <2>1
    <3>2. \A m, n \in S : f[m] = f[n] => m = n
      BY DEF Cand
    <3>3. f \in Bijection(S, T)
      BY <3>1, <3>2 DEF Bijection, Injection, Surjection, IsInjective
    <3> QED BY <3>3 DEF ExistsBijection
  <2>2. CASE /\ \A n \in S : NmapCand(d, n) \in T
             /\ \A t \in T : \E n \in S : t = NmapCand(d, n)
    <3> DEFINE f == [n \in S |-> NmapCand(d, n)]
    <3>1. f \in [S -> T] /\ \A t \in T : \E n \in S : f[n] = t
      BY <2>2
    <3>2. \A m, n \in S : f[m] = f[n] => m = n
      BY DEF NmapCand
    <3>3. f \in Bijection(S, T)
      BY <3>1, <3>2 DEF Bijection, Injection, Surjection, IsInjective
    <3> QED BY <3>3 DEF ExistsBijection
  <2> QED BY <2>1, <2>2
<1> QED BY <1>1, FS_Bijection

\* Disjoint finite sets add up.
LEMMA DisjointCardinality ==
  ASSUME NEW S, IsFiniteSet(S), NEW T, IsFiniteSet(T), S \cap T = {}
  PROVE  /\ IsFiniteSet(S \cup T)
         /\ Cardinality(S \cup T) = Cardinality(S) + Cardinality(T)
         /\ Cardinality(S) \in Nat /\ Cardinality(T) \in Nat
BY FS_Union, FS_EmptySet, FS_CardinalityType

\* Taking a subset away.
LEMMA RemoveCardinality ==
  ASSUME NEW S, IsFiniteSet(S), NEW P, P \subseteq S
  PROVE  /\ IsFiniteSet(P) /\ IsFiniteSet(S \ P)
         /\ Cardinality(S) = Cardinality(S \ P) + Cardinality(P)
         /\ Cardinality(P) \in Nat /\ Cardinality(S \ P) \in Nat
<1>1. IsFiniteSet(P) /\ IsFiniteSet(S \ P)
  BY FS_Subset, FS_Difference
<1>2. S = (S \ P) \cup P /\ (S \ P) \cap P = {}
  OBVIOUS
<1> QED BY <1>1, <1>2, DisjointCardinality

\* The names under a directory are finitely many.
LEMMA NamesUnderFinite ==
  ASSUME NEW K \in SUBSET SeedPaths, NEW d \in Dir
  PROVE  NamesUnder(K, d) \subseteq Name /\ IsFiniteSet(NamesUnder(K, d))
<1> DEFINE S == {q \in K : Len(q) > Len(d) /\ SubSeq(q, 1, Len(d)) = d}
           f == [p \in S |-> p[Len(d) + 1]]
<1>1. IsFiniteSet(S)
  <2>1. S \subseteq SeedPaths
    OBVIOUS
  <2> QED BY <2>1, FS_Subset, ConstantsAssumption
<1>2. f \in Surjection(S, NamesUnder(K, d))
  BY DEF Surjection, NamesUnder
<1>3. IsFiniteSet(NamesUnder(K, d))
  BY <1>1, <1>2, FS_Surjection
<1>4. NamesUnder(K, d) \subseteq Name
  BY ConstantsAssumption DEF NamesUnder, Url, Dir
<1> QED BY <1>3, <1>4

-----------------------------------------------------------------------------
(* What the operations do to the record of one directory.                  *)

\* The record an admitted directory starts from: nothing counted, nothing sent.
Unpushed(ds) ==
  /\ ds \in DirState
  /\ ds.candidatesAccountedFor = 0
  /\ IsFiniteSet(ds.pendingSeeds)

\* A new calibration record.
LEMMA CalibratingOK ==
  ASSUME NEW k \in 0..NProbes
  PROVE  /\ Unpushed(Calibrating(k))
         /\ Calibrating(k).state = "calibrating"
         /\ Calibrating(k).probeQueue = 1..k
         /\ Calibrating(k).probeQueue # {} => ProbeTally(Calibrating(k), {})
<1>1. k \in Nat /\ 1..k \in SUBSET (1..NProbes)
  BY ConstantsAssumption
<1>2. IsFiniteSet({}) /\ Cardinality({}) = 0
  BY FS_EmptySet
<1>3. Cardinality(1..k) = k
  BY <1>1, FS_Interval
<1>4. Calibrating(k) \in DirState
  BY <1>1 DEF Calibrating, DirState
<1>5. Calibrating(k).probeQueue # {} => k > 0
  BY <1>1 DEF Calibrating
<1> QED BY <1>1, <1>2, <1>3, <1>4, <1>5 DEF Calibrating, Unpushed, ProbeTally

\* pushCandidates queues exactly candidatesTotal candidates.
LEMMA PushCandidatesOK ==
  ASSUME NEW d \in Dir, NEW ds, Unpushed(ds), ds.probeQueue = {}
  PROVE  /\ PushCandidates(d, ds) \in DirState
         /\ Pushed(d, ds) \subseteq Candidate
         /\ \A c \in Pushed(d, ds) : c.dir = d
         /\ Tally(PushCandidates(d, ds), Pushed(d, ds), {}, {})
         /\ ProbeTally(PushCandidates(d, ds), {})
<1> DEFINE L == Leftover(ds)
           N == NmapAt(d)
           A == {Cand(d, n) : n \in Template \cup L}
           B == {NmapCand(d, n) : n \in N}
           extra == Cardinality(L) + Cardinality(N)
           total == Cardinality(Template) + extra
           new == PushCandidates(d, ds)
<1>1. ds \in DirState /\ ds.candidatesAccountedFor = 0 /\ IsFiniteSet(ds.pendingSeeds)
  BY DEF Unpushed
<1>2. /\ IsFiniteSet(Template) /\ Template \subseteq Name
      /\ IsFiniteSet(L) /\ L \subseteq Name /\ Template \cap L = {}
      /\ IsFiniteSet(N) /\ N \subseteq Name
  <2>1. ds.pendingSeeds \subseteq Name
    BY <1>1 DEF DirState
  <2>2. IsFiniteSet(L)
    BY <1>1, FS_Difference DEF Leftover
  <2>3. IsFiniteSet(N)
    BY ConstantsAssumption, FS_EmptySet DEF NmapAt
  <2> QED BY <2>1, <2>2, <2>3, ConstantsAssumption DEF Leftover, NmapAt
<1>3. IsFiniteSet(A) /\ Cardinality(A) = Cardinality(Template) + Cardinality(L)
  <2>1. /\ IsFiniteSet(Template \cup L)
        /\ Cardinality(Template \cup L) = Cardinality(Template) + Cardinality(L)
    BY <1>2, DisjointCardinality
  <2>2. /\ \A n \in Template \cup L : Cand(d, n) \in A
        /\ \A t \in A : \E n \in Template \cup L : t = Cand(d, n)
    OBVIOUS
  <2> HIDE DEF A, L
  <2> QED BY <2>1, <2>2, CandCardinality
<1>4. IsFiniteSet(B) /\ Cardinality(B) = Cardinality(N)
  <2>1. /\ \A n \in N : NmapCand(d, n) \in B
        /\ \A t \in B : \E n \in N : t = NmapCand(d, n)
    OBVIOUS
  <2> HIDE DEF B, N
  <2> QED BY <1>2, <2>1, CandCardinality
<1>5. A \cap B = {}
  <2> SUFFICES ASSUME NEW c \in A, c \in B PROVE FALSE
    OBVIOUS
  <2>1. c.nmap = FALSE
    BY DEF Cand
  <2>2. c.nmap = TRUE
    BY DEF NmapCand
  <2> QED BY <2>1, <2>2
<1>6. /\ Cardinality(Template) \in Nat /\ Cardinality(L) \in Nat /\ Cardinality(N) \in Nat
      /\ extra \in Nat /\ total \in Nat
  BY <1>2, FS_CardinalityType
<1>7. /\ Pushed(d, ds) = A \cup B
      /\ IsFiniteSet(Pushed(d, ds)) /\ Cardinality(Pushed(d, ds)) = total
  <2>1. Pushed(d, ds) = A \cup B
    BY DEF Pushed
  <2> HIDE DEF A, B
  <2> QED BY <2>1, <1>3, <1>4, <1>5, <1>6, DisjointCardinality
<1>8. /\ new.state = IF total = 0 THEN "done" ELSE "scanning"
      /\ new.pendingSeeds = {} /\ new.knownPaths = Template \cup L \cup N
      /\ new.candidatesTotal = total
      /\ new.budget = IF total > 0 /\ PerDirBudget > 0 THEN PerDirBudget + extra ELSE total
      /\ new.candidatesAccountedFor = 0
      /\ new.probeQueue = {}
  BY <1>1 DEF PushCandidates, DirState
<1>9. new \in DirState
  <2>1. PerDirBudget \in Nat
    BY ConstantsAssumption
  <2>2. (IF total > 0 /\ PerDirBudget > 0 THEN PerDirBudget + extra ELSE total) \in Nat
    BY <1>6, <2>1
  <2>3. Template \cup L \cup N \in SUBSET Name
    BY <1>2
  <2>4. new = [ds EXCEPT
                 !.state = IF total = 0 THEN "done" ELSE "scanning",
                 !.pendingSeeds = {},
                 !.knownPaths = Template \cup L \cup N,
                 !.candidatesTotal = total,
                 !.budget = IF total > 0 /\ PerDirBudget > 0 THEN PerDirBudget + extra ELSE total]
    BY DEF PushCandidates
  <2> HIDE DEF L, N, extra, total, new
  <2> QED BY <1>1, <1>6, <2>2, <2>3, <2>4 DEF DirState
<1>10. Pushed(d, ds) \subseteq Candidate /\ \A c \in Pushed(d, ds) : c.dir = d
  <2>1. \A n \in Name : Cand(d, n) \in Candidate /\ Cand(d, n).dir = d
    BY DEF Candidate, Cand
  <2>2. \A n \in Name : NmapCand(d, n) \in Candidate /\ NmapCand(d, n).dir = d
    BY DEF Candidate, NmapCand
  <2> QED BY <1>2, <1>7, <2>1, <2>2
<1>11. \A c \in Pushed(d, ds) : c.name \in new.knownPaths
  <2>1. \A n : Cand(d, n).name = n /\ NmapCand(d, n).name = n
    BY DEF Cand, NmapCand
  <2> QED BY <1>7, <1>8, <2>1
<1>12. Tally(new, Pushed(d, ds), {}, {})
  <2>1. IsFiniteSet({}) /\ Cardinality({}) = 0
    BY FS_EmptySet
  <2>2. new.state # "calibrating" /\ (new.state = "done" <=> 0 = total)
    BY <1>8
  <2> HIDE DEF total, extra, new
  <2>3. total = 0 + Cardinality(Pushed(d, ds)) + 0
    BY <1>6, <1>7
  <2> QED BY <2>1, <2>2, <2>3, <1>7, <1>8, <1>11 DEF Tally, Sound, Balanced
<1>13. ProbeTally(new, {})
  BY <1>8 DEF ProbeTally
<1> QED BY <1>9, <1>10, <1>12, <1>13

\* An admitted directory, calibrating or pushed at once, is in order.
LEMMA EnteredOK ==
  ASSUME NEW d \in Dir, NEW ds, Unpushed(ds),
         ds.probeQueue # {} => ds.state = "calibrating" /\ ProbeTally(ds, {})
  PROVE  /\ Entered(d, ds) \in DirState
         /\ EnteredPush(d, ds) \subseteq Candidate
         /\ \A c \in EnteredPush(d, ds) : c.dir = d
         /\ Tally(Entered(d, ds), EnteredPush(d, ds), {}, {})
         /\ ProbeTally(Entered(d, ds), {})
<1>1. CASE ds.probeQueue = {}
  BY <1>1, PushCandidatesOK DEF Entered, EnteredPush
<1>2. CASE ds.probeQueue # {}
  BY <1>2, FS_EmptySet DEF Entered, EnteredPush, Unpushed, Tally, Sound
<1> QED BY <1>1, <1>2

\* A directory that startCalibration creates.
LEMMA StartOK ==
  ASSUME NEW d \in Dir, NEW k \in 0..NProbes
  PROVE  /\ Entered(d, Calibrating(k)) \in DirState
         /\ EnteredPush(d, Calibrating(k)) \subseteq Candidate
         /\ \A c \in EnteredPush(d, Calibrating(k)) : c.dir = d
         /\ Tally(Entered(d, Calibrating(k)), EnteredPush(d, Calibrating(k)), {}, {})
         /\ ProbeTally(Entered(d, Calibrating(k)), {})
BY CalibratingOK, EnteredOK

\* Generated candidates: the total grows by exactly what is queued.  The
\* directory may have been reopened for them.
LEMMA GeneratedOK ==
  ASSUME NEW d \in Dir, NEW ds \in DirState, NEW F, NEW R, NEW Q,
         Sound(ds, F, R, Q), Balanced(ds, F, R), ds.state = "scanning",
         NEW N \in SUBSET Name, IsFiniteSet(N),
         ds.candidatesAccountedFor # ds.candidatesTotal \/ ~(N \subseteq ds.knownPaths)
  PROVE  /\ EnqueueGenerated(ds, N) \in DirState
         /\ EnqueueGenerated(ds, N).state = "scanning"
         /\ EnqueueGenerated(ds, N).probeQueue = ds.probeQueue
         /\ GeneratedPush(d, ds, N) \subseteq Candidate
         /\ \A c \in GeneratedPush(d, ds, N) : c.dir = d
         /\ Tally(EnqueueGenerated(ds, N), F \cup GeneratedPush(d, ds, N), R, Q)
<1> DEFINE G == N \ ds.knownPaths
           A == GeneratedPush(d, ds, N)
           new == EnqueueGenerated(ds, N)
<1>1. /\ IsFiniteSet(G) /\ G \subseteq Name /\ Cardinality(G) \in Nat
      /\ N \subseteq ds.knownPaths <=> Cardinality(G) = 0
  BY FS_Difference, FS_CardinalityType, FS_EmptySet
<1>2. /\ ds.candidatesTotal \in Nat /\ ds.candidatesAccountedFor \in Nat /\ ds.budget \in Nat
      /\ ds.knownPaths \in SUBSET Name
  BY DEF DirState
<1>3. new = [ds EXCEPT !.knownPaths = ds.knownPaths \cup G,
                       !.candidatesTotal = ds.candidatesTotal + Cardinality(G),
                       !.budget = ds.budget + Cardinality(G)]
  BY DEF EnqueueGenerated
<1>4. /\ new \in DirState
      /\ new.state = "scanning" /\ new.pendingSeeds = ds.pendingSeeds
      /\ new.probeQueue = ds.probeQueue
      /\ new.knownPaths = ds.knownPaths \cup G
      /\ new.candidatesTotal = ds.candidatesTotal + Cardinality(G)
      /\ new.candidatesAccountedFor = ds.candidatesAccountedFor
  <2>1. /\ ds.knownPaths \cup G \in SUBSET Name
        /\ ds.candidatesTotal + Cardinality(G) \in Nat
        /\ ds.budget + Cardinality(G) \in Nat
    BY <1>1, <1>2
  <2> HIDE DEF G, new
  <2> QED BY <2>1, <1>3 DEF DirState
<1>5. /\ \A n \in G : Cand(d, n) \in A
      /\ \A t \in A : \E n \in G : t = Cand(d, n)
  BY DEF GeneratedPush
<1>6. \A n \in Name : /\ Cand(d, n) \in Candidate
                      /\ Cand(d, n).dir = d /\ Cand(d, n).name = n
  BY DEF Cand, Candidate
<1> HIDE DEF A, G, new
<1>7. IsFiniteSet(A) /\ Cardinality(A) = Cardinality(G)
  BY <1>1, <1>5, CandCardinality
<1>8. \A t \in A : t \in Candidate /\ t.dir = d /\ t.name \in G
  BY <1>1, <1>5, <1>6
<1>9. A \cap (F \cup Q) = {}
  BY <1>8 DEF Sound, G
<1>10. /\ IsFiniteSet(F \cup A) /\ Cardinality(F \cup A) = Cardinality(F) + Cardinality(G)
       /\ Cardinality(F) \in Nat /\ Cardinality(R) \in Nat
  <2>1. F \cap A = {} /\ IsFiniteSet(F) /\ IsFiniteSet(R)
    BY <1>9 DEF Sound
  <2> QED BY <2>1, <1>7, DisjointCardinality, FS_CardinalityType
<1>11. Balanced(new, F \cup A, R) /\ new.candidatesAccountedFor # new.candidatesTotal
  BY <1>1, <1>2, <1>4, <1>10 DEF Balanced
<1>12. Sound(new, F \cup A, R, Q)
  BY <1>4, <1>8, <1>9, <1>10 DEF Sound
<1> QED BY <1>4, <1>8, <1>11, <1>12 DEF Tally, A, new

\* Staging names in a directory of any state.
LEMMA StageOK ==
  ASSUME NEW d \in Dir, NEW ds \in DirState, NEW F, NEW R, NEW Q, NEW out,
         Tally(ds, F, R, Q), ProbeTally(ds, out),
         NEW N \in SUBSET Name, IsFiniteSet(N)
  PROVE  /\ StageDirCandidate(ds, N) \in DirState
         /\ StagedPush(d, ds, N) \subseteq Candidate
         /\ \A c \in StagedPush(d, ds, N) : c.dir = d
         /\ Tally(StageDirCandidate(ds, N), F \cup StagedPush(d, ds, N), R, Q)
         /\ ProbeTally(StageDirCandidate(ds, N), out)
<1>1. CASE ds.state = "calibrating"
  <2> DEFINE new == [ds EXCEPT !.pendingSeeds = ds.pendingSeeds \cup N]
  <2>1. StageDirCandidate(ds, N) = new /\ StagedPush(d, ds, N) = {}
    BY <1>1 DEF StageDirCandidate, StagedPush
  <2>2. IsFiniteSet(ds.pendingSeeds \cup N)
    BY FS_Union DEF Tally, Sound
  <2>3. /\ new \in DirState
        /\ new.pendingSeeds = ds.pendingSeeds \cup N
        /\ new.state = ds.state /\ new.knownPaths = ds.knownPaths
        /\ new.candidatesAccountedFor = ds.candidatesAccountedFor
        /\ new.probesTotal = ds.probesTotal /\ new.probesDone = ds.probesDone
        /\ new.probeQueue = ds.probeQueue
    <3>1. ds.pendingSeeds \cup N \in SUBSET Name
      BY DEF DirState
    <3> QED BY <3>1 DEF DirState
  <2> HIDE DEF new
  <2>4. Tally(new, F, R, Q)
    BY <1>1, <2>2, <2>3 DEF Tally, Sound
  <2>5. ProbeTally(new, out)
    BY <1>1, <2>3 DEF ProbeTally
  <2> QED BY <2>1, <2>3, <2>4, <2>5
<1>2. CASE ds.state = "done" /\ N \subseteq ds.knownPaths
  <2>1. StageDirCandidate(ds, N) = ds /\ StagedPush(d, ds, N) = {}
    BY <1>2 DEF StageDirCandidate, StagedPush, Reopened, EnqueueGenerated, GeneratedPush
  <2> QED BY <2>1
<1>3. CASE ds.state = "scanning" \/ (ds.state = "done" /\ ~(N \subseteq ds.knownPaths))
  <2> DEFINE re == Reopened(ds, N)
  <2>1. /\ re \in DirState /\ re.state = "scanning"
        /\ re.pendingSeeds = ds.pendingSeeds /\ re.knownPaths = ds.knownPaths
        /\ re.candidatesAccountedFor = ds.candidatesAccountedFor
        /\ re.candidatesTotal = ds.candidatesTotal /\ re.probeQueue = ds.probeQueue
    BY <1>3 DEF Reopened, DirState
  <2>2. Sound(re, F, R, Q) /\ Balanced(re, F, R)
    <3> HIDE DEF re
    <3> QED BY <1>3, <2>1 DEF Tally, Sound, Balanced
  <2>3. re.candidatesAccountedFor # re.candidatesTotal \/ ~(N \subseteq re.knownPaths)
    BY <1>3, <2>1 DEF Tally
  <2>4. ds.probeQueue = {} /\ out = {}
    BY <1>3 DEF ProbeTally
  <2>5. /\ StageDirCandidate(ds, N) = EnqueueGenerated(re, N)
        /\ StagedPush(d, ds, N) = GeneratedPush(d, re, N)
    BY <1>3 DEF StageDirCandidate, StagedPush
  <2> HIDE DEF re
  <2>6. /\ EnqueueGenerated(re, N) \in DirState
        /\ EnqueueGenerated(re, N).state = "scanning"
        /\ EnqueueGenerated(re, N).probeQueue = re.probeQueue
        /\ GeneratedPush(d, re, N) \subseteq Candidate
        /\ \A c \in GeneratedPush(d, re, N) : c.dir = d
        /\ Tally(EnqueueGenerated(re, N), F \cup GeneratedPush(d, re, N), R, Q)
    BY <2>1, <2>2, <2>3, GeneratedOK
  <2>7. ProbeTally(EnqueueGenerated(re, N), out)
    BY <2>1, <2>4, <2>6 DEF ProbeTally
  <2> QED BY <2>5, <2>6, <2>7
<1> QED BY <1>1, <1>2, <1>3 DEF DirState

\* Accounting for the queued candidates P, or for the candidate P in flight.
LEMMA AccountOK ==
  ASSUME NEW ds \in DirState, NEW F, NEW R, NEW Q, NEW out, NEW P,
         Tally(ds, F, R, Q), ProbeTally(ds, out),
         P \subseteq F \/ P \subseteq R
  PROVE  /\ IsFiniteSet(P)
         /\ Account(ds, Cardinality(P)) \in DirState
         /\ P \subseteq F => Tally(Account(ds, Cardinality(P)), F \ P, R, Q)
         /\ P \subseteq R => Tally(Account(ds, Cardinality(P)), F, R \ P, Q)
         /\ ProbeTally(Account(ds, Cardinality(P)), out)
         /\ Account(ds, Cardinality(P)).requestsDispatched = ds.requestsDispatched
<1> DEFINE k == Cardinality(P)
           new == Account(ds, k)
<1>1. IsFiniteSet(F) /\ IsFiniteSet(R) /\ IsFiniteSet(P)
  BY FS_Subset DEF Tally, Sound
<1>2. /\ Cardinality(F) \in Nat /\ Cardinality(R) \in Nat /\ k \in Nat
      /\ k = 0 <=> P = {}
  BY <1>1, FS_CardinalityType, FS_EmptySet
<1>3. CASE P = {}
  <2>1. new = ds /\ F \ P = F /\ R \ P = R
    BY <1>2, <1>3 DEF Account
  <2> QED BY <1>1, <2>1
<1>4. CASE P # {}
  <2>1. ds.state # "calibrating"
    BY <1>4 DEF Tally, Sound
  <2>2. /\ ds.candidatesTotal \in Nat /\ ds.candidatesAccountedFor \in Nat
        /\ Balanced(ds, F, R) /\ Sound(ds, F, R, Q)
    BY <2>1 DEF Tally, DirState
  <2>3. new = [ds EXCEPT
          !.candidatesAccountedFor = ds.candidatesAccountedFor + k,
          !.state = IF ds.candidatesAccountedFor + k >= ds.candidatesTotal
                    THEN "done" ELSE ds.state]
    BY <1>2, <1>4 DEF Account
  <2>4. ds.candidatesAccountedFor + k \in Nat
    BY <1>2, <2>2
  <2>5. /\ new \in DirState
        /\ new.candidatesAccountedFor = ds.candidatesAccountedFor + k
        /\ new.candidatesTotal = ds.candidatesTotal
        /\ new.pendingSeeds = ds.pendingSeeds /\ new.knownPaths = ds.knownPaths
        /\ new.probeQueue = ds.probeQueue
        /\ new.requestsDispatched = ds.requestsDispatched
        /\ new.state = IF ds.candidatesAccountedFor + k >= ds.candidatesTotal
                       THEN "done" ELSE ds.state
    <3> HIDE DEF k, new
    <3> QED BY <2>3, <2>4 DEF DirState
  <2> HIDE DEF new
  <2>6. ProbeTally(new, out)
    BY <2>1, <2>5 DEF ProbeTally
  <2>7. ASSUME P \subseteq F PROVE Tally(new, F \ P, R, Q)
    <3>1. /\ IsFiniteSet(F \ P) /\ Cardinality(F) = Cardinality(F \ P) + k
          /\ Cardinality(F \ P) \in Nat
      BY <1>1, <2>7, RemoveCardinality
    <3>2. Sound(new, F \ P, R, Q)
      BY <2>2, <2>5, <3>1 DEF Sound
    <3>3. ds.state = "done" <=> ds.candidatesAccountedFor = ds.candidatesTotal
      BY <2>1 DEF Tally
    <3> HIDE DEF k
    <3>4. Balanced(new, F \ P, R)
      BY <1>2, <2>2, <2>5, <3>1 DEF Balanced
    <3>5. new.state = "done" <=> new.candidatesAccountedFor = new.candidatesTotal
      BY <1>2, <2>2, <2>5, <3>1, <3>3 DEF Balanced
    <3> QED BY <2>1, <2>5, <3>2, <3>4, <3>5 DEF Tally
  <2>8. ASSUME P \subseteq R PROVE Tally(new, F, R \ P, Q)
    <3>1. /\ IsFiniteSet(R \ P) /\ Cardinality(R) = Cardinality(R \ P) + k
          /\ Cardinality(R \ P) \in Nat
      BY <1>1, <2>8, RemoveCardinality
    <3>2. Sound(new, F, R \ P, Q)
      BY <2>2, <2>5, <3>1 DEF Sound
    <3>3. ds.state = "done" <=> ds.candidatesAccountedFor = ds.candidatesTotal
      BY <2>1 DEF Tally
    <3> HIDE DEF k
    <3>4. Balanced(new, F, R \ P)
      BY <1>2, <2>2, <2>5, <3>1 DEF Balanced
    <3>5. new.state = "done" <=> new.candidatesAccountedFor = new.candidatesTotal
      BY <1>2, <2>2, <2>5, <3>1, <3>3 DEF Balanced
    <3> QED BY <2>1, <2>5, <3>2, <3>4, <3>5 DEF Tally
  <2> QED BY <1>1, <2>5, <2>6, <2>7, <2>8 DEF new
<1> QED BY <1>3, <1>4

\* Dispatching the queued candidate c.
LEMMA DispatchOK ==
  ASSUME NEW ds \in DirState, NEW F, NEW R, NEW Q, NEW out, NEW c \in F,
         Tally(ds, F, R, Q), ProbeTally(ds, out)
  PROVE  LET new == [ds EXCEPT !.requestsDispatched = @ + 1]
         IN  /\ new \in DirState
             /\ Tally(new, F \ {c}, R \cup {c}, Q \cup {c})
             /\ ProbeTally(new, out)
<1> DEFINE new == [ds EXCEPT !.requestsDispatched = ds.requestsDispatched + 1]
<1>1. /\ new \in DirState
      /\ new.state = ds.state /\ new.pendingSeeds = ds.pendingSeeds
      /\ new.knownPaths = ds.knownPaths /\ new.probeQueue = ds.probeQueue
      /\ new.probesDone = ds.probesDone /\ new.probesTotal = ds.probesTotal
      /\ new.candidatesTotal = ds.candidatesTotal
      /\ new.candidatesAccountedFor = ds.candidatesAccountedFor
  BY DEF DirState
<1>2. ds.state # "calibrating" /\ Sound(ds, F, R, Q) /\ Balanced(ds, F, R)
  BY DEF Tally
<1>3. IsFiniteSet(F) /\ IsFiniteSet(R) /\ c \notin R
  BY <1>2 DEF Sound
<1>4. /\ IsFiniteSet(F \ {c}) /\ Cardinality(F) = Cardinality(F \ {c}) + 1
      /\ Cardinality(F \ {c}) \in Nat
  <2>1. {c} \subseteq F /\ Cardinality({c}) = 1
    BY FS_Singleton
  <2> QED BY <1>3, <2>1, RemoveCardinality
<1>5. /\ IsFiniteSet(R \cup {c}) /\ Cardinality(R \cup {c}) = Cardinality(R) + 1
      /\ Cardinality(R) \in Nat
  BY <1>3, FS_AddElement, FS_CardinalityType
<1> HIDE DEF new
<1>6. Sound(new, F \ {c}, R \cup {c}, Q \cup {c})
  BY <1>1, <1>2, <1>4, <1>5 DEF Sound
<1>7. Balanced(new, F \ {c}, R \cup {c})
  <2>1. ds.candidatesAccountedFor \in Nat
    BY DEF DirState
  <2> QED BY <1>1, <1>2, <1>4, <1>5, <2>1 DEF Balanced
<1>8. Tally(new, F \ {c}, R \cup {c}, Q \cup {c})
  BY <1>1, <1>2, <1>6, <1>7 DEF Tally
<1>9. ProbeTally(new, out)
  BY <1>1 DEF ProbeTally
<1> QED BY <1>1, <1>8, <1>9 DEF new

\* The trap flags are not part of the bookkeeping.
LEMMA FlagsOK ==
  ASSUME NEW ds \in DirState, NEW F, NEW R, NEW Q, NEW out, NEW b \in BOOLEAN,
         Tally(ds, F, R, Q), ProbeTally(ds, out)
  PROVE  /\ Slowed(ds, b) \in DirState
         /\ Slowed(ds, b).state = ds.state
         /\ Tally(Slowed(ds, b), F, R, Q) /\ ProbeTally(Slowed(ds, b), out)
         /\ LET new == [ds EXCEPT !.wildcardSuspect = @ \/ b]
            IN  new \in DirState /\ Tally(new, F, R, Q) /\ ProbeTally(new, out)
<1> DEFINE s == Slowed(ds, b)
           w == [ds EXCEPT !.wildcardSuspect = ds.wildcardSuspect \/ b]
<1>1. \A new \in {s, w} :
        /\ new \in DirState
        /\ new.state = ds.state /\ new.pendingSeeds = ds.pendingSeeds
        /\ new.knownPaths = ds.knownPaths /\ new.probeQueue = ds.probeQueue
        /\ new.probesDone = ds.probesDone /\ new.probesTotal = ds.probesTotal
        /\ new.candidatesTotal = ds.candidatesTotal
        /\ new.candidatesAccountedFor = ds.candidatesAccountedFor
  <2>1. (ds.capped \/ b) \in BOOLEAN /\ (ds.wildcardSuspect \/ b) \in BOOLEAN
    OBVIOUS
  <2> QED BY <2>1 DEF Slowed, DirState
<1> HIDE DEF s, w
<1>2. \A new \in {s, w} : Tally(new, F, R, Q)
  BY <1>1 DEF Tally, Sound, Balanced
<1>3. \A new \in {s, w} : ProbeTally(new, out)
  BY <1>1 DEF ProbeTally
<1> QED BY <1>1, <1>2, <1>3 DEF s, w

\* A handled result settles the candidate c that was in flight.
LEMMA SettleOK ==
  ASSUME NEW ds \in DirState, NEW F, NEW R, NEW Q, NEW out, NEW c \in R, NEW b \in BOOLEAN,
         Tally(ds, F, R, Q), ProbeTally(ds, out)
  PROVE  /\ Settle(ds, b) \in DirState
         /\ Tally(Settle(ds, b), F, R \ {c}, Q)
         /\ ProbeTally(Settle(ds, b), out)
<1> DEFINE w == [ds EXCEPT !.wildcardSuspect = @ \/ b]
<1>1. w \in DirState /\ Tally(w, F, R, Q) /\ ProbeTally(w, out)
  BY FlagsOK
<1>2. Cardinality({c}) = 1 /\ Settle(ds, b) = Account(w, 1)
  BY FS_Singleton DEF Settle
<1>3. {c} \subseteq R
  OBVIOUS
<1> HIDE DEF w
<1>4. /\ Account(w, Cardinality({c})) \in DirState
      /\ Tally(Account(w, Cardinality({c})), F, R \ {c}, Q)
      /\ ProbeTally(Account(w, Cardinality({c})), out)
  BY <1>1, <1>3, AccountOK
<1> QED BY <1>2, <1>4

-----------------------------------------------------------------------------
(* What they do to the tree.                                               *)

\* Nothing of a directory that is not in the tree is queued or in flight.
LEMMA Outside ==
  ASSUME NEW D, NEW F, NEW R, NEW Q, NEW O, TreeOK(D, F, R, Q, O), NEW d, d \notin DOMAIN D
  PROVE  Under(d, F) = {} /\ Under(d, R) = {} /\ Under(d, Q) = {} /\ Under(d, O) = {}
BY DEF TreeOK, Under

\* A step that replaces the record of directory d and changes only what is
\* queued or in flight for d.
LEMMA UpdateTree ==
  ASSUME NEW D, NEW F, NEW R, NEW Q, NEW O, TreeOK(D, F, R, Q, O),
         NEW F2 \in SUBSET Candidate, NEW R2, NEW Q2 \in SUBSET Candidate, R2 \subseteq Q2,
         NEW O2 \in SUBSET [dir : Dir, index : 1..NProbes],
         NEW d \in DOMAIN D, NEW new \in DirState,
         \A c : c.dir # d => /\ c \in F2 <=> c \in F
                             /\ c \in R2 <=> c \in R
                             /\ c \in Q2 <=> c \in Q
                             /\ c \in O2 <=> c \in O,
         Tally(new, Under(d, F2), Under(d, R2), Under(d, Q2)),
         ProbeTally(new, Under(d, O2))
  PROVE  TreeOK([D EXCEPT ![d] = new], F2, R2, Q2, O2)
<1> DEFINE E == [D EXCEPT ![d] = new]
<1>1. /\ DOMAIN E = DOMAIN D /\ E \in [DOMAIN D -> DirState]
      /\ E[d] = new /\ \A x \in DOMAIN D : x # d => E[x] = D[x]
  BY DEF TreeOK
<1>2. \A c \in F2 \cup Q2 \cup O2 : c.dir \in DOMAIN D
  BY DEF TreeOK
<1>3. \A x \in DOMAIN D : x # d => /\ Under(x, F2) = Under(x, F)
                                   /\ Under(x, R2) = Under(x, R)
                                   /\ Under(x, Q2) = Under(x, Q)
                                   /\ Under(x, O2) = Under(x, O)
  BY DEF Under
<1> HIDE DEF E
<1>4. \A x \in DOMAIN E : /\ Tally(E[x], Under(x, F2), Under(x, R2), Under(x, Q2))
                          /\ ProbeTally(E[x], Under(x, O2))
  BY <1>1, <1>3 DEF TreeOK
<1>5. DOMAIN E \subseteq Dir
  BY <1>1 DEF TreeOK
<1> QED BY <1>1, <1>2, <1>4, <1>5 DEF TreeOK, E

\* Accounting for queued candidates, or for candidates in flight.
LEMMA AccountTree ==
  ASSUME NEW D, NEW F, NEW R, NEW Q, NEW O, TreeOK(D, F, R, Q, O), NEW P
  PROVE  /\ P \subseteq F => TreeOK(AccountFor(D, P), F \ P, R, Q, O)
         /\ P \subseteq R => TreeOK(AccountFor(D, P), F, R \ P, Q, O)
<1> DEFINE E == AccountFor(D, P)
<1>1. /\ DOMAIN E = DOMAIN D
      /\ \A d \in DOMAIN D : E[d] = Account(D[d], Cardinality(Under(d, P)))
  BY DEF AccountFor
<1>2. \A S, d : /\ P \subseteq S => Under(d, P) \subseteq Under(d, S)
                /\ Under(d, S \ P) = Under(d, S) \ Under(d, P)
  BY DEF Under
<1>3. \A d \in DOMAIN D : /\ D[d] \in DirState
                          /\ Tally(D[d], Under(d, F), Under(d, R), Under(d, Q))
                          /\ ProbeTally(D[d], Under(d, O))
  BY DEF TreeOK
<1> HIDE DEF E
<1>4. ASSUME P \subseteq F, NEW d \in DOMAIN D
      PROVE  /\ E[d] \in DirState /\ ProbeTally(E[d], Under(d, O))
             /\ Tally(E[d], Under(d, F \ P), Under(d, R), Under(d, Q))
  <2>1. Under(d, P) \subseteq Under(d, F) /\ Under(d, F \ P) = Under(d, F) \ Under(d, P)
    BY <1>2, <1>4
  <2>2. /\ D[d] \in DirState /\ ProbeTally(D[d], Under(d, O))
        /\ Tally(D[d], Under(d, F), Under(d, R), Under(d, Q))
    BY <1>3, <1>4
  <2>3. LET new == Account(D[d], Cardinality(Under(d, P)))
        IN  /\ new \in DirState /\ ProbeTally(new, Under(d, O))
            /\ Tally(new, Under(d, F) \ Under(d, P), Under(d, R), Under(d, Q))
    BY <2>1, <2>2, AccountOK
  <2> QED BY <1>1, <1>4, <2>1, <2>3
<1>5. ASSUME P \subseteq R, NEW d \in DOMAIN D
      PROVE  /\ E[d] \in DirState /\ ProbeTally(E[d], Under(d, O))
             /\ Tally(E[d], Under(d, F), Under(d, R \ P), Under(d, Q))
  <2>1. Under(d, P) \subseteq Under(d, R) /\ Under(d, R \ P) = Under(d, R) \ Under(d, P)
    BY <1>2, <1>5
  <2>2. /\ D[d] \in DirState /\ ProbeTally(D[d], Under(d, O))
        /\ Tally(D[d], Under(d, F), Under(d, R), Under(d, Q))
    BY <1>3, <1>5
  <2>3. LET new == Account(D[d], Cardinality(Under(d, P)))
        IN  /\ new \in DirState /\ ProbeTally(new, Under(d, O))
            /\ Tally(new, Under(d, F), Under(d, R) \ Under(d, P), Under(d, Q))
    BY <2>1, <2>2, AccountOK
  <2> QED BY <1>1, <1>5, <2>1, <2>3
<1>6. E = [d \in DOMAIN D |-> E[d]]
  BY DEF E, AccountFor
<1>7. ASSUME P \subseteq F PROVE TreeOK(E, F \ P, R, Q, O)
  BY <1>1, <1>4, <1>6, <1>7 DEF TreeOK
<1>8. ASSUME P \subseteq R PROVE TreeOK(E, F, R \ P, Q, O)
  BY <1>1, <1>5, <1>6, <1>8 DEF TreeOK
<1> QED BY <1>7, <1>8 DEF E

\* Dispatching a queued candidate.
LEMMA DispatchTree ==
  ASSUME NEW D, NEW F, NEW R, NEW Q, NEW O, TreeOK(D, F, R, Q, O), NEW c \in F
  PROVE  TreeOK([D EXCEPT ![c.dir].requestsDispatched = @ + 1],
                F \ {c}, R \cup {c}, Q \cup {c}, O)
<1> DEFINE d == c.dir
           new == [D[d] EXCEPT !.requestsDispatched = @ + 1]
<1>1. d \in DOMAIN D /\ D[d] \in DirState /\ c \in Under(d, F)
  BY DEF TreeOK, Under
<1>2. Tally(D[d], Under(d, F), Under(d, R), Under(d, Q)) /\ ProbeTally(D[d], Under(d, O))
  BY <1>1 DEF TreeOK
<1>3. /\ new \in DirState /\ ProbeTally(new, Under(d, O))
      /\ Tally(new, Under(d, F) \ {c}, Under(d, R) \cup {c}, Under(d, Q) \cup {c})
  BY <1>1, <1>2, DispatchOK
<1>4. /\ Under(d, F \ {c}) = Under(d, F) \ {c}
      /\ Under(d, R \cup {c}) = Under(d, R) \cup {c}
      /\ Under(d, Q \cup {c}) = Under(d, Q) \cup {c}
  BY DEF Under
<1>5. /\ F \ {c} \in SUBSET Candidate /\ Q \cup {c} \in SUBSET Candidate
      /\ R \cup {c} \subseteq Q \cup {c}
      /\ O \in SUBSET [dir : Dir, index : 1..NProbes]
  BY DEF TreeOK
<1>6. \A x : x.dir # d => /\ x \in F \ {c} <=> x \in F
                          /\ x \in R \cup {c} <=> x \in R
                          /\ x \in Q \cup {c} <=> x \in Q
                          /\ x \in O <=> x \in O
  OBVIOUS
<1>7. [D EXCEPT ![c.dir].requestsDispatched = @ + 1] = [D EXCEPT ![d] = new]
  OBVIOUS
<1> HIDE DEF d, new
<1>8. /\ Tally(new, Under(d, F \ {c}), Under(d, R \cup {c}), Under(d, Q \cup {c}))
      /\ ProbeTally(new, Under(d, O))
  BY <1>3, <1>4
<1>9. ASSUME NEW F2, F2 = F \ {c}, NEW R2, R2 = R \cup {c}, NEW Q2, Q2 = Q \cup {c}
      PROVE  TreeOK([D EXCEPT ![d] = new], F2, R2, Q2, O)
  <2>1. \A x : x.dir # d => /\ x \in F2 <=> x \in F
                            /\ x \in R2 <=> x \in R
                            /\ x \in Q2 <=> x \in Q
                            /\ x \in O <=> x \in O
    BY <1>6, <1>9
  <2>2. /\ F2 \in SUBSET Candidate /\ Q2 \in SUBSET Candidate /\ R2 \subseteq Q2
        /\ O \in SUBSET [dir : Dir, index : 1..NProbes]
    BY <1>5, <1>9
  <2>3. Tally(new, Under(d, F2), Under(d, R2), Under(d, Q2)) /\ ProbeTally(new, Under(d, O))
    BY <1>8, <1>9
  <2> QED BY <1>1, <1>3, <2>1, <2>2, <2>3, UpdateTree
<1> QED BY <1>7, <1>9

\* New directories W start their calibration, probes[d] of their probes in scope.
LEMMA GrowTree ==
  ASSUME NEW D, NEW F, NEW R, NEW Q, NEW O, TreeOK(D, F, R, Q, O),
         NEW W \in SUBSET Dir, W \cap DOMAIN D = {}, NEW probes \in [W -> 0..NProbes]
  PROVE  TreeOK([d \in DOMAIN D \cup W |->
                   IF d \in DOMAIN D THEN D[d] ELSE Entered(d, Calibrating(probes[d]))],
                F \cup UNION {EnteredPush(d, Calibrating(probes[d])) : d \in W}, R, Q, O)
<1> DEFINE E == [d \in DOMAIN D \cup W |->
                   IF d \in DOMAIN D THEN D[d] ELSE Entered(d, Calibrating(probes[d]))]
           U == UNION {EnteredPush(d, Calibrating(probes[d])) : d \in W}
<1>1. \A d \in W : /\ Entered(d, Calibrating(probes[d])) \in DirState
                   /\ EnteredPush(d, Calibrating(probes[d])) \subseteq Candidate
                   /\ \A c \in EnteredPush(d, Calibrating(probes[d])) : c.dir = d
                   /\ Tally(Entered(d, Calibrating(probes[d])),
                            EnteredPush(d, Calibrating(probes[d])), {}, {})
                   /\ ProbeTally(Entered(d, Calibrating(probes[d])), {})
  BY StartOK
<1>2. /\ DOMAIN E = DOMAIN D \cup W /\ E = [d \in DOMAIN E |-> E[d]]
      /\ \A d \in DOMAIN D : E[d] = D[d]
      /\ \A d \in W : E[d] = Entered(d, Calibrating(probes[d]))
  OBVIOUS
<1>3. /\ U \subseteq Candidate /\ \A c \in U : c.dir \in W
      /\ \A d \in DOMAIN D : Under(d, U) = {}
      /\ \A d \in W : Under(d, U) = EnteredPush(d, Calibrating(probes[d]))
  <2>1. \A c \in U : \E d \in W : c \in EnteredPush(d, Calibrating(probes[d]))
    OBVIOUS
  <2>2. \A d \in W : EnteredPush(d, Calibrating(probes[d])) \subseteq U
    OBVIOUS
  <2> HIDE DEF U
  <2>3. \A c \in U : c \in Candidate /\ c.dir \in W /\
                     c \in EnteredPush(c.dir, Calibrating(probes[c.dir]))
    BY <1>1, <2>1
  <2>4. \A d \in W : Under(d, U) = EnteredPush(d, Calibrating(probes[d]))
    <3> SUFFICES ASSUME NEW d \in W
                 PROVE  Under(d, U) = EnteredPush(d, Calibrating(probes[d]))
      OBVIOUS
    <3>1. \A c \in Under(d, U) : c \in EnteredPush(d, Calibrating(probes[d]))
      BY <2>3 DEF Under
    <3>2. \A c \in EnteredPush(d, Calibrating(probes[d])) : c \in Under(d, U)
      BY <1>1, <2>2 DEF Under
    <3> QED BY <3>1, <3>2
  <2> QED BY <2>3, <2>4 DEF Under
<1> HIDE DEF E, U
<1>4. \A S, d : Under(d, S \cup U) = Under(d, S) \cup Under(d, U)
  BY DEF Under
<1>5. ASSUME NEW d \in DOMAIN E
      PROVE  /\ E[d] \in DirState /\ ProbeTally(E[d], Under(d, O))
             /\ Tally(E[d], Under(d, F \cup U), Under(d, R), Under(d, Q))
  <2>1. CASE d \in DOMAIN D
    <3>1. E[d] = D[d] /\ Under(d, F \cup U) = Under(d, F)
      <4>1. Under(d, U) = {}
        BY <1>3, <2>1
      <4>2. Under(d, F \cup U) = Under(d, F) \cup Under(d, U)
        BY <1>4
      <4> QED BY <1>2, <2>1, <4>1, <4>2
    <3>2. /\ D[d] \in DirState /\ ProbeTally(D[d], Under(d, O))
          /\ Tally(D[d], Under(d, F), Under(d, R), Under(d, Q))
      BY <2>1 DEF TreeOK
    <3> QED BY <3>1, <3>2
  <2>2. CASE d \in W
    <3>1. Under(d, F) = {} /\ Under(d, R) = {} /\ Under(d, Q) = {} /\ Under(d, O) = {}
      BY <2>2, Outside
    <3>2. Under(d, F \cup U) = EnteredPush(d, Calibrating(probes[d]))
      <4>1. Under(d, U) = EnteredPush(d, Calibrating(probes[d]))
        BY <1>3, <2>2
      <4>2. Under(d, F \cup U) = Under(d, F) \cup Under(d, U)
        BY <1>4
      <4> QED BY <3>1, <4>1, <4>2
    <3>3. E[d] = Entered(d, Calibrating(probes[d]))
      BY <1>2, <2>2
    <3>4. /\ Entered(d, Calibrating(probes[d])) \in DirState
          /\ Tally(Entered(d, Calibrating(probes[d])),
                   EnteredPush(d, Calibrating(probes[d])), {}, {})
          /\ ProbeTally(Entered(d, Calibrating(probes[d])), {})
      BY <1>1, <2>2
    <3> QED BY <3>1, <3>2, <3>3, <3>4
  <2> QED BY <1>2, <2>1, <2>2
<1>6. TreeOK(E, F \cup U, R, Q, O)
  BY <1>2, <1>3, <1>5 DEF TreeOK
<1> QED BY <1>6 DEF E, U

\* Every directory d stages the names N[d].
LEMMA StageTree ==
  ASSUME NEW D, NEW F, NEW R, NEW Q, NEW O, TreeOK(D, F, R, Q, O),
         NEW N, \A d \in DOMAIN D : N[d] \in SUBSET Name /\ IsFiniteSet(N[d])
  PROVE  TreeOK([d \in DOMAIN D |-> StageDirCandidate(D[d], N[d])],
                F \cup UNION {StagedPush(d, D[d], N[d]) : d \in DOMAIN D}, R, Q, O)
<1> DEFINE E == [d \in DOMAIN D |-> StageDirCandidate(D[d], N[d])]
           U == UNION {StagedPush(d, D[d], N[d]) : d \in DOMAIN D}
<1>1. \A d \in DOMAIN D :
        /\ StageDirCandidate(D[d], N[d]) \in DirState
        /\ StagedPush(d, D[d], N[d]) \subseteq Candidate
        /\ \A c \in StagedPush(d, D[d], N[d]) : c.dir = d
        /\ Tally(StageDirCandidate(D[d], N[d]), Under(d, F) \cup StagedPush(d, D[d], N[d]),
                 Under(d, R), Under(d, Q))
        /\ ProbeTally(StageDirCandidate(D[d], N[d]), Under(d, O))
  <2> TAKE d \in DOMAIN D
  <2>1. /\ d \in Dir /\ D[d] \in DirState
        /\ Tally(D[d], Under(d, F), Under(d, R), Under(d, Q))
        /\ ProbeTally(D[d], Under(d, O))
    BY DEF TreeOK
  <2> QED BY <2>1, StageOK
<1>2. \A d \in DOMAIN D : Under(d, U) = StagedPush(d, D[d], N[d])
  BY <1>1 DEF Under
<1>3. U \subseteq Candidate /\ \A c \in U : c.dir \in DOMAIN D
  BY <1>1
<1>4. /\ DOMAIN E = DOMAIN D /\ E = [d \in DOMAIN E |-> E[d]]
      /\ \A d \in DOMAIN D : E[d] = StageDirCandidate(D[d], N[d])
  OBVIOUS
<1> HIDE DEF E, U
<1>5. \A S, d : Under(d, S \cup U) = Under(d, S) \cup Under(d, U)
  BY DEF Under
<1>6. \A d \in DOMAIN E : /\ E[d] \in DirState /\ ProbeTally(E[d], Under(d, O))
                          /\ Tally(E[d], Under(d, F \cup U), Under(d, R), Under(d, Q))
  <2> TAKE d \in DOMAIN E
  <2>1. Under(d, F \cup U) = Under(d, F) \cup StagedPush(d, D[d], N[d])
    BY <1>2, <1>4, <1>5
  <2>2. E[d] = StageDirCandidate(D[d], N[d])
    BY <1>4
  <2> QED BY <1>1, <1>4, <2>1, <2>2
<1>7. TreeOK(E, F \cup U, R, Q, O)
  BY <1>3, <1>4, <1>6 DEF TreeOK
<1> QED BY <1>7 DEF E, U

-----------------------------------------------------------------------------
(* What the coordinator's steps do to the tree.                            *)

\* The directories a set of seeds adds are directories.
LEMMA NewDirsType ==
  ASSUME NEW K \in SUBSET SeedPaths
  PROVE  NewDirs(K) \subseteq Dir /\ NewDirs(K) \cap DOMAIN dirs = {}
<1>1. \A p \in K : AncestorDirs(p) \subseteq Dir
  <2> TAKE p \in K
  <2>1. p \in Seq(Name)
    BY ConstantsAssumption DEF Url
  <2>2. ASSUME NEW i \in 1..(Len(p) - 1) PROVE SubSeq(p, 1, i) \in Dir
    BY <2>1 DEF Dir
  <2> QED BY <2>2 DEF AncestorDirs
<1>2. ASSUME NEW d \in NewDirs(K) PROVE d \in Dir /\ d \notin DOMAIN dirs
  <2>1. PICK p \in K : d \in AncestorDirs(p)
    BY DEF NewDirs
  <2> QED BY <1>1, <2>1 DEF NewDirs
<1> QED BY <1>2

\* enqueueSeed keeps the tree in order, whatever the seeds.
LEMMA SeedsTree ==
  ASSUME Tree, NEW K \in SUBSET SeedPaths, NEW probes \in ProbeCounts(K),
         EnqueueSeeds(K, probes), realOut' = realOut, requested' = requested,
         probesOut' = probesOut, staged \subseteq Candidate
  PROVE  Tree' /\ staged' \subseteq Candidate
<1> DEFINE W == NewDirs(K)
           base == [d \in DOMAIN dirs \cup W |->
                      IF d \in DOMAIN dirs THEN dirs[d] ELSE Entered(d, Calibrating(probes[d]))]
           F1 == frontier \cup UNION {EnteredPush(d, Calibrating(probes[d])) : d \in W}
           N == [d \in Dir |-> NamesUnder(K, d)]
<1>1. W \in SUBSET Dir /\ W \cap DOMAIN dirs = {} /\ probes \in [W -> 0..NProbes]
  BY NewDirsType DEF ProbeCounts
<1>2. TreeOK(base, F1, realOut, requested, probesOut)
  <2> HIDE DEF W
  <2> QED BY <1>1, GrowTree DEF Tree
<1>3. DOMAIN base \subseteq Dir
  BY <1>1 DEF Tree, TreeOK
<1>4. \A d \in DOMAIN base : /\ N[d] = NamesUnder(K, d)
                             /\ N[d] \in SUBSET Name /\ IsFiniteSet(N[d])
  <2> HIDE DEF base
  <2> QED BY <1>3, NamesUnderFinite
<1>5. /\ dirs' = [d \in DOMAIN base |-> StageDirCandidate(base[d], NamesUnder(K, d))]
      /\ frontier' = F1 \cup UNION {StagedPush(d, base[d], NamesUnder(K, d)) : d \in DOMAIN base}
      /\ staged' = staged \cup UNION {{Cand(d, n) : n \in NamesUnder(K, d)} : d \in DOMAIN base}
  BY DEF EnqueueSeeds
<1> HIDE DEF base, F1, N
<1>6. TreeOK([d \in DOMAIN base |-> StageDirCandidate(base[d], N[d])],
             F1 \cup UNION {StagedPush(d, base[d], N[d]) : d \in DOMAIN base},
             realOut, requested, probesOut)
  BY <1>2, <1>4, StageTree
<1>7. /\ [d \in DOMAIN base |-> StageDirCandidate(base[d], N[d])] = dirs'
      /\ F1 \cup UNION {StagedPush(d, base[d], N[d]) : d \in DOMAIN base} = frontier'
  BY <1>4, <1>5
<1>8. staged' \subseteq Candidate
  <2>1. \A d \in DOMAIN base : \A n \in NamesUnder(K, d) : Cand(d, n) \in Candidate
    BY <1>3, <1>4 DEF Cand, Candidate
  <2> QED BY <1>5, <2>1
<1> QED BY <1>6, <1>7, <1>8 DEF Tree

\* collectProbe and finishCalibration.
LEMMA ProbeResultTree ==
  ASSUME Tree, NEW p \in probesOut, NEW grow \in BOOLEAN, NEW spa \in BOOLEAN,
         NEW k \in 0..NProbes, ProbeResult(p, grow, spa, k)
  PROVE  Tree'
<1> DEFINE d == p.dir
           out == Under(d, probesOut)
           ds == [dirs[d] EXCEPT !.probesDone = dirs[d].probesDone + 1]
<1>1. /\ d \in DOMAIN dirs /\ d \in Dir /\ dirs[d] \in DirState
      /\ Tally(dirs[d], Under(d, frontier), Under(d, realOut), Under(d, requested))
      /\ ProbeTally(dirs[d], out)
      /\ p \in out
  BY DEF Tree, TreeOK, Under
<1>2. /\ ds \in DirState /\ ds.probesDone = dirs[d].probesDone + 1
      /\ ds.probesTotal = dirs[d].probesTotal /\ ds.probeQueue = dirs[d].probeQueue
      /\ ds.state = dirs[d].state /\ ds.pendingSeeds = dirs[d].pendingSeeds
      /\ ds.knownPaths = dirs[d].knownPaths
      /\ ds.candidatesAccountedFor = dirs[d].candidatesAccountedFor
  BY <1>1 DEF DirState
<1>3. /\ dirs[d].state = "calibrating"
      /\ Under(d, frontier) = {} /\ Under(d, realOut) = {} /\ Under(d, requested) = {}
      /\ Unpushed(ds)
  <2>1. dirs[d].state = "calibrating"
    BY <1>1 DEF ProbeTally
  <2> HIDE DEF ds, d
  <2> QED BY <1>1, <1>2, <2>1 DEF Tally, Sound, Unpushed
<1>4. /\ IsFiniteSet(out \ {p}) /\ Cardinality(out) = Cardinality(out \ {p}) + 1
      /\ Cardinality(out \ {p}) \in Nat /\ Cardinality(ds.probeQueue) \in Nat
      /\ Cardinality(out \ {p}) = 0 => out \ {p} = {}
      /\ Cardinality(ds.probeQueue) = 0 => ds.probeQueue = {}
  <2>1. IsFiniteSet(out) /\ {p} \subseteq out /\ Cardinality({p}) = 1
    BY <1>1, <1>3, FS_Singleton DEF ProbeTally
  <2>2. IsFiniteSet(1..NProbes)
    BY FS_Interval, ConstantsAssumption
  <2>3. ds.probeQueue \subseteq 1..NProbes
    BY <1>2 DEF DirState
  <2>4. IsFiniteSet(ds.probeQueue)
    BY <2>2, <2>3, FS_Subset
  <2>5. /\ IsFiniteSet(out \ {p}) /\ Cardinality(out) = Cardinality(out \ {p}) + 1
        /\ Cardinality(out \ {p}) \in Nat
    BY <2>1, RemoveCardinality
  <2> QED BY <2>4, <2>5, FS_EmptySet, FS_CardinalityType
<1>5. /\ Under(d, probesOut \ {p}) = out \ {p}
      /\ probesOut' = probesOut \ {p} /\ realOut' = realOut /\ requested' = requested
  BY DEF Under, ProbeResult
<1>6. dirs[d].probesDone \in Nat /\ dirs[d].probesTotal \in Nat
  BY <1>1 DEF DirState
<1>7. [dirs[d] EXCEPT !.probesDone = @ + 1] = ds
  OBVIOUS
<1>8. CASE ds.probesDone < ds.probesTotal
  <2>1. dirs' = [dirs EXCEPT ![d] = ds] /\ frontier' = frontier
    <3>1. ~(ds.probesDone >= ds.probesTotal)
      BY <1>2, <1>6, <1>8
    <3> QED BY <1>7, <3>1 DEF ProbeResult
  <2> HIDE DEF ds, d, out
  <2>2. ProbeTally(ds, out \ {p})
    BY <1>1, <1>2, <1>3, <1>4, <1>6, <1>8 DEF ProbeTally
  <2>3. Tally(ds, {}, {}, {})
    BY <1>1, <1>2, <1>3 DEF Tally, Sound
  <2>4. TreeOK([dirs EXCEPT ![d] = ds], frontier, realOut, requested, probesOut \ {p})
    <3>1. \A c : c.dir # d => /\ c \in frontier <=> c \in frontier
                              /\ c \in realOut <=> c \in realOut
                              /\ c \in requested <=> c \in requested
                              /\ c \in probesOut \ {p} <=> c \in probesOut
      BY DEF d
    <3>2. /\ frontier \in SUBSET Candidate /\ requested \in SUBSET Candidate
          /\ realOut \subseteq requested
          /\ probesOut \ {p} \in SUBSET [dir : Dir, index : 1..NProbes]
      BY DEF Tree, TreeOK
    <3>3. /\ Tally(ds, Under(d, frontier), Under(d, realOut), Under(d, requested))
          /\ ProbeTally(ds, Under(d, probesOut \ {p}))
      BY <1>3, <1>5, <2>2, <2>3
    <3>4. TreeOK(dirs, frontier, realOut, requested, probesOut)
      BY DEF Tree
    <3> QED BY <1>1, <1>2, <3>1, <3>2, <3>3, <3>4, UpdateTree
  <2> QED BY <1>5, <2>1, <2>4 DEF Tree
<1>9. CASE ~(ds.probesDone < ds.probesTotal)
  <2> DEFINE refine == d = Root /\ ~rootRefined
             src == IF refine /\ grow THEN Calibrating(k) ELSE ds
  <2>1. FinishCalibration(d, ds, grow, spa, k)
    <3>1. ds.probesDone >= ds.probesTotal
      BY <1>2, <1>6, <1>9
    <3> QED BY <1>7, <3>1 DEF ProbeResult
  <2>2. dirs' = [dirs EXCEPT ![d] = Entered(d, src)] /\ frontier' = frontier \cup EnteredPush(d, src)
    BY <2>1 DEF FinishCalibration
  <2>3. out \ {p} = {} /\ ds.probeQueue = {}
    <3> HIDE DEF ds, d, out
    <3>1. /\ dirs[d].probesTotal
               = dirs[d].probesDone + Cardinality(ds.probeQueue) + Cardinality(out)
          /\ dirs[d].probesDone < dirs[d].probesTotal
      BY <1>1, <1>2, <1>3 DEF ProbeTally
    <3>2. Cardinality(ds.probeQueue) = 0 /\ Cardinality(out \ {p}) = 0
      BY <1>2, <1>4, <1>6, <1>9, <3>1
    <3> QED BY <1>4, <3>2
  <2>4. Unpushed(src) /\ (src.probeQueue # {} => src.state = "calibrating" /\ ProbeTally(src, {}))
    <3>1. CASE refine /\ grow
      BY <3>1, CalibratingOK
    <3>2. CASE ~(refine /\ grow)
      BY <3>2, <1>3, <2>3
    <3> QED BY <3>1, <3>2
  <2> HIDE DEF src, ds, d, out
  <2>5. /\ Entered(d, src) \in DirState
        /\ EnteredPush(d, src) \subseteq Candidate
        /\ \A c \in EnteredPush(d, src) : c.dir = d
        /\ Tally(Entered(d, src), EnteredPush(d, src), {}, {})
        /\ ProbeTally(Entered(d, src), {})
    BY <1>1, <2>4, EnteredOK
  <2>6. Under(d, frontier \cup EnteredPush(d, src)) = EnteredPush(d, src)
    BY <1>3, <2>5 DEF Under
  <2>7. TreeOK([dirs EXCEPT ![d] = Entered(d, src)], frontier \cup EnteredPush(d, src),
               realOut, requested, probesOut \ {p})
    <3> DEFINE F2 == frontier \cup EnteredPush(d, src)
    <3>1. \A c : c.dir # d => /\ c \in F2 <=> c \in frontier
                              /\ c \in realOut <=> c \in realOut
                              /\ c \in requested <=> c \in requested
                              /\ c \in probesOut \ {p} <=> c \in probesOut
      BY <2>5 DEF d
    <3>2. /\ F2 \in SUBSET Candidate /\ requested \in SUBSET Candidate
          /\ realOut \subseteq requested
          /\ probesOut \ {p} \in SUBSET [dir : Dir, index : 1..NProbes]
      BY <2>5 DEF Tree, TreeOK
    <3>3. /\ Tally(Entered(d, src), Under(d, F2), Under(d, realOut), Under(d, requested))
          /\ ProbeTally(Entered(d, src), Under(d, probesOut \ {p}))
      BY <1>3, <1>5, <2>3, <2>5, <2>6
    <3>4. TreeOK(dirs, frontier, realOut, requested, probesOut)
      BY DEF Tree
    <3> HIDE DEF F2
    <3>5. TreeOK([dirs EXCEPT ![d] = Entered(d, src)], F2, realOut, requested, probesOut \ {p})
      BY <1>1, <2>5, <3>1, <3>2, <3>3, <3>4, UpdateTree
    <3> QED BY <3>5 DEF F2
  <2> QED BY <1>5, <2>2, <2>7 DEF Tree
<1> QED BY <1>8, <1>9

\* A directory with a candidate queued or in flight is scanning.
LEMMA BusyIsScanning ==
  ASSUME NEW ds \in DirState, NEW F, NEW R, NEW Q, NEW out, F \cup R # {},
         Tally(ds, F, R, Q), ProbeTally(ds, out)
  PROVE  /\ ds.state = "scanning" /\ ds.candidatesAccountedFor # ds.candidatesTotal
         /\ ds.probeQueue = {} /\ out = {}
         /\ Sound(ds, F, R, Q) /\ Balanced(ds, F, R)
<1>1. ds.state # "calibrating"
  BY DEF Tally, Sound
<1>2. Sound(ds, F, R, Q) /\ Balanced(ds, F, R)
  BY <1>1 DEF Tally
<1>3. /\ Cardinality(F) \in Nat /\ Cardinality(R) \in Nat
      /\ Cardinality(F) # 0 \/ Cardinality(R) # 0
  BY <1>2, FS_CardinalityType, FS_EmptySet DEF Sound
<1>4. ds.candidatesTotal \in Nat /\ ds.candidatesAccountedFor \in Nat
  BY DEF DirState
<1>5. ds.candidatesAccountedFor # ds.candidatesTotal
  BY <1>2, <1>3, <1>4 DEF Balanced
<1>6. ds.state = "scanning"
  BY <1>1, <1>5 DEF Tally, DirState
<1> QED BY <1>1, <1>2, <1>5, <1>6 DEF ProbeTally

\* The record of a directory whose candidate c is in flight.
LEMMA InFlightRecord ==
  ASSUME Tree, NEW c \in realOut
  PROVE  LET d == c.dir
         IN  /\ d \in DOMAIN dirs /\ d \in Dir /\ dirs[d] \in DirState
             /\ c \in Candidate /\ c \in Under(d, realOut)
             /\ Tally(dirs[d], Under(d, frontier), Under(d, realOut), Under(d, requested))
             /\ ProbeTally(dirs[d], Under(d, probesOut))
<1>1. c \in requested
  BY DEF Tree, TreeOK
<1>2. c.dir \in DOMAIN dirs /\ c \in Candidate
  BY <1>1 DEF Tree, TreeOK
<1>3. c \in Under(c.dir, realOut)
  BY DEF Under
<1> QED BY <1>2, <1>3 DEF Tree, TreeOK

\* The result of candidate c leaves its directory with record new and queues G.
LEMMA ResultTree ==
  ASSUME Tree, NEW c \in realOut, NEW new \in DirState, NEW G \in SUBSET Candidate,
         \A g \in G : g.dir = c.dir,
         Tally(new, Under(c.dir, frontier) \cup G, Under(c.dir, realOut) \ {c},
               Under(c.dir, requested)),
         ProbeTally(new, Under(c.dir, probesOut))
  PROVE  TreeOK([dirs EXCEPT ![c.dir] = new], frontier \cup G, realOut \ {c},
                requested, probesOut)
<1> DEFINE d == c.dir
           F2 == frontier \cup G
           R2 == realOut \ {c}
<1>1. d \in DOMAIN dirs
  BY InFlightRecord
<1>2. \A x : x.dir # d => /\ x \in F2 <=> x \in frontier
                          /\ x \in R2 <=> x \in realOut
                          /\ x \in requested <=> x \in requested
                          /\ x \in probesOut <=> x \in probesOut
  OBVIOUS
<1>3. /\ F2 \in SUBSET Candidate /\ requested \in SUBSET Candidate /\ R2 \subseteq requested
      /\ probesOut \in SUBSET [dir : Dir, index : 1..NProbes]
      /\ TreeOK(dirs, frontier, realOut, requested, probesOut)
  BY DEF Tree, TreeOK
<1>4. Under(d, F2) = Under(d, frontier) \cup G /\ Under(d, R2) = Under(d, realOut) \ {c}
  BY DEF Under
<1>5. /\ Tally(new, Under(d, F2), Under(d, R2), Under(d, requested))
      /\ ProbeTally(new, Under(d, probesOut))
  BY <1>4
<1> HIDE DEF d, F2, R2
<1>6. TreeOK([dirs EXCEPT ![d] = new], F2, R2, requested, probesOut)
  BY <1>1, <1>2, <1>3, <1>5, UpdateTree
<1> QED BY <1>6 DEF d, F2, R2

\* A miss or an alias keeps the tree in order.
LEMMA RealPlainTree ==
  ASSUME Tree, NEW c \in realOut, NEW slow \in BOOLEAN, NEW wild \in BOOLEAN, NEW body,
         RealPlain(c, slow, wild, body)
  PROVE  Tree'
<1> DEFINE d == c.dir
           ds == Slowed(dirs[d], slow)
           new == Settle(ds, wild)
<1>1. /\ d \in DOMAIN dirs /\ d \in Dir /\ dirs[d] \in DirState /\ c \in Under(d, realOut)
      /\ Tally(dirs[d], Under(d, frontier), Under(d, realOut), Under(d, requested))
      /\ ProbeTally(dirs[d], Under(d, probesOut))
  BY InFlightRecord
<1>2. /\ ds \in DirState /\ ProbeTally(ds, Under(d, probesOut))
      /\ Tally(ds, Under(d, frontier), Under(d, realOut), Under(d, requested))
  BY <1>1, FlagsOK
<1> HIDE DEF ds
<1>3. /\ new \in DirState /\ ProbeTally(new, Under(d, probesOut))
      /\ Tally(new, Under(d, frontier), Under(d, realOut) \ {c}, Under(d, requested))
  BY <1>1, <1>2, SettleOK
<1> HIDE DEF new
<1>4. /\ Tally(new, Under(d, frontier) \cup {}, Under(d, realOut) \ {c}, Under(d, requested))
      /\ {} \in SUBSET Candidate /\ \A g \in {} : g.dir = d
  <2>1. Under(d, frontier) \cup {} = Under(d, frontier)
    OBVIOUS
  <2> QED BY <1>3, <2>1
<1>5. TreeOK([dirs EXCEPT ![d] = new], frontier \cup {}, realOut \ {c}, requested, probesOut)
  BY <1>3, <1>4, ResultTree
<1>6. frontier \cup {} = frontier
  OBVIOUS
<1>7. /\ dirs' = [dirs EXCEPT ![d] = new] /\ frontier' = frontier /\ realOut' = realOut \ {c}
      /\ requested' = requested /\ probesOut' = probesOut
  BY DEF RealPlain, new, ds
<1> QED BY <1>5, <1>6, <1>7 DEF Tree

\* So does a finding, whatever it teaches and whether it opens a directory.
LEMMA RealFindingTree ==
  ASSUME Tree, NEW c \in realOut, NEW hash, NEW slow \in BOOLEAN, NEW wild \in BOOLEAN,
         NEW body, NEW learn \in BOOLEAN, NEW child \in BOOLEAN, NEW k \in 0..NProbes,
         RealFinding(c, hash, slow, wild, body, learn, child, k)
  PROVE  Tree'
<1> DEFINE d == c.dir
           ds == Slowed(dirs[d], slow)
           gens == IF learn /\ ~ds.wildcardSuspect THEN Generate[c.name] ELSE {}
           G == GeneratedPush(d, ds, gens)
           grown == EnqueueGenerated(ds, gens)
           new == Settle(grown, wild)
           sub == UrlOf(c)
           recurse == child /\ ~c.nmap /\ WithinLimits(c, ds) /\ sub \notin DOMAIN dirs
           W == IF recurse THEN {sub} ELSE {}
           probes == [x \in W |-> k]
           E == [dirs EXCEPT ![d] = new]
           F == Under(d, frontier)
           R == Under(d, realOut)
           Q == Under(d, requested)
           out == Under(d, probesOut)
<1>1. /\ d \in DOMAIN dirs /\ d \in Dir /\ dirs[d] \in DirState /\ c \in R /\ c \in Candidate
      /\ Tally(dirs[d], F, R, Q) /\ ProbeTally(dirs[d], out)
  BY InFlightRecord
<1>2. ds \in DirState /\ Tally(ds, F, R, Q) /\ ProbeTally(ds, out)
  <2> HIDE DEF F, R, Q, out, d
  <2> QED BY <1>1, FlagsOK
<1>3. gens \in SUBSET Name /\ IsFiniteSet(gens)
  <2>1. c.name \in Name
    BY <1>1 DEF Candidate
  <2> QED BY <2>1, ConstantsAssumption, FS_EmptySet
<1>4. /\ dirs' = [x \in DOMAIN dirs \cup W |->
                    IF x = d THEN new
                    ELSE IF x \in DOMAIN dirs THEN dirs[x] ELSE Entered(x, Calibrating(k))]
      /\ frontier' = frontier \cup G
                       \cup (IF recurse THEN EnteredPush(sub, Calibrating(k)) ELSE {})
      /\ realOut' = realOut \ {c} /\ requested' = requested /\ probesOut' = probesOut
  BY DEF RealFinding
<1>5. W \in SUBSET Dir /\ W \cap DOMAIN dirs = {} /\ probes \in [W -> 0..NProbes]
  <2>1. sub \in Dir
    BY <1>1 DEF UrlOf, Candidate, Dir
  <2> QED BY <2>1
<1>6. (IF recurse THEN EnteredPush(sub, Calibrating(k)) ELSE {})
        = UNION {EnteredPush(x, Calibrating(probes[x])) : x \in W}
  <2> HIDE DEF sub
  <2> QED OBVIOUS
<1> HIDE DEF ds, gens, recurse, sub, F, R, Q, out
<1>7. /\ ds.state = "scanning" /\ ds.candidatesAccountedFor # ds.candidatesTotal
      /\ ds.probeQueue = {} /\ out = {} /\ Sound(ds, F, R, Q) /\ Balanced(ds, F, R)
  <2>1. F \cup R # {}
    BY <1>1
  <2> QED BY <1>2, <2>1, BusyIsScanning
<1>8. /\ grown \in DirState /\ grown.state = "scanning" /\ grown.probeQueue = ds.probeQueue
      /\ G \subseteq Candidate /\ \A g \in G : g.dir = d
      /\ Tally(grown, F \cup G, R, Q)
  <2> HIDE DEF d
  <2>1. /\ d \in Dir /\ ds \in DirState /\ ds.state = "scanning"
        /\ Sound(ds, F, R, Q) /\ Balanced(ds, F, R)
        /\ gens \in SUBSET Name /\ IsFiniteSet(gens)
        /\ ds.candidatesAccountedFor # ds.candidatesTotal \/ ~(gens \subseteq ds.knownPaths)
    BY <1>1, <1>2, <1>3, <1>7
  <2> QED BY <2>1, GeneratedOK
<1> HIDE DEF grown, G
<1>9. ProbeTally(grown, out)
  BY <1>7, <1>8 DEF ProbeTally
<1>10. new \in DirState /\ Tally(new, F \cup G, R \ {c}, Q) /\ ProbeTally(new, out)
  BY <1>1, <1>8, <1>9, SettleOK
<1> HIDE DEF new
<1>11. TreeOK(E, frontier \cup G, realOut \ {c}, requested, probesOut)
  BY <1>8, <1>10, ResultTree DEF F, R, Q, out
<1>12. DOMAIN E = DOMAIN dirs /\ E[d] = new /\ \A x \in DOMAIN dirs : x # d => E[x] = dirs[x]
  BY <1>1
<1> HIDE DEF E, W, probes, d
<1>13. TreeOK([x \in DOMAIN E \cup W |->
                 IF x \in DOMAIN E THEN E[x] ELSE Entered(x, Calibrating(probes[x]))],
              (frontier \cup G) \cup (UNION {EnteredPush(x, Calibrating(probes[x])) : x \in W}),
              realOut \ {c}, requested, probesOut)
  BY <1>5, <1>11, <1>12, GrowTree
<1>14. \A x \in W : probes[x] = k
  BY DEF probes
<1>15. dirs' = [x \in DOMAIN E \cup W |->
                  IF x \in DOMAIN E THEN E[x] ELSE Entered(x, Calibrating(probes[x]))]
  BY <1>1, <1>4, <1>12, <1>14
<1> QED BY <1>4, <1>6, <1>13, <1>15 DEF Tree

\* Whatever is queued or in flight belongs to a scanning directory.
LEMMA QueuedIsScanning ==
  ASSUME Tree, NEW c \in frontier \cup realOut
  PROVE  Scanning(c)
<1>1. c.dir \in DOMAIN dirs
  BY DEF Tree, TreeOK
<1>2. /\ dirs[c.dir] \in DirState
      /\ Tally(dirs[c.dir], Under(c.dir, frontier), Under(c.dir, realOut),
               Under(c.dir, requested))
      /\ ProbeTally(dirs[c.dir], Under(c.dir, probesOut))
  BY <1>1 DEF Tree, TreeOK
<1>3. Under(c.dir, frontier) \cup Under(c.dir, realOut) # {}
  BY DEF Under
<1> QED BY <1>1, <1>2, <1>3, BusyIsScanning DEF Scanning

\* The root's first record is in order.
LEMMA SeedRootTree ==
  ASSUME Tree, DOMAIN dirs = {}, NEW k \in 0..NProbes, NEW again \in 0..NProbes,
         NEW grow \in BOOLEAN, SeedRoot(k, grow, again)
  PROVE  Tree'
<1> DEFINE src == IF k = 0 /\ grow THEN Calibrating(again) ELSE Calibrating(k)
<1>1. PICK j \in 0..NProbes : src = Calibrating(j)
  OBVIOUS
<1>2. /\ dirs' = [d \in {Root} |-> Entered(d, src)] /\ frontier' = EnteredPush(Root, src)
      /\ realOut' = realOut /\ requested' = requested /\ probesOut' = probesOut
  BY DEF SeedRoot, outVars
<1>3. frontier = {} /\ realOut = {} /\ requested = {} /\ probesOut = {}
  BY DEF Tree, TreeOK
<1> HIDE DEF src
<1>4. Root \in Dir
  BY DEF Root, Dir
<1>5. /\ Entered(Root, src) \in DirState
      /\ EnteredPush(Root, src) \subseteq Candidate
      /\ \A c \in EnteredPush(Root, src) : c.dir = Root
      /\ Tally(Entered(Root, src), EnteredPush(Root, src), {}, {})
      /\ ProbeTally(Entered(Root, src), {})
  BY <1>1, <1>4, StartOK
<1>6. /\ Under(Root, frontier') = EnteredPush(Root, src)
      /\ Under(Root, realOut') = {} /\ Under(Root, requested') = {}
      /\ Under(Root, probesOut') = {}
  BY <1>2, <1>3, <1>5 DEF Under
<1>7. DOMAIN dirs' = {Root} /\ dirs'[Root] = Entered(Root, src)
  BY <1>2
<1>8. \A d \in DOMAIN dirs' :
        /\ Tally(dirs'[d], Under(d, frontier'), Under(d, realOut'), Under(d, requested'))
        /\ ProbeTally(dirs'[d], Under(d, probesOut'))
  BY <1>5, <1>6, <1>7
<1>9. /\ DOMAIN dirs' \subseteq Dir /\ dirs' \in [DOMAIN dirs' -> DirState]
      /\ frontier' \subseteq Candidate /\ \A c \in frontier' : c.dir \in DOMAIN dirs'
  BY <1>2, <1>4, <1>5, <1>7
<1> QED BY <1>2, <1>3, <1>8, <1>9 DEF Tree, TreeOK

\* A probe that is sent moves from the queue into flight.
LEMMA DispatchProbeTree ==
  ASSUME Tree, NEW d \in DOMAIN dirs, NEW i \in dirs[d].probeQueue, DispatchProbe(d, i)
  PROVE  Tree'
<1> DEFINE p == [dir |-> d, index |-> i]
           ds == dirs[d]
           new == [ds EXCEPT !.probeQueue = ds.probeQueue \ {i}]
           out == Under(d, probesOut)
           O2 == probesOut \cup {p}
<1>1. /\ ds \in DirState /\ d \in Dir
      /\ Tally(ds, Under(d, frontier), Under(d, realOut), Under(d, requested))
      /\ ProbeTally(ds, out)
  BY DEF Tree, TreeOK
<1>2. /\ new \in DirState /\ new.probeQueue = ds.probeQueue \ {i}
      /\ new.state = ds.state /\ new.pendingSeeds = ds.pendingSeeds
      /\ new.knownPaths = ds.knownPaths
      /\ new.probesDone = ds.probesDone /\ new.probesTotal = ds.probesTotal
      /\ new.candidatesTotal = ds.candidatesTotal
      /\ new.candidatesAccountedFor = ds.candidatesAccountedFor
  BY <1>1 DEF DirState
<1>3. /\ dirs' = [dirs EXCEPT ![d] = new] /\ probesOut' = O2
      /\ frontier' = frontier /\ realOut' = realOut /\ requested' = requested
  BY DEF DispatchProbe
<1>4. ds.probeQueue \subseteq 1..NProbes
  BY <1>1 DEF DirState
<1>5. /\ Under(d, O2) = out \cup {p} /\ p.dir = d /\ p.index = i
      /\ O2 \in SUBSET [dir : Dir, index : 1..NProbes]
  BY <1>1, <1>4 DEF Under, Tree, TreeOK
<1> HIDE DEF ds, new, out, p, O2
<1>6. ds.state = "calibrating" /\ IsFiniteSet(out) /\ p \notin out
  BY <1>1, <1>5 DEF ProbeTally, ds
<1>7. /\ Cardinality(ds.probeQueue) = Cardinality(ds.probeQueue \ {i}) + 1
      /\ Cardinality(ds.probeQueue \ {i}) \in Nat
  <2>1. IsFiniteSet(1..NProbes)
    BY FS_Interval, ConstantsAssumption
  <2>2. IsFiniteSet(ds.probeQueue)
    BY <1>4, <2>1, FS_Subset
  <2>3. {i} \subseteq ds.probeQueue /\ Cardinality({i}) = 1
    BY FS_Singleton DEF ds
  <2> QED BY <2>2, <2>3, RemoveCardinality
<1>8. IsFiniteSet(out \cup {p}) /\ Cardinality(out \cup {p}) = Cardinality(out) + 1
  BY <1>6, FS_AddElement
<1>9. ProbeTally(new, out \cup {p})
  <2>1. ds.probesDone \in Nat /\ Cardinality(out) \in Nat
    BY <1>1, <1>6, FS_CardinalityType DEF DirState
  <2> QED BY <1>1, <1>2, <1>5, <1>6, <1>7, <1>8, <2>1 DEF ProbeTally
<1>10. Tally(new, Under(d, frontier), Under(d, realOut), Under(d, requested))
  BY <1>1, <1>2 DEF Tally, Sound, Balanced
<1>11. TreeOK([dirs EXCEPT ![d] = new], frontier, realOut, requested, O2)
  <2>1. \A c : c.dir # d => /\ c \in frontier <=> c \in frontier
                            /\ c \in realOut <=> c \in realOut
                            /\ c \in requested <=> c \in requested
                            /\ c \in O2 <=> c \in probesOut
    BY <1>5 DEF O2
  <2>2. /\ frontier \in SUBSET Candidate /\ requested \in SUBSET Candidate
        /\ realOut \subseteq requested
        /\ TreeOK(dirs, frontier, realOut, requested, probesOut)
    BY DEF Tree, TreeOK
  <2>3. ProbeTally(new, Under(d, O2))
    BY <1>5, <1>9
  <2> QED BY <1>2, <1>5, <1>10, <2>1, <2>2, <2>3, UpdateTree
<1> QED BY <1>3, <1>11 DEF Tree

\* A dispatch, with the discards before it, keeps the tree in order.
LEMMA DispatchCandidateTree ==
  ASSUME Tree, NEW c \in frontier, NEW P \in SUBSET (frontier \ Live), DispatchCandidate(c, P)
  PROVE  Tree'
<1> DEFINE D == AccountFor(dirs, P)
<1>1. {x \in P : Scanning(x)} = P
  BY QueuedIsScanning
<1>2. P \subseteq frontier /\ c \in frontier \ P
  BY DEF DispatchCandidate
<1>3. /\ frontier' = (frontier \ P) \ {c}
      /\ dirs' = [D EXCEPT ![c.dir].requestsDispatched = @ + 1]
      /\ realOut' = realOut \cup {c} /\ requested' = requested \cup {c}
      /\ probesOut' = probesOut
  BY <1>1 DEF DispatchCandidate
<1> HIDE DEF D
<1>4. TreeOK(D, frontier \ P, realOut, requested, probesOut)
  BY <1>2, AccountTree DEF Tree, D
<1>5. TreeOK([D EXCEPT ![c.dir].requestsDispatched = @ + 1], (frontier \ P) \ {c},
             realOut \cup {c}, requested \cup {c}, probesOut)
  BY <1>2, <1>4, DispatchTree
<1> QED BY <1>3, <1>5 DEF Tree

\* So does popping the whole frontier in vain.
LEMMA DiscardFrontierTree ==
  ASSUME Tree, DiscardFrontier
  PROVE  Tree'
<1>1. {x \in frontier : Scanning(x)} = frontier
  BY QueuedIsScanning
<1>2. /\ frontier' = frontier \ frontier /\ dirs' = AccountFor(dirs, frontier)
      /\ realOut' = realOut /\ requested' = requested /\ probesOut' = probesOut
  BY <1>1 DEF DiscardFrontier, outVars
<1> QED BY <1>2, AccountTree DEF Tree

\* So does the sweep of a new exclude.
LEMMA ExcludeTree ==
  ASSUME Tree, NEW pat, Exclude(pat)
  PROVE  Tree'
<1> DEFINE swept == {c \in frontier : Matches(pat, c.dir, c.name)}
<1>1. /\ frontier' = frontier \ swept /\ dirs' = AccountFor(dirs, swept)
      /\ realOut' = realOut /\ requested' = requested /\ probesOut' = probesOut
      /\ swept \subseteq frontier
  BY DEF Exclude, outVars
<1> HIDE DEF swept
<1> QED BY <1>1, AccountTree DEF Tree

\* So does a request that failed.
LEMMA RealErrorTree ==
  ASSUME Tree, NEW c \in realOut, RealError(c)
  PROVE  Tree'
<1>1. /\ frontier' = frontier /\ dirs' = AccountFor(dirs, {c}) /\ realOut' = realOut \ {c}
      /\ requested' = requested /\ probesOut' = probesOut /\ {c} \subseteq realOut
  BY DEF RealError
<1> QED BY <1>1, AccountTree DEF Tree

-----------------------------------------------------------------------------
(* The invariant is inductive.                                             *)

\* The invariant holds before the root is seeded.
LEMMA InitIInv == Init => IInv
<1> SUFFICES ASSUME Init PROVE IInv
  OBVIOUS
<1>1. DOMAIN dirs = {} /\ dirs \in [DOMAIN dirs -> DirState]
  BY DEF Init
<1>2. Tree
  BY <1>1 DEF Init, Tree, TreeOK
<1>3. OtherTypesOK
  <2>1. Root \in Dir
    BY DEF Root, Dir
  <2>2. 0 \in Nat /\ 0 \in 0..SubtreeBurst
    BY ConstantsAssumption
  <2> QED BY <2>1, <2>2, Zenon DEF Init, OtherTypesOK
<1> QED BY <1>1, <1>2, <1>3 DEF IInv

\* The outcomes the environment chooses are Booleans.
LEMMA OutcomeTypes == Body \subseteq BOOLEAN /\ \A e : May(e) \subseteq BOOLEAN
BY DEF Body, May

\* A step that leaves the tree alone, ends its iteration and keeps the types.
LEMMA QuietStep ==
  ASSUME IInv, UNCHANGED <<dirs, frontier, realOut, requested, probesOut>>
  PROVE  Tree'
BY DEF IInv, Tree

\* Seeding keeps the invariant.
LEMMA SeedingIInv ==
  ASSUME IInv, Seeding
  PROVE  IInv'
<1>1. CASE \E k, again \in 0..NProbes, grow \in May("grow") : SeedRoot(k, grow, again)
  <2>1. PICK k, again \in 0..NProbes, grow \in May("grow") : SeedRoot(k, grow, again)
    BY <1>1
  <2>2. grow \in BOOLEAN /\ DOMAIN dirs = {} /\ Tree
    BY <2>1, OutcomeTypes DEF IInv, SeedRoot
  <2>3. Tree'
    BY <2>1, <2>2, SeedRootTree
  <2>4. OtherTypesOK' /\ phase' # "seedRoot"
    BY <2>1 DEF IInv, OtherTypesOK, SeedRoot, outVars, harvestVars, controlVars, streakVars
  <2> QED BY <2>3, <2>4 DEF IInv
<1>2. CASE \E B \in SUBSET SeedPaths, n \in 0..AsyncSeeders : SeedPassive(B, n)
  <2>1. PICK B \in SUBSET SeedPaths, n \in 0..AsyncSeeders : SeedPassive(B, n)
    BY <1>2
  <2> DEFINE K == AcceptedSeeds(B, FALSE)
  <2>2. PICK probes \in ProbeCounts(K) : EnqueueSeeds(K, probes)
    BY <2>1 DEF SeedPassive
  <2>3. K \in SUBSET SeedPaths
    BY DEF AcceptedSeeds
  <2> HIDE DEF K
  <2>4. /\ Tree /\ staged \subseteq Candidate
        /\ realOut' = realOut /\ requested' = requested /\ probesOut' = probesOut
    BY <2>1 DEF IInv, OtherTypesOK, SeedPassive, outVars
  <2>5. Tree' /\ staged' \subseteq Candidate
    BY <2>2, <2>3, <2>4, SeedsTree
  <2>6. n \in Nat
    BY ConstantsAssumption
  <2>7. rootRefined' = rootRefined
    BY <2>2 DEF EnqueueSeeds
  <2>8. OtherTypesOK' /\ phase' # "seedRoot"
    BY <2>1, <2>5, <2>6, <2>7
       DEF IInv, OtherTypesOK, SeedPassive, outVars, controlVars, streakVars
  <2> QED BY <2>5, <2>8 DEF IInv
<1> QED BY <1>1, <1>2 DEF Seeding

\* So does every dispatch.
LEMMA DispatchingIInv ==
  ASSUME IInv, Dispatching
  PROVE  IInv'
<1> USE DEF EndIteration
<1>1. ASSUME NEW d \in DOMAIN dirs, NEW i \in dirs[d].probeQueue, DispatchProbe(d, i)
      PROVE  IInv'
  <2>1. Tree'
    BY <1>1, DispatchProbeTree DEF IInv
  <2>2. OtherTypesOK' /\ phase' # "seedRoot"
    BY <1>1 DEF IInv, OtherTypesOK, DispatchProbe, harvestVars, controlVars, streakVars
  <2> QED BY <2>1, <2>2 DEF IInv
<1>2. ASSUME NEW u \in harvestQueue, DispatchHarvestFetch(u)
      PROVE  IInv'
  <2>1. Tree'
    BY <1>2, QuietStep DEF DispatchHarvestFetch, treeVars
  <2>2. OtherTypesOK' /\ phase' # "seedRoot"
    BY <1>2 DEF IInv, OtherTypesOK, DispatchHarvestFetch, treeVars, controlVars, streakVars
  <2> QED BY <2>1, <2>2 DEF IInv
<1>3. ASSUME NEW c \in frontier, NEW P \in SUBSET (frontier \ Live), DispatchCandidate(c, P)
      PROVE  IInv'
  <2>1. Tree'
    BY <1>3, DispatchCandidateTree DEF IInv
  <2>2. lastDispatchDir' \in Dir /\ dispatchStreak' \in 0..SubtreeBurst
    <3>1. c.dir \in Dir
      BY DEF IInv, Tree, TreeOK
    <3> QED BY <1>3, <3>1, ConstantsAssumption
            DEF DispatchCandidate, RecordDispatch, Saturate, IInv, OtherTypesOK
  <2>3. OtherTypesOK' /\ phase' # "seedRoot"
    BY <1>3, <2>2 DEF IInv, OtherTypesOK, DispatchCandidate, harvestVars, controlVars
  <2> QED BY <2>1, <2>3 DEF IInv
<1>4. ASSUME DiscardFrontier
      PROVE  IInv'
  <2>1. Tree'
    BY <1>4, DiscardFrontierTree DEF IInv
  <2>2. OtherTypesOK' /\ phase' # "seedRoot"
    BY <1>4 DEF IInv, OtherTypesOK, DiscardFrontier, outVars, harvestVars, controlVars,
                streakVars
  <2> QED BY <2>1, <2>2 DEF IInv
<1> QED BY <1>1, <1>2, <1>3, <1>4 DEF Dispatching

\* So does every result.
LEMMA ResultsIInv ==
  ASSUME IInv, Results
  PROVE  IInv'
<1> USE DEF EndIteration
<1>1. ASSUME NEW p \in probesOut, NEW grow \in May("grow"), NEW spa \in May("spa"),
             NEW k \in 0..NProbes, ProbeResult(p, grow, spa, k)
      PROVE  IInv'
  <2>1. Tree'
    <3>1. grow \in BOOLEAN /\ spa \in BOOLEAN /\ Tree
      BY OutcomeTypes DEF IInv
    <3> QED BY <1>1, <3>1, ProbeResultTree
  <2>2. /\ rootRefined' \in BOOLEAN /\ harvestQueue' \subseteq Url /\ crawlVisited' \subseteq Url
        /\ pendingHarvest' = pendingHarvest /\ mined' = mined
    <3>1. Root \in Url
      BY DEF Root, Url
    <3> QED BY <1>1, <3>1 DEF ProbeResult, FinishCalibration, harvestVars, IInv, OtherTypesOK
  <2>3. OtherTypesOK' /\ phase' # "seedRoot"
    BY <1>1, <2>2 DEF IInv, OtherTypesOK, ProbeResult, controlVars, streakVars
  <2> QED BY <2>1, <2>3 DEF IInv
<1>2. ASSUME NEW u \in fetchesOut, NEW body \in Body, HarvestFetchResult(u, body)
      PROVE  IInv'
  <2>1. Tree'
    BY <1>2, QuietStep DEF HarvestFetchResult, treeVars
  <2>2. OtherTypesOK' /\ phase' # "seedRoot"
    BY <1>2 DEF IInv, OtherTypesOK, HarvestFetchResult, treeVars, controlVars, streakVars
  <2> QED BY <2>1, <2>2 DEF IInv
<1>3. ASSUME NEW c \in realOut, RealError(c)
      PROVE  IInv'
  <2>1. Tree'
    BY <1>3, RealErrorTree DEF IInv
  <2>2. OtherTypesOK' /\ phase' # "seedRoot"
    BY <1>3 DEF IInv, OtherTypesOK, RealError, harvestVars, controlVars, streakVars
  <2> QED BY <2>1, <2>2 DEF IInv
<1>4. ASSUME NEW c \in realOut, NEW body, HarvestResponse(UrlOf(c), body)
      PROVE  /\ crawlVisited' \subseteq Url /\ mined' \subseteq Url
             /\ pendingHarvest' \in Nat /\ harvestQueue' = harvestQueue
  <2>1. UrlOf(c) \in Url
    <3>1. c \in Candidate
      BY DEF IInv, Tree, TreeOK
    <3> QED BY <3>1 DEF UrlOf, Url, Candidate, Dir
  <2> QED BY <1>4, <2>1 DEF HarvestResponse, IInv, OtherTypesOK
<1>5. ASSUME NEW c \in realOut, NEW slow \in May("tarpit"), NEW wild \in May("wildcard"),
             NEW body \in Body, RealPlain(c, slow, wild, body)
      PROVE  IInv'
  <2>1. Tree'
    <3>1. slow \in BOOLEAN /\ wild \in BOOLEAN /\ Tree
      BY OutcomeTypes DEF IInv
    <3> QED BY <1>5, <3>1, RealPlainTree
  <2>2. HarvestResponse(UrlOf(c), body)
    BY <1>5 DEF RealPlain
  <2>3. /\ crawlVisited' \subseteq Url /\ mined' \subseteq Url
        /\ pendingHarvest' \in Nat /\ harvestQueue' = harvestQueue
    BY <1>4, <2>2
  <2>4. OtherTypesOK' /\ phase' # "seedRoot"
    BY <1>5, <2>3 DEF IInv, OtherTypesOK, RealPlain, controlVars, streakVars
  <2> QED BY <2>1, <2>4 DEF IInv
<1>6. ASSUME NEW c \in realOut, NEW hash \in Hash, NEW slow \in May("tarpit"),
             NEW wild \in May("wildcard"), NEW body \in Body, NEW learn \in BOOLEAN,
             NEW child \in BOOLEAN, NEW k \in 0..NProbes,
             RealFinding(c, hash, slow, wild, body, learn, child, k)
      PROVE  IInv'
  <2>1. Tree'
    <3>1. slow \in BOOLEAN /\ wild \in BOOLEAN /\ Tree
      BY OutcomeTypes DEF IInv
    <3> QED BY <1>6, <3>1, RealFindingTree
  <2>2. /\ HarvestResponse(UrlOf(c), body) /\ seenContent' = seenContent \cup {hash}
        /\ phase' \in {"running", "finished"} /\ staged' = staged /\ rootRefined' = rootRefined
        /\ fetchesOut' = fetchesOut /\ UNCHANGED controlVars /\ UNCHANGED streakVars
    BY <1>6 DEF RealFinding
  <2>3. /\ crawlVisited' \subseteq Url /\ mined' \subseteq Url
        /\ pendingHarvest' \in Nat /\ harvestQueue' = harvestQueue
    BY <1>4, <2>2
  <2>4. OtherTypesOK' /\ phase' # "seedRoot"
    BY <2>2, <2>3 DEF IInv, OtherTypesOK, controlVars, streakVars
  <2> QED BY <2>1, <2>4 DEF IInv
<1> QED BY <1>1, <1>2, <1>3, <1>5, <1>6 DEF Results

\* So do the producers' batches, fetches and ends.
LEMMA ProducersIInv ==
  ASSUME IInv, Producers
  PROVE  IInv'
<1> USE DEF EndIteration
<1>1. ASSUME NEW B \in SUBSET SeedPaths, NEW harvested \in BOOLEAN,
             ApplySeedBatch(B, harvested)
      PROVE  IInv'
  <2>1. PICK capped \in CapBatch(B) :
          \E probes \in ProbeCounts(AcceptedSeeds(capped, harvested)) :
            EnqueueSeeds(AcceptedSeeds(capped, harvested), probes)
    BY <1>1 DEF ApplySeedBatch
  <2> DEFINE K == AcceptedSeeds(capped, harvested)
  <2>2. PICK probes \in ProbeCounts(K) : EnqueueSeeds(K, probes)
    BY <2>1
  <2>3. K \in SUBSET SeedPaths
    BY DEF AcceptedSeeds, CapBatch
  <2> HIDE DEF K
  <2>4. /\ Tree /\ staged \subseteq Candidate
        /\ realOut' = realOut /\ requested' = requested /\ probesOut' = probesOut
    BY <1>1 DEF IInv, OtherTypesOK, ApplySeedBatch, outVars
  <2>5. Tree' /\ staged' \subseteq Candidate
    BY <2>2, <2>3, <2>4, SeedsTree
  <2>6. rootRefined' = rootRefined
    BY <2>2 DEF EnqueueSeeds
  <2>7. OtherTypesOK' /\ phase' # "seedRoot"
    BY <1>1, <2>5, <2>6
       DEF IInv, OtherTypesOK, ApplySeedBatch, outVars, harvestVars, controlVars, streakVars
  <2> QED BY <2>5, <2>7 DEF IInv
<1>2. ASSUME NEW u \in Bundles, EnqueueHarvestFetch(u)
      PROVE  IInv'
  <2>1. Tree'
    BY <1>2, QuietStep DEF EnqueueHarvestFetch, treeVars, outVars
  <2>2. OtherTypesOK' /\ phase' # "seedRoot"
    BY <1>2, ConstantsAssumption
       DEF IInv, OtherTypesOK, EnqueueHarvestFetch, treeVars, outVars, controlVars, streakVars
  <2> QED BY <2>1, <2>2 DEF IInv
<1>3. ASSUME ProducerExit
      PROVE  IInv'
  <2>1. Tree'
    BY <1>3, QuietStep DEF ProducerExit, treeVars, outVars
  <2>2. OtherTypesOK' /\ phase' = phase /\ dirs' = dirs
    BY <1>3 DEF IInv, OtherTypesOK, ProducerExit, treeVars, outVars, controlVars, streakVars
  <2> QED BY <2>1, <2>2 DEF IInv
<1> QED BY <1>1, <1>2, <1>3 DEF Producers

\* So do the user's commands and the loop's other cases.
LEMMA ControlIInv ==
  ASSUME IInv, Control \/ ContextDone \/ Tick \/ UNCHANGED vars
  PROVE  IInv'
<1> USE DEF EndIteration
<1>1. ASSUME NEW pat \in Patterns, Exclude(pat)
      PROVE  IInv'
  <2>1. Tree'
    BY <1>1, ExcludeTree DEF IInv
  <2>2. OtherTypesOK' /\ phase' # "seedRoot"
    BY <1>1 DEF IInv, OtherTypesOK, Exclude, outVars, harvestVars, streakVars
  <2> QED BY <2>1, <2>2 DEF IInv
<1>2. ASSUME NEW p \in SeedPaths, Inject(p)
      PROVE  IInv'
  <2> DEFINE K == AcceptedSeeds({p}, FALSE)
  <2>1. PICK probes \in ProbeCounts(K) : EnqueueSeeds(K, probes)
    BY <1>2 DEF Inject
  <2>2. K \in SUBSET SeedPaths
    BY DEF AcceptedSeeds
  <2> HIDE DEF K
  <2>3. /\ Tree /\ staged \subseteq Candidate
        /\ realOut' = realOut /\ requested' = requested /\ probesOut' = probesOut
    BY <1>2 DEF IInv, OtherTypesOK, Inject, outVars
  <2>4. Tree' /\ staged' \subseteq Candidate
    BY <2>1, <2>2, <2>3, SeedsTree
  <2>5. rootRefined' = rootRefined
    BY <2>1 DEF EnqueueSeeds
  <2>6. OtherTypesOK' /\ phase' # "seedRoot"
    BY <1>2, <2>4, <2>5
       DEF IInv, OtherTypesOK, Inject, outVars, harvestVars, controlVars, streakVars
  <2> QED BY <2>4, <2>6 DEF IInv
<1>3. ASSUME \/ Pause \/ Resume \/ Stop \/ ContextDone \/ Tick
             \/ \E n \in Concurrency : AdjustConcurrency(n)
      PROVE  IInv'
  <2>1. Tree'
    BY <1>3, QuietStep
       DEF Pause, Resume, Stop, ContextDone, Tick, AdjustConcurrency, treeVars, outVars
  <2>2. OtherTypesOK' /\ phase' # "seedRoot"
    BY <1>3 DEF IInv, OtherTypesOK, Pause, Resume, Stop, ContextDone, Tick, AdjustConcurrency,
                treeVars, outVars, harvestVars, controlVars, streakVars
  <2> QED BY <2>1, <2>2 DEF IInv
<1>4. CASE UNCHANGED vars
  <2> USE <1>4 DEF vars, treeVars, outVars, harvestVars, controlVars, streakVars
  <2>1. Tree'
    BY QuietStep
  <2>2. OtherTypesOK' /\ phase' = phase /\ dirs' = dirs
    BY DEF IInv, OtherTypesOK
  <2> QED BY <2>1, <2>2 DEF IInv
<1> QED BY <1>1, <1>2, <1>3, <1>4 DEF Control

\* Every step of the coordinator keeps the invariant.
LEMMA StepIInv ==
  ASSUME IInv, [Next]_vars
  PROVE  IInv'
<1>1. CASE Seeding
  BY <1>1, SeedingIInv
<1>2. CASE Dispatching
  BY <1>2, DispatchingIInv
<1>3. CASE Results
  BY <1>3, ResultsIInv
<1>4. CASE Producers
  BY <1>4, ProducersIInv
<1>5. CASE Control \/ ContextDone \/ Tick \/ UNCHANGED vars
  BY <1>5, ControlIInv
<1> QED BY <1>1, <1>2, <1>3, <1>4, <1>5 DEF Next

\* The bookkeeping invariant holds in every reachable state.
THEOREM Invariance == Spec => []IInv
<1>1. IInv /\ [Next]_vars => IInv'
  BY StepIInv
<1> QED BY <1>1, InitIInv, PTL DEF Spec

-----------------------------------------------------------------------------
(* What follows from it.                                                   *)

\* Every variable has its type, in every reachable state.
THEOREM TypeCorrect == Spec => []TypeOK
<1>1. IInv => TypeOK
  BY DEF IInv, OtherTypesOK, Tree, TreeOK, TypeOK
<1> QED BY <1>1, Invariance, PTL

\* The invariant makes the counters exact.
LEMMA ExactAccounting == IInv => Accounting
<1> SUFFICES ASSUME IInv, NEW d \in DOMAIN dirs, dirs[d].state # "calibrating"
             PROVE  /\ dirs[d].candidatesTotal = dirs[d].candidatesAccountedFor
                         + Cardinality(Under(d, frontier)) + Cardinality(Under(d, realOut))
                    /\ dirs[d].state = "done"
                         <=> dirs[d].candidatesAccountedFor = dirs[d].candidatesTotal
  BY DEF Accounting
<1>1. Tally(dirs[d], Under(d, frontier), Under(d, realOut), Under(d, requested))
  BY DEF IInv, Tree, TreeOK
<1> QED BY <1>1 DEF Tally, Balanced

\* The counters of a directory agree with what is queued and in flight, and it
\* is done exactly when nothing is left: no interleaving strands a directory in
\* scanning or finishes it early.
THEOREM AccountingExact == Spec => []Accounting
BY ExactAccounting, Invariance, PTL

\* The invariant gates the requests.
LEMMA GatesHold == IInv => CalibrationGates
BY QueuedIsScanning DEF CalibrationGates, Scanning, IInv

\* Whatever is queued or in flight belongs to a scanning directory.
THEOREM CalibrationGatesRequests == Spec => []CalibrationGates
BY GatesHold, Invariance, PTL

\* Every probe is queued, in flight or counted, and none outlives the
\* calibration it belongs to.
THEOREM ProbesAccounted == Spec => []ProbeAccounting
<1>1. IInv => ProbeAccounting
  <2> SUFFICES ASSUME IInv, NEW d \in DOMAIN dirs
               PROVE  LET ds == dirs[d]
                          out == {p \in probesOut : p.dir = d}
                      IN  IF ds.state = "calibrating"
                          THEN /\ ds.probesTotal = ds.probesDone + Cardinality(ds.probeQueue)
                                                     + Cardinality(out)
                               /\ ds.probesDone < ds.probesTotal
                          ELSE ds.probeQueue = {} /\ out = {}
    BY DEF ProbeAccounting
  <2>1. ProbeTally(dirs[d], Under(d, probesOut))
    BY DEF IInv, Tree, TreeOK
  <2> QED BY <2>1 DEF ProbeTally, Under
<1> QED BY <1>1, Invariance, PTL

\* A candidate enters flight only from the frontier, past every discard.
LEMMA OnlyLiveDispatched ==
  ASSUME [Next]_vars, NEW c \in realOut' \ realOut
  PROVE  c \in Live
<1> USE DEF vars, treeVars, outVars, harvestVars, controlVars, streakVars
<1>1. CASE Seeding
  BY <1>1 DEF Seeding, SeedRoot, SeedPassive
<1>2. CASE Dispatching
  <2>1. PICK x \in frontier, P \in SUBSET (frontier \ Live) : DispatchCandidate(x, P)
    BY <1>2 DEF Dispatching, DispatchProbe, DispatchHarvestFetch, DiscardFrontier
  <2> QED BY <2>1 DEF DispatchCandidate
<1>3. CASE Results
  <2>1. \A p, grow, spa, k : ProbeResult(p, grow, spa, k) => realOut' = realOut
    BY DEF ProbeResult
  <2>2. \A u, body : HarvestFetchResult(u, body) => realOut' = realOut
    BY DEF HarvestFetchResult
  <2>3. \A x : RealError(x) => realOut' \subseteq realOut
    BY DEF RealError
  <2>4. \A x, slow, wild, body : RealPlain(x, slow, wild, body) => realOut' \subseteq realOut
    BY DEF RealPlain
  <2>5. \A x, hash, slow, wild, body, learn, child, k :
          RealFinding(x, hash, slow, wild, body, learn, child, k) => realOut' \subseteq realOut
    BY DEF RealFinding
  <2> QED BY <1>3, <2>1, <2>2, <2>3, <2>4, <2>5 DEF Results
<1>4. CASE Producers
  BY <1>4 DEF Producers, ApplySeedBatch, EnqueueHarvestFetch, ProducerExit
<1>5. CASE Control
  BY <1>5 DEF Control, Pause, Resume, Stop, AdjustConcurrency, Exclude, Inject
<1>6. CASE ContextDone \/ Tick \/ UNCHANGED vars
  BY <1>6 DEF ContextDone, Tick
<1> QED BY <1>1, <1>2, <1>3, <1>4, <1>5, <1>6 DEF Next

\* What is dispatched was not dispatched before.
LEMMA FreshRequests ==
  IInv /\ [Next]_vars => [\A c \in realOut' \ realOut : c \notin requested]_vars
<1> SUFFICES ASSUME IInv, [Next]_vars, NEW c \in realOut' \ realOut
             PROVE  c \notin requested
  OBVIOUS
<1>1. c \in frontier
  BY OnlyLiveDispatched DEF Live
<1>2. c.dir \in DOMAIN dirs /\ c \in Under(c.dir, frontier)
  BY <1>1 DEF IInv, Tree, TreeOK, Under
<1>3. Sound(dirs[c.dir], Under(c.dir, frontier), Under(c.dir, realOut), Under(c.dir, requested))
  BY <1>2 DEF IInv, Tree, TreeOK, Tally
<1> QED BY <1>2, <1>3 DEF Sound, Under

\* No candidate is requested twice in a scan, whichever sources name it.
THEOREM NeverRequestedTwice == Spec => RequestedOnce
BY FreshRequests, Invariance, PTL DEF Spec, RequestedOnce

\* No path is dispatched once a user's exclude covers it.
THEOREM ExcludesHonoured == Spec => ExcludeHonoured
<1>1. [Next]_vars => [\A c \in realOut' \ realOut : ~IsExcluded(c.dir, c.name)]_vars
  BY OnlyLiveDispatched DEF Live, Discarded
<1> QED BY <1>1, PTL DEF Spec, ExcludeHonoured

=============================================================================
