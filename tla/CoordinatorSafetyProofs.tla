----------------------- MODULE CoordinatorSafetyProofs -----------------------
(***************************************************************************)
(* What follows from the coordinator's bookkeeping, for every value of the *)
(* constants: how deep and how wide the tree grows, how often a page is    *)
(* mined, how much a directory spends, and that a finished scan missed     *)
(* nothing it knew of.                                                     *)
(***************************************************************************)
EXTENDS CoordinatorProofs

(* The shape of the tree.                                                  *)

Shallow(d) == Len(d) < MaxDepth \/ Len(d) < CrawlDepth

\* Seeds add exactly the missing ancestors of the accepted ones.
LEMMA SeedsDomain ==
  ASSUME NEW K, NEW probes, EnqueueSeeds(K, probes)
  PROVE  DOMAIN dirs' = DOMAIN dirs \cup NewDirs(K)
BY DEF EnqueueSeeds

\* The missing ancestors of an accepted seed lie within the caps.
LEMMA AncestorsShallow ==
  ASSUME NEW B \in SUBSET SeedPaths, NEW harvested \in BOOLEAN,
         NEW d \in NewDirs(AcceptedSeeds(B, harvested))
  PROVE  Shallow(d)
<1>1. PICK p \in AcceptedSeeds(B, harvested) : d \in AncestorDirs(p)
  BY DEF NewDirs
<1>2. p \in Seq(Name) /\ Len(p) \in Nat
  BY ConstantsAssumption DEF AcceptedSeeds, Url
<1>3. PICK i \in 1..(Len(p) - 1) : d = SubSeq(p, 1, i)
  BY <1>1 DEF AncestorDirs
<1>4. Len(d) = i
  BY <1>2, <1>3
<1>5. Len(p) <= MaxDepth \/ Len(p) <= CrawlDepth
  BY DEF AcceptedSeeds
<1> QED BY <1>2, <1>3, <1>4, <1>5, ConstantsAssumption DEF Shallow

\* So does every directory any step adds.
LEMMA AddedShallow ==
  ASSUME IInv, [Next]_vars, NEW d \in DOMAIN dirs', d \notin DOMAIN dirs
  PROVE  Shallow(d)
<1> USE DEF vars, treeVars
<1>1. CASE Seeding
  <2>1. ASSUME NEW k, NEW again, NEW grow, SeedRoot(k, grow, again) PROVE Shallow(d)
    <3>1. d = Root
      BY <2>1 DEF SeedRoot
    <3> QED BY <3>1, ConstantsAssumption DEF Root, Shallow
  <2>2. ASSUME NEW B \in SUBSET SeedPaths, NEW n, SeedPassive(B, n) PROVE Shallow(d)
    <3>1. d \in NewDirs(AcceptedSeeds(B, FALSE))
      BY <2>2, SeedsDomain DEF SeedPassive
    <3> QED BY <3>1, AncestorsShallow
  <2> QED BY <1>1, <2>1, <2>2 DEF Seeding
<1>2. CASE Dispatching
  <2>1. \A P : DOMAIN AccountFor(dirs, P) = DOMAIN dirs
    BY DEF AccountFor
  <2> QED BY <1>2, <2>1 DEF Dispatching, DispatchProbe, DispatchHarvestFetch,
                            DispatchCandidate, DiscardFrontier
<1>3. CASE Results
  <2>1. ASSUME NEW p, NEW grow, NEW spa, NEW k, ProbeResult(p, grow, spa, k) PROVE FALSE
    BY <2>1 DEF ProbeResult, FinishCalibration
  <2>2. ASSUME NEW u, NEW body, HarvestFetchResult(u, body) PROVE FALSE
    BY <2>2 DEF HarvestFetchResult
  <2>3. ASSUME NEW c, RealError(c) PROVE FALSE
    BY <2>3 DEF RealError, AccountFor
  <2>4. ASSUME NEW c, NEW slow, NEW wild, NEW body, RealPlain(c, slow, wild, body)
        PROVE  FALSE
    BY <2>4 DEF RealPlain
  <2>5. ASSUME NEW c \in realOut, NEW hash, NEW slow, NEW wild, NEW body, NEW learn, NEW child,
               NEW k, RealFinding(c, hash, slow, wild, body, learn, child, k)
        PROVE  Shallow(d)
    <3>1. d = UrlOf(c) /\ Len(c.dir) + 2 <= MaxDepth
      BY <2>5 DEF RealFinding, WithinLimits
    <3>2. c.dir \in Seq(Name) /\ c.name \in Name
      BY DEF IInv, Tree, TreeOK, Candidate, Dir
    <3>3. Len(d) = Len(c.dir) + 1 /\ Len(c.dir) \in Nat
      BY <3>1, <3>2 DEF UrlOf
    <3> QED BY <3>1, <3>3, ConstantsAssumption DEF Shallow
  <2> QED BY <1>3, <2>1, <2>2, <2>3, <2>4, <2>5 DEF Results
<1>4. CASE Producers
  <2>1. ASSUME NEW B \in SUBSET SeedPaths, NEW harvested \in BOOLEAN,
               ApplySeedBatch(B, harvested)
        PROVE  Shallow(d)
    <3>1. PICK capped \in CapBatch(B) : d \in NewDirs(AcceptedSeeds(capped, harvested))
      BY <2>1, SeedsDomain DEF ApplySeedBatch
    <3>2. capped \in SUBSET SeedPaths
      BY DEF CapBatch
    <3> QED BY <3>1, <3>2, AncestorsShallow
  <2> QED BY <1>4, <2>1 DEF Producers, EnqueueHarvestFetch, ProducerExit
<1>5. CASE Control
  <2>1. ASSUME NEW p \in SeedPaths, Inject(p) PROVE Shallow(d)
    <3>1. d \in NewDirs(AcceptedSeeds({p}, FALSE))
      BY <2>1, SeedsDomain DEF Inject
    <3> QED BY <3>1, AncestorsShallow
  <2>2. ASSUME NEW pat, Exclude(pat) PROVE FALSE
    BY <2>2 DEF Exclude, AccountFor
  <2> QED BY <1>5, <2>1, <2>2 DEF Control, Pause, Resume, Stop, AdjustConcurrency
<1>6. CASE ContextDone \/ Tick \/ UNCHANGED vars
  BY <1>6 DEF ContextDone, Tick
<1> QED BY <1>1, <1>2, <1>3, <1>4, <1>5, <1>6 DEF Next

\* No directory lies deeper than the caps on recursion and on seeds allow,
\* whichever of recursion, ancestors of seeds and the user opens it.
THEOREM DepthBounded == Spec => []DepthBound
<1>1. Init => DepthBound
  BY DEF Init, DepthBound
<1>2. IInv /\ DepthBound /\ [Next]_vars => DepthBound'
  BY AddedShallow DEF DepthBound, Shallow
<1> QED BY <1>1, <1>2, Invariance, PTL DEF Spec

\* The directories a set of seeds adds are finitely many, and fewer seeds add
\* fewer of them.
LEMMA NewDirsFinite ==
  ASSUME NEW B \in SUBSET SeedPaths, NEW K \in SUBSET B
  PROVE  IsFiniteSet(NewDirs(B)) /\ NewDirs(K) \subseteq NewDirs(B)
<1>1. IsFiniteSet(B)
  BY FS_Subset, ConstantsAssumption
<1>2. ASSUME NEW p \in B PROVE IsFiniteSet(AncestorDirs(p))
  <2> DEFINE f == [i \in 1..(Len(p) - 1) |-> SubSeq(p, 1, i)]
  <2>1. IsFiniteSet(1..(Len(p) - 1))
    <3>1. Len(p) \in Nat
      BY ConstantsAssumption DEF Url
    <3> QED BY <3>1, FS_Interval
  <2>2. f \in Surjection(1..(Len(p) - 1), AncestorDirs(p))
    BY DEF Surjection, AncestorDirs
  <2> QED BY <2>1, <2>2, FS_Surjection
<1>3. IsFiniteSet({AncestorDirs(p) : p \in B})
  <2> DEFINE f == [p \in B |-> AncestorDirs(p)]
  <2>1. f \in Surjection(B, {AncestorDirs(p) : p \in B})
    BY DEF Surjection
  <2> QED BY <1>1, <2>1, FS_Surjection
<1>4. IsFiniteSet(UNION {AncestorDirs(p) : p \in B})
  BY <1>2, <1>3, FS_UNION
<1>5. IsFiniteSet(NewDirs(B))
  BY <1>4, FS_Difference DEF NewDirs
<1> QED BY <1>5 DEF NewDirs

\* A producer's batch adds at most MAX_NEW_DIRS_PER_BATCH directories: what
\* capBatch counted bounds what ensureDirChain creates.
THEOREM BatchesBounded == Spec => BatchBlastRadius
<1>1. [Next]_vars =>
        [(\E B \in SUBSET SeedPaths, harvested \in BOOLEAN : ApplySeedBatch(B, harvested)) =>
           Cardinality(DOMAIN dirs' \ DOMAIN dirs) <= MaxNewDirsPerBatch]_vars
  <2> SUFFICES ASSUME NEW B \in SUBSET SeedPaths, NEW harvested \in BOOLEAN,
                      ApplySeedBatch(B, harvested)
               PROVE  Cardinality(DOMAIN dirs' \ DOMAIN dirs) <= MaxNewDirsPerBatch
    OBVIOUS
  <2>1. PICK capped \in CapBatch(B) :
          DOMAIN dirs' = DOMAIN dirs \cup NewDirs(AcceptedSeeds(capped, harvested))
    BY SeedsDomain DEF ApplySeedBatch
  <2> DEFINE K == AcceptedSeeds(capped, harvested)
  <2>2. K \in SUBSET capped /\ capped \in SUBSET SeedPaths
        /\ Cardinality(NewDirs(capped)) <= MaxNewDirsPerBatch
    BY DEF AcceptedSeeds, CapBatch
  <2>3. DOMAIN dirs' \ DOMAIN dirs = NewDirs(K)
    BY <2>1 DEF NewDirs
  <2> HIDE DEF K
  <2>4. IsFiniteSet(NewDirs(capped)) /\ NewDirs(K) \subseteq NewDirs(capped)
    BY <2>2, NewDirsFinite
  <2>5. /\ Cardinality(NewDirs(K)) <= Cardinality(NewDirs(capped))
        /\ Cardinality(NewDirs(K)) \in Nat /\ Cardinality(NewDirs(capped)) \in Nat
    BY <2>4, FS_Subset, FS_CardinalityType
  <2>6. Cardinality(NewDirs(K)) <= MaxNewDirsPerBatch
    BY <2>2, <2>5, ConstantsAssumption
  <2> QED BY <2>3, <2>6, Zenon
<1> QED BY <1>1, PTL DEF Spec, BatchBlastRadius

-----------------------------------------------------------------------------
(* Mining.                                                                 *)

\* What is queued or out to be fetched was visited and not mined yet, once.
MiningOK ==
  /\ mined \cup harvestQueue \cup fetchesOut \subseteq crawlVisited
  /\ mined \cap (harvestQueue \cup fetchesOut) = {} /\ harvestQueue \cap fetchesOut = {}

\* A page that harvestResponse mines was never visited.
LEMMA HarvestResponseMines ==
  ASSUME MiningOK, NEW u, NEW body, HarvestResponse(u, body), UNCHANGED fetchesOut
  PROVE  MiningOK' /\ (pendingHarvest' # pendingHarvest => mined' # mined)
<1>1. CASE body /\ u \notin crawlVisited
  BY <1>1 DEF MiningOK, HarvestResponse
<1>2. CASE ~(body /\ u \notin crawlVisited)
  BY <1>2 DEF MiningOK, HarvestResponse
<1> QED BY <1>1, <1>2

\* Every step keeps this, and starts a producer in the loop only for a new page.
LEMMA StepMining ==
  ASSUME MiningOK, IInv, [Next]_vars
  PROVE  MiningOK' /\ (pendingHarvest' > pendingHarvest /\ phase = "running" => mined' # mined)
<1> USE DEF vars, outVars, harvestVars
<1>1. CASE Seeding
  BY <1>1 DEF Seeding, SeedRoot, SeedPassive, MiningOK
<1>2. CASE Dispatching
  <2>1. ASSUME NEW u \in harvestQueue, DispatchHarvestFetch(u)
        PROVE  MiningOK' /\ pendingHarvest' = pendingHarvest
    BY <2>1 DEF DispatchHarvestFetch, MiningOK
  <2>2. ASSUME UNCHANGED <<harvestVars, fetchesOut>>
        PROVE  MiningOK' /\ pendingHarvest' = pendingHarvest
    BY <2>2 DEF MiningOK
  <2>3. \A d, i : DispatchProbe(d, i) => UNCHANGED <<harvestVars, fetchesOut>>
    BY DEF DispatchProbe
  <2>4. \A c, P : DispatchCandidate(c, P) => UNCHANGED <<harvestVars, fetchesOut>>
    BY DEF DispatchCandidate
  <2>5. DiscardFrontier => UNCHANGED <<harvestVars, fetchesOut>>
    BY DEF DiscardFrontier
  <2>6. MiningOK' /\ pendingHarvest' = pendingHarvest
    BY <1>2, <2>1, <2>2, <2>3, <2>4, <2>5 DEF Dispatching
  <2> QED BY <2>6 DEF IInv, OtherTypesOK
<1>3. CASE Results
  <2> USE DEF IInv, OtherTypesOK
  <2>1. ASSUME NEW p, NEW grow, NEW spa, NEW k, ProbeResult(p, grow, spa, k)
        PROVE  MiningOK' /\ pendingHarvest' = pendingHarvest
    BY <2>1 DEF ProbeResult, FinishCalibration, MiningOK
  <2>2. ASSUME NEW u \in fetchesOut, NEW body, HarvestFetchResult(u, body)
        PROVE  MiningOK' /\ (pendingHarvest' # pendingHarvest => mined' # mined)
    BY <2>2 DEF HarvestFetchResult, MiningOK
  <2>3. ASSUME NEW c, RealError(c) PROVE MiningOK' /\ pendingHarvest' = pendingHarvest
    BY <2>3 DEF RealError, MiningOK
  <2>4. ASSUME NEW c, NEW slow, NEW wild, NEW body, RealPlain(c, slow, wild, body)
        PROVE  MiningOK' /\ (pendingHarvest' # pendingHarvest => mined' # mined)
    BY <2>4, HarvestResponseMines DEF RealPlain
  <2>5. ASSUME NEW c, NEW hash, NEW slow, NEW wild, NEW body, NEW learn, NEW child, NEW k,
               RealFinding(c, hash, slow, wild, body, learn, child, k)
        PROVE  MiningOK' /\ (pendingHarvest' # pendingHarvest => mined' # mined)
    BY <2>5, HarvestResponseMines DEF RealFinding
  <2> QED BY <1>3, <2>1, <2>2, <2>3, <2>4, <2>5 DEF Results
<1>4. CASE Producers
  <2>1. pendingHarvest' <= pendingHarvest
    BY <1>4 DEF Producers, ApplySeedBatch, EnqueueHarvestFetch, ProducerExit, IInv, OtherTypesOK
  <2>2. \A B, h : ApplySeedBatch(B, h) => MiningOK'
    BY DEF ApplySeedBatch, MiningOK
  <2>3. \A u : EnqueueHarvestFetch(u) => MiningOK'
    BY DEF EnqueueHarvestFetch, MiningOK
  <2>4. ProducerExit => MiningOK'
    BY DEF ProducerExit, MiningOK
  <2>5. MiningOK'
    BY <1>4, <2>2, <2>3, <2>4 DEF Producers
  <2>6. pendingHarvest \in Nat /\ pendingHarvest' \in Int
    BY <1>4 DEF Producers, ApplySeedBatch, EnqueueHarvestFetch, ProducerExit, IInv, OtherTypesOK
  <2> QED BY <2>1, <2>5, <2>6
<1>5. CASE Control
  <2>1. UNCHANGED <<harvestVars, fetchesOut>>
    BY <1>5 DEF Control, Pause, Resume, Stop, AdjustConcurrency, Exclude, Inject
  <2> QED BY <2>1 DEF MiningOK, IInv, OtherTypesOK
<1>6. CASE ContextDone \/ Tick \/ UNCHANGED vars
  BY <1>6 DEF ContextDone, Tick, MiningOK, IInv, OtherTypesOK
<1> QED BY <1>1, <1>2, <1>3, <1>4, <1>5, <1>6 DEF Next

\* A URL's body is handed to at most one producer, although a page can be met as
\* a candidate, as a script reference and as the SPA root.
THEOREM PagesMinedOnce == Spec => MinedOnce
<1>1. Init => MiningOK
  BY DEF Init, MiningOK
<1>2. MiningOK /\ IInv /\ [Next]_vars => MiningOK'
  BY StepMining
<1>3. MiningOK /\ IInv /\ [Next]_vars =>
        [pendingHarvest' > pendingHarvest /\ phase = "running" => mined' # mined]_vars
  BY StepMining
<1> QED BY <1>1, <1>2, <1>3, Invariance, PTL DEF Spec, MinedOnce

-----------------------------------------------------------------------------
(* The books of one directory: F queued, R in flight, Q ever dispatched, X *)
(* the names a scope or an exclude removes, S the names seeds staged.      *)

Names(C) == {c.name : c \in C}

\* What was sent is what was counted, within the budget, and no more than the
\* results that came and are to come; the budget is at most what PER_DIR_BUDGET and
\* the paths from outside the template allow, and at least PER_DIR_BUDGET, or it is
\* everything.
Spending(d, ds, R, Q) ==
  /\ IsFiniteSet(ds.knownPaths) /\ IsFiniteSet(Q)
  /\ ds.requestsDispatched = Cardinality(Q)
  /\ Cardinality(Q) <= ds.budget
  /\ Cardinality(Q) <= ds.candidatesAccountedFor + Cardinality(R)
  /\ PerDirBudget > 0 => ds.budget <= PerDirBudget + Cardinality(ds.knownPaths \ Template)
                                                   + Cardinality(NmapAt(d))
  /\ (PerDirBudget > 0 /\ ds.budget >= PerDirBudget) \/ ds.budget = ds.candidatesTotal
  /\ IF ds.state = "calibrating"
     THEN ds.knownPaths = {} /\ ds.budget = 0 /\ ds.candidatesTotal = 0
     ELSE Template \subseteq ds.knownPaths

\* A known path is queued or was requested, unless a discard removed it.
Pursued(ds, F, Q, X) ==
  \A n \in ds.knownPaths :
    n \in Names(F) \cup Names(Q) \/ ds.capped \/ BudgetSpent(ds) \/ n \in X

\* A staged name stays, as long as no refinement restarts the root.
Kept(ds, S) == "grow" \in Events \/ S \subseteq ds.pendingSeeds \cup ds.knownPaths

Book(d, ds, F, R, Q, X, S) == Spending(d, ds, R, Q) /\ Pursued(ds, F, Q, X) /\ Kept(ds, S)

\* The books do not depend on the probes, nor on the order in which more names
\* come to be excluded and traps to be detected.
LEMMA BookSame ==
  ASSUME NEW d, NEW ds, NEW F, NEW R, NEW Q, NEW X, NEW S, Book(d, ds, F, R, Q, X, S),
         NEW new, NEW Y, X \subseteq Y,
         /\ new.state = ds.state /\ new.pendingSeeds = ds.pendingSeeds
         /\ new.knownPaths = ds.knownPaths /\ new.candidatesTotal = ds.candidatesTotal
         /\ new.candidatesAccountedFor = ds.candidatesAccountedFor
         /\ new.requestsDispatched = ds.requestsDispatched /\ new.budget = ds.budget
         /\ ds.capped => new.capped
  PROVE  Book(d, new, F, R, Q, Y, S)
BY DEF Book, BudgetSpent, Spending, Pursued, Kept

\* pushCandidates opens the books: the leftover seeds and nmap's paths are paid for
\* on top of PER_DIR_BUDGET, and every known path is queued.
LEMMA PushBook ==
  ASSUME NEW d \in Dir, NEW ds, Unpushed(ds), NEW X, NEW S, Kept(ds, S),
         ds.knownPaths = {}, ds.requestsDispatched = 0
  PROVE  Book(d, PushCandidates(d, ds), Pushed(d, ds), {}, {}, X, S)
<1> DEFINE L == Leftover(ds)
           N == NmapAt(d)
           extra == Cardinality(L) + Cardinality(N)
           total == Cardinality(Template) + extra
           new == PushCandidates(d, ds)
<1>1. ds \in DirState /\ ds.candidatesAccountedFor = 0 /\ IsFiniteSet(ds.pendingSeeds)
  BY DEF Unpushed
<1>2. /\ IsFiniteSet(Template) /\ IsFiniteSet(L) /\ IsFiniteSet(N) /\ L \cap Template = {}
      /\ Cardinality(Template) \in Nat /\ Cardinality(L) \in Nat /\ Cardinality(N) \in Nat
  <2>1. IsFiniteSet(L)
    BY <1>1, FS_Difference DEF Leftover
  <2>2. IsFiniteSet(N)
    BY ConstantsAssumption, FS_EmptySet DEF NmapAt
  <2> QED BY <2>1, <2>2, ConstantsAssumption, FS_CardinalityType DEF Leftover
<1>3. /\ new.state = IF total = 0 THEN "done" ELSE "scanning"
      /\ new.knownPaths = Template \cup L \cup N
      /\ new.candidatesTotal = total
      /\ new.budget = IF total > 0 /\ PerDirBudget > 0 THEN PerDirBudget + extra ELSE total
      /\ new.candidatesAccountedFor = 0 /\ new.requestsDispatched = 0
  BY <1>1 DEF PushCandidates, DirState
<1>4. IsFiniteSet(Template \cup L \cup N)
  BY <1>2, FS_Union
<1>5. Cardinality(L) <= Cardinality((Template \cup L \cup N) \ Template)
  <2>1. L \subseteq (Template \cup L \cup N) \ Template
    BY <1>2
  <2> QED BY <1>4, <2>1, FS_Difference, FS_Subset
<1>6. Cardinality((Template \cup L \cup N) \ Template) \in Nat
  BY <1>4, FS_Difference, FS_CardinalityType
<1>7. \A n \in Template \cup L \cup N : n \in Names(Pushed(d, ds))
  <2>1. \A n : Cand(d, n).name = n /\ NmapCand(d, n).name = n
    BY DEF Cand, NmapCand
  <2> QED BY <2>1 DEF Pushed, Names
<1>8. ds.pendingSeeds \subseteq Template \cup L
  BY DEF Leftover
<1>9. PerDirBudget \in Nat /\ IsFiniteSet({}) /\ Cardinality({}) = 0
  BY ConstantsAssumption, FS_EmptySet
<1> HIDE DEF L, N, new
<1>10. Spending(d, new, {}, {})
  <2>1. 0 <= new.budget
    BY <1>2, <1>3, <1>9
  <2>2. /\ PerDirBudget > 0 =>
              new.budget <= PerDirBudget + Cardinality(new.knownPaths \ Template)
                                         + Cardinality(NmapAt(d))
        /\ (PerDirBudget > 0 /\ new.budget >= PerDirBudget) \/ new.budget = new.candidatesTotal
    BY <1>2, <1>3, <1>5, <1>6, <1>9 DEF N
  <2>3. new.state # "calibrating"
    BY <1>3
  <2> QED BY <1>3, <1>4, <1>9, <2>1, <2>2, <2>3 DEF Spending
<1>11. Pursued(new, Pushed(d, ds), {}, X)
  BY <1>3, <1>7 DEF Pursued
<1>12. Kept(new, S)
  BY <1>3, <1>8 DEF Kept
<1> QED BY <1>10, <1>11, <1>12 DEF Book, new

\* So do a directory that waits for its probes and one that has none.
LEMMA EnteredBook ==
  ASSUME NEW d \in Dir, NEW ds, Unpushed(ds), NEW X, NEW S, Kept(ds, S),
         ds.knownPaths = {}, ds.requestsDispatched = 0,
         ds.probeQueue # {} => /\ ds.state = "calibrating" /\ ds.budget = 0
                               /\ ds.candidatesTotal = 0
  PROVE  Book(d, Entered(d, ds), EnteredPush(d, ds), {}, {}, X, S)
<1>1. CASE ds.probeQueue = {}
  BY <1>1, PushBook DEF Entered, EnteredPush
<1>2. CASE ds.probeQueue # {}
  <2>1. IsFiniteSet({}) /\ Cardinality({}) = 0 /\ {} \ Template = {} /\ PerDirBudget \in Nat
    BY FS_EmptySet, ConstantsAssumption
  <2>2. Cardinality(NmapAt(d)) \in Nat
    BY ConstantsAssumption, FS_EmptySet, FS_CardinalityType DEF NmapAt
  <2>3. ds.candidatesAccountedFor = 0
    BY DEF Unpushed
  <2>4. Spending(d, ds, {}, {})
    BY <1>2, <2>1, <2>2, <2>3 DEF Spending
  <2>5. Pursued(ds, {}, {}, X)
    BY DEF Pursued
  <2> QED BY <1>2, <2>4, <2>5 DEF Book, Entered, EnteredPush
<1> QED BY <1>1, <1>2

\* A directory that startCalibration creates.
LEMMA StartBook ==
  ASSUME NEW d \in Dir, NEW k \in 0..NProbes, NEW X, NEW S, S = {} \/ "grow" \in Events
  PROVE  Book(d, Entered(d, Calibrating(k)), EnteredPush(d, Calibrating(k)), {}, {}, X, S)
<1> DEFINE ds == Calibrating(k)
<1>1. Unpushed(ds) /\ ds.state = "calibrating"
  BY CalibratingOK
<1>2. ds.knownPaths = {} /\ ds.requestsDispatched = 0 /\ ds.budget = 0 /\ ds.candidatesTotal = 0
  BY DEF Calibrating
<1>3. Kept(ds, S)
  BY DEF Kept
<1> HIDE DEF ds
<1>4. Book(d, Entered(d, ds), EnteredPush(d, ds), {}, {}, X, S)
  BY <1>1, <1>2, <1>3, EnteredBook
<1> QED BY <1>4 DEF ds

\* Generated candidates pay for themselves: budget and total grow by what is
\* new, and none of it is in the template.
LEMMA GeneratedBook ==
  ASSUME NEW d \in Dir, NEW ds \in DirState, NEW F, NEW R, NEW Q, NEW X, NEW S,
         Book(d, ds, F, R, Q, X, S), ds.state = "scanning",
         NEW N \in SUBSET Name, IsFiniteSet(N), NEW T, T \subseteq N \/ "grow" \in Events
  PROVE  Book(d, EnqueueGenerated(ds, N), F \cup GeneratedPush(d, ds, N), R, Q, X, S \cup T)
<1> DEFINE G == N \ ds.knownPaths
           known == ds.knownPaths \cup G
           new == EnqueueGenerated(ds, N)
<1>1. /\ ds.candidatesTotal \in Nat /\ ds.candidatesAccountedFor \in Nat /\ ds.budget \in Nat
  BY DEF DirState
<1>2. /\ new.state = "scanning" /\ new.pendingSeeds = ds.pendingSeeds
      /\ new.knownPaths = known /\ new.capped = ds.capped
      /\ new.candidatesTotal = ds.candidatesTotal + Cardinality(G)
      /\ new.budget = ds.budget + Cardinality(G)
      /\ new.candidatesAccountedFor = ds.candidatesAccountedFor
      /\ new.requestsDispatched = ds.requestsDispatched
  BY DEF EnqueueGenerated, DirState
<1>3. IsFiniteSet(ds.knownPaths) /\ Template \subseteq ds.knownPaths
  BY DEF Book, Spending
<1>4. IsFiniteSet(G) /\ IsFiniteSet(known) /\ Cardinality(G) \in Nat
  BY <1>3, FS_Difference, FS_Union, FS_CardinalityType
<1>5. Cardinality(known \ Template) = Cardinality(ds.knownPaths \ Template) + Cardinality(G)
  <2>1. known \ Template = (ds.knownPaths \ Template) \cup G
        /\ (ds.knownPaths \ Template) \cap G = {}
    BY <1>3
  <2>2. IsFiniteSet(ds.knownPaths \ Template)
    BY <1>3, FS_Difference
  <2> HIDE DEF G, known
  <2> QED BY <1>4, <2>1, <2>2, DisjointCardinality
<1>6. /\ Cardinality(ds.knownPaths \ Template) \in Nat /\ Cardinality(NmapAt(d)) \in Nat
      /\ Cardinality(Q) \in Nat /\ PerDirBudget \in Nat
  <2>1. IsFiniteSet(ds.knownPaths \ Template) /\ IsFiniteSet(Q)
    BY <1>3, FS_Difference DEF Book, Spending
  <2>2. IsFiniteSet(NmapAt(d))
    BY ConstantsAssumption, FS_EmptySet DEF NmapAt
  <2> QED BY <2>1, <2>2, ConstantsAssumption, FS_CardinalityType
<1>7. \A n \in G : n \in Names(GeneratedPush(d, ds, N))
  <2>1. \A n : Cand(d, n).name = n
    BY DEF Cand
  <2> QED BY <2>1 DEF GeneratedPush, Names
<1>8. N \subseteq known
  OBVIOUS
<1> HIDE DEF G, known, new
<1>9. Spending(d, new, R, Q)
  <2>1. Cardinality(Q) <= new.budget
    BY <1>1, <1>2, <1>4, <1>6 DEF Book, Spending
  <2>2. /\ PerDirBudget > 0 =>
              new.budget <= PerDirBudget + Cardinality(new.knownPaths \ Template)
                                         + Cardinality(NmapAt(d))
        /\ (PerDirBudget > 0 /\ new.budget >= PerDirBudget) \/ new.budget = new.candidatesTotal
    BY <1>1, <1>2, <1>4, <1>5, <1>6 DEF Book, Spending
  <2>3. Template \subseteq new.knownPaths
    BY <1>2, <1>3 DEF known
  <2> QED BY <1>2, <1>4, <2>1, <2>2, <2>3 DEF Book, Spending
<1>10. Pursued(new, F \cup GeneratedPush(d, ds, N), Q, X)
  <2>1. \A A, B : Names(A \cup B) = Names(A) \cup Names(B)
    BY DEF Names
  <2> QED BY <1>2, <1>7, <2>1 DEF Book, BudgetSpent, Pursued, known
<1>11. Kept(new, S \cup T)
  BY <1>2, <1>8 DEF Book, Kept, known
<1> QED BY <1>9, <1>10, <1>11 DEF Book, new

\* Staged seeds are held back while the directory calibrates, and otherwise pay
\* for themselves; reopening costs nothing.
LEMMA StageBook ==
  ASSUME NEW d \in Dir, NEW ds \in DirState, NEW F, NEW R, NEW Q, NEW X, NEW S,
         Book(d, ds, F, R, Q, X, S), NEW N \in SUBSET Name, IsFiniteSet(N)
  PROVE  Book(d, StageDirCandidate(ds, N), F \cup StagedPush(d, ds, N), R, Q, X, S \cup N)
<1>1. CASE ds.state = "calibrating"
  <2> DEFINE new == [ds EXCEPT !.pendingSeeds = ds.pendingSeeds \cup N]
  <2>1. StageDirCandidate(ds, N) = new /\ StagedPush(d, ds, N) = {}
    BY <1>1 DEF StageDirCandidate, StagedPush
  <2>2. /\ new.state = ds.state /\ new.pendingSeeds = ds.pendingSeeds \cup N
        /\ new.knownPaths = ds.knownPaths /\ new.candidatesTotal = ds.candidatesTotal
        /\ new.candidatesAccountedFor = ds.candidatesAccountedFor
        /\ new.requestsDispatched = ds.requestsDispatched /\ new.budget = ds.budget
        /\ new.capped = ds.capped
    BY DEF DirState
  <2> HIDE DEF new
  <2>3. Spending(d, new, R, Q) /\ Pursued(new, F, Q, X)
    BY <2>2 DEF Book, BudgetSpent, Spending, Pursued
  <2>4. Kept(new, S \cup N)
    BY <2>2 DEF Book, Kept
  <2>5. F \cup {} = F
    OBVIOUS
  <2> QED BY <2>1, <2>3, <2>4, <2>5 DEF Book
<1>2. CASE ds.state = "scanning"
  <2>1. StageDirCandidate(ds, N) = EnqueueGenerated(ds, N)
        /\ StagedPush(d, ds, N) = GeneratedPush(d, ds, N)
    BY <1>2 DEF StageDirCandidate, StagedPush, Reopened
  <2> QED BY <1>2, <2>1, GeneratedBook
<1>3. CASE ds.state = "done" /\ N \subseteq ds.knownPaths
  <2>1. StageDirCandidate(ds, N) = ds /\ StagedPush(d, ds, N) = {}
    BY <1>3 DEF StageDirCandidate, StagedPush, Reopened, EnqueueGenerated, GeneratedPush
  <2>2. Kept(ds, S \cup N)
    BY <1>3 DEF Book, Kept
  <2>3. F \cup {} = F
    OBVIOUS
  <2> QED BY <2>1, <2>2, <2>3 DEF Book
<1>4. CASE ds.state = "done" /\ ~(N \subseteq ds.knownPaths)
  <2> DEFINE open == [ds EXCEPT !.state = "scanning"]
  <2>1. StageDirCandidate(ds, N) = EnqueueGenerated(open, N)
        /\ StagedPush(d, ds, N) = GeneratedPush(d, open, N)
    BY <1>4 DEF StageDirCandidate, StagedPush, Reopened
  <2>2. /\ open \in DirState /\ open.state = "scanning" /\ open.pendingSeeds = ds.pendingSeeds
        /\ open.knownPaths = ds.knownPaths /\ open.candidatesTotal = ds.candidatesTotal
        /\ open.candidatesAccountedFor = ds.candidatesAccountedFor
        /\ open.requestsDispatched = ds.requestsDispatched /\ open.budget = ds.budget
        /\ open.capped = ds.capped
    BY DEF DirState
  <2> HIDE DEF open
  <2>3. Book(d, open, F, R, Q, X, S)
    BY <1>4, <2>2 DEF Book, BudgetSpent, Spending, Pursued, Kept
  <2> QED BY <2>1, <2>2, <2>3, GeneratedBook
<1>5. ds.state \in {"calibrating", "scanning", "done"}
  BY DEF DirState
<1> QED BY <1>1, <1>2, <1>3, <1>4, <1>5

\* With no limit below the total, no queued candidate is ever over budget: what was
\* sent and what is queued never add up to more than the total.
LEMMA NeverOverBudget ==
  ASSUME NEW d, NEW ds \in DirState, NEW F, NEW R, NEW Q, NEW X, NEW S,
         Book(d, ds, F, R, Q, X, S), Balanced(ds, F, R), IsFiniteSet(F), IsFiniteSet(R),
         F # {}, ds.budget = ds.candidatesTotal
  PROVE  ~OverBudget(ds)
<1>1. /\ Cardinality(F) \in Nat /\ Cardinality(R) \in Nat /\ Cardinality(F) # 0
      /\ Cardinality(Q) \in Nat
  BY FS_CardinalityType, FS_EmptySet DEF Book, Spending
<1>2. ds.candidatesTotal \in Nat /\ ds.candidatesAccountedFor \in Nat
  BY DEF DirState
<1> QED BY <1>1, <1>2 DEF Book, Spending, Balanced, OverBudget

\* Accounting for queued candidates that a discard removes, or for results.
LEMMA AccountBook ==
  ASSUME NEW d, NEW ds \in DirState, NEW F, NEW R, NEW Q, NEW X, NEW S, NEW P,
         Book(d, ds, F, R, Q, X, S), Tally(ds, F, R, Q),
         \/ /\ P \subseteq F
            /\ \A c \in P : ds.capped \/ OverBudget(ds) \/ c.name \in X
         \/ P \subseteq R
  PROVE  /\ P \subseteq F => Book(d, Account(ds, Cardinality(P)), F \ P, R, Q, X, S)
         /\ P \subseteq R => Book(d, Account(ds, Cardinality(P)), F, R \ P, Q, X, S)
<1> DEFINE k == Cardinality(P)
           new == Account(ds, k)
<1>1. IsFiniteSet(F) /\ IsFiniteSet(R) /\ F \cap R = {} /\ Sound(ds, F, R, Q)
  BY DEF Tally, Sound
<1>2. IsFiniteSet(P) /\ k \in Nat /\ (k = 0 <=> P = {})
  BY <1>1, FS_Subset, FS_CardinalityType, FS_EmptySet
<1>3. CASE P = {}
  <2>1. new = ds /\ F \ P = F /\ R \ P = R
    BY <1>2, <1>3 DEF Account
  <2> QED BY <2>1
<1>4. CASE P # {}
  <2>1. ds.state # "calibrating" /\ Balanced(ds, F, R)
    BY <1>4 DEF Tally, Sound
  <2>2. ds.candidatesAccountedFor \in Nat /\ ds.candidatesTotal \in Nat
    BY DEF DirState
  <2>3. /\ new.candidatesAccountedFor = ds.candidatesAccountedFor + k
        /\ new.candidatesTotal = ds.candidatesTotal
        /\ new.pendingSeeds = ds.pendingSeeds /\ new.knownPaths = ds.knownPaths
        /\ new.requestsDispatched = ds.requestsDispatched /\ new.budget = ds.budget
        /\ new.capped = ds.capped /\ new.state # "calibrating"
    <3>1. new = [ds EXCEPT
            !.candidatesAccountedFor = ds.candidatesAccountedFor + k,
            !.state = IF ds.candidatesAccountedFor + k >= ds.candidatesTotal
                      THEN "done" ELSE ds.state]
      BY <1>2, <1>4 DEF Account
    <3> HIDE DEF k, new
    <3> QED BY <2>1, <3>1 DEF DirState
  <2> HIDE DEF new
  <2>4. Kept(new, S)
    BY <2>3 DEF Book, Kept
  <2>5. Cardinality(Q) \in Nat /\ Cardinality(R) \in Nat
    BY <1>1, FS_CardinalityType DEF Book, Spending
  <2>6. ASSUME P \subseteq F PROVE Book(d, new, F \ P, R, Q, X, S)
    <3>1. \A c \in P : ds.capped \/ BudgetSpent(ds) \/ c.name \in X
      <4>1. \A c \in P : ds.capped \/ OverBudget(ds) \/ c.name \in X
        BY <1>1, <1>4, <2>6
      <4>2. ds.budget = ds.candidatesTotal => ~OverBudget(ds)
        BY <1>1, <1>4, <2>1, <2>6, NeverOverBudget
      <4>3. ds.budget \in Nat /\ ds.requestsDispatched \in Nat /\ PerDirBudget \in Nat
        BY ConstantsAssumption DEF DirState
      <4>4. OverBudget(ds) => BudgetSpent(ds)
        BY <4>2, <4>3 DEF Book, Spending, OverBudget, BudgetSpent
      <4> QED BY <4>1, <4>4
    <3>2. \A n \in Names(F) : n \in Names(F \ P) \/ \E c \in P : c.name = n
      BY DEF Names
    <3>3. Pursued(new, F \ P, Q, X)
      BY <2>3, <3>1, <3>2 DEF Book, BudgetSpent, Pursued
    <3> HIDE DEF k
    <3>4. Cardinality(Q) <= new.candidatesAccountedFor + Cardinality(R)
      BY <1>2, <2>2, <2>3, <2>5 DEF Book, Spending
    <3>5. Spending(d, new, R, Q)
      BY <2>1, <2>3, <3>4 DEF Book, Spending
    <3> QED BY <2>4, <3>3, <3>5 DEF Book
  <2>7. ASSUME P \subseteq R PROVE Book(d, new, F, R \ P, Q, X, S)
    <3>1. Cardinality(R) = Cardinality(R \ P) + k /\ Cardinality(R \ P) \in Nat
      BY <1>1, <2>7, RemoveCardinality
    <3>2. Pursued(new, F, Q, X)
      BY <2>3 DEF Book, BudgetSpent, Pursued
    <3> HIDE DEF k
    <3>3. Cardinality(Q) <= new.candidatesAccountedFor + Cardinality(R \ P)
      BY <1>2, <2>2, <2>3, <2>5, <3>1 DEF Book, Spending
    <3>4. Spending(d, new, R \ P, Q)
      BY <2>1, <2>3, <3>3 DEF Book, Spending
    <3> QED BY <2>4, <3>2, <3>4 DEF Book
  <2> QED BY <2>6, <2>7 DEF new
<1> QED BY <1>3, <1>4

\* A dispatch within the budget.
LEMMA DispatchBook ==
  ASSUME NEW d, NEW ds \in DirState, NEW F, NEW R, NEW Q, NEW X, NEW S, NEW c \in F,
         Book(d, ds, F, R, Q, X, S), Tally(ds, F, R, Q), ~OverBudget(ds)
  PROVE  Book(d, [ds EXCEPT !.requestsDispatched = @ + 1],
              F \ {c}, R \cup {c}, Q \cup {c}, X, S)
<1> DEFINE new == [ds EXCEPT !.requestsDispatched = ds.requestsDispatched + 1]
<1>1. /\ new.state = ds.state /\ new.pendingSeeds = ds.pendingSeeds
      /\ new.knownPaths = ds.knownPaths /\ new.capped = ds.capped
      /\ new.candidatesTotal = ds.candidatesTotal
      /\ new.candidatesAccountedFor = ds.candidatesAccountedFor
      /\ new.budget = ds.budget /\ new.requestsDispatched = ds.requestsDispatched + 1
  BY DEF DirState
<1>2. c \notin R /\ c \notin Q /\ IsFiniteSet(R) /\ IsFiniteSet(Q)
  BY DEF Tally, Sound, Book, Spending
<1>3. /\ IsFiniteSet(Q \cup {c}) /\ Cardinality(Q \cup {c}) = Cardinality(Q) + 1
      /\ Cardinality(R \cup {c}) = Cardinality(R) + 1
      /\ Cardinality(Q) \in Nat /\ Cardinality(R) \in Nat
  BY <1>2, FS_AddElement, FS_CardinalityType
<1>4. ds.budget \in Nat /\ ds.candidatesAccountedFor \in Nat
  BY DEF DirState
<1> HIDE DEF new
<1>5. Spending(d, new, R \cup {c}, Q \cup {c})
  <2>1. Cardinality(Q \cup {c}) <= new.budget
    BY <1>1, <1>3, <1>4 DEF Book, Spending, OverBudget
  <2>2. Cardinality(Q \cup {c}) <= new.candidatesAccountedFor + Cardinality(R \cup {c})
    BY <1>1, <1>3, <1>4 DEF Book, Spending
  <2> QED BY <1>1, <1>3, <2>1, <2>2 DEF Book, Spending
<1>6. Pursued(new, F \ {c}, Q \cup {c}, X)
  <2>1. \A n : n \in Names(F) \cup Names(Q) => n \in Names(F \ {c}) \cup Names(Q \cup {c})
    BY DEF Names
  <2>2. BudgetSpent(ds) => BudgetSpent(new)
    BY <1>1, ConstantsAssumption DEF BudgetSpent, DirState
  <2> QED BY <1>1, <2>1, <2>2 DEF Book, Pursued
<1>7. Kept(new, S)
  BY <1>1 DEF Book, Kept
<1> QED BY <1>5, <1>6, <1>7 DEF Book, new

\* A handled result settles the candidate c, whatever traps it revealed.
LEMMA SettleBook ==
  ASSUME NEW d, NEW ds \in DirState, NEW F, NEW R, NEW Q, NEW out, NEW X, NEW S, NEW c \in R,
         NEW b \in BOOLEAN, Book(d, ds, F, R, Q, X, S), Tally(ds, F, R, Q), ProbeTally(ds, out)
  PROVE  Book(d, Settle(ds, b), F, R \ {c}, Q, X, S)
<1> DEFINE w == [ds EXCEPT !.wildcardSuspect = @ \/ b]
<1>1. w \in DirState /\ Tally(w, F, R, Q)
  BY FlagsOK
<1>2. /\ w.state = ds.state /\ w.pendingSeeds = ds.pendingSeeds
      /\ w.knownPaths = ds.knownPaths /\ w.candidatesTotal = ds.candidatesTotal
      /\ w.candidatesAccountedFor = ds.candidatesAccountedFor
      /\ w.requestsDispatched = ds.requestsDispatched /\ w.budget = ds.budget
      /\ ds.capped => w.capped
  BY DEF DirState
<1>3. Settle(ds, b) = Account(w, Cardinality({c})) /\ {c} \subseteq R
  BY FS_Singleton DEF Settle
<1> HIDE DEF w
<1>4. Book(d, w, F, R, Q, X, S)
  <2>1. X \subseteq X
    OBVIOUS
  <2> QED BY <1>2, <2>1, BookSame
<1>5. ASSUME NEW P, P = {c} PROVE Book(d, Account(w, Cardinality(P)), F, R \ P, Q, X, S)
  <2>1. P \subseteq R
    BY <1>5
  <2> QED BY <1>1, <1>4, <2>1, AccountBook
<1> QED BY <1>3, <1>5

-----------------------------------------------------------------------------
(* The books of the tree.                                                  *)

\* The names that the scope or the exclude patterns e remove from directory d.
Lost(d, e) ==
  {n \in Name : Append(d, n) \in OutOfScope \/ \E pat \in e : Matches(pat, d, n)}

BooksOK(D, F, R, Q, S, e) ==
  \A d \in DOMAIN D :
    Book(d, D[d], Under(d, F), Under(d, R), Under(d, Q), Lost(d, e), Names(Under(d, S)))

Housed(D, S) == \A s \in S : s.dir \in DOMAIN D

Books ==
  /\ BooksOK(dirs, frontier, realOut, requested, staged, excludes)
  /\ Housed(dirs, staged)

\* A step that replaces the record of directory d and changes only what is
\* queued, in flight or dispatched for d.
LEMMA UpdateBooks ==
  ASSUME NEW D, NEW F, NEW R, NEW Q, NEW S, NEW e, BooksOK(D, F, R, Q, S, e),
         NEW F2, NEW R2, NEW Q2, NEW d \in DOMAIN D, NEW new,
         \A c : c.dir # d => /\ c \in F2 <=> c \in F
                             /\ c \in R2 <=> c \in R
                             /\ c \in Q2 <=> c \in Q,
         Book(d, new, Under(d, F2), Under(d, R2), Under(d, Q2), Lost(d, e), Names(Under(d, S)))
  PROVE  BooksOK([D EXCEPT ![d] = new], F2, R2, Q2, S, e)
<1> DEFINE E == [D EXCEPT ![d] = new]
<1>1. DOMAIN E = DOMAIN D /\ E[d] = new /\ \A x \in DOMAIN D : x # d => E[x] = D[x]
  OBVIOUS
<1>2. \A x \in DOMAIN D : x # d => /\ Under(x, F2) = Under(x, F)
                                   /\ Under(x, R2) = Under(x, R)
                                   /\ Under(x, Q2) = Under(x, Q)
  BY DEF Under
<1> HIDE DEF E
<1>3. BooksOK(E, F2, R2, Q2, S, e)
  BY <1>1, <1>2 DEF BooksOK
<1> QED BY <1>3 DEF E

\* Accounting for queued candidates that a discard removes, or for results.
LEMMA AccountBooks ==
  ASSUME NEW D, NEW F, NEW R, NEW Q, NEW O, NEW S, NEW e, NEW P,
         TreeOK(D, F, R, Q, O), BooksOK(D, F, R, Q, S, e),
         \/ /\ P \subseteq F
            /\ \A c \in P : \/ D[c.dir].capped \/ OverBudget(D[c.dir])
                            \/ c.name \in Lost(c.dir, e)
         \/ P \subseteq R
  PROVE  /\ P \subseteq F => BooksOK(AccountFor(D, P), F \ P, R, Q, S, e)
         /\ P \subseteq R => BooksOK(AccountFor(D, P), F, R \ P, Q, S, e)
<1> DEFINE E == AccountFor(D, P)
<1>1. /\ DOMAIN E = DOMAIN D
      /\ \A d \in DOMAIN D : E[d] = Account(D[d], Cardinality(Under(d, P)))
  BY DEF AccountFor
<1>2. \A T, d : /\ P \subseteq T => Under(d, P) \subseteq Under(d, T)
                /\ Under(d, T \ P) = Under(d, T) \ Under(d, P)
  BY DEF Under
<1>3. \A d \in DOMAIN D :
        /\ D[d] \in DirState /\ Tally(D[d], Under(d, F), Under(d, R), Under(d, Q))
        /\ Book(d, D[d], Under(d, F), Under(d, R), Under(d, Q), Lost(d, e), Names(Under(d, S)))
  BY DEF TreeOK, BooksOK
<1> HIDE DEF E
<1>4. ASSUME P \subseteq F, NEW d \in DOMAIN D
      PROVE  Book(d, E[d], Under(d, F \ P), Under(d, R), Under(d, Q), Lost(d, e),
                  Names(Under(d, S)))
  <2>1. Under(d, P) \subseteq Under(d, F) /\ Under(d, F \ P) = Under(d, F) \ Under(d, P)
    BY <1>2, <1>4
  <2>2. F \cap R = {}
    BY DEF TreeOK, Tally, Sound, Under
  <2>3. \A c \in Under(d, P) : D[d].capped \/ OverBudget(D[d]) \/ c.name \in Lost(d, e)
    BY <1>4, <2>2 DEF Under
  <2>4. Book(d, Account(D[d], Cardinality(Under(d, P))), Under(d, F) \ Under(d, P),
             Under(d, R), Under(d, Q), Lost(d, e), Names(Under(d, S)))
    BY <1>3, <1>4, <2>1, <2>3, AccountBook
  <2> QED BY <1>1, <1>4, <2>1, <2>4
<1>5. ASSUME P \subseteq R, NEW d \in DOMAIN D
      PROVE  Book(d, E[d], Under(d, F), Under(d, R \ P), Under(d, Q), Lost(d, e),
                  Names(Under(d, S)))
  <2>1. Under(d, P) \subseteq Under(d, R) /\ Under(d, R \ P) = Under(d, R) \ Under(d, P)
    BY <1>2, <1>5
  <2>2. Book(d, Account(D[d], Cardinality(Under(d, P))), Under(d, F),
             Under(d, R) \ Under(d, P), Under(d, Q), Lost(d, e), Names(Under(d, S)))
    BY <1>3, <1>5, <2>1, AccountBook
  <2> QED BY <1>1, <1>5, <2>1, <2>2
<1> QED BY <1>1, <1>4, <1>5 DEF BooksOK, E

\* Dispatching a queued candidate within the budget.
LEMMA DispatchBooks ==
  ASSUME NEW D, NEW F, NEW R, NEW Q, NEW O, NEW S, NEW e, NEW c \in F,
         TreeOK(D, F, R, Q, O), BooksOK(D, F, R, Q, S, e), ~OverBudget(D[c.dir])
  PROVE  BooksOK([D EXCEPT ![c.dir].requestsDispatched = @ + 1],
                 F \ {c}, R \cup {c}, Q \cup {c}, S, e)
<1> DEFINE d == c.dir
           new == [D[d] EXCEPT !.requestsDispatched = @ + 1]
<1>1. d \in DOMAIN D /\ D[d] \in DirState /\ c \in Under(d, F) /\ ~OverBudget(D[d])
  BY DEF TreeOK, Under
<1>2. /\ Tally(D[d], Under(d, F), Under(d, R), Under(d, Q))
      /\ Book(d, D[d], Under(d, F), Under(d, R), Under(d, Q), Lost(d, e), Names(Under(d, S)))
  BY <1>1 DEF TreeOK, BooksOK
<1>3. Book(d, new, Under(d, F) \ {c}, Under(d, R) \cup {c}, Under(d, Q) \cup {c}, Lost(d, e),
           Names(Under(d, S)))
  <2> HIDE DEF d
  <2> QED BY <1>1, <1>2, DispatchBook
<1>4. /\ Under(d, F \ {c}) = Under(d, F) \ {c}
      /\ Under(d, R \cup {c}) = Under(d, R) \cup {c}
      /\ Under(d, Q \cup {c}) = Under(d, Q) \cup {c}
  BY DEF Under
<1>5. \A x : x.dir # d => /\ x \in F \ {c} <=> x \in F
                          /\ x \in R \cup {c} <=> x \in R
                          /\ x \in Q \cup {c} <=> x \in Q
  OBVIOUS
<1>6. [D EXCEPT ![c.dir].requestsDispatched = @ + 1] = [D EXCEPT ![d] = new]
  OBVIOUS
<1> HIDE DEF d, new
<1>7. ASSUME NEW F2, F2 = F \ {c}, NEW R2, R2 = R \cup {c}, NEW Q2, Q2 = Q \cup {c}
      PROVE  BooksOK([D EXCEPT ![d] = new], F2, R2, Q2, S, e)
  <2>1. \A x : x.dir # d => (x \in F2 <=> x \in F) /\ (x \in R2 <=> x \in R)
                            /\ (x \in Q2 <=> x \in Q)
    BY <1>5, <1>7
  <2>2. Book(d, new, Under(d, F2), Under(d, R2), Under(d, Q2), Lost(d, e), Names(Under(d, S)))
    BY <1>3, <1>4, <1>7
  <2> QED BY <1>1, <2>1, <2>2, UpdateBooks
<1> QED BY <1>6, <1>7

\* Directories W start their calibration, new or anew.
LEMMA RestartBooks ==
  ASSUME NEW D, NEW F, NEW R, NEW Q, NEW S, NEW e,
         BooksOK(D, F, R, Q, S, e),
         Housed(D, F), Housed(D, R), Housed(D, Q),
         NEW W \in SUBSET Dir, \A d \in W : Under(d, S) = {} \/ "grow" \in Events,
         W \cap DOMAIN D = {}, NEW probes \in [W -> 0..NProbes]
  PROVE  BooksOK([d \in DOMAIN D \cup W |->
                    IF d \in DOMAIN D THEN D[d] ELSE Entered(d, Calibrating(probes[d]))],
                 F \cup UNION {EnteredPush(d, Calibrating(probes[d])) : d \in W}, R, Q, S, e)
<1> DEFINE E == [d \in DOMAIN D \cup W |->
                   IF d \in DOMAIN D THEN D[d] ELSE Entered(d, Calibrating(probes[d]))]
           G == [d \in W |-> EnteredPush(d, Calibrating(probes[d]))]
           U == UNION {G[d] : d \in W}
<1>1. \A d \in W : G[d] = EnteredPush(d, Calibrating(probes[d])) /\ \A c \in G[d] : c.dir = d
  BY StartOK
<1>2. /\ DOMAIN E = DOMAIN D \cup W
      /\ \A d \in DOMAIN D : E[d] = D[d]
      /\ \A d \in W : E[d] = Entered(d, Calibrating(probes[d]))
  OBVIOUS
<1>3. UNION {EnteredPush(d, Calibrating(probes[d])) : d \in W} = U
  OBVIOUS
<1> HIDE DEF E, G
<1>4. \A d : Under(d, U) = IF d \in W THEN G[d] ELSE {}
  BY <1>1 DEF Under
<1> HIDE DEF U
<1>5. \A d : Under(d, F \cup U) = Under(d, F) \cup Under(d, U)
  BY DEF Under
<1>6. ASSUME NEW d \in DOMAIN D
      PROVE  Book(d, E[d], Under(d, F \cup U), Under(d, R), Under(d, Q), Lost(d, e),
                  Names(Under(d, S)))
  <2>1. Under(d, U) = {}
    BY <1>4
  <2>2. E[d] = D[d] /\ Under(d, F \cup U) = Under(d, F)
    BY <1>2, <1>5, <2>1
  <2> QED BY <2>2 DEF BooksOK
<1>7. ASSUME NEW d \in W
      PROVE  Book(d, E[d], Under(d, F \cup U), Under(d, R), Under(d, Q), Lost(d, e),
                  Names(Under(d, S)))
  <2>1. Under(d, F) = {} /\ Under(d, R) = {} /\ Under(d, Q) = {}
    BY DEF Under, Housed
  <2>2. Names(Under(d, S)) = {} \/ "grow" \in Events
    BY DEF Names
  <2>3. Under(d, F \cup U) = EnteredPush(d, Calibrating(probes[d]))
    <3>1. Under(d, U) = EnteredPush(d, Calibrating(probes[d]))
      BY <1>1, <1>4
    <3> QED BY <1>5, <2>1, <3>1
  <2>4. E[d] = Entered(d, Calibrating(probes[d]))
    BY <1>2
  <2>5. Book(d, Entered(d, Calibrating(probes[d])), EnteredPush(d, Calibrating(probes[d])),
             {}, {}, Lost(d, e), Names(Under(d, S)))
    BY <2>2, StartBook
  <2> QED BY <2>1, <2>3, <2>4, <2>5
<1>8. BooksOK(E, F \cup U, R, Q, S, e)
  BY <1>2, <1>6, <1>7 DEF BooksOK
<1> QED BY <1>3, <1>8 DEF E

\* New directories W start their calibration.
LEMMA GrowBooks ==
  ASSUME NEW D, NEW F, NEW R, NEW Q, NEW S, NEW e,
         BooksOK(D, F, R, Q, S, e),
         Housed(D, F), Housed(D, R), Housed(D, Q), Housed(D, S),
         NEW W \in SUBSET Dir, W \cap DOMAIN D = {}, NEW probes \in [W -> 0..NProbes]
  PROVE  BooksOK([d \in DOMAIN D \cup W |->
                    IF d \in DOMAIN D THEN D[d] ELSE Entered(d, Calibrating(probes[d]))],
                 F \cup UNION {EnteredPush(d, Calibrating(probes[d])) : d \in W}, R, Q, S, e)
<1>1. \A d \in W : Under(d, S) = {} \/ "grow" \in Events
  BY DEF Under, Housed
<1> QED BY <1>1, RestartBooks

\* Every directory d stages the names N[d].
LEMMA StageBooks ==
  ASSUME NEW D, NEW F, NEW R, NEW Q, NEW O, NEW S, NEW e,
         TreeOK(D, F, R, Q, O), BooksOK(D, F, R, Q, S, e),
         NEW N, \A d \in DOMAIN D : N[d] \in SUBSET Name /\ IsFiniteSet(N[d])
  PROVE  BooksOK([d \in DOMAIN D |-> StageDirCandidate(D[d], N[d])],
                 F \cup UNION {StagedPush(d, D[d], N[d]) : d \in DOMAIN D}, R, Q,
                 S \cup UNION {{Cand(d, n) : n \in N[d]} : d \in DOMAIN D}, e)
<1> DEFINE E == [d \in DOMAIN D |-> StageDirCandidate(D[d], N[d])]
           G == [d \in DOMAIN D |-> StagedPush(d, D[d], N[d])]
           U == UNION {G[d] : d \in DOMAIN D}
           H == [d \in DOMAIN D |-> {Cand(d, n) : n \in N[d]}]
           V == UNION {H[d] : d \in DOMAIN D}
<1>1. /\ UNION {StagedPush(d, D[d], N[d]) : d \in DOMAIN D} = U
      /\ UNION {{Cand(d, n) : n \in N[d]} : d \in DOMAIN D} = V
  OBVIOUS
<1>2. \A d \in DOMAIN D : G[d] = StagedPush(d, D[d], N[d]) /\ \A c \in G[d] : c.dir = d
  <2> TAKE d \in DOMAIN D
  <2>1. /\ d \in Dir /\ D[d] \in DirState
        /\ Tally(D[d], Under(d, F), Under(d, R), Under(d, Q))
        /\ ProbeTally(D[d], Under(d, O))
    BY DEF TreeOK
  <2> QED BY <2>1, StageOK
<1>3. ASSUME NEW d \in DOMAIN D PROVE Names(H[d]) = N[d] /\ \A c \in H[d] : c.dir = d
  <2>1. \A n : Cand(d, n).name = n /\ Cand(d, n).dir = d
    BY DEF Cand
  <2>2. H[d] = {Cand(d, n) : n \in N[d]}
    OBVIOUS
  <2> HIDE DEF H
  <2> QED BY <2>1, <2>2 DEF Names
<1>4. DOMAIN E = DOMAIN D /\ \A d \in DOMAIN D : E[d] = StageDirCandidate(D[d], N[d])
  OBVIOUS
<1> HIDE DEF E, G, H
<1>5. \A d \in DOMAIN D : Under(d, U) = G[d]
  BY <1>2 DEF Under
<1>6. \A d \in DOMAIN D : Under(d, V) = H[d]
  BY <1>3 DEF Under
<1> HIDE DEF U, V
<1>7. ASSUME NEW d \in DOMAIN D
      PROVE  Book(d, E[d], Under(d, F \cup U), Under(d, R), Under(d, Q), Lost(d, e),
                  Names(Under(d, S \cup V)))
  <2>1. Under(d, F \cup U) = Under(d, F) \cup StagedPush(d, D[d], N[d])
    <3>1. Under(d, F \cup U) = Under(d, F) \cup Under(d, U)
      BY DEF Under
    <3> QED BY <1>2, <1>5, <3>1
  <2>2. Names(Under(d, S \cup V)) = Names(Under(d, S)) \cup N[d]
    <3>1. Names(Under(d, S \cup V)) = Names(Under(d, S)) \cup Names(Under(d, V))
      BY DEF Under, Names
    <3> QED BY <1>3, <1>6, <3>1
  <2>3. d \in Dir /\ D[d] \in DirState
    BY DEF TreeOK
  <2>4. Book(d, D[d], Under(d, F), Under(d, R), Under(d, Q), Lost(d, e), Names(Under(d, S)))
    BY DEF BooksOK
  <2>5. Book(d, StageDirCandidate(D[d], N[d]), Under(d, F) \cup StagedPush(d, D[d], N[d]),
             Under(d, R), Under(d, Q), Lost(d, e), Names(Under(d, S)) \cup N[d])
    BY <2>3, <2>4, StageBook
  <2> QED BY <1>4, <2>1, <2>2, <2>5
<1>8. BooksOK(E, F \cup U, R, Q, S \cup V, e)
  BY <1>4, <1>7 DEF BooksOK
<1> QED BY <1>1, <1>8 DEF E

-----------------------------------------------------------------------------
(* What the coordinator's steps do to the books.                           *)

\* seedRoot opens the root's book.
LEMMA SeedRootBooks ==
  ASSUME IInv, Books, NEW k \in 0..NProbes, NEW again \in 0..NProbes, NEW grow \in BOOLEAN,
         SeedRoot(k, grow, again)
  PROVE  Books'
<1> DEFINE src == IF k = 0 /\ grow THEN Calibrating(again) ELSE Calibrating(k)
<1>1. PICK j \in 0..NProbes : src = Calibrating(j)
  OBVIOUS
<1>2. /\ dirs' = [d \in {Root} |-> Entered(d, src)] /\ frontier' = EnteredPush(Root, src)
      /\ realOut' = realOut /\ requested' = requested /\ staged' = staged
      /\ excludes' = excludes
  BY DEF SeedRoot, outVars, controlVars
<1>3. realOut = {} /\ requested = {} /\ staged = {}
  BY DEF SeedRoot, IInv, Tree, TreeOK, Books, Housed
<1> HIDE DEF src
<1>4. Root \in Dir
  BY DEF Root, Dir
<1>5. /\ \A c \in EnteredPush(Root, src) : c.dir = Root
      /\ Book(Root, Entered(Root, src), EnteredPush(Root, src), {}, {}, Lost(Root, excludes), {})
  <2>1. \A c \in EnteredPush(Root, src) : c.dir = Root
    BY <1>1, <1>4, StartOK
  <2> QED BY <1>1, <1>4, <2>1, StartBook
<1>6. /\ Under(Root, frontier') = EnteredPush(Root, src)
      /\ Under(Root, realOut') = {} /\ Under(Root, requested') = {}
      /\ Names(Under(Root, staged')) = {}
  BY <1>2, <1>3, <1>5 DEF Under, Names
<1>7. DOMAIN dirs' = {Root} /\ dirs'[Root] = Entered(Root, src)
  BY <1>2
<1>8. \A d \in DOMAIN dirs' :
        Book(d, dirs'[d], Under(d, frontier'), Under(d, realOut'), Under(d, requested'),
             Lost(d, excludes'), Names(Under(d, staged')))
  BY <1>2, <1>5, <1>6, <1>7
<1> QED BY <1>2, <1>3, <1>8 DEF Books, BooksOK, Housed

\* enqueueSeed keeps the books, whatever the seeds.
LEMMA SeedsBooks ==
  ASSUME IInv, Books, NEW K \in SUBSET SeedPaths, NEW probes \in ProbeCounts(K),
         EnqueueSeeds(K, probes), realOut' = realOut, requested' = requested,
         excludes' = excludes
  PROVE  Books'
<1> DEFINE W == NewDirs(K)
           base == [d \in DOMAIN dirs \cup W |->
                      IF d \in DOMAIN dirs THEN dirs[d] ELSE Entered(d, Calibrating(probes[d]))]
           F1 == frontier \cup UNION {EnteredPush(d, Calibrating(probes[d])) : d \in W}
           N == [d \in Dir |-> NamesUnder(K, d)]
<1>1. W \in SUBSET Dir /\ W \cap DOMAIN dirs = {} /\ probes \in [W -> 0..NProbes]
  BY NewDirsType DEF ProbeCounts
<1>2. TreeOK(base, F1, realOut, requested, probesOut)
  <2> HIDE DEF W
  <2> QED BY <1>1, GrowTree DEF IInv, Tree
<1>3. BooksOK(base, F1, realOut, requested, staged, excludes)
  <2> HIDE DEF W
  <2>1. /\ BooksOK(dirs, frontier, realOut, requested, staged, excludes)
        /\ Housed(dirs, frontier) /\ Housed(dirs, realOut) /\ Housed(dirs, requested)
        /\ Housed(dirs, staged)
    BY DEF Books, Housed, IInv, Tree, TreeOK
  <2> QED BY <1>1, <2>1, GrowBooks
<1>4. DOMAIN base \subseteq Dir
  BY <1>1 DEF IInv, Tree, TreeOK
<1>5. \A d \in DOMAIN base : /\ N[d] = NamesUnder(K, d)
                             /\ N[d] \in SUBSET Name /\ IsFiniteSet(N[d])
  <2> HIDE DEF base
  <2> QED BY <1>4, NamesUnderFinite
<1>6. /\ dirs' = [d \in DOMAIN base |-> StageDirCandidate(base[d], NamesUnder(K, d))]
      /\ frontier' = F1 \cup UNION {StagedPush(d, base[d], NamesUnder(K, d)) : d \in DOMAIN base}
      /\ staged' = staged \cup UNION {{Cand(d, n) : n \in NamesUnder(K, d)} : d \in DOMAIN base}
  BY DEF EnqueueSeeds
<1>7. DOMAIN dirs \subseteq DOMAIN base
  OBVIOUS
<1> HIDE DEF base, F1, N
<1>8. BooksOK([d \in DOMAIN base |-> StageDirCandidate(base[d], N[d])],
              F1 \cup UNION {StagedPush(d, base[d], N[d]) : d \in DOMAIN base},
              realOut, requested,
              staged \cup UNION {{Cand(d, n) : n \in N[d]} : d \in DOMAIN base}, excludes)
  BY <1>2, <1>3, <1>5, StageBooks
<1>9. /\ [d \in DOMAIN base |-> StageDirCandidate(base[d], N[d])] = dirs'
      /\ F1 \cup UNION {StagedPush(d, base[d], N[d]) : d \in DOMAIN base} = frontier'
      /\ staged \cup UNION {{Cand(d, n) : n \in N[d]} : d \in DOMAIN base} = staged'
  BY <1>5, <1>6
<1>10. Housed(dirs', staged')
  <2>1. \A d, n : Cand(d, n).dir = d
    BY DEF Cand
  <2>2. DOMAIN dirs' = DOMAIN base
    BY <1>6
  <2> QED BY <1>6, <1>7, <2>1, <2>2 DEF Books, Housed
<1> QED BY <1>8, <1>9, <1>10 DEF Books

\* A probe that is sent is not in the books.
LEMMA DispatchProbeBooks ==
  ASSUME IInv, Books, NEW d \in DOMAIN dirs, NEW i, DispatchProbe(d, i)
  PROVE  Books'
<1> DEFINE ds == dirs[d]
           new == [ds EXCEPT !.probeQueue = ds.probeQueue \ {i}]
<1>1. ds \in DirState
  BY DEF IInv, Tree, TreeOK
<1>2. /\ new.state = ds.state /\ new.pendingSeeds = ds.pendingSeeds
      /\ new.knownPaths = ds.knownPaths /\ new.candidatesTotal = ds.candidatesTotal
      /\ new.candidatesAccountedFor = ds.candidatesAccountedFor
      /\ new.requestsDispatched = ds.requestsDispatched /\ new.budget = ds.budget
      /\ ds.capped => new.capped
  BY <1>1 DEF DirState
<1>3. /\ dirs' = [dirs EXCEPT ![d] = new] /\ frontier' = frontier /\ realOut' = realOut
      /\ requested' = requested /\ staged' = staged /\ excludes' = excludes
  BY DEF DispatchProbe, controlVars
<1>4. Book(d, ds, Under(d, frontier), Under(d, realOut), Under(d, requested),
           Lost(d, excludes), Names(Under(d, staged)))
  BY DEF Books, BooksOK
<1> HIDE DEF ds, new
<1>5. Book(d, new, Under(d, frontier), Under(d, realOut), Under(d, requested),
           Lost(d, excludes), Names(Under(d, staged)))
  <2>1. Lost(d, excludes) \subseteq Lost(d, excludes)
    OBVIOUS
  <2> QED BY <1>2, <1>4, <2>1, BookSame
<1>6. BooksOK([dirs EXCEPT ![d] = new], frontier, realOut, requested, staged, excludes)
  BY <1>5, UpdateBooks DEF Books
<1>7. DOMAIN dirs' = DOMAIN dirs
  BY <1>3
<1> QED BY <1>3, <1>6, <1>7 DEF Books, Housed

\* A dispatch, with the discards before it, keeps the books.
LEMMA DispatchCandidateBooks ==
  ASSUME IInv, Books, NEW c \in frontier, NEW P \in SUBSET (frontier \ Live),
         DispatchCandidate(c, P)
  PROVE  Books'
<1> DEFINE D == AccountFor(dirs, P)
<1>1. \A x \in frontier : Scanning(x)
  BY QueuedIsScanning DEF IInv
<1>2. {x \in P : Scanning(x)} = P /\ P \subseteq frontier
  BY <1>1
<1>3. c \in frontier \ P /\ ~OverBudget(dirs[c.dir])
  BY DEF DispatchCandidate, Live, Discarded
<1>4. /\ frontier' = (frontier \ P) \ {c}
      /\ dirs' = [D EXCEPT ![c.dir].requestsDispatched = @ + 1]
      /\ realOut' = realOut \cup {c} /\ requested' = requested \cup {c}
      /\ staged' = staged /\ excludes' = excludes
  BY <1>2 DEF DispatchCandidate, controlVars
<1>5. \A x \in P : \/ dirs[x.dir].capped \/ OverBudget(dirs[x.dir])
                   \/ x.name \in Lost(x.dir, excludes)
  BY <1>1 DEF Live, Discarded, Lost, IsExcluded, UrlOf, IInv, Tree, TreeOK, Candidate
<1>6. /\ DOMAIN D = DOMAIN dirs
      /\ \A d \in DOMAIN dirs : D[d] = Account(dirs[d], Cardinality(Under(d, P)))
  BY DEF AccountFor
<1>7. ~OverBudget(D[c.dir])
  <2>1. c.dir \in DOMAIN dirs /\ dirs[c.dir] \in DirState
    BY DEF IInv, Tree, TreeOK
  <2>2. \A ds \in DirState : \A n : OverBudget(Account(ds, n)) <=> OverBudget(ds)
    BY DEF OverBudget, Account, DirState
  <2> QED BY <1>3, <1>6, <2>1, <2>2
<1> HIDE DEF D
<1>8. /\ TreeOK(D, frontier \ P, realOut, requested, probesOut)
      /\ BooksOK(D, frontier \ P, realOut, requested, staged, excludes)
  <2>1. TreeOK(D, frontier \ P, realOut, requested, probesOut)
    BY <1>2, AccountTree DEF IInv, Tree, D
  <2>2. BooksOK(D, frontier \ P, realOut, requested, staged, excludes)
    BY <1>2, <1>5, AccountBooks DEF IInv, Tree, Books, D
  <2> QED BY <2>1, <2>2
<1>9. BooksOK([D EXCEPT ![c.dir].requestsDispatched = @ + 1], (frontier \ P) \ {c},
              realOut \cup {c}, requested \cup {c}, staged, excludes)
  BY <1>3, <1>7, <1>8, DispatchBooks
<1>10. DOMAIN dirs' = DOMAIN dirs
  BY <1>4, <1>6
<1> QED BY <1>4, <1>9, <1>10 DEF Books, Housed

\* So does popping the whole frontier in vain.
LEMMA DiscardFrontierBooks ==
  ASSUME IInv, Books, DiscardFrontier
  PROVE  Books'
<1>1. \A x \in frontier : Scanning(x)
  BY QueuedIsScanning DEF IInv
<1>2. {x \in frontier : Scanning(x)} = frontier
  BY <1>1
<1>3. /\ frontier' = frontier \ frontier /\ dirs' = AccountFor(dirs, frontier)
      /\ realOut' = realOut /\ requested' = requested /\ staged' = staged
      /\ excludes' = excludes
  BY <1>2 DEF DiscardFrontier, outVars, controlVars
<1>4. \A x \in frontier : \/ dirs[x.dir].capped \/ OverBudget(dirs[x.dir])
                          \/ x.name \in Lost(x.dir, excludes)
  BY <1>1 DEF DiscardFrontier, Live, Discarded, Lost, IsExcluded, UrlOf, IInv, Tree, TreeOK,
              Candidate
<1>5. BooksOK(AccountFor(dirs, frontier), frontier \ frontier, realOut, requested, staged,
              excludes)
  BY <1>4, AccountBooks DEF IInv, Tree, Books
<1>6. DOMAIN dirs' = DOMAIN dirs
  BY <1>3 DEF AccountFor
<1> QED BY <1>3, <1>5, <1>6 DEF Books, Housed

\* So does the sweep of a new exclude: what it removes is excluded from now on.
LEMMA ExcludeBooks ==
  ASSUME IInv, Books, NEW pat, Exclude(pat)
  PROVE  Books'
<1> DEFINE swept == {c \in frontier : Matches(pat, c.dir, c.name)}
           e == excludes \cup {pat}
<1>1. /\ frontier' = frontier \ swept /\ dirs' = AccountFor(dirs, swept)
      /\ realOut' = realOut /\ requested' = requested /\ staged' = staged
      /\ excludes' = e /\ swept \subseteq frontier
  BY DEF Exclude, outVars
<1>2. \A d : Lost(d, excludes) \subseteq Lost(d, e)
  BY DEF Lost
<1>3. \A c \in swept : c.name \in Lost(c.dir, e)
  BY DEF Lost, IInv, Tree, TreeOK, Candidate
<1> HIDE DEF swept, e
<1>4. BooksOK(dirs, frontier, realOut, requested, staged, e)
  <2> SUFFICES ASSUME NEW d \in DOMAIN dirs
               PROVE  Book(d, dirs[d], Under(d, frontier), Under(d, realOut),
                           Under(d, requested), Lost(d, e), Names(Under(d, staged)))
    BY DEF BooksOK
  <2>1. Book(d, dirs[d], Under(d, frontier), Under(d, realOut), Under(d, requested),
             Lost(d, excludes), Names(Under(d, staged)))
    BY DEF Books, BooksOK
  <2> QED BY <1>2, <2>1, BookSame
<1>5. BooksOK(AccountFor(dirs, swept), frontier \ swept, realOut, requested, staged, e)
  BY <1>1, <1>3, <1>4, AccountBooks DEF IInv, Tree
<1>6. DOMAIN dirs' = DOMAIN dirs
  BY <1>1 DEF AccountFor
<1> QED BY <1>1, <1>5, <1>6 DEF Books, Housed

\* So does a request that failed.
LEMMA RealErrorBooks ==
  ASSUME IInv, Books, NEW c \in realOut, RealError(c)
  PROVE  Books'
<1>1. /\ frontier' = frontier /\ dirs' = AccountFor(dirs, {c}) /\ realOut' = realOut \ {c}
      /\ requested' = requested /\ staged' = staged /\ excludes' = excludes
      /\ {c} \subseteq realOut
  BY DEF RealError, controlVars
<1>2. BooksOK(AccountFor(dirs, {c}), frontier, realOut \ {c}, requested, staged, excludes)
  BY <1>1, AccountBooks DEF IInv, Tree, Books
<1>3. DOMAIN dirs' = DOMAIN dirs
  BY <1>1 DEF AccountFor
<1> QED BY <1>1, <1>2, <1>3 DEF Books, Housed

\* collectProbe and finishCalibration: the book of a calibrated directory opens
\* with what was held back for it; a root that starts over forgets its seeds.
LEMMA ProbeResultBooks ==
  ASSUME IInv, Books, NEW p \in probesOut, NEW grow \in May("grow"), NEW spa \in BOOLEAN,
         NEW k \in 0..NProbes, ProbeResult(p, grow, spa, k)
  PROVE  Books'
<1> DEFINE d == p.dir
           old == dirs[d]
           ds == [old EXCEPT !.probesDone = old.probesDone + 1]
           X == Lost(d, excludes)
           S == Names(Under(d, staged))
<1>1. /\ d \in DOMAIN dirs /\ d \in Dir /\ old \in DirState
      /\ Tally(old, Under(d, frontier), Under(d, realOut), Under(d, requested))
      /\ ProbeTally(old, Under(d, probesOut)) /\ p \in Under(d, probesOut)
  BY DEF IInv, Tree, TreeOK, Under
<1>2. Book(d, old, Under(d, frontier), Under(d, realOut), Under(d, requested), X, S)
  BY <1>1 DEF Books, BooksOK
<1>3. /\ ds \in DirState /\ ds.state = old.state /\ ds.pendingSeeds = old.pendingSeeds
      /\ ds.knownPaths = old.knownPaths /\ ds.candidatesTotal = old.candidatesTotal
      /\ ds.candidatesAccountedFor = old.candidatesAccountedFor
      /\ ds.requestsDispatched = old.requestsDispatched /\ ds.budget = old.budget
      /\ old.capped => ds.capped
  BY <1>1 DEF DirState
<1>4. [dirs[d] EXCEPT !.probesDone = @ + 1] = ds
  OBVIOUS
<1>5. /\ realOut' = realOut /\ requested' = requested /\ staged' = staged
      /\ excludes' = excludes
  BY DEF ProbeResult, controlVars
<1> HIDE DEF S, X
<1>6. Book(d, ds, Under(d, frontier), Under(d, realOut), Under(d, requested), X, S)
  <2> HIDE DEF ds, old, d
  <2>1. X \subseteq X
    OBVIOUS
  <2> QED BY <1>2, <1>3, <2>1, BookSame
<1>7. CASE ~(ds.probesDone >= ds.probesTotal)
  <2>1. dirs' = [dirs EXCEPT ![d] = ds] /\ frontier' = frontier
    BY <1>4, <1>7 DEF ProbeResult
  <2> HIDE DEF ds, d
  <2>2. BooksOK([dirs EXCEPT ![d] = ds], frontier, realOut, requested, staged, excludes)
    BY <1>1, <1>6, UpdateBooks DEF Books, X, S
  <2>3. DOMAIN dirs' = DOMAIN dirs
    BY <2>1
  <2> QED BY <1>5, <2>1, <2>2, <2>3 DEF Books, Housed
<1>8. CASE ds.probesDone >= ds.probesTotal
  <2> DEFINE refine == d = Root /\ ~rootRefined
             src == IF refine /\ grow THEN Calibrating(k) ELSE ds
             F2 == frontier \cup EnteredPush(d, src)
  <2>1. dirs' = [dirs EXCEPT ![d] = Entered(d, src)] /\ frontier' = F2
    <3>1. FinishCalibration(d, ds, grow, spa, k)
      BY <1>4, <1>8 DEF ProbeResult
    <3> QED BY <3>1 DEF FinishCalibration
  <2> HIDE DEF refine
  <2>2. /\ old.state = "calibrating" /\ Unpushed(ds)
        /\ Under(d, frontier) = {} /\ Under(d, realOut) = {} /\ Under(d, requested) = {}
    <3>1. old.state = "calibrating"
      BY <1>1 DEF ProbeTally
    <3> HIDE DEF ds, old, d
    <3> QED BY <1>1, <1>3, <3>1 DEF Tally, Sound, Unpushed
  <2>3. /\ Book(d, Entered(d, src), EnteredPush(d, src), {}, {}, X, S)
        /\ \A c \in EnteredPush(d, src) : c.dir = d
    <3>1. CASE refine /\ grow
      <4>1. src = Calibrating(k) /\ "grow" \in Events
        BY <3>1 DEF May
      <4> HIDE DEF src, d
      <4>2. Book(d, Entered(d, Calibrating(k)), EnteredPush(d, Calibrating(k)), {}, {}, X, S)
        BY <1>1, <4>1, StartBook
      <4>3. \A c \in EnteredPush(d, Calibrating(k)) : c.dir = d
        BY <1>1, StartOK
      <4> QED BY <4>1, <4>2, <4>3
    <3>2. CASE ~(refine /\ grow)
      <4>1. src = ds
        BY <3>2
      <4> HIDE DEF src, d, ds, old
      <4>2. /\ ds.state = "calibrating" /\ ds.knownPaths = {} /\ ds.budget = 0
            /\ ds.candidatesTotal = 0 /\ ds.requestsDispatched = 0 /\ Kept(ds, S)
        BY <1>3, <1>6, <2>2, FS_EmptySet DEF Book, Spending
      <4>3. Book(d, Entered(d, ds), EnteredPush(d, ds), {}, {}, X, S)
        BY <1>1, <2>2, <4>2, EnteredBook
      <4>4. \A c \in EnteredPush(d, ds) : c.dir = d
        <5>1. \A n : Cand(d, n).dir = d /\ NmapCand(d, n).dir = d
          BY DEF Cand, NmapCand
        <5> QED BY <5>1 DEF EnteredPush, Pushed
      <4> QED BY <4>1, <4>3, <4>4
    <3> QED BY <3>1, <3>2
  <2>4. Under(d, F2) = EnteredPush(d, src)
    BY <2>2, <2>3 DEF Under
  <2>5. \A c : c.dir # d => /\ c \in F2 <=> c \in frontier
                            /\ c \in realOut <=> c \in realOut
                            /\ c \in requested <=> c \in requested
    BY <2>3
  <2>6. Book(d, Entered(d, src), Under(d, F2), Under(d, realOut), Under(d, requested), X, S)
    BY <2>2, <2>3, <2>4
  <2> HIDE DEF F2, src, d
  <2>7. BooksOK([dirs EXCEPT ![d] = Entered(d, src)], F2, realOut, requested, staged, excludes)
    BY <1>1, <2>5, <2>6, UpdateBooks DEF Books, X, S
  <2>8. DOMAIN dirs' = DOMAIN dirs
    BY <2>1
  <2> QED BY <1>5, <2>1, <2>7, <2>8 DEF Books, Housed
<1> QED BY <1>7, <1>8

\* The record and the book of a directory whose candidate c is in flight, once
\* its result was timed.
LEMMA SlowedBook ==
  ASSUME IInv, Books, NEW c \in realOut, NEW slow \in BOOLEAN
  PROVE  LET d == c.dir
             ds == Slowed(dirs[d], slow)
         IN  /\ ds \in DirState /\ ProbeTally(ds, Under(d, probesOut))
             /\ Tally(ds, Under(d, frontier), Under(d, realOut), Under(d, requested))
             /\ Book(d, ds, Under(d, frontier), Under(d, realOut), Under(d, requested),
                     Lost(d, excludes), Names(Under(d, staged)))
<1> DEFINE d == c.dir
           old == dirs[d]
           ds == Slowed(old, slow)
<1>1. /\ d \in DOMAIN dirs /\ old \in DirState /\ ProbeTally(old, Under(d, probesOut))
      /\ Tally(old, Under(d, frontier), Under(d, realOut), Under(d, requested))
  BY InFlightRecord DEF IInv
<1>2. Book(d, old, Under(d, frontier), Under(d, realOut), Under(d, requested),
           Lost(d, excludes), Names(Under(d, staged)))
  BY <1>1 DEF Books, BooksOK
<1> HIDE DEF d, old
<1>3. /\ ds \in DirState /\ ProbeTally(ds, Under(d, probesOut))
      /\ Tally(ds, Under(d, frontier), Under(d, realOut), Under(d, requested))
  BY <1>1, FlagsOK
<1>4. /\ ds.state = old.state /\ ds.pendingSeeds = old.pendingSeeds
      /\ ds.knownPaths = old.knownPaths /\ ds.candidatesTotal = old.candidatesTotal
      /\ ds.candidatesAccountedFor = old.candidatesAccountedFor
      /\ ds.requestsDispatched = old.requestsDispatched /\ ds.budget = old.budget
      /\ old.capped => ds.capped
  BY <1>1 DEF Slowed, DirState
<1> HIDE DEF ds
<1>5. Book(d, ds, Under(d, frontier), Under(d, realOut), Under(d, requested),
           Lost(d, excludes), Names(Under(d, staged)))
  <2>1. Lost(d, excludes) \subseteq Lost(d, excludes)
    OBVIOUS
  <2> QED BY <1>2, <1>4, <2>1, BookSame
<1> QED BY <1>3, <1>5 DEF d, old, ds

\* The result of candidate c leaves its directory with record new and queues G.
LEMMA ResultBooks ==
  ASSUME IInv, Books, NEW c \in realOut, NEW new, NEW G, \A g \in G : g.dir = c.dir,
         Book(c.dir, new, Under(c.dir, frontier) \cup G, Under(c.dir, realOut) \ {c},
              Under(c.dir, requested), Lost(c.dir, excludes), Names(Under(c.dir, staged)))
  PROVE  BooksOK([dirs EXCEPT ![c.dir] = new], frontier \cup G, realOut \ {c}, requested,
                 staged, excludes)
<1> DEFINE d == c.dir
           F2 == frontier \cup G
           R2 == realOut \ {c}
<1>1. d \in DOMAIN dirs
  BY InFlightRecord DEF IInv
<1>2. \A x : x.dir # d => /\ x \in F2 <=> x \in frontier
                          /\ x \in R2 <=> x \in realOut
                          /\ x \in requested <=> x \in requested
  OBVIOUS
<1>3. Under(d, F2) = Under(d, frontier) \cup G /\ Under(d, R2) = Under(d, realOut) \ {c}
  BY DEF Under
<1>4. Book(d, new, Under(d, F2), Under(d, R2), Under(d, requested), Lost(d, excludes),
           Names(Under(d, staged)))
  BY <1>3
<1> HIDE DEF d, F2, R2
<1>5. BooksOK([dirs EXCEPT ![d] = new], F2, R2, requested, staged, excludes)
  BY <1>1, <1>2, <1>4, UpdateBooks DEF Books
<1> QED BY <1>5 DEF d, F2, R2

\* A miss or an alias keeps the books.
LEMMA RealPlainBooks ==
  ASSUME IInv, Books, NEW c \in realOut, NEW slow \in BOOLEAN, NEW wild \in BOOLEAN, NEW body,
         RealPlain(c, slow, wild, body)
  PROVE  Books'
<1> DEFINE d == c.dir
           ds == Slowed(dirs[d], slow)
           new == Settle(ds, wild)
           X == Lost(d, excludes)
           S == Names(Under(d, staged))
<1>1. /\ ds \in DirState /\ ProbeTally(ds, Under(d, probesOut))
      /\ Tally(ds, Under(d, frontier), Under(d, realOut), Under(d, requested))
      /\ Book(d, ds, Under(d, frontier), Under(d, realOut), Under(d, requested), X, S)
  BY SlowedBook
<1>2. c \in Under(d, realOut)
  BY DEF Under
<1>3. /\ dirs' = [dirs EXCEPT ![d] = new] /\ frontier' = frontier /\ realOut' = realOut \ {c}
      /\ requested' = requested /\ staged' = staged /\ excludes' = excludes
  BY DEF RealPlain, controlVars
<1> HIDE DEF ds, X, S
<1>4. Book(d, new, Under(d, frontier), Under(d, realOut) \ {c}, Under(d, requested), X, S)
  <2> HIDE DEF d
  <2> QED BY <1>1, <1>2, SettleBook
<1>5. Book(d, new, Under(d, frontier) \cup {}, Under(d, realOut) \ {c}, Under(d, requested),
           X, S)
  <2>1. Under(d, frontier) \cup {} = Under(d, frontier)
    OBVIOUS
  <2> HIDE DEF d, new
  <2> QED BY <1>4, <2>1
<1> HIDE DEF new
<1>6. BooksOK([dirs EXCEPT ![d] = new], frontier \cup {}, realOut \ {c}, requested, staged,
              excludes)
  BY <1>5, ResultBooks DEF X, S
<1>7. frontier \cup {} = frontier /\ DOMAIN dirs' = DOMAIN dirs
  BY <1>3
<1> QED BY <1>3, <1>6, <1>7 DEF Books, Housed

\* So does a finding, whatever it teaches and whether it opens a directory.
LEMMA RealFindingBooks ==
  ASSUME IInv, Books, NEW c \in realOut, NEW hash, NEW slow \in BOOLEAN, NEW wild \in BOOLEAN,
         NEW body, NEW learn \in BOOLEAN, NEW child \in BOOLEAN, NEW k \in 0..NProbes,
         RealFinding(c, hash, slow, wild, body, learn, child, k)
  PROVE  Books'
<1> DEFINE d == c.dir
           ds == Slowed(dirs[d], slow)
           gens == IF learn /\ ~ds.wildcardSuspect THEN Generate[c.name] ELSE {}
           G == GeneratedPush(d, ds, gens)
           grown == EnqueueGenerated(ds, gens)
           new == Settle(grown, wild)
           sub == UrlOf(c)
           recurse == child /\ ~c.nmap /\ WithinLimits(c, ds) /\ sub \notin DOMAIN dirs
           W == IF recurse THEN {sub} ELSE {}
           probes == [x \in W |-> k]
           E == [dirs EXCEPT ![d] = new]
           F == Under(d, frontier)
           R == Under(d, realOut)
           Q == Under(d, requested)
           out == Under(d, probesOut)
           X == Lost(d, excludes)
           S == Names(Under(d, staged))
<1>1. d \in DOMAIN dirs /\ d \in Dir /\ c \in R /\ c \in Candidate
  BY InFlightRecord DEF IInv
<1>2. ds \in DirState /\ Tally(ds, F, R, Q) /\ ProbeTally(ds, out) /\ Book(d, ds, F, R, Q, X, S)
  BY SlowedBook
<1>3. gens \in SUBSET Name /\ IsFiniteSet(gens)
  <2>1. c.name \in Name
    BY <1>1 DEF Candidate
  <2> QED BY <2>1, ConstantsAssumption, FS_EmptySet
<1>4. /\ dirs' = [x \in DOMAIN dirs \cup W |->
                    IF x = d THEN new
                    ELSE IF x \in DOMAIN dirs THEN dirs[x] ELSE Entered(x, Calibrating(k))]
      /\ frontier' = frontier \cup G
                       \cup (IF recurse THEN EnteredPush(sub, Calibrating(k)) ELSE {})
      /\ realOut' = realOut \ {c} /\ requested' = requested /\ staged' = staged
      /\ excludes' = excludes
  BY DEF RealFinding, controlVars
<1>5. W \in SUBSET Dir /\ W \cap DOMAIN dirs = {} /\ probes \in [W -> 0..NProbes]
  <2>1. sub \in Dir
    BY <1>1 DEF UrlOf, Candidate, Dir
  <2> QED BY <2>1
<1>6. (IF recurse THEN EnteredPush(sub, Calibrating(k)) ELSE {})
        = UNION {EnteredPush(x, Calibrating(probes[x])) : x \in W}
  <2> HIDE DEF sub
  <2> QED OBVIOUS
<1> HIDE DEF ds, gens, recurse, sub, F, R, Q, out, X, S
<1>7. /\ ds.state = "scanning" /\ ds.candidatesAccountedFor # ds.candidatesTotal
      /\ ds.probeQueue = {} /\ out = {} /\ Sound(ds, F, R, Q) /\ Balanced(ds, F, R)
  <2>1. F \cup R # {}
    BY <1>1
  <2> QED BY <1>2, <2>1, BusyIsScanning
<1>8. /\ grown \in DirState /\ grown.state = "scanning" /\ grown.probeQueue = ds.probeQueue
      /\ \A g \in G : g.dir = d
      /\ Tally(grown, F \cup G, R, Q) /\ Book(d, grown, F \cup G, R, Q, X, S)
  <2> HIDE DEF d
  <2>1. /\ d \in Dir /\ ds \in DirState /\ ds.state = "scanning"
        /\ Sound(ds, F, R, Q) /\ Balanced(ds, F, R)
        /\ gens \in SUBSET Name /\ IsFiniteSet(gens)
        /\ ds.candidatesAccountedFor # ds.candidatesTotal \/ ~(gens \subseteq ds.knownPaths)
    BY <1>1, <1>2, <1>3, <1>7
  <2>2. /\ grown \in DirState /\ grown.state = "scanning" /\ grown.probeQueue = ds.probeQueue
        /\ \A g \in G : g.dir = d /\ Tally(grown, F \cup G, R, Q)
        /\ Tally(grown, F \cup G, R, Q)
    BY <2>1, GeneratedOK
  <2>3. Book(d, grown, F \cup G, R, Q, X, S \cup {})
    <3>1. {} \subseteq gens
      OBVIOUS
    <3> QED BY <1>2, <2>1, <3>1, GeneratedBook
  <2>4. S \cup {} = S
    OBVIOUS
  <2> HIDE DEF grown, G
  <2> QED BY <2>2, <2>3, <2>4
<1> HIDE DEF grown, G
<1>9. ProbeTally(grown, out)
  BY <1>7, <1>8 DEF ProbeTally
<1>10. Book(d, new, F \cup G, R \ {c}, Q, X, S)
  <2> HIDE DEF d
  <2> QED BY <1>1, <1>8, <1>9, SettleBook
<1> HIDE DEF new
<1>11. BooksOK(E, frontier \cup G, realOut \ {c}, requested, staged, excludes)
  BY <1>8, <1>10, ResultBooks DEF F, R, Q, X, S
<1>12. DOMAIN E = DOMAIN dirs /\ E[d] = new /\ \A x \in DOMAIN dirs : x # d => E[x] = dirs[x]
  BY <1>1
<1> HIDE DEF E, W, probes, d
<1>13. /\ Housed(E, frontier \cup G) /\ Housed(E, realOut \ {c}) /\ Housed(E, requested)
       /\ Housed(E, staged)
  BY <1>1, <1>8, <1>12 DEF Housed, Books, IInv, Tree, TreeOK
<1>14. BooksOK([x \in DOMAIN E \cup W |->
                  IF x \in DOMAIN E THEN E[x] ELSE Entered(x, Calibrating(probes[x]))],
               (frontier \cup G) \cup (UNION {EnteredPush(x, Calibrating(probes[x])) : x \in W}),
               realOut \ {c}, requested, staged, excludes)
  BY <1>5, <1>11, <1>12, <1>13, GrowBooks
<1>15. \A x \in W : probes[x] = k
  BY DEF probes
<1>16. dirs' = [x \in DOMAIN E \cup W |->
                  IF x \in DOMAIN E THEN E[x] ELSE Entered(x, Calibrating(probes[x]))]
  BY <1>1, <1>4, <1>12, <1>15
<1>17. Housed(dirs', staged')
  <2>1. DOMAIN dirs \subseteq DOMAIN dirs'
    BY <1>4
  <2> QED BY <1>4, <2>1 DEF Books, Housed
<1> QED BY <1>4, <1>6, <1>14, <1>16, <1>17 DEF Books

\* Steps that leave the tree and its history alone.
LEMMA QuietBooks ==
  ASSUME Books, UNCHANGED <<treeVars, realOut, requested, staged, excludes>>
  PROVE  Books'
BY DEF treeVars, Books, BooksOK, Housed

\* Every step keeps the books.
LEMMA StepBooks ==
  ASSUME IInv, Books, [Next]_vars
  PROVE  Books'
<1> USE DEF vars, outVars, controlVars
<1>1. CASE Seeding
  <2>1. ASSUME NEW k \in 0..NProbes, NEW again \in 0..NProbes, NEW grow \in May("grow"),
               SeedRoot(k, grow, again)
        PROVE  Books'
    <3>1. grow \in BOOLEAN
      BY OutcomeTypes
    <3> QED BY <2>1, <3>1, SeedRootBooks
  <2>2. ASSUME NEW B \in SUBSET SeedPaths, NEW n, SeedPassive(B, n) PROVE Books'
    <3>1. AcceptedSeeds(B, FALSE) \in SUBSET SeedPaths
      BY DEF AcceptedSeeds
    <3> QED BY <2>2, <3>1, SeedsBooks DEF SeedPassive
  <2> QED BY <1>1, <2>1, <2>2 DEF Seeding
<1>2. CASE Dispatching
  <2>1. ASSUME NEW u, DispatchHarvestFetch(u) PROVE Books'
    BY <2>1, QuietBooks DEF DispatchHarvestFetch
  <2> QED BY <1>2, <2>1, DispatchProbeBooks, DispatchCandidateBooks, DiscardFrontierBooks
          DEF Dispatching
<1>3. CASE Results
  <2>1. ASSUME NEW p \in probesOut, NEW grow \in May("grow"), NEW spa \in May("spa"),
               NEW k \in 0..NProbes, ProbeResult(p, grow, spa, k)
        PROVE  Books'
    <3>1. spa \in BOOLEAN
      BY OutcomeTypes
    <3> QED BY <2>1, <3>1, ProbeResultBooks
  <2>2. ASSUME NEW u \in fetchesOut, NEW body \in Body, HarvestFetchResult(u, body)
        PROVE  Books'
    BY <2>2, QuietBooks DEF HarvestFetchResult
  <2>3. ASSUME NEW c \in realOut, NEW slow \in May("tarpit"), NEW wild \in May("wildcard"),
               NEW body \in Body, RealPlain(c, slow, wild, body)
        PROVE  Books'
    <3>1. slow \in BOOLEAN /\ wild \in BOOLEAN
      BY OutcomeTypes
    <3> QED BY <2>3, <3>1, RealPlainBooks
  <2>4. ASSUME NEW c \in realOut, NEW hash \in Hash, NEW slow \in May("tarpit"),
               NEW wild \in May("wildcard"), NEW body \in Body, NEW learn \in BOOLEAN,
               NEW child \in BOOLEAN, NEW k \in 0..NProbes,
               RealFinding(c, hash, slow, wild, body, learn, child, k)
        PROVE  Books'
    <3>1. slow \in BOOLEAN /\ wild \in BOOLEAN
      BY OutcomeTypes
    <3> QED BY <2>4, <3>1, RealFindingBooks
  <2>5. ASSUME NEW c \in realOut, RealError(c) PROVE Books'
    BY <2>5, RealErrorBooks
  <2> QED BY <1>3, <2>1, <2>2, <2>3, <2>4, <2>5 DEF Results
<1>4. CASE Producers
  <2>1. ASSUME NEW B \in SUBSET SeedPaths, NEW harvested \in BOOLEAN,
               ApplySeedBatch(B, harvested)
        PROVE  Books'
    <3>1. PICK capped \in CapBatch(B) :
            \E probes \in ProbeCounts(AcceptedSeeds(capped, harvested)) :
              EnqueueSeeds(AcceptedSeeds(capped, harvested), probes)
      BY <2>1 DEF ApplySeedBatch
    <3>2. AcceptedSeeds(capped, harvested) \in SUBSET SeedPaths
      BY DEF AcceptedSeeds, CapBatch
    <3>3. realOut' = realOut /\ requested' = requested /\ excludes' = excludes
      BY <2>1 DEF ApplySeedBatch
    <3> QED BY <3>1, <3>2, <3>3, SeedsBooks
  <2>2. ASSUME NEW u, EnqueueHarvestFetch(u) PROVE Books'
    BY <2>2, QuietBooks DEF EnqueueHarvestFetch
  <2>3. ASSUME ProducerExit PROVE Books'
    BY <2>3, QuietBooks DEF ProducerExit
  <2> QED BY <1>4, <2>1, <2>2, <2>3 DEF Producers
<1>5. CASE Control
  <2>1. ASSUME Pause \/ Resume \/ Stop \/ \E n \in Concurrency : AdjustConcurrency(n)
        PROVE  Books'
    BY <2>1, QuietBooks DEF Pause, Resume, Stop, AdjustConcurrency
  <2>2. ASSUME NEW p \in SeedPaths, Inject(p) PROVE Books'
    <3>1. AcceptedSeeds({p}, FALSE) \in SUBSET SeedPaths
      BY DEF AcceptedSeeds
    <3> QED BY <2>2, <3>1, SeedsBooks DEF Inject
  <2> QED BY <1>5, <2>1, <2>2, ExcludeBooks DEF Control
<1>6. CASE ContextDone \/ Tick \/ UNCHANGED vars
  BY <1>6, QuietBooks DEF ContextDone, Tick
<1> QED BY <1>1, <1>2, <1>3, <1>4, <1>5, <1>6 DEF Next

\* The loop reports the end of the scan only with an empty frontier, and nothing
\* is queued after it.
Closed == phase = "finished" => frontier = {}

\* Every step keeps it so.
LEMMA StepClosed ==
  ASSUME Closed, [Next]_vars
  PROVE  Closed'
<1>1. EndIteration => Closed'
  BY DEF EndIteration, Complete, Closed
<1>2. CASE Seeding
  BY <1>2 DEF Seeding, SeedRoot, SeedPassive, Closed
<1>3. CASE Dispatching
  BY <1>1, <1>3 DEF Dispatching, DispatchProbe, DispatchHarvestFetch, DispatchCandidate,
                    DiscardFrontier
<1>4. CASE Results
  <2>1. \A p, grow, spa, k : ProbeResult(p, grow, spa, k) => EndIteration
    BY DEF ProbeResult
  <2>2. \A u, body : HarvestFetchResult(u, body) => EndIteration
    BY DEF HarvestFetchResult
  <2>3. \A c : RealError(c) => EndIteration
    BY DEF RealError
  <2>4. \A c, slow, wild, body : RealPlain(c, slow, wild, body) => EndIteration
    BY DEF RealPlain
  <2>5. \A c, hash, slow, wild, body, learn, child, k :
          RealFinding(c, hash, slow, wild, body, learn, child, k) => EndIteration
    BY DEF RealFinding
  <2> HIDE DEF EndIteration
  <2> QED BY <1>1, <1>4, <2>1, <2>2, <2>3, <2>4, <2>5 DEF Results
<1>5. CASE Producers
  BY <1>1, <1>5 DEF Producers, ApplySeedBatch, EnqueueHarvestFetch, ProducerExit, Closed,
                    treeVars
<1>6. CASE Control
  BY <1>1, <1>6 DEF Control, Pause, Resume, Stop, AdjustConcurrency, Exclude, Inject
<1>7. CASE ContextDone \/ Tick \/ UNCHANGED vars
  BY <1>1, <1>7 DEF ContextDone, Tick, Closed, vars, treeVars
<1> QED BY <1>2, <1>3, <1>4, <1>5, <1>6, <1>7 DEF Next

\* The books are in order in every reachable state.
THEOREM BooksKept == Spec => [](Books /\ Closed)
<1>1. Init => Books /\ Closed
  BY DEF Init, Books, BooksOK, Housed, Closed
<1>2. IInv /\ (Books /\ Closed) /\ [Next]_vars => (Books /\ Closed)'
  BY StepBooks, StepClosed
<1> QED BY <1>1, <1>2, Invariance, PTL DEF Spec

\* The books bound what a directory spends.
LEMMA BudgetsHold == IInv /\ Books => BudgetRespected
<1> SUFFICES ASSUME IInv, Books, PerDirBudget > 0, NEW d \in DOMAIN dirs
             PROVE  Cardinality(Under(d, requested)) <=
                      PerDirBudget + Cardinality(dirs[d].knownPaths \ Template)
                                   + Cardinality(NmapAt(d))
  BY DEF BudgetRespected
<1>1. Spending(d, dirs[d], Under(d, realOut), Under(d, requested))
  BY DEF Books, BooksOK, Book
<1>2. dirs[d].budget \in Nat
  BY DEF IInv, Tree, TreeOK, DirState
<1>3. IsFiniteSet(dirs[d].knownPaths \ Template) /\ IsFiniteSet(NmapAt(d))
  BY <1>1, FS_Difference, FS_EmptySet, ConstantsAssumption DEF Spending, NmapAt
<1>4. /\ Cardinality(dirs[d].knownPaths \ Template) \in Nat /\ Cardinality(NmapAt(d)) \in Nat
      /\ Cardinality(Under(d, requested)) \in Nat /\ PerDirBudget \in Nat
  BY <1>1, <1>3, FS_CardinalityType, ConstantsAssumption DEF Spending
<1> QED BY <1>1, <1>2, <1>4 DEF Spending

\* PER_DIR_BUDGET bounds the requests a directory gets, also when it is reopened,
\* learns new names, or is swept: only paths from outside the template, and nmap's,
\* are paid for on top.
THEOREM BudgetsRespected == Spec => []BudgetRespected
BY BudgetsHold, BooksKept, Invariance, PTL

\* The books of a finished scan are closed.
LEMMA FinishedHolds == IInv /\ Books /\ Closed => FinishedComplete
<1> SUFFICES ASSUME IInv, Books, Closed, phase = "finished", NEW d \in DOMAIN dirs,
                    NEW n \in dirs[d].knownPaths
             PROVE  \/ \E c \in requested : c.dir = d /\ c.name = n
                    \/ dirs[d].capped \/ BudgetSpent(dirs[d])
                    \/ Append(d, n) \in OutOfScope \/ IsExcluded(d, n)
  BY DEF FinishedComplete
<1>1. Pursued(dirs[d], Under(d, frontier), Under(d, requested), Lost(d, excludes))
  BY DEF Books, BooksOK, Book
<1>2. Names(Under(d, frontier)) = {}
  BY DEF Closed, Under, Names
<1> QED BY <1>1, <1>2 DEF Pursued, Names, Under, Lost, IsExcluded

\* A scan that reports itself finished requested every path it ever learned of,
\* unless the tarpit cap, a budget it used up, the scope or an exclude removed it.
THEOREM FinishedScansAreComplete == Spec => []FinishedComplete
BY FinishedHolds, BooksKept, Invariance, PTL

\* A seed that the tree accepted stays with its directory, whenever it arrives,
\* as long as no refinement makes the root start over.
THEOREM SeedsAreKept ==
  ASSUME "grow" \notin Events
  PROVE  Spec => []SeedsKept
<1>1. Books => SeedsKept
  <2> SUFFICES ASSUME Books, NEW s \in staged
               PROVE  /\ s.dir \in DOMAIN dirs
                      /\ s.name \in dirs[s.dir].pendingSeeds \cup dirs[s.dir].knownPaths
    BY DEF SeedsKept
  <2>1. s.dir \in DOMAIN dirs
    BY DEF Books, Housed
  <2>2. Kept(dirs[s.dir], Names(Under(s.dir, staged)))
    BY <2>1 DEF Books, BooksOK, Book
  <2>3. s.name \in Names(Under(s.dir, staged))
    BY DEF Names, Under
  <2> QED BY <2>1, <2>2, <2>3 DEF Kept
<1> QED BY <1>1, BooksKept, PTL

=============================================================================
