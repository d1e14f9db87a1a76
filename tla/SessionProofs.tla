--------------------------- MODULE SessionProofs ---------------------------
(***************************************************************************)
(* Proofs about saving and resuming: a scan that is saved while nothing is *)
(* under way keeps its books through any number of resumptions, for every  *)
(* value of the constants.                                                 *)
(***************************************************************************)
EXTENDS Session, CoordinatorSafetyProofs

\* A session file that a scan can be continued from: nothing was in flight, no
\* exclude was in force and no seed was held back.
SnapshotOK(s) ==
  /\ TreeOK(s.dirs, s.frontier, {}, s.requested, {})
  /\ BooksOK(s.dirs, s.frontier, {}, s.requested, s.staged, {})
  /\ Housed(s.dirs, s.staged)
  /\ \A d \in DOMAIN s.dirs : s.dirs[d].pendingSeeds = {}
  /\ \A d \in DOMAIN s.dirs : Shallow(d)
  /\ s.staged \subseteq Candidate /\ s.crawlVisited \subseteq Url /\ s.mined \subseteq Url
  /\ s.seenContent \subseteq Hash /\ s.rootRefined \in BOOLEAN

ScanInv == IInv /\ Books /\ Closed /\ DepthBound
SavedInv == \A s \in saved : SnapshotOK(s)

-----------------------------------------------------------------------------
(* Saving.                                                                 *)

\* A snapshot of a quiet scan is complete.
LEMMA SnapshotComplete ==
  ASSUME ScanInv, Quiet
  PROVE  SnapshotOK(BuildSnapshot)
<1> DEFINE s == BuildSnapshot
<1>1. /\ s.dirs = dirs /\ s.frontier = frontier /\ s.requested = requested /\ s.staged = staged
      /\ s.crawlVisited = crawlVisited /\ s.mined = mined /\ s.seenContent = seenContent
      /\ s.rootRefined = rootRefined
  BY DEF BuildSnapshot
<1> HIDE DEF s
<1>2. realOut = {} /\ probesOut = {} /\ excludes = {}
      /\ \A d \in DOMAIN dirs : dirs[d].pendingSeeds = {}
  BY DEF Quiet
<1>3. TreeOK(dirs, frontier, {}, requested, {})
  BY <1>2 DEF ScanInv, IInv, Tree
<1>4. BooksOK(dirs, frontier, {}, requested, staged, {}) /\ Housed(dirs, staged)
  BY <1>2 DEF ScanInv, Books
<1>5. \A d \in DOMAIN dirs : Shallow(d)
  BY DEF ScanInv, DepthBound, Shallow
<1>6. /\ staged \subseteq Candidate /\ crawlVisited \subseteq Url /\ mined \subseteq Url
      /\ seenContent \subseteq Hash /\ rootRefined \in BOOLEAN
  BY DEF ScanInv, IInv, OtherTypesOK
<1>7. SnapshotOK(s)
  BY <1>1, <1>2, <1>3, <1>4, <1>5, <1>6 DEF SnapshotOK
<1> QED BY <1>7 DEF s

\* Saving leaves the scan as it is.
LEMMA SaveInv ==
  ASSUME SaveWhen = "quiet", ScanInv, SavedInv, Save
  PROVE  ScanInv' /\ SavedInv'
<1>1. /\ phase = "running" /\ Quiet /\ saved' = {BuildSnapshot} /\ EndIteration
      /\ UNCHANGED <<treeVars, outVars, harvestVars, controlVars, streakVars, seenContent,
                     requested, staged>>
  BY DEF Save
<1>2. SavedInv'
  BY <1>1, SnapshotComplete DEF SavedInv
<1>3. Tick
  BY <1>1 DEF Tick
<1>4. IInv' /\ Books' /\ Closed'
  BY <1>3, StepIInv, StepBooks, StepClosed DEF ScanInv, Next
<1>5. DepthBound'
  BY <1>1 DEF ScanInv, DepthBound, treeVars
<1> QED BY <1>2, <1>4, <1>5 DEF ScanInv

-----------------------------------------------------------------------------
(* Resuming.                                                               *)

\* A restored record has the counters and the paths of the saved one and no probes.
LEMMA RestoredParts ==
  ASSUME NEW ds \in DirState
  PROVE  LET r == Restored(ds)
         IN  /\ r \in DirState /\ r.state = ds.state /\ r.knownPaths = ds.knownPaths
             /\ r.pendingSeeds = {} /\ r.probeQueue = {}
             /\ r.candidatesTotal = ds.candidatesTotal
             /\ r.candidatesAccountedFor = ds.candidatesAccountedFor
             /\ r.requestsDispatched = ds.requestsDispatched /\ r.budget = ds.budget
             /\ r.capped = ds.capped
<1>1. 1..0 = {}
  OBVIOUS
<1>2. /\ Calibrating(0) \in DirState
      /\ Calibrating(0).probeQueue = {} /\ Calibrating(0).pendingSeeds = {}
  BY <1>1 DEF Calibrating, DirState
<1> DEFINE z == Calibrating(0)
<1>3. Restored(ds) =
        [z EXCEPT
           !.state = ds.state, !.knownPaths = ds.knownPaths,
           !.candidatesTotal = ds.candidatesTotal,
           !.candidatesAccountedFor = ds.candidatesAccountedFor,
           !.requestsDispatched = ds.requestsDispatched, !.budget = ds.budget,
           !.capped = ds.capped, !.wildcardSuspect = ds.wildcardSuspect]
  BY DEF Restored
<1> HIDE DEF z
<1> QED BY <1>2, <1>3 DEF DirState, z

\* The directories past their calibration, restored, are in order by themselves.
LEMMA RestoredTree ==
  ASSUME NEW s, SnapshotOK(s),
         NEW redo, redo = {d \in DOMAIN s.dirs : s.dirs[d].state = "calibrating"},
         NEW D, D = [d \in DOMAIN s.dirs \ redo |-> Restored(s.dirs[d])]
  PROVE  /\ TreeOK(D, s.frontier, {}, s.requested, {})
         /\ BooksOK(D, s.frontier, {}, s.requested, s.staged, {})
         /\ \A d \in redo : Under(d, s.staged) = {} \/ "grow" \in Events
<1> DEFINE F == s.frontier
           Q == s.requested
           S == s.staged
           C == s.dirs
<1>1. /\ TreeOK(C, F, {}, Q, {}) /\ BooksOK(C, F, {}, Q, S, {})
      /\ \A d \in DOMAIN C : C[d].pendingSeeds = {}
  BY DEF SnapshotOK
<1>2. /\ DOMAIN D = DOMAIN C \ redo /\ \A d \in DOMAIN D : D[d] = Restored(C[d])
      /\ D = [d \in DOMAIN D |-> D[d]]
      /\ redo = {d \in DOMAIN C : C[d].state = "calibrating"}
  OBVIOUS
<1> HIDE DEF F, Q, S, C
<1>3. \A d \in DOMAIN C :
        /\ C[d] \in DirState /\ d \in Dir
        /\ Tally(C[d], Under(d, F), Under(d, {}), Under(d, Q))
        /\ Book(d, C[d], Under(d, F), Under(d, {}), Under(d, Q), Lost(d, {}), Names(Under(d, S)))
  BY <1>1 DEF TreeOK, BooksOK
<1>4. \A d : Under(d, {}) = {}
  BY DEF Under
<1>5. ASSUME NEW d \in redo PROVE Under(d, F) = {} /\ Under(d, Q) = {}
  BY <1>2, <1>3 DEF Tally
<1>6. \A c \in F \cup Q : c.dir \in DOMAIN D
  BY <1>1, <1>2, <1>5 DEF TreeOK, Under
<1>7. ASSUME NEW d \in DOMAIN D
      PROVE  /\ D[d] \in DirState /\ d \in Dir
             /\ Tally(D[d], Under(d, F), Under(d, {}), Under(d, Q))
             /\ ProbeTally(D[d], Under(d, {}))
             /\ Book(d, D[d], Under(d, F), Under(d, {}), Under(d, Q), Lost(d, {}),
                     Names(Under(d, S)))
  <2> DEFINE ds == C[d]
             r == D[d]
  <2>1. /\ ds \in DirState /\ d \in Dir /\ ds.state # "calibrating" /\ ds.pendingSeeds = {}
        /\ Tally(ds, Under(d, F), Under(d, {}), Under(d, Q))
        /\ Book(d, ds, Under(d, F), Under(d, {}), Under(d, Q), Lost(d, {}), Names(Under(d, S)))
        /\ r = Restored(ds)
    BY <1>1, <1>2, <1>3
  <2> HIDE DEF ds, r
  <2>2. /\ r \in DirState /\ r.state = ds.state /\ r.knownPaths = ds.knownPaths
        /\ r.pendingSeeds = ds.pendingSeeds /\ r.probeQueue = {}
        /\ r.candidatesTotal = ds.candidatesTotal
        /\ r.candidatesAccountedFor = ds.candidatesAccountedFor
        /\ r.requestsDispatched = ds.requestsDispatched /\ r.budget = ds.budget
        /\ r.capped = ds.capped
    BY <2>1, RestoredParts
  <2>3. Tally(r, Under(d, F), Under(d, {}), Under(d, Q))
    BY <2>1, <2>2 DEF Tally, Sound, Balanced
  <2>4. ProbeTally(r, Under(d, {}))
    BY <1>4, <2>1, <2>2 DEF ProbeTally
  <2>5. Book(d, r, Under(d, F), Under(d, {}), Under(d, Q), Lost(d, {}), Names(Under(d, S)))
    BY <2>1, <2>2, BookSame
  <2> QED BY <2>1, <2>2, <2>3, <2>4, <2>5 DEF r
<1>8. TreeOK(D, F, {}, Q, {})
  BY <1>1, <1>2, <1>6, <1>7 DEF TreeOK
<1>9. BooksOK(D, F, {}, Q, S, {})
  BY <1>7 DEF BooksOK
<1>10. ASSUME NEW d \in redo PROVE Under(d, S) = {} \/ "grow" \in Events
  <2>1. /\ C[d].state = "calibrating" /\ C[d].pendingSeeds = {}
        /\ Spending(d, C[d], Under(d, {}), Under(d, Q)) /\ Kept(C[d], Names(Under(d, S)))
    BY <1>1, <1>2, <1>3 DEF Book
  <2>2. Names(Under(d, S)) = {} \/ "grow" \in Events
    BY <2>1 DEF Spending, Kept
  <2> QED BY <2>2 DEF Names
<1> QED BY <1>8, <1>9, <1>10 DEF F, Q, S

\* A resumed scan is in order.
LEMMA RestoreInv ==
  ASSUME SavedInv, NEW s \in saved, NEW grow, NEW again \in 0..NProbes,
         NEW limit \in Concurrency, NEW probes \in [DOMAIN s.dirs -> 0..NProbes],
         RestoreSnapshot(s, probes, grow, again, limit)
  PROVE  ScanInv' /\ SavedInv'
<1> DEFINE redo == {d \in DOMAIN s.dirs : s.dirs[d].state = "calibrating"}
           fresh == [d \in redo |-> Recalibrated(s, d, probes[d], grow, again)]
           count == [d \in redo |-> IF d = Root /\ ~s.rootRefined /\ probes[d] = 0 /\ grow
                                    THEN again ELSE probes[d]]
           D == [d \in DOMAIN s.dirs \ redo |-> Restored(s.dirs[d])]
           F == s.frontier
           Q == s.requested
           S == s.staged
<1>1. SnapshotOK(s)
  BY DEF SavedInv
<1>2. /\ phase' = "running" /\ saved' = saved
      /\ dirs' = [d \in DOMAIN s.dirs |->
                    IF d \in redo THEN Entered(d, fresh[d]) ELSE Restored(s.dirs[d])]
      /\ frontier' = F \cup UNION {EnteredPush(d, fresh[d]) : d \in redo}
      /\ realOut' = {} /\ probesOut' = {} /\ excludes' = {}
      /\ requested' = Q /\ staged' = S
  BY DEF RestoreSnapshot
<1>3. /\ TreeOK(D, F, {}, Q, {}) /\ BooksOK(D, F, {}, Q, S, {})
      /\ \A d \in redo : Under(d, S) = {} \/ "grow" \in Events
  BY <1>1, RestoredTree
<1>4. /\ redo \in SUBSET Dir /\ redo \cap DOMAIN D = {} /\ DOMAIN D \cup redo = DOMAIN s.dirs
      /\ \A d \in redo : d \notin DOMAIN D
      /\ \A d \in DOMAIN s.dirs : d \notin redo => d \in DOMAIN D /\ D[d] = Restored(s.dirs[d])
  BY <1>1 DEF SnapshotOK, TreeOK
<1>5. count \in [redo -> 0..NProbes]
  OBVIOUS
<1>6. \A d \in redo : fresh[d] = Calibrating(count[d])
  BY DEF Recalibrated
<1> HIDE DEF redo, fresh, count, D, F, Q, S
<1> DEFINE E == [d \in DOMAIN D \cup redo |->
                   IF d \in DOMAIN D THEN D[d] ELSE Entered(d, Calibrating(count[d]))]
           G == F \cup UNION {EnteredPush(d, Calibrating(count[d])) : d \in redo}
<1>7. dirs' = E
  BY <1>2, <1>4, <1>6
<1>8. frontier' = G
  <2>1. UNION {EnteredPush(d, fresh[d]) : d \in redo}
          = UNION {EnteredPush(d, Calibrating(count[d])) : d \in redo}
    BY <1>6
  <2> QED BY <1>2, <2>1
<1>9. TreeOK(E, G, {}, Q, {})
  BY <1>3, <1>4, <1>5, GrowTree
<1>10. BooksOK(E, G, {}, Q, S, {})
  <2>1. Housed(D, F) /\ Housed(D, {}) /\ Housed(D, Q)
    BY <1>3 DEF Housed, TreeOK
  <2> QED BY <1>3, <1>4, <1>5, <2>1, RestartBooks
<1>11. DOMAIN E = DOMAIN s.dirs
  BY <1>4
<1> HIDE DEF E, G
<1>12. Tree' /\ Books'
  <2>1. Housed(dirs', staged')
    BY <1>1, <1>2, <1>7, <1>11 DEF SnapshotOK, Housed, S
  <2> QED BY <1>2, <1>7, <1>8, <1>9, <1>10, <2>1 DEF Tree, Books
<1>13. Closed' /\ DepthBound'
  BY <1>1, <1>2, <1>7, <1>11 DEF Closed, DepthBound, SnapshotOK, Shallow
<1>14. OtherTypesOK'
  <2>1. Root \in Dir /\ 0 \in Nat /\ 0 \in 0..SubtreeBurst
    BY ConstantsAssumption DEF Root, Dir
  <2>2. /\ staged' \subseteq Candidate /\ crawlVisited' \subseteq Url /\ mined' \subseteq Url
        /\ seenContent' \subseteq Hash
    BY <1>1 DEF SnapshotOK, RestoreSnapshot
  <2>3. rootRefined' \in BOOLEAN /\ paused' = FALSE /\ cancelled' = FALSE
    BY DEF RestoreSnapshot
  <2>4. /\ harvestQueue' = {} /\ fetchesOut' = {} /\ pendingHarvest' = 0 /\ excludes' = {}
        /\ concurrencyCap' = limit /\ lastDispatchDir' = Root /\ dispatchStreak' = 0
    BY DEF RestoreSnapshot
  <2> QED BY <1>2, <2>1, <2>2, <2>3, <2>4, Zenon DEF OtherTypesOK
<1>15. IInv'
  BY <1>2, <1>12, <1>14 DEF IInv
<1>16. SavedInv'
  BY <1>2 DEF SavedInv
<1> QED BY <1>12, <1>13, <1>15, <1>16 DEF ScanInv

-----------------------------------------------------------------------------
(* The theorems.                                                           *)

\* Every step of a scan that is only saved while it is quiet keeps the invariant.
LEMMA SessionStep ==
  ASSUME SaveWhen = "quiet", ScanInv, SavedInv, [SessionNext]_allVars
  PROVE  ScanInv' /\ SavedInv'
<1>1. ASSUME [Next]_vars, saved' = saved PROVE ScanInv' /\ SavedInv'
  <2>1. IInv' /\ Books' /\ Closed'
    BY <1>1, StepIInv, StepBooks, StepClosed DEF ScanInv
  <2>2. DepthBound'
    BY <1>1, AddedShallow DEF ScanInv, DepthBound, Shallow
  <2>3. SavedInv'
    BY <1>1 DEF SavedInv
  <2> QED BY <2>1, <2>2, <2>3 DEF ScanInv
<1>2. CASE Save
  BY <1>2, SaveInv
<1>3. CASE Resuming
  BY <1>3, RestoreInv DEF Resuming
<1>4. CASE UNCHANGED allVars
  BY <1>1, <1>4 DEF allVars, sessionVars
<1> QED BY <1>1, <1>2, <1>3, <1>4 DEF SessionNext, sessionVars

\* The bookkeeping of a scan survives being saved, killed and resumed, any number of
\* times and from any snapshot of it, as long as it is saved while quiet
\* (buildSnapshot, restoreSnapshot).
THEOREM SessionInvariance ==
  ASSUME SaveWhen = "quiet"
  PROVE  SessionSpec => [](ScanInv /\ SavedInv)
<1>1. SessionInit => ScanInv /\ SavedInv
  <2> SUFFICES ASSUME SessionInit PROVE ScanInv /\ SavedInv
    OBVIOUS
  <2>1. Books /\ Closed /\ DepthBound
    BY DEF SessionInit, Init, Books, BooksOK, Housed, Closed, DepthBound
  <2>2. SavedInv
    BY DEF SessionInit, SavedInv
  <2> QED BY <2>1, <2>2, InitIInv DEF SessionInit, ScanInv
<1>2. (ScanInv /\ SavedInv) /\ [SessionNext]_allVars => (ScanInv /\ SavedInv)'
  BY SessionStep
<1> QED BY <1>1, <1>2, PTL DEF SessionSpec

\* A resumed scan neither strands a directory nor finishes one early, and sends
\* nothing to a directory that starts its calibration again.
THEOREM ResumedAccounting ==
  ASSUME SaveWhen = "quiet"
  PROVE  SessionSpec => [](Accounting /\ CalibrationGates)
<1>1. ScanInv => Accounting /\ CalibrationGates
  BY ExactAccounting, GatesHold DEF ScanInv
<1> QED BY <1>1, SessionInvariance, PTL

\* PER_DIR_BUDGET and the depth caps bound a scan over all its resumptions together.
THEOREM ResumedWithinLimits ==
  ASSUME SaveWhen = "quiet"
  PROVE  SessionSpec => [](BudgetRespected /\ DepthBound)
<1>1. ScanInv => BudgetRespected /\ DepthBound
  BY BudgetsHold DEF ScanInv
<1> QED BY <1>1, SessionInvariance, PTL

\* A resumed scan that reports itself finished requested, before or after it was
\* saved, every path that it ever learned of and that no discard removed.
THEOREM ResumedScansAreComplete ==
  ASSUME SaveWhen = "quiet"
  PROVE  SessionSpec => []FinishedComplete
<1>1. ScanInv => FinishedComplete
  BY FinishedHolds DEF ScanInv
<1> QED BY <1>1, SessionInvariance, PTL

\* What was requested before the snapshot is not requested again after it.
THEOREM ResumedRequestsOnce ==
  ASSUME SaveWhen = "quiet"
  PROVE  SessionSpec => RequestedOnce
<1> DEFINE A == \A c \in realOut' \ realOut : c \notin requested
<1>1. ScanInv /\ [SessionNext]_allVars => [A]_vars
  <2> SUFFICES ASSUME ScanInv, [SessionNext]_allVars, NEW c \in realOut' \ realOut
               PROVE  c \notin requested
    OBVIOUS
  <2>1. CASE [Next]_vars
    BY <2>1, FreshRequests DEF ScanInv, vars, outVars
  <2>2. CASE Save
    BY <2>2 DEF Save, outVars
  <2>3. CASE Resuming
    BY <2>3 DEF Resuming, RestoreSnapshot
  <2> QED BY <2>1, <2>2, <2>3 DEF SessionNext, allVars
<1> QED BY <1>1, SessionInvariance, PTL DEF SessionSpec, RequestedOnce

\* An exclude holds within the run it was given to, whenever that is saved or
\* resumed.
THEOREM ResumedExcludes == SessionSpec => ExcludeHonoured
<1> DEFINE A == \A c \in realOut' \ realOut : ~IsExcluded(c.dir, c.name)
<1>1. [SessionNext]_allVars => [A]_vars
  <2> SUFFICES ASSUME [SessionNext]_allVars, NEW c \in realOut' \ realOut
               PROVE  ~IsExcluded(c.dir, c.name)
    OBVIOUS
  <2>1. CASE [Next]_vars
    BY <2>1, OnlyLiveDispatched DEF Live, Discarded
  <2>2. CASE Save
    BY <2>2 DEF Save, outVars
  <2>3. CASE Resuming
    BY <2>3 DEF Resuming, RestoreSnapshot
  <2> QED BY <2>1, <2>2, <2>3 DEF SessionNext, allVars
<1> QED BY <1>1, PTL DEF SessionSpec, ExcludeHonoured
=============================================================================
