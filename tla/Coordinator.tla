---------------------------- MODULE Coordinator ----------------------------
(***************************************************************************)
(* The scan coordinator of internal/engine: the single goroutine that owns *)
(* the directory tree, the frontier and the harvest queue, and whose       *)
(* select loop (dispatchLoop) applies one event at a time.                 *)
(*                                                                         *)
(* A directory is the sequence of its path segments, the site root is the  *)
(* empty sequence.  A candidate names one path to request under one        *)
(* directory.  Scores only order the frontier; the model lets any queued   *)
(* candidate be popped, which covers Pop, PopBand and SampleMidTier under  *)
(* every scoring.  Response contents are the outcomes the loop tells       *)
(* apart: error, miss, known content, new content, directory-like or not,  *)
(* slow or not, body retained or not.                                      *)
(***************************************************************************)
EXTENDS Integers, Sequences, FiniteSets

CONSTANTS
  Name,                \* path segments
  Template,            \* the wordlist, or the corpus selection, as names
  NmapPaths,           \* paths nmap reported, tried under the root only
  Generate,            \* name |-> the names assoc.Generate derives from a hit on it
  Hash,                \* response body hashes
  OutOfScope,          \* paths the scope enforcer rejects
  SeedPaths,           \* full paths that seed sources and users may name
  Bundles,             \* script URLs a crawled page may reference
  Patterns,            \* exclude patterns a user may submit
  MaxDepth,            \* Config.MaxDepth
  CrawlDepth,          \* Config.CrawlDepth, the cap for harvested seeds
  PerDirBudget,        \* Config.PerDirBudget, 0 when unset
  SubtreeBurst,        \* consecutive dispatches one directory may get
  MaxNewDirsPerBatch,  \* harvest.MaxNewDirsPerBatch
  NProbes,             \* probes of one calibration that may be in scope
  Concurrency,         \* the values the dispatch cap may take
  AsyncSeeders,        \* producers started at scan start (Wayback, headless)
  HarvestEnabled,      \* Config.Crawl or Config.JSHarvest: workers retain bodies
  Events               \* what may happen to the scan from outside, of EventKind

Root == << >>
Dir == Seq(Name)
Url == Seq(Name)

\* A pattern is a literal, matched against the full path or the bare name, or
\* a prefix glob ("admin/*"), matched against the full path only.
Pattern == [glob : BOOLEAN, path : Seq(Name)]

\* grow: refinement finds more extensions; spa: the root is an SPA shell; tarpit,
\* wildcard: a trap is detected; pause (and resume), stop: the user's commands.
EventKind == {"grow", "spa", "tarpit", "wildcard", "pause", "stop"}
\* The values an outcome of the given kind may have.
May(event) == IF event \in Events THEN BOOLEAN ELSE {FALSE}
Body == IF HarvestEnabled THEN BOOLEAN ELSE {FALSE}

ASSUME ConstantsAssumption ==
  /\ Template \subseteq Name /\ IsFiniteSet(Template)
  /\ NmapPaths \subseteq Name /\ IsFiniteSet(NmapPaths)
  /\ Generate \in [Name -> SUBSET Name]
  /\ \A n \in Name : IsFiniteSet(Generate[n])
  /\ OutOfScope \subseteq Url
  /\ SeedPaths \subseteq Url /\ IsFiniteSet(SeedPaths)
  /\ Bundles \subseteq Url
  /\ Patterns \subseteq Pattern
  /\ MaxDepth \in Nat \ {0} /\ CrawlDepth \in Nat \ {0}
  /\ PerDirBudget \in Nat /\ SubtreeBurst \in Nat
  /\ MaxNewDirsPerBatch \in Nat /\ NProbes \in Nat
  /\ Concurrency \subseteq Nat \ {0} /\ Concurrency # {}
  /\ AsyncSeeders \in Nat
  /\ HarvestEnabled \in BOOLEAN
  /\ Events \subseteq EventKind

VARIABLES
  phase,           \* Run's progress: seedRoot, seedPassiveSync, dispatchLoop, returned
  dirs,            \* Coordinator.dirs: directory |-> its dirState
  frontier,        \* the queued candidates
  harvestQueue,    \* harvestFetchQueue: URLs waiting to be fetched for mining
  probesOut,       \* dispatched probes whose result has not been handled
  fetchesOut,      \* dispatched harvest fetches whose result has not been handled
  realOut,         \* dispatched candidates whose result has not been handled
  pendingHarvest,  \* running producer goroutines
  crawlVisited,    \* URLs mined or queued to be mined
  seenContent,     \* body hashes of the findings
  rootRefined,     \* RefineAfterCalibration has run
  excludes,        \* the exclude overrides in force
  paused,
  concurrencyCap,
  lastDispatchDir,
  dispatchStreak,  \* saturates at SubtreeBurst, the only value it is compared with
  cancelled,       \* the run context is cancelled (CtrlStop)
  \* History, read by properties only.
  requested,       \* candidates ever dispatched
  staged,          \* seed candidates the tree accepted
  mined            \* URLs whose body was handed to a producer

treeVars == <<dirs, frontier, rootRefined>>
outVars == <<probesOut, fetchesOut, realOut>>
harvestVars == <<harvestQueue, pendingHarvest, crawlVisited, mined>>
controlVars == <<excludes, paused, concurrencyCap, cancelled>>
streakVars == <<lastDispatchDir, dispatchStreak>>
vars == <<phase, treeVars, outVars, harvestVars, controlVars, streakVars,
          seenContent, requested, staged>>

\* nmap candidates are full paths: they are never recursed into, and they are
\* queued beside a template entry of the same name, not merged with it.
Candidate == [dir : Dir, name : Name, nmap : BOOLEAN]
Cand(d, n) == [dir |-> d, name |-> n, nmap |-> FALSE]
NmapCand(d, n) == [dir |-> d, name |-> n, nmap |-> TRUE]
Under(d, S) == {c \in S : c.dir = d}
UrlOf(c) == Append(c.dir, c.name)

DirState ==
  [state : {"calibrating", "scanning", "done"},
   probeQueue : SUBSET (1..NProbes), probesDone : Nat, probesTotal : Nat,
   pendingSeeds : SUBSET Name, knownPaths : SUBSET Name,
   candidatesTotal : Nat, candidatesAccountedFor : Nat,
   requestsDispatched : Nat, budget : Nat,
   capped : BOOLEAN, wildcardSuspect : BOOLEAN]

-----------------------------------------------------------------------------
(* Directory lifecycle: calibrating -> scanning -> done, and back to       *)
(* scanning when a seed names a path the directory did not know.           *)

\* Mutant: probesTotal is off by one.
CalibratingOneMore(k) ==
  [state |-> "calibrating", probeQueue |-> 1..k, probesDone |-> 0, probesTotal |-> k + 1,
   pendingSeeds |-> {}, knownPaths |-> {},
   candidatesTotal |-> 0, candidatesAccountedFor |-> 0,
   requestsDispatched |-> 0, budget |-> 0,
   capped |-> FALSE, wildcardSuspect |-> FALSE]

\* startCalibration: a fresh dirState with k probes in scope.
Calibrating(k) ==
  [state |-> "calibrating", probeQueue |-> 1..k, probesDone |-> 0, probesTotal |-> k,
   pendingSeeds |-> {}, knownPaths |-> {},
   candidatesTotal |-> 0, candidatesAccountedFor |-> 0,
   requestsDispatched |-> 0, budget |-> 0,
   capped |-> FALSE, wildcardSuspect |-> FALSE]

NmapAt(d) == IF d = Root THEN NmapPaths ELSE {}
Leftover(ds) == ds.pendingSeeds \ Template

\* Mutant: the budget is what remains of it once the candidates are queued.
PushCandidatesLessBudget(d, ds) ==
  LET extra == Cardinality(Leftover(ds)) + Cardinality(NmapAt(d))
      total == Cardinality(Template) + extra
  IN  [ds EXCEPT
         !.state = IF total = 0 THEN "done" ELSE "scanning",
         !.pendingSeeds = {},
         !.knownPaths = Template \cup Leftover(ds) \cup NmapAt(d),
         !.candidatesTotal = total,
         !.budget = IF total > 0 /\ PerDirBudget > 0 THEN PerDirBudget - total ELSE total]

\* pushCandidates: what the directory record becomes ...
PushCandidates(d, ds) ==
  LET extra == Cardinality(Leftover(ds)) + Cardinality(NmapAt(d))
      total == Cardinality(Template) + extra
  IN  [ds EXCEPT
         !.state = IF total = 0 THEN "done" ELSE "scanning",
         !.pendingSeeds = {},
         !.knownPaths = Template \cup Leftover(ds) \cup NmapAt(d),
         !.candidatesTotal = total,
         !.budget = IF total > 0 /\ PerDirBudget > 0 THEN PerDirBudget + extra ELSE total]

\* ... and the candidates it queues.
Pushed(d, ds) ==
  {Cand(d, n) : n \in Template \cup Leftover(ds)} \cup {NmapCand(d, n) : n \in NmapAt(d)}

\* A directory with probes waits for them; one with none is pushed at once.
Entered(d, ds) == IF ds.probeQueue # {} THEN ds ELSE PushCandidates(d, ds)
EnteredPush(d, ds) == IF ds.probeQueue # {} THEN {} ELSE Pushed(d, ds)

\* Mutants: queued without counting; counted without recording the path.
EnqueueGeneratedUncounted(ds, N) ==
  IF ds.state = "done" THEN ds
  ELSE [ds EXCEPT !.knownPaths = @ \cup N, !.budget = @ + Cardinality(N \ ds.knownPaths)]
EnqueueGeneratedUnrecorded(ds, N) ==
  LET new == N \ ds.knownPaths
  IN  IF ds.state = "done" THEN ds
      ELSE [ds EXCEPT !.candidatesTotal = @ + Cardinality(new),
                      !.budget = @ + Cardinality(new)]

\* enqueueGenerated, for a set of names: unknown names grow the total and the
\* budget and are queued; a finished directory refuses them.
EnqueueGenerated(ds, N) ==
  LET new == N \ ds.knownPaths
  IN  IF ds.state = "done" THEN ds
      ELSE [ds EXCEPT !.knownPaths = @ \cup new,
                      !.candidatesTotal = @ + Cardinality(new),
                      !.budget = @ + Cardinality(new)]
GeneratedPush(d, ds, N) ==
  IF ds.state = "done" THEN {} ELSE {Cand(d, n) : n \in N \ ds.knownPaths}

\* Mutants: a finished directory reopens for a moot merge too; it never reopens.
ReopenedAlways(ds, N) ==
  IF ds.state = "done" /\ N # {} THEN [ds EXCEPT !.state = "scanning"] ELSE ds
ReopenedNever(ds, N) == ds

\* stageDirCandidate, for a set of names: a calibrating directory holds them
\* back; a finished one reopens only for a name it does not know.
Reopened(ds, N) ==
  IF ds.state = "done" /\ ~(N \subseteq ds.knownPaths)
  THEN [ds EXCEPT !.state = "scanning"] ELSE ds
StageDirCandidate(ds, N) ==
  IF ds.state = "calibrating" THEN [ds EXCEPT !.pendingSeeds = @ \cup N]
  ELSE EnqueueGenerated(Reopened(ds, N), N)
StagedPush(d, ds, N) ==
  IF ds.state = "calibrating" THEN {} ELSE GeneratedPush(d, Reopened(ds, N), N)

\* candidatesAccountedFor++ and maybeFinishDir for every candidate of R.
Account(ds, k) ==
  IF k = 0 THEN ds
  ELSE [ds EXCEPT
          !.candidatesAccountedFor = @ + k,
          !.state = IF ds.candidatesAccountedFor + k >= ds.candidatesTotal THEN "done" ELSE @]
AccountFor(D, R) == [d \in DOMAIN D |-> Account(D[d], Cardinality(Under(d, R)))]

-----------------------------------------------------------------------------
(* dispatchLoop's termination check, evaluated at the end of every         *)
(* iteration.                                                              *)

InFlight == Cardinality(probesOut) + Cardinality(fetchesOut) + Cardinality(realOut)

\* Mutant: the scan is over as soon as nothing is in flight and no producer runs.
CompleteWhenIdle ==
  /\ harvestQueue = {} /\ pendingHarvest = 0
  /\ probesOut = {} /\ fetchesOut = {} /\ realOut = {}

Complete ==
  /\ frontier = {} /\ harvestQueue = {} /\ pendingHarvest = 0
  /\ probesOut = {} /\ fetchesOut = {} /\ realOut = {}
  /\ \A d \in DOMAIN dirs : dirs[d].state = "done"

EndIteration == phase' = IF Complete' THEN "finished" ELSE "running"

-----------------------------------------------------------------------------
(* Calibration.                                                            *)

\* finishCalibration of directory d with record ds.  The root is refined once
\* per scan; if that grows the extension set (grow) the root starts over with
\* a fresh record of k probes, otherwise an SPA baseline (spa) queues the root
\* page for harvesting.  The profile's paced requests are in Dispatch.tla.
FinishCalibration(d, ds, grow, spa, k) ==
  LET refine == d = Root /\ ~rootRefined
      src == IF refine /\ grow THEN Calibrating(k) ELSE ds
      pivot == /\ d = Root /\ spa /\ HarvestEnabled /\ ~(refine /\ grow)
               /\ Root \notin crawlVisited
  IN  /\ dirs' = [dirs EXCEPT ![d] = Entered(d, src)]
      /\ frontier' = frontier \cup EnteredPush(d, src)
      /\ rootRefined' = (rootRefined \/ refine)
      /\ harvestQueue' = IF pivot THEN harvestQueue \cup {Root} ELSE harvestQueue
      /\ crawlVisited' = IF pivot THEN crawlVisited \cup {Root} ELSE crawlVisited
      /\ UNCHANGED <<pendingHarvest, mined>>

\* collectProbe, for a probe that answered or failed alike.
ProbeResult(p, grow, spa, k) ==
  LET d == p.dir
      ds == [dirs[d] EXCEPT !.probesDone = @ + 1]
  IN  /\ phase = "running" /\ p \in probesOut
      /\ probesOut' = probesOut \ {p}
      /\ IF ds.probesDone >= ds.probesTotal
         THEN FinishCalibration(d, ds, grow, spa, k)
         ELSE /\ dirs' = [dirs EXCEPT ![d] = ds]
              /\ UNCHANGED <<frontier, rootRefined, harvestVars>>
      /\ UNCHANGED <<fetchesOut, realOut, controlVars, streakVars, seenContent,
                     requested, staged>>
      /\ EndIteration

-----------------------------------------------------------------------------
(* Seeds: robots, sitemap, Wayback, crawl, JavaScript, user.               *)

\* seedAncestorDirs and the directory a new candidate of path p lands in.
AncestorDirs(p) == {SubSeq(p, 1, i) : i \in 1..(Len(p) - 1)}
NewDirs(K) == (UNION {AncestorDirs(p) : p \in K}) \ DOMAIN dirs

\* enqueueSeed's early returns: the empty path, the depth cap (harvested seeds
\* have their own), the scope.
AcceptedSeeds(K, harvested) ==
  {p \in K : /\ p # Root
             /\ Len(p) <= (IF harvested THEN CrawlDepth ELSE MaxDepth)
             /\ p \notin OutOfScope}

\* The names a set of paths stages under directory d: the next segment of every
\* path that passes through d (ensureDirChain's ancestors and the leaf).
NamesUnder(K, d) ==
  {p[Len(d) + 1] : p \in {q \in K : Len(q) > Len(d) /\ SubSeq(q, 1, Len(d)) = d}}

\* enqueueSeed over the accepted seeds of K: every missing ancestor starts its
\* calibration (probes[d] of its probes are in scope), every ancestor and every
\* leaf is staged under its parent.
EnqueueSeeds(K, probes) ==
  LET base == [d \in DOMAIN dirs \cup NewDirs(K) |->
                 IF d \in DOMAIN dirs THEN dirs[d] ELSE Entered(d, Calibrating(probes[d]))]
  IN  /\ dirs' = [d \in DOMAIN base |-> StageDirCandidate(base[d], NamesUnder(K, d))]
      /\ frontier' = frontier
           \cup (UNION {EnteredPush(d, Calibrating(probes[d])) : d \in NewDirs(K)})
           \cup (UNION {StagedPush(d, base[d], NamesUnder(K, d)) : d \in DOMAIN base})
      /\ staged' = staged \cup UNION {{Cand(d, n) : n \in NamesUnder(K, d)} : d \in DOMAIN base}
      /\ UNCHANGED rootRefined

ProbeCounts(K) == [NewDirs(K) -> 0..NProbes]

\* Mutant: the seed that reaches the cap is let through.
CapBatchOneMore(B) ==
  {K \in SUBSET B :
     /\ Cardinality(NewDirs(K)) <= MaxNewDirsPerBatch + 1
     /\ \/ K = B
        \/ \E p \in B \ K : Cardinality(NewDirs(K \cup {p})) > MaxNewDirsPerBatch + 1}

\* capBatch: the batch in priority order, cut before the first seed whose
\* ancestors would raise the number of new directories above the cap.  With
\* priorities abstracted, any subset that could be such a prefix.
CapBatch(B) ==
  {K \in SUBSET B :
     /\ Cardinality(NewDirs(K)) <= MaxNewDirsPerBatch
     /\ \/ K = B
        \/ \E p \in B \ K : Cardinality(NewDirs(K \cup {p})) > MaxNewDirsPerBatch}

\* Run, before the loop: seedRoot.  With no probe in scope the calibration
\* finishes at once, refinement included.
SeedRoot(k, grow, again) ==
  LET src == IF k = 0 /\ grow THEN Calibrating(again) ELSE Calibrating(k)
  IN  /\ phase = "seedRoot"
      /\ phase' = "seedPassive"
      /\ dirs' = [d \in {Root} |-> Entered(d, src)]
      /\ frontier' = EnteredPush(Root, src)
      /\ rootRefined' = (k = 0)
      /\ UNCHANGED <<outVars, harvestVars, controlVars, streakVars, seenContent,
                     requested, staged>>

\* seedPassiveSync on what robots.txt and the sitemaps named, then the
\* asynchronous producers are started.
SeedPassive(B, producers) ==
  /\ phase = "seedPassive"
  /\ phase' = "running"
  /\ LET K == AcceptedSeeds(B, FALSE)
     IN  \E probes \in ProbeCounts(K) : EnqueueSeeds(K, probes)
  /\ pendingHarvest' = producers
  /\ UNCHANGED <<outVars, harvestQueue, crawlVisited, mined, controlVars, streakVars,
                 seenContent, requested>>

\* seedInjectCh: a live producer hands over a batch (applySeedBatch).
ApplySeedBatch(B, harvested) ==
  /\ phase = "running" /\ pendingHarvest > 0
  /\ \E capped \in CapBatch(B) :
       LET K == AcceptedSeeds(capped, harvested)
       IN  \E probes \in ProbeCounts(K) : EnqueueSeeds(K, probes)
  /\ UNCHANGED <<outVars, harvestVars, controlVars, streakVars, seenContent, requested>>
  /\ EndIteration

\* Mutant: a script that was already mined as a page is queued again.
EnqueueHarvestFetchAgain(u) ==
  /\ phase = "running" /\ pendingHarvest > 0
  /\ u \notin OutOfScope
  /\ harvestQueue' = harvestQueue \cup {u}
  /\ crawlVisited' = crawlVisited \cup {u}
  /\ UNCHANGED <<pendingHarvest, mined, treeVars, outVars, controlVars, streakVars,
                 seenContent, requested, staged>>
  /\ EndIteration

\* harvestFetchCh: a live producer asks for a script bundle (enqueueHarvestFetch).
EnqueueHarvestFetch(u) ==
  /\ phase = "running" /\ pendingHarvest > 0
  /\ u \notin OutOfScope /\ u \notin crawlVisited
  /\ harvestQueue' = harvestQueue \cup {u}
  /\ crawlVisited' = crawlVisited \cup {u}
  /\ UNCHANGED <<pendingHarvest, mined, treeVars, outVars, controlVars, streakVars,
                 seenContent, requested, staged>>
  /\ EndIteration

\* A producer goroutine returns; the loop learns of it at its next iteration.
ProducerExit ==
  /\ pendingHarvest > 0
  /\ pendingHarvest' = pendingHarvest - 1
  /\ UNCHANGED <<phase, harvestQueue, crawlVisited, mined, treeVars, outVars,
                 controlVars, streakVars, seenContent, requested, staged>>

-----------------------------------------------------------------------------
(* Dispatch: nextDispatchable, in its order of preference.                 *)

CanDispatch == phase = "running" /\ ~paused /\ InFlight < concurrencyCap

NoProbeQueued == \A d \in DOMAIN dirs : dirs[d].probeQueue = {}

\* (1) A queued probe of a calibrating directory.
DispatchProbe(d, i) ==
  /\ CanDispatch
  /\ i \in dirs[d].probeQueue
  /\ dirs' = [dirs EXCEPT ![d].probeQueue = @ \ {i}]
  /\ probesOut' = probesOut \cup {[dir |-> d, index |-> i]}
  /\ UNCHANGED <<frontier, rootRefined, fetchesOut, realOut, harvestVars, controlVars,
                 streakVars, seenContent, requested, staged>>
  /\ EndIteration

\* (2) A queued harvest fetch.
DispatchHarvestFetch(u) ==
  /\ CanDispatch /\ NoProbeQueued
  /\ u \in harvestQueue
  /\ harvestQueue' = harvestQueue \ {u}
  /\ fetchesOut' = fetchesOut \cup {u}
  /\ UNCHANGED <<treeVars, probesOut, realOut, pendingHarvest, crawlVisited, mined,
                 controlVars, streakVars, seenContent, requested, staged>>
  /\ EndIteration

Matches(pat, d, n) ==
  LET full == Append(d, n)
  IN  IF pat.glob THEN Len(pat.path) < Len(full) /\ SubSeq(full, 1, Len(pat.path)) = pat.path
      ELSE pat.path = full \/ pat.path = <<n>>
IsExcluded(d, n) == \E pat \in excludes : Matches(pat, d, n)

\* Mutants: one request over the budget, or one short of it.
OverBudgetLate(ds) == ds.requestsDispatched > ds.budget
OverBudgetEarly(ds) == ds.requestsDispatched + 1 >= ds.budget
OverBudget(ds) == ds.requestsDispatched >= ds.budget

\* Mutant: excludes only sweep the queue, nothing checks them at the pop.
DiscardedNoExclude(c) ==
  \/ dirs[c.dir].capped
  \/ OverBudget(dirs[c.dir])
  \/ UrlOf(c) \in OutOfScope

\* nextDispatchable's permanent discards: tarpit cap, budget, scope, exclude.
Discarded(c) ==
  \/ dirs[c.dir].capped
  \/ OverBudget(dirs[c.dir])
  \/ UrlOf(c) \in OutOfScope
  \/ IsExcluded(c.dir, c.name)
Scanning(c) == c.dir \in DOMAIN dirs /\ dirs[c.dir].state = "scanning"
Live == {c \in frontier : Scanning(c) /\ ~Discarded(c)}
Throttled(c) ==
  SubtreeBurst > 0 /\ c.dir = lastDispatchDir /\ dispatchStreak >= SubtreeBurst

Saturate(n) == IF n > SubtreeBurst THEN SubtreeBurst ELSE n
RecordDispatch(d) ==
  /\ lastDispatchDir' = d
  /\ dispatchStreak' = Saturate(IF d = lastDispatchDir THEN dispatchStreak + 1 ELSE 1)

\* (3) Candidate c.  The pops that precede it discard the candidates P: those of
\* a directory that is not scanning without a trace, the others accounted for.
\* A throttled directory is served only when the whole frontier was popped in
\* vain.
DispatchCandidate(c, P) ==
  /\ CanDispatch /\ NoProbeQueued /\ harvestQueue = {}
  /\ c \in Live /\ P \subseteq frontier \ Live
  /\ Throttled(c) => P = frontier \ Live /\ \A x \in Live : Throttled(x)
  /\ frontier' = frontier \ ({c} \cup P)
  /\ dirs' = [AccountFor(dirs, {x \in P : Scanning(x)}) EXCEPT
                ![c.dir].requestsDispatched = @ + 1]
  /\ realOut' = realOut \cup {c}
  /\ requested' = requested \cup {c}
  /\ RecordDispatch(c.dir)
  /\ UNCHANGED <<rootRefined, probesOut, fetchesOut, harvestVars, controlVars,
                 seenContent, staged>>
  /\ EndIteration

\* Nothing dispatchable is left: the whole frontier is popped and discarded.
DiscardFrontier ==
  /\ CanDispatch /\ NoProbeQueued /\ harvestQueue = {}
  /\ Live = {} /\ frontier # {}
  /\ frontier' = {}
  /\ dirs' = AccountFor(dirs, {x \in frontier : Scanning(x)})
  /\ UNCHANGED <<rootRefined, outVars, harvestVars, controlVars, streakVars,
                 seenContent, requested, staged>>
  /\ EndIteration

-----------------------------------------------------------------------------
(* Results.                                                                *)

\* harvestResponse: the body of a page that was not mined before goes to a new
\* producer.
HarvestResponse(u, body) ==
  LET spawn == body /\ u \notin crawlVisited
  IN  /\ crawlVisited' = IF spawn THEN crawlVisited \cup {u} ELSE crawlVisited
      /\ mined' = IF spawn THEN mined \cup {u} ELSE mined
      /\ pendingHarvest' = IF spawn THEN pendingHarvest + 1 ELSE pendingHarvest
      /\ UNCHANGED harvestQueue

\* handleHarvestFetchResult: mined when it carries a minable body.
HarvestFetchResult(u, body) ==
  /\ phase = "running" /\ u \in fetchesOut
  /\ fetchesOut' = fetchesOut \ {u}
  /\ mined' = IF body THEN mined \cup {u} ELSE mined
  /\ pendingHarvest' = IF body THEN pendingHarvest + 1 ELSE pendingHarvest
  /\ UNCHANGED <<harvestQueue, crawlVisited, treeVars, probesOut, realOut, controlVars,
                 streakVars, seenContent, requested, staged>>
  /\ EndIteration

\* handleReal's common part, for the record ds that handleHit left.
\* checkWildcardHitRate may mark the branch; the candidate is accounted for last.
Settle(ds, wild) == Account([ds EXCEPT !.wildcardSuspect = @ \/ wild], 1)
\* checkTarpit, before the hit is handled.
Slowed(ds, slow) == [ds EXCEPT !.capped = @ \/ slow]

\* A request that failed.
RealError(c) ==
  /\ phase = "running" /\ c \in realOut
  /\ realOut' = realOut \ {c}
  /\ dirs' = AccountFor(dirs, {c})
  /\ UNCHANGED <<frontier, rootRefined, probesOut, fetchesOut, harvestVars, controlVars,
                 streakVars, seenContent, requested, staged>>
  /\ EndIteration

\* A miss, or a hit whose content is already a finding (an alias): no learning,
\* no recursion.
RealPlain(c, slow, wild, body) ==
  /\ phase = "running" /\ c \in realOut
  /\ realOut' = realOut \ {c}
  /\ dirs' = [dirs EXCEPT ![c.dir] = Settle(Slowed(@, slow), wild)]
  /\ HarvestResponse(UrlOf(c), body)
  /\ UNCHANGED <<frontier, rootRefined, probesOut, fetchesOut, controlVars, streakVars,
                 seenContent, requested, staged>>
  /\ EndIteration

\* Mutant: the depth cap is off by one.
WithinLimitsDeeper(c, ds) ==
  /\ Len(c.dir) + 1 <= MaxDepth
  /\ UrlOf(c) \notin OutOfScope
  /\ ~ds.capped /\ ~ds.wildcardSuspect

\* withinLimits.
WithinLimits(c, ds) ==
  /\ Len(c.dir) + 2 <= MaxDepth
  /\ UrlOf(c) \notin OutOfScope
  /\ ~ds.capped /\ ~ds.wildcardSuspect

\* A new finding (handleHit): the learners may queue the names derived from the
\* hit (learn), and a directory-like hit within the limits starts a child
\* directory (child, with k probes in scope) unless it exists.
RealFinding(c, hash, slow, wild, body, learn, child, k) ==
  LET d == c.dir
      ds == Slowed(dirs[d], slow)
      gens == IF learn /\ ~ds.wildcardSuspect THEN Generate[c.name] ELSE {}
      sub == UrlOf(c)
      recurse == child /\ ~c.nmap /\ WithinLimits(c, ds) /\ sub \notin DOMAIN dirs
      settled == Settle(EnqueueGenerated(ds, gens), wild)
  IN  /\ phase = "running" /\ c \in realOut
      /\ realOut' = realOut \ {c}
      /\ hash \notin seenContent
      /\ seenContent' = seenContent \cup {hash}
      /\ dirs' = [x \in DOMAIN dirs \cup (IF recurse THEN {sub} ELSE {}) |->
                    IF x = d THEN settled
                    ELSE IF x \in DOMAIN dirs THEN dirs[x] ELSE Entered(x, Calibrating(k))]
      /\ frontier' = frontier \cup GeneratedPush(d, ds, gens)
                       \cup (IF recurse THEN EnteredPush(sub, Calibrating(k)) ELSE {})
      /\ HarvestResponse(sub, body)
      /\ UNCHANGED <<rootRefined, probesOut, fetchesOut, controlVars, streakVars,
                     requested, staged>>
      /\ EndIteration

-----------------------------------------------------------------------------
(* Control commands (applyControl), and the loop's other cases.            *)

Pause ==
  /\ phase = "running" /\ ~paused /\ "pause" \in Events
  /\ paused' = TRUE
  /\ UNCHANGED <<treeVars, outVars, harvestVars, excludes, concurrencyCap, cancelled,
                 streakVars, seenContent, requested, staged>>
  /\ EndIteration

Resume ==
  /\ phase = "running" /\ paused
  /\ paused' = FALSE
  /\ UNCHANGED <<treeVars, outVars, harvestVars, excludes, concurrencyCap, cancelled,
                 streakVars, seenContent, requested, staged>>
  /\ EndIteration

\* CtrlStop cancels the run context; the loop leaves when select picks that case.
Stop ==
  /\ phase = "running" /\ ~cancelled /\ "stop" \in Events
  /\ cancelled' = TRUE
  /\ UNCHANGED <<treeVars, outVars, harvestVars, excludes, paused, concurrencyCap,
                 streakVars, seenContent, requested, staged>>
  /\ EndIteration

ContextDone ==
  /\ phase = "running" /\ cancelled
  /\ phase' = "stopped"
  /\ UNCHANGED <<treeVars, outVars, harvestVars, controlVars, streakVars, seenContent,
                 requested, staged>>

\* applyAdjust's live concurrency.
AdjustConcurrency(n) ==
  /\ phase = "running" /\ n # concurrencyCap
  /\ concurrencyCap' = n
  /\ UNCHANGED <<treeVars, outVars, harvestVars, excludes, paused, cancelled,
                 streakVars, seenContent, requested, staged>>
  /\ EndIteration

\* applyExclude: the override, and the sweep of what is queued.
Exclude(pat) ==
  LET swept == {c \in frontier : Matches(pat, c.dir, c.name)}
  IN  /\ phase = "running" /\ pat \notin excludes
      /\ excludes' = excludes \cup {pat}
      /\ frontier' = frontier \ swept
      /\ dirs' = AccountFor(dirs, swept)
      /\ UNCHANGED <<rootRefined, outVars, harvestVars, paused, concurrencyCap, cancelled,
                     streakVars, seenContent, requested, staged>>
      /\ EndIteration

\* CtrlInject, and applyPin of a literal path.
Inject(p) ==
  /\ phase = "running"
  /\ LET K == AcceptedSeeds({p}, FALSE)
     IN  \E probes \in ProbeCounts(K) : EnqueueSeeds(K, probes)
  /\ UNCHANGED <<outVars, harvestVars, controlVars, streakVars, seenContent, requested>>
  /\ EndIteration

\* A ticker fires: nothing but the termination check.
Tick ==
  /\ phase = "running"
  /\ UNCHANGED <<treeVars, outVars, harvestVars, controlVars, streakVars, seenContent,
                 requested, staged>>
  /\ EndIteration

-----------------------------------------------------------------------------
Init ==
  /\ phase = "seedRoot"
  /\ dirs = [d \in {} |-> Calibrating(0)]
  /\ frontier = {} /\ harvestQueue = {}
  /\ probesOut = {} /\ fetchesOut = {} /\ realOut = {}
  /\ pendingHarvest = 0 /\ crawlVisited = {} /\ mined = {}
  /\ seenContent = {} /\ rootRefined = FALSE
  /\ excludes = {} /\ paused = FALSE /\ cancelled = FALSE
  /\ concurrencyCap \in Concurrency
  /\ lastDispatchDir = Root /\ dispatchStreak = 0
  /\ requested = {} /\ staged = {}

Seeding ==
  \/ \E k, again \in 0..NProbes, grow \in May("grow") : SeedRoot(k, grow, again)
  \/ \E B \in SUBSET SeedPaths, n \in 0..AsyncSeeders : SeedPassive(B, n)

Dispatching ==
  \/ \E d \in DOMAIN dirs : \E i \in dirs[d].probeQueue : DispatchProbe(d, i)
  \/ \E u \in harvestQueue : DispatchHarvestFetch(u)
  \/ \E c \in frontier : \E P \in SUBSET (frontier \ Live) : DispatchCandidate(c, P)
  \/ DiscardFrontier

Results ==
  \/ \E p \in probesOut, grow \in May("grow"), spa \in May("spa"), k \in 0..NProbes :
       ProbeResult(p, grow, spa, k)
  \/ \E u \in fetchesOut, body \in Body : HarvestFetchResult(u, body)
  \/ \E c \in realOut : RealError(c)
  \/ \E c \in realOut, slow \in May("tarpit"), wild \in May("wildcard"), body \in Body :
       RealPlain(c, slow, wild, body)
  \/ \E c \in realOut, hash \in Hash, slow \in May("tarpit"), wild \in May("wildcard"),
        body \in Body, learn, child \in BOOLEAN, k \in 0..NProbes :
       RealFinding(c, hash, slow, wild, body, learn, child, k)

Producers ==
  \/ \E B \in SUBSET SeedPaths, harvested \in BOOLEAN : ApplySeedBatch(B, harvested)
  \/ \E u \in Bundles : EnqueueHarvestFetch(u)
  \/ ProducerExit

Control ==
  \/ Pause \/ Resume \/ Stop
  \/ \E n \in Concurrency : AdjustConcurrency(n)
  \/ \E pat \in Patterns : Exclude(pat)
  \/ \E p \in SeedPaths : Inject(p)

Next == Seeding \/ Dispatching \/ Results \/ Producers \/ Control \/ ContextDone \/ Tick

Spec == Init /\ [][Next]_vars

\* Fairness: the pacer keeps ticking, every request ends (the client has a
\* timeout), a producer returns, tickers fire, and a cancelled context is
\* eventually picked by the select.  Nothing is assumed of the user.
Progress == Seeding \/ Dispatching \/ Results
Fairness ==
  WF_vars(Progress) /\ WF_vars(ProducerExit) /\ WF_vars(Tick) /\ WF_vars(ContextDone)
FairSpec == Spec /\ Fairness

-----------------------------------------------------------------------------
(* Properties.                                                             *)

\* Every variable has its type.
TypeOK ==
  /\ phase \in {"seedRoot", "seedPassive", "running", "finished", "stopped"}
  /\ DOMAIN dirs \subseteq Dir
  /\ dirs \in [DOMAIN dirs -> DirState]
  /\ frontier \subseteq Candidate /\ realOut \subseteq Candidate
  /\ requested \subseteq Candidate /\ staged \subseteq Candidate
  /\ probesOut \subseteq [dir : Dir, index : 1..NProbes]
  /\ harvestQueue \subseteq Url /\ fetchesOut \subseteq Url
  /\ crawlVisited \subseteq Url /\ mined \subseteq Url
  /\ pendingHarvest \in Nat
  /\ seenContent \subseteq Hash /\ rootRefined \in BOOLEAN
  /\ excludes \subseteq Patterns /\ paused \in BOOLEAN /\ cancelled \in BOOLEAN
  /\ concurrencyCap \in Concurrency
  /\ lastDispatchDir \in Dir /\ dispatchStreak \in 0..SubtreeBurst

\* candidatesTotal counts exactly what was accounted for, what is queued and
\* what is in flight, and a directory is done exactly when nothing is left: no
\* interleaving of discards, excludes, errors, generated candidates and seeds
\* strands a directory in scanning or finishes it early.
Accounting ==
  \A d \in DOMAIN dirs :
    LET ds == dirs[d]
    IN  ds.state # "calibrating" =>
          /\ ds.candidatesTotal = ds.candidatesAccountedFor
               + Cardinality(Under(d, frontier)) + Cardinality(Under(d, realOut))
          /\ ds.state = "done" <=> ds.candidatesAccountedFor = ds.candidatesTotal

\* Calibration gates real requests: whatever is queued or in flight belongs to
\* a directory that is scanning, so nextDispatchable never drops a candidate
\* without accounting for it, and no result meets a directory without baseline
\* or already declared done.
CalibrationGates ==
  \A c \in frontier \cup realOut : c.dir \in DOMAIN dirs /\ dirs[c.dir].state = "scanning"

\* Every probe is queued, in flight or counted, and calibration ends with the
\* last of them.
ProbeAccounting ==
  \A d \in DOMAIN dirs :
    LET ds == dirs[d]
        out == {p \in probesOut : p.dir = d}
    IN  IF ds.state = "calibrating"
        THEN /\ ds.probesTotal = ds.probesDone + Cardinality(ds.probeQueue) + Cardinality(out)
             /\ ds.probesDone < ds.probesTotal
        ELSE ds.probeQueue = {} /\ out = {}

\* A candidate is requested at most once in a scan, whichever of the template,
\* the seeds, the producers, the learners and the user names it, and however
\* often its directory was reopened.
RequestedOnce == [][\A c \in realOut' \ realOut : c \notin requested]_vars

\* PER_DIR_BUDGET bounds the requests a directory really got: only paths from
\* outside the template (seeds, generated) and nmap's, each a request of its own
\* beside a template entry or a seed of the same name, may exceed it.
BudgetRespected ==
  PerDirBudget > 0 =>
    \A d \in DOMAIN dirs :
      Cardinality(Under(d, requested)) <=
        PerDirBudget + Cardinality(dirs[d].knownPaths \ Template) + Cardinality(NmapAt(d))

\* When the scan reports itself finished, every path it ever learned of was
\* requested, unless a documented discard removed it; the budget discards a path only
\* where as many requests were made as PER_DIR_BUDGET grants.
BudgetSpent(ds) == PerDirBudget > 0 /\ ds.requestsDispatched >= PerDirBudget
FinishedComplete ==
  phase = "finished" =>
    \A d \in DOMAIN dirs : \A n \in dirs[d].knownPaths :
      \/ \E c \in requested : c.dir = d /\ c.name = n
      \/ dirs[d].capped \/ BudgetSpent(dirs[d])
      \/ Append(d, n) \in OutOfScope \/ IsExcluded(d, n)

\* A seed the tree accepted stays with its directory: held back during the
\* calibration, known after it (stageDirCandidate's contract).
SeedsKept ==
  \A s \in staged : /\ s.dir \in DOMAIN dirs
                    /\ s.name \in dirs[s.dir].pendingSeeds \cup dirs[s.dir].knownPaths

\* No directory lies deeper than the caps on recursion and on seeds allow.
DepthBound == \A d \in DOMAIN dirs : Len(d) < MaxDepth \/ Len(d) < CrawlDepth

\* A batch a producer injects never adds more directories than
\* MAX_NEW_DIRS_PER_BATCH: capBatch, which counts before the tree is changed, and
\* ensureDirChain agree on what a new directory is.
BatchBlastRadius ==
  [][(\E B \in SUBSET SeedPaths, harvested \in BOOLEAN : ApplySeedBatch(B, harvested)) =>
       Cardinality(DOMAIN dirs' \ DOMAIN dirs) <= MaxNewDirsPerBatch]_vars

\* A user's exclude holds from the moment it is applied, also for candidates
\* queued later: no excluded path is ever dispatched.
ExcludeHonoured ==
  [][\A c \in realOut' \ realOut : ~IsExcluded(c.dir, c.name)]_vars

\* A URL's body is handed to at most one producer, although a page can be met
\* as a candidate, as a script reference and as the SPA root.
MinedOnce == [][pendingHarvest' > pendingHarvest /\ phase = "running" => mined' # mined]_vars

\* Unless the user leaves it paused, the scan ends.
Termination == <>[](~paused) => <>(phase \in {"finished", "stopped"})
=============================================================================
