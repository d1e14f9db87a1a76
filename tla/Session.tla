------------------------------- MODULE Session -------------------------------
(***************************************************************************)
(* Saving and resuming a scan (internal/engine/session.go).  A snapshot is *)
(* taken by the coordinator between two events; a new coordinator is later *)
(* built from it, after the first one stopped, finished or was killed.     *)
(* A snapshot holds the frontier, the directory records, the seen contents *)
(* and the visited URLs.  It does not hold what is in flight, the harvest  *)
(* queue, the producers, the seeds held back in a calibrating directory,   *)
(* the overrides or the pause.                                             *)
(***************************************************************************)
EXTENDS Coordinator

CONSTANTS
  SaveWhen,    \* "quiet": the user pauses and waits before saving; "any": at any time
  MaxResumes   \* bound on the resumptions of one scan

ASSUME SessionAssumption == SaveWhen \in {"quiet", "any"} /\ MaxResumes \in Nat

VARIABLES
  saved,    \* the session file: {} or {snapshot}
  resumes   \* resumptions so far

sessionVars == <<saved, resumes>>
allVars == <<vars, sessionVars>>

\* buildSnapshot.  The histories are part of it: they are those of the scan that
\* is continued.
BuildSnapshot ==
  [dirs |-> dirs, frontier |-> frontier, seenContent |-> seenContent,
   crawlVisited |-> crawlVisited, rootRefined |-> rootRefined,
   requested |-> requested, staged |-> staged, mined |-> mined]

\* Nothing is going on that a snapshot does not hold.
Quiet ==
  /\ probesOut = {} /\ fetchesOut = {} /\ realOut = {}
  /\ pendingHarvest = 0 /\ harvestQueue = {} /\ excludes = {}
  /\ \A d \in DOMAIN dirs : dirs[d].pendingSeeds = {}

\* CtrlSnapshot, applied by the loop; the session file is replaced.
Save ==
  /\ phase = "running" /\ (SaveWhen = "quiet" => Quiet)
  /\ saved' = {BuildSnapshot}
  /\ UNCHANGED <<treeVars, outVars, harvestVars, controlVars, streakVars, seenContent,
                 requested, staged, resumes>>
  /\ EndIteration

\* Mutants: the directory's known paths or its state is not restored.
RestoredUnknown(ds) ==
  [Calibrating(0) EXCEPT
     !.state = ds.state, !.candidatesTotal = ds.candidatesTotal,
     !.candidatesAccountedFor = ds.candidatesAccountedFor,
     !.requestsDispatched = ds.requestsDispatched, !.budget = ds.budget,
     !.capped = ds.capped, !.wildcardSuspect = ds.wildcardSuspect]
RestoredDone(ds) ==
  [Calibrating(0) EXCEPT
     !.state = "done", !.knownPaths = ds.knownPaths,
     !.candidatesTotal = ds.candidatesTotal,
     !.candidatesAccountedFor = ds.candidatesAccountedFor,
     !.requestsDispatched = ds.requestsDispatched, !.budget = ds.budget,
     !.capped = ds.capped, !.wildcardSuspect = ds.wildcardSuspect]
RestoredScanning(ds) ==
  [Calibrating(0) EXCEPT
     !.state = "scanning", !.knownPaths = ds.knownPaths,
     !.candidatesTotal = ds.candidatesTotal,
     !.candidatesAccountedFor = ds.candidatesAccountedFor,
     !.requestsDispatched = ds.requestsDispatched, !.budget = ds.budget,
     !.capped = ds.capped, !.wildcardSuspect = ds.wildcardSuspect]

\* restoreSnapshot, for a directory that was past its calibration.
Restored(ds) ==
  [Calibrating(0) EXCEPT
     !.state = ds.state, !.knownPaths = ds.knownPaths,
     !.candidatesTotal = ds.candidatesTotal,
     !.candidatesAccountedFor = ds.candidatesAccountedFor,
     !.requestsDispatched = ds.requestsDispatched, !.budget = ds.budget,
     !.capped = ds.capped, !.wildcardSuspect = ds.wildcardSuspect]

\* What startCalibration gives a directory with k probes in scope.  Without any,
\* the root is refined at once, and if that grows the extension set it starts
\* over with again probes (as in SeedRoot).
Recalibrated(s, d, k, grow, again) ==
  IF d = Root /\ ~s.rootRefined /\ k = 0 /\ grow THEN Calibrating(again) ELSE Calibrating(k)

\* NewCoordinatorFromSnapshot and the start of Run for a resumed scan: no
\* profiling, no seeding.  A directory saved in its calibration starts it again.
RestoreSnapshot(s, probes, grow, again, limit) ==
  LET redo == {d \in DOMAIN s.dirs : s.dirs[d].state = "calibrating"}
      fresh == [d \in redo |-> Recalibrated(s, d, probes[d], grow, again)]
  IN  /\ resumes < MaxResumes /\ resumes' = resumes + 1
      /\ phase' = "running"
      /\ dirs' = [d \in DOMAIN s.dirs |->
                    IF d \in redo THEN Entered(d, fresh[d]) ELSE Restored(s.dirs[d])]
      /\ frontier' = s.frontier \cup UNION {EnteredPush(d, fresh[d]) : d \in redo}
      /\ rootRefined' = (s.rootRefined \/ (Root \in redo /\ probes[Root] = 0))
      /\ seenContent' = s.seenContent /\ crawlVisited' = s.crawlVisited
      /\ harvestQueue' = {} /\ pendingHarvest' = 0
      /\ probesOut' = {} /\ fetchesOut' = {} /\ realOut' = {}
      /\ excludes' = {} /\ paused' = FALSE /\ cancelled' = FALSE
      /\ concurrencyCap' = limit
      /\ lastDispatchDir' = Root /\ dispatchStreak' = 0
      /\ requested' = s.requested /\ staged' = s.staged /\ mined' = s.mined
      /\ UNCHANGED saved

SessionInit == Init /\ saved = {} /\ resumes = 0

Resuming ==
  \E s \in saved, grow \in May("grow"), again \in 0..NProbes, limit \in Concurrency :
    \E probes \in [DOMAIN s.dirs -> 0..NProbes] : RestoreSnapshot(s, probes, grow, again, limit)

SessionNext == (Next /\ UNCHANGED sessionVars) \/ Save \/ Resuming

\* The fairness of Coordinator; nothing is assumed of who saves and resumes.
SessionSpec ==
  /\ SessionInit /\ [][SessionNext]_allVars
  /\ WF_allVars(Progress /\ UNCHANGED sessionVars)
  /\ WF_allVars(ProducerExit /\ UNCHANGED sessionVars)
  /\ WF_allVars(Tick /\ UNCHANGED sessionVars)
  /\ WF_allVars(ContextDone /\ UNCHANGED sessionVars)

-----------------------------------------------------------------------------
(* Properties.  Accounting, CalibrationGates, RequestedOnce and             *)
(* FinishedComplete of Coordinator are checked across resumptions as well.  *)

\* A resumed scan ends, unless it is left paused: it continues from the point
\* where it was saved and does what was left.
ResumedTerminates ==
  [](resumes > 0 => (<>[](~paused) => <>(phase \in {"finished", "stopped"})))
=============================================================================
