------------------------------ MODULE Dispatch ------------------------------
(***************************************************************************)
(* The goroutines of one scan: the coordinator's dispatchLoop and its      *)
(* hand-off to a worker (dispatch), the workers (RunWorker), the two       *)
(* channels between them, the pacer that gates dispatch, the producer      *)
(* goroutines with their unbuffered channels, and the shutdown in Run.     *)
(* What the items are, and in which order they are picked, is Coordinator; *)
(* an item here is any probe, harvest fetch or candidate.                  *)
(*                                                                         *)
(* A buffered channel is the set of what it holds: no property tells the   *)
(* orders apart, and the set allows every one.                             *)
(***************************************************************************)
EXTENDS Integers, FiniteSets

CONSTANTS
  Item,         \* everything a scan may come to request
  Start,        \* what calibration and passive seeding queue before the loop
  MaxPaces,     \* bound on the active probes one refinement sends
  Concurrency,  \* Config.Concurrency: first workers, capacity of both channels
  MaxWorkers,
  Setups,       \* the configurations and users considered
  Producer,     \* producer goroutines
  Archive,      \* the producers that query the web archive, when it is on (seedWaybackAsync)
  MaxBatches,   \* bound on the batches one producer sends
  UserCommands  \* whether a user pauses, resumes and stops the scan

None == "none"
ASSUME DispatchAssumption ==
  /\ None \notin Item /\ IsFiniteSet(Item)
  /\ Start \subseteq Item
  /\ MaxPaces \in Nat \ {0} /\ MaxBatches \in Nat \ {0}
  /\ MaxWorkers \in Nat /\ Concurrency \in 1..MaxWorkers
  /\ Setups \subseteq [refining : SUBSET Item, limits : SUBSET (1..MaxWorkers)]
  /\ Archive \subseteq Producer /\ IsFiniteSet(Producer)
  /\ UserCommands \in BOOLEAN

Worker == 1..MaxWorkers

VARIABLES
  pc,         \* Run: loop, joining (workCh closed, wg.Wait), returned
  finished,   \* scan.finished was emitted
  todo,       \* what nextDispatchable can return
  hand,       \* the item dispatch is trying to send, or None
  refining,   \* the item whose handleResult waits for the pacer, or None
  paces,      \* paced requests that refinement still has to send
  pacer,      \* armed, fired (a tick is ready) or idle (received, Advance not called)
  workCh, resultsCh,
  worker,     \* worker |-> absent, idle, busy, sending, exited
  witem,      \* worker |-> the item it works on, or None
  inFlight, limit, paused,
  setup,      \* refining: the root's last probe, when its result triggers active
              \* probes; limits: what the user may set the concurrency to
  cancelled,  \* runCtx is done
  producer,   \* producer |-> unborn, pacing, working, sending, exited
  batch,      \* producer |-> the items of the batch it is sending
  batches,    \* producer |-> batches sent so far
  archive,    \* archivePacer: armed, fired or stopped
  seen,       \* items ever queued (knownPaths and crawlVisited)
  handled     \* history: items whose result was handled

poolState == <<todo, seen, handled>>
loopVars == <<hand, refining, paces, pacer>>
chanVars == <<workCh, resultsCh>>
workerVars == <<worker, witem>>
userVars == <<limit, paused, setup>>
producerVars == <<producer, batch, batches>>
vars == <<pc, finished, poolState, loopVars, chanVars, workerVars, inFlight, userVars,
          cancelled, producerVars, archive>>

\* The select of dispatchLoop, and the one of dispatch.
InLoop == pc = "loop" /\ hand = None /\ refining = None
InHandOff == pc = "loop" /\ hand # None /\ refining = None

-----------------------------------------------------------------------------
(* The termination check at the end of every iteration.                    *)

PendingHarvest == {p \in Producer : producer[p] \notin {"unborn", "exited"}}

\* Frontier, directories and harvest queue are todo.
Complete == todo = {} /\ inFlight = 0 /\ PendingHarvest = {}

EndIteration ==
  /\ finished' = Complete'
  /\ pc' = IF Complete' THEN "joining" ELSE "loop"

-----------------------------------------------------------------------------
(* The coordinator goroutine.                                              *)

PacerFires ==
  /\ pacer = "armed" /\ pc # "returned"
  /\ pacer' = "fired"
  /\ UNCHANGED <<pc, finished, poolState, hand, refining, paces, chanVars, workerVars,
                 inFlight, userVars, cancelled, producerVars, archive>>

CanDispatch == ~paused /\ inFlight < limit /\ todo # {}

\* The tick is received; dispatch starts with item i.
TickDispatch(i) ==
  /\ InLoop /\ pacer = "fired" /\ CanDispatch /\ i \in todo
  /\ todo' = todo \ {i} /\ hand' = i /\ inFlight' = inFlight + 1
  /\ pacer' = "idle"
  /\ UNCHANGED <<pc, finished, seen, handled, refining, paces, chanVars, workerVars,
                 userVars, cancelled, producerVars, archive>>

\* The tick is received, nothing may be dispatched, the pacer is armed again.
TickIdle ==
  /\ InLoop /\ pacer = "fired" /\ ~CanDispatch
  /\ pacer' = "armed"
  /\ UNCHANGED <<poolState, hand, refining, paces, chanVars, workerVars, inFlight,
                 userVars, cancelled, producerVars, archive>>
  /\ EndIteration

\* dispatch: workCh has room.  The loop goes on with pacer.Advance.
HandOff ==
  /\ InHandOff /\ Cardinality(workCh) < Concurrency
  /\ workCh' = workCh \cup {hand} /\ hand' = None
  /\ pacer' = "armed"
  /\ UNCHANGED <<poolState, refining, paces, resultsCh, workerVars, inFlight, userVars,
                 cancelled, producerVars, archive>>
  /\ EndIteration

\* dispatch: the context is done.  The item is dropped and the loop returns.
HandOffCancelled ==
  /\ InHandOff /\ cancelled
  /\ hand' = None /\ pc' = "joining"
  /\ UNCHANGED <<finished, poolState, refining, paces, pacer, chanVars, workerVars,
                 inFlight, userVars, cancelled, producerVars, archive>>

\* handleResult, but for the count: the items S are queued for the first time,
\* the producers Q are started (spawnHarvest).
Learn(S, Q) ==
  /\ todo' = todo \cup S /\ seen' = seen \cup S
  /\ producer' = [p \in Producer |-> IF p \in Q THEN "working" ELSE producer[p]]

Fresh == SUBSET (Item \ seen)
Unborn == SUBSET {p \in Producer : producer[p] = "unborn"}

\* Mutant: the in-flight count is only taken down in the main loop.
ReceiveUncounted(i, S, Q) ==
  /\ InLoop \/ InHandOff
  /\ i \in resultsCh \ setup.refining
  /\ resultsCh' = resultsCh \ {i} /\ handled' = handled \cup {i}
  /\ inFlight' = IF hand = None THEN inFlight - 1 ELSE inFlight
  /\ Learn(S, Q)
  /\ UNCHANGED <<hand, refining, paces, pacer, workCh, workerVars, userVars, cancelled,
                 batch, batches, archive>>
  /\ IF hand = None THEN EndIteration ELSE UNCHANGED <<pc, finished>>

\* A result is received, in the loop or while an item is being handed off, and
\* handled.  Only the loop then checks for the end.
Receive(i, S, Q) ==
  /\ InLoop \/ InHandOff
  /\ i \in resultsCh \ setup.refining
  /\ resultsCh' = resultsCh \ {i} /\ handled' = handled \cup {i}
  /\ inFlight' = inFlight - 1
  /\ Learn(S, Q)
  /\ UNCHANGED <<hand, refining, paces, pacer, workCh, workerVars, userVars, cancelled,
                 batch, batches, archive>>
  /\ IF hand = None THEN EndIteration ELSE UNCHANGED <<pc, finished>>

\* The result that ends the root's calibration: RefineAfterCalibration sends n
\* active probes from inside handleResult, each after a tick of the pacer.
ReceiveRefining(i, n) ==
  /\ InLoop \/ InHandOff
  /\ i \in resultsCh \cap setup.refining
  /\ resultsCh' = resultsCh \ {i} /\ inFlight' = inFlight - 1
  /\ refining' = i /\ paces' = n
  /\ UNCHANGED <<pc, finished, poolState, hand, pacer, workCh, workerVars, userVars,
                 cancelled, producerVars, archive>>

\* paceProfileRequest: receives a tick and arms the pacer; the context is not
\* looked at.
PaceProfileRequest ==
  /\ pc = "loop" /\ refining # None /\ paces > 0 /\ pacer = "fired"
  /\ pacer' = "armed" /\ paces' = paces - 1
  /\ UNCHANGED <<pc, finished, poolState, hand, refining, chanVars, workerVars, inFlight,
                 userVars, cancelled, producerVars, archive>>

\* The rest of finishCalibration.
Refined(S, Q) ==
  /\ pc = "loop" /\ refining # None /\ paces = 0
  /\ refining' = None /\ handled' = handled \cup {refining}
  /\ Learn(S, Q)
  /\ UNCHANGED <<hand, paces, pacer, chanVars, workerVars, inFlight, userVars, cancelled,
                 batch, batches, archive>>
  /\ IF hand = None THEN EndIteration ELSE UNCHANGED <<pc, finished>>

ContextDone ==
  /\ InLoop /\ cancelled
  /\ pc' = "joining"
  /\ UNCHANGED <<finished, poolState, loopVars, chanVars, workerVars, inFlight, userVars,
                 cancelled, producerVars, archive>>

\* A telemetry ticker: the termination check only.
Ticker ==
  /\ InLoop
  /\ UNCHANGED <<poolState, loopVars, chanVars, workerVars, inFlight, userVars, cancelled,
                 producerVars, archive>>
  /\ EndIteration

\* Run: the workers are joined, the pacers stopped, the context cancelled.
Join ==
  /\ pc = "joining" /\ \A w \in Worker : worker[w] \in {"absent", "exited"}
  /\ pc' = "returned" /\ pacer' = "idle" /\ archive' = "stopped" /\ cancelled' = TRUE
  /\ UNCHANGED <<finished, poolState, hand, refining, paces, chanVars, workerVars, inFlight,
                 userVars, producerVars>>

-----------------------------------------------------------------------------
(* Workers: RunWorker.                                                     *)

WorkerTake(w, i) ==
  /\ worker[w] = "idle" /\ i \in workCh
  /\ workCh' = workCh \ {i}
  /\ worker' = [worker EXCEPT ![w] = "busy"] /\ witem' = [witem EXCEPT ![w] = i]
  /\ UNCHANGED <<pc, finished, poolState, loopVars, resultsCh, inFlight, userVars, cancelled,
                 producerVars, archive>>

\* The request ended, with a response, an error or a timeout.
WorkerProcess(w) ==
  /\ worker[w] = "busy"
  /\ worker' = [worker EXCEPT ![w] = "sending"]
  /\ UNCHANGED <<pc, finished, poolState, loopVars, chanVars, witem, inFlight, userVars,
                 cancelled, producerVars, archive>>

WorkerSend(w) ==
  /\ worker[w] = "sending" /\ Cardinality(resultsCh) < Concurrency
  /\ resultsCh' = resultsCh \cup {witem[w]}
  /\ worker' = [worker EXCEPT ![w] = "idle"] /\ witem' = [witem EXCEPT ![w] = None]
  /\ UNCHANGED <<pc, finished, poolState, loopVars, workCh, inFlight, userVars, cancelled,
                 producerVars, archive>>

\* Mutant: a worker does not look at the context while it delivers a result.
WorkerExitIdleOnly(w) ==
  /\ worker[w] = "idle" /\ (cancelled \/ (pc # "loop" /\ workCh = {}))
  /\ worker' = [worker EXCEPT ![w] = "exited"] /\ witem' = [witem EXCEPT ![w] = None]
  /\ UNCHANGED <<pc, finished, poolState, loopVars, chanVars, inFlight, userVars, cancelled,
                 producerVars, archive>>

\* The context is done, while idle or while delivering a result, or the closed
\* workCh is drained.
WorkerExit(w) ==
  /\ \/ worker[w] = "idle" /\ (cancelled \/ (pc # "loop" /\ workCh = {}))
     \/ worker[w] = "sending" /\ cancelled
  /\ worker' = [worker EXCEPT ![w] = "exited"] /\ witem' = [witem EXCEPT ![w] = None]
  /\ UNCHANGED <<pc, finished, poolState, loopVars, chanVars, inFlight, userVars, cancelled,
                 producerVars, archive>>

WorkerStep(w) ==
  \/ \E i \in workCh : WorkerTake(w, i)
  \/ WorkerProcess(w) \/ WorkerSend(w) \/ WorkerExit(w)

-----------------------------------------------------------------------------
(* Producers: spawnHarvest, injectBatch, requestHarvestFetch.              *)

ArchiveFires ==
  /\ archive = "armed"
  /\ archive' = "fired"
  /\ UNCHANGED <<pc, finished, poolState, loopVars, chanVars, workerVars, inFlight, userVars,
                 cancelled, producerVars>>

\* archivePace.
ArchivePace(p) ==
  /\ producer[p] = "pacing" /\ archive = "fired"
  /\ archive' = "armed" /\ producer' = [producer EXCEPT ![p] = "working"]
  /\ UNCHANGED <<pc, finished, poolState, loopVars, chanVars, workerVars, inFlight, userVars,
                 cancelled, batch, batches>>

\* The producer has a batch of seeds, or a script to fetch, for the coordinator.
Produce(p, B) ==
  /\ producer[p] = "working" /\ batches[p] < MaxBatches
  /\ producer' = [producer EXCEPT ![p] = "sending"]
  /\ batch' = [batch EXCEPT ![p] = B] /\ batches' = [batches EXCEPT ![p] = @ + 1]
  /\ UNCHANGED <<pc, finished, poolState, loopVars, chanVars, workerVars, inFlight, userVars,
                 cancelled, archive>>

\* Mutants: the producer gives a batch up without being cancelled, or never.
AbandonAnyTime(p) ==
  /\ producer[p] = "sending"
  /\ producer' = [producer EXCEPT ![p] = "working"] /\ batch' = [batch EXCEPT ![p] = {}]
  /\ UNCHANGED <<pc, finished, poolState, loopVars, chanVars, workerVars, inFlight, userVars,
                 cancelled, batches, archive>>

AbandonNever(p) == producer[p] = "sending" /\ cancelled /\ UNCHANGED vars

\* The context is done: the producer gives its batch up and goes on.
Abandon(p) ==
  /\ producer[p] = "sending" /\ cancelled
  /\ producer' = [producer EXCEPT ![p] = "working"] /\ batch' = [batch EXCEPT ![p] = {}]
  /\ UNCHANGED <<pc, finished, poolState, loopVars, chanVars, workerVars, inFlight, userVars,
                 cancelled, batches, archive>>

ProducerExit(p) ==
  /\ producer[p] = "working"
  /\ producer' = [producer EXCEPT ![p] = "exited"]
  /\ UNCHANGED <<pc, finished, poolState, loopVars, chanVars, workerVars, inFlight, userVars,
                 cancelled, batch, batches, archive>>

\* The rendezvous on seedInjectCh or harvestFetchCh: what is new is queued.
Deliver(p) ==
  /\ InLoop /\ producer[p] = "sending"
  /\ todo' = todo \cup (batch[p] \ seen) /\ seen' = seen \cup batch[p]
  /\ producer' = [producer EXCEPT ![p] = "working"] /\ batch' = [batch EXCEPT ![p] = {}]
  /\ UNCHANGED <<handled, loopVars, chanVars, workerVars, inFlight, userVars, cancelled,
                 batches, archive>>
  /\ EndIteration

ProducerStep(p) ==
  \/ ArchivePace(p) \/ Abandon(p) \/ ProducerExit(p)
  \/ \E B \in SUBSET Item : Produce(p, B)

-----------------------------------------------------------------------------
(* The user and the caller of Run.                                         *)

\* The caller's context is cancelled, or CtrlStop.
Cancel ==
  /\ UserCommands /\ ~cancelled
  /\ cancelled' = TRUE
  /\ UNCHANGED <<pc, finished, poolState, loopVars, chanVars, workerVars, inFlight, userVars,
                 producerVars, archive>>

SetPaused(value) ==
  /\ UserCommands /\ InLoop /\ paused # value
  /\ paused' = value
  /\ UNCHANGED <<poolState, loopVars, chanVars, workerVars, inFlight, limit, setup, cancelled,
                 producerVars, archive>>
  /\ EndIteration

\* applyAdjust: a limit above the number of workers starts the missing ones; the
\* channels keep their capacity.
AdjustConcurrency(n) ==
  /\ InLoop /\ n # limit
  /\ limit' = n
  /\ worker' = [w \in Worker |-> IF worker[w] = "absent" /\ w <= n THEN "idle" ELSE worker[w]]
  /\ UNCHANGED <<poolState, loopVars, chanVars, witem, inFlight, paused, setup, cancelled,
                 producerVars, archive>>
  /\ EndIteration

-----------------------------------------------------------------------------
Init ==
  /\ pc = "loop" /\ finished = FALSE
  /\ todo = Start /\ seen = Start /\ handled = {}
  /\ hand = None /\ refining = None /\ paces = 0 /\ pacer = "armed"
  /\ workCh = {} /\ resultsCh = {}
  /\ worker = [w \in Worker |-> IF w <= Concurrency THEN "idle" ELSE "absent"]
  /\ witem = [w \in Worker |-> None]
  /\ inFlight = 0 /\ limit = Concurrency /\ paused = FALSE /\ cancelled = FALSE
  /\ setup \in Setups
  /\ \E on \in SUBSET Archive :
       producer = [p \in Producer |-> IF p \in on THEN "pacing" ELSE "unborn"]
  /\ batch = [p \in Producer |-> {}] /\ batches = [p \in Producer |-> 0]
  /\ archive = "armed"

Tick == (\E i \in todo : TickDispatch(i)) \/ TickIdle
Results ==
  \/ \E i \in resultsCh, S \in Fresh, Q \in Unborn : Receive(i, S, Q)
  \/ \E i \in resultsCh, n \in 1..MaxPaces : ReceiveRefining(i, n)
Refinement ==
  \/ PaceProfileRequest
  \/ \E S \in Fresh, Q \in Unborn : Refined(S, Q)
User ==
  \/ Cancel
  \/ \E value \in BOOLEAN : SetPaused(value)
  \/ \E n \in setup.limits : AdjustConcurrency(n)

\* Run has returned: nothing but the producers may still move.
Terminated == pc = "returned" /\ UNCHANGED vars

Next ==
  \/ PacerFires \/ Tick \/ HandOff \/ HandOffCancelled
  \/ Results \/ Refinement
  \/ ContextDone \/ Ticker \/ Join
  \/ \E w \in Worker : WorkerStep(w)
  \/ ArchiveFires
  \/ \E p \in Producer : ProducerStep(p) \/ Deliver(p)
  \/ User
  \/ Terminated

Spec == Init /\ [][Next]_vars

\* Fairness: timers fire, a request ends (the client has a timeout), goroutines
\* run, and select picks a case that stays ready (it chooses at random).
\* Nothing is assumed of the user.
Fairness ==
  /\ WF_vars(PacerFires) /\ WF_vars(Tick) /\ WF_vars(HandOff) /\ WF_vars(HandOffCancelled)
  /\ WF_vars(Results) /\ WF_vars(Refinement)
  /\ WF_vars(ContextDone) /\ WF_vars(Ticker) /\ WF_vars(Join)
  /\ \A w \in Worker : WF_vars(WorkerStep(w))
  /\ WF_vars(ArchiveFires)
  /\ \A p \in Producer : WF_vars(ProducerStep(p)) /\ WF_vars(Deliver(p))
FairSpec == Spec /\ Fairness

-----------------------------------------------------------------------------
(* Properties.                                                             *)

\* Every variable has its type.
TypeOK ==
  /\ pc \in {"loop", "joining", "returned"} /\ finished \in BOOLEAN
  /\ todo \subseteq Item /\ seen \subseteq Item /\ handled \subseteq Item
  /\ hand \in Item \cup {None} /\ refining \in Item \cup {None}
  /\ paces \in 0..MaxPaces /\ pacer \in {"armed", "fired", "idle"}
  /\ workCh \subseteq Item /\ resultsCh \subseteq Item
  /\ Cardinality(workCh) <= Concurrency /\ Cardinality(resultsCh) <= Concurrency
  /\ worker \in [Worker -> {"absent", "idle", "busy", "sending", "exited"}]
  /\ witem \in [Worker -> Item \cup {None}]
  /\ inFlight \in Nat /\ limit \in 1..MaxWorkers
  /\ paused \in BOOLEAN /\ cancelled \in BOOLEAN
  /\ producer \in [Producer -> {"unborn", "pacing", "working", "sending", "exited"}]
  /\ batch \in [Producer -> SUBSET Item] /\ batches \in [Producer -> 0..MaxBatches]
  /\ archive \in {"armed", "fired", "stopped"}

\* Where a dispatched item can be.
Handed == {hand, refining} \ {None}
Held == {witem[w] : w \in Worker} \ {None}
Out == Handed \cup workCh \cup Held \cup resultsCh

\* inFlight, which the termination check and the concurrency cap rest on, is
\* the number of items between nextDispatchable and handleResult, although the
\* hand-off handles results itself; an item is never in two places.
InFlightExact ==
  ~cancelled => /\ inFlight = Cardinality(Out \ {refining})
                /\ Out \cap (todo \cup handled) = {}

\* What the pool sees of the goroutines and channels.
Promised == (UNION {batch[p] : p \in Producer}) \ seen
Verdict == IF finished THEN "finished" ELSE IF pc = "loop" THEN "running" ELSE "stopped"
Pool == INSTANCE WorkPool WITH promised <- Promised, out <- Out, verdict <- Verdict

\* The goroutines and channels implement the pool Coordinator.tla is written
\* against: nothing queued, promised or handed out is lost, nothing is handled
\* twice, and the scan is finished only when nothing is left.
Implements == Pool!Spec

\* Unless the user leaves it paused, Run returns: no set of full channels,
\* blocked workers, waiting producers and an unfinished hand-off stops it.
Returns == <>[](~paused) => <>(pc = "returned")

\* A cancelled scan returns, paused or not, wherever its goroutines wait.
CancelReturns == cancelled ~> pc = "returned"

\* dispatch's promise of forward progress: an item being handed off is
\* eventually handed off, or dropped because the scan is cancelled.
HandOffProgress == InHandOff ~> hand = None

\* No producer goroutine outlives the scan for ever, but one that waits for the
\* archive's pacer: archivePace does not look at the context.
ProducersEnd == pc = "returned" ~> \A p \in PendingHarvest : producer[p] = "pacing"
=============================================================================
