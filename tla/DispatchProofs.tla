--------------------------- MODULE DispatchProofs ---------------------------
(***************************************************************************)
(* Theorems about Dispatch, for every number of items, workers, producers  *)
(* and refinements, every capacity and every order of the goroutines'      *)
(* steps: its typing, the exact in-flight count, and that it implements    *)
(* WorkPool.                                                               *)
(***************************************************************************)
EXTENDS Dispatch, FiniteSetTheorems, TLAPS

\* The groups of variables are read as their parts throughout.
USE DEF poolState, loopVars, chanVars, workerVars, userVars, producerVars

(* The inductive invariant, in the parts the actions disturb apart.        *)

\* What the loop counts: everything dispatched but the result being refined.
Flying == ({hand} \ {None}) \cup workCh \cup Held \cup resultsCh

Typed == TypeOK /\ setup \in Setups

\* A worker holds an item exactly while it works on it or delivers it.
Holding == \A w \in Worker : worker[w] \in {"busy", "sending"} <=> witem[w] # None

\* An item is in one place at most, and only after it was queued.
Apart ==
  /\ \A v, w \in Worker : v # w /\ witem[v] = witem[w] => witem[v] = None
  /\ \A w \in Worker : witem[w] \notin workCh \cup resultsCh
  /\ workCh \cap resultsCh = {}
  /\ hand # None => hand \notin workCh \cup resultsCh /\ \A w \in Worker : witem[w] # hand
  /\ refining \notin Flying
Once ==
  /\ Out \cap (todo \cup handled) = {} /\ todo \cap handled = {}
  /\ Out \cup todo \cup handled \subseteq seen
Places == Holding /\ Apart /\ Once

\* Only a cancelled scan drops items without counting them down, and never counts
\* one down that it did not count up.
Counts ==
  /\ pc = "loop" \/ finished => inFlight >= Cardinality(Flying)
  /\ ~cancelled => inFlight = Cardinality(Flying)

\* A finished scan has no producer left, and a producer has a batch only while it
\* sends it.
Ends ==
  /\ pc = "loop" => ~finished
  /\ finished => PendingHarvest = {}
  /\ \A p \in Producer : producer[p] # "sending" => batch[p] = {}

IInv == Typed /\ Places /\ Counts /\ Ends

-----------------------------------------------------------------------------
(* Facts about the parts.                                                  *)

\* The termination check leaves the loop exactly when it reports the scan finished.
LEMMA EndIterationFacts ==
  ASSUME EndIteration
  PROVE  /\ pc' \in {"loop", "joining"} /\ finished' \in BOOLEAN
         /\ pc' = "loop" <=> ~finished'
         /\ finished' => Complete'
<1>1. CASE Complete'
  <2>1. finished' = TRUE /\ pc' = "joining"
    BY <1>1, Zenon DEF EndIteration
  <2>2. QED
    BY <1>1, <2>1
<1>2. CASE ~Complete'
  <2>1. finished' = FALSE /\ pc' = "loop"
    BY <1>2, Zenon DEF EndIteration, Complete
  <2>2. QED
    BY <1>2, <2>1
<1>3. QED
  BY <1>1, <1>2

\* What the workers hold are items.
LEMMA HeldFacts ==
  ASSUME TypeOK
  PROVE  /\ Held \subseteq Item
         /\ \A x : x \in Held <=> x # None /\ \E w \in Worker : witem[w] = x
BY DEF TypeOK, Held

\* What flies is a finite set of items.
LEMMA FlyingFacts ==
  ASSUME TypeOK
  PROVE  /\ Flying \subseteq Item /\ IsFiniteSet(Flying) /\ Cardinality(Flying) \in Nat
         /\ refining \notin Flying => Out \ {refining} = Flying
         /\ Out = Flying \cup ({refining} \ {None}) /\ Out \subseteq Item
<1>1. None \notin Item /\ IsFiniteSet(Item)
  BY DispatchAssumption
<1>2. Held \subseteq Item
  BY HeldFacts
<1>3. Flying \subseteq Item
  BY <1>1, <1>2 DEF Flying, TypeOK
<1>4. IsFiniteSet(Flying)
  BY <1>1, <1>3, FS_Subset
<1>5. Cardinality(Flying) \in Nat
  BY <1>4, FS_CardinalityType
<1>6. Out = Flying \cup ({refining} \ {None})
  BY DEF Out, Flying, Handed
<1>7. QED
  BY <1>1, <1>3, <1>4, <1>5, <1>6 DEF TypeOK

\* Counting up for a new item keeps the count.
LEMMA CountUp ==
  ASSUME TypeOK, Counts, NEW i, i \notin Flying, Flying' = Flying \cup {i},
         pc = "loop", inFlight' = inFlight + 1, UNCHANGED cancelled
  PROVE  Counts'
<1>1. IsFiniteSet(Flying) /\ Cardinality(Flying) \in Nat /\ inFlight \in Nat
  BY FlyingFacts DEF TypeOK
<1>2. Cardinality(Flying') = Cardinality(Flying) + 1
  BY <1>1, FS_AddElement
<1> HIDE DEF Flying
<1>3. QED
  BY <1>1, <1>2 DEF Counts

\* So does counting down for one that flew; the count never goes below zero.
LEMMA CountDown ==
  ASSUME TypeOK, Counts, NEW i, i \in Flying, Flying' = Flying \ {i},
         pc = "loop", inFlight' = inFlight - 1, UNCHANGED cancelled
  PROVE  Counts' /\ inFlight' \in Nat
<1>1. IsFiniteSet(Flying) /\ Cardinality(Flying) \in Nat /\ inFlight \in Nat
  BY FlyingFacts DEF TypeOK
<1>2. Cardinality(Flying') = Cardinality(Flying) - 1 /\ Cardinality(Flying) # 0
  BY <1>1, FS_RemoveElement, FS_EmptySet
<1>3. QED
  BY <1>1, <1>2 DEF Counts

\* So does a step that moves items about among those that fly.
LEMMA CountSame ==
  ASSUME Counts, Flying' = Flying, UNCHANGED inFlight,
         cancelled => cancelled',
         pc' = "loop" \/ finished' => pc = "loop" \/ finished
  PROVE  Counts'
BY DEF Counts

\* A cancelled scan may drop what flies.
LEMMA CountDrop ==
  ASSUME TypeOK, Counts, Flying' \subseteq Flying, UNCHANGED inFlight,
         cancelled, cancelled', pc' = "loop" \/ finished' => pc = "loop" \/ finished
  PROVE  Counts'
<1>1. IsFiniteSet(Flying) /\ Cardinality(Flying) \in Nat /\ inFlight \in Nat
  BY FlyingFacts DEF TypeOK
<1>2. Cardinality(Flying') \in Nat /\ Cardinality(Flying') <= Cardinality(Flying)
  BY <1>1, FS_Subset, FS_CardinalityType
<1>3. QED
  BY <1>1, <1>2 DEF Counts

\* Steps that touch neither channels nor workers nor the loop's hand.
LEMMA PlacesSame ==
  ASSUME Places,
         UNCHANGED <<hand, refining, workCh, resultsCh, worker, witem, todo, seen, handled>>
  PROVE  Places' /\ Flying' = Flying /\ Out' = Out
BY DEF Places, Holding, Apart, Once, Flying, Out, Handed, Held

-----------------------------------------------------------------------------
(* Where the items are, one lemma per action that moves one.               *)

\* An item goes from the queue into the loop's hand.
LEMMA TickDispatchPlaces ==
  ASSUME IInv, NEW i \in todo, TickDispatch(i)
  PROVE  /\ Places' /\ i \notin Flying /\ Flying' = Flying \cup {i} /\ Out' = Out \cup {i}
<1>1. TypeOK /\ Places
  BY DEF IInv, Typed
<1>2. hand = None /\ refining = None /\ hand' = i
      /\ UNCHANGED <<refining, workCh, resultsCh, worker, witem, seen, handled>>
      /\ todo' = todo \ {i}
  BY DEF TickDispatch, InLoop
<1>3. i \in Item /\ i # None /\ i \notin Out /\ i \notin handled /\ i \in seen
  BY <1>1, DispatchAssumption DEF TypeOK, Places, Once
<1>4. Held' = Held
  BY <1>2 DEF Held
<1>5. Flying' = Flying \cup {i} /\ Out' = Out \cup {i} /\ i \notin Flying
  BY <1>2, <1>3, <1>4 DEF Flying, Out, Handed
<1>6. Holding'
  BY <1>1, <1>2 DEF Places, Holding
<1>7. \A w \in Worker : witem[w] # i
  BY <1>3 DEF Out, Held
<1>8. Apart'
  <2>1. i \notin workCh \cup resultsCh
    BY <1>3 DEF Out
  <2>2. refining' \notin Flying'
    BY <1>1, <1>2, <1>3, <1>5 DEF Places, Apart
  <2>3. QED
    BY <1>1, <1>2, <1>7, <2>1, <2>2 DEF Places, Apart
<1>9. Once'
  BY <1>1, <1>2, <1>3, <1>5 DEF Places, Once
<1>10. QED
  BY <1>5, <1>6, <1>8, <1>9 DEF Places

\* The loop's hand goes into workCh, which keeps its capacity.
LEMMA HandOffPlaces ==
  ASSUME IInv, HandOff
  PROVE  /\ Places' /\ Flying' = Flying /\ Out' = Out
         /\ workCh' \subseteq Item /\ Cardinality(workCh') <= Concurrency
<1>1. TypeOK /\ Places
  BY DEF IInv, Typed
<1>2. hand # None /\ refining = None /\ hand' = None /\ workCh' = workCh \cup {hand}
      /\ UNCHANGED <<refining, resultsCh, worker, witem, todo, seen, handled>>
  BY DEF HandOff, InHandOff
<1>3. hand \in Item /\ hand \notin workCh
  BY <1>1, <1>2 DEF TypeOK, Places, Apart
<1>4. Held' = Held
  BY <1>2 DEF Held
<1>5. Flying' = Flying /\ Out' = Out
  BY <1>2, <1>3, <1>4 DEF Flying, Out, Handed
<1>6. Holding'
  BY <1>1, <1>2 DEF Places, Holding
<1>7. Apart'
  BY <1>1, <1>2, <1>3, <1>5 DEF Places, Apart
<1>8. Once'
  BY <1>1, <1>2, <1>5 DEF Places, Once
<1>9. Cardinality(workCh') <= Concurrency
  <2>1. IsFiniteSet(workCh) /\ Cardinality(workCh) < Concurrency
    BY <1>1, DispatchAssumption, FS_Subset DEF TypeOK, HandOff
  <2>2. /\ Cardinality(workCh) \in Nat
        /\ Cardinality(workCh \cup {hand}) = Cardinality(workCh) + 1
    BY <1>3, <2>1, FS_AddElement, FS_CardinalityType
  <2>3. QED
    BY <1>2, <2>1, <2>2, DispatchAssumption
<1>10. QED
  BY <1>1, <1>2, <1>3, <1>5, <1>6, <1>7, <1>8, <1>9 DEF Places, TypeOK

\* A cancelled hand-off drops the item.
LEMMA HandOffCancelledPlaces ==
  ASSUME IInv, HandOffCancelled
  PROVE  Places' /\ Flying' \subseteq Flying /\ Out' \subseteq Out
<1>1. TypeOK /\ Places
  BY DEF IInv, Typed
<1>2. hand' = None
      /\ UNCHANGED <<refining, workCh, resultsCh, worker, witem, todo, seen, handled>>
  BY DEF HandOffCancelled
<1>3. Held' = Held
  BY <1>2 DEF Held
<1>4. Flying' \subseteq Flying /\ Out' \subseteq Out
  BY <1>2, <1>3 DEF Flying, Out, Handed
<1>5. Holding'
  BY <1>1, <1>2 DEF Places, Holding
<1>6. Apart'
  BY <1>1, <1>2, <1>4 DEF Places, Apart
<1>7. Once'
  BY <1>1, <1>2, <1>4 DEF Places, Once
<1>8. QED
  BY <1>4, <1>5, <1>6, <1>7 DEF Places

\* A result is handled and new items are queued.
LEMMA ReceivePlaces ==
  ASSUME IInv, NEW i \in resultsCh, NEW S \in Fresh, NEW Q, Receive(i, S, Q)
  PROVE  /\ Places' /\ i \in Flying /\ Flying' = Flying \ {i}
         /\ i \in Out /\ Out' = Out \ {i}
<1>1. TypeOK /\ Places
  BY DEF IInv, Typed
<1>2. refining = None /\ resultsCh' = resultsCh \ {i} /\ handled' = handled \cup {i}
      /\ todo' = todo \cup S /\ seen' = seen \cup S
      /\ UNCHANGED <<hand, refining, workCh, worker, witem>>
  BY DEF Receive, InLoop, InHandOff, Learn
<1>3. i \in Item /\ i # None /\ S \subseteq Item /\ S \cap seen = {}
  BY <1>1, DispatchAssumption DEF TypeOK, Fresh
<1>4. Held' = Held /\ i \notin Held /\ i \notin workCh /\ i # hand
  BY <1>1, <1>2, <1>3 DEF Held, Places, Apart
<1>5. i \in Flying /\ Flying' = Flying \ {i} /\ i \in Out /\ Out' = Out \ {i}
  BY <1>2, <1>3, <1>4 DEF Flying, Out, Handed
<1>6. Holding'
  BY <1>1, <1>2 DEF Places, Holding
<1>7. Apart'
  BY <1>1, <1>2, <1>5 DEF Places, Apart
<1>8. Once'
  BY <1>1, <1>2, <1>3, <1>5 DEF Places, Once
<1>9. QED
  BY <1>5, <1>6, <1>7, <1>8 DEF Places

\* A result is taken to be refined: it no longer flies but is not handled yet.
LEMMA ReceiveRefiningPlaces ==
  ASSUME IInv, NEW i \in resultsCh, NEW n, ReceiveRefining(i, n)
  PROVE  /\ Places' /\ i \in Flying /\ Flying' = Flying \ {i} /\ Out' = Out
<1>1. TypeOK /\ Places
  BY DEF IInv, Typed
<1>2. refining = None /\ resultsCh' = resultsCh \ {i} /\ refining' = i
      /\ UNCHANGED <<hand, workCh, worker, witem, todo, seen, handled>>
  BY DEF ReceiveRefining, InLoop, InHandOff
<1>3. i \in Item /\ i # None
  BY <1>1, DispatchAssumption DEF TypeOK
<1>4. Held' = Held /\ i \notin Held /\ i \notin workCh /\ i # hand
  BY <1>1, <1>2, <1>3 DEF Held, Places, Apart
<1>5. i \in Flying /\ Flying' = Flying \ {i} /\ Out' = Out
  BY <1>2, <1>3, <1>4 DEF Flying, Out, Handed
<1>6. Holding'
  BY <1>1, <1>2 DEF Places, Holding
<1>7. Apart'
  BY <1>1, <1>2, <1>5 DEF Places, Apart
<1>8. Once'
  BY <1>1, <1>2, <1>5 DEF Places, Once
<1>9. QED
  BY <1>5, <1>6, <1>7, <1>8 DEF Places

\* The refined result is handled.
LEMMA RefinedPlaces ==
  ASSUME IInv, NEW S \in Fresh, NEW Q, Refined(S, Q)
  PROVE  /\ Places' /\ Flying' = Flying
         /\ refining \in Out /\ Out' = Out \ {refining}
<1>1. TypeOK /\ Places
  BY DEF IInv, Typed
<1>2. refining # None /\ refining' = None /\ handled' = handled \cup {refining}
      /\ todo' = todo \cup S /\ seen' = seen \cup S
      /\ UNCHANGED <<hand, resultsCh, workCh, worker, witem>>
  BY DEF Refined, Learn
<1>3. refining \in Item /\ S \subseteq Item /\ S \cap seen = {} /\ None \notin Item
  BY <1>1, <1>2, DispatchAssumption DEF TypeOK, Fresh
<1>4. Held' = Held /\ Flying \subseteq Item /\ refining \notin Flying
  BY <1>1, <1>2, FlyingFacts DEF Held, Places, Apart
<1>5. Flying' = Flying /\ refining \in Out /\ Out' = Out \ {refining}
  BY <1>2, <1>3, <1>4 DEF Flying, Out, Handed
<1>6. Holding'
  BY <1>1, <1>2 DEF Places, Holding
<1>7. Apart'
  BY <1>1, <1>2, <1>3, <1>4, <1>5 DEF Places, Apart
<1>8. Once'
  BY <1>1, <1>2, <1>3, <1>5 DEF Places, Once
<1>9. QED
  BY <1>5, <1>6, <1>7, <1>8 DEF Places

\* A worker takes an item out of workCh.
LEMMA WorkerTakePlaces ==
  ASSUME IInv, NEW w \in Worker, NEW i \in workCh, WorkerTake(w, i)
  PROVE  Places' /\ Flying' = Flying /\ Out' = Out
<1>1. TypeOK /\ Places
  BY DEF IInv, Typed
<1>2. worker[w] = "idle" /\ workCh' = workCh \ {i}
      /\ worker' = [worker EXCEPT ![w] = "busy"] /\ witem' = [witem EXCEPT ![w] = i]
      /\ UNCHANGED <<hand, refining, resultsCh, todo, seen, handled>>
  BY DEF WorkerTake
<1>3. i \in Item /\ i # None /\ witem[w] = None
  BY <1>1, <1>2, DispatchAssumption DEF TypeOK, Places, Holding
<1>4. worker' \in [Worker -> {"absent", "idle", "busy", "sending", "exited"}]
      /\ witem' \in [Worker -> Item \cup {None}] /\ witem'[w] = i /\ worker'[w] = "busy"
      /\ \A v \in Worker : v # w => witem'[v] = witem[v] /\ worker'[v] = worker[v]
  BY <1>1, <1>2, <1>3 DEF TypeOK
<1>5. Held' = Held \cup {i}
  BY <1>3, <1>4 DEF Held
<1>6. Flying' = Flying /\ Out' = Out
  BY <1>2, <1>5 DEF Flying, Out, Handed
<1>7. Holding'
  BY <1>1, <1>3, <1>4 DEF Places, Holding
<1>8. i # hand /\ i \notin resultsCh /\ \A v \in Worker : witem[v] # i
  BY <1>1, <1>3 DEF Places, Apart
<1>9. Apart'
  BY <1>1, <1>2, <1>3, <1>4, <1>6, <1>8 DEF Places, Apart
<1>10. Once'
  BY <1>1, <1>2, <1>6 DEF Places, Once
<1>11. QED
  BY <1>6, <1>7, <1>9, <1>10 DEF Places

\* A request ends: the worker goes on to deliver its result.
LEMMA WorkerProcessPlaces ==
  ASSUME IInv, NEW w \in Worker, WorkerProcess(w)
  PROVE  Places' /\ Flying' = Flying /\ Out' = Out
<1>1. TypeOK /\ Places
  BY DEF IInv, Typed
<1>2. worker[w] = "busy" /\ worker' = [worker EXCEPT ![w] = "sending"]
      /\ UNCHANGED <<hand, refining, workCh, resultsCh, witem, todo, seen, handled>>
  BY DEF WorkerProcess
<1>3. Holding'
  BY <1>1, <1>2 DEF TypeOK, Places, Holding
<1>4. Held' = Held
  BY <1>2 DEF Held
<1>5. Flying' = Flying /\ Out' = Out
  BY <1>2, <1>4 DEF Flying, Out, Handed
<1>6. Apart' /\ Once'
  BY <1>1, <1>2, <1>5 DEF Places, Apart, Once
<1>7. QED
  BY <1>3, <1>5, <1>6 DEF Places

\* The result goes into resultsCh, which keeps its capacity.
LEMMA WorkerSendPlaces ==
  ASSUME IInv, NEW w \in Worker, WorkerSend(w)
  PROVE  /\ Places' /\ Flying' = Flying /\ Out' = Out
         /\ resultsCh' \subseteq Item /\ Cardinality(resultsCh') <= Concurrency
<1> DEFINE i == witem[w]
<1>1. TypeOK /\ Places
  BY DEF IInv, Typed
<1>2. worker[w] = "sending" /\ resultsCh' = resultsCh \cup {i}
      /\ worker' = [worker EXCEPT ![w] = "idle"] /\ witem' = [witem EXCEPT ![w] = None]
      /\ UNCHANGED <<hand, refining, workCh, todo, seen, handled>>
  BY DEF WorkerSend
<1>3. i \in Item /\ i # None
  BY <1>1, <1>2, DispatchAssumption DEF TypeOK, Places, Holding
<1>4. witem' \in [Worker -> Item \cup {None}] /\ witem'[w] = None /\ worker'[w] = "idle"
      /\ \A v \in Worker : v # w => witem'[v] = witem[v] /\ worker'[v] = worker[v]
  BY <1>1, <1>2, <1>3 DEF TypeOK
<1>5. \A v \in Worker : v # w => witem[v] # i
  BY <1>1, <1>3 DEF Places, Apart
<1>6. Held' = Held \ {i} /\ i \in Held
  BY <1>3, <1>4, <1>5 DEF Held
<1>7. i # hand /\ i \notin workCh /\ i \notin resultsCh
  BY <1>1, <1>3 DEF Places, Apart
<1> HIDE DEF i
<1>8. Flying' = Flying /\ Out' = Out
  BY <1>2, <1>6 DEF Flying, Out, Handed
<1>9. Holding'
  BY <1>1, <1>3, <1>4 DEF Places, Holding
<1>10. Apart'
  <2>1. \A u, v \in Worker : u # v /\ witem'[u] = witem'[v] => witem'[u] = None
    BY <1>1, <1>4 DEF Places, Apart
  <2>2. \A v \in Worker : witem'[v] \notin workCh' \cup resultsCh'
    <3>1. None \notin workCh' \cup resultsCh'
      BY <1>1, <1>2, <1>3, DispatchAssumption DEF TypeOK
    <3>2. \A v \in Worker : v # w => witem[v] \notin workCh \cup resultsCh /\ witem[v] # i
      BY <1>1, <1>5 DEF Places, Apart
    <3>3. QED
      BY <1>2, <1>4, <3>1, <3>2
  <2>3. hand' # None => /\ hand' \notin workCh' \cup resultsCh'
                        /\ \A v \in Worker : witem'[v] # hand'
    BY <1>1, <1>2, <1>4, <1>7 DEF Places, Apart
  <2>4. QED
    BY <1>1, <1>2, <1>7, <1>8, <2>1, <2>2, <2>3 DEF Places, Apart
<1>11. Once'
  BY <1>1, <1>2, <1>8 DEF Places, Once
<1>12. Cardinality(resultsCh') <= Concurrency
  <2>1. IsFiniteSet(resultsCh) /\ Cardinality(resultsCh) < Concurrency
    BY <1>1, DispatchAssumption, FS_Subset DEF TypeOK, WorkerSend
  <2>2. Cardinality(resultsCh) \in Nat
        /\ Cardinality(resultsCh \cup {i}) = Cardinality(resultsCh) + 1
    BY <1>7, <2>1, FS_AddElement, FS_CardinalityType
  <2>3. QED
    BY <1>2, <2>1, <2>2, DispatchAssumption
<1>13. QED
  BY <1>1, <1>2, <1>3, <1>8, <1>9, <1>10, <1>11, <1>12 DEF Places, TypeOK

\* A worker that exits drops its item, and has one only when the scan is cancelled.
LEMMA WorkerExitPlaces ==
  ASSUME IInv, NEW w \in Worker, WorkerExit(w)
  PROVE  /\ Places' /\ Flying' \subseteq Flying /\ Out' \subseteq Out
         /\ ~cancelled => Flying' = Flying /\ Out' = Out
<1>1. TypeOK /\ Places
  BY DEF IInv, Typed
<1>2. worker' = [worker EXCEPT ![w] = "exited"] /\ witem' = [witem EXCEPT ![w] = None]
      /\ UNCHANGED <<hand, refining, workCh, resultsCh, todo, seen, handled>>
      /\ (~cancelled => worker[w] = "idle")
  BY DEF WorkerExit
<1>3. witem'[w] = None /\ worker'[w] = "exited"
      /\ \A v \in Worker : v # w => witem'[v] = witem[v] /\ worker'[v] = worker[v]
  BY <1>1, <1>2 DEF TypeOK
<1>4. Held' \subseteq Held
  BY <1>3 DEF Held
<1>5. ~cancelled => Held' = Held
  <2> SUFFICES ASSUME ~cancelled PROVE Held' = Held
    OBVIOUS
  <2>1. witem[w] = None
    BY <1>1, <1>2 DEF Places, Holding
  <2>2. QED
    BY <1>3, <2>1 DEF Held
<1>6. Flying' \subseteq Flying /\ Out' \subseteq Out
  BY <1>2, <1>4 DEF Flying, Out, Handed
<1>7. ~cancelled => Flying' = Flying /\ Out' = Out
  BY <1>2, <1>5 DEF Flying, Out, Handed
<1>8. Holding'
  BY <1>1, <1>3 DEF Places, Holding
<1>9. None \notin workCh \cup resultsCh
  BY <1>1, DispatchAssumption DEF TypeOK
<1>10. Apart'
  BY <1>1, <1>2, <1>3, <1>6, <1>9 DEF Places, Apart
<1>11. Once'
  BY <1>1, <1>2, <1>6 DEF Places, Once
<1>12. QED
  BY <1>6, <1>7, <1>8, <1>10, <1>11 DEF Places

\* A producer's batch is queued.
LEMMA DeliverPlaces ==
  ASSUME IInv, NEW p \in Producer, Deliver(p)
  PROVE  Places' /\ Flying' = Flying /\ Out' = Out
<1>1. TypeOK /\ Places
  BY DEF IInv, Typed
<1>2. todo' = todo \cup (batch[p] \ seen) /\ seen' = seen \cup batch[p]
      /\ UNCHANGED <<hand, refining, workCh, resultsCh, worker, witem, handled>>
  BY DEF Deliver
<1>3. Held' = Held
  BY <1>2 DEF Held
<1>4. Flying' = Flying /\ Out' = Out
  BY <1>2, <1>3 DEF Flying, Out, Handed
<1>5. Holding' /\ Apart'
  BY <1>1, <1>2, <1>4 DEF Places, Holding, Apart
<1>6. Once'
  BY <1>1, <1>2, <1>4 DEF Places, Once
<1>7. QED
  BY <1>4, <1>5, <1>6 DEF Places

\* Workers that are started hold nothing.
LEMMA AdjustPlaces ==
  ASSUME IInv, NEW n, AdjustConcurrency(n)
  PROVE  Places' /\ Flying' = Flying /\ Out' = Out
<1>1. TypeOK /\ Places
  BY DEF IInv, Typed
<1>2. worker' = [w \in Worker |-> IF worker[w] = "absent" /\ w <= n THEN "idle" ELSE worker[w]]
      /\ UNCHANGED <<hand, refining, workCh, resultsCh, witem, todo, seen, handled>>
  BY DEF AdjustConcurrency
<1>3. Held' = Held
  BY <1>2 DEF Held
<1>4. Flying' = Flying /\ Out' = Out
  BY <1>2, <1>3 DEF Flying, Out, Handed
<1>5. \A w \in Worker : worker'[w] = worker[w] \/ (worker[w] = "absent" /\ worker'[w] = "idle")
  BY <1>2
<1>6. Holding'
  BY <1>1, <1>2, <1>5 DEF Places, Holding
<1>7. Apart' /\ Once'
  BY <1>1, <1>2, <1>4 DEF Places, Apart, Once
<1>8. QED
  BY <1>4, <1>6, <1>7 DEF Places

-----------------------------------------------------------------------------
(* Every action keeps the invariant.                                       *)

\* The end of an iteration, for the producers as the iteration leaves them.
LEMMA EndsAfterIteration ==
  ASSUME EndIteration, \A p \in Producer : producer'[p] # "sending" => batch'[p] = {}
  PROVE  Ends'
BY EndIterationFacts DEF Ends, Complete

\* Learning types the queue, and starts producers that hold no batch.
LEMMA LearnTypes ==
  ASSUME IInv, NEW S \in Fresh, NEW Q \in Unborn, Learn(S, Q), UNCHANGED batch
  PROVE  /\ todo' \subseteq Item /\ seen' \subseteq Item
         /\ producer' \in [Producer -> {"unborn", "pacing", "working", "sending", "exited"}]
         /\ \A p \in Producer : producer'[p] # "sending" => batch'[p] = {}
<1>1. S \subseteq Item /\ Q \subseteq Producer /\ \A p \in Q : producer[p] = "unborn"
  BY DEF Fresh, Unborn
<1>2. producer' = [p \in Producer |-> IF p \in Q THEN "working" ELSE producer[p]]
      /\ todo' = todo \cup S /\ seen' = seen \cup S
  BY DEF Learn
<1>3. QED
  BY <1>1, <1>2 DEF IInv, Typed, TypeOK, Ends

\* A timer fires.
LEMMA PacerFiresStep ==
  ASSUME IInv, PacerFires
  PROVE  IInv'
<1>1. TypeOK /\ setup \in Setups /\ Places /\ Counts /\ Ends
  BY DEF IInv, Typed
<1>2. Typed'
  BY <1>1 DEF PacerFires, Typed, TypeOK
<1>3. Places' /\ Flying' = Flying
  BY <1>1, PlacesSame DEF PacerFires
<1>4. Counts'
  BY <1>1, <1>3, CountSame DEF PacerFires, InLoop
<1>5. Ends'
  BY <1>1 DEF PacerFires, Ends, PendingHarvest
<1>6. QED
  BY <1>2, <1>3, <1>4, <1>5 DEF IInv

\* A tick that dispatches nothing.
LEMMA TickIdleStep ==
  ASSUME IInv, TickIdle
  PROVE  IInv'
<1>1. TypeOK /\ setup \in Setups /\ Places /\ Counts /\ Ends
  BY DEF IInv, Typed
<1>2. Typed'
  BY <1>1, EndIterationFacts DEF TickIdle, InLoop, Typed, TypeOK
<1>3. Places' /\ Flying' = Flying
  BY <1>1, PlacesSame DEF TickIdle, InLoop
<1>4. Counts'
  BY <1>1, <1>3, CountSame DEF TickIdle, InLoop
<1>5. Ends'
  BY <1>1, EndsAfterIteration DEF TickIdle, InLoop, Ends
<1>6. QED
  BY <1>2, <1>3, <1>4, <1>5 DEF IInv

\* A paced request of a refinement.
LEMMA PaceStep ==
  ASSUME IInv, PaceProfileRequest
  PROVE  IInv'
<1>1. TypeOK /\ setup \in Setups /\ Places /\ Counts /\ Ends
  BY DEF IInv, Typed
<1>2. Typed'
  BY <1>1, DispatchAssumption DEF PaceProfileRequest, Typed, TypeOK
<1>3. Places' /\ Flying' = Flying
  BY <1>1, PlacesSame DEF PaceProfileRequest
<1>4. Counts'
  BY <1>1, <1>3, CountSame DEF PaceProfileRequest, InLoop
<1>5. Ends'
  BY <1>1 DEF PaceProfileRequest, Ends, PendingHarvest
<1>6. QED
  BY <1>2, <1>3, <1>4, <1>5 DEF IInv

\* The loop leaves because of the context.
LEMMA ContextDoneStep ==
  ASSUME IInv, ContextDone
  PROVE  IInv'
<1>1. TypeOK /\ setup \in Setups /\ Places /\ Counts /\ Ends
  BY DEF IInv, Typed
<1>2. Typed'
  BY <1>1 DEF ContextDone, InLoop, Typed, TypeOK
<1>3. Places' /\ Flying' = Flying
  BY <1>1, PlacesSame DEF ContextDone, InLoop
<1>4. Counts'
  BY <1>1, <1>3, CountSame DEF ContextDone, InLoop
<1>5. Ends'
  BY <1>1 DEF ContextDone, InLoop, Ends, PendingHarvest
<1>6. QED
  BY <1>2, <1>3, <1>4, <1>5 DEF IInv

\* A telemetry tick.
LEMMA TickerStep ==
  ASSUME IInv, Ticker
  PROVE  IInv'
<1>1. TypeOK /\ setup \in Setups /\ Places /\ Counts /\ Ends
  BY DEF IInv, Typed
<1>2. Typed'
  BY <1>1, EndIterationFacts DEF Ticker, InLoop, Typed, TypeOK
<1>3. Places' /\ Flying' = Flying
  BY <1>1, PlacesSame DEF Ticker, InLoop
<1>4. Counts'
  BY <1>1, <1>3, CountSame DEF Ticker, InLoop
<1>5. Ends'
  BY <1>1, EndsAfterIteration DEF Ticker, InLoop, Ends
<1>6. QED
  BY <1>2, <1>3, <1>4, <1>5 DEF IInv

\* The workers are joined and the context cancelled.
LEMMA JoinStep ==
  ASSUME IInv, Join
  PROVE  IInv'
<1>1. TypeOK /\ setup \in Setups /\ Places /\ Counts /\ Ends
  BY DEF IInv, Typed
<1>2. Typed'
  BY <1>1 DEF Join, Typed, TypeOK
<1>3. Places' /\ Flying' = Flying
  BY <1>1, PlacesSame DEF Join
<1>4. Counts'
  BY <1>1, <1>3, CountSame DEF Join, InLoop
<1>5. Ends'
  BY <1>1 DEF Join, Ends, PendingHarvest
<1>6. QED
  BY <1>2, <1>3, <1>4, <1>5 DEF IInv

\* The archive's timer fires.
LEMMA ArchiveFiresStep ==
  ASSUME IInv, ArchiveFires
  PROVE  IInv'
<1>1. TypeOK /\ setup \in Setups /\ Places /\ Counts /\ Ends
  BY DEF IInv, Typed
<1>2. Typed'
  BY <1>1 DEF ArchiveFires, Typed, TypeOK
<1>3. Places' /\ Flying' = Flying
  BY <1>1, PlacesSame DEF ArchiveFires
<1>4. Counts'
  BY <1>1, <1>3, CountSame DEF ArchiveFires, InLoop
<1>5. Ends'
  BY <1>1 DEF ArchiveFires, Ends, PendingHarvest
<1>6. QED
  BY <1>2, <1>3, <1>4, <1>5 DEF IInv

\* A producer is let through to the archive.
LEMMA ArchivePaceStep ==
  ASSUME IInv, NEW p \in Producer, ArchivePace(p)
  PROVE  IInv'
<1>1. TypeOK /\ setup \in Setups /\ Places /\ Counts /\ Ends
  BY DEF IInv, Typed
<1>2. Typed'
  BY <1>1 DEF ArchivePace, Typed, TypeOK
<1>3. Places' /\ Flying' = Flying
  BY <1>1, PlacesSame DEF ArchivePace
<1>4. Counts'
  BY <1>1, <1>3, CountSame DEF ArchivePace, InLoop
<1>5. Ends'
  BY <1>1 DEF ArchivePace, Ends, PendingHarvest
<1>6. QED
  BY <1>2, <1>3, <1>4, <1>5 DEF IInv

\* A producer has a batch.
LEMMA ProduceStep ==
  ASSUME IInv, NEW p \in Producer, NEW B \in SUBSET Item, Produce(p, B)
  PROVE  IInv'
<1>1. TypeOK /\ setup \in Setups /\ Places /\ Counts /\ Ends
  BY DEF IInv, Typed
<1>2. Typed'
  <2>1. batches'[p] \in 0..MaxBatches /\ batches' \in [Producer -> 0..MaxBatches]
        /\ batch' \in [Producer -> SUBSET Item]
        /\ producer' \in [Producer -> {"unborn", "pacing", "working", "sending", "exited"}]
    BY <1>1, DispatchAssumption DEF Produce, TypeOK
  <2>2. QED
    BY <1>1, <2>1 DEF Produce, Typed, TypeOK
<1>3. Places' /\ Flying' = Flying
  BY <1>1, PlacesSame DEF Produce
<1>4. Counts'
  BY <1>1, <1>3, CountSame DEF Produce, InLoop
<1>5. Ends'
  BY <1>1 DEF Produce, Ends, PendingHarvest, TypeOK
<1>6. QED
  BY <1>2, <1>3, <1>4, <1>5 DEF IInv

\* A producer gives its batch up.
LEMMA AbandonStep ==
  ASSUME IInv, NEW p \in Producer, Abandon(p)
  PROVE  IInv'
<1>1. TypeOK /\ setup \in Setups /\ Places /\ Counts /\ Ends
  BY DEF IInv, Typed
<1>2. Typed'
  BY <1>1 DEF Abandon, Typed, TypeOK
<1>3. Places' /\ Flying' = Flying
  BY <1>1, PlacesSame DEF Abandon
<1>4. Counts'
  BY <1>1, <1>3, CountSame DEF Abandon, InLoop
<1>5. Ends'
  BY <1>1 DEF Abandon, Ends, PendingHarvest, TypeOK
<1>6. QED
  BY <1>2, <1>3, <1>4, <1>5 DEF IInv

\* A producer returns.
LEMMA ProducerExitStep ==
  ASSUME IInv, NEW p \in Producer, ProducerExit(p)
  PROVE  IInv'
<1>1. TypeOK /\ setup \in Setups /\ Places /\ Counts /\ Ends
  BY DEF IInv, Typed
<1>2. Typed'
  BY <1>1 DEF ProducerExit, Typed, TypeOK
<1>3. Places' /\ Flying' = Flying
  BY <1>1, PlacesSame DEF ProducerExit
<1>4. Counts'
  BY <1>1, <1>3, CountSame DEF ProducerExit, InLoop
<1>5. Ends'
  BY <1>1 DEF ProducerExit, Ends, PendingHarvest
<1>6. QED
  BY <1>2, <1>3, <1>4, <1>5 DEF IInv

\* The context is cancelled.
LEMMA CancelStep ==
  ASSUME IInv, Cancel
  PROVE  IInv'
<1>1. TypeOK /\ setup \in Setups /\ Places /\ Counts /\ Ends
  BY DEF IInv, Typed
<1>2. Typed'
  BY <1>1 DEF Cancel, Typed, TypeOK
<1>3. Places' /\ Flying' = Flying
  BY <1>1, PlacesSame DEF Cancel
<1>4. Counts'
  BY <1>1, <1>3, CountSame DEF Cancel, InLoop
<1>5. Ends'
  BY <1>1 DEF Cancel, Ends, PendingHarvest
<1>6. QED
  BY <1>2, <1>3, <1>4, <1>5 DEF IInv

\* The user pauses or resumes.
LEMMA SetPausedStep ==
  ASSUME IInv, NEW value \in BOOLEAN, SetPaused(value)
  PROVE  IInv'
<1>1. TypeOK /\ setup \in Setups /\ Places /\ Counts /\ Ends
  BY DEF IInv, Typed
<1>2. Typed'
  BY <1>1, EndIterationFacts DEF SetPaused, InLoop, Typed, TypeOK
<1>3. Places' /\ Flying' = Flying
  BY <1>1, PlacesSame DEF SetPaused, InLoop
<1>4. Counts'
  BY <1>1, <1>3, CountSame DEF SetPaused, InLoop
<1>5. Ends'
  BY <1>1, EndsAfterIteration DEF SetPaused, InLoop, Ends
<1>6. QED
  BY <1>2, <1>3, <1>4, <1>5 DEF IInv

\* An item is dispatched and counted.
LEMMA TickDispatchStep ==
  ASSUME IInv, NEW i \in todo, TickDispatch(i)
  PROVE  IInv'
<1>1. TypeOK /\ setup \in Setups /\ Places /\ Counts /\ Ends
  BY DEF IInv, Typed
<1>2. Typed'
  BY <1>1 DEF TickDispatch, Typed, TypeOK
<1>3. Places' /\ i \notin Flying /\ Flying' = Flying \cup {i}
  BY TickDispatchPlaces
<1>4. Counts'
  BY <1>1, <1>3, CountUp DEF TickDispatch, InLoop
<1>5. Ends'
  BY <1>1 DEF TickDispatch, Ends, PendingHarvest
<1>6. QED
  BY <1>2, <1>3, <1>4, <1>5 DEF IInv

\* The hand-off succeeds.
LEMMA HandOffStep ==
  ASSUME IInv, HandOff
  PROVE  IInv'
<1>1. TypeOK /\ setup \in Setups /\ Places /\ Counts /\ Ends
  BY DEF IInv, Typed
<1>2. Typed'
  BY <1>1, HandOffPlaces, EndIterationFacts
  DEF HandOff, Typed, TypeOK
<1>3. Places' /\ Flying' = Flying
  BY HandOffPlaces
<1>4. Counts'
  BY <1>1, <1>3, CountSame DEF HandOff, InHandOff
<1>5. Ends'
  BY <1>1, EndsAfterIteration DEF HandOff, Ends
<1>6. QED
  BY <1>2, <1>3, <1>4, <1>5 DEF IInv

\* The hand-off is given up.
LEMMA HandOffCancelledStep ==
  ASSUME IInv, HandOffCancelled
  PROVE  IInv'
<1>1. TypeOK /\ setup \in Setups /\ Places /\ Counts /\ Ends
  BY DEF IInv, Typed
<1>2. Typed'
  BY <1>1 DEF HandOffCancelled, Typed, TypeOK
<1>3. Places' /\ Flying' \subseteq Flying
  BY HandOffCancelledPlaces
<1>4. Counts'
  BY <1>1, <1>3, CountDrop DEF HandOffCancelled, InHandOff
<1>5. Ends'
  BY <1>1 DEF HandOffCancelled, InHandOff, Ends, PendingHarvest
<1>6. QED
  BY <1>2, <1>3, <1>4, <1>5 DEF IInv

\* A result is handled, in the loop or during a hand-off.
LEMMA ReceiveStep ==
  ASSUME IInv, NEW i \in resultsCh, NEW S \in Fresh, NEW Q \in Unborn, Receive(i, S, Q)
  PROVE  IInv'
<1>1. TypeOK /\ setup \in Setups /\ Places /\ Counts /\ Ends
  BY DEF IInv, Typed
<1>2. Places' /\ i \in Flying /\ Flying' = Flying \ {i}
  BY ReceivePlaces
<1>3. Counts' /\ inFlight' \in Nat
  BY <1>1, <1>2, CountDown DEF Receive, InLoop, InHandOff
<1>4. /\ pc' \in {"loop", "joining"} /\ finished' \in BOOLEAN
      /\ pc' = "loop" <=> ~finished'
      /\ finished' => Complete'
  <2>1. CASE hand = None
    BY <2>1, EndIterationFacts DEF Receive
  <2>2. CASE hand # None
    BY <1>1, <2>2 DEF Receive, InLoop, InHandOff, TypeOK, Ends
  <2>3. QED
    BY <2>1, <2>2
<1>5. /\ todo' \subseteq Item /\ seen' \subseteq Item
      /\ producer' \in [Producer -> {"unborn", "pacing", "working", "sending", "exited"}]
      /\ \A p \in Producer : producer'[p] # "sending" => batch'[p] = {}
  BY LearnTypes DEF Receive
<1>6. Typed'
  <2>1. resultsCh' \subseteq Item /\ Cardinality(resultsCh') <= Concurrency
        /\ handled' \subseteq Item
    <3>1. resultsCh' = resultsCh \ {i} /\ IsFiniteSet(resultsCh) /\ handled' = handled \cup {i}
      BY <1>1, DispatchAssumption, FS_Subset DEF Receive, TypeOK
    <3>2. Cardinality(resultsCh') <= Cardinality(resultsCh) /\ Cardinality(resultsCh) \in Nat
          /\ Cardinality(resultsCh') \in Nat
      BY <3>1, FS_Subset, FS_CardinalityType
    <3>3. QED
      BY <1>1, <3>1, <3>2, DispatchAssumption DEF TypeOK
  <2>2. UNCHANGED <<hand, refining, paces, pacer, workCh, worker, witem, limit, paused, setup,
                    cancelled, batch, batches, archive>>
    BY DEF Receive
  <2>3. QED
    BY <1>1, <1>3, <1>4, <1>5, <2>1, <2>2 DEF Typed, TypeOK
<1>7. Ends'
  BY <1>4, <1>5 DEF Ends, Complete
<1>8. QED
  BY <1>2, <1>3, <1>6, <1>7 DEF IInv

\* A result starts a refinement.
LEMMA ReceiveRefiningStep ==
  ASSUME IInv, NEW i \in resultsCh, NEW n \in 1..MaxPaces, ReceiveRefining(i, n)
  PROVE  IInv'
<1>1. TypeOK /\ setup \in Setups /\ Places /\ Counts /\ Ends
  BY DEF IInv, Typed
<1>2. Places' /\ i \in Flying /\ Flying' = Flying \ {i}
  BY ReceiveRefiningPlaces
<1>3. Counts' /\ inFlight' \in Nat
  BY <1>1, <1>2, CountDown DEF ReceiveRefining, InLoop, InHandOff
<1>4. Typed'
  <2>1. resultsCh' \subseteq Item /\ Cardinality(resultsCh') <= Concurrency
    <3>1. resultsCh' = resultsCh \ {i} /\ IsFiniteSet(resultsCh)
      BY <1>1, DispatchAssumption, FS_Subset DEF ReceiveRefining, TypeOK
    <3>2. Cardinality(resultsCh') <= Cardinality(resultsCh) /\ Cardinality(resultsCh) \in Nat
          /\ Cardinality(resultsCh') \in Nat
      BY <3>1, FS_Subset, FS_CardinalityType
    <3>3. QED
      BY <1>1, <3>1, <3>2, DispatchAssumption DEF TypeOK
  <2>2. refining' \in Item /\ paces' \in 0..MaxPaces
    BY <1>1, DispatchAssumption DEF ReceiveRefining, TypeOK
  <2>3. UNCHANGED <<pc, finished, todo, seen, handled, hand, pacer, workCh, worker, witem,
                    limit, paused, setup, cancelled, producer, batch, batches, archive>>
    BY DEF ReceiveRefining
  <2>4. QED
    BY <1>1, <1>3, <2>1, <2>2, <2>3 DEF Typed, TypeOK
<1>5. Ends'
  BY <1>1 DEF ReceiveRefining, Ends, PendingHarvest
<1>6. QED
  BY <1>2, <1>3, <1>4, <1>5 DEF IInv

\* A refinement ends.
LEMMA RefinedStep ==
  ASSUME IInv, NEW S \in Fresh, NEW Q \in Unborn, Refined(S, Q)
  PROVE  IInv'
<1>1. TypeOK /\ setup \in Setups /\ Places /\ Counts /\ Ends
  BY DEF IInv, Typed
<1>2. Places' /\ Flying' = Flying
  BY RefinedPlaces
<1>3. Counts'
  BY <1>1, <1>2, CountSame DEF Refined
<1>4. /\ pc' \in {"loop", "joining"} /\ finished' \in BOOLEAN
      /\ pc' = "loop" <=> ~finished'
      /\ finished' => Complete'
  <2>1. CASE hand = None
    BY <2>1, EndIterationFacts DEF Refined
  <2>2. CASE hand # None
    BY <1>1, <2>2 DEF Refined, TypeOK, Ends
  <2>3. QED
    BY <2>1, <2>2
<1>5. /\ todo' \subseteq Item /\ seen' \subseteq Item
      /\ producer' \in [Producer -> {"unborn", "pacing", "working", "sending", "exited"}]
      /\ \A p \in Producer : producer'[p] # "sending" => batch'[p] = {}
  BY LearnTypes DEF Refined
<1>6. Typed'
  <2>1. handled' \subseteq Item /\ refining' = None
    BY <1>1 DEF Refined, TypeOK
  <2>2. UNCHANGED <<hand, paces, pacer, workCh, resultsCh, worker, witem, inFlight, limit,
                    paused, setup, cancelled, batch, batches, archive>>
    BY DEF Refined
  <2>3. QED
    BY <1>1, <1>4, <1>5, <2>1, <2>2 DEF Typed, TypeOK
<1>7. Ends'
  BY <1>4, <1>5 DEF Ends, Complete
<1>8. QED
  BY <1>2, <1>3, <1>6, <1>7 DEF IInv

\* A worker takes an item.
LEMMA WorkerTakeStep ==
  ASSUME IInv, NEW w \in Worker, NEW i \in workCh, WorkerTake(w, i)
  PROVE  IInv'
<1>1. TypeOK /\ setup \in Setups /\ Places /\ Counts /\ Ends
  BY DEF IInv, Typed
<1>2. Typed'
  <2>1. workCh' \subseteq Item /\ Cardinality(workCh') <= Concurrency
    <3>1. workCh' = workCh \ {i} /\ IsFiniteSet(workCh)
      BY <1>1, DispatchAssumption, FS_Subset DEF WorkerTake, TypeOK
    <3>2. Cardinality(workCh') <= Cardinality(workCh) /\ Cardinality(workCh) \in Nat
          /\ Cardinality(workCh') \in Nat
      BY <3>1, FS_Subset, FS_CardinalityType
    <3>3. QED
      BY <1>1, <3>1, <3>2, DispatchAssumption DEF TypeOK
  <2>2. /\ worker' \in [Worker -> {"absent", "idle", "busy", "sending", "exited"}]
        /\ witem' \in [Worker -> Item \cup {None}]
    BY <1>1 DEF WorkerTake, TypeOK
  <2>3. QED
    BY <1>1, <2>1, <2>2 DEF WorkerTake, Typed, TypeOK
<1>3. Places' /\ Flying' = Flying
  BY WorkerTakePlaces
<1>4. Counts'
  BY <1>1, <1>3, CountSame DEF WorkerTake
<1>5. Ends'
  BY <1>1 DEF WorkerTake, Ends, PendingHarvest
<1>6. QED
  BY <1>2, <1>3, <1>4, <1>5 DEF IInv

\* A request ends.
LEMMA WorkerProcessStep ==
  ASSUME IInv, NEW w \in Worker, WorkerProcess(w)
  PROVE  IInv'
<1>1. TypeOK /\ setup \in Setups /\ Places /\ Counts /\ Ends
  BY DEF IInv, Typed
<1>2. Typed'
  BY <1>1 DEF WorkerProcess, Typed, TypeOK
<1>3. Places' /\ Flying' = Flying
  BY WorkerProcessPlaces
<1>4. Counts'
  BY <1>1, <1>3, CountSame DEF WorkerProcess
<1>5. Ends'
  BY <1>1 DEF WorkerProcess, Ends, PendingHarvest
<1>6. QED
  BY <1>2, <1>3, <1>4, <1>5 DEF IInv

\* A worker delivers a result.
LEMMA WorkerSendStep ==
  ASSUME IInv, NEW w \in Worker, WorkerSend(w)
  PROVE  IInv'
<1>1. TypeOK /\ setup \in Setups /\ Places /\ Counts /\ Ends
  BY DEF IInv, Typed
<1>2. Typed'
  <2>1. resultsCh' \subseteq Item /\ Cardinality(resultsCh') <= Concurrency
    BY WorkerSendPlaces
  <2>2. /\ worker' \in [Worker -> {"absent", "idle", "busy", "sending", "exited"}]
        /\ witem' \in [Worker -> Item \cup {None}]
    BY <1>1 DEF WorkerSend, TypeOK
  <2>3. QED
    BY <1>1, <2>1, <2>2 DEF WorkerSend, Typed, TypeOK
<1>3. Places' /\ Flying' = Flying
  BY WorkerSendPlaces
<1>4. Counts'
  BY <1>1, <1>3, CountSame DEF WorkerSend
<1>5. Ends'
  BY <1>1 DEF WorkerSend, Ends, PendingHarvest
<1>6. QED
  BY <1>2, <1>3, <1>4, <1>5 DEF IInv

\* A worker exits.
LEMMA WorkerExitStep ==
  ASSUME IInv, NEW w \in Worker, WorkerExit(w)
  PROVE  IInv'
<1>1. TypeOK /\ setup \in Setups /\ Places /\ Counts /\ Ends
  BY DEF IInv, Typed
<1>2. Typed'
  <2>1. /\ worker' \in [Worker -> {"absent", "idle", "busy", "sending", "exited"}]
        /\ witem' \in [Worker -> Item \cup {None}]
    BY <1>1 DEF WorkerExit, TypeOK
  <2>2. QED
    BY <1>1, <2>1 DEF WorkerExit, Typed, TypeOK
<1>3. Places' /\ Flying' \subseteq Flying /\ (~cancelled => Flying' = Flying)
  BY WorkerExitPlaces
<1>4. Counts'
  <2>1. CASE cancelled
    BY <1>1, <1>3, <2>1, CountDrop DEF WorkerExit
  <2>2. CASE ~cancelled
    BY <1>1, <1>3, <2>2, CountSame DEF WorkerExit
  <2>3. QED
    BY <2>1, <2>2
<1>5. Ends'
  BY <1>1 DEF WorkerExit, Ends, PendingHarvest
<1>6. QED
  BY <1>2, <1>3, <1>4, <1>5 DEF IInv

\* A batch is delivered.
LEMMA DeliverStep ==
  ASSUME IInv, NEW p \in Producer, Deliver(p)
  PROVE  IInv'
<1>1. TypeOK /\ setup \in Setups /\ Places /\ Counts /\ Ends
  BY DEF IInv, Typed
<1>2. /\ producer' = [producer EXCEPT ![p] = "working"] /\ batch' = [batch EXCEPT ![p] = {}]
      /\ todo' = todo \cup (batch[p] \ seen) /\ seen' = seen \cup batch[p]
  BY DEF Deliver
<1>3. /\ producer' \in [Producer -> {"unborn", "pacing", "working", "sending", "exited"}]
      /\ batch' \in [Producer -> SUBSET Item]
      /\ todo' \subseteq Item /\ seen' \subseteq Item
      /\ \A q \in Producer : producer'[q] # "sending" => batch'[q] = {}
  BY <1>1, <1>2 DEF TypeOK, Ends
<1>4. Typed'
  <2>1. UNCHANGED <<handled, hand, refining, paces, pacer, workCh, resultsCh, worker, witem,
                    inFlight, limit, paused, setup, cancelled, batches, archive>>
    BY DEF Deliver
  <2>2. pc' \in {"loop", "joining"} /\ finished' \in BOOLEAN
    BY EndIterationFacts DEF Deliver
  <2>3. QED
    BY <1>1, <1>3, <2>1, <2>2 DEF Typed, TypeOK
<1>5. Places' /\ Flying' = Flying
  BY DeliverPlaces
<1>6. Counts'
  BY <1>1, <1>5, CountSame DEF Deliver, InLoop
<1>7. Ends'
  BY <1>3, EndsAfterIteration DEF Deliver
<1>8. QED
  BY <1>4, <1>5, <1>6, <1>7 DEF IInv

\* The concurrency is changed.
LEMMA AdjustStep ==
  ASSUME IInv, NEW n \in setup.limits, AdjustConcurrency(n)
  PROVE  IInv'
<1>1. TypeOK /\ setup \in Setups /\ Places /\ Counts /\ Ends
  BY DEF IInv, Typed
<1>2. n \in 1..MaxWorkers
  BY <1>1, DispatchAssumption
<1>3. Typed'
  <2>1. worker' \in [Worker -> {"absent", "idle", "busy", "sending", "exited"}]
    BY <1>1 DEF AdjustConcurrency, TypeOK
  <2>2. UNCHANGED <<todo, seen, handled, hand, refining, paces, pacer, workCh, resultsCh,
                    witem, inFlight, paused, setup, cancelled, producer, batch, batches,
                    archive>>
        /\ limit' = n
    BY DEF AdjustConcurrency
  <2>3. pc' \in {"loop", "joining"} /\ finished' \in BOOLEAN
    BY EndIterationFacts DEF AdjustConcurrency
  <2>4. QED
    BY <1>1, <1>2, <2>1, <2>2, <2>3 DEF Typed, TypeOK
<1>4. Places' /\ Flying' = Flying
  BY AdjustPlaces
<1>5. Counts'
  BY <1>1, <1>4, CountSame DEF AdjustConcurrency, InLoop
<1>6. Ends'
  BY <1>1, EndsAfterIteration DEF AdjustConcurrency, Ends
<1>7. QED
  BY <1>3, <1>4, <1>5, <1>6 DEF IInv

-----------------------------------------------------------------------------
(* Safety.                                                                 *)

\* The invariant holds when dispatchLoop starts.
LEMMA InitIInv == Init => IInv
<1> SUFFICES ASSUME Init PROVE IInv
  OBVIOUS
<1>1. \A w \in Worker : witem[w] = None /\ worker[w] \in {"idle", "absent"}
  BY DEF Init
<1>2. Held = {}
  BY <1>1 DEF Held
<1>3. Flying = {} /\ Out = {}
  BY <1>2 DEF Init, Flying, Out, Handed
<1>4. Typed
  <2>1. /\ worker \in [Worker -> {"absent", "idle", "busy", "sending", "exited"}]
        /\ witem \in [Worker -> Item \cup {None}]
        /\ producer \in [Producer -> {"unborn", "pacing", "working", "sending", "exited"}]
        /\ batch \in [Producer -> SUBSET Item] /\ batches \in [Producer -> 0..MaxBatches]
    BY DispatchAssumption DEF Init
  <2>2. Cardinality(workCh) = 0 /\ Cardinality(resultsCh) = 0
    BY FS_EmptySet DEF Init
  <2>3. /\ pc \in {"loop"} /\ finished \in BOOLEAN /\ paused \in BOOLEAN
        /\ cancelled \in BOOLEAN /\ setup \in Setups
    BY DEF Init
  <2>4. /\ todo \subseteq Item /\ seen \subseteq Item /\ handled \subseteq Item
        /\ hand = None /\ refining = None /\ workCh \subseteq Item /\ resultsCh \subseteq Item
    BY DispatchAssumption DEF Init
  <2>5. /\ paces \in 0..MaxPaces /\ inFlight \in Nat /\ limit \in 1..MaxWorkers
        /\ Cardinality(workCh) <= Concurrency /\ Cardinality(resultsCh) <= Concurrency
    BY <2>2, DispatchAssumption DEF Init
  <2>6. pacer = "armed" /\ archive = "armed"
    BY DEF Init
  <2>7. QED
    BY <2>1, <2>3, <2>4, <2>5, <2>6 DEF Typed, TypeOK
<1>5. Places
  BY <1>1, <1>3 DEF Init, Places, Holding, Apart, Once
<1>6. Counts
  BY <1>3, FS_EmptySet DEF Init, Counts
<1>7. Ends
  BY DEF Init, Ends
<1>8. QED
  BY <1>4, <1>5, <1>6, <1>7 DEF IInv

\* And every step of every goroutine keeps it.
LEMMA StepIInv == IInv /\ [Next]_vars => IInv'
<1> SUFFICES ASSUME IInv, [Next]_vars PROVE IInv'
  OBVIOUS
<1>1. CASE PacerFires
  BY <1>1, PacerFiresStep
<1>2. CASE Tick
  BY <1>2, TickDispatchStep, TickIdleStep DEF Tick
<1>3. CASE HandOff
  BY <1>3, HandOffStep
<1>4. CASE HandOffCancelled
  BY <1>4, HandOffCancelledStep
<1>5. CASE Results
  BY <1>5, ReceiveStep, ReceiveRefiningStep DEF Results
<1>6. CASE Refinement
  BY <1>6, PaceStep, RefinedStep DEF Refinement
<1>7. CASE ContextDone \/ Ticker \/ Join
  BY <1>7, ContextDoneStep, TickerStep, JoinStep
<1>8. CASE \E w \in Worker : WorkerStep(w)
  BY <1>8, WorkerTakeStep, WorkerProcessStep, WorkerSendStep, WorkerExitStep DEF WorkerStep
<1>9. CASE ArchiveFires
  BY <1>9, ArchiveFiresStep
<1>10. CASE \E p \in Producer : ProducerStep(p) \/ Deliver(p)
  BY <1>10, ArchivePaceStep, AbandonStep, ProducerExitStep, ProduceStep, DeliverStep
  DEF ProducerStep
<1>11. CASE User
  BY <1>11, CancelStep, SetPausedStep, AdjustStep DEF User
<1>12. CASE UNCHANGED vars
  <2>1. TypeOK /\ setup \in Setups /\ Places /\ Counts /\ Ends
    BY DEF IInv, Typed
  <2>2. Typed'
    BY <1>12, <2>1 DEF vars, Typed, TypeOK
  <2>3. Places' /\ Flying' = Flying
    BY <1>12, <2>1, PlacesSame DEF vars
  <2>4. Counts'
    BY <1>12, <2>1, <2>3, CountSame DEF vars
  <2>5. Ends'
    BY <1>12, <2>1 DEF vars, Ends, PendingHarvest
  <2>6. QED
    BY <2>2, <2>3, <2>4, <2>5 DEF IInv
<1>13. CASE Terminated
  BY <1>12, <1>13 DEF Terminated
<1>14. QED
  BY <1>1, <1>2, <1>3, <1>4, <1>5, <1>6, <1>7, <1>8, <1>9, <1>10, <1>11, <1>12, <1>13
  DEF Next

\* The invariant holds of every scan.
THEOREM Invariance == Spec => []IInv
<1>1. QED
  BY InitIInv, StepIInv, PTL DEF Spec

\* Every variable has its type; in particular neither channel ever holds more
\* than its capacity, although applyAdjust may start more workers than that.
THEOREM TypeCorrect == Spec => []TypeOK
<1>1. IInv => TypeOK
  BY DEF IInv, Typed
<1>2. QED
  BY Invariance, <1>1, PTL

\* Until the context is cancelled the in-flight count is the number of items
\* between nextDispatchable and handleResult, and none of them is still queued
\* or already handled.
THEOREM InFlightIsExact == Spec => []InFlightExact
<1>1. IInv => InFlightExact
  <2> SUFFICES ASSUME IInv PROVE InFlightExact
    OBVIOUS
  <2>1. TypeOK /\ Apart /\ Once /\ Counts
    BY DEF IInv, Typed, Places
  <2>2. Out \ {refining} = Flying
    BY <2>1, FlyingFacts DEF Apart
  <2>3. QED
    BY <2>1, <2>2 DEF InFlightExact, Counts, Once
<1>2. QED
  BY Invariance, <1>1, PTL

-----------------------------------------------------------------------------
(* The goroutines and channels implement the pool.                         *)

\* What the producers still hold, under each way their batches change.
LEMMA PromisedSame ==
  ASSUME UNCHANGED <<batch, seen>>
  PROVE  Promised' = Promised
BY DEF Promised

\* Queueing items makes them no longer promised.
LEMMA PromisedLearn ==
  ASSUME NEW S, seen' = seen \cup S, UNCHANGED batch
  PROVE  Promised' = Promised \ S
BY DEF Promised

\* A new batch promises what it has that is new.
LEMMA PromisedProduce ==
  ASSUME IInv, NEW p \in Producer, NEW B \in SUBSET Item, Produce(p, B)
  PROVE  Promised' = Promised \cup (B \ seen)
<1>1. batch \in [Producer -> SUBSET Item] /\ batch[p] = {}
  BY DEF IInv, Typed, TypeOK, Ends, Produce
<1>2. batch' = [batch EXCEPT ![p] = B] /\ seen' = seen
  BY DEF Produce
<1>3. batch'[p] = B /\ \A q \in Producer : q # p => batch'[q] = batch[q]
  BY <1>1, <1>2
<1>4. UNION {batch'[q] : q \in Producer} = (UNION {batch[q] : q \in Producer}) \cup B
  BY <1>1, <1>3
<1>5. QED
  BY <1>2, <1>4 DEF Promised

\* A batch that is delivered was promised, and is no longer.
LEMMA PromisedDeliver ==
  ASSUME IInv, NEW p \in Producer, Deliver(p)
  PROVE  /\ batch[p] \ seen \subseteq Promised
         /\ Promised' = Promised \ (batch[p] \ seen)
<1>1. batch \in [Producer -> SUBSET Item]
  BY DEF IInv, Typed, TypeOK
<1>2. batch' = [batch EXCEPT ![p] = {}] /\ seen' = seen \cup batch[p]
  BY DEF Deliver
<1>3. batch'[p] = {} /\ \A q \in Producer : q # p => batch'[q] = batch[q]
  BY <1>1, <1>2
<1>4. UNION {batch[q] : q \in Producer} = (UNION {batch'[q] : q \in Producer}) \cup batch[p]
  BY <1>3
<1>5. QED
  BY <1>2, <1>4 DEF Promised

\* A batch that is given up leaves what the others promise.
LEMMA PromisedAbandon ==
  ASSUME IInv, NEW p \in Producer, Abandon(p)
  PROVE  Promised' \subseteq Promised
<1>1. batch \in [Producer -> SUBSET Item]
  BY DEF IInv, Typed, TypeOK
<1>2. batch' = [batch EXCEPT ![p] = {}] /\ seen' = seen
  BY DEF Abandon
<1>3. batch'[p] = {} /\ \A q \in Producer : q # p => batch'[q] = batch[q]
  BY <1>1, <1>2
<1>4. UNION {batch'[q] : q \in Producer} \subseteq UNION {batch[q] : q \in Producer}
  BY <1>3
<1>5. QED
  BY <1>2, <1>4 DEF Promised

\* While the loop runs the verdict is open.
LEMMA RunningFacts ==
  ASSUME IInv, pc = "loop"
  PROVE  Verdict = "running" /\ ~finished
BY DEF IInv, Ends, Verdict

\* The loop's last state, when its termination check holds.
Over == finished /\ Complete /\ refining = None

\* A finished scan has nothing queued, nothing out and nothing promised.
LEMMA OverIsEmpty == IInv /\ Over => Pool!Empty
<1> SUFFICES ASSUME IInv, Over PROVE Pool!Empty
  OBVIOUS
<1>1. TypeOK /\ Counts /\ Ends /\ todo = {} /\ inFlight = 0 /\ finished /\ refining = None
  BY DEF IInv, Typed, Complete, Over
<1>2. IsFiniteSet(Flying) /\ Cardinality(Flying) \in Nat /\ Cardinality(Flying) <= 0
  BY <1>1, FlyingFacts DEF Counts
<1>3. Flying = {}
  BY <1>2, FS_EmptySet
<1>4. Out = {}
  BY <1>1, <1>3, FlyingFacts
<1>5. \A p \in Producer : batch[p] = {}
  BY <1>1 DEF Ends, PendingHarvest
<1>6. Promised = {}
  BY <1>5 DEF Promised
<1>7. QED
  BY <1>1, <1>4, <1>6 DEF Pool!Empty

\* The verdict of the termination check is the pool's.
LEMMA EndIterationJudges ==
  ASSUME IInv', EndIteration, refining' = None
  PROVE  Pool!Judge
<1>1. CASE ~finished'
  BY <1>1, EndIterationFacts DEF Pool!Judge, Verdict
<1>2. CASE finished'
  <2>1. Over'
    BY <1>2, EndIterationFacts DEF Over
  <2>2. Pool!Empty'
    BY <2>1, OverIsEmpty, PTL
  <2>3. QED
    BY <1>2, <2>2 DEF Pool!Judge, Verdict
<1>3. QED
  BY <1>1, <1>2

\* A step that only moves items about among those that are out is invisible.
LEMMA Invisible ==
  ASSUME Out' = Out, UNCHANGED <<batch, seen, todo, handled, finished, pc, cancelled>>
  PROVE  UNCHANGED Pool!poolVars
BY PromisedSame DEF Pool!poolVars, Verdict

\* An iteration that queues and handles nothing is the delivery of an empty batch.
LEMMA EmptyIteration ==
  ASSUME IInv, IInv', pc = "loop", refining' = None, EndIteration, Out' = Out,
         UNCHANGED <<batch, seen, todo, handled, cancelled>>
  PROVE  Pool!Next
<1>1. Verdict = "running" /\ Promised' = Promised /\ Pool!Judge
  BY RunningFacts, PromisedSame, EndIterationJudges
<1>2. Pool!Deliver({})
  BY <1>1 DEF Pool!Deliver
<1>3. QED
  BY <1>2 DEF Pool!Next

\* An item is taken for dispatch.
LEMMA TickDispatchPool ==
  ASSUME IInv, NEW i \in todo, TickDispatch(i)
  PROVE  Pool!Next
<1>1. Out' = Out \cup {i} /\ pc = "loop" /\ todo' = todo \ {i} /\ i \in Item
      /\ UNCHANGED <<pc, finished, batch, seen, handled, cancelled>>
  BY TickDispatchPlaces DEF TickDispatch, InLoop, IInv, Typed, TypeOK
<1>2. Verdict = "running" /\ Verdict' = Verdict /\ Promised' = Promised
  BY <1>1, RunningFacts, PromisedSame DEF Verdict
<1>3. Pool!Dispatch(i)
  BY <1>1, <1>2 DEF Pool!Dispatch
<1>4. QED
  BY <1>1, <1>3 DEF Pool!Next

\* A result that is handled is out, and what it queues is new.
LEMMA HandlePool ==
  ASSUME IInv, IInv', NEW i \in Out, NEW S \in Fresh, pc = "loop", refining' = None,
         Out' = Out \ {i}, handled' = handled \cup {i}, todo' = todo \cup S,
         seen' = seen \cup S, UNCHANGED <<batch, cancelled>>,
         IF hand = None THEN EndIteration ELSE UNCHANGED <<pc, finished>>
  PROVE  Pool!Next
<1>1. Verdict = "running" /\ Promised' = Promised \ S
  BY RunningFacts, PromisedLearn
<1>2. Pool!Judge
  <2>1. CASE hand = None
    BY <2>1, EndIterationJudges
  <2>2. CASE hand # None
    <3>1. Verdict' = "running"
      BY <1>1, <2>2 DEF Verdict
    <3>2. QED
      BY <3>1 DEF Pool!Judge
  <2>3. QED
    BY <2>1, <2>2
<1>3. Once /\ TypeOK
  BY DEF IInv, Typed, Places
<1>4. S \in SUBSET Item /\ i \in Item /\ S \cap (todo \cup Out \cup handled) = {}
  BY <1>3, FlyingFacts DEF Fresh, Once
<1>5. Pool!Handle(i, S)
  BY <1>1, <1>2, <1>4 DEF Pool!Handle
<1>6. QED
  BY <1>4, <1>5 DEF Pool!Next

\* A received result is handled in the pool's sense.
LEMMA ReceivePool ==
  ASSUME IInv, IInv', NEW i \in resultsCh, NEW S \in Fresh, NEW Q \in Unborn, Receive(i, S, Q)
  PROVE  Pool!Next
BY ReceivePlaces, HandlePool DEF Receive, InLoop, InHandOff, Learn

\* The refined result was out until its refinement ended.
LEMMA RefinedPool ==
  ASSUME IInv, IInv', NEW S \in Fresh, NEW Q \in Unborn, Refined(S, Q)
  PROVE  Pool!Next
BY RefinedPlaces, HandlePool DEF Refined, Learn

\* A cancelled loop stops, and may drop the item in its hand.
LEMMA StopPool ==
  ASSUME IInv, pc = "loop", cancelled, pc' = "joining", Out' \subseteq Out,
         UNCHANGED <<finished, batch, seen, todo, handled, cancelled>>
  PROVE  Pool!Next
<1>1. Verdict = "running" /\ ~finished /\ Promised' = Promised
  BY RunningFacts, PromisedSame
<1>2. Verdict' = "stopped"
  BY <1>1 DEF Verdict
<1>3. Pool!Stop
  BY <1>1, <1>2 DEF Pool!Stop
<1>4. QED
  BY <1>3 DEF Pool!Next

\* A cancelled worker or producer drops what it holds.
LEMMA DropPool ==
  ASSUME cancelled, Out' \subseteq Out, Promised' \subseteq Promised,
         UNCHANGED <<pc, finished, todo, handled, cancelled>>
  PROVE  Pool!Next
<1>1. Verdict' = Verdict
  BY DEF Verdict
<1>2. Pool!Drop
  BY <1>1 DEF Pool!Drop
<1>3. QED
  BY <1>2 DEF Pool!Next

\* The context is cancelled, by the user or when Run returns; Run has left the
\* loop by then, so its verdict stands.
LEMMA CancelPool ==
  ASSUME IInv, cancelled' = TRUE, Out' = Out, pc' = pc \/ (pc # "loop" /\ pc' # "loop"),
         UNCHANGED <<finished, batch, seen, todo, handled>>
  PROVE  Pool!Next
<1>1. Verdict' = Verdict /\ Promised' = Promised
  BY PromisedSame DEF Verdict
<1>2. Pool!Cancel
  BY <1>1 DEF Pool!Cancel
<1>3. QED
  BY <1>2 DEF Pool!Next

\* A producer promises what its batch has that is new; no producer is left to do
\* so once the scan is finished.
LEMMA ProducePool ==
  ASSUME IInv, NEW p \in Producer, NEW B \in SUBSET Item, Produce(p, B)
  PROVE  Pool!Next
<1>1. /\ UNCHANGED <<pc, finished, todo, handled, cancelled>> /\ Out' = Out
      /\ Promised' = Promised \cup (B \ seen)
  BY PromisedProduce, PlacesSame DEF IInv, Produce
<1>2. ~finished /\ Verdict' = Verdict /\ Verdict # "finished"
  BY <1>1 DEF IInv, Ends, Produce, PendingHarvest, Verdict
<1>3. Pool!Promise(B \ seen) /\ B \ seen \in SUBSET Item
  BY <1>1, <1>2 DEF Pool!Promise
<1>4. QED
  BY <1>3 DEF Pool!Next

\* A batch is delivered.
LEMMA DeliverPool ==
  ASSUME IInv, IInv', NEW p \in Producer, Deliver(p)
  PROVE  Pool!Next
<1> DEFINE S == batch[p] \ seen
<1>1. /\ Out' = Out /\ S \subseteq Promised /\ Promised' = Promised \ S
      /\ todo' = todo \cup S /\ UNCHANGED <<handled, cancelled>>
  BY DeliverPlaces, PromisedDeliver DEF Deliver
<1>2. Verdict = "running" /\ Pool!Judge
  BY RunningFacts, EndIterationJudges DEF Deliver, InLoop
<1>3. S \subseteq Item /\ S \cap (todo \cup Out \cup handled) = {}
  BY DEF IInv, Typed, TypeOK, Places, Once
<1> HIDE DEF S
<1>4. Pool!Deliver(S)
  BY <1>1, <1>2, <1>3 DEF Pool!Deliver
<1>5. QED
  BY <1>3, <1>4 DEF Pool!Next

\* Init is an initial state of the pool.
LEMMA InitPool == Init => Pool!Init
<1> SUFFICES ASSUME Init PROVE Pool!Init
  OBVIOUS
<1>1. Held = {}
  BY DEF Init, Held
<1>2. Out = {}
  BY <1>1 DEF Init, Out, Handed
<1>3. Promised = {}
  BY DEF Init, Promised
<1>4. Verdict = "running"
  BY DEF Init, Verdict
<1>5. QED
  BY <1>2, <1>3, <1>4, DispatchAssumption DEF Init, Pool!Init

\* Every step of the coordinator's goroutine is a step of the pool, or is
\* invisible to it.
LEMMA LoopPool ==
  ASSUME IInv, IInv',
         \/ PacerFires \/ Tick \/ HandOff \/ HandOffCancelled \/ Results \/ Refinement
         \/ ContextDone \/ Ticker \/ Join
  PROVE  Pool!Next \/ UNCHANGED Pool!poolVars
<1> USE DEF IInv
<1>1. CASE PacerFires
  BY <1>1, PlacesSame, Invisible DEF PacerFires
<1>2. ASSUME NEW i \in todo, TickDispatch(i) PROVE Pool!Next
  BY <1>2, TickDispatchPool
<1>3. CASE TickIdle
  BY <1>3, PlacesSame, EmptyIteration DEF TickIdle, InLoop
<1>4. CASE HandOff
  BY <1>4, HandOffPlaces, EmptyIteration DEF HandOff, InHandOff
<1>5. CASE HandOffCancelled
  BY <1>5, HandOffCancelledPlaces, StopPool DEF HandOffCancelled, InHandOff
<1>6. ASSUME NEW i \in resultsCh, NEW S \in Fresh, NEW Q \in Unborn, Receive(i, S, Q)
      PROVE  Pool!Next
  BY <1>6, ReceivePool
<1>7. ASSUME NEW i \in resultsCh, NEW n \in 1..MaxPaces, ReceiveRefining(i, n)
      PROVE  UNCHANGED Pool!poolVars
  BY <1>7, ReceiveRefiningPlaces, Invisible DEF ReceiveRefining
<1>8. CASE PaceProfileRequest
  BY <1>8, PlacesSame, Invisible DEF PaceProfileRequest
<1>9. ASSUME NEW S \in Fresh, NEW Q \in Unborn, Refined(S, Q) PROVE Pool!Next
  BY <1>9, RefinedPool
<1>10. CASE ContextDone
  BY <1>10, PlacesSame, StopPool DEF ContextDone, InLoop
<1>11. CASE Ticker
  BY <1>11, PlacesSame, EmptyIteration DEF Ticker, InLoop
<1>12. CASE Join
  BY <1>12, PlacesSame, CancelPool DEF Join
<1> HIDE DEF IInv
<1>13. QED
  BY <1>1, <1>2, <1>3, <1>4, <1>5, <1>6, <1>7, <1>8, <1>9, <1>10, <1>11, <1>12
  DEF Tick, Results, Refinement

\* So is every step of a worker.
LEMMA WorkerPool ==
  ASSUME IInv, NEW w \in Worker, WorkerStep(w)
  PROVE  Pool!Next \/ UNCHANGED Pool!poolVars
<1>1. ASSUME NEW i \in workCh, WorkerTake(w, i) PROVE UNCHANGED Pool!poolVars
  BY <1>1, WorkerTakePlaces, Invisible DEF WorkerTake
<1>2. CASE WorkerProcess(w)
  BY <1>2, WorkerProcessPlaces, Invisible DEF WorkerProcess
<1>3. CASE WorkerSend(w)
  BY <1>3, WorkerSendPlaces, Invisible DEF WorkerSend
<1>4. CASE WorkerExit(w)
  <2>1. UNCHANGED <<pc, finished, todo, seen, handled, cancelled, batch>>
    BY <1>4 DEF WorkerExit
  <2>2. CASE cancelled
    BY <1>4, <2>1, <2>2, WorkerExitPlaces, PromisedSame, DropPool
  <2>3. CASE ~cancelled
    BY <1>4, <2>1, <2>3, WorkerExitPlaces, Invisible
  <2>4. QED
    BY <2>2, <2>3
<1>5. QED
  BY <1>1, <1>2, <1>3, <1>4 DEF WorkerStep

\* So is every step of a producer, and of the archive's pacer.
LEMMA ProducerPool ==
  ASSUME IInv, IInv',
         ArchiveFires \/ \E p \in Producer : ProducerStep(p) \/ Deliver(p)
  PROVE  Pool!Next \/ UNCHANGED Pool!poolVars
<1> USE DEF IInv
<1>1. CASE ArchiveFires
  BY <1>1, PlacesSame, Invisible DEF ArchiveFires
<1>2. ASSUME NEW p \in Producer, ArchivePace(p) PROVE UNCHANGED Pool!poolVars
  BY <1>2, PlacesSame, Invisible DEF ArchivePace
<1>3. ASSUME NEW p \in Producer, Abandon(p) PROVE Pool!Next
  BY <1>3, PlacesSame, PromisedAbandon, DropPool DEF Abandon
<1>4. ASSUME NEW p \in Producer, ProducerExit(p) PROVE UNCHANGED Pool!poolVars
  BY <1>4, PlacesSame, Invisible DEF ProducerExit
<1>5. ASSUME NEW p \in Producer, NEW B \in SUBSET Item, Produce(p, B) PROVE Pool!Next
  BY <1>5, ProducePool
<1>6. ASSUME NEW p \in Producer, Deliver(p) PROVE Pool!Next
  BY <1>6, DeliverPool
<1> HIDE DEF IInv
<1>7. QED
  BY <1>1, <1>2, <1>3, <1>4, <1>5, <1>6 DEF ProducerStep

\* So is every command of the user.
LEMMA UserPool ==
  ASSUME IInv, IInv', User
  PROVE  Pool!Next
<1> USE DEF IInv
<1>1. CASE Cancel
  BY <1>1, PlacesSame, CancelPool DEF Cancel
<1>2. ASSUME NEW value \in BOOLEAN, SetPaused(value) PROVE Pool!Next
  BY <1>2, PlacesSame, EmptyIteration DEF SetPaused, InLoop
<1>3. ASSUME NEW n \in setup.limits, AdjustConcurrency(n) PROVE Pool!Next
  BY <1>3, AdjustPlaces, EmptyIteration DEF AdjustConcurrency, InLoop
<1> HIDE DEF IInv
<1>4. QED
  BY <1>1, <1>2, <1>3 DEF User

\* Every step of the goroutines is a step of the pool or invisible to it.
LEMMA StepPool == IInv /\ IInv' /\ [Next]_vars => [Pool!Next]_(Pool!poolVars)
<1> SUFFICES ASSUME IInv, IInv', [Next]_vars PROVE Pool!Next \/ UNCHANGED Pool!poolVars
  OBVIOUS
<1>1. CASE \/ PacerFires \/ Tick \/ HandOff \/ HandOffCancelled \/ Results \/ Refinement
           \/ ContextDone \/ Ticker \/ Join
  BY <1>1, LoopPool
<1>2. CASE \E w \in Worker : WorkerStep(w)
  BY <1>2, WorkerPool
<1>3. CASE ArchiveFires \/ \E p \in Producer : ProducerStep(p) \/ Deliver(p)
  BY <1>3, ProducerPool
<1>4. CASE User
  BY <1>4, UserPool
<1>5. CASE UNCHANGED vars
  BY <1>5, PlacesSame, Invisible DEF vars, IInv
<1>6. CASE Terminated
  BY <1>5, <1>6 DEF Terminated
<1>7. QED
  BY <1>1, <1>2, <1>3, <1>4, <1>5, <1>6 DEF Next

\* The goroutines and channels implement the pool: nothing that was queued,
\* promised or handed out is lost before the scan is cancelled, nothing is handled
\* twice, and scan.finished is emitted only when nothing is left.
THEOREM ImplementsWorkPool == Spec => Implements
<1>1. QED
  BY Invariance, InitPool, StepPool, PTL DEF Spec, Implements, Pool!Spec
=============================================================================
