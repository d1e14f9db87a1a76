------------------------------ MODULE WorkPool ------------------------------
(***************************************************************************)
(* What the coordinator relies on when it hands requests to its workers    *)
(* and takes seeds from its producers, whatever goroutines and channels    *)
(* lie in between: an item is handled at most once, nothing that was       *)
(* queued, handed out or promised is lost before the scan is cancelled,    *)
(* and the scan reports itself finished only when nothing is left.         *)
(* Coordinator.tla is written at this level; Dispatch.tla implements it.   *)
(***************************************************************************)
CONSTANT Item

VARIABLES
  promised,   \* items a producer holds a batch with, not yet queued
  todo,       \* items the coordinator can dispatch
  out,        \* items dispatched and not yet handled
  handled,    \* items whose result was handled
  verdict,    \* running, finished (scan.finished emitted) or stopped
  cancelled   \* the run context is cancelled

poolVars == <<promised, todo, out, handled, verdict, cancelled>>

Known == promised \cup todo \cup out \cup handled
Empty == promised = {} /\ todo = {} /\ out = {}

\* The scan goes on or, when nothing is left, is finished.
Judge == verdict' = "running" \/ (verdict' = "finished" /\ Empty')

Init ==
  /\ todo \subseteq Item
  /\ promised = {} /\ out = {} /\ handled = {}
  /\ verdict = "running" /\ cancelled = FALSE

Promise(S) ==
  /\ verdict # "finished"
  /\ promised' = promised \cup S
  /\ UNCHANGED <<todo, out, handled, verdict, cancelled>>

Dispatch(i) ==
  /\ verdict = "running" /\ i \in todo
  /\ todo' = todo \ {i} /\ out' = out \cup {i}
  /\ UNCHANGED <<promised, handled, verdict, cancelled>>

\* A result is handled; it may queue items that were never queued before.
Handle(i, S) ==
  /\ verdict = "running" /\ i \in out
  /\ S \cap (todo \cup out \cup handled) = {}
  /\ out' = out \ {i} /\ handled' = handled \cup {i}
  /\ todo' = todo \cup S /\ promised' = promised \ S
  /\ Judge
  /\ UNCHANGED cancelled

\* A batch arrives.
Deliver(S) ==
  /\ verdict = "running" /\ S \subseteq promised
  /\ S \cap (todo \cup out \cup handled) = {}
  /\ todo' = todo \cup S /\ promised' = promised \ S
  /\ Judge
  /\ UNCHANGED <<out, handled, cancelled>>

\* A cancelled scan stops, and may drop what is out and what is promised.
Stop ==
  /\ verdict = "running" /\ cancelled
  /\ verdict' = "stopped" /\ out' \subseteq out
  /\ UNCHANGED <<promised, todo, handled, cancelled>>
Drop ==
  /\ cancelled
  /\ out' \subseteq out /\ promised' \subseteq promised
  /\ UNCHANGED <<todo, handled, verdict, cancelled>>
Cancel == cancelled' = TRUE /\ UNCHANGED <<promised, todo, out, handled, verdict>>

Next ==
  \/ \E S \in SUBSET Item : Promise(S) \/ Deliver(S)
  \/ \E i \in Item : Dispatch(i)
  \/ \E i \in Item, S \in SUBSET Item : Handle(i, S)
  \/ Stop \/ Drop \/ Cancel

Spec == Init /\ [][Next]_poolVars
=============================================================================
