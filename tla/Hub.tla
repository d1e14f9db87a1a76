-------------------------------- MODULE Hub --------------------------------
(***************************************************************************)
(* The event hub of one scan (internal/daemon/hub.go, ws.go): a            *)
(* non-blocking queue from the coordinator, the hub goroutine that fans    *)
(* events out, and for every client a handler goroutine (EventsHandler), a *)
(* set of lanes under a lock, and a send loop that is woken through a      *)
(* channel of capacity one.                                                *)
(*                                                                         *)
(* An event is its lane and its number; stats and snapshot are the two     *)
(* replace-latest types, hit the coalesced one, important everything else. *)
(***************************************************************************)
EXTENDS Integers, Sequences, FiniteSets

CONSTANTS
  Client,
  Slow,        \* clients that may never complete a write
  InCap,       \* HubInCap
  ClientBufCap,
  MaxEvents,   \* bound on the events of a scan
  Kinds,       \* the kinds of events the scan emits
  ScanMayEnd,  \* whether the scan ends (and the hub with it)
  Leaving      \* clients that may disconnect

Latest == {"stats", "snapshot"}
Kind == Latest \cup {"important", "hit"}

ASSUME HubAssumption ==
  /\ Slow \subseteq Client
  /\ InCap \in Nat \ {0} /\ ClientBufCap \in Nat \ {0} /\ MaxEvents \in Nat
  /\ Kinds \subseteq Kind
  /\ ScanMayEnd \in BOOLEAN /\ Leaving \subseteq Client

Event == [kind : Kind, n : 1..MaxEvents]
\* What a send loop writes: an event, or the count of coalesced hits.
Coalesced(k) == [kind |-> "coalesced", n |-> k]
NoMessage == [kind |-> "none", n |-> 0]

VARIABLES
  emitted,    \* events emitted so far
  scan,       \* running, or ended: the hub's context is cancelled
  in,         \* Hub.In
  hub,        \* the hub goroutine: running or stopped
  clients,    \* Hub.clients
  lanes,      \* client |-> its lanes, closed and wake
  sender,     \* client |-> sendLoop: off, waiting, draining, writing, unregistering, exited
  writing,    \* client |-> the message being written
  handler,    \* client |-> EventsHandler: off, registering, reading, unregistering, exited
  peer,       \* client |-> connected, gone
  \* History, per client.
  fanned,     \* important events fanned out to it, and the number of hits
  got         \* what it received: important events, hits, newest of each latest kind

scanVars == <<emitted, scan, in>>
clientVars == <<sender, writing, handler, peer>>
vars == <<scanVars, hub, clients, lanes, clientVars, fanned, got>>

EmptyLanes ==
  [important |-> << >>, latest |-> {}, hits |-> << >>, hitDropped |-> 0,
   closed |-> FALSE, wake |-> FALSE]
Pending(l) == l.important # << >> \/ l.latest # {} \/ l.hitDropped > 0 \/ l.hits # << >>

-----------------------------------------------------------------------------
(* The coordinator's side.                                                 *)

\* NewEmitter: a full queue drops the event, the coordinator never waits.
Emit(kind) ==
  /\ scan = "running" /\ emitted < MaxEvents
  /\ emitted' = emitted + 1
  /\ in' = IF Len(in) < InCap THEN Append(in, [kind |-> kind, n |-> emitted + 1]) ELSE in
  /\ UNCHANGED <<scan, hub, clients, lanes, clientVars, fanned, got>>

\* adopt: Run returned, the hub's context is cancelled.
ScanEnds ==
  /\ ScanMayEnd /\ scan = "running"
  /\ scan' = "ended"
  /\ UNCHANGED <<emitted, in, hub, clients, lanes, clientVars, fanned, got>>

-----------------------------------------------------------------------------
(* The hub goroutine.                                                      *)

\* enqueue, a lane each.  Mutants: telemetry that waits is not replaced; a
\* dropped hit is not counted; an important event overtakes those that wait.
KeepAllLatest(l, ev) == [l EXCEPT !.latest = @ \cup {ev}]
KeepLatest(l, ev) == [l EXCEPT !.latest = {x \in @ : x.kind # ev.kind} \cup {ev}]

KeepHitUncounted(l, ev) ==
  IF Len(l.hits) >= ClientBufCap THEN [l EXCEPT !.hits = Append(Tail(@), ev)]
  ELSE [l EXCEPT !.hits = Append(@, ev)]
KeepHitUnbounded(l, ev) == [l EXCEPT !.hits = Append(@, ev)]
KeepHit(l, ev) ==
  IF Len(l.hits) >= ClientBufCap
  THEN [l EXCEPT !.hits = Append(Tail(@), ev), !.hitDropped = @ + 1]
  ELSE [l EXCEPT !.hits = Append(@, ev)]

KeepImportantInFront(l, ev) == [l EXCEPT !.important = <<ev>> \o @]
KeepImportant(l, ev) == [l EXCEPT !.important = Append(@, ev)]

\* classify.
Kept(l, ev) ==
  CASE ev.kind \in Latest -> KeepLatest(l, ev)
    [] ev.kind = "hit" -> KeepHit(l, ev)
    [] OTHER -> KeepImportant(l, ev)

\* Mutant: only the first event that waits leaves a wake-up.
EnqueueNoWake(l, ev) ==
  IF l.closed THEN l ELSE [Kept(l, ev) EXCEPT !.wake = ~Pending(l)]

Enqueue(l, ev) == IF l.closed THEN l ELSE [Kept(l, ev) EXCEPT !.wake = TRUE]

Fanned(f, ev) ==
  CASE ev.kind = "important" -> [f EXCEPT !.important = Append(@, ev)]
    [] ev.kind = "hit" -> [f EXCEPT !.hits = @ + 1]
    [] OTHER -> f

FanOut ==
  /\ hub = "running" /\ in # << >>
  /\ in' = Tail(in)
  /\ lanes' = [c \in Client |-> IF c \in clients THEN Enqueue(lanes[c], Head(in)) ELSE lanes[c]]
  /\ fanned' = [c \in Client |-> IF c \in clients THEN Fanned(fanned[c], Head(in)) ELSE fanned[c]]
  /\ UNCHANGED <<emitted, scan, hub, clients, clientVars, got>>

\* The rendezvous with Register.
HubRegister(c) ==
  /\ hub = "running" /\ handler[c] = "registering"
  /\ clients' = clients \cup {c}
  /\ handler' = [handler EXCEPT ![c] = "reading"]
  /\ UNCHANGED <<scanVars, hub, lanes, sender, writing, peer, fanned, got>>

\* shutdown of the clients C: closed, the transport too.
Shutdown(C) == lanes' = [c \in Client |-> IF c \in C THEN [lanes[c] EXCEPT !.closed = TRUE] ELSE lanes[c]]

\* Mutant: the hub takes Unregister of registered clients only.
HubUnregisterKnown(c) ==
  /\ hub = "running" /\ c \in clients
  /\ \/ handler[c] = "unregistering" /\ handler' = [handler EXCEPT ![c] = "exited"]
        /\ UNCHANGED sender
     \/ sender[c] = "unregistering" /\ sender' = [sender EXCEPT ![c] = "exited"]
        /\ UNCHANGED handler
  /\ clients' = clients \ {c}
  /\ Shutdown(clients \cap {c})
  /\ UNCHANGED <<scanVars, hub, writing, peer, fanned, got>>

\* The rendezvous with Unregister, called by the handler or by the send loop.
HubUnregister(c) ==
  /\ hub = "running"
  /\ \/ handler[c] = "unregistering" /\ handler' = [handler EXCEPT ![c] = "exited"]
        /\ UNCHANGED sender
     \/ sender[c] = "unregistering" /\ sender' = [sender EXCEPT ![c] = "exited"]
        /\ UNCHANGED handler
  /\ clients' = clients \ {c}
  /\ Shutdown(clients \cap {c})
  /\ UNCHANGED <<scanVars, hub, writing, peer, fanned, got>>

\* Mutant: the clients are forgotten, not closed.
HubStopForgets ==
  /\ hub = "running" /\ scan = "ended"
  /\ hub' = "stopped" /\ clients' = {}
  /\ UNCHANGED <<scanVars, lanes, clientVars, fanned, got>>

\* The context is done: every client is closed and the goroutine returns.
HubStop ==
  /\ hub = "running" /\ scan = "ended"
  /\ hub' = "stopped" /\ clients' = {}
  /\ Shutdown(clients)
  /\ UNCHANGED <<scanVars, clientVars, fanned, got>>

-----------------------------------------------------------------------------
(* A client's handler and its peer.                                        *)

\* A WebSocket is accepted: the send loop starts and Register waits for the hub.
Connect(c) ==
  /\ handler[c] = "off"
  /\ handler' = [handler EXCEPT ![c] = "registering"]
  /\ sender' = [sender EXCEPT ![c] = "waiting"]
  /\ UNCHANGED <<scanVars, hub, clients, lanes, writing, peer, fanned, got>>

PeerLeaves(c) ==
  /\ c \in Leaving /\ handler[c] # "off" /\ peer[c] = "connected"
  /\ peer' = [peer EXCEPT ![c] = "gone"]
  /\ UNCHANGED <<scanVars, hub, clients, lanes, sender, writing, handler, fanned, got>>

Broken(c) == lanes[c].closed \/ peer[c] = "gone"

\* Read fails: the deferred Unregister waits for the hub.
ReadFails(c) ==
  /\ handler[c] = "reading" /\ Broken(c)
  /\ handler' = [handler EXCEPT ![c] = "unregistering"]
  /\ UNCHANGED <<scanVars, hub, clients, lanes, sender, writing, peer, fanned, got>>

-----------------------------------------------------------------------------
(* A client's send loop.                                                   *)

SenderWakes(c) ==
  /\ sender[c] = "waiting" /\ lanes[c].wake
  /\ sender' = [sender EXCEPT ![c] = "draining"]
  /\ lanes' = [lanes EXCEPT ![c].wake = FALSE]
  /\ UNCHANGED <<scanVars, hub, clients, writing, handler, peer, fanned, got>>

SenderStops(c) ==
  /\ sender[c] = "waiting" /\ lanes[c].closed
  /\ sender' = [sender EXCEPT ![c] = "exited"]
  /\ UNCHANGED <<scanVars, hub, clients, lanes, writing, handler, peer, fanned, got>>

\* next, in its order of priority: the message and what is left of the lanes.
\* The two latest kinds are picked in any order.
NextMessages(l) ==
  IF l.important # << >>
  THEN {[msg |-> Head(l.important), rest |-> [l EXCEPT !.important = Tail(@)]]}
  ELSE IF l.latest # {}
  THEN {[msg |-> ev, rest |-> [l EXCEPT !.latest = @ \ {ev}]] : ev \in l.latest}
  ELSE IF l.hitDropped > 0
  THEN {[msg |-> Coalesced(l.hitDropped), rest |-> [l EXCEPT !.hitDropped = 0]]}
  ELSE {[msg |-> Head(l.hits), rest |-> [l EXCEPT !.hits = Tail(@)]]}

SenderNext(c) ==
  /\ sender[c] = "draining" /\ Pending(lanes[c])
  /\ \E m \in NextMessages(lanes[c]) :
       /\ writing' = [writing EXCEPT ![c] = m.msg]
       /\ lanes' = [lanes EXCEPT ![c] = m.rest]
  /\ sender' = [sender EXCEPT ![c] = "writing"]
  /\ UNCHANGED <<scanVars, hub, clients, handler, peer, fanned, got>>

SenderIdle(c) ==
  /\ sender[c] = "draining" /\ ~Pending(lanes[c])
  /\ sender' = [sender EXCEPT ![c] = "waiting"]
  /\ UNCHANGED <<scanVars, hub, clients, lanes, writing, handler, peer, fanned, got>>

Received(g, m) ==
  CASE m.kind = "important" -> [g EXCEPT !.important = Append(@, m)]
    [] m.kind = "hit" -> [g EXCEPT !.hits = @ + 1]
    [] m.kind = "coalesced" -> [g EXCEPT !.hits = @ + m.n]
    [] OTHER -> [g EXCEPT !.newest[m.kind] = m.n]

WriteSucceeds(c) ==
  /\ sender[c] = "writing" /\ ~Broken(c)
  /\ got' = [got EXCEPT ![c] = Received(@, writing[c])]
  /\ writing' = [writing EXCEPT ![c] = NoMessage]
  /\ sender' = [sender EXCEPT ![c] = "draining"]
  /\ UNCHANGED <<scanVars, hub, clients, lanes, handler, peer, fanned>>

WriteFails(c) ==
  /\ sender[c] = "writing" /\ Broken(c)
  /\ writing' = [writing EXCEPT ![c] = NoMessage]
  /\ sender' = [sender EXCEPT ![c] = "unregistering"]
  /\ UNCHANGED <<scanVars, hub, clients, lanes, handler, peer, fanned, got>>

-----------------------------------------------------------------------------
Init ==
  /\ emitted = 0 /\ scan = "running" /\ in = << >>
  /\ hub = "running" /\ clients = {}
  /\ lanes = [c \in Client |-> EmptyLanes]
  /\ sender = [c \in Client |-> "off"] /\ writing = [c \in Client |-> NoMessage]
  /\ handler = [c \in Client |-> "off"] /\ peer = [c \in Client |-> "connected"]
  /\ fanned = [c \in Client |-> [important |-> << >>, hits |-> 0]]
  /\ got = [c \in Client |-> [important |-> << >>, hits |-> 0, newest |-> [k \in Latest |-> 0]]]

HubStep(c) == HubRegister(c) \/ HubUnregister(c)
Loop(c) == SenderWakes(c) \/ SenderStops(c) \/ SenderNext(c) \/ SenderIdle(c) \/ WriteFails(c)

Next ==
  \/ \E kind \in Kinds : Emit(kind)
  \/ ScanEnds \/ FanOut \/ HubStop
  \/ \E c \in Client :
       \/ HubStep(c) \/ Connect(c) \/ PeerLeaves(c) \/ ReadFails(c)
       \/ Loop(c) \/ WriteSucceeds(c)

Spec == Init /\ [][Next]_vars

\* Fairness: goroutines run, the hub's select serves a case that stays ready, a
\* broken connection fails reads and writes, and clients that are not slow
\* complete their writes.  Nothing is assumed of the scan and of who connects.
Fairness ==
  /\ WF_vars(FanOut) /\ WF_vars(HubStop)
  /\ \A c \in Client : WF_vars(HubStep(c)) /\ WF_vars(ReadFails(c)) /\ WF_vars(Loop(c))
  /\ \A c \in Client \ Slow : WF_vars(WriteSucceeds(c))
FairSpec == Spec /\ Fairness

-----------------------------------------------------------------------------
(* Properties.                                                             *)

\* Every variable has its type, and no queue exceeds its capacity.
TypeOK ==
  /\ emitted \in 0..MaxEvents /\ scan \in {"running", "ended"}
  /\ in \in Seq(Event) /\ Len(in) <= InCap
  /\ hub \in {"running", "stopped"} /\ clients \subseteq Client
  /\ \A c \in Client :
       /\ lanes[c].important \in Seq(Event) /\ lanes[c].latest \subseteq Event
       /\ lanes[c].hits \in Seq(Event) /\ Len(lanes[c].hits) <= ClientBufCap
       /\ lanes[c].hitDropped \in Nat
       /\ lanes[c].closed \in BOOLEAN /\ lanes[c].wake \in BOOLEAN
       /\ sender[c] \in {"off", "waiting", "draining", "writing", "unregistering", "exited"}
       /\ handler[c] \in {"off", "registering", "reading", "unregistering", "exited"}
       /\ peer[c] \in {"connected", "gone"}

Alive(c) == sender[c] \notin {"unregistering", "exited"}
Important(m) == IF m.kind = "important" THEN <<m>> ELSE << >>
Hits(m) == CASE m.kind = "hit" -> 1 [] m.kind = "coalesced" -> m.n [] OTHER -> 0

\* The important lane never drops or reorders: what a client received, is being
\* sent and has waiting is, in order, what was fanned out to it.
ImportantInOrder ==
  \A c \in Client : Alive(c) =>
    fanned[c].important = got[c].important \o Important(writing[c]) \o lanes[c].important

\* No hit disappears silently: a client got it, or its count, or will.
HitsCounted ==
  \A c \in Client : Alive(c) =>
    fanned[c].hits = got[c].hits + Hits(writing[c]) + Len(lanes[c].hits) + lanes[c].hitDropped

\* A client never receives telemetry older than what it already has.
TelemetryFresh ==
  [][\A c \in Client, k \in Latest : got'[c].newest[k] >= got[c].newest[k]]_vars

\* No wake-up is lost and no slow client holds up another: whatever waits for a
\* client that completes its writes is sent, or the client is gone.
Served ==
  \A c \in Client \ Slow :
    (c \in clients /\ Pending(lanes[c])) ~> (Broken(c) \/ ~Pending(lanes[c]))

\* At the end of the scan no send loop of a registered client is left waiting.
SendersEnd ==
  \A c \in Client :
    (hub = "stopped" /\ handler[c] # "registering" /\ sender[c] = "waiting")
      ~> sender[c] # "waiting"

\* While the hub runs, Unregister returns: also when handler and send loop both
\* give up on the same client, or a slow client sits in its write.
UnregisterServed ==
  \A c \in Client : handler[c] = "unregistering" ~> (handler[c] = "exited" \/ hub = "stopped")

\* Unregister removes the client and lets the handler return.
HandlersEnd == \A c \in Client : handler[c] = "unregistering" ~> handler[c] = "exited"
=============================================================================
