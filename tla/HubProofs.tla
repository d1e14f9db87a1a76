----------------------------- MODULE HubProofs -----------------------------
(***************************************************************************)
(* What the hub promises of one client's lanes, for every number of        *)
(* clients and events and every capacity.                                  *)
(***************************************************************************)
EXTENDS Hub, SequenceTheorems, TLAPS

ImportantEvent == [kind : {"important"}, n : 1..MaxEvents]
HitEvent == [kind : {"hit"}, n : 1..MaxEvents]
LatestEvent == [kind : Latest, n : 1..MaxEvents]

Lane ==
  [important : Seq(ImportantEvent), latest : SUBSET LatestEvent, hits : Seq(HitEvent),
   hitDropped : Nat, closed : BOOLEAN, wake : BOOLEAN]
Message ==
  ImportantEvent \cup HitEvent \cup LatestEvent \cup [kind : {"coalesced"}, n : Nat] \cup {NoMessage}
FannedRecord == [important : Seq(ImportantEvent), hits : Nat]
GotRecord == [important : Seq(ImportantEvent), hits : Nat, newest : [Latest -> Nat]]

\* What was fanned out to a client is what it got, what is being written and what
\* waits in its lanes: important events in order, hits by number.
Flow(l, w, f, g) ==
  /\ f.important = g.important \o Important(w) \o l.important
  /\ f.hits = g.hits + Hits(w) + Len(l.hits) + l.hitDropped

-----------------------------------------------------------------------------
(* Sequences of important events.                                          *)

\* Appending at the end of a concatenation.
LEMMA AppendLast ==
  \A s, t \in Seq(ImportantEvent) : \A e \in ImportantEvent : Append(s \o t, e) = s \o Append(t, e)
<1> SUFFICES ASSUME NEW s \in Seq(ImportantEvent), NEW t \in Seq(ImportantEvent), NEW e \in ImportantEvent
             PROVE  Append(s \o t, e) = s \o Append(t, e)
  OBVIOUS
<1>1. s \o t \in Seq(ImportantEvent) /\ Append(t, e) \in Seq(ImportantEvent)
  BY ConcatProperties
<1>2. /\ Append(s \o t, e) \in Seq(ImportantEvent) /\ s \o Append(t, e) \in Seq(ImportantEvent)
      /\ Len(Append(s \o t, e)) = Len(s \o Append(t, e))
  BY <1>1, ConcatProperties
<1>3. ASSUME NEW i \in 1..Len(Append(s \o t, e))
      PROVE  Append(s \o t, e)[i] = (s \o Append(t, e))[i]
  BY <1>1, <1>2, <1>3, ConcatProperties
<1> QED  BY <1>2, <1>3, SeqEqual

\* Moving the first element of the second sequence to the end of the first.
LEMMA MoveHead ==
  \A s, t \in Seq(ImportantEvent) : t # << >> => s \o t = s \o <<Head(t)>> \o Tail(t)
<1> SUFFICES ASSUME NEW s \in Seq(ImportantEvent), NEW t \in Seq(ImportantEvent), t # << >>
             PROVE  s \o t = s \o <<Head(t)>> \o Tail(t)
  OBVIOUS
<1>1. Head(t) \in ImportantEvent /\ Tail(t) \in Seq(ImportantEvent) /\ <<Head(t)>> \in Seq(ImportantEvent)
  BY HeadTailProperties
<1>2. t = <<Head(t)>> \o Tail(t)
  <2>1. <<Head(t)>> \o Tail(t) \in Seq(ImportantEvent) /\ Len(<<Head(t)>> \o Tail(t)) = Len(t)
    BY <1>1, ConcatProperties, HeadTailProperties, Len(<<Head(t)>>) = 1
  <2>2. \A i \in 1..Len(t) : t[i] = (<<Head(t)>> \o Tail(t))[i]
    BY <1>1, <2>1, ConcatProperties, HeadTailProperties, Len(<<Head(t)>>) = 1
  <2> QED  BY <2>1, <2>2, SeqEqual
<1> QED  BY <1>1, <1>2, ConcatAssociative

\* Appending one element is concatenating a sequence of one.
LEMMA AppendOne ==
  \A s \in Seq(ImportantEvent) : \A e \in ImportantEvent : Append(s, e) = s \o <<e>>
BY SeqEqual, ConcatProperties

-----------------------------------------------------------------------------
(* The lanes.                                                              *)

\* Important(w) is a sequence of important events, Hits(w) a number.
LEMMA MessageParts ==
  ASSUME NEW w \in Message
  PROVE  Important(w) \in Seq(ImportantEvent) /\ Hits(w) \in Nat
<1>1. CASE w \in ImportantEvent
  BY <1>1 DEF ImportantEvent, Important, Hits
<1>2. CASE w \in HitEvent
  BY <1>2 DEF HitEvent, Important, Hits
<1>3. CASE w \in LatestEvent
  BY <1>3 DEF LatestEvent, Latest, Important, Hits
<1>4. CASE w \in [kind : {"coalesced"}, n : Nat]
  BY <1>4 DEF Important, Hits
<1>5. CASE w = NoMessage
  BY <1>5 DEF NoMessage, Important, Hits
<1> QED  BY <1>1, <1>2, <1>3, <1>4, <1>5 DEF Message

\* enqueue, while the hub notes what it fanned out.
LEMMA EnqueueFlow ==
  ASSUME HubAssumption, NEW l \in Lane, NEW w \in Message, NEW f \in FannedRecord, NEW g \in GotRecord,
         NEW ev \in Event, ~l.closed, Len(l.hits) <= ClientBufCap
  PROVE  /\ Enqueue(l, ev) \in Lane /\ Fanned(f, ev) \in FannedRecord
         /\ ~Enqueue(l, ev).closed /\ Len(Enqueue(l, ev).hits) <= ClientBufCap
         /\ Flow(l, w, f, g) => Flow(Enqueue(l, ev), w, Fanned(f, ev), g)
<1> DEFINE k == Kept(l, ev)
<1>0. Enqueue(l, ev) = [k EXCEPT !.wake = TRUE]
  BY DEF Enqueue
<1>a. Important(w) \in Seq(ImportantEvent) /\ Hits(w) \in Nat
  BY MessageParts
<1>b. ev.kind \in Latest \cup {"important", "hit"} /\ ev.n \in 1..MaxEvents
  BY DEF Event, Kind
<1>c. Flow(l, w, f, g) => f.hits = g.hits + Hits(w) + Len(l.hits) + l.hitDropped
  BY DEF Flow
<1>s. SUFFICES /\ k \in Lane /\ Fanned(f, ev) \in FannedRecord
               /\ ~k.closed /\ Len(k.hits) <= ClientBufCap
               /\ Flow(l, w, f, g) => Flow(k, w, Fanned(f, ev), g)
  <2> HIDE DEF k
  <2>1. ASSUME k \in Lane
        PROVE  /\ [k EXCEPT !.wake = TRUE] \in Lane
               /\ [k EXCEPT !.wake = TRUE].closed = k.closed
               /\ [k EXCEPT !.wake = TRUE].hits = k.hits
               /\ [k EXCEPT !.wake = TRUE].important = k.important
               /\ [k EXCEPT !.wake = TRUE].hitDropped = k.hitDropped
    BY <2>1 DEF Lane
  <2> QED  BY <1>0, <2>1 DEF Flow
<1>1. CASE ev.kind \in Latest
  <2>1. k = KeepLatest(l, ev) /\ Fanned(f, ev) = f
    BY <1>1 DEF Kept, Fanned, Latest
  <2>2. ev \in LatestEvent
    BY <1>1 DEF LatestEvent, Event
  <2>3. /\ KeepLatest(l, ev) \in Lane
        /\ KeepLatest(l, ev).closed = l.closed /\ KeepLatest(l, ev).hits = l.hits
        /\ KeepLatest(l, ev).important = l.important
        /\ KeepLatest(l, ev).hitDropped = l.hitDropped
    BY <2>2 DEF KeepLatest, Lane
  <2> QED  BY <2>1, <2>3 DEF Flow
<1>2. CASE ev.kind = "important"
  <2>1. k = KeepImportant(l, ev) /\ Fanned(f, ev) = [f EXCEPT !.important = Append(@, ev)]
    BY <1>2 DEF Kept, Fanned, Latest
  <2>2. ev \in ImportantEvent
    BY <1>2 DEF ImportantEvent, Event
  <2>3. /\ KeepImportant(l, ev) \in Lane
        /\ KeepImportant(l, ev).closed = l.closed /\ KeepImportant(l, ev).hits = l.hits
        /\ KeepImportant(l, ev).important = Append(l.important, ev)
        /\ KeepImportant(l, ev).hitDropped = l.hitDropped
    <3>1. Append(l.important, ev) \in Seq(ImportantEvent)
      BY <2>2 DEF Lane
    <3>2. KeepImportant(l, ev) = [l EXCEPT !.important = Append(l.important, ev)]
      BY DEF KeepImportant
    <3> HIDE DEF k
    <3> QED  BY <3>1, <3>2 DEF Lane
  <2>4. /\ Fanned(f, ev) \in FannedRecord
        /\ Fanned(f, ev).important = Append(f.important, ev) /\ Fanned(f, ev).hits = f.hits
    <3>1. Append(f.important, ev) \in Seq(ImportantEvent)
      BY <2>2 DEF FannedRecord
    <3> QED  BY <2>1, <3>1 DEF FannedRecord
  <2>5. g.important \in Seq(ImportantEvent) /\ l.important \in Seq(ImportantEvent)
    BY DEF GotRecord, Lane
  <2>6. g.important \o Important(w) \in Seq(ImportantEvent)
    BY <1>a, <2>5, ConcatProperties
  <2>7. Flow(l, w, f, g) =>
          Append(f.important, ev) = (g.important \o Important(w)) \o Append(l.important, ev)
    <3> HAVE Flow(l, w, f, g)
    <3> DEFINE p == g.important \o Important(w)
               q == l.important
    <3>1. f.important = p \o q
      BY DEF Flow
    <3>2. p \in Seq(ImportantEvent) /\ q \in Seq(ImportantEvent)
      BY <2>5, <2>6
    <3> HIDE DEF p, q
    <3>3. Append(p \o q, ev) = p \o Append(q, ev)
      BY <2>2, <3>2, AppendLast
    <3> QED  BY <3>1, <3>3 DEF p, q
  <2> QED  BY <2>1, <2>3, <2>4, <2>7 DEF Flow
<1>3. CASE ev.kind = "hit"
  <2>1. k = KeepHit(l, ev) /\ Fanned(f, ev) = [f EXCEPT !.hits = @ + 1]
    BY <1>3 DEF Kept, Fanned, Latest
  <2>2. ev \in HitEvent
    BY <1>3 DEF HitEvent, Event
  <2>3. /\ Fanned(f, ev) \in FannedRecord
        /\ Fanned(f, ev).important = f.important /\ Fanned(f, ev).hits = f.hits + 1
    BY <2>1 DEF FannedRecord
  <2>4. l.hits \in Seq(HitEvent) /\ l.hitDropped \in Nat /\ g.hits \in Nat /\ Len(l.hits) \in Nat
    BY DEF Lane, GotRecord
  <2>5. CASE Len(l.hits) >= ClientBufCap
    <3>1. l.hits # << >>
      BY <2>4, <2>5 DEF HubAssumption
    <3>2. /\ Append(Tail(l.hits), ev) \in Seq(HitEvent)
          /\ Len(Append(Tail(l.hits), ev)) = Len(l.hits)
      BY <2>2, <2>4, <3>1, HeadTailProperties
    <3> DEFINE m == [l EXCEPT !.hits = Append(Tail(l.hits), ev)]
    <3>3. k = [m EXCEPT !.hitDropped = l.hitDropped + 1]
      BY <2>1, <2>5 DEF KeepHit
    <3>m. /\ m \in Lane /\ m.closed = l.closed /\ m.hits = Append(Tail(l.hits), ev)
          /\ m.important = l.important
      BY <3>2 DEF Lane
    <3> HIDE DEF m, k
    <3>4. /\ k \in Lane /\ k.closed = l.closed /\ Len(k.hits) = Len(l.hits)
          /\ k.important = l.important /\ k.hitDropped = l.hitDropped + 1
      BY <2>4, <3>2, <3>3, <3>m DEF Lane
    <3>5. Flow(l, w, f, g) => Fanned(f, ev).important = g.important \o Important(w) \o k.important
      BY <2>3, <3>4 DEF Flow
    <3>6. Flow(l, w, f, g) => Fanned(f, ev).hits = g.hits + Hits(w) + Len(k.hits) + k.hitDropped
      <4> DEFINE a == g.hits  b == Hits(w)  c == Len(l.hits)  d == l.hitDropped
      <4>1. a \in Nat /\ b \in Nat /\ c \in Nat /\ d \in Nat /\ (Flow(l, w, f, g) => f.hits = a + b + c + d)
        BY <1>a, <1>c, <2>4
      <4>2. Flow(l, w, f, g) => f.hits + 1 = a + b + c + (d + 1)
        <5> HIDE DEF a, b, c, d
        <5> QED  BY <4>1
      <4> QED  BY <2>3, <3>4, <4>2, Zenon
    <3>7. ~k.closed /\ Len(k.hits) <= ClientBufCap
      BY <2>4, <3>4 DEF HubAssumption
    <3> QED  BY <2>3, <3>4, <3>5, <3>6, <3>7 DEF Flow
  <2>6. CASE ~(Len(l.hits) >= ClientBufCap)
    <3>1. Append(l.hits, ev) \in Seq(HitEvent) /\ Len(Append(l.hits, ev)) = Len(l.hits) + 1
      BY <2>2, <2>4
    <3>2. k = [l EXCEPT !.hits = Append(@, ev)]
      BY <2>1, <2>6 DEF KeepHit
    <3>3. /\ k \in Lane /\ k.closed = l.closed /\ Len(k.hits) = Len(l.hits) + 1
          /\ k.important = l.important /\ k.hitDropped = l.hitDropped
      BY <2>4, <3>1, <3>2 DEF Lane
    <3> HIDE DEF k
    <3>5. Flow(l, w, f, g) => Fanned(f, ev).important = g.important \o Important(w) \o k.important
      BY <2>3, <3>3 DEF Flow
    <3>6. Flow(l, w, f, g) => Fanned(f, ev).hits = g.hits + Hits(w) + Len(k.hits) + k.hitDropped
      <4> DEFINE a == g.hits  b == Hits(w)  c == Len(l.hits)  d == l.hitDropped
      <4>1. a \in Nat /\ b \in Nat /\ c \in Nat /\ d \in Nat /\ (Flow(l, w, f, g) => f.hits = a + b + c + d)
        BY <1>a, <1>c, <2>4
      <4>2. Flow(l, w, f, g) => f.hits + 1 = a + b + (c + 1) + d
        <5> HIDE DEF a, b, c, d
        <5> QED  BY <4>1
      <4> QED  BY <2>3, <3>3, <4>2, Zenon
    <3>7. ~k.closed /\ Len(k.hits) <= ClientBufCap
      BY <2>4, <3>3, <2>6 DEF HubAssumption
    <3> QED  BY <2>3, <3>3, <3>5, <3>6, <3>7 DEF Flow
  <2> QED  BY <2>5, <2>6
<1> QED  BY <1>b, <1>1, <1>2, <1>3

\* A message that is not being written adds nothing.
LEMMA NoMessageParts == NoMessage \in Message /\ Important(NoMessage) = << >> /\ Hits(NoMessage) = 0
BY DEF NoMessage, Message, Important, Hits

\* Without a message being written, the important part has two pieces.
LEMMA FlowIdle ==
  ASSUME NEW l \in Lane, NEW f \in FannedRecord, NEW g \in GotRecord
  PROVE  Flow(l, NoMessage, f, g) <=>
           /\ f.important = g.important \o l.important
           /\ f.hits = g.hits + Len(l.hits) + l.hitDropped
<1>1. g.important \in Seq(ImportantEvent)
  BY DEF GotRecord
<1>2. g.important \o << >> = g.important
  BY <1>1, ConcatEmptySeq
<1>3. g.hits \in Nat /\ g.hits + 0 = g.hits
  BY DEF GotRecord
<1> QED  BY <1>2, <1>3, NoMessageParts DEF Flow

\* next takes the message it returns out of its lane.
LEMMA NextFlow ==
  ASSUME NEW l \in Lane, NEW f \in FannedRecord, NEW g \in GotRecord, Pending(l),
         Flow(l, NoMessage, f, g), NEW m \in NextMessages(l), Len(l.hits) <= ClientBufCap,
         HubAssumption
  PROVE  /\ m.msg \in Message /\ m.rest \in Lane
         /\ m.rest.closed = l.closed /\ Len(m.rest.hits) <= ClientBufCap
         /\ Flow(m.rest, m.msg, f, g)
<1>f. f.important = g.important \o l.important /\ f.hits = g.hits + Len(l.hits) + l.hitDropped
  BY FlowIdle
<1>t. /\ l.important \in Seq(ImportantEvent) /\ l.hits \in Seq(HitEvent) /\ l.hitDropped \in Nat
      /\ g.important \in Seq(ImportantEvent) /\ g.hits \in Nat /\ Len(l.hits) \in Nat
  BY DEF Lane, GotRecord
<1>e. g.important \o << >> = g.important
  BY <1>t, ConcatEmptySeq
<1>1. CASE l.important # << >>
  <2>1. m = [msg |-> Head(l.important), rest |-> [l EXCEPT !.important = Tail(l.important)]]
    BY <1>1 DEF NextMessages
  <2>2. Head(l.important) \in ImportantEvent /\ Tail(l.important) \in Seq(ImportantEvent)
    BY <1>1, <1>t, HeadTailProperties
  <2>3. /\ m.msg = Head(l.important) /\ m.rest \in Lane /\ m.rest.closed = l.closed
        /\ m.rest.hits = l.hits /\ m.rest.hitDropped = l.hitDropped
        /\ m.rest.important = Tail(l.important)
    BY <2>1, <2>2 DEF Lane
  <2>4. Important(m.msg) = <<Head(l.important)>> /\ Hits(m.msg) = 0
    BY <2>2, <2>3 DEF ImportantEvent, Important, Hits
  <2>5. g.important \o l.important = g.important \o <<Head(l.important)>> \o Tail(l.important)
    BY <1>1, <1>t, MoveHead
  <2>6. f.important = g.important \o Important(m.msg) \o m.rest.important
    BY <1>f, <2>3, <2>4, <2>5
  <2>7. f.hits = g.hits + Hits(m.msg) + Len(m.rest.hits) + m.rest.hitDropped
    BY <1>f, <1>t, <2>3, <2>4
  <2> QED  BY <2>2, <2>3, <2>6, <2>7 DEF Flow, Message
<1>2. CASE l.important = << >> /\ l.latest # {}
  <2>1. PICK ev \in l.latest : m = [msg |-> ev, rest |-> [l EXCEPT !.latest = l.latest \ {ev}]]
    BY <1>2 DEF NextMessages
  <2>2. ev \in LatestEvent
    BY <2>1 DEF Lane
  <2>3. /\ m.msg = ev /\ m.rest \in Lane /\ m.rest.closed = l.closed
        /\ m.rest.hits = l.hits /\ m.rest.hitDropped = l.hitDropped
        /\ m.rest.important = l.important
    BY <2>1 DEF Lane
  <2>4. Important(m.msg) = << >> /\ Hits(m.msg) = 0
    BY <2>2, <2>3 DEF LatestEvent, Latest, Important, Hits
  <2>6. f.important = g.important \o Important(m.msg) \o m.rest.important
    BY <1>f, <1>e, <2>3, <2>4
  <2>7. f.hits = g.hits + Hits(m.msg) + Len(m.rest.hits) + m.rest.hitDropped
    BY <1>f, <1>t, <2>3, <2>4
  <2> QED  BY <2>2, <2>3, <2>6, <2>7 DEF Flow, Message
<1>3. CASE l.important = << >> /\ l.latest = {} /\ l.hitDropped > 0
  <2>1. m = [msg |-> Coalesced(l.hitDropped), rest |-> [l EXCEPT !.hitDropped = 0]]
    BY <1>3 DEF NextMessages
  <2>3. /\ m.msg = Coalesced(l.hitDropped) /\ m.rest \in Lane /\ m.rest.closed = l.closed
        /\ m.rest.hits = l.hits /\ m.rest.hitDropped = 0
        /\ m.rest.important = l.important
    BY <2>1 DEF Lane
  <2>2. m.msg \in Message
    BY <1>t, <2>3 DEF Coalesced, Message
  <2>4. Important(m.msg) = << >> /\ Hits(m.msg) = l.hitDropped
    BY <2>3 DEF Coalesced, Important, Hits
  <2>6. f.important = g.important \o Important(m.msg) \o m.rest.important
    BY <1>f, <1>e, <2>3, <2>4
  <2>7. f.hits = g.hits + Hits(m.msg) + Len(m.rest.hits) + m.rest.hitDropped
    BY <1>f, <1>t, <2>3, <2>4
  <2> QED  BY <2>2, <2>3, <2>6, <2>7 DEF Flow
<1>4. CASE l.important = << >> /\ l.latest = {} /\ ~(l.hitDropped > 0)
  <2>0. l.hits # << >>
    BY <1>4 DEF Pending
  <2>1. m = [msg |-> Head(l.hits), rest |-> [l EXCEPT !.hits = Tail(l.hits)]]
    BY <1>4 DEF NextMessages
  <2>2. Head(l.hits) \in HitEvent /\ Tail(l.hits) \in Seq(HitEvent) /\ Len(Tail(l.hits)) = Len(l.hits) - 1
    BY <2>0, <1>t, HeadTailProperties
  <2>3. /\ m.msg = Head(l.hits) /\ m.rest \in Lane /\ m.rest.closed = l.closed
        /\ m.rest.hits = Tail(l.hits) /\ m.rest.hitDropped = l.hitDropped
        /\ m.rest.important = l.important
    BY <2>1, <2>2 DEF Lane
  <2>4. Important(m.msg) = << >> /\ Hits(m.msg) = 1
    BY <2>2, <2>3 DEF HitEvent, Important, Hits
  <2>6. f.important = g.important \o Important(m.msg) \o m.rest.important
    BY <1>f, <1>e, <2>3, <2>4
  <2>7. f.hits = g.hits + Hits(m.msg) + Len(m.rest.hits) + m.rest.hitDropped
    BY <1>f, <1>t, <2>2, <2>3, <2>4
  <2>8. Len(m.rest.hits) <= ClientBufCap
    BY <1>t, <2>2, <2>3 DEF HubAssumption
  <2> QED  BY <2>2, <2>3, <2>6, <2>7, <2>8 DEF Flow, Message
<1> QED  BY <1>1, <1>2, <1>3, <1>4

\* A completed write moves the message to what the client got.
LEMMA ReceivedFlow ==
  ASSUME NEW l \in Lane, NEW w \in Message, NEW f \in FannedRecord, NEW g \in GotRecord,
         Flow(l, w, f, g)
  PROVE  Received(g, w) \in GotRecord /\ Flow(l, NoMessage, f, Received(g, w))
<1>t. /\ l.important \in Seq(ImportantEvent) /\ l.hitDropped \in Nat /\ Len(l.hits) \in Nat
      /\ g.important \in Seq(ImportantEvent) /\ g.hits \in Nat /\ g.newest \in [Latest -> Nat]
  BY DEF Lane, GotRecord
<1>e. g.important \o << >> = g.important
  BY <1>t, ConcatEmptySeq
<1>f. /\ f.important = g.important \o Important(w) \o l.important
      /\ f.hits = g.hits + Hits(w) + Len(l.hits) + l.hitDropped
  BY DEF Flow
<1> DEFINE r == Received(g, w)
<1>s. SUFFICES r \in GotRecord /\ r.important = g.important \o Important(w) /\ r.hits = g.hits + Hits(w)
  <2>1. Flow(l, NoMessage, f, r) <=>
           f.important = r.important \o l.important /\ f.hits = r.hits + Len(l.hits) + l.hitDropped
    BY <1>s, FlowIdle
  <2> QED  BY <1>f, <1>s, <2>1
<1>1. CASE w \in ImportantEvent
  <2>1. r = [g EXCEPT !.important = Append(g.important, w)] /\ Important(w) = <<w>> /\ Hits(w) = 0
    BY <1>1 DEF ImportantEvent, Received, Important, Hits
  <2>2. Append(g.important, w) \in Seq(ImportantEvent) /\ Append(g.important, w) = g.important \o <<w>>
    BY <1>1, <1>t, AppendOne
  <2>3. r \in GotRecord /\ r.important = Append(g.important, w) /\ r.hits = g.hits
    <3> HIDE DEF r
    <3> QED  BY <2>1, <2>2 DEF GotRecord
  <2>4. g.hits + 0 = g.hits
    BY <1>t
  <2> QED  BY <2>1, <2>2, <2>3, <2>4
<1>2. CASE w \in HitEvent
  <2>1. r = [g EXCEPT !.hits = g.hits + 1] /\ Important(w) = << >> /\ Hits(w) = 1
    BY <1>2 DEF HitEvent, Received, Important, Hits
  <2> QED  BY <1>t, <1>e, <2>1 DEF GotRecord
<1>3. CASE w \in [kind : {"coalesced"}, n : Nat]
  <2>1. r = [g EXCEPT !.hits = g.hits + w.n] /\ Important(w) = << >> /\ Hits(w) = w.n
    BY <1>3 DEF Received, Important, Hits
  <2>2. r \in GotRecord /\ r.important = g.important /\ r.hits = g.hits + w.n
    <3>1. g.hits + w.n \in Nat
      BY <1>t, <1>3
    <3> DEFINE x == g.hits + w.n
    <3> HIDE DEF r, x
    <3>2. r = [g EXCEPT !.hits = x] /\ x \in Nat
      BY <2>1, <3>1 DEF x
    <3>3. r \in GotRecord /\ r.important = g.important /\ r.hits = x
      BY <3>2 DEF GotRecord
    <3> QED  BY <3>3 DEF x
  <2> QED  BY <1>e, <2>1, <2>2
<1>4. CASE w \in LatestEvent \/ w = NoMessage
  <2>1. /\ r = [g EXCEPT !.newest = [g.newest EXCEPT ![w.kind] = w.n]]
        /\ Important(w) = << >> /\ Hits(w) = 0 /\ w.n \in Nat
    BY <1>4 DEF LatestEvent, NoMessage, Latest, Received, Important, Hits
  <2>2. [g.newest EXCEPT ![w.kind] = w.n] \in [Latest -> Nat]
    BY <1>t, <2>1
  <2>3. r \in GotRecord /\ r.important = g.important /\ r.hits = g.hits
    <3> HIDE DEF r
    <3> QED  BY <2>1, <2>2 DEF GotRecord
  <2>4. g.hits + 0 = g.hits
    BY <1>t
  <2> QED  BY <1>e, <2>1, <2>3, <2>4
<1> QED  BY <1>1, <1>2, <1>3, <1>4 DEF Message

-----------------------------------------------------------------------------
(* The invariant.                                                          *)

Typed ==
  /\ emitted \in 0..MaxEvents /\ scan \in {"running", "ended"}
  /\ in \in Seq(Event) /\ Len(in) <= InCap
  /\ hub \in {"running", "stopped"} /\ clients \subseteq Client
  /\ lanes \in [Client -> Lane]
  /\ \A c \in Client : Len(lanes[c].hits) <= ClientBufCap
  /\ sender \in [Client -> {"off", "waiting", "draining", "writing", "unregistering", "exited"}]
  /\ handler \in [Client -> {"off", "registering", "reading", "unregistering", "exited"}]
  /\ peer \in [Client -> {"connected", "gone"}]
  /\ writing \in [Client -> Message]
  /\ fanned \in [Client -> FannedRecord] /\ got \in [Client -> GotRecord]

\* A client in the hub's set is open; a client not yet registered was never
\* closed; a message is only held while it is written.
Linked(c) ==
  /\ handler[c] = "off" => sender[c] = "off"
  /\ handler[c] \in {"off", "registering"} => c \notin clients /\ ~lanes[c].closed
  /\ c \in clients => ~lanes[c].closed
  /\ sender[c] # "writing" => writing[c] = NoMessage

Flowing(c) == Alive(c) => Flow(lanes[c], writing[c], fanned[c], got[c])

HubInv == Typed /\ \A c \in Client : Linked(c) /\ Flowing(c)

\* The invariant holds in the initial state.
LEMMA HubInit == HubAssumption /\ Init => HubInv
<1> SUFFICES ASSUME HubAssumption, Init PROVE HubInv
  OBVIOUS
<1>1. EmptyLanes \in Lane /\ EmptyLanes.hits = << >> /\ ~EmptyLanes.closed
  BY DEF EmptyLanes, Lane
<1>2. Typed
  <2>1. NoMessage \in Message
    BY NoMessageParts
  <2>2. [important |-> << >>, hits |-> 0] \in FannedRecord
    BY DEF FannedRecord
  <2>3. [important |-> << >>, hits |-> 0, newest |-> [k \in Latest |-> 0]] \in GotRecord
    BY DEF GotRecord
  <2>4. in \in Seq(Event) /\ Len(in) = 0 /\ emitted \in 0..MaxEvents
    BY DEF Init, HubAssumption
  <2>5. \A c \in Client : Len(lanes[c].hits) = 0
    BY <1>1 DEF Init
  <2> QED  BY <1>1, <2>1, <2>2, <2>3, <2>4, <2>5 DEF Init, Typed, HubAssumption
<1>3. ASSUME NEW c \in Client PROVE Linked(c)
  BY <1>1 DEF Init, Linked
<1>4. ASSUME NEW c \in Client PROVE Flowing(c)
  <2>1. /\ lanes[c].important = << >> /\ Len(lanes[c].hits) = 0 /\ lanes[c].hitDropped = 0
        /\ fanned[c].important = << >> /\ fanned[c].hits = 0
        /\ got[c].important = << >> /\ got[c].hits = 0 /\ writing[c] = NoMessage
    <3>1. /\ lanes[c] = EmptyLanes /\ writing[c] = NoMessage
          /\ fanned[c] = [important |-> << >>, hits |-> 0]
          /\ got[c] = [important |-> << >>, hits |-> 0, newest |-> [k \in Latest |-> 0]]
      BY DEF Init
    <3>2. EmptyLanes.important = << >> /\ EmptyLanes.hits = << >> /\ EmptyLanes.hitDropped = 0
      BY DEF EmptyLanes
    <3> QED  BY <3>1, <3>2
  <2>2. << >> \o << >> = << >>
    BY ConcatEmptySeq, << >> \in Seq(ImportantEvent)
  <2>3. lanes[c] \in Lane /\ fanned[c] \in FannedRecord /\ got[c] \in GotRecord
    BY <1>2 DEF Typed
  <2>4. Flow(lanes[c], NoMessage, fanned[c], got[c])
    <3>1. Flow(lanes[c], NoMessage, fanned[c], got[c]) <=>
             /\ fanned[c].important = got[c].important \o lanes[c].important
             /\ fanned[c].hits = got[c].hits + Len(lanes[c].hits) + lanes[c].hitDropped
      BY <2>3, FlowIdle
    <3>2. fanned[c].hits = got[c].hits + Len(lanes[c].hits) + lanes[c].hitDropped
      BY <2>1
    <3> QED  BY <2>1, <2>2, <3>1, <3>2
  <2> QED  BY <2>1, <2>4 DEF Flowing
<1> QED  BY <1>2, <1>3, <1>4 DEF HubInv

\* A step that leaves a client's lanes, message and histories alone.
LEMMA StillFlowing ==
  ASSUME NEW c \in Client, Flowing(c), Alive(c)' => Alive(c),
         lanes'[c].important = lanes[c].important, lanes'[c].hits = lanes[c].hits,
         lanes'[c].hitDropped = lanes[c].hitDropped, writing'[c] = writing[c],
         fanned'[c] = fanned[c], got'[c] = got[c]
  PROVE  Flowing(c)'
BY DEF Flowing, Flow

\* The hub fans an event out.
LEMMA FanOutStep == ASSUME HubAssumption, HubInv, FanOut PROVE HubInv'
<1> DEFINE ev == Head(in)
<1> USE DEF HubInv
<1>1. ev \in Event /\ Tail(in) \in Seq(Event) /\ Len(Tail(in)) = Len(in) - 1
  BY HeadTailProperties DEF FanOut, Typed
<1>2. ASSUME NEW c \in Client
      PROVE  /\ lanes'[c] \in Lane /\ fanned'[c] \in FannedRecord
             /\ lanes'[c].closed = lanes[c].closed /\ Len(lanes'[c].hits) <= ClientBufCap
             /\ Flow(lanes[c], writing[c], fanned[c], got[c]) =>
                  Flow(lanes'[c], writing[c], fanned'[c], got[c])
  <2>1. CASE c \notin clients
    BY <2>1 DEF FanOut, Typed
  <2>2. CASE c \in clients
    <3>1. lanes'[c] = Enqueue(lanes[c], ev) /\ fanned'[c] = Fanned(fanned[c], ev)
      BY <2>2 DEF FanOut
    <3>2. /\ lanes[c] \in Lane /\ writing[c] \in Message /\ fanned[c] \in FannedRecord
          /\ got[c] \in GotRecord /\ ~lanes[c].closed /\ Len(lanes[c].hits) <= ClientBufCap
      BY <2>2 DEF Typed, Linked
    <3> HIDE DEF ev, HubInv
    <3>3. /\ Enqueue(lanes[c], ev) \in Lane /\ Fanned(fanned[c], ev) \in FannedRecord
          /\ ~Enqueue(lanes[c], ev).closed /\ Len(Enqueue(lanes[c], ev).hits) <= ClientBufCap
          /\ Flow(lanes[c], writing[c], fanned[c], got[c]) =>
               Flow(Enqueue(lanes[c], ev), writing[c], Fanned(fanned[c], ev), got[c])
      BY <1>1, <3>2, EnqueueFlow
    <3>4. lanes[c].closed = FALSE /\ Enqueue(lanes[c], ev).closed = FALSE
      <4>1. lanes[c].closed \in BOOLEAN /\ Enqueue(lanes[c], ev).closed \in BOOLEAN
        BY <3>2, <3>3 DEF Lane
      <4> QED  BY <3>2, <3>3, <4>1
    <3> QED  BY <3>1, <3>3, <3>4
  <2> QED  BY <2>1, <2>2
<1>3. Typed'
  <2>1. lanes' \in [Client -> Lane] /\ fanned' \in [Client -> FannedRecord]
    BY <1>2 DEF FanOut
  <2>2. Len(in') <= InCap /\ in' \in Seq(Event)
    BY <1>1 DEF FanOut, Typed, HubAssumption
  <2> QED  BY <1>2, <2>1, <2>2 DEF FanOut, Typed, clientVars
<1>4. ASSUME NEW c \in Client PROVE Linked(c)' /\ Flowing(c)'
  BY <1>2 DEF FanOut, Linked, Flowing, Alive, clientVars
<1> QED  BY <1>3, <1>4

\* The send loop takes its next message.
LEMMA SenderNextStep ==
  ASSUME HubAssumption, HubInv, NEW c \in Client, SenderNext(c) PROVE HubInv'
<1> USE DEF HubInv
<1>1. PICK m \in NextMessages(lanes[c]) :
        writing' = [writing EXCEPT ![c] = m.msg] /\ lanes' = [lanes EXCEPT ![c] = m.rest]
  BY DEF SenderNext
<1>2. /\ lanes[c] \in Lane /\ fanned[c] \in FannedRecord /\ got[c] \in GotRecord
      /\ Len(lanes[c].hits) <= ClientBufCap /\ Pending(lanes[c]) /\ writing[c] = NoMessage
      /\ sender[c] = "draining" /\ Flow(lanes[c], NoMessage, fanned[c], got[c])
  BY DEF SenderNext, Typed, Linked, Flowing, Alive
<1>3. /\ m.msg \in Message /\ m.rest \in Lane
      /\ m.rest.closed = lanes[c].closed /\ Len(m.rest.hits) <= ClientBufCap
      /\ Flow(m.rest, m.msg, fanned[c], got[c])
  <2> HIDE DEF HubInv
  <2> QED  BY <1>1, <1>2, NextFlow
<1>4. Typed'
  BY <1>1, <1>3 DEF SenderNext, Typed, scanVars
<1>5. ASSUME NEW d \in Client PROVE Linked(d)' /\ Flowing(d)'
  <2>1. CASE d = c
    BY <2>1, <1>1, <1>2, <1>3 DEF SenderNext, Typed, Linked, Flowing
  <2>2. CASE d # c
    BY <2>2, <1>1 DEF SenderNext, Typed, Linked, Flowing, Alive
  <2> QED  BY <2>1, <2>2
<1> QED  BY <1>4, <1>5

\* A write completes.
LEMMA WriteSucceedsStep ==
  ASSUME HubAssumption, HubInv, NEW c \in Client, WriteSucceeds(c) PROVE HubInv'
<1> USE DEF HubInv
<1>1. /\ lanes[c] \in Lane /\ fanned[c] \in FannedRecord /\ got[c] \in GotRecord
      /\ writing[c] \in Message /\ Flow(lanes[c], writing[c], fanned[c], got[c])
  BY DEF WriteSucceeds, Typed, Flowing, Alive
<1>2. /\ Received(got[c], writing[c]) \in GotRecord
      /\ Flow(lanes[c], NoMessage, fanned[c], Received(got[c], writing[c]))
  <2> HIDE DEF HubInv
  <2> QED  BY <1>1, ReceivedFlow
<1>3. /\ got' = [got EXCEPT ![c] = Received(got[c], writing[c])]
      /\ writing' = [writing EXCEPT ![c] = NoMessage]
      /\ sender' = [sender EXCEPT ![c] = "draining"]
      /\ UNCHANGED <<scanVars, hub, clients, lanes, handler, peer, fanned>>
      /\ sender[c] = "writing"
  BY DEF WriteSucceeds
<1>4. Typed'
  BY <1>2, <1>3, NoMessageParts DEF Typed, scanVars
<1>5. ASSUME NEW d \in Client PROVE Linked(d)' /\ Flowing(d)'
  <2>1. CASE d = c
    BY <2>1, <1>1, <1>2, <1>3 DEF Typed, Linked, Flowing
  <2>2. CASE d # c
    BY <2>2, <1>3 DEF Typed, Linked, Flowing, Alive
  <2> QED  BY <2>1, <2>2
<1> QED  BY <1>4, <1>5

\* Clients are closed, and taken out of the hub's set.
LEMMA ShutdownStep ==
  ASSUME HubInv, NEW C \in SUBSET clients, Shutdown(C), clients' = clients \ C
  PROVE  /\ lanes' \in [Client -> Lane]
         /\ \A c \in Client :
              /\ lanes'[c].important = lanes[c].important /\ lanes'[c].hits = lanes[c].hits
              /\ lanes'[c].hitDropped = lanes[c].hitDropped
              /\ c \notin C => lanes'[c].closed = lanes[c].closed
<1>1. ASSUME NEW c \in Client
      PROVE  /\ lanes'[c] \in Lane /\ lanes'[c].important = lanes[c].important
             /\ lanes'[c].hits = lanes[c].hits /\ lanes'[c].hitDropped = lanes[c].hitDropped
             /\ c \notin C => lanes'[c].closed = lanes[c].closed
  <2>1. lanes[c] \in Lane
    BY DEF HubInv, Typed
  <2>2. CASE c \in C
    <3>1. lanes'[c] = [lanes[c] EXCEPT !.closed = TRUE]
      BY <2>2 DEF Shutdown
    <3> QED  BY <2>1, <2>2, <3>1 DEF Lane
  <2>3. CASE c \notin C
    BY <2>1, <2>3 DEF Shutdown
  <2> QED  BY <2>2, <2>3
<1> QED  BY <1>1 DEF Shutdown

\* The hub's own other steps.
LEMMA HubSteps ==
  ASSUME HubAssumption, HubInv,
         HubStop \/ \E c \in Client : HubRegister(c) \/ HubUnregister(c)
  PROVE  HubInv'
<1> USE DEF HubInv
<1>1. CASE HubStop
  <2>1. clients \in SUBSET clients /\ Shutdown(clients) /\ clients' = clients \ clients
    BY <1>1 DEF HubStop
  <2>2. /\ lanes' \in [Client -> Lane]
        /\ \A c \in Client :
              /\ lanes'[c].important = lanes[c].important /\ lanes'[c].hits = lanes[c].hits
              /\ lanes'[c].hitDropped = lanes[c].hitDropped
              /\ c \notin clients => lanes'[c].closed = lanes[c].closed
    BY <2>1, ShutdownStep
  <2>3. Typed'
    BY <1>1, <2>2 DEF HubStop, Typed, scanVars, clientVars
  <2>4. ASSUME NEW c \in Client PROVE Linked(c)' /\ Flowing(c)'
    <3>1. Linked(c)'
      BY <1>1, <2>2 DEF HubStop, Linked, clientVars
    <3>2. Flowing(c)'
      BY <1>1, <2>2, StillFlowing DEF HubStop, Alive, clientVars
    <3> QED  BY <3>1, <3>2
  <2> QED  BY <2>3, <2>4
<1>2. ASSUME NEW c \in Client, HubRegister(c) PROVE HubInv'
  <2>1. Typed'
    BY <1>2 DEF HubRegister, Typed, scanVars
  <2>2. ASSUME NEW d \in Client PROVE Linked(d)' /\ Flowing(d)'
    BY <1>2 DEF HubRegister, Typed, Linked, Flowing, Alive
  <2> QED  BY <2>1, <2>2
<1>3. ASSUME NEW c \in Client, HubUnregister(c) PROVE HubInv'
  <2>1. clients \cap {c} \in SUBSET clients /\ Shutdown(clients \cap {c})
        /\ clients' = clients \ (clients \cap {c})
    BY <1>3 DEF HubUnregister
  <2>2. /\ lanes' \in [Client -> Lane]
        /\ \A d \in Client :
              /\ lanes'[d].important = lanes[d].important /\ lanes'[d].hits = lanes[d].hits
              /\ lanes'[d].hitDropped = lanes[d].hitDropped
              /\ d \notin clients \cap {c} => lanes'[d].closed = lanes[d].closed
    BY <2>1, ShutdownStep
  <2>3. Typed'
    BY <1>3, <2>2 DEF HubUnregister, Typed, scanVars
  <2>4. ASSUME NEW d \in Client PROVE Linked(d)' /\ Flowing(d)'
    <3>1. Linked(d)'
      BY <1>3, <2>2 DEF HubUnregister, Typed, Linked
    <3>2. Flowing(d)'
      <4>1. Alive(d)' => Alive(d)
        BY <1>3 DEF HubUnregister, Typed, Alive
      <4>2. writing'[d] = writing[d] /\ fanned'[d] = fanned[d] /\ got'[d] = got[d]
        BY <1>3 DEF HubUnregister
      <4> QED  BY <2>2, <4>1, <4>2, StillFlowing
    <3> QED  BY <3>1, <3>2
  <2> QED  BY <2>3, <2>4
<1> QED  BY <1>1, <1>2, <1>3

\* Every step preserves the invariant.
LEMMA HubStepInv == HubAssumption /\ HubInv /\ [Next]_vars => HubInv'
<1> SUFFICES ASSUME HubAssumption, HubInv, [Next]_vars PROVE HubInv'
  OBVIOUS
<1> USE DEF HubInv
<1>1. ASSUME NEW kind \in Kinds, Emit(kind) PROVE HubInv'
  <2>1. [kind |-> kind, n |-> emitted + 1] \in Event /\ emitted' \in 0..MaxEvents
    BY <1>1 DEF Emit, Event, Typed, HubAssumption
  <2>2. in' \in Seq(Event) /\ Len(in') <= InCap
    BY <1>1, <2>1 DEF Emit, Typed, HubAssumption
  <2>3. Typed'
    BY <1>1, <2>1, <2>2 DEF Emit, Typed, clientVars
  <2>4. ASSUME NEW c \in Client PROVE Linked(c)' /\ Flowing(c)'
    BY <1>1 DEF Emit, Linked, Flowing, Alive, clientVars
  <2> QED  BY <2>3, <2>4
<1>2. CASE ScanEnds
  BY <1>2 DEF ScanEnds, Typed, Linked, Flowing, Alive, clientVars
<1>3. CASE FanOut
  BY <1>3, FanOutStep
<1>4. CASE HubStop
  BY <1>4, HubSteps
<1>5. ASSUME NEW c \in Client, HubStep(c) PROVE HubInv'
  BY <1>5, HubSteps DEF HubStep
<1>6. ASSUME NEW c \in Client, Connect(c) PROVE HubInv'
  <2>1. Typed'
    BY <1>6 DEF Connect, Typed, scanVars
  <2>2. ASSUME NEW d \in Client PROVE Linked(d)' /\ Flowing(d)'
    BY <1>6 DEF Connect, Typed, Linked, Flowing, Alive
  <2> QED  BY <2>1, <2>2
<1>7. ASSUME NEW c \in Client, PeerLeaves(c) PROVE HubInv'
  BY <1>7 DEF PeerLeaves, Typed, Linked, Flowing, Alive, scanVars
<1>8. ASSUME NEW c \in Client, ReadFails(c) PROVE HubInv'
  <2>1. Typed'
    BY <1>8 DEF ReadFails, Typed, scanVars
  <2>2. ASSUME NEW d \in Client PROVE Linked(d)' /\ Flowing(d)'
    BY <1>8 DEF ReadFails, Typed, Linked, Flowing, Alive
  <2> QED  BY <2>1, <2>2
<1>9. ASSUME NEW c \in Client, SenderWakes(c) PROVE HubInv'
  <2>1. lanes[c] \in Lane /\ lanes' = [lanes EXCEPT ![c] = [lanes[c] EXCEPT !.wake = FALSE]]
    BY <1>9 DEF SenderWakes, Typed
  <2>2. /\ [lanes[c] EXCEPT !.wake = FALSE] \in Lane
        /\ \A d \in Client :
             /\ lanes'[d].important = lanes[d].important /\ lanes'[d].hits = lanes[d].hits
             /\ lanes'[d].hitDropped = lanes[d].hitDropped /\ lanes'[d].closed = lanes[d].closed
    BY <2>1 DEF Lane, Typed
  <2>3. Typed'
    BY <1>9, <2>1, <2>2 DEF SenderWakes, Typed, scanVars
  <2>4. ASSUME NEW d \in Client PROVE Linked(d)' /\ Flowing(d)'
    <3>1. /\ sender[c] = "waiting" /\ sender' = [sender EXCEPT ![c] = "draining"]
          /\ UNCHANGED <<clients, writing, handler, fanned, got>>
      BY <1>9 DEF SenderWakes
    <3>2. Linked(d)'
      BY <2>2, <3>1 DEF Typed, Linked
    <3>3. Alive(d)' => Alive(d)
      BY <3>1 DEF Typed, Alive
    <3> QED  BY <2>2, <3>1, <3>2, <3>3, StillFlowing
  <2> QED  BY <2>3, <2>4
<1>10. ASSUME NEW c \in Client, SenderStops(c) \/ SenderIdle(c) PROVE HubInv'
  <2>1. Typed'
    BY <1>10 DEF SenderStops, SenderIdle, Typed, scanVars
  <2>2. ASSUME NEW d \in Client PROVE Linked(d)' /\ Flowing(d)'
    BY <1>10 DEF SenderStops, SenderIdle, Typed, Linked, Flowing, Alive
  <2> QED  BY <2>1, <2>2
<1>11. ASSUME NEW c \in Client, SenderNext(c) PROVE HubInv'
  BY <1>11, SenderNextStep
<1>12. ASSUME NEW c \in Client, WriteFails(c) PROVE HubInv'
  <2>1. Typed'
    BY <1>12, NoMessageParts DEF WriteFails, Typed, scanVars
  <2>2. ASSUME NEW d \in Client PROVE Linked(d)' /\ Flowing(d)'
    BY <1>12 DEF WriteFails, Typed, Linked, Flowing, Alive
  <2> QED  BY <2>1, <2>2
<1>13. ASSUME NEW c \in Client, WriteSucceeds(c) PROVE HubInv'
  BY <1>13, WriteSucceedsStep
<1>14. CASE UNCHANGED vars
  BY <1>14 DEF vars, scanVars, clientVars, Typed, Linked, Flowing, Alive
<1> QED
  BY <1>1, <1>2, <1>3, <1>4, <1>5, <1>6, <1>7, <1>8, <1>9, <1>10, <1>11, <1>12, <1>13, <1>14
  DEF Next, Loop

-----------------------------------------------------------------------------
(* The theorems.                                                           *)

\* The invariant of the hub holds in every reachable state.
THEOREM HubInvariance == Spec => []HubInv
<1>1. HubAssumption /\ Init => HubInv
  BY HubInit
<1>2. HubAssumption /\ HubInv /\ [Next]_vars => HubInv'
  BY HubStepInv
<1> QED  BY <1>1, <1>2, HubAssumption, PTL DEF Spec

\* No queue of the hub or of a client exceeds its capacity (enqueue, NewEmitter).
THEOREM HubTypeCorrect == Spec => []TypeOK
<1>1. HubInv => TypeOK
  <2> SUFFICES ASSUME HubInv PROVE TypeOK
    OBVIOUS
  <2>1. ASSUME NEW c \in Client
        PROVE  /\ lanes[c].important \in Seq(Event) /\ lanes[c].latest \subseteq Event
               /\ lanes[c].hits \in Seq(Event)
    <3>1. ImportantEvent \subseteq Event /\ HitEvent \subseteq Event /\ LatestEvent \subseteq Event
      BY DEF ImportantEvent, HitEvent, LatestEvent, Event, Kind
    <3>2. /\ lanes[c].important \in Seq(ImportantEvent) /\ lanes[c].latest \subseteq LatestEvent
          /\ lanes[c].hits \in Seq(HitEvent)
      BY DEF HubInv, Typed, Lane
    <3> QED  BY <3>1, <3>2, SeqMonotonic
  <2> QED  BY <2>1 DEF HubInv, Typed, TypeOK, Lane
<1> QED  BY <1>1, HubInvariance, PTL

\* A client receives the important events of the scan in order and without gaps,
\* however slow it is and whoever else connects or leaves (enqueue, next, sendLoop).
THEOREM ImportantNeverDropped == Spec => []ImportantInOrder
<1>1. HubInv => ImportantInOrder
  BY DEF HubInv, Flowing, Flow, ImportantInOrder
<1> QED  BY <1>1, HubInvariance, PTL

\* Every hit reaches a client as itself or in a count (enqueue, next, sendLoop).
THEOREM HitsNeverSilentlyDropped == Spec => []HitsCounted
<1>1. HubInv => HitsCounted
  BY DEF HubInv, Flowing, Flow, HitsCounted
<1> QED  BY <1>1, HubInvariance, PTL

-----------------------------------------------------------------------------
(* Telemetry.                                                              *)

\* Of one client: T waits in its latest lane, w is being written and N is the
\* newest it has.  At most one event of a kind waits, and it is newer than what is
\* being written, which is newer than what the client has.
Aged(T, w, N) ==
  /\ w.kind \in Latest => N[w.kind] <= w.n
  /\ \A ev \in T : N[ev.kind] <= ev.n /\ (w.kind = ev.kind => w.n <= ev.n)
  /\ \A ev, other \in T : ev.kind = other.kind => ev = other

\* All of it is older than event n.
Below(T, w, N, n) ==
  /\ w.kind \in Latest => w.n < n
  /\ \A ev \in T : ev.n < n
  /\ \A k \in Latest : N[k] < n

\* Hub.In is in the order of emission, and everything a client has or will get
\* from its lanes was emitted before what is still queued.
Queued ==
  /\ \A i \in 1..Len(in) : in[i].n <= emitted
  /\ \A i, j \in 1..Len(in) : i < j => in[i].n < in[j].n
Older(c, n) == Below(lanes[c].latest, writing[c], got[c].newest, n)
Aging(c) ==
  /\ Aged(lanes[c].latest, writing[c], got[c].newest)
  /\ Older(c, emitted + 1)
  /\ \A i \in 1..Len(in) : Older(c, in[i].n)
TelemetryInv == Queued /\ \A c \in Client : Aging(c)

\* What enqueue does to the latest lane.
LEMMA EnqueueLatest ==
  ASSUME NEW l \in Lane, NEW ev \in Event
  PROVE  \/ Enqueue(l, ev).latest = l.latest
         \/ /\ ev.kind \in Latest
            /\ Enqueue(l, ev).latest = {x \in l.latest : x.kind # ev.kind} \cup {ev}
<1> DEFINE k == Kept(l, ev)
           T == {x \in l.latest : x.kind # ev.kind} \cup {ev}
<1>1. CASE l.closed
  BY <1>1 DEF Enqueue
<1>2. CASE ~l.closed
  <2>1. Enqueue(l, ev) = [k EXCEPT !.wake = TRUE]
    BY <1>2 DEF Enqueue
  <2>2. ASSUME NEW x, NEW y
        PROVE  /\ [[l EXCEPT !.latest = x] EXCEPT !.wake = TRUE].latest = x
               /\ [[l EXCEPT !.hits = x] EXCEPT !.wake = TRUE].latest = l.latest
               /\ [[l EXCEPT !.important = x] EXCEPT !.wake = TRUE].latest = l.latest
               /\ [[l EXCEPT !.hits = x, !.hitDropped = y] EXCEPT !.wake = TRUE].latest = l.latest
    <3>1. [[l EXCEPT !.latest = x] EXCEPT !.wake = TRUE].latest = x
      BY DEF Lane
    <3>2. [[l EXCEPT !.hits = x] EXCEPT !.wake = TRUE].latest = l.latest
      BY DEF Lane
    <3>3. [[l EXCEPT !.important = x] EXCEPT !.wake = TRUE].latest = l.latest
      BY DEF Lane
    <3>4. [[l EXCEPT !.hits = x, !.hitDropped = y] EXCEPT !.wake = TRUE].latest = l.latest
      BY DEF Lane
    <3> QED BY <3>1, <3>2, <3>3, <3>4
  <2>3. CASE ev.kind \in Latest
    <3>0. k = KeepLatest(l, ev)
      BY <2>3 DEF Kept, Latest
    <3>1. k = [l EXCEPT !.latest = T]
      BY <3>0, Zenon DEF KeepLatest
    <3> HIDE DEF T, k
    <3> QED BY <2>1, <2>2, <2>3, <3>1 DEF T
  <2>4. CASE ev.kind = "hit"
    <3> DEFINE h == Append(Tail(l.hits), ev)
               i == Append(l.hits, ev)
               n == l.hitDropped + 1
    <3>1. k = [l EXCEPT !.hits = h, !.hitDropped = n] \/ k = [l EXCEPT !.hits = i]
      BY <2>4 DEF Kept, KeepHit, Latest
    <3> HIDE DEF k, h, i, n
    <3>2. ASSUME k = [l EXCEPT !.hits = h, !.hitDropped = n]
          PROVE  Enqueue(l, ev).latest = l.latest
      <4>1. [k EXCEPT !.wake = TRUE].latest = l.latest
        BY <3>2 DEF Lane
      <4> QED BY <2>1, <4>1
    <3>3. ASSUME k = [l EXCEPT !.hits = i] PROVE Enqueue(l, ev).latest = l.latest
      BY <2>1, <2>2, <3>3, Zenon
    <3> QED BY <3>1, <3>2, <3>3
  <2>5. CASE ev.kind \notin Latest \cup {"hit"}
    <3> DEFINE q == Append(l.important, ev)
    <3>1. k = [l EXCEPT !.important = q]
      BY <2>5 DEF Kept, KeepImportant
    <3> HIDE DEF k, q
    <3> QED BY <2>1, <2>2, <3>1
  <2> QED BY <2>3, <2>4, <2>5
<1> QED BY <1>1, <1>2

\* An event that is newer than all a client has or waits for keeps it so.
LEMMA EnqueueAged ==
  ASSUME NEW l \in Lane, NEW w \in Message, NEW N \in [Latest -> Nat], NEW ev \in Event,
         Aged(l.latest, w, N), Below(l.latest, w, N, ev.n)
  PROVE  /\ Aged(Enqueue(l, ev).latest, w, N)
         /\ \A n \in Nat : ev.n < n /\ Below(l.latest, w, N, n) => Below(Enqueue(l, ev).latest, w, N, n)
<1> DEFINE T == l.latest
           U == Enqueue(l, ev).latest
<1>1. T \subseteq LatestEvent /\ ev.n \in Nat
  BY DEF Lane, Event
<1>2. U = T \/ (ev.kind \in Latest /\ U = {x \in T : x.kind # ev.kind} \cup {ev})
  BY EnqueueLatest
<1>3. w.kind \in Latest => w.n \in Nat
  BY DEF Message, ImportantEvent, HitEvent, LatestEvent, Latest, NoMessage
<1> HIDE DEF T, U
<1>4. Aged(T, w, N) /\ Below(T, w, N, ev.n)
  BY DEF T
<1>5. CASE U = T
  BY <1>4, <1>5 DEF T, U
<1>6. CASE ev.kind \in Latest /\ U = {x \in T : x.kind # ev.kind} \cup {ev}
  <2>1. N[ev.kind] <= ev.n /\ (w.kind = ev.kind => w.n <= ev.n)
    BY <1>1, <1>3, <1>4, <1>6 DEF Below
  <2>2. Aged(U, w, N)
    BY <1>4, <1>6, <2>1 DEF Aged
  <2>3. ASSUME NEW n \in Nat, ev.n < n, Below(T, w, N, n) PROVE Below(U, w, N, n)
    BY <1>6, <2>3 DEF Below
  <2> QED BY <2>2, <2>3 DEF T, U
<1> QED BY <1>2, <1>5, <1>6

\* next takes out a message that nothing left behind is older than.
LEMMA NextAged ==
  ASSUME NEW l \in Lane, Pending(l), NEW m \in NextMessages(l), NEW w \in Message,
         NEW N \in [Latest -> Nat], Aged(l.latest, w, N)
  PROVE  /\ Aged(m.rest.latest, m.msg, N)
         /\ \A n \in Nat : Below(l.latest, w, N, n) => Below(m.rest.latest, m.msg, N, n)
<1>1. \/ m.rest.latest = l.latest /\ m.msg.kind \notin Latest
      \/ m.msg \in l.latest /\ m.rest.latest = l.latest \ {m.msg}
  <2>1. CASE l.important # << >>
    <3>1. m = [msg |-> Head(l.important), rest |-> [l EXCEPT !.important = Tail(l.important)]]
      BY <2>1 DEF NextMessages
    <3>2. Head(l.important) \in ImportantEvent
      BY <2>1, HeadTailProperties DEF Lane
    <3>3. m.msg = Head(l.important) /\ m.rest.latest = l.latest
      BY <3>1 DEF Lane
    <3> QED BY <3>2, <3>3 DEF ImportantEvent, Latest
  <2>2. CASE l.important = << >> /\ l.latest # {}
    <3>1. PICK ev \in l.latest : m = [msg |-> ev, rest |-> [l EXCEPT !.latest = l.latest \ {ev}]]
      BY <2>2 DEF NextMessages
    <3> QED BY <3>1 DEF Lane
  <2>3. CASE l.important = << >> /\ l.latest = {} /\ l.hitDropped > 0
    <3>1. m = [msg |-> Coalesced(l.hitDropped), rest |-> [l EXCEPT !.hitDropped = 0]]
      BY <2>3 DEF NextMessages
    <3> QED BY <3>1 DEF Lane, Coalesced, Latest
  <2>4. CASE l.important = << >> /\ l.latest = {} /\ ~(l.hitDropped > 0)
    <3>1. l.hits # << >>
      BY <2>4 DEF Pending
    <3>2. m = [msg |-> Head(l.hits), rest |-> [l EXCEPT !.hits = Tail(l.hits)]]
      BY <2>4 DEF NextMessages
    <3>3. Head(l.hits) \in HitEvent
      BY <3>1, HeadTailProperties DEF Lane
    <3>4. m.msg = Head(l.hits) /\ m.rest.latest = l.latest
      BY <3>2 DEF Lane
    <3> QED BY <3>3, <3>4 DEF HitEvent, Latest
  <2> QED BY <2>1, <2>2, <2>3, <2>4
<1>2. l.latest \subseteq LatestEvent
  BY DEF Lane
<1> DEFINE T == l.latest
           U == m.rest.latest
           x == m.msg
<1>3. \/ U = T /\ x.kind \notin Latest
      \/ x \in T /\ U = T \ {x}
  BY <1>1
<1>4. Aged(T, w, N)
  OBVIOUS
<1>5. \A ev \in T : ev.kind \in Latest
  BY <1>2 DEF LatestEvent
<1> HIDE DEF T, U, x
<1>6. Aged(U, x, N)
  BY <1>3, <1>4, <1>5 DEF Aged
<1>7. ASSUME NEW n \in Nat, Below(T, w, N, n) PROVE Below(U, x, N, n)
  BY <1>3, <1>7 DEF Below
<1> QED BY <1>6, <1>7 DEF T, U, x

\* A write makes a client's telemetry newer, and nothing that waits is older.
LEMMA ReceivedAged ==
  ASSUME NEW w \in Message, NEW g \in GotRecord, NEW T \in SUBSET LatestEvent,
         Aged(T, w, g.newest)
  PROVE  /\ Aged(T, NoMessage, Received(g, w).newest)
         /\ \A k \in Latest : Received(g, w).newest[k] >= g.newest[k]
         /\ \A n \in Nat : Below(T, w, g.newest, n) => Below(T, NoMessage, Received(g, w).newest, n)
<1> DEFINE N == g.newest
           M == Received(g, w).newest
<1>1. N \in [Latest -> Nat] /\ \A ev \in T : ev.kind \in Latest /\ ev.n \in Nat
  BY DEF GotRecord, LatestEvent
<1>2. NoMessage.kind \notin Latest
  BY DEF NoMessage, Latest
<1>3. CASE w.kind \notin Latest
  <2>1. M = N
    <3>1. CASE w.kind = "important"
      BY <3>1 DEF Received, GotRecord
    <3>2. CASE w.kind = "hit"
      BY <3>2 DEF Received, GotRecord
    <3>3. CASE w.kind = "coalesced"
      BY <3>3 DEF Received, GotRecord
    <3>4. CASE w = NoMessage
      BY <3>4 DEF Received, GotRecord, NoMessage, Latest
    <3> QED BY <1>3, <3>1, <3>2, <3>3, <3>4 DEF Message, ImportantEvent, HitEvent, LatestEvent
  <2> HIDE DEF N, M
  <2>2. Aged(T, NoMessage, M) /\ \A k \in Latest : M[k] >= N[k]
    BY <1>1, <1>2, <2>1 DEF Aged, N
  <2>3. \A n \in Nat : Below(T, w, N, n) => Below(T, NoMessage, M, n)
    BY <1>2, <2>1 DEF Below
  <2> QED BY <2>2, <2>3 DEF N, M
<1>4. CASE w.kind \in Latest
  <2>1. w \in LatestEvent
    BY <1>4 DEF Message, ImportantEvent, HitEvent, LatestEvent, Latest, NoMessage
  <2>2. w.n \in Nat
    BY <2>1 DEF LatestEvent
  <2>3. M = [N EXCEPT ![w.kind] = w.n]
    <3>1. Received(g, w) = [g EXCEPT !.newest = [g.newest EXCEPT ![w.kind] = w.n]]
      BY <1>4 DEF Received, Latest
    <3> QED BY <3>1 DEF GotRecord
  <2>4. Aged(T, w, N)
    OBVIOUS
  <2> HIDE DEF N, M
  <2>5. \A k \in Latest : M[k] = IF k = w.kind THEN w.n ELSE N[k]
    BY <1>1, <2>3
  <2>6. \A k \in Latest : M[k] >= N[k]
    BY <1>1, <1>4, <2>2, <2>4, <2>5 DEF Aged
  <2>7. Aged(T, NoMessage, M)
    BY <1>1, <1>2, <2>4, <2>5 DEF Aged
  <2>8. \A n \in Nat : Below(T, w, N, n) => Below(T, NoMessage, M, n)
    BY <1>2, <1>4, <2>5 DEF Below
  <2> QED BY <2>6, <2>7, <2>8 DEF N, M
<1> QED BY <1>3, <1>4

\* What a step that changes neither the queue nor the telemetry of a client keeps.
LEMMA StillAging ==
  ASSUME HubInv, NEW c \in Client, Aging(c), UNCHANGED <<emitted, in>>,
         lanes'[c].latest = lanes[c].latest, writing'[c] = writing[c] \/ writing'[c] = NoMessage,
         got'[c] = got[c]
  PROVE  Aging(c)'
<1> DEFINE T == lanes[c].latest
           w == writing[c]
           v == writing'[c]
           N == got[c].newest
<1>1. v = w \/ v = NoMessage
  OBVIOUS
<1>2. NoMessage.kind \notin Latest
  BY DEF NoMessage, Latest
<1>3. \A ev \in T : ev.kind \in Latest
  BY DEF HubInv, Typed, Lane, LatestEvent
<1>4. /\ Aged(T, w, N) /\ Below(T, w, N, emitted + 1)
      /\ \A i \in 1..Len(in) : Below(T, w, N, in[i].n)
  BY DEF Aging, Older
<1>5. /\ emitted' = emitted /\ in' = in /\ lanes'[c].latest = T /\ writing'[c] = v
      /\ got'[c].newest = N
  OBVIOUS
<1> HIDE DEF T, w, v, N
<1>6. Aged(T, v, N)
  BY <1>1, <1>2, <1>3, <1>4 DEF Aged
<1>7. ASSUME NEW n, Below(T, w, N, n) PROVE Below(T, v, N, n)
  BY <1>1, <1>2, <1>7 DEF Below
<1>8. Below(T, v, N, emitted + 1) /\ \A i \in 1..Len(in) : Below(T, v, N, in[i].n)
  BY <1>4, <1>7
<1> QED BY <1>5, <1>6, <1>8 DEF Aging, Older

\* A step that closes clients leaves their telemetry alone.
LEMMA ShutdownLatest ==
  ASSUME HubInv, NEW C, Shutdown(C), NEW c \in Client
  PROVE  lanes'[c].latest = lanes[c].latest
BY DEF HubInv, Typed, Shutdown, Lane

\* A new event is the newest.
LEMMA EmitAging ==
  ASSUME HubAssumption, HubInv, TelemetryInv, NEW kind \in Kinds, Emit(kind)
  PROVE  TelemetryInv'
<1> DEFINE e == [kind |-> kind, n |-> emitted + 1]
           q == in
           p == in'
<1>1. /\ emitted \in Nat /\ emitted' = emitted + 1 /\ q \in Seq(Event)
      /\ p = IF Len(q) < InCap THEN Append(q, e) ELSE q
      /\ UNCHANGED <<lanes, writing, got>>
  BY DEF Emit, HubInv, Typed, clientVars
<1>2. e.n = emitted + 1
  OBVIOUS
<1>0. \A i \in 1..Len(q) : q[i] \in Event
  BY <1>1
<1>3. /\ \A i \in 1..Len(q) : q[i].n <= emitted /\ q[i].n \in Nat
      /\ \A i, j \in 1..Len(q) : i < j => q[i].n < q[j].n
  BY <1>0 DEF TelemetryInv, Queued, Event
<1> HIDE DEF e, q, p
<1>4. /\ Len(q) \in Nat
      /\ \A i \in 1..Len(p) : (i \in 1..Len(q) /\ p[i] = q[i]) \/ (i = Len(q) + 1 /\ p[i] = e)
      /\ Len(p) \in {Len(q), Len(q) + 1}
  BY <1>1
<1>5. Queued'
  <2>1. ASSUME NEW i \in 1..Len(p) PROVE p[i].n <= emitted + 1
    BY <1>1, <1>2, <1>3, <1>4
  <2>2. ASSUME NEW i \in 1..Len(p), NEW j \in 1..Len(p), i < j PROVE p[i].n < p[j].n
    <3>1. i \in 1..Len(q) /\ p[i] = q[i]
      BY <1>4, <2>2
    <3>2. CASE j \in 1..Len(q) /\ p[j] = q[j]
      BY <1>3, <2>2, <3>1, <3>2
    <3>3. CASE p[j] = e
      <4>1. q[i].n <= emitted /\ q[i].n \in Nat
        BY <1>3, <3>1
      <4> QED BY <1>1, <1>2, <3>1, <3>3, <4>1
    <3> QED BY <1>4, <3>2, <3>3
  <2> QED BY <1>1, <2>1, <2>2 DEF Queued, p
<1>6. ASSUME NEW c \in Client PROVE Aging(c)'
  <2> DEFINE T == lanes[c].latest
             w == writing[c]
             N == got[c].newest
  <2>1. /\ Aged(T, w, N) /\ Below(T, w, N, emitted + 1)
        /\ \A i \in 1..Len(q) : Below(T, w, N, q[i].n)
    BY DEF TelemetryInv, Aging, Older, q
  <2>2. T \subseteq LatestEvent /\ w \in Message /\ got[c] \in GotRecord
    BY DEF HubInv, Typed, Lane
  <2>3. /\ \A ev \in T : ev.n \in Nat
        /\ w.kind \in Latest => w.n \in Nat
        /\ N \in [Latest -> Nat]
    BY <2>2 DEF LatestEvent, Message, ImportantEvent, HitEvent, NoMessage, Latest, GotRecord
  <2> HIDE DEF T, w, N
  <2>4. Below(T, w, N, emitted + 2)
    BY <1>1, <2>1, <2>3 DEF Below
  <2>5. \A i \in 1..Len(p) : Below(T, w, N, p[i].n)
    BY <1>2, <1>4, <2>1
  <2>6. emitted' + 1 = emitted + 2
    BY <1>1
  <2> QED BY <1>1, <2>1, <2>4, <2>5, <2>6 DEF Aging, Older, T, w, N, p
<1> QED BY <1>5, <1>6 DEF TelemetryInv

\* The hub fans out the oldest event it has, which is newer than what its clients have.
LEMMA FanOutAging ==
  ASSUME HubAssumption, HubInv, TelemetryInv, FanOut
  PROVE  TelemetryInv'
<1> DEFINE ev == Head(in)
           q == in
           p == in'
<1>1. /\ q \in Seq(Event) /\ q # << >> /\ p = Tail(q) /\ UNCHANGED <<emitted, writing, got>>
      /\ lanes' = [c \in Client |-> IF c \in clients THEN Enqueue(lanes[c], ev) ELSE lanes[c]]
  BY DEF FanOut, HubInv, Typed, clientVars
<1>2. /\ \A i \in 1..Len(q) : q[i].n <= emitted
      /\ \A i, j \in 1..Len(q) : i < j => q[i].n < q[j].n
  BY DEF TelemetryInv, Queued
<1>3. /\ ev \in Event /\ ev = q[1] /\ Len(q) \in Nat \ {0} /\ Len(p) = Len(q) - 1
      /\ \A i \in 1..Len(p) : p[i] = q[i + 1] /\ p[i] \in Event
  <2> HIDE DEF p, q
  <2>1. ev \in Event /\ ev = q[1] /\ Len(q) \in Nat \ {0} /\ Len(p) = Len(q) - 1
    BY <1>1, HeadTailProperties DEF q
  <2>2. \A i \in 1..Len(p) : p[i] = q[i + 1] /\ q[i + 1] \in Event
    BY <1>1, <2>1
  <2> QED BY <2>1, <2>2
<1>4. emitted \in Nat
  BY DEF HubInv, Typed
<1> HIDE DEF ev, q, p
<1>5. \A i \in 1..Len(p) : i + 1 \in 1..Len(q) /\ 1 < i + 1 /\ 1 \in 1..Len(q)
  BY <1>3
<1>6. Queued'
  <2>1. \A i \in 1..Len(p) : p[i].n <= emitted
    BY <1>2, <1>3, <1>5
  <2>2. ASSUME NEW i \in 1..Len(p), NEW j \in 1..Len(p), i < j PROVE p[i].n < p[j].n
    <3>1. i + 1 \in 1..Len(q) /\ j + 1 \in 1..Len(q) /\ i + 1 < j + 1
      BY <1>3, <2>2
    <3> QED BY <1>2, <1>3, <3>1
  <2> QED BY <1>1, <2>1, <2>2 DEF Queued, p
<1>7. \A i \in 1..Len(p) : ev.n < p[i].n /\ p[i].n \in Nat
  BY <1>2, <1>3, <1>5 DEF Event
<1>8. ev.n <= emitted /\ 1 \in 1..Len(q) /\ ev.n \in Nat
  BY <1>2, <1>3 DEF Event
<1>9. ASSUME NEW c \in Client PROVE Aging(c)'
  <2> DEFINE l == lanes[c]
             w == writing[c]
             N == got[c].newest
  <2>1. /\ Aged(l.latest, w, N) /\ Below(l.latest, w, N, emitted + 1)
        /\ \A i \in 1..Len(q) : Below(l.latest, w, N, q[i].n)
    BY DEF TelemetryInv, Aging, Older, q
  <2>2. l \in Lane /\ w \in Message /\ N \in [Latest -> Nat]
    BY DEF HubInv, Typed, GotRecord
  <2> HIDE DEF l, w, N
  <2>3. Below(l.latest, w, N, ev.n)
    BY <1>3, <1>8, <2>1
  <2>4. \A i \in 1..Len(p) : Below(l.latest, w, N, p[i].n)
    BY <1>3, <1>5, <2>1
  <2> DEFINE k == Enqueue(l, ev)
  <2>5. /\ Aged(k.latest, w, N)
        /\ \A n \in Nat : ev.n < n /\ Below(l.latest, w, N, n) => Below(k.latest, w, N, n)
    BY <1>3, <2>1, <2>2, <2>3, EnqueueAged
  <2> HIDE DEF k
  <2>6. emitted + 1 \in Nat /\ ev.n < emitted + 1
    BY <1>4, <1>8
  <2>7. Below(k.latest, w, N, emitted + 1) /\ \A i \in 1..Len(p) : Below(k.latest, w, N, p[i].n)
    BY <1>7, <2>1, <2>4, <2>5, <2>6
  <2>8. lanes'[c] = k \/ lanes'[c] = l
    BY <1>1 DEF k, l
  <2>9. /\ Aged(lanes'[c].latest, w, N) /\ Below(lanes'[c].latest, w, N, emitted + 1)
        /\ \A i \in 1..Len(p) : Below(lanes'[c].latest, w, N, p[i].n)
    BY <2>1, <2>4, <2>5, <2>7, <2>8
  <2> QED BY <1>1, <2>9 DEF Aging, Older, w, N, p
<1> QED BY <1>6, <1>9 DEF TelemetryInv

\* Every step keeps the telemetry in order.
LEMMA StepAging ==
  ASSUME HubAssumption, HubInv, TelemetryInv, [Next]_vars
  PROVE  TelemetryInv'
<1>0. ASSUME UNCHANGED <<emitted, in>>, \A c \in Client : Aging(c)' PROVE TelemetryInv'
  BY <1>0 DEF TelemetryInv, Queued
<1>a. \A c \in Client : Aging(c)
  BY DEF TelemetryInv
<1>t. /\ lanes \in [Client -> Lane] /\ writing \in [Client -> Message]
      /\ got \in [Client -> GotRecord]
  BY DEF HubInv, Typed
<1>1. ASSUME NEW kind \in Kinds, Emit(kind) PROVE TelemetryInv'
  BY <1>1, EmitAging
<1>2. CASE FanOut
  BY <1>2, FanOutAging
<1>3. CASE ScanEnds
  <2>1. \A c \in Client : Aging(c)'
    BY <1>3, <1>a, StillAging DEF ScanEnds, clientVars
  <2> QED BY <1>0, <1>3, <2>1 DEF ScanEnds
<1>4. CASE HubStop
  <2>1. \A c \in Client : Aging(c)'
    BY <1>4, <1>a, StillAging, ShutdownLatest DEF HubStop, clientVars, scanVars
  <2> QED BY <1>0, <1>4, <2>1 DEF HubStop, scanVars
<1>5. ASSUME NEW c \in Client, HubRegister(c) \/ Connect(c) \/ PeerLeaves(c) \/ ReadFails(c)
                               \/ SenderStops(c) \/ SenderIdle(c)
      PROVE  TelemetryInv'
  <2>1. UNCHANGED <<emitted, in, lanes, writing, got>>
    BY <1>5 DEF HubRegister, Connect, PeerLeaves, ReadFails, SenderStops, SenderIdle, scanVars
  <2>2. \A d \in Client : Aging(d)'
    BY <1>a, <2>1, StillAging
  <2> QED BY <1>0, <2>1, <2>2
<1>6. ASSUME NEW c \in Client, HubUnregister(c) PROVE TelemetryInv'
  <2>1. UNCHANGED <<emitted, in, writing, got>> /\ Shutdown(clients \cap {c})
    BY <1>6 DEF HubUnregister, scanVars
  <2>2. \A d \in Client : Aging(d)'
    BY <1>a, <2>1, StillAging, ShutdownLatest
  <2> QED BY <1>0, <2>1, <2>2
<1>7. ASSUME NEW c \in Client, SenderWakes(c) PROVE TelemetryInv'
  <2>1. UNCHANGED <<emitted, in, writing, got>>
        /\ lanes' = [lanes EXCEPT ![c] = [lanes[c] EXCEPT !.wake = FALSE]]
    BY <1>7 DEF SenderWakes, scanVars
  <2>2. \A d \in Client : lanes'[d].latest = lanes[d].latest
    BY <1>t, <2>1 DEF Lane
  <2>3. \A d \in Client : Aging(d)'
    BY <1>a, <2>1, <2>2, StillAging
  <2> QED BY <1>0, <2>1, <2>3
<1>8. ASSUME NEW c \in Client, WriteFails(c) PROVE TelemetryInv'
  <2>1. UNCHANGED <<emitted, in, lanes, got>> /\ writing' = [writing EXCEPT ![c] = NoMessage]
    BY <1>8 DEF WriteFails, scanVars
  <2>2. \A d \in Client : writing'[d] = writing[d] \/ writing'[d] = NoMessage
    BY <1>t, <2>1
  <2>3. \A d \in Client : Aging(d)'
    BY <1>a, <2>1, <2>2, StillAging
  <2> QED BY <1>0, <2>1, <2>3
<1>9. ASSUME NEW c \in Client, SenderNext(c) PROVE TelemetryInv'
  <2>1. PICK m \in NextMessages(lanes[c]) :
          writing' = [writing EXCEPT ![c] = m.msg] /\ lanes' = [lanes EXCEPT ![c] = m.rest]
    BY <1>9 DEF SenderNext
  <2>2. UNCHANGED <<emitted, in, got>> /\ Pending(lanes[c])
    BY <1>9 DEF SenderNext, scanVars
  <2> DEFINE l == lanes[c]
             w == writing[c]
             N == got[c].newest
  <2>3. /\ Aged(l.latest, w, N) /\ Below(l.latest, w, N, emitted + 1)
        /\ \A i \in 1..Len(in) : Below(l.latest, w, N, in[i].n)
    BY <1>a DEF Aging, Older
  <2>4. l \in Lane /\ w \in Message /\ N \in [Latest -> Nat]
    BY <1>t DEF GotRecord
  <2>5. emitted + 1 \in Nat /\ \A i \in 1..Len(in) : in[i].n \in Nat
    <3>1. emitted \in Nat /\ in \in Seq(Event)
      BY DEF HubInv, Typed
    <3>2. \A i \in 1..Len(in) : in[i] \in Event
      BY <3>1
    <3> QED BY <3>1, <3>2 DEF Event
  <2>6. m \in NextMessages(l) /\ Pending(l)
    BY <2>2
  <2>7. lanes'[c] = m.rest /\ writing'[c] = m.msg
    BY <1>t, <2>1
  <2> HIDE DEF l, w, N
  <2>8. /\ Aged(m.rest.latest, m.msg, N)
        /\ \A n \in Nat : Below(l.latest, w, N, n) => Below(m.rest.latest, m.msg, N, n)
    BY <2>3, <2>4, <2>6, NextAged
  <2>9. /\ Aged(m.rest.latest, m.msg, N) /\ Below(m.rest.latest, m.msg, N, emitted + 1)
        /\ \A i \in 1..Len(in) : Below(m.rest.latest, m.msg, N, in[i].n)
    BY <2>3, <2>5, <2>8
  <2>10. Aging(c)'
    BY <2>2, <2>7, <2>9 DEF Aging, Older, N
  <2>11. ASSUME NEW d \in Client, d # c PROVE Aging(d)'
    <3>1. lanes'[d] = lanes[d] /\ writing'[d] = writing[d]
      BY <1>t, <2>1, <2>11
    <3> QED BY <1>a, <2>2, <3>1, StillAging
  <2> QED BY <1>0, <2>2, <2>10, <2>11
<1>10. ASSUME NEW c \in Client, WriteSucceeds(c) PROVE TelemetryInv'
  <2> DEFINE T == lanes[c].latest
             w == writing[c]
             g == got[c]
             r == Received(g, w)
  <2>1. /\ got' = [got EXCEPT ![c] = r] /\ writing' = [writing EXCEPT ![c] = NoMessage]
        /\ UNCHANGED <<emitted, in, lanes>>
    BY <1>10 DEF WriteSucceeds, scanVars
  <2>2. /\ Aged(T, w, g.newest) /\ Below(T, w, g.newest, emitted + 1)
        /\ \A i \in 1..Len(in) : Below(T, w, g.newest, in[i].n)
    BY <1>a DEF Aging, Older
  <2>3. T \in SUBSET LatestEvent /\ w \in Message /\ g \in GotRecord
    BY <1>t DEF Lane
  <2>4. emitted + 1 \in Nat /\ \A i \in 1..Len(in) : in[i].n \in Nat
    <3>1. emitted \in Nat /\ in \in Seq(Event)
      BY DEF HubInv, Typed
    <3>2. \A i \in 1..Len(in) : in[i] \in Event
      BY <3>1
    <3> QED BY <3>1, <3>2 DEF Event
  <2>5. got'[c] = r /\ writing'[c] = NoMessage
    BY <1>t, <2>1
  <2> HIDE DEF T, w, g, r
  <2>6. /\ Aged(T, NoMessage, r.newest)
        /\ \A n \in Nat : Below(T, w, g.newest, n) => Below(T, NoMessage, r.newest, n)
    BY <2>2, <2>3, ReceivedAged DEF r
  <2>7. Below(T, NoMessage, r.newest, emitted + 1)
        /\ \A i \in 1..Len(in) : Below(T, NoMessage, r.newest, in[i].n)
    BY <2>2, <2>4, <2>6
  <2>8. Aging(c)'
    BY <2>1, <2>5, <2>6, <2>7 DEF Aging, Older, T
  <2>9. ASSUME NEW d \in Client, d # c PROVE Aging(d)'
    <3>1. got'[d] = got[d] /\ writing'[d] = writing[d] /\ lanes' = lanes
      BY <1>t, <2>1, <2>9
    <3> QED BY <1>a, <2>1, <3>1, StillAging
  <2> QED BY <1>0, <2>1, <2>8, <2>9
<1>11. CASE UNCHANGED vars
  <2>1. UNCHANGED <<emitted, in, lanes, writing, got>>
    BY <1>11 DEF vars, scanVars, clientVars
  <2>2. \A d \in Client : Aging(d)'
    BY <1>a, <2>1, StillAging
  <2> QED BY <1>0, <2>1, <2>2
<1> QED
  BY <1>1, <1>2, <1>3, <1>4, <1>5, <1>6, <1>7, <1>8, <1>9, <1>10, <1>11 DEF Next, Loop, HubStep

\* A client never receives stats or a snapshot older than what it already has,
\* although what waits in its lane is replaced while an older message is being written
\* (enqueue, next, sendLoop).
THEOREM TelemetryNeverAges == Spec => TelemetryFresh
<1> DEFINE A == \A c \in Client, k \in Latest : got'[c].newest[k] >= got[c].newest[k]
<1>1. HubAssumption /\ Init => TelemetryInv
  <2> SUFFICES ASSUME HubAssumption, Init PROVE TelemetryInv
    OBVIOUS
  <2>1. Queued
    BY DEF Init, Queued
  <2>2. ASSUME NEW c \in Client PROVE Aging(c)
    <3>1. lanes[c].latest = {} /\ writing[c].kind \notin Latest
          /\ got[c].newest = [k \in Latest |-> 0] /\ emitted = 0 /\ Len(in) = 0
      BY DEF Init, EmptyLanes, NoMessage, Latest
    <3> QED BY <3>1 DEF Aging, Older, Aged, Below
  <2> QED BY <2>1, <2>2 DEF TelemetryInv
<1>2. HubAssumption /\ HubInv /\ TelemetryInv /\ [Next]_vars => TelemetryInv'
  BY StepAging
<1>3. HubAssumption /\ HubInv /\ TelemetryInv /\ [Next]_vars => [A]_vars
  <2> SUFFICES ASSUME HubInv, TelemetryInv, Next, NEW c \in Client, NEW k \in Latest
               PROVE  got'[c].newest[k] >= got[c].newest[k]
    OBVIOUS
  <2>1. got \in [Client -> GotRecord] /\ got[c].newest[k] \in Nat
    BY DEF HubInv, Typed, GotRecord
  <2>2. got' = got \/ \E d \in Client : WriteSucceeds(d)
    BY DEF Next, HubStep, Loop, Emit, ScanEnds, FanOut, HubStop, HubRegister, HubUnregister,
           Connect, PeerLeaves, ReadFails, SenderWakes, SenderStops, SenderNext, SenderIdle, WriteFails
  <2>3. ASSUME NEW d \in Client, WriteSucceeds(d), d = c
        PROVE  got'[c].newest[k] >= got[c].newest[k]
    <3>1. got'[c] = Received(got[c], writing[c])
      BY <2>1, <2>3 DEF WriteSucceeds
    <3>2. /\ writing[c] \in Message /\ got[c] \in GotRecord
          /\ lanes[c].latest \in SUBSET LatestEvent
          /\ Aged(lanes[c].latest, writing[c], got[c].newest)
      BY DEF HubInv, Typed, Lane, TelemetryInv, Aging
    <3> QED BY <3>1, <3>2, ReceivedAged
  <2>4. ASSUME NEW d \in Client, WriteSucceeds(d), d # c PROVE got'[c] = got[c]
    BY <2>1, <2>4 DEF WriteSucceeds
  <2> QED BY <2>1, <2>2, <2>3, <2>4
<1> QED BY <1>1, <1>2, <1>3, HubInvariance, HubAssumption, PTL DEF Spec, TelemetryFresh
=============================================================================
