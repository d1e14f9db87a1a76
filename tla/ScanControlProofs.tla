------------------------- MODULE ScanControlProofs -------------------------
(***************************************************************************)
(* Proofs about the control of a scan: for any number of HTTP handlers,    *)
(* any buffer and any number of commands, the state that clients see is    *)
(* true as long as requests do not overlap.                                *)
(***************************************************************************)
EXTENDS ScanControl, TLAPS

\* A handler at work has a numbered command.
Numbered == \A h \in Handler : handler[h] # "idle" => call[h] # 0

Typed == TypeOK /\ Numbered

\* Sequences over a set are sequences over a larger one.
LEMMA SeqMonotone ==
  ASSUME NEW S, NEW T, S \subseteq T, NEW q \in Seq(S)
  PROVE  q \in Seq(T)
OBVIOUS

\* Taking the first element of a queue.
LEMMA Dequeue ==
  ASSUME NEW S, NEW q \in Seq(S), q # << >>
  PROVE  /\ Head(q) = q[1] /\ q[1] \in S /\ Tail(q) \in Seq(S)
         /\ Len(q) \in Nat \ {0} /\ Len(Tail(q)) = Len(q) - 1
         /\ \A i \in 1..(Len(q) - 1) : Tail(q)[i] = q[i + 1]
OBVIOUS

\* The types are inductive.
LEMMA StepTyped ==
  ASSUME Typed, [Next]_vars
  PROVE  Typed'
<1> USE ScanControlAssumption DEF Typed, TypeOK, Numbered, vars, coVars, To
<1>1. ASSUME NEW h \in Handler, NEW k \in Kind, Begin(h, k) PROVE Typed'
  <2>1. commands' = commands + 1 /\ commands \in Nat /\ commands' \in 0..MaxCommands
    BY <1>1 DEF Begin
  <2>2. /\ 1..commands \subseteq 1..commands' /\ 0..commands \subseteq 0..commands'
        /\ commands' \in 0..commands' /\ commands' # 0
    BY <2>1
  <2>3. controlCh' \in Seq([kind : Kind, call : 1..commands'])
    <3>1. [kind : Kind, call : 1..commands] \subseteq [kind : Kind, call : 1..commands']
      BY <2>2
    <3>2. controlCh' = controlCh
      BY <1>1 DEF Begin
    <3> QED BY <3>1, <3>2, SeqMonotone
  <2>4. /\ handler' \in [Handler -> {"idle", "submitting", "recording", "awaiting"}]
        /\ kind' \in [Handler -> Kind] /\ call' \in [Handler -> 0..commands']
    BY <1>1, <2>1, <2>2 DEF Begin
  <2>5. Numbered'
    BY <1>1, <2>1, <2>2 DEF Begin
  <2> QED BY <1>1, <2>1, <2>2, <2>3, <2>4, <2>5 DEF Begin
<1>2. ASSUME NEW h \in Handler, Submit(h) PROVE Typed'
  <2>1. [kind |-> kind[h], call |-> call[h]] \in [kind : Kind, call : 1..commands]
    BY <1>2 DEF Submit
  <2>2. /\ controlCh' \in Seq([kind : Kind, call : 1..commands])
        /\ Len(controlCh') = Len(controlCh) + 1
    BY <1>2, <2>1 DEF Submit
  <2> QED BY <1>2, <2>2 DEF Submit
<1>3. ASSUME NEW h \in Handler, Refused(h) \/ Abandon(h) PROVE Typed'
  BY <1>3 DEF Refused, Abandon
<1>4. ASSUME NEW h \in Handler, Record(h) PROVE Typed'
  BY <1>4 DEF Record, Recorded
<1>5. ASSUME NEW h \in Handler, SaveReturns(h) PROVE Typed'
  BY <1>5 DEF SaveReturns
<1>6. CASE Apply
  <2> DEFINE S == [kind : Kind, call : 1..commands]
  <2>1. /\ Head(controlCh) \in S /\ controlCh' \in Seq(S)
        /\ Len(controlCh') <= ControlCap
    <3>1. controlCh # << >> /\ controlCh' = Tail(controlCh) /\ controlCh \in Seq(S)
      BY <1>6 DEF Apply
    <3>2. Len(controlCh) <= ControlCap /\ ControlCap \in Nat
      OBVIOUS
    <3> HIDE DEF S, Typed, TypeOK
    <3>3. /\ Head(controlCh) \in S /\ Tail(controlCh) \in Seq(S)
          /\ Len(controlCh) \in Nat /\ Len(Tail(controlCh)) = Len(controlCh) - 1
      BY <3>1, Dequeue
    <3>4. Len(Tail(controlCh)) <= ControlCap
      <4> DEFINE n == Len(controlCh)
                 m == Len(Tail(controlCh))
      <4>1. n \in Nat /\ m = n - 1 /\ n <= ControlCap /\ ControlCap \in Nat
        BY <3>2, <3>3
      <4> HIDE DEF n, m
      <4>2. m <= ControlCap
        BY <4>1
      <4> QED BY <4>2 DEF m
    <3> QED BY <3>1, <3>3, <3>4, Zenon
  <2>2. replies' \subseteq 1..commands
    BY <1>6, <2>1 DEF Apply
  <2>3. paused' \in BOOLEAN /\ cancelled' \in BOOLEAN
    BY <1>6 DEF Apply
  <2> QED BY <1>6, <2>1, <2>2, <2>3 DEF Apply
<1>7. CASE RunReturns
  BY <1>7 DEF RunReturns
<1>8. CASE RecordEnd
  BY <1>8 DEF RecordEnd
<1>9. CASE UNCHANGED vars
  BY <1>9
<1> QED BY <1>1, <1>2, <1>3, <1>4, <1>5, <1>6, <1>7, <1>8, <1>9 DEF Next, HandlerStep

\* Every variable keeps its type, and the control channel its capacity.
THEOREM ControlTyped == Spec => []Typed
<1>1. Init => Typed
  <2> SUFFICES ASSUME Init PROVE Typed
    OBVIOUS
  <2>1. /\ handler \in [Handler -> {"idle", "submitting", "recording", "awaiting"}]
        /\ kind \in [Handler -> Kind] /\ Numbered
    BY DEF Init, Kind, Numbered
  <2>2. /\ call \in [Handler -> 0..commands] /\ commands \in 0..MaxCommands
        /\ replies \subseteq 1..commands
    BY ScanControlAssumption DEF Init
  <2>3. controlCh \in Seq([kind : Kind, call : 1..commands]) /\ Len(controlCh) <= ControlCap
    BY ScanControlAssumption DEF Init
  <2> QED BY <2>1, <2>2, <2>3 DEF Init, Typed, TypeOK
<1>2. Typed /\ [Next]_vars => Typed'
  BY StepTyped
<1> QED BY <1>1, <1>2, PTL DEF Spec

-----------------------------------------------------------------------------
(* Requests that follow one another.                                       *)

Sequential ==
  \A g, h \in Handler : handler[g] # "idle" /\ handler[h] # "idle" => g = h

\* Whether the scan is paused once the loop has read everything that is queued.
Pausing ==
  \/ paused /\ \A i \in 1..Len(controlCh) : controlCh[i].kind # "resume"
  \/ \E i \in 1..Len(controlCh) :
       /\ controlCh[i].kind = "pause"
       /\ \A j \in 1..Len(controlCh) : j > i => controlCh[j].kind # "resume"

\* A client told s is told the truth about the commands accepted so far.
True(s) == s # "stopped" => (s = "paused" <=> Pausing)

Honest ==
  /\ finished => done
  /\ ~done => /\ state # "finished"
              /\ \A h \in Handler : handler[h] = "recording" => True(Recorded(kind[h]))
              /\ (\A h \in Handler : handler[h] # "recording") => True(state)
  /\ finished => /\ state # "running"
                 /\ state = "paused" =>
                      \A h \in Handler : handler[h] \notin {"submitting", "recording"}

\* Reading a command does not change what the queue amounts to.
LEMMA ApplyPausing ==
  ASSUME Typed, Apply
  PROVE  Pausing' <=> Pausing
<1> DEFINE n == Len(controlCh)
           m == Len(controlCh')
<1>1. controlCh \in Seq([kind : Kind, call : 1..commands]) /\ controlCh # << >>
      /\ controlCh' = Tail(controlCh)
  BY DEF Typed, TypeOK, Apply
<1>2. /\ n \in Nat \ {0} /\ m = n - 1 /\ Head(controlCh) = controlCh[1]
      /\ \A i \in 1..m : controlCh'[i] = controlCh[i + 1]
  BY <1>1, Dequeue
<1>3. paused' = IF controlCh[1].kind \in {"pause", "resume"}
                THEN controlCh[1].kind = "pause" ELSE paused
  BY <1>2 DEF Apply
<1> HIDE DEF n, m
<1>4. /\ \A i \in 1..n : i # 1 => i - 1 \in 1..m /\ controlCh'[i - 1] = controlCh[i]
      /\ \A i \in 1..m : i + 1 \in 1..n /\ i + 1 > 1
      /\ 1 \in 1..n
  BY <1>2
<1>5. ASSUME Pausing PROVE Pausing'
  <2>1. ASSUME paused, \A i \in 1..n : controlCh[i].kind # "resume"
        PROVE  Pausing'
    <3>1. paused'
      BY <1>3, <1>4, <2>1, Zenon
    <3>2. \A i \in 1..m : controlCh'[i].kind # "resume"
      BY <1>2, <1>4, <2>1
    <3> QED BY <3>1, <3>2 DEF Pausing, m
  <2>2. ASSUME NEW i \in 1..n, controlCh[i].kind = "pause",
               \A j \in 1..n : j > i => controlCh[j].kind # "resume"
        PROVE  Pausing'
    <3>1. CASE i = 1
      <4>1. paused'
        BY <1>3, <2>2, <3>1, Zenon
      <4>2. \A j \in 1..m : controlCh'[j].kind # "resume"
        BY <1>2, <1>4, <2>2, <3>1
      <4> QED BY <4>1, <4>2 DEF Pausing, m
    <3>2. CASE i # 1
      <4>1. i - 1 \in 1..m /\ controlCh'[i - 1].kind = "pause"
        BY <1>4, <2>2, <3>2
      <4>2. ASSUME NEW j \in 1..m, j > i - 1 PROVE controlCh'[j].kind # "resume"
        <5>1. j + 1 \in 1..n /\ j + 1 > i
          BY <1>2, <4>2
        <5> QED BY <1>2, <2>2, <5>1
      <4> QED BY <4>1, <4>2 DEF Pausing, m
    <3> QED BY <3>1, <3>2
  <2> QED BY <1>5, <2>1, <2>2 DEF Pausing, n
<1>6. ASSUME Pausing' PROVE Pausing
  <2>1. ASSUME paused', \A i \in 1..m : controlCh'[i].kind # "resume" PROVE Pausing
    <3>1. ASSUME NEW i \in 1..n, i # 1 PROVE controlCh[i].kind # "resume"
      BY <1>4, <2>1, <3>1
    <3>2. CASE controlCh[1].kind = "pause"
      <4>1. \A j \in 1..n : j > 1 => controlCh[j].kind # "resume"
        BY <1>2, <3>1
      <4> QED BY <1>4, <3>2, <4>1 DEF Pausing, n
    <3>3. CASE controlCh[1].kind # "pause"
      <4>1. paused /\ controlCh[1].kind # "resume"
        BY <1>3, <2>1, <3>3, Zenon
      <4>2. \A i \in 1..n : controlCh[i].kind # "resume"
        BY <3>1, <4>1
      <4> QED BY <4>1, <4>2 DEF Pausing, n
    <3> QED BY <3>2, <3>3
  <2>2. ASSUME NEW i \in 1..m, controlCh'[i].kind = "pause",
               \A j \in 1..m : j > i => controlCh'[j].kind # "resume"
        PROVE  Pausing
    <3>1. i + 1 \in 1..n /\ controlCh[i + 1].kind = "pause"
      BY <1>2, <1>4, <2>2
    <3>2. ASSUME NEW j \in 1..n, j > i + 1 PROVE controlCh[j].kind # "resume"
      <4>1. j - 1 \in 1..m /\ j - 1 > i /\ controlCh'[j - 1] = controlCh[j]
        BY <1>2, <1>4, <3>2
      <4> QED BY <2>2, <4>1
    <3> QED BY <3>1, <3>2 DEF Pausing, n
  <2> QED BY <1>6, <2>1, <2>2 DEF Pausing, m
<1> QED BY <1>5, <1>6

\* What a submitted command does to what the queue amounts to.
LEMMA SubmitPausing ==
  ASSUME Typed, NEW h \in Handler, Submit(h)
  PROVE  /\ kind[h] = "pause" => Pausing'
         /\ kind[h] = "resume" => ~Pausing'
         /\ kind[h] \in {"stop", "snapshot"} => (Pausing' <=> Pausing)
<1> DEFINE n == Len(controlCh)
           q == controlCh'
<1>1. /\ n \in Nat /\ Len(q) = n + 1 /\ paused' = paused
      /\ q[n + 1] = [kind |-> kind[h], call |-> call[h]]
      /\ \A i \in 1..n : q[i] = controlCh[i]
  BY DEF Submit, Typed, TypeOK, coVars
<1>2. q[n + 1].kind = kind[h]
  BY <1>1
<1> HIDE DEF n, q
<1>3. \A i \in 1..(n + 1) : i \in 1..n \/ i = n + 1
  BY <1>1
<1>4. n + 1 \in 1..(n + 1) /\ \A i \in 1..n : i \in 1..(n + 1) /\ n + 1 > i /\ ~(i > n + 1)
  BY <1>1
<1>5. \A j \in 1..(n + 1) : ~(j > n + 1)
  BY <1>1
<1>6. ASSUME kind[h] = "pause" PROVE Pausing'
  BY <1>1, <1>2, <1>4, <1>5, <1>6 DEF Pausing, q
<1>7. ASSUME kind[h] = "resume", Pausing' PROVE FALSE
  <2>1. q[n + 1].kind = "resume"
    BY <1>2, <1>7
  <2>2. PICK i \in 1..(n + 1) :
          /\ q[i].kind = "pause"
          /\ \A j \in 1..(n + 1) : j > i => q[j].kind # "resume"
    BY <1>1, <1>4, <1>7, <2>1 DEF Pausing, q
  <2> QED BY <1>3, <1>4, <2>1, <2>2
<1>8. ASSUME kind[h] \in {"stop", "snapshot"} PROVE Pausing' <=> Pausing
  <2>1. q[n + 1].kind # "resume" /\ q[n + 1].kind # "pause"
    BY <1>2, <1>8
  <2>2. ASSUME Pausing PROVE Pausing'
    <3>1. ASSUME paused, \A i \in 1..n : controlCh[i].kind # "resume" PROVE Pausing'
      <4>1. \A i \in 1..(n + 1) : q[i].kind # "resume"
        BY <1>1, <1>3, <2>1, <3>1
      <4> QED BY <1>1, <3>1, <4>1 DEF Pausing, q
    <3>2. ASSUME NEW i \in 1..n, controlCh[i].kind = "pause",
                 \A j \in 1..n : j > i => controlCh[j].kind # "resume"
          PROVE  Pausing'
      <4>1. i \in 1..(n + 1) /\ q[i].kind = "pause"
        BY <1>1, <1>4, <3>2
      <4>2. \A j \in 1..(n + 1) : j > i => q[j].kind # "resume"
        BY <1>1, <1>3, <2>1, <3>2
      <4> QED BY <1>1, <4>1, <4>2 DEF Pausing, q
    <3> QED BY <2>2, <3>1, <3>2 DEF Pausing, n
  <2>3. ASSUME Pausing' PROVE Pausing
    <3>1. ASSUME paused', \A i \in 1..(n + 1) : q[i].kind # "resume" PROVE Pausing
      <4>1. \A i \in 1..n : controlCh[i].kind # "resume"
        BY <1>1, <1>4, <3>1
      <4> QED BY <1>1, <3>1, <4>1 DEF Pausing, n
    <3>2. ASSUME NEW i \in 1..(n + 1), q[i].kind = "pause",
                 \A j \in 1..(n + 1) : j > i => q[j].kind # "resume"
          PROVE  Pausing
      <4>1. i \in 1..n /\ controlCh[i].kind = "pause"
        BY <1>1, <1>3, <2>1, <3>2
      <4>2. \A j \in 1..n : j > i => controlCh[j].kind # "resume"
        BY <1>1, <1>4, <3>2
      <4> QED BY <4>1, <4>2 DEF Pausing, n
    <3> QED BY <1>1, <2>3, <3>1, <3>2 DEF Pausing, q
  <2> QED BY <2>2, <2>3
<1> QED BY <1>6, <1>7, <1>8

\* Between requests the state is true, and a request that is about to be recorded
\* makes it so.
LEMMA StepHonest ==
  ASSUME Typed, Honest, Sequential, [Next]_vars
  PROVE  Honest'
<1> USE DEF vars, coVars, To
<1>1. ASSUME UNCHANGED <<controlCh, paused>> PROVE Pausing' <=> Pausing
  BY <1>1 DEF Pausing
<1>2. handler \in [Handler -> {"idle", "submitting", "recording", "awaiting"}]
      /\ kind \in [Handler -> Kind]
  BY DEF Typed, TypeOK
<1>3. ASSUME NEW h \in Handler, NEW k \in Kind, Begin(h, k) PROVE Honest'
  <2>1. \A g \in Handler :
          /\ handler'[g] = "recording" <=> handler[g] = "recording"
          /\ handler[g] = "recording" => kind'[g] = kind[g]
          /\ done => (handler'[g] # "submitting" \/ handler[g] = "submitting")
    BY <1>2, <1>3 DEF Begin
  <2>2. UNCHANGED <<controlCh, replies, coVars, state, finished>>
    BY <1>3 DEF Begin
  <2> QED BY <1>1, <2>1, <2>2 DEF Honest, True, Recorded
<1>4. ASSUME NEW h \in Handler, Submit(h) PROVE Honest'
  <2>1. /\ handler[h] = "submitting" /\ \A g \in Handler : g # h => handler[g] = "idle"
        /\ handler' = [handler EXCEPT ![h] = IF kind[h] = "snapshot" THEN "awaiting"
                                             ELSE "recording"]
        /\ UNCHANGED <<kind, done, finished, state>>
    BY <1>4 DEF Submit, Sequential
  <2>2. ~done => True(state)
    BY <2>1 DEF Honest
  <2>3. kind[h] \in {"pause", "resume", "stop", "snapshot"}
    BY <1>2 DEF Kind
  <2>4. kind[h] # "snapshot" /\ ~done => True(Recorded(kind[h]))'
    BY <1>4, <2>1, <2>2, <2>3, SubmitPausing DEF True, Recorded
  <2>5. kind[h] = "snapshot" /\ ~done => True(state)'
    BY <1>4, <2>1, <2>2, SubmitPausing DEF True
  <2> QED BY <1>2, <2>1, <2>4, <2>5 DEF Honest
<1>5. ASSUME NEW h \in Handler, Refused(h) \/ Abandon(h) PROVE Honest'
  <2>1. /\ handler[h] \in {"submitting", "awaiting"}
        /\ handler' = [handler EXCEPT ![h] = "idle"]
        /\ UNCHANGED <<kind, controlCh, coVars, state, finished>>
    BY <1>5 DEF Refused, Abandon
  <2>2. \A g \in Handler : /\ handler'[g] = "recording" <=> handler[g] = "recording"
                           /\ handler'[g] = "submitting" => handler[g] = "submitting"
    BY <1>2, <2>1
  <2> QED BY <1>1, <2>1, <2>2 DEF Honest, True, Recorded
<1>6. ASSUME NEW h \in Handler, Record(h) PROVE Honest'
  <2>1. /\ handler[h] = "recording" /\ \A g \in Handler : g # h => handler[g] = "idle"
        /\ handler' = [handler EXCEPT ![h] = "idle"] /\ state' = Recorded(kind[h])
        /\ UNCHANGED <<kind, controlCh, coVars, finished>>
    BY <1>6 DEF Record, Sequential
  <2>2. \A g \in Handler : handler'[g] = "idle"
    BY <1>2, <2>1
  <2>3. ~done => True(state)'
    BY <1>1, <2>1 DEF Honest, True
  <2>4. ~done => state' # "finished"
    BY <2>1 DEF Recorded, Honest
  <2>5. finished => state' # "running"
    BY <2>1 DEF Recorded, Honest
  <2> QED BY <2>1, <2>2, <2>3, <2>4, <2>5 DEF Honest
<1>7. ASSUME NEW h \in Handler, SaveReturns(h) PROVE Honest'
  <2>1. /\ handler[h] = "awaiting" /\ handler' = [handler EXCEPT ![h] = "idle"]
        /\ UNCHANGED <<kind, controlCh, coVars, state, finished>>
    BY <1>7 DEF SaveReturns
  <2>2. \A g \in Handler : /\ handler'[g] = "recording" <=> handler[g] = "recording"
                           /\ handler'[g] = "submitting" => handler[g] = "submitting"
    BY <1>2, <2>1
  <2> QED BY <1>1, <2>1, <2>2 DEF Honest, True, Recorded
<1>8. CASE Apply
  <2>1. (Pausing' <=> Pausing) /\ UNCHANGED <<handler, kind, done, state, finished>>
    BY <1>8, ApplyPausing DEF Apply
  <2> QED BY <2>1 DEF Honest, True, Recorded
<1>9. CASE RunReturns
  BY <1>9 DEF RunReturns, Honest
<1>10. CASE RecordEnd
  BY <1>10 DEF RecordEnd, Honest
<1>11. CASE UNCHANGED vars
  BY <1>1, <1>11 DEF Honest, True, Recorded
<1> QED BY <1>3, <1>4, <1>5, <1>6, <1>7, <1>8, <1>9, <1>10, <1>11 DEF Next, HandlerStep

\* As long as requests follow one another, the state that clients see is that of
\* the scan once its commands were applied, whatever was queued, abandoned or
\* refused before, and the end of the scan is never overwritten by "running".
THEOREM StateIsTrue == Spec /\ []Sequential => []StateMatches
<1>1. Init => Honest
  BY DEF Init, Honest, True, Pausing
<1>2. Typed /\ Honest /\ Sequential /\ [Next]_vars => Honest'
  BY StepHonest
<1>3. Typed /\ Honest => StateMatches
  <2> SUFFICES ASSUME Typed, Honest, ~done, AllIdle, controlCh = << >>, state # "stopped"
               PROVE  state = "paused" <=> paused
    BY DEF StateMatches, Honest
  <2>1. True(state)
    BY DEF Honest, AllIdle
  <2>2. Pausing <=> paused
    BY DEF Pausing
  <2> QED BY <2>1, <2>2 DEF True
<1> QED BY <1>1, <1>2, <1>3, ControlTyped, PTL DEF Spec

=============================================================================
