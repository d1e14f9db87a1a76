---------------------------- MODULE ScanControl ----------------------------
(***************************************************************************)
(* The daemon's view of a scan (internal/daemon/scan.go) against the       *)
(* coordinator it controls: HTTP handlers submit commands through the      *)
(* buffered controlCh (SubmitControl), then record the new state under the *)
(* scan's lock; snapshots (Save) wait for a reply; the goroutine that runs *)
(* the coordinator records the end.                                        *)
(***************************************************************************)
EXTENDS Integers, Sequences

CONSTANTS
  Handler,      \* concurrent HTTP requests
  ControlCap,   \* capacity of controlCh
  MaxCommands   \* bound on the commands of one scan

Kind == {"pause", "resume", "stop", "snapshot"}
ASSUME ScanControlAssumption == ControlCap \in Nat \ {0} /\ MaxCommands \in Nat

VARIABLES
  handler,    \* handler |-> idle, submitting, recording, awaiting
  kind,       \* handler |-> its command
  call,       \* handler |-> the number of its command, for its Result channel
  commands,   \* commands begun
  controlCh,  \* queued commands: kind and number
  replies,    \* numbers whose Result channel holds a snapshot
  paused,     \* Coordinator.paused
  cancelled,  \* Coordinator's run context
  done,       \* Run returned: Coordinator.done is closed
  state,      \* Scan.state: running, paused, stopped, finished
  finished    \* adopt recorded the end

coVars == <<paused, cancelled, done>>
vars == <<handler, kind, call, commands, controlCh, replies, coVars, state, finished>>

To(h, where) == handler' = [handler EXCEPT ![h] = where]

\* SubmitControl, first look at done: refused at once, or about to send.
Begin(h, k) ==
  /\ handler[h] = "idle" /\ commands < MaxCommands
  /\ commands' = commands + 1
  /\ kind' = [kind EXCEPT ![h] = k] /\ call' = [call EXCEPT ![h] = commands + 1]
  /\ To(h, IF done THEN "idle" ELSE "submitting")
  /\ UNCHANGED <<controlCh, replies, coVars, state, finished>>

\* SubmitControl: the buffer has room, whether or not anybody still reads it.
Submit(h) ==
  /\ handler[h] = "submitting" /\ Len(controlCh) < ControlCap
  /\ controlCh' = Append(controlCh, [kind |-> kind[h], call |-> call[h]])
  /\ To(h, IF kind[h] = "snapshot" THEN "awaiting" ELSE "recording")
  /\ UNCHANGED <<kind, call, commands, replies, coVars, state, finished>>

\* SubmitControl: the scan ended while the buffer was full.
Refused(h) ==
  /\ handler[h] = "submitting" /\ done
  /\ To(h, "idle")
  /\ UNCHANGED <<kind, call, commands, controlCh, replies, coVars, state, finished>>

\* Mutant: a resumed scan stays paused for the clients.
RecordedNoResume(k) == CASE k = "pause" -> "paused" [] k = "stop" -> "stopped" [] OTHER -> state

\* Control's switch.
Recorded(k) ==
  CASE k = "pause" -> "paused"
    [] k = "resume" /\ state = "paused" -> "running"
    [] k = "stop" -> "stopped"
    [] OTHER -> state

\* Control: the state is recorded.
Record(h) ==
  /\ handler[h] = "recording"
  /\ state' = Recorded(kind[h])
  /\ To(h, "idle")
  /\ UNCHANGED <<kind, call, commands, controlCh, replies, coVars, finished>>

\* Mutant: Save only waits for the reply.
SaveReturnsReplyOnly(h) ==
  /\ handler[h] = "awaiting" /\ call[h] \in replies
  /\ replies' = replies \ {call[h]}
  /\ To(h, "idle")
  /\ UNCHANGED <<kind, call, commands, controlCh, coVars, state, finished>>

\* Save: the reply, or the end of the scan.
SaveReturns(h) ==
  /\ handler[h] = "awaiting" /\ (call[h] \in replies \/ done)
  /\ replies' = replies \ {call[h]}
  /\ To(h, "idle")
  /\ UNCHANGED <<kind, call, commands, controlCh, coVars, state, finished>>

\* SubmitControl and Save: the client went away and the request's context ended.
Abandon(h) ==
  /\ handler[h] \in {"submitting", "awaiting"}
  /\ To(h, "idle")
  /\ UNCHANGED <<kind, call, commands, controlCh, replies, coVars, state, finished>>

\* Mutant: a stop only pauses.
ApplyStopPauses ==
  LET cmd == Head(controlCh)
  IN  /\ ~done /\ controlCh # << >>
      /\ controlCh' = Tail(controlCh)
      /\ paused' = (cmd.kind \in {"pause", "stop"})
      /\ replies' = IF cmd.kind = "snapshot" THEN replies \cup {cmd.call} ELSE replies
      /\ UNCHANGED <<handler, kind, call, commands, cancelled, done, state, finished>>

\* applyControl, by the coordinator's loop.
Apply ==
  LET cmd == Head(controlCh)
  IN  /\ ~done /\ controlCh # << >>
      /\ controlCh' = Tail(controlCh)
      /\ paused' = IF cmd.kind \in {"pause", "resume"} THEN cmd.kind = "pause" ELSE paused
      /\ cancelled' = (cancelled \/ cmd.kind = "stop")
      /\ replies' = IF cmd.kind = "snapshot" THEN replies \cup {cmd.call} ELSE replies
      /\ UNCHANGED <<handler, kind, call, commands, done, state, finished>>

\* Run returns: cancelled, or nothing is left to do.
RunReturns ==
  /\ ~done /\ done' = TRUE
  /\ UNCHANGED <<handler, kind, call, commands, controlCh, replies, paused, cancelled, state, finished>>

\* adopt, after Run.
RecordEnd ==
  /\ done /\ ~finished
  /\ finished' = TRUE
  /\ state' = IF state = "stopped" THEN state ELSE "finished"
  /\ UNCHANGED <<handler, kind, call, commands, controlCh, replies, coVars>>

Init ==
  /\ handler = [h \in Handler |-> "idle"] /\ kind = [h \in Handler |-> "pause"]
  /\ call = [h \in Handler |-> 0]
  /\ commands = 0 /\ controlCh = << >> /\ replies = {}
  /\ paused = FALSE /\ cancelled = FALSE /\ done = FALSE
  /\ state = "running" /\ finished = FALSE

HandlerStep(h) == Submit(h) \/ Refused(h) \/ Record(h) \/ SaveReturns(h)

Next ==
  \/ \E h \in Handler, k \in Kind : Begin(h, k)
  \/ \E h \in Handler : HandlerStep(h) \/ Abandon(h)
  \/ Apply \/ RunReturns \/ RecordEnd

Spec == Init /\ [][Next]_vars

\* Fairness: goroutines run, the loop reads its commands, and a cancelled scan
\* returns (Dispatch).  A client need not give up, and
\* the scan need not end by itself.
FairSpec ==
  /\ Spec
  /\ \A h \in Handler : WF_vars(HandlerStep(h))
  /\ WF_vars(Apply) /\ WF_vars(cancelled /\ RunReturns) /\ WF_vars(RecordEnd)

-----------------------------------------------------------------------------
(* Properties.                                                             *)

\* Every variable has its type.
TypeOK ==
  /\ handler \in [Handler -> {"idle", "submitting", "recording", "awaiting"}]
  /\ kind \in [Handler -> Kind] /\ call \in [Handler -> 0..commands] /\ commands \in 0..MaxCommands
  /\ controlCh \in Seq([kind : Kind, call : 1..commands]) /\ Len(controlCh) <= ControlCap
  /\ replies \subseteq 1..commands
  /\ paused \in BOOLEAN /\ cancelled \in BOOLEAN /\ done \in BOOLEAN /\ finished \in BOOLEAN
  /\ state \in {"running", "paused", "stopped", "finished"}

AllIdle == \A h \in Handler : handler[h] = "idle"

\* Once every command was submitted, recorded and applied, the state clients
\* see is the state of the running scan; and a scan whose end was recorded is never
\* listed as running again, whatever command is recorded after it.
StateMatches ==
  /\ ~done /\ AllIdle /\ controlCh = << >> /\ state # "stopped" => (state = "paused" <=> paused)
  /\ finished => state # "running"

\* No request hangs: not on a full buffer that nobody reads, not on a snapshot
\* that is never taken.
RequestsEnd == \A h \in Handler : handler[h] # "idle" ~> handler[h] = "idle"

\* A stop that was accepted ends the scan, and its end is recorded.
StopEnds == (\E i \in 1..Len(controlCh) : controlCh[i].kind = "stop") ~> finished

=============================================================================
