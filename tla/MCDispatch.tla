----------------------------- MODULE MCDispatch -----------------------------
EXTENDS Dispatch

CONSTANT i1

\* Active probes with one request in flight, and a user who raises the
\* concurrency without them.
MCSetups == {[refining |-> {}, limits |-> {1, 2}], [refining |-> {i1}, limits |-> {1}]}

\* Active probes with two requests in flight.
MCHandOff == {[refining |-> {i1}, limits |-> {2}]}
=============================================================================
