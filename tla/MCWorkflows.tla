--------------------------- MODULE MCWorkflows ---------------------------
(* Workflows with one scheduled workflow, of any kind, and one on an event. *)
EXTENDS Workflows

CONSTANTS w1, v1, e1, t1, t2

\* What schedule_event_workflow tells its user, "each event once" (app-events.js:100),
\* read as: no event has two runs that come to their end.  The code does not keep
\* it (a reset between a card's close and its bookkeeping), so no run checks it.
EachEventOnce == \A e \in Event : done[e] <= 1
==========================================================================
