----------------------- MODULE RunnerManagerProperties -----------------------
(* What makes the main thread of the daemon correct. *)
EXTENDS RunnerManager

\* The manager waits in poll() with nothing left to deal with.
Idle == pc = "poll" /\ conn = "ok" /\ notes = 0

Serving(q) == thread[q] \in {"starting", "running"} /\ ~stopReq[q]

\* Whenever it is idle, the manager has acted on every change that was made
\* after its LISTEN: of the queues whose registration did not change unnoticed
\* before it, the enabled ones are those it knows.
UpToDate == Idle => \A q \in Queues \ missed : q \in old <=> q \in enabled

\* While it is idle, every queue that it knows to be enabled has a runner that
\* has not been asked to stop.
KnownQueueServed == Idle => \A q \in old : Serving(q)

\* A queue that is enabled after the LISTEN, and stays so, gets a runner: the
\* manager never stops noticing changes, as long as its connection lasts.
NewQueueServed ==
    \A q \in Queues :
      (pc = "poll" /\ conn = "ok" /\ q \in enabled /\ q \notin missed)
      ~> (q \notin enabled \/ thread[q] # "none" \/ signalled \/ conn = "bad")

\* The runner of a queue that disappears is stopped, if it was running by then.
DisabledQueueStops ==
    \A q \in Queues :
      (pc = "poll" /\ conn = "ok" /\ q \in old \ enabled /\ q \notin missed
       /\ thread[q] = "running")
      ~> (q \in enabled \/ thread[q] = "ended" \/ signalled \/ conn = "bad")

\* When all threads run by the time the manager stops them, the process exits.
JoinEnds ==
    (pc = "stop" /\ \A q \in Queues : thread[q] # "starting") ~> (pc = "exit")
=============================================================================
