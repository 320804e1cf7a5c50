----------------------- MODULE QueueRunnerProperties -----------------------
(***************************************************************************)
(* What makes the runners of a queue correct: safety, what a step may      *)
(* never do, liveness under the scheduling of the code, and the contract   *)
(* of CommandQueue.                                                        *)
(***************************************************************************)
EXTENDS QueueRunner

Ended(r) == pc[r] \in {"done", "crashed"}
Running(r, c) == pc[r] = "run" /\ cur[r] = c
-----------------------------------------------------------------------------
(* Safety *)

\* Session r has claimed command c, and neither committed nor rolled back.
Working(r, c) ==
    /\ conn[r] = "ok"
    /\ cur[r] = c
    /\ pc[r] \in {"run", "update"} \/ verdict[r] # "none"

\* A runner holds the row lock of the command it works on, from the SELECT over
\* the run and the UPDATE to the COMMIT, of no other command and no longer; and
\* a locked command stays in the queue.  So no two live sessions work on one
\* command, and a runner that waits in poll() keeps nobody from any command.
ClaimBacked ==
    /\ \A r \in Runners, c \in Cmds : lock[c] = r <=> Working(r, c)
    /\ \A c \in Cmds : lock[c] # Free => c \in queue

\* A command runs again only when its last run is known to have left it in the
\* queue, or because of a fault: the race between the regular SELECT, the SELECT
\* for a notification and other runners never makes it run twice.
RerunNeedsFault == \A c \in Cmds : runs[c] <= 1 + faults

\* A notification still to be dealt with, by whichever of the two queues.
Pending(r) == {c \in Cmds : \E i \in 1..Len(libpq[r] \o wire[r]) :
                              (libpq[r] \o wire[r])[i] = c}

\* A runner never waits out its reselect interval on a command that it has
\* neither run nor passed over for another transaction's lock, unless the
\* notification of that command is still to wake it: LISTEN precedes the first
\* SELECT, and no notification is lost between PQnotifies() and poll().
WokenForNew ==
    \A r \in Runners :
      (HasChannel /\ pc[r] = "poll" /\ conn[r] = "ok" /\ ~due[r])
      => queue \subseteq seen[r] \cup Pending(r)
-----------------------------------------------------------------------------
(* What a step may never do *)

\* The (re)select loop never picks a command that it already ran in the present
\* round: updated_cmd excludes what was updated, and what failed to be.
OncePerRound ==
    [][\A r \in Runners :
         (pc[r] = "select" /\ pc'[r] = "run" /\ notifyCmd[r] = NoCmd)
         => cur'[r] \notin handled[r]]_vars
-----------------------------------------------------------------------------
(* Liveness *)

\* Threads and the server are scheduled, connection attempts succeed in the
\* end, and the server notices dead clients.
ThreadFairness == /\ \A r \in Runners : WF_vars(Step(r))
                  /\ \A c \in Cmds : WF_vars(ReapOrphan(c))

\* In addition, time passes.
TimerFairness == \A r \in Runners : WF_vars(Tick(r))

SpecNoTimer == Spec /\ ThreadFairness
FairSpec == SpecNoTimer /\ TimerFairness

\* A command that stays in the queue is run again and again, one that fails as
\* much as one behind it: a failing command neither blocks nor is given up.
PersistentRetry ==
    \A c \in Cmds :
      \/ []<>(c \notin queue \/ \E r \in Runners : Running(r, c))
      \/ <>(\A r \in Runners : Ended(r))

\* Without the passing of any reselect interval, a command gets its first run
\* by its notification alone, unless all runners end.
NotifiedTried ==
    \A c \in Cmds :
      (c \in queue) ~> \/ c \notin queue
                       \/ \E r \in Runners : c \in seen[r]
                       \/ \A r \in Runners : Ended(r)

\* A stop request in the kill pipe ends the runner, however busy the queue.
StopHonoured == \A r \in Runners : (killPipe[r] > 0) ~> Ended(r)
-----------------------------------------------------------------------------
(* The contract *)

CQ == INSTANCE CommandQueue WITH
        claim <- lock,
        ran <- [c \in Cmds |-> /\ lock[c] \in Runners
                               /\ cur[lock[c]] = c
                               /\ pc[lock[c]] \in {"update", "commit"}]

\* The runners and their clients together keep the promise of CommandQueue.
KeepsContract == CQ!Spec
=============================================================================
