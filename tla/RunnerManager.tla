---------------------------- MODULE RunnerManager ----------------------------
(***************************************************************************)
(* The main thread of pg_cmdqd: main() of pg_cmd_queue_daemon.cpp and the  *)
(* CmdQueueRunnerManager it drives.  It reads the list of enabled queues,  *)
(* spawns a runner thread for each, LISTENs for changes of the cmd_queue   *)
(* table, and stops and joins the threads when the process is signalled.   *)
(*                                                                         *)
(* Of a runner thread (module QueueRunner) the manager only sees whether   *)
(* it has set `_running`, and whether it has returned.                     *)
(***************************************************************************)
EXTENDS Integers

CONSTANTS
    Queues,     \* the queues that may be registered in cmdq.cmd_queue
    Faults,     \* the kinds of faults that may happen
    MaxFaults,  \* how many of them, in total
    MaxChanges  \* how many changes are made to the cmd_queue table

ASSUME ManagerAssumption ==
    /\ Faults \subseteq {"select", "listen", "conn", "thread"}
    /\ MaxFaults \in Nat /\ MaxChanges \in Nat

VARIABLES
    enabled,    \* the queues that view cmdqd.cmd_queue shows
    \* The manager's session and its signal handler.
    conn,       \* "none", "ok" or "bad"
    listening,  \* whether it LISTENs on channel cmdq
    notes,      \* how many notifications await it
    signalled,  \* sig_recv[] of SIGTERM, SIGINT or SIGQUIT
    pipe,       \* whether _kill_pipe_fds is readable
    \* The manager thread and the runner threads.
    pc,
    old,        \* _old_cmd_classes
    thread,     \* of each queue: "none", "starting", "running" or "ended"
    stopReq,    \* whether the kill pipe of the runner of each queue is readable
    \* Bounds and history.
    faults, changes,
    missed      \* queues changed unnoticed since the list was last SELECTed

serverVars == <<enabled, conn, listening, notes>>
signalVars == <<signalled, pipe>>
threadVars == <<thread, stopReq>>
boundVars == <<faults, changes>>
vars == <<serverVars, signalVars, pc, old, threadVars, boundVars, missed>>

TypeOK ==
    /\ enabled \subseteq Queues
    /\ conn \in {"none", "ok", "bad"}
    /\ listening \in BOOLEAN
    /\ notes \in 0..MaxChanges
    /\ signalled \in BOOLEAN /\ pipe \in BOOLEAN
    /\ pc \in {"connect", "init", "listen", "poll", "refresh", "stop", "join", "exit",
               "crashed"}
    /\ old \subseteq Queues
    /\ thread \in [Queues -> {"none", "starting", "running", "ended"}]
    /\ stopReq \in [Queues -> BOOLEAN]
    /\ faults \in 0..MaxFaults /\ changes \in 0..MaxChanges
    /\ missed \subseteq Queues

Init ==
    /\ enabled \in SUBSET Queues
    /\ conn = "none" /\ listening = FALSE /\ notes = 0
    /\ signalled = FALSE /\ pipe = FALSE
    /\ pc = "connect" /\ old = {}
    /\ thread = [q \in Queues |-> "none"]
    /\ stopReq = [q \in Queues |-> FALSE]
    /\ faults = 0 /\ changes = 0 /\ missed = {}
-----------------------------------------------------------------------------
Goto(from, to) == pc = from /\ pc' = to

\* A statement of the manager fails: by a fault, or because its connection died.
StatementFails(kind) ==
    \/ conn = "bad" /\ UNCHANGED faults
    \/ conn = "ok" /\ kind \in Faults /\ faults < MaxFaults /\ faults' = faults + 1

\* kill() of the runners of these queues, which it drops before `_running` is
\* set and after the thread has ended.
KillRunners(qs) ==
    stopReq' = [q \in Queues |-> stopReq[q] \/ (q \in qs /\ thread[q] = "running")]

\* Deviation: runners of queues that are gone are not stopped.
ApplyWithoutStopping(new) ==
    /\ thread' = [q \in Queues |-> IF q \in new /\ thread[q] = "none"
                                   THEN "starting" ELSE thread[q]]
    /\ old' = new /\ UNCHANGED stopReq

\* What refresh_queue_list() does with the list it got: a thread for each queue
\* that never had one, a stop request for each that disappeared.
Apply(new) ==
    /\ thread' = [q \in Queues |-> IF q \in new /\ thread[q] = "none"
                                   THEN "starting" ELSE thread[q]]
    /\ KillRunners(old \ new)
    /\ old' = new
-----------------------------------------------------------------------------
(* main() *)

\* maintain_connection() connects.
Connect ==
    /\ ~signalled
    /\ Goto("connect", "init")
    /\ conn' = "ok"
    /\ UNCHANGED <<enabled, listening, notes, signalVars, old, threadVars, boundVars, missed>>

\* It returns without a connection when signalled, and the SELECT that follows
\* dereferences a null pointer.
ConnectGivesUp ==
    /\ signalled
    /\ Goto("connect", "crashed")
    /\ UNCHANGED <<serverVars, signalVars, old, threadVars, boundVars, missed>>

\* refresh_queue_list(false), before there is a LISTEN.
FirstRefresh ==
    /\ conn = "ok"
    /\ Goto("init", "listen")
    /\ Apply(enabled)
    /\ missed' = {}
    /\ UNCHANGED <<serverVars, signalVars, boundVars>>

\* It fails, and is not tried again.
FirstRefreshFails ==
    /\ Goto("init", "listen")
    /\ StatementFails("select")
    /\ missed' = enabled
    /\ UNCHANGED <<serverVars, signalVars, old, threadVars, changes>>

\* listen_for_queue_list_changes() begins.
Listen ==
    /\ conn = "ok"
    /\ Goto("listen", "poll")
    /\ listening' = TRUE
    /\ UNCHANGED <<enabled, conn, notes, signalVars, old, threadVars, boundVars, missed>>

\* The LISTEN fails: the daemon shuts down.
ListenFails ==
    /\ Goto("listen", "stop")
    /\ StatementFails("listen")
    /\ UNCHANGED <<serverVars, signalVars, old, threadVars, changes, missed>>

\* Deviation: whatever else is pending is taken for the same change.
TakeNoteAndDropRest ==
    /\ notes > 0
    /\ Goto("poll", IF notes = 1 THEN "refresh" ELSE "poll")
    /\ notes' = 0
    /\ UNCHANGED <<enabled, conn, listening, signalVars, old, threadVars, boundVars, missed>>

\* Deviation: a wake-up without a notification is taken for a change.
TakeAnyWakeUp ==
    /\ Goto("poll", "refresh")
    /\ notes' = notes - 1
    /\ UNCHANGED <<enabled, conn, listening, signalVars, old, threadVars, boundVars, missed>>

\* poll() finds the connection readable, and PQnotifies() yields a change of the
\* cmd_queue table.
TakeNote ==
    /\ notes > 0
    /\ Goto("poll", "refresh")
    /\ notes' = notes - 1
    /\ UNCHANGED <<enabled, conn, listening, signalVars, old, threadVars, boundVars, missed>>

\* refresh_queue_list(true) succeeds, at its first SELECT or a later one.
Refresh ==
    /\ conn = "ok"
    /\ Goto("refresh", "poll")
    /\ Apply(enabled)
    /\ missed' = {}
    /\ UNCHANGED <<serverVars, signalVars, boundVars>>

\* Its SELECT fails until a signal ends the retries.  The list it is left with
\* is empty, so every runner is asked to stop.
RefreshInterrupted ==
    /\ signalled
    /\ Goto("refresh", "stop")
    /\ StatementFails("select")
    /\ Apply({})
    /\ UNCHANGED <<serverVars, signalVars, changes, missed>>

\* poll() finds the kill pipe readable.
ReadPipe ==
    /\ pipe
    /\ Goto("poll", "stop")
    /\ pipe' = FALSE
    /\ UNCHANGED <<serverVars, signalled, old, threadVars, boundVars, missed>>

\* Deviation: the runners of one kind of queue are left out.
StopNoRunners ==
    /\ Goto("stop", "join")
    /\ UNCHANGED <<serverVars, signalVars, old, threadVars, boundVars, missed>>

StopAllRunners ==
    /\ Goto("stop", "join")
    /\ KillRunners(Queues)
    /\ UNCHANGED <<serverVars, signalVars, old, thread, boundVars, missed>>

JoinAllThreads ==
    /\ \A q \in Queues : thread[q] \in {"none", "ended"}
    /\ Goto("join", "exit")
    /\ UNCHANGED <<serverVars, signalVars, old, threadVars, boundVars, missed>>
-----------------------------------------------------------------------------
(* Signals, the runner threads, the cmd_queue table, faults *)

Alive == pc \notin {"exit", "crashed"}

\* receive_signal() of SIGTERM, SIGINT or SIGQUIT.
ReceiveSignal ==
    /\ Alive /\ ~signalled
    /\ signalled' = TRUE /\ pipe' = TRUE
    /\ UNCHANGED <<serverVars, pc, old, threadVars, boundVars, missed>>

\* The thread reaches `_running = true`.
ThreadRuns(q) ==
    /\ Alive /\ thread[q] = "starting"
    /\ thread' = [thread EXCEPT ![q] = "running"]
    /\ UNCHANGED <<serverVars, signalVars, pc, old, stopReq, boundVars, missed>>

\* The thread obeys a stop request (StopHonoured of QueueRunnerProperties).
ThreadStops(q) ==
    /\ Alive /\ thread[q] = "running" /\ stopReq[q]
    /\ thread' = [thread EXCEPT ![q] = "ended"]
    /\ UNCHANGED <<serverVars, signalVars, pc, old, stopReq, boundVars, missed>>

\* The thread ends by a failure of its own (SessionStartFails, EnterRoundFails).
ThreadFails(q) ==
    /\ Alive /\ thread[q] = "running"
    /\ "thread" \in Faults /\ faults < MaxFaults /\ faults' = faults + 1
    /\ thread' = [thread EXCEPT ![q] = "ended"]
    /\ UNCHANGED <<serverVars, signalVars, pc, old, stopReq, changes, missed>>

\* INSERT, UPDATE or DELETE of the registration of a queue, which the trigger
\* cmd_queue__notify_daemon_of_changes announces.
Change(q, now) ==
    /\ Alive /\ changes < MaxChanges
    /\ changes' = changes + 1
    /\ enabled' = now
    /\ notes' = IF listening THEN notes + 1 ELSE notes
    /\ missed' = IF listening THEN missed ELSE missed \cup {q}
    /\ UNCHANGED <<conn, listening, signalVars, pc, old, threadVars, faults>>

Enable(q) == q \notin enabled /\ Change(q, enabled \cup {q})
Disable(q) == q \in enabled /\ Change(q, enabled \ {q})
Alter(q) == q \in enabled /\ Change(q, enabled)

\* The manager's connection dies.  PQconsumeInput() fails from then on, unheeded.
ConnLoss ==
    /\ conn = "ok" /\ "conn" \in Faults /\ faults < MaxFaults
    /\ faults' = faults + 1
    /\ conn' = "bad" /\ listening' = FALSE /\ notes' = 0
    /\ UNCHANGED <<enabled, signalVars, pc, old, threadVars, changes, missed>>
-----------------------------------------------------------------------------
Manager ==
    \/ Connect \/ ConnectGivesUp \/ FirstRefresh \/ FirstRefreshFails
    \/ Listen \/ ListenFails \/ TakeNote \/ Refresh \/ RefreshInterrupted
    \/ ReadPipe \/ StopAllRunners \/ JoinAllThreads

Thread(q) == ThreadRuns(q) \/ ThreadStops(q)

Next ==
    \/ Manager \/ ReceiveSignal \/ ConnLoss
    \/ \E q \in Queues : Thread(q) \/ ThreadFails(q) \/ Enable(q) \/ Disable(q) \/ Alter(q)

Spec == Init /\ [][Next]_vars

\* The threads are scheduled, and the server can be reached in the end.
FairSpec == Spec /\ WF_vars(Manager) /\ \A q \in Queues : WF_vars(Thread(q))
=============================================================================
