---------------------------- MODULE QueueRunner ----------------------------
(***************************************************************************)
(* The runner thread of one command queue: CmdQueueRunner<T>::_run() in    *)
(* pg_cmdqd/cmdqueuerunner.h, with the SQL it calls in its own session     *)
(* (cmdqd.runner_session_start(), the prepared SELECT and UPDATE           *)
(* statements, cmdqd.enter_reselect_round() and                            *)
(* cmdqd.remember_failed_update_for_this_reselect_round()).                *)
(*                                                                         *)
(* Several runners may serve the same queue relation: those of two         *)
(* daemons, or that of a restarted daemon while the server still holds the *)
(* session of its predecessor.  Each runner is a thread with a session of  *)
(* its own; what they share is the queue relation and its row locks.       *)
(*                                                                         *)
(* One step is one statement sent to the server, one iteration of the      *)
(* poll() loop, or one event of the environment.                           *)
(***************************************************************************)
EXTENDS Naturals, Sequences, FiniteSets

CONSTANTS
    Cmds,        \* the (cmd_id, cmd_subid) keys that commands are queued under
    Runners,     \* the runner threads that serve this queue
    QueuedSince, \* cmd_queued_since of each command
    Effects,     \* what the UPDATE triggers of this queue may do to a row
    HasChannel,  \* whether queue_notify_channel is set (and a trigger NOTIFYs)
    EveryNth,    \* queue_reselect_randomized_every_nth, 0 when it is NULL
    BigintMax,   \* largest reselect round the SQL side counts to
    IntMax,      \* largest reselect round that std::stoi() can return
    Faults,      \* the kinds of faults that may happen
    MaxFaults,   \* how many of them, in total
    MaxPosts,    \* how many commands and stray notifications are posted
    MaxKills,    \* how many stop requests may wait in the kill pipe
    MaxRuns,     \* where the count of runs of a command saturates
    Free,        \* a row that nobody has locked
    Orphan,      \* the locker left behind by a session that lost its client
    NoCmd,       \* absence of a command
    Other,       \* a NOTIFY payload for another queue on the same channel
    Malformed    \* a NOTIFY payload that is no (class, cmd_id, cmd_subid) row

EffectKinds == {"delete", "keep", "ignore", "raise"}
FaultKinds == {"conn", "session", "select", "round", "commit", "crash"}
Payloads == Cmds \cup {Other, Malformed}

ASSUME ValuesAssumption ==
    /\ Free \notin Runners /\ Orphan \notin Runners /\ Free # Orphan
    /\ NoCmd \notin Payloads /\ Other \notin Cmds /\ Malformed \notin Cmds

ASSUME SettingsAssumption ==
    /\ QueuedSince \in [Cmds -> Nat]
    /\ Effects \subseteq EffectKinds
    /\ HasChannel \in BOOLEAN
    /\ EveryNth \in Nat

ASSUME BoundsAssumption ==
    /\ BigintMax \in Nat \ {0} /\ IntMax \in Nat
    /\ Faults \subseteq FaultKinds
    /\ MaxFaults \in Nat /\ MaxPosts \in Nat /\ MaxKills \in Nat /\ MaxRuns \in Nat

VARIABLES
    \* The queue relation, as committed, and its row locks.
    queue,      \* the commands in it
    lock,       \* who holds the FOR UPDATE lock on each row
    \* The server's side of each session.
    conn,       \* "none", "ok" or "bad"
    listeners,  \* the sessions that LISTEN on queue_notify_channel
    wire,       \* notifications sent to the session that libpq has not read
    updated,    \* temporary table updated_cmd
    sqlRound,   \* setting pg_cmd_queue.runner.reselect_round
    verdict,    \* what the open transaction did to the claimed row
    \* The runner threads.
    pc,         \* the statement a thread is about to execute
    libpq,      \* notifications in libpq's queue, for PQnotifies()
    notifyCmd,  \* notify_cmd
    cur,        \* queue_cmd
    round,      \* reselect_round
    due,        \* whether reselect_next_when has passed
    killPipe,   \* stop requests in kill_pipe_fds
    signalled,  \* the runners whose process received SIGTERM, SIGINT or SIGQUIT
    \* Bounds and history.
    faults, posts,
    runs,       \* how often each command ran since it was queued, or last known
                \* to stay in the queue
    handled,    \* commands that each runner ran in its present reselect round
    seen        \* commands that each runner ran, or found locked by another

dbVars == <<queue, lock>>
sessionVars == <<conn, listeners, wire, updated, sqlRound, verdict>>
threadVars == <<pc, libpq, notifyCmd, cur, round, due, killPipe, signalled>>
boundVars == <<faults, posts>>
historyVars == <<runs, handled, seen>>
vars == <<dbVars, sessionVars, threadVars, boundVars, historyVars>>

Pcs == {"start", "connect", "session", "select", "run", "update", "remember",
        "empty", "commit", "poll", "done", "crashed"}

TypeOK ==
    /\ queue \subseteq Cmds
    /\ lock \in [Cmds -> Runners \cup {Free, Orphan}]
    /\ conn \in [Runners -> {"none", "ok", "bad"}]
    /\ listeners \subseteq Runners
    /\ wire \in [Runners -> Seq(Payloads)]
    /\ updated \in [Runners -> SUBSET Cmds]
    /\ sqlRound \in [Runners -> 0..BigintMax]
    /\ verdict \in [Runners -> {"none", "delete", "keep", "ignore"}]
    /\ pc \in [Runners -> Pcs]
    /\ libpq \in [Runners -> Seq(Payloads)]
    /\ notifyCmd \in [Runners -> Cmds \cup {NoCmd}]
    /\ cur \in [Runners -> Cmds \cup {NoCmd}]
    /\ round \in [Runners -> 0..BigintMax]
    /\ due \in [Runners -> BOOLEAN]
    /\ killPipe \in [Runners -> 0..MaxKills]
    /\ signalled \subseteq Runners
    /\ faults \in 0..MaxFaults
    /\ posts \in 0..MaxPosts
    /\ runs \in [Cmds -> 0..MaxRuns]
    /\ handled \in [Runners -> SUBSET Cmds]
    /\ seen \in [Runners -> SUBSET Cmds]

Init ==
    /\ queue \in SUBSET Cmds
    /\ lock = [c \in Cmds |-> Free]
    /\ conn = [r \in Runners |-> "none"]
    /\ listeners = {}
    /\ wire = [r \in Runners |-> <<>>]
    /\ updated = [r \in Runners |-> {}]
    /\ sqlRound = [r \in Runners |-> 0]
    /\ verdict = [r \in Runners |-> "none"]
    /\ pc = [r \in Runners |-> "start"]
    /\ libpq = [r \in Runners |-> <<>>]
    /\ notifyCmd = [r \in Runners |-> NoCmd]
    /\ cur = [r \in Runners |-> NoCmd]
    /\ round = [r \in Runners |-> 0]
    /\ due = [r \in Runners |-> TRUE]
    /\ killPipe = [r \in Runners |-> 0]
    /\ signalled = {}
    /\ faults = 0
    /\ posts = 0
    /\ runs = [c \in Cmds |-> 0]
    /\ handled = [r \in Runners |-> {}]
    /\ seen = [r \in Runners |-> {}]
-----------------------------------------------------------------------------
(* Helpers *)

Goto(r, from, to) == pc[r] = from /\ pc' = [pc EXCEPT ![r] = to]

\* A fault happens, within the bound on their number.
Fault(kind) ==
    /\ kind \in Faults
    /\ faults < MaxFaults
    /\ faults' = faults + 1

\* Every row lock of r's session passes to `heir`.
PassLocks(r, heir) ==
    lock' = [c \in Cmds |-> IF lock[c] = r THEN heir ELSE lock[c]]

\* The session of r is over for the client.  The server only releases its
\* locks when it finds that out: see ReapOrphan.
LoseSession(r, status) ==
    /\ conn' = [conn EXCEPT ![r] = status]
    /\ listeners' = listeners \ {r}
    /\ wire' = [wire EXCEPT ![r] = <<>>]
    /\ verdict' = [verdict EXCEPT ![r] = "none"]
    /\ PassLocks(r, Orphan)

\* Deviation: the SELECT locks without SKIPping what is LOCKED.
EligibleThoughLocked(r) == queue \ updated[r]

\* cmdqd.select_cmd_from_queue_stmt(): no row that updated_cmd mentions, no
\* row that another transaction has locked.
Eligible(r) == {c \in queue : lock[c] = Free /\ c \notin updated[r]}

Oldest(S) == {c \in S : \A d \in S : QueuedSince[c] <= QueuedSince[d]}

RandomRound(r) == EveryNth # 0 /\ round[r] % EveryNth = 0

\* What select_random_cmd, or else select_oldest_cmd, may return.
Candidates(r) == IF RandomRound(r) THEN Eligible(r) ELSE Oldest(Eligible(r))

\* Deviation: as above, for the SELECT of a notified command.
NotifiedThoughLocked(r) == queue \cap {notifyCmd[r]}

\* The one row select_notify_cmd may return: updated_cmd plays no role.
Notified(r) == {c \in queue : lock[c] = Free /\ c = notifyCmd[r]}

LockedByOthers == {c \in queue : lock[c] # Free}
-----------------------------------------------------------------------------
(* The life of a runner thread, up to its first SELECT *)

\* The thread begins: `_running` is set from here on.
Start(r) ==
    /\ Goto(r, "start", "connect")
    /\ UNCHANGED <<dbVars, sessionVars, libpq, notifyCmd, cur, round, due, killPipe,
                   signalled, boundVars, historyVars>>

\* maintain_connection() connects or resets: a new, empty session.
Connect(r) ==
    /\ r \notin signalled
    /\ Goto(r, "connect", "session")
    /\ conn' = [conn EXCEPT ![r] = "ok"]
    /\ updated' = [updated EXCEPT ![r] = {}]
    /\ sqlRound' = [sqlRound EXCEPT ![r] = 0]
    /\ libpq' = [libpq EXCEPT ![r] = <<>>]
    /\ UNCHANGED <<dbVars, listeners, wire, verdict, notifyCmd, cur, round, due,
                   killPipe, signalled, boundVars, historyVars>>

\* maintain_connection() returns without a connection once the process has been
\* signalled.  The CALL that follows fails on a dead connection, and
\* dereferences a null pointer when there never was one.
GiveUpConnecting(r) ==
    /\ r \in signalled
    /\ Goto(r, "connect", IF conn[r] = "none" THEN "crashed" ELSE "done")
    /\ conn' = [conn EXCEPT ![r] = "none"]
    /\ UNCHANGED <<dbVars, listeners, wire, updated, sqlRound, verdict, libpq, notifyCmd,
                   cur, round, due, killPipe, signalled, boundVars, historyVars>>

\* Deviation: the session never LISTENs.
ListenNever(r) == UNCHANGED listeners

Listen(r) == listeners' = IF HasChannel THEN listeners \cup {r} ELSE listeners

\* cmdqd.runner_session_start(): LISTEN comes before the first SELECT.
SessionStart(r) ==
    /\ conn[r] = "ok"
    /\ Goto(r, "session", "select")
    /\ Listen(r)
    /\ round' = [round EXCEPT ![r] = 0]
    /\ due' = [due EXCEPT ![r] = TRUE]
    /\ notifyCmd' = [notifyCmd EXCEPT ![r] = NoCmd]
    /\ handled' = [handled EXCEPT ![r] = {}]
    /\ UNCHANGED <<dbVars, conn, wire, updated, sqlRound, verdict, libpq, cur, killPipe,
                   signalled, boundVars, runs, seen>>

\* runner_session_start() fails and the thread ends.
SessionStartFails(r) ==
    /\ Goto(r, "session", "done")
    /\ \/ conn[r] = "bad" /\ UNCHANGED faults
       \/ conn[r] = "ok" /\ Fault("session")
    /\ LoseSession(r, "none")
    /\ UNCHANGED <<queue, updated, sqlRound, libpq, notifyCmd, cur, round, due, killPipe,
                   signalled, posts, historyVars>>
-----------------------------------------------------------------------------
(* The (re)select loop *)

\* The SELECT yields row c, locked by the transaction that BEGIN opened.
Claim(r, c) ==
    /\ Goto(r, "select", "run")
    /\ lock' = [lock EXCEPT ![c] = r]
    /\ cur' = [cur EXCEPT ![r] = c]
    /\ UNCHANGED <<queue, sessionVars, libpq, notifyCmd, round, due, killPipe, signalled,
                   boundVars, runs, handled>>

\* select_oldest_cmd or select_random_cmd yields a row.
ClaimNext(r) ==
    /\ conn[r] = "ok" /\ notifyCmd[r] = NoCmd
    /\ \E c \in Candidates(r) :
         /\ Claim(r, c)
         /\ seen' = [seen EXCEPT ![r] = @ \cup LockedByOthers \cup {c}]

\* select_notify_cmd yields the command that the notification named.
ClaimNotified(r) ==
    /\ conn[r] = "ok"
    /\ \E c \in Notified(r) :
         /\ Claim(r, c)
         /\ seen' = [seen EXCEPT ![r] = @ \cup {c}]

\* select_notify_cmd yields no row: the command is gone, or locked.
NotifiedGone(r) ==
    /\ conn[r] = "ok" /\ notifyCmd[r] # NoCmd
    /\ Notified(r) = {}
    /\ Goto(r, "select", "commit")
    /\ seen' = [seen EXCEPT ![r] = @ \cup ({notifyCmd[r]} \cap LockedByOthers)]
    /\ UNCHANGED <<dbVars, sessionVars, libpq, notifyCmd, cur, round, due, killPipe,
                   signalled, boundVars, runs, handled>>

\* The regular SELECT yields no row: postpone the next one.
RoundComplete(r) ==
    /\ conn[r] = "ok" /\ notifyCmd[r] = NoCmd
    /\ Candidates(r) = {}
    /\ Goto(r, "select", "empty")
    /\ due' = [due EXCEPT ![r] = FALSE]
    /\ seen' = [seen EXCEPT ![r] = @ \cup LockedByOthers]
    /\ UNCHANGED <<dbVars, sessionVars, libpq, notifyCmd, cur, round, killPipe, signalled,
                   boundVars, runs, handled>>

\* The SELECT fails on a live connection: log it, ROLLBACK, and on to poll().
SelectFails(r) ==
    /\ conn[r] = "ok"
    /\ Fault("select")
    /\ Goto(r, "select", "poll")
    /\ UNCHANGED <<dbVars, sessionVars, libpq, notifyCmd, cur, round, due, killPipe,
                   signalled, posts, historyVars>>

\* Deviation: the setting is not wrapped around.
RoundUnwrapped(r) == sqlRound[r]

RoundToEnter(r) == IF sqlRound[r] = BigintMax THEN 0 ELSE sqlRound[r]

\* Deviation: updated_cmd outlives the round.
KeepUpdated(r) == UNCHANGED updated

TruncateUpdated(r) == updated' = [updated EXCEPT ![r] = {}]

\* enter_reselect_round() empties updated_cmd, advances the setting and returns
\* the value it had before.  std::stoi() throws on what no int can hold, which
\* ends the process.
EnterRound(r) ==
    /\ conn[r] = "ok"
    /\ LET n == RoundToEnter(r)
           fits == n <= IntMax
       IN  /\ Goto(r, "empty", IF fits THEN "commit" ELSE "crashed")
           /\ TruncateUpdated(r)
           /\ sqlRound' = [sqlRound EXCEPT ![r] = n + 1]
           /\ round' = IF fits THEN [round EXCEPT ![r] = n] ELSE round
           /\ IF fits THEN UNCHANGED <<lock, conn, listeners, wire, verdict>>
                      ELSE LoseSession(r, "none")
    /\ handled' = [handled EXCEPT ![r] = {}]
    /\ UNCHANGED <<queue, libpq, notifyCmd, cur, due, killPipe, signalled, boundVars,
                   runs, seen>>

\* enter_reselect_round() fails and the thread ends.
EnterRoundFails(r) ==
    /\ Goto(r, "empty", "done")
    /\ \/ conn[r] = "bad" /\ UNCHANGED faults
       \/ conn[r] = "ok" /\ Fault("round")
    /\ LoseSession(r, "none")
    /\ UNCHANGED <<queue, updated, sqlRound, libpq, notifyCmd, cur, round, due, killPipe,
                   signalled, posts, historyVars>>

\* run_cmd(): takes as long as the command does, whatever becomes of the
\* connection meanwhile.
RunCmd(r) ==
    /\ Goto(r, "run", "update")
    /\ runs' = [runs EXCEPT ![cur[r]] = IF @ < MaxRuns THEN @ + 1 ELSE @]
    /\ handled' = [handled EXCEPT ![r] = @ \cup {cur[r]}]
    /\ UNCHANGED <<dbVars, sessionVars, libpq, notifyCmd, cur, round, due, killPipe,
                   signalled, boundVars, seen>>

\* update_cmd succeeds: a trigger deletes the row, lets it be, or (by
\* queue_cmd__ignore_update) suppresses the UPDATE without an error.
UpdateCmd(r) ==
    /\ conn[r] = "ok"
    /\ Goto(r, "update", "commit")
    /\ \E e \in Effects \ {"raise"} : verdict' = [verdict EXCEPT ![r] = e]
    /\ UNCHANGED <<dbVars, conn, listeners, wire, updated, sqlRound, libpq, notifyCmd,
                   cur, round, due, killPipe, signalled, boundVars, historyVars>>

\* update_cmd fails, by a constraint or by a trigger such as
\* nix_queue_cmd__require_exit_success: ROLLBACK.
UpdateFails(r) ==
    /\ conn[r] = "ok" /\ "raise" \in Effects
    /\ Goto(r, "update", "remember")
    /\ PassLocks(r, Free)
    /\ runs' = [runs EXCEPT ![cur[r]] = 0]
    /\ UNCHANGED <<queue, sessionVars, libpq, notifyCmd, cur, round, due, killPipe,
                   signalled, boundVars, handled, seen>>

\* Deviation: the key of the failed command is not remembered.
RememberNothing(r) == UNCHANGED updated

Remember(r) == updated' = [updated EXCEPT ![r] = @ \cup {cur[r]}]

\* remember_failed_update_for_this_reselect_round(): an INSERT of its own,
\* outside any transaction; it fails harmlessly on a key that is there already.
RememberFailed(r) ==
    /\ conn[r] = "ok"
    /\ Goto(r, "remember", "commit")
    /\ Remember(r)
    /\ UNCHANGED <<dbVars, conn, listeners, wire, sqlRound, verdict, libpq, notifyCmd,
                   cur, round, due, killPipe, signalled, boundVars, historyVars>>

\* Deviation: a failed UPDATE does not keep the row in the queue.
SettleFailed(r) ==
    /\ queue' = IF verdict[r] \in {"delete", "none"} THEN queue \ {cur[r]} ELSE queue
    /\ UNCHANGED <<updated, runs>>

\* What COMMIT makes of the open transaction.  updated_cmd is part of it, and
\* mentions the rows that the UPDATE returned.
Settle(r) ==
    /\ queue' = IF verdict[r] = "delete" THEN queue \ {cur[r]} ELSE queue
    /\ updated' = IF verdict[r] \in {"delete", "keep"}
                  THEN [updated EXCEPT ![r] = @ \cup {cur[r]}] ELSE updated
    /\ runs' = IF verdict[r] \in {"keep", "ignore"}
               THEN [runs EXCEPT ![cur[r]] = 0] ELSE runs

Commit(r) ==
    /\ conn[r] = "ok"
    /\ Goto(r, "commit", "poll")
    /\ Settle(r)
    /\ PassLocks(r, Free)
    /\ verdict' = [verdict EXCEPT ![r] = "none"]
    /\ cur' = [cur EXCEPT ![r] = NoCmd]
    /\ UNCHANGED <<conn, listeners, wire, sqlRound, libpq, notifyCmd, round, due,
                   killPipe, signalled, boundVars, handled, seen>>

\* COMMIT fails, as by a deferred constraint; its result is not looked at.
CommitFails(r) ==
    /\ conn[r] = "ok" /\ verdict[r] # "none"
    /\ Fault("commit")
    /\ Goto(r, "commit", "poll")
    /\ PassLocks(r, Free)
    /\ verdict' = [verdict EXCEPT ![r] = "none"]
    /\ cur' = [cur EXCEPT ![r] = NoCmd]
    /\ UNCHANGED <<queue, conn, listeners, wire, updated, sqlRound, libpq, notifyCmd,
                   round, due, killPipe, signalled, posts, historyVars>>

\* The server commits, but the connection dies before it says so.
CommitUnacknowledged(r) ==
    /\ conn[r] = "ok"
    /\ Fault("conn")
    /\ Goto(r, "commit", "poll")
    /\ Settle(r)
    /\ conn' = [conn EXCEPT ![r] = "bad"]
    /\ listeners' = listeners \ {r}
    /\ wire' = [wire EXCEPT ![r] = <<>>]
    /\ verdict' = [verdict EXCEPT ![r] = "none"]
    /\ PassLocks(r, Free)
    /\ cur' = [cur EXCEPT ![r] = NoCmd]
    /\ UNCHANGED <<sqlRound, libpq, notifyCmd, round, due, killPipe, signalled, posts,
                   handled, seen>>

\* Every statement fails on a dead connection: PQTRANS_UNKNOWN after a select
\* or an update, a failing PQconsumeInput() in the poll() loop.
BackToConnect(r) ==
    /\ conn[r] = "bad"
    /\ pc[r] \in {"select", "update", "remember", "commit", "poll"}
    /\ pc' = [pc EXCEPT ![r] = "connect"]
    /\ cur' = [cur EXCEPT ![r] = NoCmd]
    /\ UNCHANGED <<dbVars, sessionVars, libpq, notifyCmd, round, due, killPipe, signalled,
                   boundVars, historyVars>>
-----------------------------------------------------------------------------
(* The poll() loop *)

\* While it waits for the result of BEGIN or COMMIT, libpq also reads
\* notifications that the server sent between transactions.
InputArrives(r) ==
    /\ conn[r] = "ok" /\ pc[r] \in {"select", "commit"} /\ wire[r] # <<>>
    /\ libpq' = [libpq EXCEPT ![r] = Append(@, Head(wire[r]))]
    /\ wire' = [wire EXCEPT ![r] = Tail(@)]
    /\ UNCHANGED <<dbVars, conn, listeners, updated, sqlRound, verdict, pc, notifyCmd, cur,
                   round, due, killPipe, signalled, boundVars, historyVars>>

\* Select the command of a notification if it is for this queue, or else go and
\* look for the next one.
HandleNotification(r) ==
    /\ pc[r] = "poll"
    /\ libpq' = [libpq EXCEPT ![r] = Tail(@)]
    /\ LET p == Head(libpq[r])
       IN  /\ notifyCmd' = [notifyCmd EXCEPT ![r] = IF p \in Cmds THEN p ELSE NoCmd]
           /\ pc' = IF p \in Cmds THEN [pc EXCEPT ![r] = "select"] ELSE pc
    /\ UNCHANGED <<dbVars, sessionVars, cur, round, due, killPipe, signalled, boundVars,
                   historyVars>>

\* Deviation: PQnotifies() is only tried when poll() finds the socket readable.
TakeNotificationOnInput(r) ==
    libpq[r] # <<>> /\ wire[r] # <<>> /\ HandleNotification(r)

\* PQnotifies() yields a notification, before any poll().
TakeNotification(r) == libpq[r] # <<>> /\ HandleNotification(r)

Reselect(r) ==
    /\ Goto(r, "poll", "select")
    /\ notifyCmd' = [notifyCmd EXCEPT ![r] = NoCmd]
    /\ UNCHANGED <<dbVars, sessionVars, libpq, cur, round, due, killPipe, signalled,
                   boundVars, historyVars>>

\* Deviation: the thread only looks at its kill pipe when it has time left.
PollTimeoutFirst(r) == libpq[r] = <<>> /\ due[r] /\ Reselect(r)

\* poll() returns 0: time for the next (re)select.
PollTimeout(r) ==
    libpq[r] = <<>> /\ due[r] /\ killPipe[r] = 0 /\ Reselect(r)

\* poll() finds the connection readable.
ConsumeInput(r) ==
    /\ pc[r] = "poll" /\ conn[r] = "ok" /\ libpq[r] = <<>> /\ wire[r] # <<>>
    /\ libpq' = [libpq EXCEPT ![r] = wire[r]]
    /\ wire' = [wire EXCEPT ![r] = <<>>]
    /\ notifyCmd' = [notifyCmd EXCEPT ![r] = NoCmd]
    /\ UNCHANGED <<dbVars, conn, listeners, updated, sqlRound, verdict, pc, cur, round,
                   due, killPipe, signalled, boundVars, historyVars>>

\* poll() finds the kill pipe readable and the thread ends.  A second request in
\* the pipe is read past the end of `sig_num`, with whatever effect.
DrainKillPipe(r) ==
    /\ libpq[r] = <<>> /\ killPipe[r] > 0
    /\ \E end \in IF killPipe[r] = 1 THEN {"done"} ELSE {"done", "crashed"} :
         Goto(r, "poll", end)
    /\ killPipe' = [killPipe EXCEPT ![r] = 0]
    /\ LoseSession(r, "none")
    /\ UNCHANGED <<queue, updated, sqlRound, libpq, notifyCmd, cur, round, due, signalled,
                   boundVars, historyVars>>
-----------------------------------------------------------------------------
(* The environment: clients, the manager thread, the clock and the faults *)

\* A client commits a new command; its trigger notifies who is listening.
Enqueue(c) ==
    /\ c \notin queue /\ posts < MaxPosts
    /\ posts' = posts + 1
    /\ queue' = queue \cup {c}
    /\ wire' = [r \in Runners |-> IF r \in listeners THEN Append(wire[r], c) ELSE wire[r]]
    /\ runs' = [runs EXCEPT ![c] = 0]
    /\ seen' = [r \in Runners |-> seen[r] \ {c}]
    /\ UNCHANGED <<lock, conn, listeners, updated, sqlRound, verdict, threadVars, faults,
                   handled>>

\* A client takes back a command that no transaction has locked.
Withdraw(c) ==
    /\ c \in queue /\ lock[c] = Free
    /\ queue' = queue \ {c}
    /\ UNCHANGED <<lock, sessionVars, threadVars, boundVars, historyVars>>

\* Somebody else notifies on the same channel.
Stray(p) ==
    /\ posts < MaxPosts
    /\ posts' = posts + 1
    /\ wire' = [r \in Runners |-> IF r \in listeners THEN Append(wire[r], p) ELSE wire[r]]
    /\ UNCHANGED <<dbVars, conn, listeners, updated, sqlRound, verdict, threadVars, faults,
                   historyVars>>

\* queue_reselect_interval_msec passes.
Tick(r) ==
    /\ ~due[r]
    /\ due' = [due EXCEPT ![r] = TRUE]
    /\ UNCHANGED <<dbVars, sessionVars, pc, libpq, notifyCmd, cur, round, killPipe,
                   signalled, boundVars, historyVars>>

\* kill() by the manager thread, which does nothing unless `_running`.
Kill(r) ==
    /\ pc[r] \notin {"start", "done", "crashed"} /\ killPipe[r] < MaxKills
    /\ killPipe' = [killPipe EXCEPT ![r] = @ + 1]
    /\ UNCHANGED <<dbVars, sessionVars, pc, libpq, notifyCmd, cur, round, due, signalled,
                   boundVars, historyVars>>

\* The process receives SIGTERM, SIGINT or SIGQUIT.
Signal(r) ==
    /\ MaxKills > 0 /\ r \notin signalled
    /\ signalled' = signalled \cup {r}
    /\ UNCHANGED <<dbVars, sessionVars, pc, libpq, notifyCmd, cur, round, due, killPipe,
                   boundVars, historyVars>>

\* The connection of r dies; neither end need have noticed.
ConnLoss(r) ==
    /\ conn[r] = "ok"
    /\ Fault("conn")
    /\ LoseSession(r, "bad")
    /\ UNCHANGED <<queue, updated, sqlRound, threadVars, posts, historyVars>>

\* The server notices that the client of a session is gone.
ReapOrphan(c) ==
    /\ lock[c] = Orphan
    /\ lock' = [lock EXCEPT ![c] = Free]
    /\ UNCHANGED <<queue, sessionVars, threadVars, boundVars, historyVars>>

\* The daemon of r dies at whatever point it is.
Crash(r) ==
    /\ pc[r] \notin {"done", "crashed"}
    /\ Fault("crash")
    /\ pc' = [pc EXCEPT ![r] = "crashed"]
    /\ LoseSession(r, "none")
    /\ UNCHANGED <<queue, updated, sqlRound, libpq, notifyCmd, cur, round, due, killPipe,
                   signalled, posts, historyVars>>

\* The daemon of r is started again.
Restart(r) ==
    /\ pc[r] \in {"done", "crashed"}
    /\ pc' = [pc EXCEPT ![r] = "start"]
    /\ libpq' = [libpq EXCEPT ![r] = <<>>]
    /\ notifyCmd' = [notifyCmd EXCEPT ![r] = NoCmd]
    /\ cur' = [cur EXCEPT ![r] = NoCmd]
    /\ killPipe' = [killPipe EXCEPT ![r] = 0]
    /\ signalled' = signalled \ {r}
    /\ UNCHANGED <<dbVars, sessionVars, round, due, boundVars, historyVars>>
-----------------------------------------------------------------------------
Select(r) == ClaimNext(r) \/ ClaimNotified(r) \/ NotifiedGone(r) \/ RoundComplete(r)

Poll(r) ==
    TakeNotification(r) \/ PollTimeout(r) \/ ConsumeInput(r) \/ DrainKillPipe(r)

\* The steps of the thread, also those that an earlier failure leads to.
Step(r) ==
    \/ Start(r) \/ Connect(r) \/ GiveUpConnecting(r)
    \/ SessionStart(r) \/ SessionStartFails(r)
    \/ Select(r) \/ EnterRound(r) \/ EnterRoundFails(r) \/ RunCmd(r)
    \/ UpdateCmd(r) \/ UpdateFails(r) \/ RememberFailed(r) \/ Commit(r)
    \/ BackToConnect(r) \/ Poll(r)

Failure(r) ==
    \/ SelectFails(r) \/ CommitFails(r) \/ CommitUnacknowledged(r)
    \/ ConnLoss(r) \/ Crash(r)

Client == \/ \E c \in Cmds : Enqueue(c) \/ Withdraw(c) \/ ReapOrphan(c)
          \/ \E p \in {Other, Malformed} : Stray(p)

Next == \/ \E r \in Runners : \/ Step(r) \/ Failure(r) \/ InputArrives(r)
                              \/ Tick(r) \/ Kill(r) \/ Signal(r) \/ Restart(r)
        \/ Client

Spec == Init /\ [][Next]_vars
=============================================================================
