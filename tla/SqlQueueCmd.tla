---------------------------- MODULE SqlQueueCmd ----------------------------
(***************************************************************************)
(* The commands of a SQL queue, and the sessions that run them within a    *)
(* transaction that also locks their rows: runners of the daemon, by       *)
(* SqlQueueCmd::run_cmd() (pg_cmdqd/sqlqueuecmd.cpp) inside the loop of    *)
(* CmdQueueRunner, and callers of the procedure run_sql_cmd_queue()        *)
(* (module RunSqlCmdQueue).                                                *)
(*                                                                         *)
(* The loop of the runner is QueueRunner's; here it is reduced to what the *)
(* transaction goes through.  Notices of the server, and the way a session *)
(* that lost its client keeps its locks for a while, are left out, but for *)
(* a notice during run_cmd(): see Execute.                                 *)
(***************************************************************************)
EXTENDS Naturals, FiniteSets

CONSTANTS
    Cmds,       \* the commands, numbered in the order of cmd_queued_since
    Daemons,    \* the sessions of the daemon's runners of this queue
    Callers,    \* the sessions that CALL run_sql_cmd_queue()
    Texts,      \* what the texts of the commands do; see Kinds
    Triggers,   \* what the UPDATE triggers do: "delete", "keep" or "raise"
    Faults,     \* what may fail: "conn", "crash" or "cancel"
    MaxFaults,  \* how often
    MaxRuns,    \* bound on how often a command is claimed
    Free        \* a row that nobody has locked

\* A text that returns rows, one that returns none, one that fails, one that
\* violates a deferred constraint, one that raises a notice, one with a COMMIT.
Kinds == {"rows", "norows", "error", "deferred", "notice", "commit"}

Sessions == Daemons \cup Callers
NoCmd == 0

ASSUME SqlAssumption ==
    /\ Cmds \subseteq Nat \ {0} /\ IsFiniteSet(Cmds)
    /\ Daemons \cap Callers = {} /\ Free \notin Sessions
    /\ Texts \subseteq Kinds /\ Triggers \subseteq {"delete", "keep", "raise"}
    /\ Faults \subseteq {"conn", "crash", "cancel"}
    /\ MaxFaults \in Nat /\ MaxRuns \in Nat

VARIABLES
    text, trigger, \* of each command
    queue, lock,   \* the relation as committed, and its row locks
    effects,       \* how often the effects of each command were committed
    results,       \* how often a result was committed for it that is no failure
    tx,            \* the open transaction of each session
    pc, cur,       \* what the session does next, and its command
    status,        \* cmd_sql_result_status: "none", "ok" or "fatal"
    error,         \* whether there is a cmd_sql_fatal_error
    failed,        \* _sql_cmd_itself_has_failed
    alive,         \* whether the client still has its connection
    updated,       \* temporary table updated_cmd, of a runner
    tries, faults  \* bounds

relVars == <<queue, lock, effects, results>>
boundVars == <<tries, faults>>

None == [c \in Cmds |-> 0]
\* `work` is what the transaction did so far, `good` the results it recorded,
\* `gone` the rows it deleted.
NoTx == [state |-> "none", deferred |-> FALSE, work |-> None, good |-> None, gone |-> {}]

TypeOK ==
    /\ text \in [Cmds -> Texts] /\ trigger \in [Cmds -> Triggers]
    /\ queue \subseteq Cmds
    /\ lock \in [Cmds -> Sessions \cup {Free}]
    /\ effects \in [Cmds -> 0..MaxRuns] /\ results \in [Cmds -> 0..MaxRuns]
    /\ tx \in [Sessions -> [state : {"none", "open", "aborted"}, deferred : BOOLEAN,
                            work : [Cmds -> 0..MaxRuns], good : [Cmds -> 0..MaxRuns],
                            gone : SUBSET Cmds]]
    /\ pc \in [Sessions -> {"select", "savepoint", "execute", "constraints", "finish",
                            "update", "end", "down", "call", "iterate", "return", "ended"}]
    /\ cur \in [Sessions -> Cmds \cup {NoCmd}]
    /\ status \in [Sessions -> {"none", "ok", "fatal"}] /\ error \in [Sessions -> BOOLEAN]
    /\ failed \in [Sessions -> BOOLEAN] /\ alive \in [Sessions -> BOOLEAN]
    /\ updated \in [Daemons -> SUBSET Cmds]
    /\ tries \in [Cmds -> 0..MaxRuns] /\ faults \in 0..MaxFaults

Init ==
    /\ text \in [Cmds -> Texts] /\ trigger \in [Cmds -> Triggers]
    /\ queue = Cmds /\ lock = [c \in Cmds |-> Free]
    /\ effects = None /\ results = None
    /\ tx = [s \in Sessions |-> NoTx]
    /\ pc = [s \in Sessions |-> IF s \in Daemons THEN "select" ELSE "call"]
    /\ cur = [s \in Sessions |-> NoCmd]
    /\ status = [s \in Sessions |-> "none"] /\ error = [s \in Sessions |-> FALSE]
    /\ failed = [s \in Sessions |-> FALSE] /\ alive = [s \in Sessions |-> TRUE]
    /\ updated = [d \in Daemons |-> {}]
    /\ tries = None /\ faults = 0
-----------------------------------------------------------------------------
(* Transactions *)

Goto(s, from, to) == pc[s] = from /\ pc' = [pc EXCEPT ![s] = to]
Set(f, s, v) == [f EXCEPT ![s] = v]
One(f, c) == [f EXCEPT ![c] = @ + 1]
Plus(f, g) == [c \in Cmds |-> f[c] + g[c]]
Release(s) == lock' = [c \in Cmds |-> IF lock[c] = s THEN Free ELSE lock[c]]

Rollback(s) ==
    /\ tx' = Set(tx, s, NoTx)
    /\ Release(s)
    /\ UNCHANGED <<queue, effects, results>>

\* Deviation: the transaction that comes after still holds what this one did.
CommitAndKeep(s) ==
    /\ queue' = queue \ tx[s].gone
    /\ effects' = Plus(effects, tx[s].work) /\ results' = Plus(results, tx[s].good)
    /\ tx' = [tx EXCEPT ![s].state = "none"]
    /\ Release(s)

Commit(s) ==
    /\ queue' = queue \ tx[s].gone
    /\ effects' = Plus(effects, tx[s].work) /\ results' = Plus(results, tx[s].good)
    /\ tx' = Set(tx, s, NoTx)
    /\ Release(s)

\* Deviation: the SELECT does not SKIP what is LOCKED.
EligibleThoughLocked(s) == {c \in queue \ tx[s].gone : tries[c] < MaxRuns}

\* Rows that another session has locked are SKIPped, its own are not.
Eligible(s) == {c \in queue \ tx[s].gone : lock[c] \in {Free, s} /\ tries[c] < MaxRuns}

Oldest(S) == {c \in S : \A d \in S : c <= d}

\* The row is SELECTed FOR UPDATE.
ClaimRow(s, c) ==
    /\ cur' = Set(cur, s, c)
    /\ lock' = Set(lock, c, s)
    /\ tries' = One(tries, c)
    /\ status' = Set(status, s, "none") /\ failed' = Set(failed, s, FALSE)
    /\ UNCHANGED <<text, trigger, queue, effects, results, alive, faults>>
-----------------------------------------------------------------------------
(* A runner of the daemon *)

\* BEGIN, and the SELECT of the oldest command.
Claim(d) ==
    /\ Goto(d, "select", "savepoint") /\ alive[d]
    /\ \E c \in Oldest(Eligible(d) \ updated[d]) : ClaimRow(d, c)
    /\ tx' = [tx EXCEPT ![d].state = "open"] /\ error' = Set(error, d, FALSE)
    /\ UNCHANGED updated

\* No row: cmdqd.enter_reselect_round().
EnterRound(d) ==
    /\ pc[d] = "select" /\ alive[d]
    /\ Eligible(d) \ updated[d] = {} /\ updated[d] # {}
    /\ updated' = Set(updated, d, {})
    /\ UNCHANGED <<text, trigger, relVars, tx, pc, cur, status, error, failed, alive, boundVars>>

\* run_cmd() begins.  A statement on a lost connection is a fatal error; this
\* one, of the bookkeeping, skips the rest of run_cmd().
Savepoint(d) ==
    /\ pc[d] = "savepoint"
    /\ IF alive[d]
       THEN pc' = Set(pc, d, "execute") /\ UNCHANGED <<status, error>>
       ELSE /\ pc' = Set(pc, d, "update")
            /\ status' = Set(status, d, "fatal") /\ error' = Set(error, d, TRUE)
    /\ UNCHANGED <<text, trigger, relVars, tx, cur, failed, alive, updated, boundVars>>

\* The command, or one of the statements around it, fails for run_cmd().
Fails(d) ==
    /\ status' = Set(status, d, "fatal") /\ error' = Set(error, d, TRUE)
    /\ failed' = Set(failed, d, TRUE)
    /\ pc' = Set(pc, d, "finish")

Succeeds(d) ==
    /\ status' = Set(status, d, "ok") /\ UNCHANGED <<error, failed>>
    /\ pc' = Set(pc, d, "constraints")

\* The process dies of a signal; the server rolls back.
Dies(d) ==
    /\ pc' = Set(pc, d, "down") /\ alive' = Set(alive, d, FALSE)
    /\ cur' = Set(cur, d, NoCmd)
    /\ Rollback(d)
    /\ UNCHANGED <<text, trigger, status, error, failed, updated, tries>>

\* The command itself succeeds or fails.
Execute(d) ==
    /\ pc[d] = "execute"
    /\ LET c == cur[d] IN
       IF ~alive[d] THEN Fails(d) /\ UNCHANGED <<relVars, tx>>
       ELSE \/ /\ text[c] \in {"rows", "norows"} /\ Succeeds(d)
               /\ tx' = [tx EXCEPT ![d].work = One(@, c)]
               /\ UNCHANGED relVars
            \/ /\ text[c] = "error" /\ Fails(d)
               /\ tx' = [tx EXCEPT ![d].state = "aborted"]
               /\ UNCHANGED relVars
            \/ /\ text[c] = "deferred" /\ Succeeds(d)
               /\ tx' = [tx EXCEPT ![d].work = One(@, c), ![d].deferred = TRUE]
               /\ UNCHANGED relVars
            \/ /\ text[c] = "commit" /\ Succeeds(d)
               /\ effects' = One(effects, c)
               /\ tx' = Set(tx, d, NoTx)
               /\ Release(d) /\ UNCHANGED <<queue, results>>
    /\ UNCHANGED <<text, trigger, cur, alive, updated, boundVars>>

\* The notice receiver was set with nullptr for its object: a notice of the
\* command kills the process, and so does the warning that SET CONSTRAINTS gives
\* when the command has ended the transaction.
NoticeKills(d) ==
    /\ alive[d]
    /\ \/ pc[d] = "execute" /\ text[cur[d]] = "notice"
       \/ pc[d] = "constraints" /\ tx[d].state = "none"
    /\ Dies(d)
    /\ UNCHANGED faults

\* Deviation: what the constraints say does not become the status.
SetConstraintsUnheard(d) ==
    /\ Goto(d, "constraints", "finish") /\ (alive[d] => tx[d].state = "open")
    /\ failed' = Set(failed, d, ~alive[d] \/ tx[d].deferred)
    /\ error' = Set(error, d, ~alive[d] \/ tx[d].deferred)
    /\ tx' = IF alive[d] /\ tx[d].deferred THEN [tx EXCEPT ![d].state = "aborted"] ELSE tx
    /\ UNCHANGED <<text, trigger, relVars, cur, status, alive, updated, boundVars>>

\* SET CONSTRAINTS ALL IMMEDIATE, after a command that succeeded.
SetConstraints(d) ==
    /\ pc[d] = "constraints" /\ (alive[d] => tx[d].state = "open")
    /\ IF ~alive[d] \/ tx[d].deferred
       THEN Fails(d)
       ELSE pc' = Set(pc, d, "finish") /\ UNCHANGED <<status, error, failed>>
    /\ tx' = IF alive[d] /\ tx[d].deferred THEN [tx EXCEPT ![d].state = "aborted"] ELSE tx
    /\ UNCHANGED <<text, trigger, relVars, cur, alive, updated, boundVars>>

\* Deviation: the transaction is rolled back, not just to the savepoint.
FinishByRollback(d) ==
    /\ Goto(d, "finish", "update")
    /\ IF alive[d] /\ failed[d]
       THEN Rollback(d)
       ELSE UNCHANGED <<relVars, tx>>
    /\ UNCHANGED <<text, trigger, cur, status, error, failed, alive, updated, boundVars>>

\* ROLLBACK TO SAVEPOINT, or RELEASE SAVEPOINT; what fails is only logged.
Finish(d) ==
    /\ Goto(d, "finish", "update")
    /\ tx' = IF alive[d] /\ failed[d] THEN Set(tx, d, [NoTx EXCEPT !.state = "open"]) ELSE tx
    /\ UNCHANGED <<text, trigger, relVars, cur, status, error, failed, alive, updated, boundVars>>

\* The result is recorded, as far as the triggers allow.
Record(s, c) ==
    tx' = [tx EXCEPT ![s].good = IF status[s] = "ok" THEN One(@, c) ELSE @,
                     ![s].gone = IF trigger[c] = "delete" THEN @ \cup {c} ELSE @]

\* update_cmd; when it fails, ROLLBACK TRANSACTION and
\* cmdqd.remember_failed_update_for_this_reselect_round().
Update(d) ==
    /\ Goto(d, "update", "end")
    /\ LET c == cur[d] IN
       IF ~alive[d] THEN UNCHANGED <<relVars, tx, updated>>
       ELSE /\ updated' = Set(updated, d, updated[d] \cup {c})
            /\ IF trigger[c] = "raise" THEN Rollback(d)
               ELSE Record(d, c) /\ UNCHANGED relVars
    /\ UNCHANGED <<text, trigger, cur, status, error, failed, alive, boundVars>>

\* Deviation: the lost connection is not noticed.
EndOnly(d) ==
    /\ Goto(d, "end", "select") /\ cur' = Set(cur, d, NoCmd)
    /\ Commit(d)
    /\ UNCHANGED <<text, trigger, status, error, failed, alive, updated, boundVars>>

\* COMMIT, or a new connection when the transaction status is unknown.
End(d) ==
    /\ Goto(d, "end", "select") /\ cur' = Set(cur, d, NoCmd)
    /\ Commit(d)
    /\ alive' = Set(alive, d, TRUE)
    /\ updated' = IF alive[d] THEN updated ELSE Set(updated, d, {})
    /\ UNCHANGED <<text, trigger, status, error, failed, boundVars>>

\* Somebody starts the daemon again.
Restart(d) ==
    /\ Goto(d, "down", "select")
    /\ alive' = Set(alive, d, TRUE) /\ updated' = Set(updated, d, {})
    /\ UNCHANGED <<text, trigger, relVars, tx, cur, status, error, failed, boundVars>>
-----------------------------------------------------------------------------
(* Faults *)

Fault(kind) == kind \in Faults /\ faults < MaxFaults /\ faults' = faults + 1

\* The connection goes down in the middle of a transaction.
LoseConn(d) ==
    /\ Fault("conn") /\ alive[d] /\ pc[d] \notin {"select", "down"}
    /\ alive' = Set(alive, d, FALSE)
    /\ Rollback(d)
    /\ UNCHANGED <<text, trigger, pc, cur, status, error, failed, updated, tries>>

Crash(d) == Fault("crash") /\ pc[d] # "down" /\ Dies(d)
-----------------------------------------------------------------------------
Runner(d) ==
    \/ Claim(d) \/ EnterRound(d) \/ Savepoint(d) \/ Execute(d) \/ NoticeKills(d)
    \/ SetConstraints(d) \/ Finish(d) \/ Update(d) \/ End(d) \/ Restart(d)
=============================================================================
