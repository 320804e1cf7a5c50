--------------------------- MODULE RunSqlCmdQueue ---------------------------
(***************************************************************************)
(* The procedure run_sql_cmd_queue(), next to the runners of the daemon.   *)
(* It runs all its commands in the transaction of its CALL: it may be told *)
(* to commit between them, but PostgreSQL refuses that to a procedure that *)
(* has a SET clause, as this one has.  A command is run in a block with an *)
(* exception handler, which is a subtransaction.                           *)
(*                                                                         *)
(* lock_rows_for_update$ is true, as by default; sleeping, the role and    *)
(* the statement timeout are left out.                                     *)
(***************************************************************************)
EXTENDS SqlQueueCmd

CONSTANT Calls  \* how the procedure may be called; see CallAssumption

\* commit_between_iterations$, iterate_until_empty$ and max_iterations$, which is
\* 0 here when it is NULL.
ASSUME CallAssumption ==
    Calls \subseteq [commit : BOOLEAN, untilEmpty : BOOLEAN, max : Nat]

VARIABLES
    call,  \* how each caller called it
    iter   \* _i, the iterations done

callVars == <<call, iter>>
vars == <<text, trigger, relVars, tx, pc, cur, status, error, failed, alive, updated,
          boundVars, callVars>>

CallTypeOK ==
    /\ TypeOK
    /\ call \in [Callers -> Calls]
    /\ \A p \in Callers : iter[p] \in 0..call[p].max

CallInit ==
    /\ Init
    /\ call \in [Callers -> Calls]
    /\ iter = [p \in Callers |-> 0]
-----------------------------------------------------------------------------
CallProcedure(p) ==
    /\ Goto(p, "call", "select")
    /\ tx' = [tx EXCEPT ![p].state = "open"]
    /\ UNCHANGED <<text, trigger, relVars, cur, status, error, failed, alive, updated,
                   boundVars, callVars>>

Select(p) ==
    /\ Goto(p, "select", "execute")
    /\ \E c \in Oldest(Eligible(p)) : ClaimRow(p, c)
    /\ UNCHANGED <<tx, error, updated, callVars>>

\* No row: the loop ends, or goes through the motions, which fail in their block
\* and UPDATE nothing.
SelectNone(p) ==
    /\ pc[p] = "select" /\ Eligible(p) = {}
    /\ pc' = Set(pc, p, IF call[p].untilEmpty THEN "return" ELSE "iterate")
    /\ error' = IF call[p].untilEmpty THEN error ELSE Set(error, p, TRUE)
    /\ UNCHANGED <<text, trigger, relVars, tx, cur, status, failed, alive, updated,
                   boundVars, callVars>>

\* FOR ... IN EXECUTE opens a cursor, which a text that returns no rows and one
\* with a COMMIT do not allow.  A notice is no problem.  _cmd_sql_fatal_error is
\* filled in here, and never reset.
ExecuteInBlock(p) ==
    /\ Goto(p, "execute", "update")
    /\ LET c == cur[p]
           ok == text[c] \in {"rows", "notice", "deferred"}
       IN  /\ status' = Set(status, p, IF ok THEN "ok" ELSE "fatal")
           /\ error' = IF ok THEN error ELSE Set(error, p, TRUE)
           /\ tx' = IF ok THEN [tx EXCEPT ![p].work = One(@, c),
                                          ![p].deferred = @ \/ text[c] = "deferred"]
                    ELSE tx
    /\ UNCHANGED <<text, trigger, relVars, cur, failed, alive, updated, boundVars, callVars>>

Ends(p) == pc' = Set(pc, p, "ended") /\ cur' = Set(cur, p, NoCmd)

\* The UPDATE, outside of the block: when it fails, so does the procedure.
UpdateInCall(p) ==
    /\ pc[p] = "update"
    /\ IF trigger[cur[p]] = "raise"
       THEN Rollback(p) /\ Ends(p)
       ELSE /\ Record(p, cur[p])
            /\ pc' = Set(pc, p, "iterate") /\ cur' = Set(cur, p, NoCmd)
            /\ UNCHANGED relVars
    /\ UNCHANGED <<text, trigger, status, error, failed, alive, updated, boundVars, callVars>>

\* COMMIT AND CHAIN, if asked for, is an invalid transaction termination.
Iterate(p) ==
    /\ pc[p] = "iterate" /\ ~call[p].commit
    /\ LET max == call[p].max
           last == max # 0 /\ iter[p] + 1 = max
       IN  /\ iter' = Set(iter, p, IF max = 0 THEN 0 ELSE iter[p] + 1)
           /\ pc' = Set(pc, p, IF last THEN "return" ELSE "select")
    /\ UNCHANGED <<text, trigger, relVars, tx, cur, status, error, failed, alive, updated, boundVars,
                   call>>

CommitFails(p) ==
    /\ pc[p] = "iterate" /\ call[p].commit
    /\ Rollback(p) /\ Ends(p)
    /\ UNCHANGED <<text, trigger, status, error, failed, alive, updated, boundVars, callVars>>

\* The transaction of the CALL ends.
Return(p) ==
    /\ pc[p] = "return"
    /\ IF tx[p].deferred THEN Rollback(p) ELSE Commit(p)
    /\ Ends(p)
    /\ UNCHANGED <<text, trigger, status, error, failed, alive, updated, boundVars, callVars>>

\* A timeout, a lost connection, or the client's ROLLBACK: no handler for that.
Cancel(p) ==
    /\ Fault("cancel") /\ pc[p] \notin {"call", "ended"}
    /\ Rollback(p) /\ Ends(p)
    /\ UNCHANGED <<text, trigger, status, error, failed, alive, updated, tries, callVars>>
-----------------------------------------------------------------------------
Caller(p) ==
    \/ CallProcedure(p) \/ Select(p) \/ SelectNone(p) \/ ExecuteInBlock(p)
    \/ UpdateInCall(p) \/ Iterate(p) \/ CommitFails(p) \/ Return(p)

Next ==
    \/ \E d \in Daemons : (Runner(d) \/ LoseConn(d) \/ Crash(d)) /\ UNCHANGED callVars
    \/ \E p \in Callers : Caller(p) \/ Cancel(p)

Spec == CallInit /\ [][Next]_vars

\* Every session goes on, and the daemon is started again when it died.
FairSpec ==
    /\ Spec
    /\ \A d \in Daemons : WF_vars(Runner(d) /\ UNCHANGED callVars)
    /\ \A p \in Callers : WF_vars(Select(p) \/ SelectNone(p) \/ ExecuteInBlock(p)
                                  \/ UpdateInCall(p) \/ Iterate(p) \/ CommitFails(p)
                                  \/ Return(p))
-----------------------------------------------------------------------------
(* What makes running a queue of SQL commands correct *)

\* A command is part of the transaction that records its result, whoever runs it
\* and whatever fails: its effects and its results are committed together, so
\* that each result of success stands for effects, and a command that failed, by
\* its constraints or its row's triggers too, leaves none behind.
EffectsMatchResults == \A c \in Cmds : text[c] # "commit" => effects[c] = results[c]

\* What is recorded of a command tells of that command: a failure comes with its
\* error, and a success of a runner with none.  The procedure has no such manners: it
\* records the error of an earlier command of the CALL with every success after it.
ErrorIsOwn ==
    \A s \in Sessions : pc[s] = "update" =>
        /\ status[s] = "fatal" => error[s]
        /\ s \in Daemons /\ error[s] => status[s] = "fatal"

\* Two sessions never repeat each other: a command whose row goes with its result
\* has its effects once, also when its runner crashes and it is run again.
EffectOnce ==
    \A c \in Cmds : trigger[c] = "delete" /\ text[c] # "commit" => effects[c] <= 1

\* From the SELECT of a command to the end of the transaction its row stays locked,
\* even if the command fails halfway, which is what the savepoint is for.
ClaimHeld ==
    \A s \in Sessions :
        (alive[s] /\ cur[s] # NoCmd /\ pc[s] # "end"
           /\ text[cur[s]] # "commit")
          => lock[cur[s]] = s /\ tx[s].state # "none"

\* The daemon starts every command of a queue and records how it went, though a
\* command fails, the daemon crashes or somebody else runs commands too; unless a
\* command of the queue kills the daemon, or a trigger refuses results.
Settled ==
    (\A c \in Cmds : text[c] \notin {"notice", "commit"} /\ trigger[c] = "delete")
      => <>(queue = {})
-----------------------------------------------------------------------------
(* The contract *)

TQ == INSTANCE TransactionalQueue WITH
        rogue <- {c \in Cmds : text[c] = "commit"},
        claim <- lock,
        Most <- MaxRuns

\* Runners and callers together keep the promise of TransactionalQueue: the row
\* locks are the claims, COMMIT and ROLLBACK settle them or give them up.
CommitsWhole == TQ!Spec
=============================================================================
