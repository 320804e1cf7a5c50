----------------------------- MODULE WithCmdqd -----------------------------
(***************************************************************************)
(* with_cmdqd, pg_cmdqd/with_cmdqd.cpp: it starts the daemon, sleeps until *)
(* the daemon says by SIGUSR1 that it listens, runs psql, and stops the    *)
(* daemon by SIGTERM; its exit code tells how psql and the daemon fared.   *)
(*                                                                         *)
(* Of the daemon this module has what its parent can tell: whether it      *)
(* handles signals yet, whether it listens, how it ends, and that its last *)
(* act is to let its Logger write what the daemon's threads have logged.   *)
(* Of psql, that it ends as it likes.                                      *)
(***************************************************************************)
EXTENDS Logger

CONSTANTS
    MaxSignals,            \* how often somebody signals with_cmdqd
    Faults                 \* what may fail: "fork", "exec", "crash"

ASSUME WrapperAssumption ==
    /\ Threads = {"main", "runner"}
    /\ MaxSignals \in Nat /\ Faults \subseteq {"fork", "exec", "crash"}

VARIABLES
    pc,          \* what the main thread is about to do
    cmdqd_known, \* cmdqd_pid > 0
    cmdqd_is_ready,
    expired,     \* sleep() returned as its time was over
    pending,     \* signals that wait to be handled
    code,        \* the argument of clean_exit()
    wstatus,     \* what its waitpid() stored, if anything
    exit,        \* the exit code, once there is one
    signals,     \* signals sent so far
    daemon,      \* its phase
    ended,       \* how the daemon ended: "none", "0", "error" or "signal"
    told,        \* whether the daemon was told to stop
    psql,        \* its phase
    psqlCode     \* its exit code, or 128 + the signal it died of

mainVars == <<pc, cmdqd_known, cmdqd_is_ready, expired, pending, code, wstatus, exit, signals>>
daemonVars == <<daemon, ended, told>>
psqlVars == <<psql, psqlCode>>
vars == <<mainVars, daemonVars, psqlVars, logVars>>

NoCode == 255
SignalNumber == [INT |-> 2, USR1 |-> 10, TERM |-> 15]
\* psql's own exit codes: 0, an error in its script, and that it was not found.
PsqlCodes == {0, 3, 127}
Aborted == 128 + 6
Killed == 128 + 9
\* What its process may end with, what clean_exit() may be called with, and what
\* with_cmdqd may end with.
PsqlEndCodes == PsqlCodes \cup {7, 130, Killed, Aborted, NoCode}
CleanCodes == PsqlEndCodes \cup {6, 138, 143}
ExitCodes == CleanCodes \cup {5, 15}

WrapperTypeOK ==
    /\ pc \in {"fork", "assign", "assigned", "sleep", "check", "fork_psql", "wait_psql",
               "kill", "wait", "reaped", "judge", "ended"}
    /\ cmdqd_known \in BOOLEAN /\ cmdqd_is_ready \in BOOLEAN
    /\ expired \in BOOLEAN /\ told \in BOOLEAN
    /\ pending \subseteq {"USR1", "CHLD", "TERM", "INT"}
    /\ code \in CleanCodes /\ exit \in ExitCodes /\ psqlCode \in PsqlEndCodes
    /\ {wstatus, ended} \subseteq {"none", "0", "error", "signal"}
    /\ signals \in 0..MaxSignals
    /\ daemon \in {"none", "forked", "booting", "connecting", "ready", "exiting", "zombie",
                   "reaped"}
    /\ psql \in {"none", "forked", "running", "zombie", "reaped"}

TypeOK == LogTypeOK /\ WrapperTypeOK

Init ==
    /\ pc = "fork" /\ cmdqd_known = FALSE /\ cmdqd_is_ready = FALSE /\ expired = FALSE
    /\ pending = {} /\ code = NoCode /\ wstatus = "none" /\ exit = NoCode /\ signals = 0
    /\ daemon = "none" /\ ended = "none" /\ told = FALSE
    /\ psql = "none" /\ psqlCode = NoCode
    /\ LogInit

Alive == daemon \in {"forked", "booting", "connecting", "ready", "exiting"}
Goto(from, to) == pc = from /\ pc' = to
Exit(c) == pc' = "ended" /\ exit' = c
CleanExit(c) == pc' = "kill" /\ code' = c
-----------------------------------------------------------------------------
(* The main thread of with_cmdqd, its signal handlers installed *)

Fork ==
    /\ Goto("fork", "assign")
    /\ daemon' = "forked"
    /\ UNCHANGED <<cmdqd_known, cmdqd_is_ready, expired, pending, code, wstatus, exit, signals,
                   ended, told, psqlVars, logVars>>

ForkFails ==
    /\ "fork" \in Faults
    /\ pc = "fork" /\ Exit(5)
    /\ UNCHANGED <<cmdqd_known, cmdqd_is_ready, expired, pending, code, wstatus, signals,
                   daemonVars, psqlVars, logVars>>

\* cmdqd_pid gets the return value of fork().
Assign ==
    /\ Goto("assign", "assigned")
    /\ cmdqd_known' = TRUE
    /\ UNCHANGED <<cmdqd_is_ready, expired, pending, code, wstatus, exit, signals, daemonVars,
                   psqlVars, logVars>>

\* sleep(): a signal that was handled before does not end it.
Sleep ==
    /\ Goto("assigned", "sleep")
    /\ UNCHANGED <<cmdqd_known, cmdqd_is_ready, expired, pending, code, wstatus, exit, signals,
                   daemonVars, psqlVars, logVars>>

\* CMDQD_SIGUSR1_TIMEOUT_S pass.
SleepEnds ==
    /\ Goto("sleep", "check")
    /\ expired' = TRUE
    /\ UNCHANGED <<cmdqd_known, cmdqd_is_ready, pending, code, wstatus, exit, signals,
                   daemonVars, psqlVars, logVars>>

CheckReady ==
    /\ pc = "check"
    /\ IF cmdqd_is_ready THEN pc' = "fork_psql" /\ UNCHANGED code ELSE CleanExit(6)
    /\ UNCHANGED <<cmdqd_known, cmdqd_is_ready, expired, pending, wstatus, exit, signals,
                   daemonVars, psqlVars, logVars>>

ForkPsql ==
    /\ Goto("fork_psql", "wait_psql")
    /\ psql' = "forked"
    /\ UNCHANGED <<cmdqd_known, cmdqd_is_ready, expired, pending, code, wstatus, exit, signals,
                   daemonVars, psqlCode, logVars>>

\* exit(), not clean_exit().
ForkPsqlFails ==
    /\ "fork" \in Faults
    /\ pc = "fork_psql" /\ Exit(15)
    /\ UNCHANGED <<cmdqd_known, cmdqd_is_ready, expired, pending, code, wstatus, signals,
                   daemonVars, psqlVars, logVars>>

\* Deviation: the exit code of psql is passed on at once.
ExitWithPsql ==
    /\ pc = "wait_psql" /\ psql = "zombie"
    /\ psql' = "reaped"
    /\ Exit(psqlCode)
    /\ UNCHANGED <<cmdqd_known, cmdqd_is_ready, expired, pending, code, wstatus, signals,
                   daemonVars, psqlCode, logVars>>

WaitPsql ==
    /\ pc = "wait_psql" /\ psql = "zombie"
    /\ psql' = "reaped"
    /\ CleanExit(psqlCode)
    /\ UNCHANGED <<cmdqd_known, cmdqd_is_ready, expired, pending, wstatus, exit, signals,
                   daemonVars, psqlCode, logVars>>
-----------------------------------------------------------------------------
(* clean_exit(), which a signal handler may interrupt at any point, to start *)
(* it over with another code and a wstatus of its own                        *)

\* Deviation: the daemon is waited for, but not told to stop.
WaitOnly ==
    /\ pc = "kill"
    /\ IF cmdqd_known THEN pc' = "wait" /\ UNCHANGED <<told, exit>>
                      ELSE Exit(code) /\ UNCHANGED told
    /\ wstatus' = "none"
    /\ UNCHANGED <<cmdqd_known, cmdqd_is_ready, expired, pending, code, signals, daemon, ended,
                   psqlVars, logVars>>

\* SIGTERM to the daemon, if there is one.
Kill ==
    /\ pc = "kill"
    /\ IF cmdqd_known THEN pc' = "wait" /\ told' = TRUE /\ UNCHANGED exit
                      ELSE Exit(code) /\ UNCHANGED told
    /\ wstatus' = "none"
    /\ UNCHANGED <<cmdqd_known, cmdqd_is_ready, expired, pending, code, signals, daemon, ended,
                   psqlVars, logVars>>

\* waitpid() reaps the daemon; if that was done before, it fails by ECHILD and
\* leaves wstatus as it is.
WaitDaemon ==
    /\ daemon \in {"zombie", "reaped"}
    /\ Goto("wait", "reaped")
    /\ daemon' = "reaped"
    /\ wstatus' = IF daemon = "zombie" THEN ended ELSE "none"
    /\ UNCHANGED <<cmdqd_known, cmdqd_is_ready, expired, pending, code, exit, signals, ended, told,
                   psqlVars, logVars>>

ForgetDaemon ==
    /\ Goto("reaped", "judge")
    /\ cmdqd_known' = FALSE
    /\ UNCHANGED <<cmdqd_is_ready, expired, pending, code, wstatus, exit, signals, daemonVars,
                   psqlVars, logVars>>

\* Deviation: only a daemon that died of a signal has failed.
JudgeSignalOnly ==
    /\ pc = "judge"
    /\ Exit(IF wstatus = "signal" THEN 7 ELSE code)
    /\ UNCHANGED <<cmdqd_known, cmdqd_is_ready, expired, pending, code, wstatus, signals,
                   daemonVars, psqlVars, logVars>>

\* EXIT_CMDQD_FAILURE when the daemon failed.  A wstatus that was never stored
\* may read as anything, also as what the assert() refuses.
Judge ==
    /\ pc = "judge"
    /\ \E c \in CASE wstatus = "0" -> {code}
                  [] wstatus \in {"error", "signal"} -> {7}
                  [] wstatus = "none" -> {7, code, Aborted} : Exit(c)
    /\ UNCHANGED <<cmdqd_known, cmdqd_is_ready, expired, pending, code, wstatus, signals,
                   daemonVars, psqlVars, logVars>>
-----------------------------------------------------------------------------
(* Its signal handler *)

\* SIGCHLD means nothing but the end of a sleep().
HandleSigchld ==
    /\ "CHLD" \in pending /\ pc # "ended"
    /\ pending' = pending \ {"CHLD"}
    /\ pc' = IF pc = "sleep" THEN "check" ELSE pc
    /\ UNCHANGED <<cmdqd_known, cmdqd_is_ready, expired, code, wstatus, exit, signals, daemonVars,
                   psqlVars, logVars>>

\* Deviation: the handler only interrupts the sleep.
HandleUnready ==
    /\ "USR1" \in pending /\ pc # "ended" /\ cmdqd_known
    /\ pending' = pending \ {"USR1"}
    /\ pc' = IF pc = "sleep" THEN "check" ELSE pc
    /\ UNCHANGED <<cmdqd_known, cmdqd_is_ready, expired, code, wstatus, exit, signals, daemonVars,
                   psqlVars, logVars>>

\* SIGUSR1 of a daemon whose pid is known.
HandleReady ==
    /\ "USR1" \in pending /\ pc # "ended" /\ cmdqd_known
    /\ pending' = pending \ {"USR1"}
    /\ cmdqd_is_ready' = TRUE
    /\ pc' = IF pc = "sleep" THEN "check" ELSE pc
    /\ UNCHANGED <<cmdqd_known, expired, code, wstatus, exit, signals, daemonVars, psqlVars,
                   logVars>>

\* Deviation: the exit code is the number of the signal.
HandleOtherPlainly ==
    \E s \in pending \ {"CHLD"} :
      /\ pc # "ended" /\ ~(s = "USR1" /\ cmdqd_known)
      /\ pending' = pending \ {s}
      /\ CleanExit(SignalNumber[s])
      /\ UNCHANGED <<cmdqd_known, cmdqd_is_ready, expired, wstatus, exit, signals, daemonVars,
                     psqlVars, logVars>>

\* Any other signal at any other time: clean_exit(), from wherever.
HandleOther ==
    \E s \in pending \ {"CHLD"} :
      /\ pc # "ended" /\ ~(s = "USR1" /\ cmdqd_known)
      /\ pending' = pending \ {s}
      /\ CleanExit(128 + SignalNumber[s])
      /\ UNCHANGED <<cmdqd_known, cmdqd_is_ready, expired, wstatus, exit, signals, daemonVars,
                     psqlVars, logVars>>
-----------------------------------------------------------------------------
(* The daemon *)

\* A child ends: SIGCHLD, while there is a parent to receive it.
NotifyParent(sig) == pending' = IF pc = "ended" THEN pending ELSE pending \cup {sig}

DaemonEnds(how) ==
    /\ daemon' = "zombie" /\ ended' = how
    /\ NotifyParent("CHLD")
    /\ UNCHANGED <<pc, cmdqd_known, cmdqd_is_ready, expired, code, wstatus, exit, signals, told,
                   psqlVars, logVars>>

DaemonMoves(from, to) ==
    /\ daemon = from /\ daemon' = to
    /\ UNCHANGED <<mainVars, ended, told, psqlVars>>

Exec == DaemonMoves("forked", "booting") /\ ~told /\ UNCHANGED logVars

ExecFails == "exec" \in Faults /\ daemon = "forked" /\ DaemonEnds("error")

\* A signal finds the handlers of with_cmdqd in place before execvp(), and none
\* before install_signal_handlers().
DiesEarly ==
    /\ told
    /\ \/ daemon = "forked" /\ DaemonEnds("error")
       \/ daemon = "booting" /\ DaemonEnds("signal")

InstallHandlers == DaemonMoves("booting", "connecting") /\ ~told /\ UNCHANGED logVars

\* The manager listens for changes of the queue list, and tells its parent.
BecomeReady ==
    /\ daemon = "connecting" /\ daemon' = "ready"
    /\ NotifyParent("USR1")
    /\ UNCHANGED <<pc, cmdqd_known, cmdqd_is_ready, expired, code, wstatus, exit, signals, ended,
                   told, psqlVars, logVars>>

DaemonLogs(t) ==
    /\ daemon \in (IF t = "main" THEN {"booting", "connecting", "ready"}
                               ELSE {"connecting", "ready"})
    /\ Log(t)
    /\ UNCHANGED <<mainVars, daemonVars, psqlVars>>

LoggerWorks ==
    /\ daemon \in {"booting", "connecting", "ready", "exiting"}
    /\ Writer \/ \E t \in Threads : SemPost(t)
    /\ UNCHANGED <<mainVars, daemonVars, psqlVars>>

\* Told to stop, main() joins its threads and returns; exit() destroys the Logger.
StopDaemon ==
    /\ told /\ daemon \in {"connecting", "ready"} /\ posting = {}
    /\ daemon' = "exiting"
    /\ Quit("main")
    /\ UNCHANGED <<mainVars, ended, told, psqlVars>>

EndDaemon ==
    /\ daemon = "exiting" /\ writer = "ended" /\ posting = {}
    /\ DaemonEnds("0")

Crash ==
    /\ "crash" \in Faults
    /\ daemon \in {"booting", "connecting", "ready", "exiting"}
    /\ \E how \in {"error", "signal"} : DaemonEnds(how)
-----------------------------------------------------------------------------
(* psql, and whoever signals with_cmdqd *)

PsqlEnds(c) ==
    /\ psql' = "zombie" /\ psqlCode' = c
    /\ NotifyParent("CHLD")
    /\ UNCHANGED <<pc, cmdqd_known, cmdqd_is_ready, expired, code, wstatus, exit, signals,
                   daemonVars, logVars>>

ExecPsql ==
    /\ psql = "forked" /\ psql' = "running"
    /\ UNCHANGED <<mainVars, daemonVars, psqlCode, logVars>>

ExecPsqlFails == "exec" \in Faults /\ psql = "forked" /\ PsqlEnds(127)

EndPsql == psql = "running" /\ \E c \in {0, 3, Killed} : PsqlEnds(c)

\* kill, from another process.
Terminate ==
    /\ signals < MaxSignals /\ pc # "ended"
    /\ signals' = signals + 1
    /\ pending' = pending \cup {"TERM"}
    /\ UNCHANGED <<pc, cmdqd_known, cmdqd_is_ready, expired, code, wstatus, exit, daemonVars,
                   psqlVars, logVars>>

\* Ctrl-C: SIGINT to the process group.  In psql's child before execvp() the
\* handler of with_cmdqd runs, and waits for a daemon that is not its child.
Interrupt ==
    /\ signals < MaxSignals /\ pc # "ended"
    /\ signals' = signals + 1
    /\ pending' = pending \cup {"INT"}
    /\ told' = (told \/ Alive)
    /\ IF psql = "forked"
       THEN psql' = "zombie" /\ psqlCode' \in {7, 130, Aborted}
       ELSE UNCHANGED psqlVars
    /\ UNCHANGED <<pc, cmdqd_known, cmdqd_is_ready, expired, code, wstatus, exit, daemon, ended,
                   logVars>>
-----------------------------------------------------------------------------
Main == \/ Fork \/ ForkFails \/ Assign \/ Sleep \/ SleepEnds \/ CheckReady
        \/ ForkPsql \/ ForkPsqlFails \/ WaitPsql
        \/ Kill \/ WaitDaemon \/ ForgetDaemon \/ Judge

Handler == HandleSigchld \/ HandleReady \/ HandleOther

Daemon == \/ Exec \/ ExecFails \/ DiesEarly \/ InstallHandlers \/ BecomeReady
          \/ StopDaemon \/ EndDaemon \/ LoggerWorks
          \/ \E t \in Threads : DaemonLogs(t)

Psql == ExecPsql \/ ExecPsqlFails \/ EndPsql

Next == Main \/ Handler \/ Daemon \/ Crash \/ Psql \/ Terminate \/ Interrupt

Spec == Init /\ [][Next]_vars

\* Processes and threads are scheduled, time passes, and signals are delivered.
\* A daemon that is told to stop stops; nothing makes it become ready.
FairSpec ==
    /\ Spec
    /\ WF_vars(Main) /\ WF_vars(Handler)
    /\ WF_vars(Exec \/ InstallHandlers) /\ WF_vars(DiesEarly)
    /\ WF_vars(StopDaemon) /\ WF_vars(LoggerWorks) /\ WF_vars(EndDaemon)
    /\ WF_vars(ExecPsql)
=============================================================================
