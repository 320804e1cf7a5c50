-------------------------- MODULE WithCmdqdProofs --------------------------
(* The daemon that with_cmdqd runs uses its Logger as Logger allows, whatever *)
(* the signals, crashes and failures, so that its promises hold there too.    *)
EXTENDS WithCmdqdProperties, LoggerProofs

(* Every step of the launcher is a step of its logger, or leaves the logger alone. *)
LEMMA StepsOfLogger ==
    [Next]_vars => [LogNext]_logVars
<1> SUFFICES ASSUME [Next]_vars PROVE LogNext \/ UNCHANGED logVars
  OBVIOUS
<1>1. CASE Main
  BY <1>1 DEF Main, Fork, ForkFails, Assign, Sleep, SleepEnds, CheckReady, ForkPsql,
              ForkPsqlFails, WaitPsql, Kill, WaitDaemon, ForgetDaemon, Judge
<1>2. CASE Handler
  BY <1>2 DEF Handler, HandleSigchld, HandleReady, HandleOther
<1>3. CASE Daemon
  <2>1. CASE Exec \/ InstallHandlers \/ BecomeReady
    BY <2>1 DEF Exec, InstallHandlers, BecomeReady
  <2>2. CASE ExecFails \/ DiesEarly \/ EndDaemon
    BY <2>2 DEF ExecFails, DiesEarly, EndDaemon, DaemonEnds
  <2>3. CASE StopDaemon
    BY <2>3, WrapperAssumption DEF StopDaemon, LogNext
  <2>4. CASE LoggerWorks
    BY <2>4 DEF LoggerWorks, LogNext
  <2>5. ASSUME NEW t \in Threads, DaemonLogs(t) PROVE LogNext
    BY <2>5 DEF DaemonLogs, LogNext
  <2>6. QED
    BY <1>3, <2>1, <2>2, <2>3, <2>4, <2>5 DEF Daemon
<1>4. CASE Crash
  BY <1>4 DEF Crash, DaemonEnds
<1>5. CASE Psql
  BY <1>5 DEF Psql, ExecPsql, ExecPsqlFails, EndPsql, PsqlEnds
<1>6. CASE Terminate \/ Interrupt
  BY <1>6 DEF Terminate, Interrupt
<1>7. CASE UNCHANGED vars
  BY <1>7 DEF vars
<1>8. QED
  BY <1>1, <1>2, <1>3, <1>4, <1>5, <1>6, <1>7 DEF Next

\* The launcher and its daemon implement the specification of the Logger.
THEOREM ImplementsLogger == Spec => LogSpec
<1>1. Init => LogInit
  BY DEF Init
<1>2. QED
  BY <1>1, StepsOfLogger, PTL DEF Spec, LogSpec

\* Also in the daemon under with_cmdqd, the writer of the log misses nothing and
\* keeps the order of the lines.
THEOREM DaemonLogIsTrue == Spec => [](NoLostWakeup /\ NothingLost)
  BY ImplementsLogger, WriterWakes, LinesInOrder, PTL

-----------------------------------------------------------------------------
USE DEF Goto, Exit, CleanExit, mainVars, daemonVars, psqlVars

\* Which exit codes are among which.
LEMMA Codes ==
    /\ PsqlEndCodes \subseteq CleanCodes /\ CleanCodes \subseteq ExitCodes
    /\ {0, 3, 127, 7, 130, Killed, Aborted, NoCode} \subseteq PsqlEndCodes
    /\ {6, 130, 138, 143} \subseteq CleanCodes
    /\ {5, 15} \subseteq ExitCodes
  BY DEF PsqlCodes, PsqlEndCodes, CleanCodes, ExitCodes

\* A signal that means the end: clean_exit() with 128 + its number.
LEMMA OtherSignal ==
    ASSUME WrapperTypeOK, HandleOther
    PROVE  /\ pc # "ended" /\ pc' = "kill" /\ code' \in {130, 138, 143}
           /\ pending' \subseteq pending
           /\ UNCHANGED <<cmdqd_known, cmdqd_is_ready, expired, wstatus, exit, signals,
                          daemonVars, psqlVars>>
<1>1. PICK s \in pending \ {"CHLD"} :
        pending' = pending \ {s} /\ code' = 128 + SignalNumber[s]
  BY DEF HandleOther
<1>2. s \in {"USR1", "TERM", "INT"}
  BY <1>1 DEF WrapperTypeOK
<1>3. code' \in {130, 138, 143}
  BY <1>1, <1>2 DEF SignalNumber
<1>. QED
  BY <1>1, <1>3 DEF HandleOther

\* A step keeps the types: the exit codes are among those that with_cmdqd documents
\* and passes on.
LEMMA WrapperTypeStep == WrapperTypeOK /\ [Next]_vars => WrapperTypeOK'
<1> SUFFICES ASSUME WrapperTypeOK, [Next]_vars PROVE WrapperTypeOK'
  OBVIOUS
<1> USE Codes, WrapperAssumption DEF WrapperTypeOK
<1>1. CASE Fork
  BY <1>1 DEF Fork
<1>2. CASE ForkFails
  BY <1>2 DEF ForkFails
<1>3. CASE Assign
  BY <1>3 DEF Assign
<1>4. CASE Sleep
  BY <1>4 DEF Sleep
<1>5. CASE SleepEnds
  BY <1>5 DEF SleepEnds
<1>6. CASE CheckReady
  BY <1>6 DEF CheckReady
<1>7. CASE ForkPsql
  BY <1>7 DEF ForkPsql
<1>8. CASE ForkPsqlFails
  BY <1>8 DEF ForkPsqlFails
<1>9. CASE WaitPsql
  BY <1>9 DEF WaitPsql
<1>10. CASE Kill
  BY <1>10 DEF Kill
<1>11. CASE WaitDaemon
  BY <1>11 DEF WaitDaemon
<1>12. CASE ForgetDaemon
  BY <1>12 DEF ForgetDaemon
<1>13. CASE Judge
  BY <1>13 DEF Judge
<1>14. CASE HandleSigchld
  BY <1>14 DEF HandleSigchld
<1>15. CASE HandleReady
  BY <1>15 DEF HandleReady
<1>16. CASE HandleOther
  <2>1. /\ pc' = "kill" /\ code' \in {130, 138, 143}
        /\ pending' \subseteq pending
        /\ UNCHANGED <<cmdqd_known, cmdqd_is_ready, expired, wstatus, exit, signals,
                       daemonVars, psqlVars>>
    BY <1>16, OtherSignal
  <2>. QED
    BY <2>1
<1>17. CASE Exec \/ InstallHandlers
  <2>1. /\ daemon' \in {"booting", "connecting"}
        /\ UNCHANGED <<mainVars, ended, told, psqlVars>>
    BY <1>17 DEF Exec, InstallHandlers, DaemonMoves
  <2>. QED
    BY <2>1
<1>18. ASSUME NEW how \in {"0", "error", "signal"}, DaemonEnds(how) PROVE WrapperTypeOK'
  <2>1. /\ daemon' = "zombie" /\ ended' \in {"0", "error", "signal"}
        /\ UNCHANGED <<pc, cmdqd_known, cmdqd_is_ready, expired, code, wstatus, exit, signals,
                       told, psqlVars>>
    BY <1>18 DEF DaemonEnds
  <2>2. pending' \subseteq {"USR1", "CHLD", "TERM", "INT"}
    BY <1>18 DEF DaemonEnds, NotifyParent
  <2>. QED
    BY <2>1, <2>2
<1>19. CASE ExecFails \/ DiesEarly
  BY <1>18, <1>19 DEF ExecFails, DiesEarly
<1>20. CASE BecomeReady
  BY <1>20 DEF BecomeReady, NotifyParent
<1>21. CASE StopDaemon
  BY <1>21 DEF StopDaemon, Quit
<1>22. CASE EndDaemon
  BY <1>18, <1>22 DEF EndDaemon
<1>23. CASE LoggerWorks
  BY <1>23 DEF LoggerWorks
<1>24. ASSUME NEW t \in Threads, DaemonLogs(t) PROVE WrapperTypeOK'
  BY <1>24 DEF DaemonLogs
<1>25. CASE Crash
  BY <1>18, <1>25 DEF Crash
<1>26. CASE ExecPsql
  BY <1>26 DEF ExecPsql
<1>27. ASSUME NEW c \in PsqlEndCodes, PsqlEnds(c) PROVE WrapperTypeOK'
  <2>1. /\ psql' = "zombie" /\ psqlCode' \in PsqlEndCodes
        /\ UNCHANGED <<pc, cmdqd_known, cmdqd_is_ready, expired, code, wstatus, exit, signals,
                       daemonVars>>
    BY <1>27 DEF PsqlEnds
  <2>2. pending' \subseteq {"USR1", "CHLD", "TERM", "INT"}
    BY <1>27 DEF PsqlEnds, NotifyParent
  <2>. QED
    BY <2>1, <2>2
<1>28. CASE ExecPsqlFails \/ EndPsql
  BY <1>27, <1>28 DEF ExecPsqlFails, EndPsql, PsqlEndCodes
<1>29. CASE Terminate
  BY <1>29 DEF Terminate
<1>30. CASE Interrupt
  BY <1>30 DEF Interrupt
<1>31. CASE UNCHANGED vars
  BY <1>31 DEF vars
<1>. QED
  BY <1>1, <1>2, <1>3, <1>4, <1>5, <1>6, <1>7, <1>8, <1>9, <1>10, <1>11,
     <1>12, <1>13, <1>14, <1>15, <1>16, <1>17, <1>18, <1>19, <1>20, <1>21, <1>22,
     <1>23, <1>24, <1>25, <1>26, <1>27, <1>28, <1>29, <1>30, <1>31
     DEF Next, Main, Handler, Daemon, Psql

\* The types of launcher and Logger are kept: no exit code but the ones of with_cmdqd
\* and psql, and 128 + the number of a signal.
THEOREM WrapperTypeCorrect == Spec => []TypeOK
<1>1. Init => LogTypeOK /\ WrapperTypeOK
  <2>1. Init => WrapperTypeOK
    <3>1. Init => {code, psqlCode} \subseteq PsqlEndCodes /\ exit \in ExitCodes
      BY Codes DEF Init
    <3>2. Init => signals \in 0..MaxSignals /\ pending \subseteq {"USR1", "CHLD", "TERM", "INT"}
      BY WrapperAssumption DEF Init
    <3>3. /\ Init => {wstatus, ended} \subseteq {"none", "0", "error", "signal"}
          /\ PsqlEndCodes \subseteq CleanCodes
      BY Codes DEF Init
    <3>. QED
      BY <3>1, <3>2, <3>3 DEF Init, WrapperTypeOK
  <2>. QED
    BY <2>1, LogTypes DEF Init
<1>2. LogTypeOK /\ WrapperTypeOK => TypeOK
  BY DEF TypeOK
<1>. QED
  BY <1>1, <1>2, LogTypeStep, StepsOfLogger, WrapperTypeStep, PTL DEF Spec

\* How far the launcher can be: what it knows of the daemon and of psql at each
\* point, also after a signal has made it start clean_exit() over.
LaunchInv ==
    /\ pc \in {"fork", "assign"} => ~cmdqd_known /\ ~cmdqd_is_ready
    /\ pc = "fork" => daemon = "none"
    /\ pc \in {"assigned", "sleep", "check", "fork_psql", "wait_psql", "wait", "reaped"}
         => cmdqd_known
    /\ pc \in {"fork", "assign", "assigned", "sleep", "check", "fork_psql"} => psql = "none"
    /\ pc \notin {"kill", "wait", "reaped", "judge", "ended"} => code = NoCode
    /\ pc # "ended" => exit = NoCode
    /\ pc \in {"reaped", "judge"} => daemon = "reaped" /\ wstatus \in {"none", ended}
    /\ daemon = "reaped" =>
         pc \in {"reaped", "judge", "ended"} \/ (pc \in {"kill", "wait"} /\ code > 128)

(* Every step keeps what holds of the launching of the daemon. *)
LEMMA LaunchStep == WrapperTypeOK /\ LaunchInv /\ [Next]_vars => LaunchInv'
<1> SUFFICES ASSUME WrapperTypeOK, LaunchInv, [Next]_vars PROVE LaunchInv'
  OBVIOUS
<1> USE DEF LaunchInv, SignalNumber, NoCode
<1>1. CASE Fork
  BY <1>1 DEF Fork
<1>2. CASE ForkFails
  BY <1>2 DEF ForkFails
<1>3. CASE Assign
  BY <1>3 DEF Assign
<1>4. CASE Sleep
  BY <1>4 DEF Sleep
<1>5. CASE SleepEnds
  BY <1>5 DEF SleepEnds
<1>6. CASE CheckReady
  BY <1>6 DEF CheckReady
<1>7. CASE ForkPsql
  BY <1>7 DEF ForkPsql
<1>8. CASE ForkPsqlFails
  BY <1>8 DEF ForkPsqlFails
<1>9. CASE WaitPsql
  BY <1>9 DEF WaitPsql
<1>10. CASE Kill
  BY <1>10 DEF Kill
<1>11. CASE WaitDaemon
  BY <1>11 DEF WaitDaemon
<1>12. CASE ForgetDaemon
  BY <1>12 DEF ForgetDaemon
<1>13. CASE Judge
  BY <1>13 DEF Judge
<1>14. CASE HandleSigchld
  BY <1>14 DEF HandleSigchld
<1>15. CASE HandleReady
  BY <1>15 DEF HandleReady
<1>16. CASE HandleOther
  <2>1. pc # "ended" /\ pc' = "kill" /\ code' > 128 /\ pending' \subseteq pending
    BY <1>16, OtherSignal
  <2>2. UNCHANGED <<cmdqd_known, cmdqd_is_ready, expired, wstatus, exit, daemonVars, psqlVars>>
    BY <1>16, OtherSignal
  <2>. QED
    BY <2>1, <2>2
<1>17. CASE Exec \/ InstallHandlers
  BY <1>17 DEF Exec, InstallHandlers, DaemonMoves
<1>18. CASE ExecFails
  BY <1>18 DEF ExecFails, DaemonEnds, NotifyParent
<1>19. CASE DiesEarly
  <2>1. daemon \in {"forked", "booting"} /\ daemon' = "zombie" /\ ended' \in {"error", "signal"}
    BY <1>19 DEF DiesEarly, DaemonEnds
  <2>2. UNCHANGED <<pc, cmdqd_known, cmdqd_is_ready, code, wstatus, exit, psqlVars>>
    BY <1>19 DEF DiesEarly, DaemonEnds
  <2>. QED
    BY <2>1, <2>2
<1>20. CASE BecomeReady
  BY <1>20 DEF BecomeReady, NotifyParent
<1>21. CASE StopDaemon
  BY <1>21 DEF StopDaemon, Quit
<1>22. CASE EndDaemon
  BY <1>22 DEF EndDaemon, DaemonEnds, NotifyParent
<1>23. CASE LoggerWorks
  BY <1>23 DEF LoggerWorks
<1>24. ASSUME NEW t \in Threads, DaemonLogs(t) PROVE LaunchInv'
  BY <1>24 DEF DaemonLogs
<1>25. CASE Crash
  BY <1>25 DEF Crash, DaemonEnds, NotifyParent
<1>26. CASE ExecPsql
  BY <1>26 DEF ExecPsql
<1>27. CASE ExecPsqlFails
  BY <1>27 DEF ExecPsqlFails, PsqlEnds, NotifyParent
<1>28. CASE EndPsql
  BY <1>28 DEF EndPsql, PsqlEnds, NotifyParent
<1>29. CASE Terminate
  BY <1>29 DEF Terminate
<1>30. CASE Interrupt
  BY <1>30 DEF Interrupt
<1>31. CASE UNCHANGED vars
  BY <1>31 DEF vars
<1>. QED
  BY <1>1, <1>2, <1>3, <1>4, <1>5, <1>6, <1>7, <1>8, <1>9, <1>10, <1>11,
     <1>12, <1>13, <1>14, <1>15, <1>16, <1>17, <1>18, <1>19, <1>20, <1>21, <1>22,
     <1>23, <1>24, <1>25, <1>26, <1>27, <1>28, <1>29, <1>30, <1>31
     DEF Next, Main, Handler, Daemon, Psql

\* The daemon only ends well with its log written; nobody logs once its Logger
\* was told to quit.
LogEndInv ==
    /\ ended # "none" <=> daemon \in {"zombie", "reaped"}
    /\ daemon \in {"none", "forked", "booting", "connecting", "ready"} => running
    /\ writer = "ended" => ~running /\ (lines = <<>> \/ graceCounter = GraceLines)
    /\ ended = "0" => writer = "ended"

(* Every step keeps what holds of the log when the daemon has ended. *)
LEMMA LogEndStep == LogTypeOK /\ LaunchInv /\ LogEndInv /\ [Next]_vars => LogEndInv'
<1> SUFFICES ASSUME LogTypeOK, LaunchInv, LogEndInv, [Next]_vars PROVE LogEndInv'
  OBVIOUS
<1> USE DEF LogEndInv, logVars
<1>1. CASE Fork
  BY <1>1 DEF Fork, LaunchInv
<1>2. CASE ForkFails
  BY <1>2 DEF ForkFails
<1>3. CASE Assign
  BY <1>3 DEF Assign
<1>4. CASE Sleep
  BY <1>4 DEF Sleep
<1>5. CASE SleepEnds
  BY <1>5 DEF SleepEnds
<1>6. CASE CheckReady
  BY <1>6 DEF CheckReady
<1>7. CASE ForkPsql
  BY <1>7 DEF ForkPsql
<1>8. CASE ForkPsqlFails
  BY <1>8 DEF ForkPsqlFails
<1>9. CASE WaitPsql
  BY <1>9 DEF WaitPsql
<1>10. CASE Kill
  BY <1>10 DEF Kill
<1>11. CASE WaitDaemon
  BY <1>11 DEF WaitDaemon
<1>12. CASE ForgetDaemon
  BY <1>12 DEF ForgetDaemon
<1>13. CASE Judge
  BY <1>13 DEF Judge
<1>14. CASE HandleSigchld
  BY <1>14 DEF HandleSigchld
<1>15. CASE HandleReady
  BY <1>15 DEF HandleReady
<1>16. CASE HandleOther
  BY <1>16 DEF HandleOther
<1>17. CASE Exec \/ InstallHandlers
  BY <1>17 DEF Exec, InstallHandlers, DaemonMoves
<1>18. CASE ExecFails
  BY <1>18 DEF ExecFails, DaemonEnds, NotifyParent
<1>19. CASE DiesEarly
  BY <1>19 DEF DiesEarly, DaemonEnds, NotifyParent
<1>20. CASE BecomeReady
  BY <1>20 DEF BecomeReady, NotifyParent
<1>21. CASE StopDaemon
  BY <1>21 DEF StopDaemon, Quit
<1>22. CASE EndDaemon
  BY <1>22 DEF EndDaemon, DaemonEnds, NotifyParent
<1>23. CASE LoggerWorks
  <2>1. daemon \notin {"zombie", "reaped"} /\ UNCHANGED <<daemon, ended>>
    BY <1>23 DEF LoggerWorks
  <2>2. running' = running
    BY <1>23 DEF LoggerWorks, Writer, CheckLoop, SemWait, Pop, Write, SemPost
  <2>3. writer' = "ended" =>
          ~running' /\ (lines' = <<>> \/ graceCounter' = GraceLines)
    <3>1. CASE CheckLoop
      BY <3>1, LoggerAssumption DEF CheckLoop, LogTypeOK
    <3>2. CASE SemWait \/ Pop \/ Write
      BY <3>2 DEF SemWait, Pop, Write
    <3>3. ASSUME NEW t \in Threads, SemPost(t)
          PROVE  UNCHANGED <<writer, running, lines, graceCounter>>
      BY <3>3 DEF SemPost
    <3>. QED
      BY <1>23, <3>1, <3>2, <3>3 DEF LoggerWorks, Writer
  <2>. QED
    BY <2>1, <2>2, <2>3
<1>24. ASSUME NEW t \in Threads, DaemonLogs(t) PROVE LogEndInv'
  <2>1. daemon \in {"booting", "connecting", "ready"} /\ UNCHANGED <<daemon, ended, running, writer>>
    BY <1>24 DEF DaemonLogs, Log
  <2>. QED
    BY <2>1
<1>25. CASE Crash
  BY <1>25 DEF Crash, DaemonEnds, NotifyParent
<1>26. CASE ExecPsql
  BY <1>26 DEF ExecPsql
<1>27. CASE ExecPsqlFails
  BY <1>27 DEF ExecPsqlFails, PsqlEnds, NotifyParent
<1>28. CASE EndPsql
  BY <1>28 DEF EndPsql, PsqlEnds, NotifyParent
<1>29. CASE Terminate
  BY <1>29 DEF Terminate
<1>30. CASE Interrupt
  BY <1>30 DEF Interrupt
<1>31. CASE UNCHANGED vars
  BY <1>31 DEF vars
<1>. QED
  BY <1>1, <1>2, <1>3, <1>4, <1>5, <1>6, <1>7, <1>8, <1>9, <1>10, <1>11,
     <1>12, <1>13, <1>14, <1>15, <1>16, <1>17, <1>18, <1>19, <1>20, <1>21, <1>22,
     <1>23, <1>24, <1>25, <1>26, <1>27, <1>28, <1>29, <1>30, <1>31
     DEF Next, Main, Handler, Daemon, Psql

\* How it comes to an end, and what of the daemon may be left by then.
EndInv ==
    /\ code \in {0, 3} => psql = "reaped" /\ psqlCode = code
    /\ (code \in {0, 3} /\ pc \in {"kill", "wait"}) => cmdqd_known
    /\ (code \in {0, 3} /\ pc \in {"reaped", "judge"}) => wstatus # "none"
    /\ (pc = "kill" /\ ~cmdqd_known /\ Alive) =>
         code > 128 /\ ~cmdqd_is_ready /\ psql = "none"
    /\ PsqlCodeTrue /\ NoDaemonLeft

(* Every step keeps what holds of how the launcher comes to an end. *)
LEMMA EndStep == WrapperTypeOK /\ LaunchInv /\ LogEndInv /\ EndInv /\ [Next]_vars => EndInv'
<1> SUFFICES ASSUME WrapperTypeOK, LaunchInv, LogEndInv, EndInv, [Next]_vars PROVE EndInv'
  OBVIOUS
<1> USE DEF LaunchInv, LogEndInv, EndInv, PsqlCodeTrue, NoDaemonLeft, Over, Alive, NoCode, Killed, Aborted, SignalNumber
<1>1. CASE Fork
  BY <1>1 DEF Fork
<1>2. CASE ForkFails
  BY <1>2 DEF ForkFails
<1>3. CASE Assign
  BY <1>3 DEF Assign
<1>4. CASE Sleep
  BY <1>4 DEF Sleep
<1>5. CASE SleepEnds
  BY <1>5 DEF SleepEnds
<1>6. CASE CheckReady
  BY <1>6 DEF CheckReady
<1>7. CASE ForkPsql
  BY <1>7 DEF ForkPsql
<1>8. CASE ForkPsqlFails
  BY <1>8 DEF ForkPsqlFails
<1>9. CASE WaitPsql
  BY <1>9 DEF WaitPsql
<1>10. CASE Kill
  BY <1>10 DEF Kill
<1>11. CASE WaitDaemon
  BY <1>11 DEF WaitDaemon
<1>12. CASE ForgetDaemon
  BY <1>12 DEF ForgetDaemon
<1>13. CASE Judge
  <2>1. pc = "judge" /\ pc' = "ended"
    BY <1>13 DEF Judge
  <2>2. wstatus \in {"none", "0", "error", "signal"}
    BY DEF WrapperTypeOK
  <2>3. PICK c \in CASE wstatus = "0" -> {code}
                    [] wstatus \in {"error", "signal"} -> {7}
                    [] wstatus = "none" -> {7, code, Aborted} : exit' = c
    BY <1>13 DEF Judge
  <2>4. exit' \in {7, code, Aborted} /\ (wstatus \in {"error", "signal"} => exit' = 7)
    BY <2>2, <2>3
  <2>5. exit' \in {0, 3} => exit' = code /\ ended = "0"
    BY <2>1, <2>2, <2>4
  <2>6. UNCHANGED <<cmdqd_known, cmdqd_is_ready, code, wstatus, daemonVars, psqlVars>>
    BY <1>13 DEF Judge
  <2>. QED
    BY <2>1, <2>5, <2>6
<1>14. CASE HandleSigchld
  BY <1>14 DEF HandleSigchld
<1>15. CASE HandleReady
  BY <1>15 DEF HandleReady
<1>16. CASE HandleOther
  <2>1. pc # "ended" /\ pc' = "kill" /\ code' > 128 /\ pending' \subseteq pending
    BY <1>16, OtherSignal
  <2>2. UNCHANGED <<cmdqd_known, cmdqd_is_ready, expired, wstatus, exit, daemonVars, psqlVars>>
    BY <1>16, OtherSignal
  <2>3. ~cmdqd_known => pc \in {"fork", "assign", "kill", "judge"}
    BY <2>1 DEF WrapperTypeOK
  <2>4. ~cmdqd_known /\ Alive => ~cmdqd_is_ready /\ psql = "none"
    BY <2>3 DEF WrapperTypeOK
  <2>. QED
    BY <2>1, <2>2, <2>4
<1>17. CASE Exec \/ InstallHandlers
  BY <1>17 DEF Exec, InstallHandlers, DaemonMoves
<1>18. CASE ExecFails
  BY <1>18 DEF ExecFails, DaemonEnds, NotifyParent
<1>19. CASE DiesEarly
  <2>1. daemon \in {"forked", "booting"} /\ daemon' = "zombie" /\ ended' \in {"error", "signal"}
    BY <1>19 DEF DiesEarly, DaemonEnds
  <2>2. UNCHANGED <<pc, cmdqd_known, cmdqd_is_ready, code, wstatus, exit, psqlVars>>
    BY <1>19 DEF DiesEarly, DaemonEnds
  <2>. QED
    BY <2>1, <2>2
<1>20. CASE BecomeReady
  BY <1>20 DEF BecomeReady, NotifyParent
<1>21. CASE StopDaemon
  BY <1>21 DEF StopDaemon, Quit
<1>22. CASE EndDaemon
  BY <1>22 DEF EndDaemon, DaemonEnds, NotifyParent
<1>23. CASE LoggerWorks
  BY <1>23 DEF LoggerWorks
<1>24. ASSUME NEW t \in Threads, DaemonLogs(t) PROVE EndInv'
  BY <1>24 DEF DaemonLogs
<1>25. CASE Crash
  BY <1>25 DEF Crash, DaemonEnds, NotifyParent
<1>26. CASE ExecPsql
  BY <1>26 DEF ExecPsql
<1>27. CASE ExecPsqlFails
  BY <1>27 DEF ExecPsqlFails, PsqlEnds, NotifyParent
<1>28. CASE EndPsql
  BY <1>28 DEF EndPsql, PsqlEnds, NotifyParent
<1>29. CASE Terminate
  BY <1>29 DEF Terminate
<1>30. CASE Interrupt
  BY <1>30 DEF Interrupt
<1>31. CASE UNCHANGED vars
  BY <1>31 DEF vars
<1>. QED
  BY <1>1, <1>2, <1>3, <1>4, <1>5, <1>6, <1>7, <1>8, <1>9, <1>10, <1>11,
     <1>12, <1>13, <1>14, <1>15, <1>16, <1>17, <1>18, <1>19, <1>20, <1>21, <1>22,
     <1>23, <1>24, <1>25, <1>26, <1>27, <1>28, <1>29, <1>30, <1>31
     DEF Next, Main, Handler, Daemon, Psql

\* Why a sleep ends: the time was over, the daemon is ready, or it has ended.
SleepInv ==
    /\ ("CHLD" \in pending /\ psql = "none") => ended # "none"
    /\ (pc = "check" /\ ~cmdqd_is_ready) => expired \/ ended # "none"
    /\ code = 6 => expired \/ ended # "none"

(* Every step keeps what holds of the wait for the daemon. *)
LEMMA SleepStep == WrapperTypeOK /\ LaunchInv /\ LogEndInv /\ SleepInv /\ [Next]_vars => SleepInv'
<1> SUFFICES ASSUME WrapperTypeOK, LaunchInv, LogEndInv, SleepInv, [Next]_vars PROVE SleepInv'
  OBVIOUS
<1> USE DEF LaunchInv, LogEndInv, SleepInv, NoCode, Killed, PsqlCodes, Aborted, SignalNumber
<1>1. CASE Fork
  BY <1>1 DEF Fork
<1>2. CASE ForkFails
  BY <1>2 DEF ForkFails
<1>3. CASE Assign
  BY <1>3 DEF Assign
<1>4. CASE Sleep
  BY <1>4 DEF Sleep
<1>5. CASE SleepEnds
  BY <1>5 DEF SleepEnds
<1>6. CASE CheckReady
  BY <1>6 DEF CheckReady
<1>7. CASE ForkPsql
  BY <1>7 DEF ForkPsql
<1>8. CASE ForkPsqlFails
  BY <1>8 DEF ForkPsqlFails
<1>9. CASE WaitPsql
  <2>1. code' = psqlCode /\ pc' = "kill" /\ psql' = "reaped" /\ UNCHANGED <<expired, ended>>
    BY <1>9 DEF WaitPsql
  <2>2. psqlCode # 6
    BY DEF WrapperTypeOK, PsqlEndCodes
  <2>. QED
    BY <2>1, <2>2
<1>10. CASE Kill
  BY <1>10 DEF Kill
<1>11. CASE WaitDaemon
  BY <1>11 DEF WaitDaemon
<1>12. CASE ForgetDaemon
  BY <1>12 DEF ForgetDaemon
<1>13. CASE Judge
  BY <1>13 DEF Judge
<1>14. CASE HandleSigchld
  BY <1>14 DEF HandleSigchld
<1>15. CASE HandleReady
  BY <1>15 DEF HandleReady
<1>16. CASE HandleOther
  <2>1. pc # "ended" /\ pc' = "kill" /\ code' > 128 /\ pending' \subseteq pending
    BY <1>16, OtherSignal
  <2>2. UNCHANGED <<cmdqd_known, cmdqd_is_ready, expired, wstatus, exit, daemonVars, psqlVars>>
    BY <1>16, OtherSignal
  <2>. QED
    BY <2>1, <2>2, OtherSignal, <1>16
<1>17. CASE Exec \/ InstallHandlers
  BY <1>17 DEF Exec, InstallHandlers, DaemonMoves
<1>18. CASE ExecFails
  BY <1>18 DEF ExecFails, DaemonEnds, NotifyParent
<1>19. CASE DiesEarly
  BY <1>19 DEF DiesEarly, DaemonEnds, NotifyParent
<1>20. CASE BecomeReady
  BY <1>20 DEF BecomeReady, NotifyParent
<1>21. CASE StopDaemon
  BY <1>21 DEF StopDaemon, Quit
<1>22. CASE EndDaemon
  BY <1>22 DEF EndDaemon, DaemonEnds, NotifyParent
<1>23. CASE LoggerWorks
  BY <1>23 DEF LoggerWorks
<1>24. ASSUME NEW t \in Threads, DaemonLogs(t) PROVE SleepInv'
  BY <1>24 DEF DaemonLogs
<1>25. CASE Crash
  BY <1>25 DEF Crash, DaemonEnds, NotifyParent
<1>26. CASE ExecPsql
  BY <1>26 DEF ExecPsql
<1>27. CASE ExecPsqlFails
  BY <1>27 DEF ExecPsqlFails, PsqlEnds, NotifyParent
<1>28. CASE EndPsql
  BY <1>28 DEF EndPsql, PsqlEnds, NotifyParent
<1>29. CASE Terminate
  BY <1>29 DEF Terminate
<1>30. CASE Interrupt
  BY <1>30 DEF Interrupt
<1>31. CASE UNCHANGED vars
  BY <1>31 DEF vars
<1>. QED
  BY <1>1, <1>2, <1>3, <1>4, <1>5, <1>6, <1>7, <1>8, <1>9, <1>10, <1>11,
     <1>12, <1>13, <1>14, <1>15, <1>16, <1>17, <1>18, <1>19, <1>20, <1>21, <1>22,
     <1>23, <1>24, <1>25, <1>26, <1>27, <1>28, <1>29, <1>30, <1>31
     DEF Next, Main, Handler, Daemon, Psql

\* Along a run all of it holds.
Launcher == WrapperTypeOK /\ LaunchInv /\ LogEndInv /\ EndInv /\ SleepInv

(* The four parts hold in every state. *)
LEMMA LauncherHolds == Spec => []Launcher
<1>1. Init => LaunchInv /\ LogEndInv /\ EndInv /\ SleepInv
  BY DEF Init, LogInit, LaunchInv, LogEndInv, EndInv, SleepInv, PsqlCodeTrue, NoDaemonLeft,
         Over, Alive, NoCode
<1>2. TypeOK => LogTypeOK /\ WrapperTypeOK
  BY DEF TypeOK
<1>. QED
  BY <1>1, <1>2, WrapperTypeCorrect, LaunchStep, LogEndStep, EndStep, SleepStep, PTL
     DEF Spec, Launcher

\* Whoever signals with_cmdqd, and whatever fails, an exit code of psql's range
\* means that psql ended with it and that the daemon was stopped, ended well and
\* was reaped.
THEOREM ExitCodeIsPsqls == Spec => []PsqlCodeTrue
<1>1. Launcher => PsqlCodeTrue
  BY DEF Launcher, EndInv
<1>. QED
  BY <1>1, LauncherHolds, PTL

\* Only a psql that cannot be forked, or a signal before fork() has returned the
\* pid of the daemon, makes with_cmdqd leave a daemon behind.
THEOREM LeavesNoDaemon == Spec => []NoDaemonLeft
<1>1. Launcher => NoDaemonLeft
  BY DEF Launcher, EndInv
<1>. QED
  BY <1>1, LauncherHolds, PTL

\* with_cmdqd only gives a daemon up that had its full time or has ended.
THEOREM GivesUpForAReason == Spec => []GivenUpForAReason
<1>1. Launcher => GivenUpForAReason
  BY DEF Launcher, SleepInv, GivenUpForAReason
<1>. QED
  BY <1>1, LauncherHolds, PTL

\* When with_cmdqd ends with the exit code of psql, the log of its daemon has every
\* line that was logged, but for what the grace of the writer does not allow.
THEOREM LogIsComplete == Spec => []LogComplete
<1>1. LogTypeOK /\ Launcher /\ NothingLost => LogComplete
  <2> SUFFICES ASSUME LogTypeOK, Launcher, NothingLost, Over, exit \in {0, 3}, graceCounter # GraceLines
               PROVE  Len(shown) = logged
    BY DEF LogComplete
  <2>1. writer = "ended" /\ lines = <<>>
    BY DEF Launcher, EndInv, PsqlCodeTrue, LogEndInv
  <2>2. shown \in Seq(1..MaxLines) /\ logged \in Nat
    BY LoggerAssumption DEF LogTypeOK
  <2>3. shown = [i \in 1..logged |-> i]
    BY <2>1, <2>2 DEF NothingLost
  <2>. QED
    BY <2>2, <2>3
<1>2. TypeOK => LogTypeOK
  BY DEF TypeOK
<1>. QED
  BY <1>1, <1>2, WrapperTypeCorrect, LauncherHolds, DaemonLogIsTrue, PTL
=============================================================================
