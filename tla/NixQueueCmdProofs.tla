------------------------- MODULE NixQueueCmdProofs -------------------------
(***************************************************************************)
(* Theorems of NixQueueCmd, for any commands, any pipes and timeouts, and  *)
(* any failing system calls.                                               *)
(***************************************************************************)
EXTENDS NixQueueCmdProperties, TLAPS

USE DEF Goto, childVars, fdVars, reapVars, resultVars, timeVars

\* A step keeps the types.
LEMMA TypeStep == TypeOK /\ [Next]_vars => TypeOK'
<1> SUFFICES ASSUME TypeOK, [Next]_vars PROVE TypeOK'
  OBVIOUS
<1> USE RunAssumption DEF TypeOK, Fds, Streams
<1>1. CASE Fork
  BY <1>1 DEF Fork
<1>2. CASE ForkFails
  <2>1. pc' = "done" /\ termSig' = "SIGABRT" /\ stdinOpen' \in BOOLEAN
    BY <1>2 DEF ForkFails, Abort
  <2>. QED
    BY <1>2, <2>1 DEF ForkFails, Abort
<1>3. CASE SetpgidFails
  <2>1. pc' = "done" /\ termSig' = "SIGABRT" /\ erred' = TRUE /\ exitCode' = exitCode
    BY <1>3 DEF SetpgidFails, Abort
  <2>2. child' = "alive" /\ ends' = Fds /\ stdinOpen' = FALSE
    BY <1>3 DEF SetpgidFails
  <2>3. UNCHANGED <<cmd, fate, heir, held, wrote, pipe, polled, revents, written,
                    reapVars, timeVars>>
    BY <1>3 DEF SetpgidFails
  <2>4. pc' = "done" /\ child' \in {"none", "alive", "zombie", "gone"} /\ ends' \subseteq Fds
    BY <2>1, <2>2
  <2>5. /\ stdinOpen' \in BOOLEAN /\ erred' \in BOOLEAN /\ exitCode' \in BOOLEAN
        /\ termSig' \in {"none", "SIGABRT", "-1", "real"}
    BY <2>1, <2>2
  <2>. QED
    BY <2>3, <2>4, <2>5
<1>4. CASE Waitpid
  <2>1. /\ child' \in {"none", "alive", "zombie", "gone"}
        /\ resPid' \in {"0", "pid", "-1"} /\ reaped' \in BOOLEAN
    BY <1>4 DEF Waitpid
  <2>. QED
    BY <1>4, <2>1 DEF Waitpid
<1>5. CASE WaitpidFails
  BY <1>5 DEF WaitpidFails
<1>6. CASE EnterPoll
  <2>1. pc' = "poll" /\ eintr' \in BOOLEAN
    BY <1>6 DEF EnterPoll
  <2>. QED
    BY <1>6, <2>1 DEF EnterPoll
<1>7. CASE PollReturns
  <2>1. Revents \in [pollout : BOOLEAN, pollin : SUBSET Streams, hungup : SUBSET Fds]
    BY DEF Revents
  <2>. QED
    BY <1>7, <2>1 DEF PollReturns
<1>8. CASE PollInterrupted
  BY <1>8 DEF PollInterrupted
<1>9. CASE PollFails
  BY <1>9 DEF PollFails, Abort
<1>10. CASE PollDrained
  BY <1>10 DEF PollDrained
<1>11. CASE SendSigterm
  BY <1>11 DEF SendSigterm
<1>12. CASE SpareGrace
  BY <1>12 DEF SpareGrace
<1>13. CASE SendSigkill
  BY <1>13 DEF SendSigkill
<1>14. CASE Reap
  BY <1>14 DEF Reap
<1>15. CASE WriteStdin
  <2>1. PICK n \in 1..PipeCap - pipe["stdin"] :
          /\ written + n <= cmd.input
          /\ written' = written + n
          /\ pipe' = [pipe EXCEPT !["stdin"] = @ + n]
          /\ IF written + n = cmd.input
             THEN CloseStdin /\ pc' = "read"
             ELSE UNCHANGED <<polled, stdinOpen, pc>>
    BY <1>15 DEF WriteStdin
  <2>2. written' \in 0..cmd'.input
    BY <1>15, <2>1 DEF WriteStdin
  <2>3. pipe' \in [Fds -> 0..PipeCap]
    BY <2>1
  <2>4. polled' \subseteq Fds /\ stdinOpen' \in BOOLEAN
    BY <2>1 DEF CloseStdin
  <2>5. pc' \in {"read", pc}
    BY <2>1
  <2>. QED
    BY <1>15, <2>2, <2>3, <2>4, <2>5 DEF WriteStdin
<1>16. CASE WriteWouldBlock
  BY <1>16 DEF WriteWouldBlock, Abort
<1>17. CASE WriteBreaks
  <2>1. /\ pc' \in {"collect", "crashed"}
        /\ termSig' \in {"SIGABRT", termSig} /\ erred' \in BOOLEAN
        /\ exitCode' = exitCode
    BY <1>17 DEF WriteBreaks, Abort
  <2>. QED
    BY <1>17, <2>1 DEF WriteBreaks
<1>18. CASE ReadOutput
  <2>1. \A f \in Fds : (IF f \in revents.pollin THEN 0 ELSE pipe[f]) \in 0..PipeCap
    OBVIOUS
  <2>2. pipe' \in [Fds -> 0..PipeCap]
    BY <1>18, <2>1 DEF ReadOutput
  <2>3. polled' \subseteq Fds
    BY <1>18 DEF ReadOutput
  <2>. QED
    BY <1>18, <2>2, <2>3 DEF ReadOutput
<1>19. CASE ReadFails
  BY <1>19 DEF ReadFails, Abort
<1>20. CASE Collect
  <2>1. resPid' \in {"pid", resPid} /\ child' \in {"gone", child}
    BY <1>20 DEF Collect
  <2>2. termSig' \in {"-1", "real", termSig} /\ exitCode' \in BOOLEAN
    BY <1>20 DEF Collect
  <2>3. /\ pc' = "done" /\ stdinOpen' = FALSE
        /\ UNCHANGED <<cmd, fate, ends, heir, held, wrote, pipe, polled, revents, written,
                       reaped, tried, termed, erred, timeVars>>
    BY <1>20 DEF Collect
  <2>4. resPid' \in {"0", "pid", "-1"} /\ child' \in {"none", "alive", "zombie", "gone"}
    BY <2>1
  <2>5. termSig' \in {"none", "SIGABRT", "-1", "real"} /\ stdinOpen' \in BOOLEAN
    BY <2>2, <2>3
  <2>. QED
    BY <2>2, <2>3, <2>4, <2>5
<1>21. CASE ChildReads
  BY <1>21 DEF ChildReads, Runs, Lives
<1>22. CASE ChildEchoes
  <2>1. pipe["stdout"] + 1 \in 0..PipeCap
    BY <1>22 DEF ChildEchoes
  <2>2. pipe' \in [Fds -> 0..PipeCap]
    BY <1>22, <2>1 DEF ChildEchoes
  <2>3. held' \in BOOLEAN
    BY <1>22 DEF ChildEchoes
  <2>. QED
    BY <1>22, <2>2, <2>3 DEF ChildEchoes
<1>23. CASE ChildExits
  <2>1. fate' = "exit" /\ heir' \in BOOLEAN
    BY <1>23 DEF ChildExits
  <2>. QED
    BY <1>23, <2>1 DEF ChildExits
<1>24. CASE ChildHeedsSigterm
  BY <1>24 DEF ChildHeedsSigterm, Lives
<1>25. CASE ChildDies
  BY <1>25 DEF ChildDies
<1>26. CASE Tick
  BY <1>26 DEF Tick, Upto
<1>27. ASSUME NEW s \in Streams, ChildWrites(s) PROVE TypeOK'
  BY <1>27 DEF ChildWrites, Runs, Lives
<1>28. ASSUME NEW f \in Fds, ChildCloses(f) PROVE TypeOK'
  BY <1>28 DEF ChildCloses, Runs, Lives
<1>29. CASE UNCHANGED vars
  BY <1>29 DEF vars
<1>. QED
  BY <1>1, <1>2, <1>3, <1>4, <1>5, <1>6, <1>7, <1>8, <1>9, <1>10, <1>11, <1>12,
     <1>13, <1>14, <1>15, <1>16, <1>17, <1>18, <1>19, <1>20, <1>21, <1>22, <1>23,
     <1>24, <1>25, <1>26, <1>27, <1>28, <1>29
     DEF Next, Runner, Failure, Child

\* What the run knows of the child's end: whoever is reaped has ended, nothing is
\* recorded before the loop is left, and it is only left with the child reaped or
\* because a call failed.
ReapInv ==
    /\ pc = "fork" => child = "none" /\ resPid = "0" /\ ~reaped /\ polled = Fds
    /\ child \in {"zombie", "gone"} => fate # "none" /\ ends = {}
    /\ resPid = "pid" <=> child = "gone"
    /\ resPid = "pid" => reaped \/ pc \in {"collect", "done"}
    /\ resPid = "-1" => pc \in {"collect", "done"}
    /\ reaped => resPid = "pid"
    /\ pc = "reap" => ~reaped
    /\ pc = "collect" => resPid # "0" \/ termSig = "SIGABRT"
    /\ pc # "done" => ~exitCode
    /\ (pc # "done" /\ ~erred) => termSig = "none" /\ resPid # "-1"
    /\ ResultGiven
    /\ ResultTrue

(* Every step of run_cmd() keeps what holds of the child and of what is known of its end. *)
LEMMA ReapStep == TypeOK /\ ReapInv /\ [Next]_vars => ReapInv'
<1> SUFFICES ASSUME TypeOK, ReapInv, [Next]_vars PROVE ReapInv'
  OBVIOUS
<1> USE DEF TypeOK, ReapInv, ResultGiven, ResultTrue, Done
<1>1. CASE Fork
  BY <1>1 DEF Fork
<1>2. CASE ForkFails
  BY <1>2 DEF ForkFails, Abort
<1>3. CASE SetpgidFails
  BY <1>3 DEF SetpgidFails, Abort
<1>4. CASE Waitpid
  BY <1>4 DEF Waitpid
<1>5. CASE WaitpidFails
  BY <1>5 DEF WaitpidFails
<1>6. CASE EnterPoll
  BY <1>6 DEF EnterPoll
<1>7. CASE PollReturns
  BY <1>7 DEF PollReturns, Revents
<1>8. CASE PollInterrupted
  BY <1>8 DEF PollInterrupted
<1>9. CASE PollFails
  BY <1>9 DEF PollFails, Abort
<1>10. CASE PollDrained
  BY <1>10 DEF PollDrained
<1>11. CASE SendSigterm
  BY <1>11 DEF SendSigterm
<1>12. CASE SpareGrace
  BY <1>12 DEF SpareGrace
<1>13. CASE SendSigkill
  <2>1. pc = "poll" /\ pc' = "reap" /\ ~reaped
    BY <1>13 DEF SendSigkill, TimedOut
  <2>2. fate # "none" => fate' = fate
    BY <1>13 DEF SendSigkill
  <2>. QED
    BY <1>13, <2>1, <2>2 DEF SendSigkill
<1>14. CASE Reap
  BY <1>14 DEF Reap
<1>15. CASE WriteStdin
  BY <1>15 DEF WriteStdin, CloseStdin
<1>16. CASE WriteWouldBlock
  BY <1>16 DEF WriteWouldBlock, Abort
<1>17. CASE WriteBreaks
  BY <1>17 DEF WriteBreaks, Abort
<1>18. CASE ReadOutput
  BY <1>18 DEF ReadOutput
<1>19. CASE ReadFails
  BY <1>19 DEF ReadFails, Abort
<1>20. CASE Collect
  BY <1>20 DEF Collect
<1>21. CASE ChildReads
  BY <1>21 DEF ChildReads, Runs, Lives
<1>22. CASE ChildEchoes
  BY <1>22 DEF ChildEchoes, Runs, Lives
<1>23. CASE ChildExits
  BY <1>23 DEF ChildExits, Runs, Lives
<1>24. CASE ChildHeedsSigterm
  BY <1>24 DEF ChildHeedsSigterm, Lives
<1>25. CASE ChildDies
  BY <1>25 DEF ChildDies
<1>26. CASE Tick
  BY <1>26 DEF Tick, Upto
<1>27. ASSUME NEW s \in Streams, ChildWrites(s) PROVE ReapInv'
  BY <1>27 DEF ChildWrites, Runs, Lives
<1>28. ASSUME NEW f \in Fds, ChildCloses(f) PROVE ReapInv'
  BY <1>28 DEF ChildCloses, Runs, Lives
<1>29. CASE UNCHANGED vars
  BY <1>29 DEF vars
<1>. QED
  BY <1>1, <1>2, <1>3, <1>4, <1>5, <1>6, <1>7, <1>8, <1>9, <1>10, <1>11, <1>12,
     <1>13, <1>14, <1>15, <1>16, <1>17, <1>18, <1>19, <1>20, <1>21, <1>22, <1>23,
     <1>24, <1>25, <1>26, <1>27, <1>28, <1>29
     DEF Next, Runner, Failure, Child

\* Why nothing that was written is left behind: the loop only forgets about a
\* stream that the child has closed and whose pipe is, or is about to be, emptied.
DrainInv ==
    /\ (child = "alive" /\ cmd.program = "filter" /\ fate = "none") => ends = Fds
    /\ \A s \in Streams \ polled : pc # "fork" /\ s \notin ends /\ pipe[s] = 0
    /\ pc \in {"write", "read"} =>
         \A s \in Streams \cap revents.hungup :
            s \notin ends /\ (s \in revents.pollin \/ pipe[s] = 0)
    /\ (pc \in {"collect", "done"} /\ reaped /\ ~erred) => \A s \in Streams : pipe[s] = 0

(* Every step of run_cmd() keeps what holds of the pipes that are read to their end. *)
LEMMA DrainStep == TypeOK /\ ReapInv /\ DrainInv /\ [Next]_vars => DrainInv'
<1> SUFFICES ASSUME TypeOK, ReapInv, DrainInv, [Next]_vars PROVE DrainInv'
  OBVIOUS
<1> USE DEF TypeOK, ReapInv, DrainInv, Fds, Streams
<1>1. CASE Fork
  BY <1>1 DEF Fork
<1>2. CASE ForkFails
  BY <1>2 DEF ForkFails, Abort
<1>3. CASE SetpgidFails
  BY <1>3 DEF SetpgidFails, Abort
<1>4. CASE Waitpid
  BY <1>4 DEF Waitpid
<1>5. CASE WaitpidFails
  BY <1>5 DEF WaitpidFails
<1>6. CASE EnterPoll
  BY <1>6 DEF EnterPoll
<1>7. CASE PollReturns
  <2>1. /\ revents'.pollin = {s \in polled \cap Streams : pipe[s] > 0}
        /\ revents'.hungup = {f \in polled : IF f = "stdin" THEN f \notin ends ELSE ~HasWriter(f)}
    BY <1>7 DEF PollReturns, Revents
  <2>2. ASSUME NEW s \in Streams \cap revents'.hungup
        PROVE  s \notin ends /\ (s \in revents'.pollin \/ pipe[s] = 0)
    <3>1. s \in polled /\ s # "stdin" /\ ~HasWriter(s)
      BY <2>1, <2>2
    <3>2. s \notin ends /\ pipe[s] \in Nat
      BY <3>1, RunAssumption DEF HasWriter
    <3>. QED
      BY <2>1, <3>1, <3>2
  <2>3. UNCHANGED <<cmd, childVars, pipe, polled, written, stdinOpen, reapVars, resultVars>>
    BY <1>7 DEF PollReturns
  <2>4. pc = "poll" /\ pc' \in {"write", "read"}
    BY <1>7 DEF PollReturns
  <2>. QED
    BY <2>2, <2>3, <2>4
<1>8. CASE PollInterrupted
  BY <1>8 DEF PollInterrupted
<1>9. CASE PollFails
  BY <1>9 DEF PollFails, Abort
<1>10. CASE PollDrained
  <2>1. ASSUME NEW s \in Streams PROVE pipe[s] = 0
    <3>1. Revents.pollin = {}
      BY <1>10 DEF PollDrained, Quiet
    <3>2. CASE s \in polled
      BY <2>1, <3>1, <3>2, RunAssumption DEF Revents
    <3>3. CASE s \notin polled
      BY <2>1, <3>3
    <3>. QED
      BY <3>2, <3>3
  <2>. QED
    BY <1>10, <2>1 DEF PollDrained
<1>11. CASE SendSigterm
  BY <1>11 DEF SendSigterm
<1>12. CASE SpareGrace
  BY <1>12 DEF SpareGrace
<1>13. CASE SendSigkill
  BY <1>13 DEF SendSigkill
<1>14. CASE Reap
  BY <1>14 DEF Reap
<1>15. CASE WriteStdin
  BY <1>15 DEF WriteStdin, CloseStdin
<1>16. CASE WriteWouldBlock
  BY <1>16 DEF WriteWouldBlock, Abort
<1>17. CASE WriteBreaks
  BY <1>17 DEF WriteBreaks, Abort
<1>18. CASE ReadOutput
  BY <1>18 DEF ReadOutput
<1>19. CASE ReadFails
  BY <1>19 DEF ReadFails, Abort
<1>20. CASE Collect
  BY <1>20 DEF Collect
<1>21. CASE ChildReads
  BY <1>21 DEF ChildReads, Runs, Lives
<1>22. CASE ChildEchoes
  BY <1>22 DEF ChildEchoes, Runs, Lives
<1>23. CASE ChildExits
  BY <1>23 DEF ChildExits, Runs, Lives
<1>24. CASE ChildHeedsSigterm
  BY <1>24 DEF ChildHeedsSigterm, Lives
<1>25. CASE ChildDies
  BY <1>25 DEF ChildDies
<1>26. CASE Tick
  BY <1>26 DEF Tick, Upto
<1>27. ASSUME NEW s \in Streams, ChildWrites(s) PROVE DrainInv'
  BY <1>27 DEF ChildWrites, Runs, Lives
<1>28. ASSUME NEW f \in Fds, ChildCloses(f) PROVE DrainInv'
  BY <1>28 DEF ChildCloses, Runs, Lives
<1>29. CASE UNCHANGED vars
  BY <1>29 DEF vars
<1>. QED
  BY <1>1, <1>2, <1>3, <1>4, <1>5, <1>6, <1>7, <1>8, <1>9, <1>10, <1>11, <1>12,
     <1>13, <1>14, <1>15, <1>16, <1>17, <1>18, <1>19, <1>20, <1>21, <1>22, <1>23,
     <1>24, <1>25, <1>26, <1>27, <1>28, <1>29
     DEF Next, Runner, Failure, Child

\* Child, pipes and loop keep their types: no write() goes past the end of the
\* input, no pipe overflows.
THEOREM RunTypeCorrect == Spec => []TypeOK
<1>1. ASSUME Init PROVE TypeOK
  <2>1. pipe \in [Fds -> 0..PipeCap]
    BY <1>1, RunAssumption DEF Init
  <2>2. revents \in [pollout : BOOLEAN, pollin : SUBSET Streams, hungup : SUBSET Fds]
    BY <1>1 DEF Init, Quiet
  <2>3. written \in 0..cmd.input
    BY <1>1, RunAssumption DEF Init
  <2>4. /\ heir \in BOOLEAN /\ held \in BOOLEAN /\ termed \in BOOLEAN
        /\ stdinOpen \in BOOLEAN /\ reaped \in BOOLEAN /\ tried \in BOOLEAN
        /\ exitCode \in BOOLEAN /\ erred \in BOOLEAN /\ eintr \in BOOLEAN
    BY <1>1 DEF Init
  <2>5. /\ wrote \in 0..MaxOut /\ elapsed \in 0..cmd.timeout + Grace
        /\ sinceTerm \in 0..Grace + 1
    BY <1>1, RunAssumption DEF Init
  <2>. QED
    BY <1>1, <2>1, <2>2, <2>3, <2>4, <2>5 DEF Init, TypeOK
<1>. QED
  BY <1>1, TypeStep, PTL DEF Spec

\* Along a run, ReapInv holds.
LEMMA Reaping == Spec => []ReapInv
<1>1. Init => ReapInv
  BY DEF Init, ReapInv, ResultGiven, ResultTrue, Done
<1>. QED
  BY <1>1, RunTypeCorrect, ReapStep, PTL DEF Spec

\* Whatever system call fails, and however the command ends, its run records an
\* exit code or a termination signal.
THEOREM RunGivesResult == Spec => []ResultGiven
<1>1. ReapInv => ResultGiven
  BY DEF ReapInv
<1>. QED
  BY <1>1, Reaping, PTL

\* When no system call failed the command is gone by the time its run is done,
\* and its exit code or termination signal is the real one, whoever was first of
\* the command, SIGTERM and SIGKILL.
THEOREM RunResultIsTrue == Spec => []ResultTrue
<1>1. ReapInv => ResultTrue
  BY DEF ReapInv
<1>. QED
  BY <1>1, Reaping, PTL

\* A run that saw its command end by itself, and no system call fail, has read
\* all that the command wrote, up to its exit.
THEOREM RunReadsAllOutput == Spec => []OutputComplete
<1>1. Init => DrainInv
  BY DEF Init, DrainInv, Fds, Streams, Quiet
<1>2. DrainInv => OutputComplete
  BY DEF DrainInv, OutputComplete, Done
<1>. QED
  BY <1>1, <1>2, RunTypeCorrect, Reaping, DrainStep, PTL DEF Spec
=============================================================================
