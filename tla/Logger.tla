------------------------------- MODULE Logger -------------------------------
(***************************************************************************)
(* The Logger of the daemon, pg_cmdqd/logger.cpp: log() queues a line      *)
(* under logMutex and posts the semaphore linesPending; a writer thread,   *)
(* writeLog(), waits for the semaphore, takes one line and writes it.      *)
(* quit(), called by the destructor at the exit of the process, lets the   *)
(* writer finish what is queued, up to a number of lines.                  *)
(*                                                                         *)
(* A line is the number of its log() call.  Levels and wording are left    *)
(* out, and so is the log file: nothing in the daemon sets logPath.        *)
(***************************************************************************)
EXTENDS Naturals, Sequences, FiniteSets

CONSTANTS
    Threads,     \* the threads that call log() and quit()
    GraceLines,  \* how many lines are still written after quit(): 1000
    MaxLines     \* bound on the lines logged

ASSUME LoggerAssumption ==
    /\ IsFiniteSet(Threads)
    /\ GraceLines \in Nat /\ MaxLines \in Nat

VARIABLES
    lines, linesPending, running, graceCounter,
    posting,  \* threads on their way to sem_post()
    writer,   \* what the writer thread is about to do
    line,     \* the line in its hands, 0 for none
    logged,   \* how many lines were queued so far
    shown     \* the lines written so far

logVars == <<lines, linesPending, running, graceCounter, posting, writer, line, logged, shown>>

LogTypeOK ==
    /\ lines \in Seq(1..MaxLines) /\ shown \in Seq(1..MaxLines)
    /\ linesPending \in Nat
    /\ running \in BOOLEAN
    /\ graceCounter \in 0..GraceLines
    /\ posting \subseteq Threads
    /\ writer \in {"check", "wait", "pop", "write", "ended"}
    /\ line \in 0..MaxLines /\ logged \in 0..MaxLines
    /\ writer = "write" => line > 0

LogInit ==
    /\ lines = <<>> /\ linesPending = 0
    /\ running = TRUE /\ graceCounter = 0
    /\ posting = {}
    /\ writer = "check" /\ line = 0
    /\ logged = 0 /\ shown = <<>>
-----------------------------------------------------------------------------
(* The threads that log *)

\* log(): queue the line, under logMutex; sem_post() comes after.
Log(t) ==
    /\ t \notin posting /\ logged < MaxLines
    /\ logged' = logged + 1
    /\ lines' = Append(lines, logged + 1)
    /\ posting' = posting \cup {t}
    /\ UNCHANGED <<linesPending, running, graceCounter, writer, line, shown>>

SemPost(t) ==
    /\ t \in posting
    /\ posting' = posting \ {t}
    /\ linesPending' = linesPending + 1
    /\ UNCHANGED <<lines, running, graceCounter, writer, line, logged, shown>>

\* Deviation: the writer is not woken to see that it should end.
QuitSilently(t) ==
    /\ t \notin posting /\ running
    /\ running' = FALSE
    /\ UNCHANGED <<lines, linesPending, graceCounter, posting, writer, line, logged, shown>>

\* quit(), up to its sem_post(); then it joins the writer.
Quit(t) ==
    /\ t \notin posting /\ running
    /\ running' = FALSE
    /\ posting' = posting \cup {t}
    /\ UNCHANGED <<lines, linesPending, graceCounter, writer, line, logged, shown>>
-----------------------------------------------------------------------------
(* The writer thread *)

\* Deviation: what is queued at the end is left there.
CheckRunningOnly ==
    /\ writer = "check"
    /\ writer' = IF running THEN "wait" ELSE "ended"
    /\ UNCHANGED <<lines, linesPending, running, graceCounter, posting, line, logged, shown>>

\* The condition of the loop.
CheckLoop ==
    /\ writer = "check"
    /\ LET grace == ~running /\ lines # <<>> /\ graceCounter < GraceLines
       IN  /\ writer' = IF running \/ grace THEN "wait" ELSE "ended"
           /\ graceCounter' = IF grace THEN graceCounter + 1 ELSE graceCounter
    /\ UNCHANGED <<lines, linesPending, running, posting, line, logged, shown>>

SemWait ==
    /\ writer = "wait" /\ linesPending > 0
    /\ linesPending' = linesPending - 1
    /\ writer' = "pop"
    /\ UNCHANGED <<lines, running, graceCounter, posting, line, logged, shown>>

\* Deviation: the queue gives its front, and keeps it.
PeekOnly ==
    /\ writer = "pop"
    /\ IF lines = <<>>
       THEN writer' = "check" /\ UNCHANGED line
       ELSE writer' = "write" /\ line' = Head(lines)
    /\ UNCHANGED <<lines, linesPending, running, graceCounter, posting, logged, shown>>

\* One line, under logMutex; none when the semaphore was posted by quit().
Pop ==
    /\ writer = "pop"
    /\ IF lines = <<>>
       THEN writer' = "check" /\ UNCHANGED <<lines, line>>
       ELSE writer' = "write" /\ line' = Head(lines) /\ lines' = Tail(lines)
    /\ UNCHANGED <<linesPending, running, graceCounter, posting, logged, shown>>

Write ==
    /\ writer = "write"
    /\ shown' = Append(shown, line)
    /\ line' = 0
    /\ writer' = "check"
    /\ UNCHANGED <<lines, linesPending, running, graceCounter, posting, logged>>
-----------------------------------------------------------------------------
Writer == CheckLoop \/ SemWait \/ Pop \/ Write

LogNext == Writer \/ \E t \in Threads : Log(t) \/ SemPost(t) \/ Quit(t)

LogSpec == LogInit /\ [][LogNext]_logVars
-----------------------------------------------------------------------------
(* What makes the logger correct *)

\* The writer only sleeps for good while it has nothing to do: no line is
\* queued, and the logger runs.  So neither a log() between the writer's check
\* and its sem_wait(), nor a quit(), is ever missed.
NoLostWakeup ==
    (writer = "wait" /\ linesPending = 0 /\ posting = {}) => (lines = <<>> /\ running)

\* Lines are shown in the order of their log() calls, none left out: what is
\* shown, in the writer's hands and queued is all that was logged.
NothingLost ==
    shown \o (IF writer = "write" THEN <<line>> ELSE <<>>) \o lines = [i \in 1..logged |-> i]
=============================================================================
