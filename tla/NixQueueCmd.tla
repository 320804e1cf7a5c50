----------------------------- MODULE NixQueueCmd -----------------------------
(***************************************************************************)
(* One run of a *nix command: NixQueueCmd::run_cmd() of                    *)
(* pg_cmdqd/nixqueuecmd.cpp, the child process that it forks, and the      *)
(* three pipes between them.  QueueRunner takes this for the one step      *)
(* RunCmd.                                                                 *)
(*                                                                         *)
(* What goes through a pipe is counted in chunks.  The child is any        *)
(* program that behaves like one of the four Programs.                     *)
(***************************************************************************)
EXTENDS Naturals, FiniteSets

CONSTANTS
    Workloads,      \* the commands that may be run: a program, its cmd_stdin, and
                    \* queue_cmd_timeout_sec (0 for none) in ticks of the clock
    PipeCap,        \* how many chunks a pipe holds
    MaxOut,         \* how many chunks an "oblivious" program writes at most
    Grace,          \* GRACE_SECONDS_BETWEEN_SIGTERM_AND_SIGKILL, in ticks
    Heirs,          \* whether a command may leave descendants behind
    SigpipeIgnored, \* the dispositions of SIGPIPE that the daemon may inherit
    Faults          \* the system calls that may fail

\* A "filter" echoes its input to STDOUT until it ends; an "oblivious" program
\* does not read and exits when it likes; one that is "stuck" waits forever; one
\* that is "chatty" writes forever.
Programs == {"filter", "oblivious", "stuck", "chatty"}
Calls == {"fork", "setpgid", "poll", "read", "waitpid"}

ASSUME RunAssumption ==
    /\ Workloads \subseteq [program : Programs, input : Nat, timeout : Nat]
    /\ PipeCap \in Nat \ {0} /\ MaxOut \in Nat
    /\ Grace \in Nat \ {0}
    /\ Heirs \in BOOLEAN /\ SigpipeIgnored \subseteq BOOLEAN
    /\ Faults \subseteq Calls

Streams == {"stdout", "stderr"}
Fds == Streams \cup {"stdin"}

VARIABLES
    cmd,        \* the workload being run
    \* The child process and the pipes.
    child,      \* "none", "alive", "zombie" or "gone", once it is reaped
    fate,       \* how it ends, when it has begun to: "none", "exit" or "signal"
    ends,       \* the ends of the pipes that it has not closed
    heir,       \* whether a descendant holds its STDOUT and STDERR open
    held,       \* whether a "filter" has read a chunk that it did not write yet
    wrote,      \* how many chunks an "oblivious" program wrote
    termed,     \* whether SIGTERM was sent to it
    pipe,       \* how many chunks each pipe holds
    \* The runner thread.
    pc,
    polled,     \* the fds[] that are not -1
    revents,    \* what poll() returned
    written,    \* cum_stdin_bytes_written
    stdinOpen,  \* whether the write end of stdin_fds is open
    reaped,
    tried,      \* tried_sigterm
    resPid,     \* res_pid: "0", "pid" or "-1"
    exitCode,   \* whether cmd_exit_code is set
    termSig,    \* cmd_term_sig: "none", "SIGABRT", "-1", or the "real" one
    erred,      \* history: whether a system call of the thread failed
    \* The signals and the clock.
    eintr,      \* whether a signal arrived that interrupts the poll()
    elapsed,    \* ticks since cmd_runtime_start, saturated
    sinceTerm   \* ticks since sigterm_time, saturated

childVars == <<child, fate, ends, heir, held, wrote>>
fdVars == <<polled, revents, written, stdinOpen>>
reapVars == <<reaped, tried, termed, resPid>>
resultVars == <<exitCode, termSig, erred>>
timeVars == <<eintr, elapsed, sinceTerm>>
vars == <<cmd, childVars, pipe, pc, fdVars, reapVars, resultVars, timeVars>>

Quiet == [pollout |-> FALSE, pollin |-> {}, hungup |-> {}]

TypeOK ==
    /\ cmd \in Workloads
    /\ child \in {"none", "alive", "zombie", "gone"}
    /\ fate \in {"none", "exit", "signal"}
    /\ ends \subseteq Fds
    /\ heir \in BOOLEAN /\ held \in BOOLEAN
    /\ wrote \in 0..MaxOut
    /\ pipe \in [Fds -> 0..PipeCap]
    /\ pc \in {"fork", "wait", "arm", "poll", "write", "read", "reap", "collect", "done", "crashed"}
    /\ polled \subseteq Fds
    /\ revents \in [pollout : BOOLEAN, pollin : SUBSET Streams, hungup : SUBSET Fds]
    /\ written \in 0..cmd.input
    /\ stdinOpen \in BOOLEAN /\ reaped \in BOOLEAN /\ tried \in BOOLEAN
    /\ termed \in BOOLEAN
    /\ resPid \in {"0", "pid", "-1"}
    /\ exitCode \in BOOLEAN
    /\ termSig \in {"none", "SIGABRT", "-1", "real"}
    /\ erred \in BOOLEAN
    /\ eintr \in BOOLEAN
    /\ elapsed \in 0..cmd.timeout + Grace /\ sinceTerm \in 0..Grace + 1

Init ==
    /\ cmd \in Workloads
    /\ child = "none" /\ fate = "none" /\ ends = {}
    /\ heir = FALSE /\ held = FALSE /\ wrote = 0 /\ termed = FALSE
    /\ pipe = [f \in Fds |-> 0]
    /\ pc = "fork"
    /\ polled = Fds /\ revents = Quiet
    /\ written = 0 /\ stdinOpen = TRUE
    /\ reaped = FALSE /\ tried = FALSE /\ resPid = "0"
    /\ exitCode = FALSE /\ termSig = "none" /\ erred = FALSE
    /\ eintr = FALSE /\ elapsed = 0 /\ sinceTerm = 0
-----------------------------------------------------------------------------
(* The runner thread *)

Goto(from, to) == pc = from /\ pc' = to

\* The error paths all call the command aborted.
Abort(from, to) ==
    Goto(from, to) /\ termSig' = "SIGABRT" /\ erred' = TRUE /\ UNCHANGED exitCode

Fork ==
    /\ Goto("fork", "wait")
    /\ child' = "alive" /\ ends' = Fds
    /\ UNCHANGED <<cmd, fate, heir, held, wrote, pipe, fdVars, reapVars, resultVars, timeVars>>

\* fork() fails.
ForkFails ==
    /\ "fork" \in Faults
    /\ Abort("fork", "done")
    /\ stdinOpen' = FALSE
    /\ UNCHANGED <<cmd, childVars, pipe, polled, revents, written, reapVars, timeVars>>

\* setpgid() or sigprocmask() fails: run_cmd() returns with the child running.
SetpgidFails ==
    /\ "setpgid" \in Faults
    /\ Abort("fork", "done")
    /\ child' = "alive" /\ ends' = Fds
    /\ stdinOpen' = FALSE
    /\ UNCHANGED <<cmd, fate, heir, held, wrote, pipe, polled, revents, written, reapVars,
                   timeVars>>

\* Deviation: the loop ends as soon as the child is reaped.
WaitpidAndBreak ==
    /\ IF child = "zombie" /\ ~reaped
       THEN /\ Goto("wait", "collect")
            /\ child' = "gone" /\ reaped' = TRUE /\ resPid' = "pid"
       ELSE Goto("wait", "arm") /\ UNCHANGED <<child, reaped, resPid>>
    /\ UNCHANGED <<cmd, fate, ends, heir, held, wrote, pipe, fdVars, tried, termed,
                   resultVars, timeVars>>

\* waitpid(WNOHANG).
Waitpid ==
    /\ Goto("wait", "arm")
    /\ IF child = "zombie" /\ ~reaped
       THEN child' = "gone" /\ reaped' = TRUE /\ resPid' = "pid"
       ELSE UNCHANGED <<child, reaped, resPid>>
    /\ UNCHANGED <<cmd, fate, ends, heir, held, wrote, pipe, fdVars, tried, termed,
                   resultVars, timeVars>>

WaitpidFails ==
    /\ "waitpid" \in Faults /\ ~reaped
    /\ Goto("wait", "collect")
    /\ resPid' = "-1" /\ erred' = TRUE
    /\ UNCHANGED <<cmd, childVars, pipe, fdVars, reaped, tried, termed, exitCode, termSig,
                   timeVars>>

\* poll() begins.  A signal that the handler dealt with before this is no reason
\* for it to return.
EnterPoll ==
    /\ Goto("arm", "poll")
    /\ eintr' = FALSE
    /\ UNCHANGED <<cmd, childVars, pipe, fdVars, reapVars, resultVars, elapsed, sinceTerm>>

\* Who could still write to a pipe.
HasWriter(s) == s \in ends \/ heir

\* What poll() finds.
Revents ==
    [pollout |-> "stdin" \in polled /\ cmd.input > 0 /\ pipe["stdin"] < PipeCap,
     pollin  |-> {s \in polled \cap Streams : pipe[s] > 0},
     hungup  |-> {f \in polled : IF f = "stdin" THEN f \notin ends ELSE ~HasWriter(f)}]

PollReturns ==
    /\ Revents # Quiet
    /\ Goto("poll", IF Revents.pollout THEN "write" ELSE "read")
    /\ revents' = Revents
    /\ UNCHANGED <<cmd, childVars, pipe, polled, written, stdinOpen, reapVars, resultVars,
                   timeVars>>

\* EINTR: of a poll() that would otherwise have blocked.
PollInterrupted ==
    /\ eintr /\ ~reaped
    /\ Goto("poll", "wait")
    /\ UNCHANGED <<cmd, childVars, pipe, fdVars, reapVars, resultVars, timeVars>>

PollFails ==
    /\ "poll" \in Faults
    /\ Abort("poll", "collect")
    /\ UNCHANGED <<cmd, childVars, pipe, fdVars, reapVars, timeVars>>

\* poll() returns 0 after the child was reaped: nothing is left to read.
PollDrained ==
    /\ reaped /\ Revents = Quiet
    /\ Goto("poll", "collect")
    /\ UNCHANGED <<cmd, childVars, pipe, fdVars, reapVars, resultVars, timeVars>>

\* poll() returns 0 because its timeout expired, and so has the command's.
TimedOut ==
    /\ ~reaped /\ cmd.timeout # 0 /\ Revents = Quiet
    /\ elapsed >= cmd.timeout + (IF tried THEN Grace ELSE 0)

\* Try it friendly.
SendSigterm ==
    /\ TimedOut /\ ~tried
    /\ Goto("poll", "wait")
    /\ termed' = TRUE /\ tried' = TRUE /\ sinceTerm' = 0
    /\ UNCHANGED <<cmd, childVars, pipe, fdVars, reaped, resPid, resultVars, eintr, elapsed>>

\* Not yet a second since: around, without waiting.
SpareGrace ==
    /\ TimedOut /\ tried /\ sinceTerm <= Grace
    /\ Goto("poll", "wait")
    /\ UNCHANGED <<cmd, childVars, pipe, fdVars, reapVars, resultVars, timeVars>>

\* Deviation: SIGTERM is tried again and again.
SigtermAgain ==
    /\ TimedOut /\ tried /\ sinceTerm > Grace
    /\ Goto("poll", "wait")
    /\ sinceTerm' = 0
    /\ UNCHANGED <<cmd, childVars, pipe, fdVars, reapVars, resultVars, eintr, elapsed>>

\* SIGKILL, and wait for the child to die of it.
SendSigkill ==
    /\ TimedOut /\ tried /\ sinceTerm > Grace
    /\ Goto("poll", "reap")
    /\ fate' = IF child = "alive" /\ fate = "none" THEN "signal" ELSE fate
    /\ UNCHANGED <<cmd, child, ends, heir, held, wrote, pipe, fdVars, reapVars, resultVars,
                   timeVars>>

\* Deviation: waitpid() does not wait for the child that was killed.
ReapAtOnce ==
    /\ Goto("reap", "collect")
    /\ IF child = "zombie" THEN child' = "gone" /\ resPid' = "pid"
                           ELSE UNCHANGED <<child, resPid>>
    /\ UNCHANGED <<cmd, fate, ends, heir, held, wrote, pipe, fdVars, reaped, tried, termed,
                   resultVars, timeVars>>

\* The waitpid() that follows SIGKILL returns.
Reap ==
    /\ child = "zombie"
    /\ Goto("reap", "collect")
    /\ child' = "gone" /\ resPid' = "pid"
    /\ UNCHANGED <<cmd, fate, ends, heir, held, wrote, pipe, fdVars, reaped, tried, termed,
                   resultVars, timeVars>>
-----------------------------------------------------------------------------
(* What poll() found *)

\* Deviation: STDIN stays open when all is written.
KeepStdin == polled' = polled \ {"stdin"} /\ UNCHANGED stdinOpen

CloseStdin == polled' = polled \ {"stdin"} /\ stdinOpen' = FALSE

\* Deviation: write() is told the length of the whole input each time.
WritePastEnd ==
    /\ pc = "write" /\ "stdin" \in ends
    /\ \E n \in 1..PipeCap - pipe["stdin"] :
         /\ written' = written + n
         /\ pipe' = [pipe EXCEPT !["stdin"] = @ + n]
         /\ IF written + n >= cmd.input
            THEN CloseStdin /\ pc' = "read"
            ELSE UNCHANGED <<polled, stdinOpen, pc>>
    /\ UNCHANGED <<cmd, childVars, revents, reapVars, resultVars, timeVars>>

\* write() takes what fits, and is called until all is written.
WriteStdin ==
    /\ pc = "write" /\ "stdin" \in ends
    /\ \E n \in 1..PipeCap - pipe["stdin"] :
         /\ written + n <= cmd.input
         /\ written' = written + n
         /\ pipe' = [pipe EXCEPT !["stdin"] = @ + n]
         /\ IF written + n = cmd.input
            THEN CloseStdin /\ pc' = "read"
            ELSE UNCHANGED <<polled, stdinOpen, pc>>
    /\ UNCHANGED <<cmd, childVars, revents, reapVars, resultVars, timeVars>>

\* EAGAIN: the pipe is full, and the rest is never written.
WriteWouldBlock ==
    /\ "stdin" \in ends /\ pipe["stdin"] = PipeCap
    /\ Abort("write", "collect")
    /\ UNCHANGED <<cmd, childVars, pipe, fdVars, reapVars, timeVars>>

\* The child does not read any longer: EPIPE if SIGPIPE is ignored, or else the
\* end of the process.
WriteBreaks ==
    /\ "stdin" \notin ends
    /\ \E ignored \in SigpipeIgnored :
         IF ignored THEN Abort("write", "collect")
                    ELSE Goto("write", "crashed") /\ UNCHANGED resultVars
    /\ UNCHANGED <<cmd, childVars, pipe, fdVars, reapVars, timeVars>>

\* read() all there is, and forget about what is hung up.
ReadOutput ==
    /\ Goto("read", "wait")
    /\ pipe' = [f \in Fds |-> IF f \in revents.pollin THEN 0 ELSE pipe[f]]
    /\ polled' = polled \ revents.hungup
    /\ UNCHANGED <<cmd, childVars, revents, written, stdinOpen, reapVars, resultVars, timeVars>>

ReadFails ==
    /\ "read" \in Faults /\ revents.pollin # {}
    /\ Abort("read", "collect")
    /\ UNCHANGED <<cmd, childVars, pipe, fdVars, reapVars, timeVars>>

\* Deviation: the child is not looked for a last time, and an error of waitpid()
\* is left unreported.
CollectSilently ==
    /\ Goto("collect", "done")
    /\ exitCode' = (resPid = "pid" /\ fate = "exit")
    /\ termSig' = IF resPid = "pid" /\ fate = "signal" THEN "real" ELSE termSig
    /\ stdinOpen' = FALSE
    /\ UNCHANGED <<cmd, childVars, pipe, polled, revents, written, reapVars, erred, timeVars>>

\* After the loop: look for the child a last time, record how it ended, and
\* close what is open.
Collect ==
    /\ Goto("collect", "done")
    /\ LET res == IF resPid = "0" /\ child = "zombie" THEN "pid" ELSE resPid
       IN  /\ resPid' = res
           /\ child' = IF res = "pid" THEN "gone" ELSE child
           /\ exitCode' = (res = "pid" /\ fate = "exit")
           /\ termSig' = CASE res = "-1" -> "-1"
                           [] res = "pid" /\ fate = "signal" -> "real"
                           [] OTHER -> termSig
    /\ stdinOpen' = FALSE
    /\ UNCHANGED <<cmd, fate, ends, heir, held, wrote, pipe, polled, revents, written,
                   reaped, tried, termed, erred, timeVars>>
-----------------------------------------------------------------------------
(* The child process *)

Lives == child = "alive" /\ fate = "none"
Runs(program) == Lives /\ cmd.program = program

\* A filter reads a chunk.
ChildReads ==
    /\ Runs("filter") /\ ~held /\ "stdin" \in ends /\ pipe["stdin"] > 0
    /\ pipe' = [pipe EXCEPT !["stdin"] = @ - 1]
    /\ held' = TRUE
    /\ UNCHANGED <<cmd, child, fate, ends, heir, wrote, pc, fdVars, reapVars, resultVars,
                   timeVars>>

\* It writes the chunk.
ChildEchoes ==
    /\ Runs("filter") /\ held /\ pipe["stdout"] < PipeCap
    /\ pipe' = [pipe EXCEPT !["stdout"] = @ + 1]
    /\ held' = FALSE
    /\ UNCHANGED <<cmd, child, fate, ends, heir, wrote, pc, fdVars, reapVars, resultVars,
                   timeVars>>

\* Other programs write to either pipe.
ChildWrites(s) ==
    /\ s \in ends /\ pipe[s] < PipeCap
    /\ \/ Runs("oblivious") /\ wrote < MaxOut /\ wrote' = wrote + 1
       \/ Runs("chatty") /\ UNCHANGED wrote
    /\ pipe' = [pipe EXCEPT ![s] = @ + 1]
    /\ UNCHANGED <<cmd, child, fate, ends, heir, held, pc, fdVars, reapVars, resultVars,
                   timeVars>>

\* It closes a file, as nixtestcmd does on demand, or because it is exiting.
ChildCloses(f) ==
    /\ f \in ends
    /\ Runs("oblivious") \/ (child = "alive" /\ fate # "none")
    /\ ends' = ends \ {f}
    /\ UNCHANGED <<cmd, child, fate, heir, held, wrote, pipe, pc, fdVars, reapVars,
                   resultVars, timeVars>>

\* A filter sees the end of its input when nobody can write to it.
AtEof == pipe["stdin"] = 0 /\ ~stdinOpen

\* It comes to its end, maybe leaving somebody behind.
ChildExits ==
    /\ Runs("oblivious") \/ (Runs("filter") /\ ~held /\ AtEof)
    /\ fate' = "exit"
    /\ heir' \in {FALSE, Heirs}
    /\ UNCHANGED <<cmd, child, ends, held, wrote, pipe, pc, fdVars, reapVars, resultVars,
                   timeVars>>

\* It dies of the SIGTERM, or heeds it.
ChildHeedsSigterm ==
    /\ Lives /\ termed
    /\ fate' \in {"exit", "signal"}
    /\ UNCHANGED <<cmd, child, ends, heir, held, wrote, pipe, pc, fdVars, reapVars,
                   resultVars, timeVars>>

\* Its files closed, it turns into a zombie.  SIGCHLD interrupts a poll() that
\* is already waiting.
ChildDies ==
    /\ child = "alive" /\ fate # "none" /\ ends = {}
    /\ child' = "zombie"
    /\ eintr' = (pc = "poll")
    /\ UNCHANGED <<cmd, fate, ends, heir, held, wrote, pipe, pc, fdVars, reapVars,
                   resultVars, elapsed, sinceTerm>>

Upto(n, max) == IF n < max THEN n + 1 ELSE max

\* Time passes.
Tick ==
    /\ pc \notin {"fork", "done", "crashed"} /\ cmd.timeout # 0
    /\ elapsed' = Upto(elapsed, cmd.timeout + Grace)
    /\ sinceTerm' = IF tried THEN Upto(sinceTerm, Grace + 1) ELSE 0
    /\ UNCHANGED <<cmd, childVars, pipe, pc, fdVars, reapVars, resultVars, eintr>>
-----------------------------------------------------------------------------
Runner ==
    \/ Fork \/ Waitpid \/ EnterPoll \/ PollReturns \/ PollInterrupted \/ PollDrained
    \/ SendSigterm \/ SpareGrace \/ SendSigkill \/ Reap
    \/ WriteStdin \/ WriteWouldBlock \/ WriteBreaks \/ ReadOutput \/ Collect

Failure == ForkFails \/ SetpgidFails \/ WaitpidFails \/ PollFails \/ ReadFails

\* What the child does by itself, or cannot help doing.
Child ==
    \/ ChildReads \/ ChildEchoes \/ ChildExits \/ ChildDies
    \/ fate # "none" /\ \E f \in Fds : ChildCloses(f)

Next ==
    \/ Runner \/ Failure \/ Child \/ ChildHeedsSigterm \/ Tick
    \/ \E s \in Streams : ChildWrites(s)
    \/ \E f \in Fds : ChildCloses(f)

Spec == Init /\ [][Next]_vars

\* The thread, the child and the clock go on, and a chatty command keeps writing.
FairSpec ==
    /\ Spec /\ WF_vars(Runner) /\ WF_vars(Child) /\ WF_vars(Tick)
    /\ WF_vars(cmd.program = "chatty" /\ ChildWrites("stdout"))
=============================================================================
