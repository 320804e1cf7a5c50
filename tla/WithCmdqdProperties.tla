------------------------ MODULE WithCmdqdProperties ------------------------
(* What makes with_cmdqd a launcher that tests can rely on. *)
EXTENDS WithCmdqd

Over == pc = "ended"

\* An exit code of psql's range says what it seems to: psql ended with it, and
\* the daemon was stopped, ended well and was reaped; so every higher code, as
\* the comment on the exit codes wants it, tells of something else.
PsqlCodeTrue ==
    (Over /\ exit \in {0, 3}) => /\ psql = "reaped" /\ psqlCode = exit
                                 /\ daemon = "reaped" /\ ended = "0"

\* By then everything that any thread of the daemon logged is in its log, unless
\* more was queued at the end than the grace of the writer.
LogComplete ==
    (Over /\ exit \in {0, 3}) => Len(shown) = logged \/ graceCounter = GraceLines

\* No daemon is left running behind with_cmdqd, but when psql cannot be forked,
\* or a signal comes before fork() has returned the pid of the daemon.
NoDaemonLeft ==
    (Over /\ Alive) => exit = 15 \/ (exit > 128 /\ ~cmdqd_is_ready /\ psql = "none")

\* It only gives the daemon up when it had its full time, or has ended: neither
\* SIGUSR1 nor any other end of the sleep makes it stop a daemon in its start.
GivenUpForAReason == (pc = "kill" /\ code = 6) => expired \/ ended # "none"

\* with_cmdqd ends, unless it goes on waiting for a psql that runs on.
WrapperEnds == []<>(Over \/ (pc = "wait_psql" /\ psql = "running"))
=============================================================================
