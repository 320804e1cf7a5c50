----------------------- MODULE NixQueueCmdProperties -----------------------
(* What makes the run of a *nix command correct. *)
EXTENDS NixQueueCmd

Done == pc = "done"

\* Unless a system call failed, or the command had to be killed, all that the
\* command ever wrote has been read by the time it is done: also what it wrote
\* between the last read() and its exit.
OutputComplete == (Done /\ reaped /\ ~erred) => \A s \in Streams : pipe[s] = 0

\* Unless a system call failed, the command is gone by the time it is done, and
\* what is recorded is how it really ended, whoever was first of the command,
\* SIGTERM and SIGKILL.
ResultTrue ==
    (Done /\ ~erred) => /\ child = "gone"
                        /\ exitCode <=> fate = "exit"
                        /\ termSig = IF fate = "signal" THEN "real" ELSE "none"

\* Whatever fails, something is recorded, so that the UPDATE that follows can
\* satisfy the check constraints of the queue.
ResultGiven == Done => exitCode \/ termSig # "none"

\* Never both an exit code and a termination signal.
ExitOrSignal == ~(exitCode /\ termSig # "none")

\* The run of a command that has a timeout comes to its end, whether or not the
\* command reads its input, closes its files, dies or is stuck; only one that
\* never stops writing can keep poll() from ever timing out.
RunEnds ==
    (cmd.timeout > 0 /\ cmd.program # "chatty") ~> (pc \in {"done", "crashed"})

\* A command that reads its input to the end comes to its end, without any
\* timeout: it gets all its input, and then the end of it, and can write all the
\* while, unless a system call fails.
InputEnds == (cmd.program = "filter" /\ child = "alive") ~> (child # "alive" \/ erred)
=============================================================================
