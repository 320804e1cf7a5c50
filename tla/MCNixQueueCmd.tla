--------------------------- MODULE MCNixQueueCmd ---------------------------
(* Values of the constants for TLC, for pipes of two chunks. *)
EXTENDS NixQueueCmdProperties

Run(program, input, timeout) ==
    [program |-> program, input |-> input, timeout |-> timeout]

\* More input than a pipe holds.
MCBigInput == {Run("filter", 3, 0)}
\* Input that is not read.
MCUnread == {Run("oblivious", 1, 0)}
\* An empty cmd_stdin.
MCNoInput == {Run("filter", 0, 0)}
\* Commands with less input than a pipe holds, with as much and with more; that
\* read it or not; and that have a timeout or need none.
MCCommands ==
    MCBigInput \cup MCUnread \cup
    {Run("filter", 1, 0), Run("filter", 2, 0), Run("filter", 2, 1),
     Run("oblivious", 0, 1), Run("oblivious", 2, 1),
     Run("stuck", 1, 1), Run("chatty", 0, 1)}
=============================================================================
