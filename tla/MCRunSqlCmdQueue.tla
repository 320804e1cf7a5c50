-------------------------- MODULE MCRunSqlCmdQueue --------------------------
(* Two commands, a runner and a call of the procedure. *)
EXTENDS RunSqlCmdQueue

MCCalls ==
    { [commit |-> TRUE, untilEmpty |-> TRUE, max |-> 0],
      [commit |-> FALSE, untilEmpty |-> TRUE, max |-> 0],
      [commit |-> FALSE, untilEmpty |-> FALSE, max |-> 2] }
=============================================================================
