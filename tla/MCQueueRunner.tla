---------------------------- MODULE MCQueueRunner ----------------------------
(* Values of the constants for TLC. *)
EXTENDS QueueRunnerProperties, TLC

CONSTANTS c1, c2, r1, r2

MCOneCmd == {c1}
MCTwoCmds == {c1, c2}
MCOneRunner == {r1}
MCTwoRunners == {r1, r2}
\* Command c1 is the older one.
MCQueuedSince == [c \in Cmds |-> IF c = c1 THEN 1 ELSE 2]
\* Runners are interchangeable: nothing orders them.
MCRunnerSymmetry == Permutations(MCTwoRunners)
==============================================================================
