-------------------------- MODULE MCRunnerManager --------------------------
(* Values of the constants for TLC. *)
EXTENDS RunnerManagerProperties, TLC

CONSTANTS q1, q2

MCOneQueue == {q1}
MCTwoQueues == {q1, q2}
\* Nothing orders the queues.
MCQueueSymmetry == Permutations(MCTwoQueues)
=============================================================================
