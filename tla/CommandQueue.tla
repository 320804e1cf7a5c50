---------------------------- MODULE CommandQueue ----------------------------
(***************************************************************************)
(* What the runners of a queue promise its clients, whatever fails: a      *)
(* command is worked on by one session at a time, and it leaves the queue  *)
(* by a session that ran it under its claim, or because a client took it   *)
(* back.  Nothing is promised about how often a command runs.              *)
(***************************************************************************)
CONSTANTS Cmds, Runners, Free, Orphan

VARIABLES
    queue,   \* the commands in the queue
    claim,   \* the session that has claimed each command, if any
    ran      \* whether that session has run it

vars == <<queue, claim, ran>>

TypeOK ==
    /\ queue \subseteq Cmds
    /\ claim \in [Cmds -> Runners \cup {Free, Orphan}]
    /\ ran \in [Cmds -> BOOLEAN]

Init ==
    /\ queue \subseteq Cmds
    /\ claim = [c \in Cmds |-> Free]
    /\ ran = [c \in Cmds |-> FALSE]

\* A client queues a command.
Enqueue(c) ==
    /\ c \notin queue
    /\ queue' = queue \cup {c}
    /\ UNCHANGED <<claim, ran>>

\* A client takes back a command that nobody works on.
Withdraw(c) ==
    /\ c \in queue /\ claim[c] = Free
    /\ queue' = queue \ {c}
    /\ UNCHANGED <<claim, ran>>

\* A session claims a command that nobody else works on.
Claim(c, r) ==
    /\ c \in queue /\ claim[c] = Free
    /\ claim' = [claim EXCEPT ![c] = r]
    /\ UNCHANGED <<queue, ran>>

\* It has run the command.
Run(c) ==
    /\ claim[c] \in Runners
    /\ ran' = [ran EXCEPT ![c] = TRUE]
    /\ UNCHANGED <<queue, claim>>

\* It gives up its claim; the command stays in the queue.
Release(c) ==
    /\ claim[c] # Free
    /\ claim' = [claim EXCEPT ![c] = Free]
    /\ ran' = [ran EXCEPT ![c] = FALSE]
    /\ UNCHANGED queue

\* Its client dies; the claim stands until the server notices.
Abandon(c) ==
    /\ claim[c] \in Runners
    /\ claim' = [claim EXCEPT ![c] = Orphan]
    /\ ran' = [ran EXCEPT ![c] = FALSE]
    /\ UNCHANGED queue

\* It is done with the command, which leaves the queue.
Settle(c) ==
    /\ c \in queue /\ claim[c] \in Runners /\ ran[c]
    /\ queue' = queue \ {c}
    /\ claim' = [claim EXCEPT ![c] = Free]
    /\ ran' = [ran EXCEPT ![c] = FALSE]

Next == \E c \in Cmds :
    \/ Enqueue(c) \/ Withdraw(c) \/ Run(c) \/ Release(c) \/ Abandon(c) \/ Settle(c)
    \/ \E r \in Runners : Claim(c, r)

Spec == Init /\ [][Next]_vars
=============================================================================
