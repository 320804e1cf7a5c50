------------------------- MODULE TransactionalQueue -------------------------
(***************************************************************************)
(* What a queue of SQL commands promises, whoever runs them and whatever   *)
(* fails: a session claims commands, and then makes what they did count    *)
(* all at once and together with their results, or not at all.             *)
(*                                                                         *)
(* A rogue command commits by itself, which nobody can undo; it ends the   *)
(* claims of its session, and never has a result of success.               *)
(***************************************************************************)
EXTENDS Naturals

CONSTANTS Cmds, Sessions, Free,
          Most    \* how often a session may have run a command by its end

VARIABLES
    rogue,    \* the commands that commit by themselves
    queue,    \* the commands in the queue
    claim,    \* the session that has claimed each command, if any
    effects,  \* how often the effects of each command count
    results   \* how often it has a result of success

vars == <<rogue, queue, claim, effects, results>>

Init ==
    /\ rogue \subseteq Cmds /\ queue \subseteq Cmds
    /\ claim = [c \in Cmds |-> Free]
    /\ effects = [c \in Cmds |-> 0] /\ results = [c \in Cmds |-> 0]

EndClaims(s) == claim' = [c \in Cmds |-> IF claim[c] = s THEN Free ELSE claim[c]]

\* A session claims a command that nobody else has claimed.
Claim(s, c) ==
    /\ c \in queue /\ claim[c] = Free
    /\ claim' = [claim EXCEPT ![c] = s]
    /\ UNCHANGED <<rogue, queue, effects, results>>

\* All that a session did since its first claim counts, with the results; some of
\* its commands leave the queue.
Settle(s) ==
    /\ EndClaims(s)
    /\ \E done \in [Cmds -> 0..Most] :
         /\ \A c \in Cmds : done[c] > 0 => claim[c] = s /\ c \notin rogue
         /\ effects' = [c \in Cmds |-> effects[c] + done[c]]
         /\ results' = [c \in Cmds |-> results[c] + done[c]]
    /\ \E gone \in SUBSET {c \in queue : claim[c] = s} : queue' = queue \ gone
    /\ UNCHANGED rogue

\* Nothing of it does.
GiveUp(s) ==
    /\ EndClaims(s)
    /\ UNCHANGED <<rogue, queue, effects, results>>

\* A rogue command commits.
Escape(s, c) ==
    /\ c \in rogue /\ claim[c] = s
    /\ effects' = [effects EXCEPT ![c] = @ + 1]
    /\ EndClaims(s)
    /\ UNCHANGED <<rogue, queue, results>>

Next == \E s \in Sessions :
    \/ GiveUp(s) \/ Settle(s)
    \/ \E c \in Cmds : Claim(s, c) \/ Escape(s, c)

Spec == Init /\ [][Next]_vars
=============================================================================
