------------------------- MODULE QueueRunnerProofs -------------------------
(***************************************************************************)
(* Theorems of QueueRunner, for any number of commands and runners, any    *)
(* settings of the queue, any faults and any bounds: what each runner does *)
(* to its commands, and what the runners of a queue promise together, that *)
(* is that they keep the contract of CommandQueue, and when a command runs *)
(* again, is looked for and is noticed.                                    *)
(***************************************************************************)
EXTENDS QueueRunnerProperties, SequenceTheorems, FiniteSetTheorems, WellFoundedInduction, TLAPS

USE DEF Goto, Fault, dbVars, sessionVars, threadVars, boundVars, historyVars

\* Where a runner uses queue_cmd, it has one; and only the COMMIT of a live
\* transaction ever finds a verdict on it.
CmdAtHand ==
    \A r \in Runners :
      /\ pc[r] \in {"run", "update", "remember"} => cur[r] \in Cmds
      /\ verdict[r] # "none" => pc[r] = "commit" /\ conn[r] = "ok" /\ cur[r] \in Cmds

\* The loss of a session keeps the types of what it changes.
LEMMA LoseSessionTypes ==
    ASSUME TypeOK, ValuesAssumption, NEW r \in Runners, NEW status \in {"none", "bad"},
           LoseSession(r, status)
    PROVE  /\ lock' \in [Cmds -> Runners \cup {Free, Orphan}]
           /\ conn' \in [Runners -> {"none", "ok", "bad"}]
           /\ listeners' \subseteq Runners
           /\ wire' \in [Runners -> Seq(Payloads)]
           /\ verdict' \in [Runners -> {"none", "delete", "keep", "ignore"}]
<1>1. lock' \in [Cmds -> Runners \cup {Free, Orphan}]
  BY DEF LoseSession, PassLocks, TypeOK
<1>2. conn' \in [Runners -> {"none", "ok", "bad"}] /\ listeners' \subseteq Runners
  BY DEF LoseSession, TypeOK
<1>3. <<>> \in Seq(Payloads)
  OBVIOUS
<1>4. wire' \in [Runners -> Seq(Payloads)]
  BY <1>3 DEF LoseSession, TypeOK
<1>5. verdict' \in [Runners -> {"none", "delete", "keep", "ignore"}]
  BY DEF LoseSession, TypeOK
<1>. QED
  BY <1>1, <1>2, <1>4, <1>5

\* Whatever a SELECT may return is a command.
LEMMA CandidatesAreQueued ==
    ASSUME NEW r \in Runners
    PROVE  /\ \A c \in Candidates(r) : c \in queue /\ lock[c] = Free
           /\ \A c \in Notified(r) : c \in queue /\ lock[c] = Free
           /\ LockedByOthers \subseteq queue
<1>1. \A c \in Eligible(r) : c \in queue /\ lock[c] = Free
  BY DEF Eligible
<1>2. Oldest(Eligible(r)) \subseteq Eligible(r)
  BY DEF Oldest
<1>3. Candidates(r) \subseteq Eligible(r)
  BY <1>2 DEF Candidates
<1>. QED
  BY <1>1, <1>3 DEF Notified, LockedByOthers

\* A step keeps the types, as long as queue_cmd is there where it is used.
LEMMA TypeStep == TypeOK /\ CmdAtHand /\ [Next]_vars => TypeOK'
<1> SUFFICES ASSUME TypeOK, CmdAtHand, [Next]_vars PROVE TypeOK'
  OBVIOUS
<1> USE ValuesAssumption, SettingsAssumption, BoundsAssumption DEF TypeOK, Payloads, Pcs
<1>1. ASSUME NEW r \in Runners, Start(r) PROVE TypeOK'
  BY <1>1 DEF Start
<1>2. ASSUME NEW r \in Runners, Connect(r) PROVE TypeOK'
  <2>1. <<>> \in Seq(Payloads)
    OBVIOUS
  <2>2. libpq' \in [Runners -> Seq(Payloads)]
    BY <1>2, <2>1 DEF Connect
  <2>3. updated' \in [Runners -> SUBSET Cmds] /\ sqlRound' \in [Runners -> 0..BigintMax]
    BY <1>2 DEF Connect
  <2>. QED
    BY <1>2, <2>2, <2>3 DEF Connect
<1>3. ASSUME NEW r \in Runners, GiveUpConnecting(r) PROVE TypeOK'
  BY <1>3 DEF GiveUpConnecting
<1>4. ASSUME NEW r \in Runners, SessionStart(r) PROVE TypeOK'
  BY <1>4 DEF SessionStart, Listen
<1>5. ASSUME NEW r \in Runners, SessionStartFails(r) PROVE TypeOK'
  <2>1. faults' \in 0..MaxFaults
    BY <1>5 DEF SessionStartFails
  <2>2. pc' \in [Runners -> Pcs]
    BY <1>5 DEF SessionStartFails
  <2>3. LoseSession(r, "none")
    BY <1>5 DEF SessionStartFails
  <2>. QED
    BY <1>5, <2>1, <2>2, <2>3, LoseSessionTypes DEF SessionStartFails
<1>6. ASSUME NEW r \in Runners, ClaimNext(r) PROVE TypeOK'
  <2>1. PICK c \in queue : /\ Claim(r, c)
                          /\ seen' = [seen EXCEPT ![r] = @ \cup LockedByOthers \cup {c}]
    BY <1>6, CandidatesAreQueued DEF ClaimNext
  <2>2. c \in Cmds
    OBVIOUS
  <2>3. seen' \in [Runners -> SUBSET Cmds]
    BY <2>1, <2>2, CandidatesAreQueued
  <2>. QED
    BY <2>1, <2>2, <2>3 DEF Claim
<1>7. ASSUME NEW r \in Runners, ClaimNotified(r) PROVE TypeOK'
  <2>1. PICK c \in queue : Claim(r, c) /\ seen' = [seen EXCEPT ![r] = @ \cup {c}]
    BY <1>7, CandidatesAreQueued DEF ClaimNotified
  <2>2. c \in Cmds
    OBVIOUS
  <2>3. seen' \in [Runners -> SUBSET Cmds]
    BY <2>1, <2>2
  <2>. QED
    BY <2>1, <2>2, <2>3 DEF Claim
<1>8. ASSUME NEW r \in Runners, NotifiedGone(r) PROVE TypeOK'
  <2>1. seen' \in [Runners -> SUBSET Cmds]
    BY <1>8, CandidatesAreQueued DEF NotifiedGone
  <2>. QED
    BY <1>8, <2>1 DEF NotifiedGone
<1>9. ASSUME NEW r \in Runners, RoundComplete(r) PROVE TypeOK'
  <2>1. seen' \in [Runners -> SUBSET Cmds]
    BY <1>9, CandidatesAreQueued DEF RoundComplete
  <2>. QED
    BY <1>9, <2>1 DEF RoundComplete
<1>10. ASSUME NEW r \in Runners, EnterRound(r) PROVE TypeOK'
  <2>1. RoundToEnter(r) \in 0..BigintMax /\ RoundToEnter(r) + 1 \in 0..BigintMax
    BY DEF RoundToEnter
  <2>2. /\ updated' \in [Runners -> SUBSET Cmds]
        /\ sqlRound' \in [Runners -> 0..BigintMax]
        /\ handled' \in [Runners -> SUBSET Cmds]
    BY <1>10, <2>1 DEF EnterRound, TruncateUpdated
  <2>3. pc' \in [Runners -> Pcs] /\ round' \in [Runners -> 0..BigintMax]
    BY <1>10, <2>1 DEF EnterRound
  <2>4. \/ UNCHANGED <<lock, conn, listeners, wire, verdict>>
        \/ LoseSession(r, "none")
    BY <1>10 DEF EnterRound
  <2>5. /\ lock' \in [Cmds -> Runners \cup {Free, Orphan}]
        /\ conn' \in [Runners -> {"none", "ok", "bad"}]
        /\ listeners' \subseteq Runners
        /\ wire' \in [Runners -> Seq(Payloads)]
        /\ verdict' \in [Runners -> {"none", "delete", "keep", "ignore"}]
    <3>1. CASE UNCHANGED <<lock, conn, listeners, wire, verdict>>
      BY <3>1
    <3>2. CASE LoseSession(r, "none")
      BY <3>2, LoseSessionTypes
    <3>. QED
      BY <2>4, <3>1, <3>2
  <2>. QED
    BY <1>10, <2>2, <2>3, <2>5 DEF EnterRound
<1>11. ASSUME NEW r \in Runners, EnterRoundFails(r) PROVE TypeOK'
  <2>1. faults' \in 0..MaxFaults
    BY <1>11 DEF EnterRoundFails
  <2>2. pc' \in [Runners -> Pcs]
    BY <1>11 DEF EnterRoundFails
  <2>3. LoseSession(r, "none")
    BY <1>11 DEF EnterRoundFails
  <2>. QED
    BY <1>11, <2>1, <2>2, <2>3, LoseSessionTypes DEF EnterRoundFails
<1>12. ASSUME NEW r \in Runners, RunCmd(r) PROVE TypeOK'
  <2>1. cur[r] \in Cmds
    BY <1>12 DEF RunCmd, CmdAtHand
  <2>2. runs' \in [Cmds -> 0..MaxRuns]
    <3>1. (IF runs[cur[r]] < MaxRuns THEN runs[cur[r]] + 1 ELSE runs[cur[r]]) \in 0..MaxRuns
      BY <2>1
    <3>. QED
      BY <1>12, <2>1, <3>1 DEF RunCmd
  <2>3. handled' \in [Runners -> SUBSET Cmds]
    BY <1>12, <2>1 DEF RunCmd
  <2>. QED
    BY <1>12, <2>2, <2>3 DEF RunCmd
<1>13. ASSUME NEW r \in Runners, UpdateCmd(r) PROVE TypeOK'
  <2>1. verdict' \in [Runners -> {"none", "delete", "keep", "ignore"}]
    BY <1>13 DEF UpdateCmd, EffectKinds
  <2>. QED
    BY <1>13, <2>1 DEF UpdateCmd
<1>14. ASSUME NEW r \in Runners, UpdateFails(r) PROVE TypeOK'
  <2>1. runs' \in [Cmds -> 0..MaxRuns]
    <3>1. runs' = [runs EXCEPT ![cur[r]] = 0]
      BY <1>14 DEF UpdateFails
    <3>2. 0 \in 0..MaxRuns /\ runs \in [Cmds -> 0..MaxRuns]
      OBVIOUS
    <3>. QED
      BY <3>1, <3>2
  <2>2. lock' \in [Cmds -> Runners \cup {Free, Orphan}]
    BY <1>14 DEF UpdateFails, PassLocks
  <2>. QED
    BY <1>14, <2>1, <2>2 DEF UpdateFails
<1>15. ASSUME NEW r \in Runners, RememberFailed(r) PROVE TypeOK'
  <2>1. cur[r] \in Cmds
    BY <1>15 DEF RememberFailed, CmdAtHand
  <2>2. updated' \in [Runners -> SUBSET Cmds]
    BY <1>15, <2>1 DEF RememberFailed, Remember
  <2>. QED
    BY <1>15, <2>2 DEF RememberFailed
<1>16. ASSUME NEW r \in Runners, Commit(r) PROVE TypeOK'
  <2>1. lock' \in [Cmds -> Runners \cup {Free, Orphan}]
    BY <1>16 DEF Commit, PassLocks
  <2>2. verdict[r] \in {"delete", "keep", "ignore"} => cur[r] \in Cmds
    BY DEF CmdAtHand
  <2>4. Settle(r)
    BY <1>16 DEF Commit
  <2>5. queue' \subseteq Cmds
    BY <2>4 DEF Settle
  <2>6. updated' \in [Runners -> SUBSET Cmds]
    BY <2>2, <2>4 DEF Settle
  <2>3. runs' \in [Cmds -> 0..MaxRuns]
    <3>1. runs' \in {runs, [runs EXCEPT ![cur[r]] = 0]}
      BY <2>4 DEF Settle
    <3>2. 0 \in 0..MaxRuns /\ runs \in [Cmds -> 0..MaxRuns]
      OBVIOUS
    <3>. QED
      BY <3>1, <3>2
  <2>. QED
    BY <1>16, <2>1, <2>3, <2>5, <2>6 DEF Commit
<1>17. ASSUME NEW r \in Runners, BackToConnect(r) PROVE TypeOK'
  BY <1>17 DEF BackToConnect
<1>18. ASSUME NEW r \in Runners, TakeNotification(r) PROVE TypeOK'
  <2>1. libpq[r] \in Seq(Payloads) /\ libpq[r] # <<>>
    BY <1>18 DEF TakeNotification
  <2>2. Tail(libpq[r]) \in Seq(Payloads)
    BY <2>1
  <2>. QED
    BY <1>18, <2>2 DEF TakeNotification, HandleNotification
<1>19. ASSUME NEW r \in Runners, PollTimeout(r) PROVE TypeOK'
  BY <1>19 DEF PollTimeout, Reselect
<1>20. ASSUME NEW r \in Runners, ConsumeInput(r) PROVE TypeOK'
  BY <1>20 DEF ConsumeInput
<1>21. ASSUME NEW r \in Runners, DrainKillPipe(r) PROVE TypeOK'
  <2>1. pc' \in [Runners -> Pcs] /\ killPipe' \in [Runners -> 0..MaxKills]
    BY <1>21 DEF DrainKillPipe
  <2>2. LoseSession(r, "none")
    BY <1>21 DEF DrainKillPipe
  <2>. QED
    BY <1>21, <2>1, <2>2, LoseSessionTypes DEF DrainKillPipe
<1>22. ASSUME NEW r \in Runners, SelectFails(r) PROVE TypeOK'
  BY <1>22 DEF SelectFails
<1>23. ASSUME NEW r \in Runners, CommitFails(r) PROVE TypeOK'
  <2>1. lock' \in [Cmds -> Runners \cup {Free, Orphan}]
    BY <1>23 DEF CommitFails, PassLocks
  <2>2. faults' \in 0..MaxFaults
    BY <1>23 DEF CommitFails
  <2>. QED
    BY <1>23, <2>1, <2>2 DEF CommitFails
<1>24. ASSUME NEW r \in Runners, CommitUnacknowledged(r) PROVE TypeOK'
  <2>1. lock' \in [Cmds -> Runners \cup {Free, Orphan}]
    BY <1>24 DEF CommitUnacknowledged, PassLocks
  <2>2. verdict[r] \in {"delete", "keep", "ignore"} => cur[r] \in Cmds
    BY DEF CmdAtHand
  <2>4. Settle(r)
    BY <1>24 DEF CommitUnacknowledged
  <2>5. queue' \subseteq Cmds
    BY <2>4 DEF Settle
  <2>6. updated' \in [Runners -> SUBSET Cmds]
    BY <2>2, <2>4 DEF Settle
  <2>3. conn' \in [Runners -> {"none", "ok", "bad"}] /\ listeners' \subseteq Runners
        /\ wire' \in [Runners -> Seq(Payloads)]
    <3>1. <<>> \in Seq(Payloads)
      OBVIOUS
    <3>. QED
      BY <1>24, <3>1 DEF CommitUnacknowledged
  <2>7. runs' \in [Cmds -> 0..MaxRuns]
    <3>1. runs' \in {runs, [runs EXCEPT ![cur[r]] = 0]}
      BY <2>4 DEF Settle
    <3>2. 0 \in 0..MaxRuns /\ runs \in [Cmds -> 0..MaxRuns]
      OBVIOUS
    <3>. QED
      BY <3>1, <3>2
  <2>8. verdict' \in [Runners -> {"none", "delete", "keep", "ignore"}]
    BY <1>24 DEF CommitUnacknowledged
  <2>9. faults' \in 0..MaxFaults
    BY <1>24 DEF CommitUnacknowledged
  <2>10. pc' \in [Runners -> Pcs] /\ cur' \in [Runners -> Cmds \cup {NoCmd}]
    BY <1>24 DEF CommitUnacknowledged
  <2>. QED
    BY <1>24, <2>1, <2>3, <2>5, <2>6, <2>7, <2>8, <2>9, <2>10 DEF CommitUnacknowledged
<1>25. ASSUME NEW r \in Runners, ConnLoss(r) PROVE TypeOK'
  <2>1. faults' \in 0..MaxFaults
    BY <1>25 DEF ConnLoss
  <2>2. LoseSession(r, "bad")
    BY <1>25 DEF ConnLoss
  <2>. QED
    BY <1>25, <2>1, <2>2, LoseSessionTypes DEF ConnLoss
<1>26. ASSUME NEW r \in Runners, Crash(r) PROVE TypeOK'
  <2>1. faults' \in 0..MaxFaults
    BY <1>26 DEF Crash
  <2>2. LoseSession(r, "none")
    BY <1>26 DEF Crash
  <2>3. pc' \in [Runners -> Pcs]
    BY <1>26 DEF Crash
  <2>. QED
    BY <1>26, <2>1, <2>2, <2>3, LoseSessionTypes DEF Crash
<1>27. ASSUME NEW r \in Runners, InputArrives(r) PROVE TypeOK'
  <2>1. wire[r] \in Seq(Payloads) /\ wire[r] # <<>> /\ libpq[r] \in Seq(Payloads)
    BY <1>27 DEF InputArrives
  <2>2. Head(wire[r]) \in Payloads /\ Tail(wire[r]) \in Seq(Payloads)
    BY <2>1
  <2>3. Append(libpq[r], Head(wire[r])) \in Seq(Payloads)
    BY <2>1, <2>2
  <2>. QED
    BY <1>27, <2>2, <2>3 DEF InputArrives
<1>28. ASSUME NEW r \in Runners, Tick(r) PROVE TypeOK'
  BY <1>28 DEF Tick
<1>29. ASSUME NEW r \in Runners, Kill(r) PROVE TypeOK'
  <2>1. killPipe[r] + 1 \in 0..MaxKills
    BY <1>29 DEF Kill
  <2>. QED
    BY <1>29, <2>1 DEF Kill
<1>30. ASSUME NEW r \in Runners, Signal(r) PROVE TypeOK'
  BY <1>30 DEF Signal
<1>31. ASSUME NEW r \in Runners, Restart(r) PROVE TypeOK'
  BY <1>31 DEF Restart
<1>32. ASSUME NEW c \in Cmds, Enqueue(c) PROVE TypeOK'
  BY <1>32 DEF Enqueue
<1>33. ASSUME NEW c \in Cmds, Withdraw(c) PROVE TypeOK'
  BY <1>33 DEF Withdraw
<1>34. ASSUME NEW c \in Cmds, ReapOrphan(c) PROVE TypeOK'
  BY <1>34 DEF ReapOrphan
<1>35. ASSUME NEW p \in {Other, Malformed}, Stray(p) PROVE TypeOK'
  BY <1>35 DEF Stray
<1>36. CASE UNCHANGED vars
  BY <1>36 DEF vars
<1>37. ASSUME NEW r \in Runners, Step(r) PROVE TypeOK'
  BY <1>37, <1>1, <1>2, <1>3, <1>4, <1>5, <1>6, <1>7, <1>8, <1>9,
     <1>10, <1>11, <1>12, <1>13, <1>14, <1>15, <1>16, <1>17,
     <1>18, <1>19, <1>20, <1>21 DEF Step, Select, Poll
<1>38. ASSUME NEW r \in Runners, Failure(r) PROVE TypeOK'
  BY <1>38, <1>22, <1>23, <1>24, <1>25, <1>26 DEF Failure
<1>39. CASE Client
  BY <1>39, <1>32, <1>33, <1>34, <1>35 DEF Client
<1>. QED
  BY <1>27, <1>28, <1>29, <1>30, <1>31, <1>36, <1>37, <1>38, <1>39 DEF Next

\* A step keeps queue_cmd where it is used.
LEMMA CmdAtHandStep == TypeOK /\ CmdAtHand /\ [Next]_vars => CmdAtHand'
<1> SUFFICES ASSUME TypeOK, CmdAtHand, [Next]_vars PROVE CmdAtHand'
  OBVIOUS
<1> USE DEF TypeOK, CmdAtHand
<1>1. ASSUME NEW r \in Runners, Start(r) PROVE CmdAtHand'
  BY <1>1 DEF Start
<1>2. ASSUME NEW r \in Runners, Connect(r) PROVE CmdAtHand'
  BY <1>2 DEF Connect
<1>3. ASSUME NEW r \in Runners, GiveUpConnecting(r) PROVE CmdAtHand'
  BY <1>3 DEF GiveUpConnecting
<1>4. ASSUME NEW r \in Runners, SessionStart(r) PROVE CmdAtHand'
  BY <1>4 DEF SessionStart
<1>5. ASSUME NEW r \in Runners, SessionStartFails(r) PROVE CmdAtHand'
  BY <1>5 DEF SessionStartFails, LoseSession
<1>6. ASSUME NEW r \in Runners, ClaimNext(r) PROVE CmdAtHand'
  BY <1>6 DEF ClaimNext, Claim, Candidates, Oldest, Eligible
<1>7. ASSUME NEW r \in Runners, ClaimNotified(r) PROVE CmdAtHand'
  BY <1>7 DEF ClaimNotified, Claim, Notified
<1>8. ASSUME NEW r \in Runners, NotifiedGone(r) PROVE CmdAtHand'
  BY <1>8 DEF NotifiedGone
<1>9. ASSUME NEW r \in Runners, RoundComplete(r) PROVE CmdAtHand'
  BY <1>9 DEF RoundComplete
<1>10. ASSUME NEW r \in Runners, EnterRound(r) PROVE CmdAtHand'
  BY <1>10 DEF EnterRound, LoseSession
<1>11. ASSUME NEW r \in Runners, EnterRoundFails(r) PROVE CmdAtHand'
  BY <1>11 DEF EnterRoundFails, LoseSession
<1>12. ASSUME NEW r \in Runners, RunCmd(r) PROVE CmdAtHand'
  BY <1>12 DEF RunCmd
<1>13. ASSUME NEW r \in Runners, UpdateCmd(r) PROVE CmdAtHand'
  BY <1>13 DEF UpdateCmd, EffectKinds
<1>14. ASSUME NEW r \in Runners, UpdateFails(r) PROVE CmdAtHand'
  BY <1>14 DEF UpdateFails
<1>15. ASSUME NEW r \in Runners, RememberFailed(r) PROVE CmdAtHand'
  BY <1>15 DEF RememberFailed
<1>16. ASSUME NEW r \in Runners, Commit(r) PROVE CmdAtHand'
  BY <1>16 DEF Commit
<1>17. ASSUME NEW r \in Runners, BackToConnect(r) PROVE CmdAtHand'
  BY <1>17 DEF BackToConnect
<1>18. ASSUME NEW r \in Runners, TakeNotification(r) PROVE CmdAtHand'
  BY <1>18 DEF TakeNotification, HandleNotification
<1>19. ASSUME NEW r \in Runners, PollTimeout(r) PROVE CmdAtHand'
  BY <1>19 DEF PollTimeout, Reselect
<1>20. ASSUME NEW r \in Runners, ConsumeInput(r) PROVE CmdAtHand'
  BY <1>20 DEF ConsumeInput
<1>21. ASSUME NEW r \in Runners, DrainKillPipe(r) PROVE CmdAtHand'
  BY <1>21 DEF DrainKillPipe, LoseSession
<1>22. ASSUME NEW r \in Runners, SelectFails(r) PROVE CmdAtHand'
  BY <1>22 DEF SelectFails
<1>23. ASSUME NEW r \in Runners, CommitFails(r) PROVE CmdAtHand'
  BY <1>23 DEF CommitFails
<1>24. ASSUME NEW r \in Runners, CommitUnacknowledged(r) PROVE CmdAtHand'
  BY <1>24 DEF CommitUnacknowledged
<1>25. ASSUME NEW r \in Runners, ConnLoss(r) PROVE CmdAtHand'
  BY <1>25 DEF ConnLoss, LoseSession
<1>26. ASSUME NEW r \in Runners, Crash(r) PROVE CmdAtHand'
  BY <1>26 DEF Crash, LoseSession
<1>27. ASSUME NEW r \in Runners, InputArrives(r) PROVE CmdAtHand'
  BY <1>27 DEF InputArrives
<1>28. ASSUME NEW r \in Runners, Tick(r) PROVE CmdAtHand'
  BY <1>28 DEF Tick
<1>29. ASSUME NEW r \in Runners, Kill(r) PROVE CmdAtHand'
  BY <1>29 DEF Kill
<1>30. ASSUME NEW r \in Runners, Signal(r) PROVE CmdAtHand'
  BY <1>30 DEF Signal
<1>31. ASSUME NEW r \in Runners, Restart(r) PROVE CmdAtHand'
  BY <1>31 DEF Restart
<1>32. ASSUME NEW c \in Cmds, Enqueue(c) PROVE CmdAtHand'
  BY <1>32 DEF Enqueue
<1>33. ASSUME NEW c \in Cmds, Withdraw(c) PROVE CmdAtHand'
  BY <1>33 DEF Withdraw
<1>34. ASSUME NEW c \in Cmds, ReapOrphan(c) PROVE CmdAtHand'
  BY <1>34 DEF ReapOrphan
<1>35. ASSUME NEW p \in {Other, Malformed}, Stray(p) PROVE CmdAtHand'
  BY <1>35 DEF Stray
<1>36. CASE UNCHANGED vars
  BY <1>36 DEF vars
<1>37. ASSUME NEW r \in Runners, Step(r) PROVE CmdAtHand'
  BY <1>37, <1>1, <1>2, <1>3, <1>4, <1>5, <1>6, <1>7, <1>8, <1>9,
     <1>10, <1>11, <1>12, <1>13, <1>14, <1>15, <1>16, <1>17,
     <1>18, <1>19, <1>20, <1>21 DEF Step, Select, Poll
<1>38. ASSUME NEW r \in Runners, Failure(r) PROVE CmdAtHand'
  BY <1>38, <1>22, <1>23, <1>24, <1>25, <1>26 DEF Failure
<1>39. CASE Client
  BY <1>39, <1>32, <1>33, <1>34, <1>35 DEF Client
<1>. QED
  BY <1>27, <1>28, <1>29, <1>30, <1>31, <1>36, <1>37, <1>38, <1>39 DEF Next

\* The data structures of the runners, their sessions and the queue keep their
\* types: in particular reselect_round stays within the bounds of the counter.
THEOREM TypeCorrect == Spec => []TypeOK
<1>1. Init => TypeOK /\ CmdAtHand
  BY ValuesAssumption, SettingsAssumption, BoundsAssumption
  DEF Init, TypeOK, Pcs, Payloads, CmdAtHand
<1>. QED
  BY <1>1, TypeStep, CmdAtHandStep, PTL DEF Spec

\* The loss of a session ends every claim of it, and touches no other.
LEMMA LoseSessionEndsClaims ==
    ASSUME TypeOK, ClaimBacked, ValuesAssumption, NEW r \in Runners,
           NEW status \in {"none", "bad"}, LoseSession(r, status),
           NEW p, pc' = [pc EXCEPT ![r] = p], UNCHANGED <<queue, cur>>
    PROVE  ClaimBacked'
<1>1. conn'[r] # "ok" /\ \A q \in Runners \ {r} : conn'[q] = conn[q]
  BY DEF LoseSession, TypeOK
<1>2. \A q \in Runners \ {r} : pc'[q] = pc[q] /\ verdict'[q] = verdict[q]
  BY DEF LoseSession, TypeOK
<1>3. \A c \in Cmds : lock'[c] = IF lock[c] = r THEN Orphan ELSE lock[c]
  BY DEF LoseSession, PassLocks
<1>4. \A c \in Cmds : lock'[c] # r
  BY <1>3 DEF ValuesAssumption
<1>5. \A q \in Runners \ {r}, c \in Cmds : lock'[c] = q <=> lock[c] = q
  BY <1>3 DEF ValuesAssumption
<1>6. \A c \in Cmds : ~Working(r, c)'
  BY <1>1 DEF Working
<1>7. \A q \in Runners \ {r}, c \in Cmds : Working(q, c)' <=> Working(q, c)
  BY <1>1, <1>2 DEF Working
<1>8. \A q \in Runners, c \in Cmds : lock'[c] = q <=> Working(q, c)'
  BY <1>4, <1>5, <1>6, <1>7 DEF ClaimBacked
<1>9. \A c \in Cmds : lock'[c] # Free => c \in queue'
  BY <1>3 DEF ClaimBacked, ValuesAssumption
<1>. QED
  BY <1>8, <1>9 DEF ClaimBacked

\* The end of a transaction by COMMIT or ROLLBACK ends the claim of its session,
\* and at most takes the claimed row from the queue.
LEMMA TransactionEndsClaim ==
    ASSUME TypeOK, CmdAtHand, ClaimBacked, ValuesAssumption,
           NEW r \in Runners, PassLocks(r, Free),
           NEW p \in {"poll", "remember"}, pc' = [pc EXCEPT ![r] = p],
           verdict'[r] = "none",
           \A q \in Runners \ {r} : /\ verdict'[q] = verdict[q]
                                    /\ conn'[q] = conn[q] /\ cur'[q] = cur[q],
           \A c \in queue : c \in queue' \/ lock[c] = r
    PROVE  ClaimBacked'
<1>1. pc'[r] = p /\ \A q \in Runners \ {r} : pc'[q] = pc[q]
  BY DEF TypeOK
<1>2. \A c \in Cmds : lock'[c] = IF lock[c] = r THEN Free ELSE lock[c]
  BY DEF PassLocks
<1>3. \A c \in Cmds : lock'[c] # r
  BY <1>2 DEF ValuesAssumption
<1>4. \A q \in Runners \ {r}, c \in Cmds : lock'[c] = q <=> lock[c] = q
  BY <1>2 DEF ValuesAssumption
<1>5. \A c \in Cmds : ~Working(r, c)'
  BY <1>1 DEF Working
<1>6. \A q \in Runners \ {r}, c \in Cmds : Working(q, c)' <=> Working(q, c)
  BY <1>1 DEF Working
<1>7. \A q \in Runners, c \in Cmds : lock'[c] = q <=> Working(q, c)'
  BY <1>3, <1>4, <1>5, <1>6 DEF ClaimBacked
<1>8. \A c \in Cmds : lock'[c] # Free => c \in queue'
  BY <1>2 DEF ClaimBacked
<1>. QED
  BY <1>7, <1>8 DEF ClaimBacked

\* A SELECT that returns a free row of the queue begins a claim of it.
LEMMA ClaimBegins ==
    ASSUME TypeOK, CmdAtHand, ClaimBacked, ValuesAssumption, NEW r \in Runners,
           conn[r] = "ok", NEW c \in queue, lock[c] = Free, Claim(r, c)
    PROVE  ClaimBacked'
<1>1. c \in Cmds /\ pc[r] = "select" /\ UNCHANGED <<queue, conn, verdict>>
  BY DEF Claim, TypeOK
<1>2. \A d \in Cmds : lock'[d] = IF d = c THEN r ELSE lock[d]
  BY DEF Claim, TypeOK
<1>3. pc'[r] = "run" /\ cur'[r] = c
  BY DEF Claim, TypeOK
<1>4. \A q \in Runners \ {r} : pc'[q] = pc[q] /\ cur'[q] = cur[q]
  BY DEF Claim, TypeOK
<1>5. \A d \in Cmds : ~Working(r, d)
  BY <1>1 DEF Working, CmdAtHand
<1>6. \A d \in Cmds : Working(r, d)' <=> d = c
  BY <1>1, <1>3 DEF Working
<1>7. \A q \in Runners \ {r}, d \in Cmds : Working(q, d)' <=> Working(q, d)
  BY <1>1, <1>4 DEF Working
<1>8. \A d \in Cmds : lock'[d] = r <=> Working(r, d)'
  BY <1>2, <1>5, <1>6 DEF ClaimBacked
<1>9. \A q \in Runners \ {r}, d \in Cmds : lock'[d] = q <=> Working(q, d)'
  BY <1>2, <1>7 DEF ClaimBacked, ValuesAssumption
<1>10. \A d \in Cmds : lock'[d] # Free => d \in queue'
  BY <1>1, <1>2 DEF ClaimBacked
<1>. QED
  BY <1>8, <1>9, <1>10 DEF ClaimBacked

\* A step keeps ClaimBacked: only a free row is ever claimed, and whatever ends a
\* claim, be it COMMIT, ROLLBACK or the loss of the session, ends the lock.
LEMMA ClaimBackedStep ==
    TypeOK /\ CmdAtHand /\ ClaimBacked /\ [Next]_vars => ClaimBacked'
<1> SUFFICES ASSUME TypeOK, CmdAtHand, ClaimBacked, [Next]_vars PROVE ClaimBacked'
  OBVIOUS
<1> USE ValuesAssumption, SettingsAssumption DEF TypeOK, CmdAtHand, ClaimBacked, Working
<1>1. ASSUME NEW r \in Runners, Start(r) PROVE ClaimBacked'
  BY <1>1 DEF Start
<1>2. ASSUME NEW r \in Runners, Connect(r) PROVE ClaimBacked'
  BY <1>2 DEF Connect
<1>3. ASSUME NEW r \in Runners, GiveUpConnecting(r) PROVE ClaimBacked'
  BY <1>3 DEF GiveUpConnecting
<1>4. ASSUME NEW r \in Runners, SessionStart(r) PROVE ClaimBacked'
  BY <1>4 DEF SessionStart
<1>5. ASSUME NEW r \in Runners, SessionStartFails(r) PROVE ClaimBacked'
  <2>1. LoseSession(r, "none") /\ pc' = [pc EXCEPT ![r] = "done"] /\ UNCHANGED <<queue, cur>>
    BY <1>5 DEF SessionStartFails
  <2>. QED
    BY <2>1, LoseSessionEndsClaims
<1>6. ASSUME NEW r \in Runners, ClaimNext(r) PROVE ClaimBacked'
  <2>1. PICK c \in queue : conn[r] = "ok" /\ lock[c] = Free /\ Claim(r, c)
    BY <1>6, CandidatesAreQueued DEF ClaimNext
  <2>. QED
    BY <2>1, ClaimBegins
<1>7. ASSUME NEW r \in Runners, ClaimNotified(r) PROVE ClaimBacked'
  <2>1. PICK c \in queue : conn[r] = "ok" /\ lock[c] = Free /\ Claim(r, c)
    BY <1>7, CandidatesAreQueued DEF ClaimNotified
  <2>. QED
    BY <2>1, ClaimBegins
<1>8. ASSUME NEW r \in Runners, NotifiedGone(r) PROVE ClaimBacked'
  BY <1>8 DEF NotifiedGone
<1>9. ASSUME NEW r \in Runners, RoundComplete(r) PROVE ClaimBacked'
  BY <1>9 DEF RoundComplete
<1>10. ASSUME NEW r \in Runners, EnterRound(r) PROVE ClaimBacked'
  <2>1. CASE RoundToEnter(r) <= IntMax
    <3>1. /\ pc[r] = "empty" /\ pc' = [pc EXCEPT ![r] = "commit"]
          /\ UNCHANGED <<queue, lock, conn, verdict, cur>>
      BY <1>10, <2>1 DEF EnterRound
    <3>. QED
      BY <3>1
  <2>2. CASE ~(RoundToEnter(r) <= IntMax)
    <3>1. /\ LoseSession(r, "none") /\ pc' = [pc EXCEPT ![r] = "crashed"]
          /\ UNCHANGED <<queue, cur>>
      BY <1>10, <2>2 DEF EnterRound
    <3>. QED
      BY <3>1, LoseSessionEndsClaims
  <2>. QED
    BY <2>1, <2>2
<1>11. ASSUME NEW r \in Runners, EnterRoundFails(r) PROVE ClaimBacked'
  <2>1. LoseSession(r, "none") /\ pc' = [pc EXCEPT ![r] = "done"] /\ UNCHANGED <<queue, cur>>
    BY <1>11 DEF EnterRoundFails
  <2>. QED
    BY <2>1, LoseSessionEndsClaims
<1>12. ASSUME NEW r \in Runners, RunCmd(r) PROVE ClaimBacked'
  BY <1>12 DEF RunCmd
<1>13. ASSUME NEW r \in Runners, UpdateCmd(r) PROVE ClaimBacked'
  BY <1>13 DEF UpdateCmd, EffectKinds
<1>14. ASSUME NEW r \in Runners, UpdateFails(r) PROVE ClaimBacked'
  <2>1. /\ PassLocks(r, Free) /\ pc' = [pc EXCEPT ![r] = "remember"]
        /\ pc[r] = "update" /\ UNCHANGED <<queue, conn, verdict, cur>>
    BY <1>14 DEF UpdateFails
  <2>2. verdict'[r] = "none"
    BY <2>1
  <2>. QED
    BY <2>1, <2>2, TransactionEndsClaim
<1>15. ASSUME NEW r \in Runners, RememberFailed(r) PROVE ClaimBacked'
  BY <1>15 DEF RememberFailed
<1>16. ASSUME NEW r \in Runners, Commit(r) PROVE ClaimBacked'
  <2>1. /\ pc[r] = "commit" /\ pc' = [pc EXCEPT ![r] = "poll"]
        /\ PassLocks(r, Free) /\ verdict' = [verdict EXCEPT ![r] = "none"]
        /\ cur' = [cur EXCEPT ![r] = NoCmd] /\ UNCHANGED conn
        /\ queue' = IF verdict[r] = "delete" THEN queue \ {cur[r]} ELSE queue
    BY <1>16 DEF Commit, Settle
  <2>2. verdict[r] = "delete" => lock[cur[r]] = r
    OBVIOUS
  <2>3. \A c \in queue : c \in queue' \/ lock[c] = r
    BY <2>1, <2>2
  <2>4. verdict'[r] = "none"
    BY <2>1
  <2>5. \A q \in Runners \ {r} : /\ verdict'[q] = verdict[q]
                                 /\ conn'[q] = conn[q] /\ cur'[q] = cur[q]
    BY <2>1
  <2>. QED
    BY <2>1, <2>3, <2>4, <2>5, TransactionEndsClaim
<1>17. ASSUME NEW r \in Runners, BackToConnect(r) PROVE ClaimBacked'
  BY <1>17 DEF BackToConnect
<1>18. ASSUME NEW r \in Runners, TakeNotification(r) PROVE ClaimBacked'
  <2>1. /\ pc[r] = "poll" /\ pc' \in {pc, [pc EXCEPT ![r] = "select"]}
        /\ UNCHANGED <<queue, lock, conn, verdict, cur>>
    BY <1>18 DEF TakeNotification, HandleNotification
  <2>. QED
    BY <2>1
<1>19. ASSUME NEW r \in Runners, PollTimeout(r) PROVE ClaimBacked'
  BY <1>19 DEF PollTimeout, Reselect
<1>20. ASSUME NEW r \in Runners, ConsumeInput(r) PROVE ClaimBacked'
  BY <1>20 DEF ConsumeInput
<1>21. ASSUME NEW r \in Runners, DrainKillPipe(r) PROVE ClaimBacked'
  <2>1. PICK end \in {"done", "crashed"} : pc' = [pc EXCEPT ![r] = end]
    BY <1>21 DEF DrainKillPipe
  <2>2. LoseSession(r, "none") /\ UNCHANGED <<queue, cur>>
    BY <1>21 DEF DrainKillPipe
  <2>. QED
    BY <2>1, <2>2, LoseSessionEndsClaims
<1>22. ASSUME NEW r \in Runners, SelectFails(r) PROVE ClaimBacked'
  BY <1>22 DEF SelectFails
<1>23. ASSUME NEW r \in Runners, CommitFails(r) PROVE ClaimBacked'
  <2>1. /\ pc' = [pc EXCEPT ![r] = "poll"]
        /\ PassLocks(r, Free) /\ verdict' = [verdict EXCEPT ![r] = "none"]
        /\ cur' = [cur EXCEPT ![r] = NoCmd] /\ UNCHANGED <<conn, queue>>
    BY <1>23 DEF CommitFails
  <2>2. verdict'[r] = "none"
    BY <2>1
  <2>3. \A q \in Runners \ {r} : /\ verdict'[q] = verdict[q]
                                 /\ conn'[q] = conn[q] /\ cur'[q] = cur[q]
    BY <2>1
  <2>. QED
    BY <2>1, <2>2, <2>3, TransactionEndsClaim
<1>24. ASSUME NEW r \in Runners, CommitUnacknowledged(r) PROVE ClaimBacked'
  <2>1. /\ pc[r] = "commit" /\ pc' = [pc EXCEPT ![r] = "poll"]
        /\ PassLocks(r, Free) /\ verdict' = [verdict EXCEPT ![r] = "none"]
        /\ cur' = [cur EXCEPT ![r] = NoCmd] /\ conn' = [conn EXCEPT ![r] = "bad"]
        /\ queue' = IF verdict[r] = "delete" THEN queue \ {cur[r]} ELSE queue
    BY <1>24 DEF CommitUnacknowledged, Settle
  <2>2. verdict[r] = "delete" => lock[cur[r]] = r
    OBVIOUS
  <2>3. \A c \in queue : c \in queue' \/ lock[c] = r
    BY <2>1, <2>2
  <2>4. verdict'[r] = "none"
    BY <2>1
  <2>5. \A q \in Runners \ {r} : /\ verdict'[q] = verdict[q]
                                 /\ conn'[q] = conn[q] /\ cur'[q] = cur[q]
    BY <2>1
  <2>. QED
    BY <2>1, <2>3, <2>4, <2>5, TransactionEndsClaim
<1>25. ASSUME NEW r \in Runners, ConnLoss(r) PROVE ClaimBacked'
  <2>1. /\ LoseSession(r, "bad") /\ pc' = [pc EXCEPT ![r] = pc[r]]
        /\ UNCHANGED <<queue, cur>>
    BY <1>25 DEF ConnLoss
  <2>. QED
    BY <2>1, LoseSessionEndsClaims
<1>26. ASSUME NEW r \in Runners, Crash(r) PROVE ClaimBacked'
  <2>1. /\ LoseSession(r, "none") /\ pc' = [pc EXCEPT ![r] = "crashed"]
        /\ UNCHANGED <<queue, cur>>
    BY <1>26 DEF Crash
  <2>. QED
    BY <2>1, LoseSessionEndsClaims
<1>27. ASSUME NEW r \in Runners, InputArrives(r) PROVE ClaimBacked'
  BY <1>27 DEF InputArrives
<1>28. ASSUME NEW r \in Runners, Tick(r) PROVE ClaimBacked'
  BY <1>28 DEF Tick
<1>29. ASSUME NEW r \in Runners, Kill(r) PROVE ClaimBacked'
  BY <1>29 DEF Kill
<1>30. ASSUME NEW r \in Runners, Signal(r) PROVE ClaimBacked'
  BY <1>30 DEF Signal
<1>31. ASSUME NEW r \in Runners, Restart(r) PROVE ClaimBacked'
  BY <1>31 DEF Restart
<1>32. ASSUME NEW c \in Cmds, Enqueue(c) PROVE ClaimBacked'
  BY <1>32 DEF Enqueue
<1>33. ASSUME NEW c \in Cmds, Withdraw(c) PROVE ClaimBacked'
  BY <1>33 DEF Withdraw
<1>34. ASSUME NEW c \in Cmds, ReapOrphan(c) PROVE ClaimBacked'
  BY <1>34 DEF ReapOrphan
<1>35. ASSUME NEW p \in {Other, Malformed}, Stray(p) PROVE ClaimBacked'
  BY <1>35 DEF Stray
<1>36. CASE UNCHANGED vars
  BY <1>36 DEF vars
<1>37. ASSUME NEW r \in Runners, Step(r) PROVE ClaimBacked'
  BY <1>37, <1>1, <1>2, <1>3, <1>4, <1>5, <1>6, <1>7, <1>8, <1>9,
     <1>10, <1>11, <1>12, <1>13, <1>14, <1>15, <1>16, <1>17,
     <1>18, <1>19, <1>20, <1>21 DEF Step, Select, Poll
<1>38. ASSUME NEW r \in Runners, Failure(r) PROVE ClaimBacked'
  BY <1>38, <1>22, <1>23, <1>24, <1>25, <1>26 DEF Failure
<1>39. CASE Client
  BY <1>39, <1>32, <1>33, <1>34, <1>35 DEF Client
<1>. QED
  BY <1>27, <1>28, <1>29, <1>30, <1>31, <1>36, <1>37, <1>38, <1>39 DEF Next

\* A runner with a live session holds the lock of exactly the command it works on,
\* however many runners, commands and faults there are.
THEOREM ClaimsAreBacked == Spec => []ClaimBacked
<1>1. Init => TypeOK /\ CmdAtHand /\ ClaimBacked
  BY ValuesAssumption, SettingsAssumption, BoundsAssumption
  DEF Init, TypeOK, Pcs, Payloads, CmdAtHand, ClaimBacked, Working
<1>. QED
  BY <1>1, TypeStep, CmdAtHandStep, ClaimBackedStep, PTL DEF Spec

-----------------------------------------------------------------------------
(* The contract *)

\* Whether the session that has claimed c has run it.
Ran(c) ==
    /\ lock[c] \in Runners
    /\ cur[lock[c]] = c
    /\ pc[lock[c]] \in {"update", "commit"}

Rans == [c \in Cmds |-> Ran(c)]

\* What has been run stays so, but for one command.
LEMMA RanChanges ==
    /\ (\A c \in Cmds : Ran(c)' <=> Ran(c)) => UNCHANGED Rans
    /\ \A c \in Cmds :
         /\ (\A d \in Cmds : Ran(d)' <=> (IF d = c THEN TRUE ELSE Ran(d)))
              => Rans' = [Rans EXCEPT ![c] = TRUE]
         /\ (\A d \in Cmds : Ran(d)' <=> (IF d = c THEN FALSE ELSE Ran(d)))
              => Rans' = [Rans EXCEPT ![c] = FALSE]
<1>1. (\A c \in Cmds : Ran(c)' <=> Ran(c)) => UNCHANGED Rans
  BY DEF Rans, Ran
<1>2. ASSUME NEW c \in Cmds, \A d \in Cmds : Ran(d)' <=> (IF d = c THEN TRUE ELSE Ran(d))
      PROVE  Rans' = [Rans EXCEPT ![c] = TRUE]
  BY <1>2 DEF Rans, Ran
<1>3. ASSUME NEW c \in Cmds, \A d \in Cmds : Ran(d)' <=> (IF d = c THEN FALSE ELSE Ran(d))
      PROVE  Rans' = [Rans EXCEPT ![c] = FALSE]
  BY <1>3 DEF Rans, Ran
<1>. QED
  BY <1>1, <1>2, <1>3

\* The steps of the contract, in terms of the state of the runners.
LEMMA ContractSteps ==
    ASSUME NEW c \in Cmds
    PROVE  /\ (c \notin queue /\ queue' = queue \cup {c} /\ UNCHANGED <<lock, Rans>>)
                => CQ!Enqueue(c)
           /\ (c \in queue /\ lock[c] = Free /\ queue' = queue \ {c} /\ UNCHANGED <<lock, Rans>>)
                => CQ!Withdraw(c)
           /\ \A r \in Runners :
                (c \in queue /\ lock[c] = Free /\ lock' = [lock EXCEPT ![c] = r]
                 /\ UNCHANGED <<queue, Rans>>) => CQ!Claim(c, r)
           /\ (lock[c] \in Runners /\ Rans' = [Rans EXCEPT ![c] = TRUE] /\ UNCHANGED <<queue, lock>>)
                => CQ!Run(c)
           /\ (lock[c] # Free /\ lock' = [lock EXCEPT ![c] = Free]
               /\ Rans' = [Rans EXCEPT ![c] = FALSE] /\ UNCHANGED queue) => CQ!Release(c)
           /\ (lock[c] \in Runners /\ lock' = [lock EXCEPT ![c] = Orphan]
               /\ Rans' = [Rans EXCEPT ![c] = FALSE] /\ UNCHANGED queue) => CQ!Abandon(c)
           /\ (c \in queue /\ lock[c] \in Runners /\ Ran(c) /\ queue' = queue \ {c}
               /\ lock' = [lock EXCEPT ![c] = Free]
               /\ Rans' = [Rans EXCEPT ![c] = FALSE]) => CQ!Settle(c)
<1>1. (c \notin queue /\ queue' = queue \cup {c} /\ UNCHANGED <<lock, Rans>>) => CQ!Enqueue(c)
  BY DEF CQ!Enqueue, Rans, Ran
<1>2. (c \in queue /\ lock[c] = Free /\ queue' = queue \ {c} /\ UNCHANGED <<lock, Rans>>)
        => CQ!Withdraw(c)
  BY DEF CQ!Withdraw, Rans, Ran
<1>3. \A r \in Runners :
        (c \in queue /\ lock[c] = Free /\ lock' = [lock EXCEPT ![c] = r]
         /\ UNCHANGED <<queue, Rans>>) => CQ!Claim(c, r)
  BY DEF CQ!Claim, Rans, Ran
<1>4. (lock[c] \in Runners /\ Rans' = [Rans EXCEPT ![c] = TRUE] /\ UNCHANGED <<queue, lock>>)
        => CQ!Run(c)
  BY DEF CQ!Run, Rans, Ran
<1>5. (lock[c] # Free /\ lock' = [lock EXCEPT ![c] = Free]
       /\ Rans' = [Rans EXCEPT ![c] = FALSE] /\ UNCHANGED queue) => CQ!Release(c)
  BY DEF CQ!Release, Rans, Ran
<1>6. (lock[c] \in Runners /\ lock' = [lock EXCEPT ![c] = Orphan]
       /\ Rans' = [Rans EXCEPT ![c] = FALSE] /\ UNCHANGED queue) => CQ!Abandon(c)
  BY DEF CQ!Abandon, Rans, Ran
<1>7. (c \in queue /\ lock[c] \in Runners /\ Ran(c) /\ queue' = queue \ {c}
       /\ lock' = [lock EXCEPT ![c] = Free]
       /\ Rans' = [Rans EXCEPT ![c] = FALSE]) => CQ!Settle(c)
  BY DEF CQ!Settle, Rans, Ran
<1>. QED
  BY <1>1, <1>2, <1>3, <1>4, <1>5, <1>6, <1>7

\* A session that works on no command holds no lock.
LEMMA IdleHoldsNothing ==
    ASSUME ClaimBacked, NEW r \in Runners,
           conn[r] # "ok" \/ (pc[r] \notin {"run", "update"} /\ verdict[r] = "none")
    PROVE  \A c \in Cmds : lock[c] # r
  BY DEF ClaimBacked, Working

\* What a step of r, that neither takes nor releases a lock, has to leave alone.
LEMMA Unmoved ==
    ASSUME TypeOK, NEW r \in Runners, UNCHANGED lock,
           \A q \in Runners \ {r} : pc'[q] = pc[q] /\ cur'[q] = cur[q],
           \/ \A c \in Cmds : lock[c] # r
           \/ /\ cur'[r] = cur[r]
              /\ pc'[r] \in {"update", "commit"} <=> pc[r] \in {"update", "commit"}
    PROVE  UNCHANGED <<lock, Rans>>
<1>1. ASSUME NEW c \in Cmds PROVE Ran(c)' <=> Ran(c)
  BY <1>1 DEF Ran, TypeOK
<1>. QED
  BY <1>1, RanChanges

\* When the locks of r pass on, its claim ends and no other.
LEMMA LocksPass ==
    ASSUME TypeOK, ValuesAssumption, NEW r \in Runners, NEW heir \in {Free, Orphan},
           PassLocks(r, heir),
           \A q \in Runners \ {r} : pc'[q] = pc[q] /\ cur'[q] = cur[q]
    PROVE  /\ (\A c \in Cmds : lock[c] # r) => UNCHANGED <<lock, Rans>>
           /\ \A c \in Cmds :
                (lock[c] = r /\ \A d \in Cmds \ {c} : lock[d] # r)
                => lock' = [lock EXCEPT ![c] = heir] /\ Rans' = [Rans EXCEPT ![c] = FALSE]
<1>1. \A c \in Cmds : lock'[c] = IF lock[c] = r THEN heir ELSE lock[c]
  BY DEF PassLocks
<1>2. /\ lock \in [Cmds -> Runners \cup {Free, Orphan}]
      /\ lock' = [c \in Cmds |-> IF lock[c] = r THEN heir ELSE lock[c]]
  BY DEF PassLocks, TypeOK
<1>3. \A c \in Cmds : lock[c] = r => ~Ran(c)'
  BY <1>1 DEF Ran, ValuesAssumption
<1>4. ASSUME NEW c \in Cmds, lock[c] # r PROVE Ran(c)' <=> Ran(c)
  BY <1>1, <1>4 DEF Ran
<1>5. ASSUME \A c \in Cmds : lock[c] # r PROVE UNCHANGED <<lock, Rans>>
  <2>1. lock' = lock
    BY <1>2, <1>5
  <2>2. \A c \in Cmds : Ran(c)' <=> Ran(c)
    BY <1>4, <1>5
  <2>. QED
    BY <2>1, <2>2, RanChanges
<1>6. ASSUME NEW c \in Cmds, lock[c] = r, \A d \in Cmds \ {c} : lock[d] # r
      PROVE  lock' = [lock EXCEPT ![c] = heir] /\ Rans' = [Rans EXCEPT ![c] = FALSE]
  <2>1. lock' = [lock EXCEPT ![c] = heir]
    BY <1>2, <1>6
  <2>2. \A d \in Cmds : Ran(d)' <=> (IF d = c THEN FALSE ELSE Ran(d))
    BY <1>3, <1>4, <1>6
  <2>3. Rans' = [Rans EXCEPT ![c] = FALSE]
    BY <2>2, RanChanges
  <2>. QED
    BY <2>1, <2>3
<1>. QED
  BY <1>5, <1>6

\* A claim that ends without the command leaving the queue is released, or
\* abandoned with its session.
LEMMA ClaimEnds ==
    ASSUME TypeOK, ClaimBacked, ValuesAssumption, NEW r \in Runners,
           NEW heir \in {Free, Orphan}, PassLocks(r, heir), UNCHANGED queue,
           \A q \in Runners \ {r} : pc'[q] = pc[q] /\ cur'[q] = cur[q]
    PROVE  [CQ!Next]_(CQ!vars)
<1>1. CASE \A c \in Cmds : lock[c] # r
  <2>1. UNCHANGED <<queue, lock, Rans>>
    BY <1>1, LocksPass
  <2>. QED
    BY <2>1 DEF CQ!vars, Rans, Ran
<1>2. ASSUME NEW c \in Cmds, lock[c] = r PROVE CQ!Next
  <2>1. \A d \in Cmds \ {c} : lock[d] # r
    BY <1>2 DEF ClaimBacked, Working
  <2>2. lock' = [lock EXCEPT ![c] = heir] /\ Rans' = [Rans EXCEPT ![c] = FALSE]
    BY <1>2, <2>1, LocksPass
  <2>3. CQ!Release(c) \/ CQ!Abandon(c)
    <3>1. CASE heir = Free
      BY <1>2, <2>2, <3>1, ContractSteps DEF ValuesAssumption
    <3>2. CASE heir = Orphan
      BY <1>2, <2>2, <3>2, ContractSteps
    <3>. QED
      BY <3>1, <3>2
  <2>. QED
    BY <2>3 DEF CQ!Next
<1>. QED
  BY <1>1, <1>2

\* A step that the contract does not see.
LEMMA Stutters == UNCHANGED <<queue, lock, Rans>> => [CQ!Next]_(CQ!vars)
  BY DEF CQ!vars, Rans, Ran

\* A SELECT that returns a row claims its command.
LEMMA ClaimIsClaim ==
    ASSUME TypeOK, CmdAtHand, ClaimBacked, ValuesAssumption, NEW r \in Runners,
           NEW c \in queue, lock[c] = Free, Claim(r, c)
    PROVE  [CQ!Next]_(CQ!vars)
<1>1. /\ c \in Cmds /\ pc[r] = "select" /\ lock' = [lock EXCEPT ![c] = r]
      /\ pc' = [pc EXCEPT ![r] = "run"] /\ cur' = [cur EXCEPT ![r] = c] /\ UNCHANGED queue
  BY DEF Claim, TypeOK
<1>2. \A d \in Cmds : lock[d] # r
  <2>1. verdict[r] = "none"
    BY <1>1 DEF CmdAtHand
  <2>. QED
    BY <1>1, <2>1, IdleHoldsNothing
<1>3. ASSUME NEW d \in Cmds PROVE Ran(d)' <=> Ran(d)
  BY <1>1, <1>2 DEF Ran, TypeOK, ValuesAssumption
<1>4. UNCHANGED Rans
  BY <1>3, RanChanges
<1>5. CQ!Claim(c, r)
  BY <1>1, <1>4, ContractSteps
<1>. QED
  BY <1>1, <1>5 DEF CQ!Next

\* A COMMIT settles the command that its session has run, or releases it.
LEMMA CommitSettles ==
    ASSUME TypeOK, CmdAtHand, ClaimBacked, ValuesAssumption, NEW r \in Runners,
           pc[r] = "commit", conn[r] = "ok", PassLocks(r, Free),
           pc' = [pc EXCEPT ![r] = "poll"], cur' = [cur EXCEPT ![r] = NoCmd],
           queue' = IF verdict[r] = "delete" THEN queue \ {cur[r]} ELSE queue
    PROVE  [CQ!Next]_(CQ!vars)
<1>1. \A q \in Runners \ {r} : pc'[q] = pc[q] /\ cur'[q] = cur[q]
  BY DEF TypeOK
<1>2. CASE verdict[r] = "delete"
  <2>1. PICK c \in Cmds : c = cur[r]
    BY <1>2 DEF CmdAtHand
  <2>2. lock[c] = r /\ \A d \in Cmds \ {c} : lock[d] # r
    BY <1>2, <2>1 DEF ClaimBacked, Working
  <2>3. c \in queue /\ Ran(c)
    BY <2>1, <2>2 DEF ClaimBacked, Ran, ValuesAssumption
  <2>4. lock' = [lock EXCEPT ![c] = Free] /\ Rans' = [Rans EXCEPT ![c] = FALSE]
    BY <1>1, <2>2, LocksPass
  <2>5. CQ!Settle(c)
    BY <1>2, <2>1, <2>2, <2>3, <2>4, ContractSteps
  <2>. QED
    BY <2>5 DEF CQ!Next
<1>3. CASE verdict[r] # "delete"
  BY <1>1, <1>3, ClaimEnds
<1>. QED
  BY <1>2, <1>3

\* Every step of the runners, their clients and the server is one of the contract,
\* or one that it does not see.
LEMMA ContractStep == TypeOK /\ CmdAtHand /\ ClaimBacked /\ [Next]_vars => [CQ!Next]_(CQ!vars)
<1> SUFFICES ASSUME TypeOK, CmdAtHand, ClaimBacked, [Next]_vars PROVE [CQ!Next]_(CQ!vars)
  OBVIOUS
<1> USE ValuesAssumption, SettingsAssumption DEF TypeOK, CmdAtHand
<1>1. ASSUME NEW r \in Runners, Start(r) PROVE [CQ!Next]_(CQ!vars)
  <2>1. UNCHANGED <<queue, lock>> /\ \A q \in Runners \ {r} : pc'[q] = pc[q] /\ cur'[q] = cur[q]
    BY <1>1 DEF Start
  <2>2. \A c \in Cmds : lock[c] # r
    BY <1>1, IdleHoldsNothing DEF Start
  <2>3. UNCHANGED <<queue, lock, Rans>>
    BY <2>1, <2>2, Unmoved
  <2>. QED
    BY <2>3, Stutters
<1>2. ASSUME NEW r \in Runners, Connect(r) PROVE [CQ!Next]_(CQ!vars)
  <2>1. UNCHANGED <<queue, lock>> /\ \A q \in Runners \ {r} : pc'[q] = pc[q] /\ cur'[q] = cur[q]
    BY <1>2 DEF Connect
  <2>2. \A c \in Cmds : lock[c] # r
    BY <1>2, IdleHoldsNothing DEF Connect
  <2>3. UNCHANGED <<queue, lock, Rans>>
    BY <2>1, <2>2, Unmoved
  <2>. QED
    BY <2>3, Stutters
<1>3. ASSUME NEW r \in Runners, GiveUpConnecting(r) PROVE [CQ!Next]_(CQ!vars)
  <2>1. UNCHANGED <<queue, lock>> /\ \A q \in Runners \ {r} : pc'[q] = pc[q] /\ cur'[q] = cur[q]
    BY <1>3 DEF GiveUpConnecting
  <2>2. \A c \in Cmds : lock[c] # r
    BY <1>3, IdleHoldsNothing DEF GiveUpConnecting
  <2>3. UNCHANGED <<queue, lock, Rans>>
    BY <2>1, <2>2, Unmoved
  <2>. QED
    BY <2>3, Stutters
<1>4. ASSUME NEW r \in Runners, SessionStart(r) PROVE [CQ!Next]_(CQ!vars)
  <2>1. UNCHANGED <<queue, lock>> /\ \A q \in Runners \ {r} : pc'[q] = pc[q] /\ cur'[q] = cur[q]
    BY <1>4 DEF SessionStart
  <2>2. \A c \in Cmds : lock[c] # r
    BY <1>4, IdleHoldsNothing DEF SessionStart
  <2>3. UNCHANGED <<queue, lock, Rans>>
    BY <2>1, <2>2, Unmoved
  <2>. QED
    BY <2>3, Stutters
<1>5. ASSUME NEW r \in Runners, SessionStartFails(r) PROVE [CQ!Next]_(CQ!vars)
  <2>1. /\ PassLocks(r, Orphan) /\ UNCHANGED queue
        /\ \A q \in Runners \ {r} : pc'[q] = pc[q] /\ cur'[q] = cur[q]
    BY <1>5 DEF LoseSession, SessionStartFails
  <2>. QED
    BY <2>1, ClaimEnds
<1>6. ASSUME NEW r \in Runners, ClaimNext(r) PROVE [CQ!Next]_(CQ!vars)
  <2>1. PICK c \in queue : conn[r] = "ok" /\ lock[c] = Free /\ Claim(r, c)
    BY <1>6, CandidatesAreQueued DEF ClaimNext
  <2>. QED
    BY <2>1, ClaimIsClaim
<1>7. ASSUME NEW r \in Runners, ClaimNotified(r) PROVE [CQ!Next]_(CQ!vars)
  <2>1. PICK c \in queue : conn[r] = "ok" /\ lock[c] = Free /\ Claim(r, c)
    BY <1>7, CandidatesAreQueued DEF ClaimNotified
  <2>. QED
    BY <2>1, ClaimIsClaim
<1>8. ASSUME NEW r \in Runners, NotifiedGone(r) PROVE [CQ!Next]_(CQ!vars)
  <2>1. UNCHANGED <<queue, lock>> /\ \A q \in Runners \ {r} : pc'[q] = pc[q] /\ cur'[q] = cur[q]
    BY <1>8 DEF NotifiedGone
  <2>2. \A c \in Cmds : lock[c] # r
    BY <1>8, IdleHoldsNothing DEF NotifiedGone
  <2>3. UNCHANGED <<queue, lock, Rans>>
    BY <2>1, <2>2, Unmoved
  <2>. QED
    BY <2>3, Stutters
<1>9. ASSUME NEW r \in Runners, RoundComplete(r) PROVE [CQ!Next]_(CQ!vars)
  <2>1. UNCHANGED <<queue, lock>> /\ \A q \in Runners \ {r} : pc'[q] = pc[q] /\ cur'[q] = cur[q]
    BY <1>9 DEF RoundComplete
  <2>2. \A c \in Cmds : lock[c] # r
    BY <1>9, IdleHoldsNothing DEF RoundComplete
  <2>3. UNCHANGED <<queue, lock, Rans>>
    BY <2>1, <2>2, Unmoved
  <2>. QED
    BY <2>3, Stutters
<1>10. ASSUME NEW r \in Runners, EnterRound(r) PROVE [CQ!Next]_(CQ!vars)
  <2>1. CASE RoundToEnter(r) <= IntMax
    <3>1. /\ pc[r] = "empty" /\ pc' = [pc EXCEPT ![r] = "commit"]
          /\ UNCHANGED <<queue, lock, cur>>
      BY <1>10, <2>1 DEF EnterRound
    <3>2. \A c \in Cmds : lock[c] # r
      BY <3>1, IdleHoldsNothing
    <3>3. UNCHANGED <<queue, lock, Rans>>
      BY <3>1, <3>2, Unmoved
    <3>. QED
      BY <3>3, Stutters
  <2>2. CASE ~(RoundToEnter(r) <= IntMax)
    <3>1. PassLocks(r, Orphan) /\ pc' = [pc EXCEPT ![r] = "crashed"] /\ UNCHANGED <<queue, cur>>
      BY <1>10, <2>2 DEF EnterRound, LoseSession
    <3>. QED
      BY <3>1, ClaimEnds
  <2>. QED
    BY <2>1, <2>2
<1>11. ASSUME NEW r \in Runners, EnterRoundFails(r) PROVE [CQ!Next]_(CQ!vars)
  <2>1. /\ PassLocks(r, Orphan) /\ UNCHANGED queue
        /\ \A q \in Runners \ {r} : pc'[q] = pc[q] /\ cur'[q] = cur[q]
    BY <1>11 DEF LoseSession, EnterRoundFails
  <2>. QED
    BY <2>1, ClaimEnds
<1>12. ASSUME NEW r \in Runners, RunCmd(r) PROVE [CQ!Next]_(CQ!vars)
  <2>1. /\ pc[r] = "run" /\ pc' = [pc EXCEPT ![r] = "update"] /\ cur[r] \in Cmds
        /\ UNCHANGED <<queue, lock, cur>>
    BY <1>12 DEF RunCmd
  <2>2. CASE lock[cur[r]] = r
    <3>1. PICK c \in Cmds : c = cur[r]
      BY <2>1
    <3>2. \A d \in Cmds \ {c} : lock[d] # r
      BY <3>1 DEF ClaimBacked, Working
    <3>3. \A d \in Cmds : Ran(d)' <=> (IF d = c THEN TRUE ELSE Ran(d))
      BY <2>1, <2>2, <3>1, <3>2 DEF Ran
    <3>4. Rans' = [Rans EXCEPT ![c] = TRUE]
      BY <3>3, RanChanges
    <3>5. CQ!Run(c)
      BY <2>1, <2>2, <3>1, <3>4, ContractSteps
    <3>. QED
      BY <3>5 DEF CQ!Next
  <2>3. CASE lock[cur[r]] # r
    <3>1. \A c \in Cmds : lock[c] # r
      BY <2>3 DEF ClaimBacked, Working
    <3>2. UNCHANGED <<queue, lock, Rans>>
      BY <2>1, <3>1, Unmoved
    <3>. QED
      BY <3>2, Stutters
  <2>. QED
    BY <2>2, <2>3
<1>13. ASSUME NEW r \in Runners, UpdateCmd(r) PROVE [CQ!Next]_(CQ!vars)
  <2>1. UNCHANGED <<queue, lock>> /\ \A q \in Runners \ {r} : pc'[q] = pc[q] /\ cur'[q] = cur[q]
    BY <1>13 DEF UpdateCmd, EffectKinds
  <2>2. cur'[r] = cur[r] /\ (pc'[r] \in {"update", "commit"} <=> pc[r] \in {"update", "commit"})
    BY <1>13 DEF UpdateCmd, EffectKinds
  <2>3. UNCHANGED <<queue, lock, Rans>>
    BY <2>1, <2>2, Unmoved
  <2>. QED
    BY <2>3, Stutters
<1>14. ASSUME NEW r \in Runners, UpdateFails(r) PROVE [CQ!Next]_(CQ!vars)
  <2>1. /\ PassLocks(r, Free) /\ UNCHANGED queue
        /\ \A q \in Runners \ {r} : pc'[q] = pc[q] /\ cur'[q] = cur[q]
    BY <1>14 DEF UpdateFails
  <2>. QED
    BY <2>1, ClaimEnds
<1>15. ASSUME NEW r \in Runners, RememberFailed(r) PROVE [CQ!Next]_(CQ!vars)
  <2>1. UNCHANGED <<queue, lock>> /\ \A q \in Runners \ {r} : pc'[q] = pc[q] /\ cur'[q] = cur[q]
    BY <1>15 DEF RememberFailed
  <2>2. \A c \in Cmds : lock[c] # r
    BY <1>15, IdleHoldsNothing DEF RememberFailed
  <2>3. UNCHANGED <<queue, lock, Rans>>
    BY <2>1, <2>2, Unmoved
  <2>. QED
    BY <2>3, Stutters
<1>16. ASSUME NEW r \in Runners, Commit(r) PROVE [CQ!Next]_(CQ!vars)
  <2>1. /\ pc[r] = "commit" /\ conn[r] = "ok" /\ PassLocks(r, Free)
        /\ pc' = [pc EXCEPT ![r] = "poll"] /\ cur' = [cur EXCEPT ![r] = NoCmd]
        /\ queue' = IF verdict[r] = "delete" THEN queue \ {cur[r]} ELSE queue
    BY <1>16 DEF Commit, Settle
  <2>. QED
    BY <2>1, CommitSettles
<1>17. ASSUME NEW r \in Runners, BackToConnect(r) PROVE [CQ!Next]_(CQ!vars)
  <2>1. UNCHANGED <<queue, lock>> /\ \A q \in Runners \ {r} : pc'[q] = pc[q] /\ cur'[q] = cur[q]
    BY <1>17 DEF BackToConnect
  <2>2. \A c \in Cmds : lock[c] # r
    BY <1>17, IdleHoldsNothing DEF BackToConnect
  <2>3. UNCHANGED <<queue, lock, Rans>>
    BY <2>1, <2>2, Unmoved
  <2>. QED
    BY <2>3, Stutters
<1>18. ASSUME NEW r \in Runners, TakeNotification(r) PROVE [CQ!Next]_(CQ!vars)
  <2>1. UNCHANGED <<queue, lock>> /\ \A q \in Runners \ {r} : pc'[q] = pc[q] /\ cur'[q] = cur[q]
    BY <1>18 DEF TakeNotification, HandleNotification
  <2>2. \A c \in Cmds : lock[c] # r
    BY <1>18, IdleHoldsNothing DEF TakeNotification, HandleNotification
  <2>3. UNCHANGED <<queue, lock, Rans>>
    BY <2>1, <2>2, Unmoved
  <2>. QED
    BY <2>3, Stutters
<1>19. ASSUME NEW r \in Runners, PollTimeout(r) PROVE [CQ!Next]_(CQ!vars)
  <2>1. UNCHANGED <<queue, lock>> /\ \A q \in Runners \ {r} : pc'[q] = pc[q] /\ cur'[q] = cur[q]
    BY <1>19 DEF PollTimeout, Reselect
  <2>2. \A c \in Cmds : lock[c] # r
    BY <1>19, IdleHoldsNothing DEF PollTimeout, Reselect
  <2>3. UNCHANGED <<queue, lock, Rans>>
    BY <2>1, <2>2, Unmoved
  <2>. QED
    BY <2>3, Stutters
<1>20. ASSUME NEW r \in Runners, ConsumeInput(r) PROVE [CQ!Next]_(CQ!vars)
  <2>1. UNCHANGED <<queue, lock>> /\ \A q \in Runners \ {r} : pc'[q] = pc[q] /\ cur'[q] = cur[q]
    BY <1>20 DEF ConsumeInput
  <2>2. cur'[r] = cur[r] /\ (pc'[r] \in {"update", "commit"} <=> pc[r] \in {"update", "commit"})
    BY <1>20 DEF ConsumeInput
  <2>3. UNCHANGED <<queue, lock, Rans>>
    BY <2>1, <2>2, Unmoved
  <2>. QED
    BY <2>3, Stutters
<1>21. ASSUME NEW r \in Runners, DrainKillPipe(r) PROVE [CQ!Next]_(CQ!vars)
  <2>1. /\ PassLocks(r, Orphan) /\ UNCHANGED queue
        /\ \A q \in Runners \ {r} : pc'[q] = pc[q] /\ cur'[q] = cur[q]
    BY <1>21 DEF LoseSession, DrainKillPipe
  <2>. QED
    BY <2>1, ClaimEnds
<1>22. ASSUME NEW r \in Runners, SelectFails(r) PROVE [CQ!Next]_(CQ!vars)
  <2>1. UNCHANGED <<queue, lock>> /\ \A q \in Runners \ {r} : pc'[q] = pc[q] /\ cur'[q] = cur[q]
    BY <1>22 DEF SelectFails
  <2>2. \A c \in Cmds : lock[c] # r
    BY <1>22, IdleHoldsNothing DEF SelectFails
  <2>3. UNCHANGED <<queue, lock, Rans>>
    BY <2>1, <2>2, Unmoved
  <2>. QED
    BY <2>3, Stutters
<1>23. ASSUME NEW r \in Runners, CommitFails(r) PROVE [CQ!Next]_(CQ!vars)
  <2>1. /\ PassLocks(r, Free) /\ UNCHANGED queue
        /\ \A q \in Runners \ {r} : pc'[q] = pc[q] /\ cur'[q] = cur[q]
    BY <1>23 DEF CommitFails
  <2>. QED
    BY <2>1, ClaimEnds
<1>24. ASSUME NEW r \in Runners, CommitUnacknowledged(r) PROVE [CQ!Next]_(CQ!vars)
  <2>1. /\ pc[r] = "commit" /\ conn[r] = "ok" /\ PassLocks(r, Free)
        /\ pc' = [pc EXCEPT ![r] = "poll"] /\ cur' = [cur EXCEPT ![r] = NoCmd]
        /\ queue' = IF verdict[r] = "delete" THEN queue \ {cur[r]} ELSE queue
    BY <1>24 DEF CommitUnacknowledged, Settle
  <2>. QED
    BY <2>1, CommitSettles
<1>25. ASSUME NEW r \in Runners, ConnLoss(r) PROVE [CQ!Next]_(CQ!vars)
  <2>1. /\ PassLocks(r, Orphan) /\ UNCHANGED queue
        /\ \A q \in Runners \ {r} : pc'[q] = pc[q] /\ cur'[q] = cur[q]
    BY <1>25 DEF ConnLoss, LoseSession
  <2>. QED
    BY <2>1, ClaimEnds
<1>26. ASSUME NEW r \in Runners, Crash(r) PROVE [CQ!Next]_(CQ!vars)
  <2>1. /\ PassLocks(r, Orphan) /\ UNCHANGED queue
        /\ \A q \in Runners \ {r} : pc'[q] = pc[q] /\ cur'[q] = cur[q]
    BY <1>26 DEF Crash, LoseSession
  <2>. QED
    BY <2>1, ClaimEnds
<1>27. ASSUME NEW r \in Runners, InputArrives(r) PROVE [CQ!Next]_(CQ!vars)
  <2>1. UNCHANGED <<queue, lock>> /\ \A q \in Runners \ {r} : pc'[q] = pc[q] /\ cur'[q] = cur[q]
    BY <1>27 DEF InputArrives
  <2>2. cur'[r] = cur[r] /\ (pc'[r] \in {"update", "commit"} <=> pc[r] \in {"update", "commit"})
    BY <1>27 DEF InputArrives
  <2>3. UNCHANGED <<queue, lock, Rans>>
    BY <2>1, <2>2, Unmoved
  <2>. QED
    BY <2>3, Stutters
<1>28. ASSUME NEW r \in Runners, Tick(r) PROVE [CQ!Next]_(CQ!vars)
  <2>1. UNCHANGED <<queue, lock>> /\ \A q \in Runners \ {r} : pc'[q] = pc[q] /\ cur'[q] = cur[q]
    BY <1>28 DEF Tick
  <2>2. cur'[r] = cur[r] /\ (pc'[r] \in {"update", "commit"} <=> pc[r] \in {"update", "commit"})
    BY <1>28 DEF Tick
  <2>3. UNCHANGED <<queue, lock, Rans>>
    BY <2>1, <2>2, Unmoved
  <2>. QED
    BY <2>3, Stutters
<1>29. ASSUME NEW r \in Runners, Kill(r) PROVE [CQ!Next]_(CQ!vars)
  <2>1. UNCHANGED <<queue, lock>> /\ \A q \in Runners \ {r} : pc'[q] = pc[q] /\ cur'[q] = cur[q]
    BY <1>29 DEF Kill
  <2>2. cur'[r] = cur[r] /\ (pc'[r] \in {"update", "commit"} <=> pc[r] \in {"update", "commit"})
    BY <1>29 DEF Kill
  <2>3. UNCHANGED <<queue, lock, Rans>>
    BY <2>1, <2>2, Unmoved
  <2>. QED
    BY <2>3, Stutters
<1>30. ASSUME NEW r \in Runners, Signal(r) PROVE [CQ!Next]_(CQ!vars)
  <2>1. UNCHANGED <<queue, lock>> /\ \A q \in Runners \ {r} : pc'[q] = pc[q] /\ cur'[q] = cur[q]
    BY <1>30 DEF Signal
  <2>2. cur'[r] = cur[r] /\ (pc'[r] \in {"update", "commit"} <=> pc[r] \in {"update", "commit"})
    BY <1>30 DEF Signal
  <2>3. UNCHANGED <<queue, lock, Rans>>
    BY <2>1, <2>2, Unmoved
  <2>. QED
    BY <2>3, Stutters
<1>31. ASSUME NEW r \in Runners, Restart(r) PROVE [CQ!Next]_(CQ!vars)
  <2>1. UNCHANGED <<queue, lock>> /\ \A q \in Runners \ {r} : pc'[q] = pc[q] /\ cur'[q] = cur[q]
    BY <1>31 DEF Restart
  <2>2. \A c \in Cmds : lock[c] # r
    BY <1>31, IdleHoldsNothing DEF Restart
  <2>3. UNCHANGED <<queue, lock, Rans>>
    BY <2>1, <2>2, Unmoved
  <2>. QED
    BY <2>3, Stutters
<1>32. ASSUME NEW c \in Cmds, Enqueue(c) PROVE [CQ!Next]_(CQ!vars)
  <2>1. UNCHANGED <<pc, cur, lock>>
    BY <1>32 DEF Enqueue
  <2>2. UNCHANGED Rans
    BY <2>1 DEF Rans, Ran
  <2>3. CQ!Enqueue(c)
    BY <1>32, <2>2, ContractSteps DEF Enqueue
  <2>. QED
    BY <2>3 DEF CQ!Next
<1>33. ASSUME NEW c \in Cmds, Withdraw(c) PROVE [CQ!Next]_(CQ!vars)
  <2>1. UNCHANGED <<pc, cur, lock>>
    BY <1>33 DEF Withdraw
  <2>2. UNCHANGED Rans
    BY <2>1 DEF Rans, Ran
  <2>3. CQ!Withdraw(c)
    BY <1>33, <2>2, ContractSteps DEF Withdraw
  <2>. QED
    BY <2>3 DEF CQ!Next
<1>34. ASSUME NEW c \in Cmds, ReapOrphan(c) PROVE [CQ!Next]_(CQ!vars)
  <2>1. lock[c] = Orphan /\ lock' = [lock EXCEPT ![c] = Free] /\ UNCHANGED <<queue, pc, cur>>
    BY <1>34 DEF ReapOrphan
  <2>2. \A d \in Cmds : Ran(d)' <=> (IF d = c THEN FALSE ELSE Ran(d))
    BY <2>1 DEF Ran
  <2>3. Rans' = [Rans EXCEPT ![c] = FALSE]
    BY <2>2, RanChanges
  <2>4. CQ!Release(c)
    BY <2>1, <2>3, ContractSteps
  <2>. QED
    BY <2>4 DEF CQ!Next
<1>35. ASSUME NEW p \in {Other, Malformed}, Stray(p) PROVE [CQ!Next]_(CQ!vars)
  <2>1. UNCHANGED <<queue, lock, pc, cur>>
    BY <1>35 DEF Stray
  <2>. QED
    BY <2>1, Stutters DEF Rans, Ran
<1>36. CASE UNCHANGED vars
  <2>1. UNCHANGED <<queue, lock, pc, cur>>
    BY <1>36 DEF vars
  <2>. QED
    BY <2>1, Stutters DEF Rans, Ran
<1>37. ASSUME NEW r \in Runners, Step(r) PROVE [CQ!Next]_(CQ!vars)
  BY <1>37, <1>1, <1>2, <1>3, <1>4, <1>5, <1>6, <1>7, <1>8, <1>9,
     <1>10, <1>11, <1>12, <1>13, <1>14, <1>15, <1>16, <1>17,
     <1>18, <1>19, <1>20, <1>21 DEF Step, Select, Poll
<1>38. ASSUME NEW r \in Runners, Failure(r) PROVE [CQ!Next]_(CQ!vars)
  BY <1>38, <1>22, <1>23, <1>24, <1>25, <1>26 DEF Failure
<1>39. CASE Client
  BY <1>39, <1>32, <1>33, <1>34, <1>35 DEF Client
<1>. QED
  BY <1>27, <1>28, <1>29, <1>30, <1>31, <1>36, <1>37, <1>38, <1>39 DEF Next

\* The runners of a queue keep the contract of CommandQueue: one session at a time
\* works on a command, which leaves the queue by a session that ran it under its
\* claim, or because a client took it back, whatever fails.
THEOREM RunnersKeepContract == Spec => KeepsContract
<1>1. Init => CQ!Init
  BY ValuesAssumption DEF Init, CQ!Init
<1>2. TypeOK /\ CmdAtHand /\ ClaimBacked /\ [Next]_vars => [CQ!Next]_(CQ!vars)
  BY ContractStep
<1>3. Init => TypeOK /\ CmdAtHand /\ ClaimBacked
  BY ValuesAssumption, SettingsAssumption, BoundsAssumption
  DEF Init, TypeOK, Pcs, Payloads, CmdAtHand, ClaimBacked, Working
<1>. QED
  BY <1>1, <1>2, <1>3, TypeStep, CmdAtHandStep, ClaimBackedStep, PTL
     DEF Spec, KeepsContract, CQ!Spec
-----------------------------------------------------------------------------
(* When a command runs again *)

\* The runners that go on running command c although their claim of it is lost.
Astray(c) == {r \in Runners : pc[r] = "run" /\ cur[r] = c /\ lock[c] # r}

\* Whether nobody has run c, whose last run is still unaccounted for, again: it is
\* in the queue and not run by the session that has claimed it, if any.
Untried(c) == c \in queue /\ ~Ran(c)

\* A run whose outcome is unknown was lost to a fault, or a runner that has lost
\* its claim to one is still to complete it; but for the one that a live session
\* has completed, or that took the command out of the queue.
RerunInv ==
    \A c \in Cmds :
      /\ IsFiniteSet(Astray(c)) /\ Cardinality(Astray(c)) <= faults
      /\ runs[c] + Cardinality(Astray(c)) <= faults + (IF Untried(c) THEN 0 ELSE 1)

\* A step that sends no runner astray, and that counts a fault whenever it makes an
\* attempt at a command void without forgetting its runs, keeps the balance.
LEMMA BalanceKept ==
    ASSUME TypeOK, RerunInv, faults' \in Nat, faults' >= faults,
           NEW c \in Cmds, Astray(c)' \subseteq Astray(c),
           \/ runs'[c] = 0
           \/ /\ runs'[c] = runs[c]
              /\ faults' > faults \/ (Untried(c)' => Untried(c))
    PROVE  /\ IsFiniteSet(Astray(c)') /\ Cardinality(Astray(c)') <= faults'
           /\ runs'[c] + Cardinality(Astray(c)') <= faults' + (IF Untried(c)' THEN 0 ELSE 1)
<1> DEFINE K == Cardinality(Astray(c))
           L == Cardinality(Astray(c)')
<1>1. IsFiniteSet(Astray(c)) /\ K \in Nat
  BY FS_CardinalityType DEF RerunInv
<1>2. IsFiniteSet(Astray(c)') /\ L <= K /\ L \in Nat
  BY <1>1, FS_Subset, FS_CardinalityType
<1>3. /\ K <= faults
      /\ runs[c] + K <= faults + (IF Untried(c) THEN 0 ELSE 1)
      /\ runs[c] \in Nat /\ faults \in Nat
  BY DEF RerunInv, TypeOK
<1> HIDE DEF K, L
<1>4. L <= faults'
  BY <1>1, <1>2, <1>3
<1>5. runs'[c] + L <= faults' + (IF Untried(c)' THEN 0 ELSE 1)
  <2>1. CASE runs'[c] = 0
    <3>1. runs'[c] + L = L
      BY <1>2, <2>1
    <3>. QED
      BY <3>1, <1>2, <1>4
  <2>2. CASE runs'[c] = runs[c] /\ faults' > faults
    BY <1>1, <1>2, <1>3, <2>2
  <2>3. CASE runs'[c] = runs[c] /\ (Untried(c)' => Untried(c))
    BY <1>1, <1>2, <1>3, <2>3
  <2>. QED
    BY <2>1, <2>2, <2>3
<1>. QED
  BY <1>2, <1>4, <1>5 DEF L

\* A step of r, that neither takes nor releases a lock, starts no run and completes
\* none.
LEMMA QuietStep ==
    ASSUME TypeOK, RerunInv, NEW r \in Runners, UNCHANGED <<queue, lock, runs>>,
           faults' \in Nat, faults' >= faults,
           \A q \in Runners \ {r} : pc'[q] = pc[q] /\ cur'[q] = cur[q],
           pc'[r] # "run",
           \/ \A c \in Cmds : lock[c] # r
           \/ /\ cur'[r] = cur[r]
              /\ pc'[r] \in {"update", "commit"} <=> pc[r] \in {"update", "commit"}
    PROVE  RerunInv'
<1> SUFFICES ASSUME NEW c \in Cmds
             PROVE  /\ IsFiniteSet(Astray(c)') /\ Cardinality(Astray(c)') <= faults'
                    /\ runs'[c] + Cardinality(Astray(c)') <= faults' + (IF Untried(c)' THEN 0 ELSE 1)
  BY DEF RerunInv
<1>1. Astray(c)' \subseteq Astray(c)
  BY DEF Astray
<1>2. Untried(c)' <=> Untried(c)
  BY DEF Untried, Ran, TypeOK
<1>. QED
  BY <1>1, <1>2, BalanceKept

\* A step that passes on the locks of r: a fault, unless the runs of the command are
\* forgotten with it, or the command leaves the queue.
LEMMA LocksLeave ==
    ASSUME TypeOK, RerunInv, ValuesAssumption, NEW r \in Runners,
           NEW heir \in {Free, Orphan}, PassLocks(r, heir), queue' \subseteq queue,
           faults' \in Nat, faults' >= faults,
           \A q \in Runners \ {r} : pc'[q] = pc[q] /\ cur'[q] = cur[q],
           pc'[r] # "run",
           \A c \in Cmds : runs'[c] = 0 \/ runs'[c] = runs[c],
           \A c \in Cmds : lock[c] = r => runs'[c] = 0 \/ faults' > faults \/ c \notin queue'
    PROVE  RerunInv'
<1> SUFFICES ASSUME NEW c \in Cmds
             PROVE  /\ IsFiniteSet(Astray(c)') /\ Cardinality(Astray(c)') <= faults'
                    /\ runs'[c] + Cardinality(Astray(c)') <= faults' + (IF Untried(c)' THEN 0 ELSE 1)
  BY DEF RerunInv
<1>1. lock'[c] = IF lock[c] = r THEN heir ELSE lock[c]
  BY DEF PassLocks
<1>2. Astray(c)' \subseteq Astray(c)
  BY <1>1 DEF Astray
<1>3. CASE lock[c] = r
  BY <1>2, <1>3, BalanceKept DEF Untried
<1>4. CASE lock[c] # r
  <2>1. Ran(c)' <=> Ran(c)
    BY <1>1, <1>4 DEF Ran
  <2>2. Untried(c)' => Untried(c)
    BY <2>1 DEF Untried
  <2>. QED
    BY <1>2, <2>2, BalanceKept
<1>. QED
  BY <1>3, <1>4

\* The run of a command that nobody has run under its claim, or that its runner has
\* lost, counts.
LEMMA RunCounts ==
    ASSUME TypeOK, CmdAtHand, ClaimBacked, ValuesAssumption, RerunInv,
           NEW r \in Runners, RunCmd(r)
    PROVE  RerunInv'
<1> SUFFICES ASSUME NEW c \in Cmds
             PROVE  /\ IsFiniteSet(Astray(c)') /\ Cardinality(Astray(c)') <= faults'
                    /\ runs'[c] + Cardinality(Astray(c)') <= faults' + (IF Untried(c)' THEN 0 ELSE 1)
  BY DEF RerunInv
<1>1. /\ pc[r] = "run" /\ pc' = [pc EXCEPT ![r] = "update"]
      /\ UNCHANGED <<queue, lock, cur, faults>>
      /\ runs' = [runs EXCEPT ![cur[r]] = IF @ < MaxRuns THEN @ + 1 ELSE @]
  BY DEF RunCmd
<1>2. faults \in Nat /\ runs[c] \in Nat
  BY DEF TypeOK
<1>3. CASE cur[r] # c
  <2>1. runs'[c] = runs[c]
    BY <1>1, <1>3 DEF TypeOK
  <2>2. Astray(c)' \subseteq Astray(c) /\ (Untried(c)' <=> Untried(c))
    BY <1>1, <1>3 DEF Astray, Untried, Ran, TypeOK
  <2>. QED
    BY <1>1, <1>2, <2>1, <2>2, BalanceKept
<1>4. CASE cur[r] = c
  <2>1. runs'[c] \in Nat /\ runs'[c] <= runs[c] + 1
    BY <1>1, <1>2, <1>4 DEF TypeOK
  <2>2. CASE lock[c] = r
    <3>1. Untried(c) /\ ~Untried(c)'
      BY <1>1, <1>4, <2>2 DEF Untried, Ran, ClaimBacked, TypeOK, ValuesAssumption
    <3>2. Astray(c)' \subseteq Astray(c)
      BY <1>1 DEF Astray, TypeOK
    <3>3. IsFiniteSet(Astray(c)) /\ Cardinality(Astray(c)) <= faults
          /\ runs[c] + Cardinality(Astray(c)) <= faults
      BY <1>2, <3>1 DEF RerunInv
    <3>4. IsFiniteSet(Astray(c)') /\ Cardinality(Astray(c)') <= Cardinality(Astray(c))
          /\ Cardinality(Astray(c)) \in Nat /\ Cardinality(Astray(c)') \in Nat
      BY <3>2, <3>3, FS_Subset, FS_CardinalityType
    <3>. QED
      BY <1>1, <1>2, <2>1, <3>1, <3>3, <3>4
  <2>3. CASE lock[c] # r
    <3>1. r \in Astray(c) /\ Astray(c)' = Astray(c) \ {r} /\ (Untried(c)' <=> Untried(c))
      BY <1>1, <1>4, <2>3 DEF Astray, Untried, Ran, TypeOK
    <3>2. IsFiniteSet(Astray(c)) /\ Cardinality(Astray(c)) <= faults
          /\ runs[c] + Cardinality(Astray(c)) <= faults + (IF Untried(c) THEN 0 ELSE 1)
      BY DEF RerunInv
    <3>3. IsFiniteSet(Astray(c)') /\ Cardinality(Astray(c)') = Cardinality(Astray(c)) - 1
          /\ Cardinality(Astray(c)) \in Nat /\ Cardinality(Astray(c)') \in Nat
      BY <3>1, <3>2, FS_RemoveElement, FS_CardinalityType
    <3>. QED
      BY <1>1, <1>2, <2>1, <3>1, <3>2, <3>3
  <2>. QED
    BY <2>2, <2>3
<1>. QED
  BY <1>3, <1>4

\* The loss of a connection sends at most its own runner astray.
LEMMA LossCounts ==
    ASSUME TypeOK, CmdAtHand, ClaimBacked, ValuesAssumption, RerunInv,
           NEW r \in Runners, ConnLoss(r)
    PROVE  RerunInv'
<1>1. /\ PassLocks(r, Orphan) /\ UNCHANGED <<queue, pc, cur, runs>>
      /\ faults' = faults + 1 /\ faults \in Nat
  BY DEF ConnLoss, LoseSession, TypeOK
<1>2. CASE pc[r] # "run"
  <2>1. faults' \in Nat /\ faults' >= faults /\ faults' > faults
    BY <1>1
  <2>. QED
    BY <1>1, <1>2, <2>1, LocksLeave
<1>3. CASE pc[r] = "run"
  <2> SUFFICES ASSUME NEW c \in Cmds
               PROVE  /\ IsFiniteSet(Astray(c)') /\ Cardinality(Astray(c)') <= faults'
                      /\ runs'[c] + Cardinality(Astray(c)')
                           <= faults' + (IF Untried(c)' THEN 0 ELSE 1)
    BY DEF RerunInv
  <2>1. lock'[c] = IF lock[c] = r THEN Orphan ELSE lock[c]
    BY <1>1 DEF PassLocks
  <2>2. runs[c] \in Nat
    BY DEF TypeOK
  <2>3. CASE lock[c] # r
    <3>1. Astray(c)' \subseteq Astray(c)
      BY <1>1, <2>1, <2>3 DEF Astray
    <3>. QED
      BY <1>1, <3>1, BalanceKept
  <2>4. CASE lock[c] = r
    <3>1. cur[r] = c /\ c \in queue
      BY <2>4 DEF ClaimBacked, Working, ValuesAssumption
    <3>2. Astray(c)' = Astray(c) \cup {r}
      BY <1>1, <1>3, <2>1, <2>4, <3>1 DEF Astray, ValuesAssumption
    <3>3. Untried(c)
      BY <1>3, <2>4, <3>1 DEF Untried, Ran
    <3>4. IsFiniteSet(Astray(c)) /\ Cardinality(Astray(c)) <= faults
          /\ runs[c] + Cardinality(Astray(c)) <= faults
      BY <1>1, <2>2, <3>3 DEF RerunInv
    <3>5. /\ Cardinality(Astray(c)) \in Nat /\ IsFiniteSet(Astray(c) \cup {r})
          /\ Cardinality(Astray(c) \cup {r}) \in Nat
          /\ Cardinality(Astray(c) \cup {r}) <= Cardinality(Astray(c)) + 1
      <4>1. Cardinality(Astray(c)) \in Nat
        BY <3>4, FS_CardinalityType
      <4>2. /\ IsFiniteSet(Astray(c) \cup {r})
            /\ Cardinality(Astray(c) \cup {r}) =
                 IF r \in Astray(c) THEN Cardinality(Astray(c)) ELSE Cardinality(Astray(c)) + 1
        BY <3>4, FS_AddElement
      <4>. QED
        BY <4>1, <4>2
    <3>. QED
      BY <1>1, <2>2, <3>2, <3>4, <3>5
  <2>. QED
    BY <2>3, <2>4
<1>. QED
  BY <1>2, <1>3

\* A SELECT that returns a row sends nobody astray.
LEMMA ClaimCounts ==
    ASSUME TypeOK, CmdAtHand, ClaimBacked, ValuesAssumption, RerunInv, NEW r \in Runners,
           NEW c \in queue, lock[c] = Free, Claim(r, c)
    PROVE  RerunInv'
<1>1. /\ c \in Cmds /\ pc[r] = "select" /\ lock' = [lock EXCEPT ![c] = r]
      /\ pc' = [pc EXCEPT ![r] = "run"] /\ cur' = [cur EXCEPT ![r] = c]
      /\ UNCHANGED <<queue, faults, runs>> /\ faults \in Nat
  BY DEF Claim, TypeOK
<1>2. \A d \in Cmds : lock[d] # r
  <2>1. verdict[r] = "none"
    BY <1>1 DEF CmdAtHand
  <2>. QED
    BY <1>1, <2>1, IdleHoldsNothing
<1> SUFFICES ASSUME NEW d \in Cmds
             PROVE  /\ IsFiniteSet(Astray(d)') /\ Cardinality(Astray(d)') <= faults'
                    /\ runs'[d] + Cardinality(Astray(d)') <= faults' + (IF Untried(d)' THEN 0 ELSE 1)
  BY DEF RerunInv
<1>3. Untried(d)' => Untried(d)
  BY <1>1, <1>2 DEF Untried, Ran, TypeOK, ValuesAssumption
<1>4. Astray(d)' \subseteq Astray(d)
  BY <1>1 DEF Astray, TypeOK, ValuesAssumption
<1>. QED
  BY <1>1, <1>3, <1>4, BalanceKept

\* A step that has nothing to do with the runs of commands.
LEMMA CountsSame ==
    RerunInv /\ UNCHANGED <<queue, lock, pc, cur, runs, faults>> => RerunInv'
  BY DEF RerunInv, Astray, Untried, Ran

\* Every step keeps the balance of runs and faults.
LEMMA RerunStep == TypeOK /\ CmdAtHand /\ ClaimBacked /\ RerunInv /\ [Next]_vars => RerunInv'
<1> SUFFICES ASSUME TypeOK, CmdAtHand, ClaimBacked, RerunInv, [Next]_vars PROVE RerunInv'
  OBVIOUS
<1> USE ValuesAssumption, SettingsAssumption, BoundsAssumption DEF TypeOK, CmdAtHand
<1>1. ASSUME NEW r \in Runners, Start(r) PROVE RerunInv'
  <2>1. /\ UNCHANGED <<queue, lock, runs>> /\ faults' \in Nat /\ faults' >= faults
        /\ pc'[r] # "run" /\ \A q \in Runners \ {r} : pc'[q] = pc[q] /\ cur'[q] = cur[q]
    BY <1>1 DEF Start
  <2>2. \A c \in Cmds : lock[c] # r
    BY <1>1, IdleHoldsNothing DEF Start
  <2>. QED
    BY <2>1, <2>2, QuietStep
<1>2. ASSUME NEW r \in Runners, Connect(r) PROVE RerunInv'
  <2>1. /\ UNCHANGED <<queue, lock, runs>> /\ faults' \in Nat /\ faults' >= faults
        /\ pc'[r] # "run" /\ \A q \in Runners \ {r} : pc'[q] = pc[q] /\ cur'[q] = cur[q]
    BY <1>2 DEF Connect
  <2>2. \A c \in Cmds : lock[c] # r
    BY <1>2, IdleHoldsNothing DEF Connect
  <2>. QED
    BY <2>1, <2>2, QuietStep
<1>3. ASSUME NEW r \in Runners, GiveUpConnecting(r) PROVE RerunInv'
  <2>1. /\ UNCHANGED <<queue, lock, runs>> /\ faults' \in Nat /\ faults' >= faults
        /\ pc'[r] # "run" /\ \A q \in Runners \ {r} : pc'[q] = pc[q] /\ cur'[q] = cur[q]
    BY <1>3 DEF GiveUpConnecting
  <2>2. \A c \in Cmds : lock[c] # r
    BY <1>3, IdleHoldsNothing DEF GiveUpConnecting
  <2>. QED
    BY <2>1, <2>2, QuietStep
<1>4. ASSUME NEW r \in Runners, SessionStart(r) PROVE RerunInv'
  <2>1. /\ UNCHANGED <<queue, lock, runs>> /\ faults' \in Nat /\ faults' >= faults
        /\ pc'[r] # "run" /\ \A q \in Runners \ {r} : pc'[q] = pc[q] /\ cur'[q] = cur[q]
    BY <1>4 DEF SessionStart
  <2>2. \A c \in Cmds : lock[c] # r
    BY <1>4, IdleHoldsNothing DEF SessionStart
  <2>. QED
    BY <2>1, <2>2, QuietStep
<1>5. ASSUME NEW r \in Runners, SessionStartFails(r) PROVE RerunInv'
  <2>1. /\ PassLocks(r, Orphan) /\ UNCHANGED queue /\ faults' \in Nat /\ faults' >= faults
        /\ pc'[r] # "run" /\ \A q \in Runners \ {r} : pc'[q] = pc[q] /\ cur'[q] = cur[q]
        /\ \A c \in Cmds : runs'[c] = 0 \/ runs'[c] = runs[c]
    BY <1>5 DEF LoseSession, SessionStartFails
  <2>2. \A c \in Cmds : lock[c] # r
    BY <1>5, IdleHoldsNothing DEF LoseSession, SessionStartFails
  <2>. QED
    BY <2>1, <2>2, LocksLeave
<1>6. ASSUME NEW r \in Runners, ClaimNext(r) PROVE RerunInv'
  <2>1. PICK c \in queue : lock[c] = Free /\ Claim(r, c)
    BY <1>6, CandidatesAreQueued DEF ClaimNext
  <2>. QED
    BY <2>1, ClaimCounts
<1>7. ASSUME NEW r \in Runners, ClaimNotified(r) PROVE RerunInv'
  <2>1. PICK c \in queue : lock[c] = Free /\ Claim(r, c)
    BY <1>7, CandidatesAreQueued DEF ClaimNotified
  <2>. QED
    BY <2>1, ClaimCounts
<1>8. ASSUME NEW r \in Runners, NotifiedGone(r) PROVE RerunInv'
  <2>1. /\ UNCHANGED <<queue, lock, runs>> /\ faults' \in Nat /\ faults' >= faults
        /\ pc'[r] # "run" /\ \A q \in Runners \ {r} : pc'[q] = pc[q] /\ cur'[q] = cur[q]
    BY <1>8 DEF NotifiedGone
  <2>2. \A c \in Cmds : lock[c] # r
    BY <1>8, IdleHoldsNothing DEF NotifiedGone
  <2>. QED
    BY <2>1, <2>2, QuietStep
<1>9. ASSUME NEW r \in Runners, RoundComplete(r) PROVE RerunInv'
  <2>1. /\ UNCHANGED <<queue, lock, runs>> /\ faults' \in Nat /\ faults' >= faults
        /\ pc'[r] # "run" /\ \A q \in Runners \ {r} : pc'[q] = pc[q] /\ cur'[q] = cur[q]
    BY <1>9 DEF RoundComplete
  <2>2. \A c \in Cmds : lock[c] # r
    BY <1>9, IdleHoldsNothing DEF RoundComplete
  <2>. QED
    BY <2>1, <2>2, QuietStep
<1>10. ASSUME NEW r \in Runners, EnterRound(r) PROVE RerunInv'
  <2>1. CASE RoundToEnter(r) <= IntMax
    <3>1. /\ pc[r] = "empty" /\ pc' = [pc EXCEPT ![r] = "commit"]
          /\ UNCHANGED <<queue, lock, cur, runs, faults>> /\ faults \in Nat
      BY <1>10, <2>1 DEF EnterRound
    <3>2. \A c \in Cmds : lock[c] # r
      BY <3>1, IdleHoldsNothing
    <3>. QED
      BY <3>1, <3>2, QuietStep
  <2>2. CASE ~(RoundToEnter(r) <= IntMax)
    <3>1. /\ PassLocks(r, Orphan) /\ pc[r] = "empty" /\ pc' = [pc EXCEPT ![r] = "crashed"]
          /\ UNCHANGED <<queue, cur, runs, faults>> /\ faults \in Nat
      BY <1>10, <2>2 DEF EnterRound, LoseSession
    <3>2. \A c \in Cmds : lock[c] # r
      BY <3>1, IdleHoldsNothing
    <3>. QED
      BY <3>1, <3>2, LocksLeave
  <2>. QED
    BY <2>1, <2>2
<1>11. ASSUME NEW r \in Runners, EnterRoundFails(r) PROVE RerunInv'
  <2>1. /\ PassLocks(r, Orphan) /\ UNCHANGED queue /\ faults' \in Nat /\ faults' >= faults
        /\ pc'[r] # "run" /\ \A q \in Runners \ {r} : pc'[q] = pc[q] /\ cur'[q] = cur[q]
        /\ \A c \in Cmds : runs'[c] = 0 \/ runs'[c] = runs[c]
    BY <1>11 DEF LoseSession, EnterRoundFails
  <2>2. \A c \in Cmds : lock[c] # r
    BY <1>11, IdleHoldsNothing DEF LoseSession, EnterRoundFails
  <2>. QED
    BY <2>1, <2>2, LocksLeave
<1>12. ASSUME NEW r \in Runners, RunCmd(r) PROVE RerunInv'
  BY <1>12, RunCounts
<1>13. ASSUME NEW r \in Runners, UpdateCmd(r) PROVE RerunInv'
  <2>1. /\ UNCHANGED <<queue, lock, runs>> /\ faults' \in Nat /\ faults' >= faults
        /\ pc'[r] # "run" /\ \A q \in Runners \ {r} : pc'[q] = pc[q] /\ cur'[q] = cur[q]
    BY <1>13 DEF UpdateCmd, EffectKinds
  <2>2. cur'[r] = cur[r] /\ (pc'[r] \in {"update", "commit"} <=> pc[r] \in {"update", "commit"})
    BY <1>13 DEF UpdateCmd, EffectKinds
  <2>. QED
    BY <2>1, <2>2, QuietStep
<1>14. ASSUME NEW r \in Runners, UpdateFails(r) PROVE RerunInv'
  <2>1. /\ PassLocks(r, Free) /\ UNCHANGED queue /\ faults' \in Nat /\ faults' >= faults
        /\ pc'[r] # "run" /\ \A q \in Runners \ {r} : pc'[q] = pc[q] /\ cur'[q] = cur[q]
        /\ \A c \in Cmds : runs'[c] = 0 \/ runs'[c] = runs[c]
    BY <1>14 DEF UpdateFails
  <2>2. \A c \in Cmds : lock[c] = r => runs'[c] = 0 \/ faults' > faults \/ c \notin queue'
    BY <1>14 DEF UpdateFails, ClaimBacked, Working
  <2>. QED
    BY <2>1, <2>2, LocksLeave
<1>15. ASSUME NEW r \in Runners, RememberFailed(r) PROVE RerunInv'
  <2>1. /\ UNCHANGED <<queue, lock, runs>> /\ faults' \in Nat /\ faults' >= faults
        /\ pc'[r] # "run" /\ \A q \in Runners \ {r} : pc'[q] = pc[q] /\ cur'[q] = cur[q]
    BY <1>15 DEF RememberFailed
  <2>2. \A c \in Cmds : lock[c] # r
    BY <1>15, IdleHoldsNothing DEF RememberFailed
  <2>. QED
    BY <2>1, <2>2, QuietStep
<1>16. ASSUME NEW r \in Runners, Commit(r) PROVE RerunInv'
  <2>1. /\ PassLocks(r, Free) /\ queue' \subseteq queue /\ faults' \in Nat /\ faults' >= faults
        /\ pc'[r] # "run" /\ \A q \in Runners \ {r} : pc'[q] = pc[q] /\ cur'[q] = cur[q]
    BY <1>16 DEF Commit, Settle
  <2>2. \A c \in Cmds : runs'[c] = 0 \/ runs'[c] = runs[c]
    BY <1>16 DEF Commit, Settle
  <2>3. ASSUME NEW c \in Cmds, lock[c] = r PROVE runs'[c] = 0 \/ c \notin queue'
    <3>1. cur[r] = c /\ verdict[r] # "none"
      BY <1>16, <2>3 DEF Commit, ClaimBacked, Working
    <3>2. verdict[r] = "delete" => c \notin queue'
      BY <1>16, <3>1 DEF Commit, Settle
    <3>3. verdict[r] \in {"keep", "ignore"} => runs'[c] = 0
      BY <1>16, <3>1 DEF Commit, Settle
    <3>. QED
      BY <3>1, <3>2, <3>3
  <2>. QED
    BY <2>1, <2>2, <2>3, LocksLeave
<1>17. ASSUME NEW r \in Runners, BackToConnect(r) PROVE RerunInv'
  <2>1. /\ UNCHANGED <<queue, lock, runs>> /\ faults' \in Nat /\ faults' >= faults
        /\ pc'[r] # "run" /\ \A q \in Runners \ {r} : pc'[q] = pc[q] /\ cur'[q] = cur[q]
    BY <1>17 DEF BackToConnect
  <2>2. \A c \in Cmds : lock[c] # r
    BY <1>17, IdleHoldsNothing DEF BackToConnect
  <2>. QED
    BY <2>1, <2>2, QuietStep
<1>18. ASSUME NEW r \in Runners, TakeNotification(r) PROVE RerunInv'
  <2>1. /\ UNCHANGED <<queue, lock, runs>> /\ faults' \in Nat /\ faults' >= faults
        /\ pc'[r] # "run" /\ \A q \in Runners \ {r} : pc'[q] = pc[q] /\ cur'[q] = cur[q]
    BY <1>18 DEF TakeNotification, HandleNotification
  <2>2. \A c \in Cmds : lock[c] # r
    BY <1>18, IdleHoldsNothing DEF TakeNotification, HandleNotification
  <2>. QED
    BY <2>1, <2>2, QuietStep
<1>19. ASSUME NEW r \in Runners, PollTimeout(r) PROVE RerunInv'
  <2>1. /\ UNCHANGED <<queue, lock, runs>> /\ faults' \in Nat /\ faults' >= faults
        /\ pc'[r] # "run" /\ \A q \in Runners \ {r} : pc'[q] = pc[q] /\ cur'[q] = cur[q]
    BY <1>19 DEF PollTimeout, Reselect
  <2>2. \A c \in Cmds : lock[c] # r
    BY <1>19, IdleHoldsNothing DEF PollTimeout, Reselect
  <2>. QED
    BY <2>1, <2>2, QuietStep
<1>20. ASSUME NEW r \in Runners, ConsumeInput(r) PROVE RerunInv'
  <2>1. /\ UNCHANGED <<queue, lock, runs>> /\ faults' \in Nat /\ faults' >= faults
        /\ pc'[r] # "run" /\ \A q \in Runners \ {r} : pc'[q] = pc[q] /\ cur'[q] = cur[q]
    BY <1>20 DEF ConsumeInput
  <2>2. cur'[r] = cur[r] /\ (pc'[r] \in {"update", "commit"} <=> pc[r] \in {"update", "commit"})
    BY <1>20 DEF ConsumeInput
  <2>. QED
    BY <2>1, <2>2, QuietStep
<1>21. ASSUME NEW r \in Runners, DrainKillPipe(r) PROVE RerunInv'
  <2>1. /\ PassLocks(r, Orphan) /\ UNCHANGED queue /\ faults' \in Nat /\ faults' >= faults
        /\ pc'[r] # "run" /\ \A q \in Runners \ {r} : pc'[q] = pc[q] /\ cur'[q] = cur[q]
        /\ \A c \in Cmds : runs'[c] = 0 \/ runs'[c] = runs[c]
    BY <1>21 DEF LoseSession, DrainKillPipe
  <2>2. \A c \in Cmds : lock[c] # r
    BY <1>21, IdleHoldsNothing DEF LoseSession, DrainKillPipe
  <2>. QED
    BY <2>1, <2>2, LocksLeave
<1>22. ASSUME NEW r \in Runners, SelectFails(r) PROVE RerunInv'
  <2>1. /\ UNCHANGED <<queue, lock, runs>> /\ faults' \in Nat /\ faults' >= faults
        /\ pc'[r] # "run" /\ \A q \in Runners \ {r} : pc'[q] = pc[q] /\ cur'[q] = cur[q]
    BY <1>22 DEF SelectFails
  <2>2. \A c \in Cmds : lock[c] # r
    BY <1>22, IdleHoldsNothing DEF SelectFails
  <2>. QED
    BY <2>1, <2>2, QuietStep
<1>23. ASSUME NEW r \in Runners, CommitFails(r) PROVE RerunInv'
  <2>1. /\ PassLocks(r, Free) /\ UNCHANGED queue /\ faults' \in Nat /\ faults' >= faults
        /\ pc'[r] # "run" /\ \A q \in Runners \ {r} : pc'[q] = pc[q] /\ cur'[q] = cur[q]
        /\ \A c \in Cmds : runs'[c] = 0 \/ runs'[c] = runs[c]
    BY <1>23 DEF CommitFails
  <2>2. faults' > faults
    BY <1>23 DEF CommitFails
  <2>. QED
    BY <2>1, <2>2, LocksLeave
<1>24. ASSUME NEW r \in Runners, CommitUnacknowledged(r) PROVE RerunInv'
  <2>1. /\ PassLocks(r, Free) /\ queue' \subseteq queue /\ faults' \in Nat /\ faults' >= faults
        /\ pc'[r] # "run" /\ \A q \in Runners \ {r} : pc'[q] = pc[q] /\ cur'[q] = cur[q]
    BY <1>24 DEF CommitUnacknowledged, Settle
  <2>2. \A c \in Cmds : runs'[c] = 0 \/ runs'[c] = runs[c]
    BY <1>24 DEF CommitUnacknowledged, Settle
  <2>3. ASSUME NEW c \in Cmds, lock[c] = r PROVE runs'[c] = 0 \/ c \notin queue'
    <3>1. cur[r] = c /\ verdict[r] # "none"
      BY <1>24, <2>3 DEF CommitUnacknowledged, ClaimBacked, Working
    <3>2. verdict[r] = "delete" => c \notin queue'
      BY <1>24, <3>1 DEF CommitUnacknowledged, Settle
    <3>3. verdict[r] \in {"keep", "ignore"} => runs'[c] = 0
      BY <1>24, <3>1 DEF CommitUnacknowledged, Settle
    <3>. QED
      BY <3>1, <3>2, <3>3
  <2>. QED
    BY <2>1, <2>2, <2>3, LocksLeave
<1>25. ASSUME NEW r \in Runners, ConnLoss(r) PROVE RerunInv'
  BY <1>25, LossCounts
<1>26. ASSUME NEW r \in Runners, Crash(r) PROVE RerunInv'
  <2>1. /\ PassLocks(r, Orphan) /\ UNCHANGED queue /\ faults' \in Nat /\ faults' >= faults
        /\ pc'[r] # "run" /\ \A q \in Runners \ {r} : pc'[q] = pc[q] /\ cur'[q] = cur[q]
        /\ \A c \in Cmds : runs'[c] = 0 \/ runs'[c] = runs[c]
    BY <1>26 DEF Crash, LoseSession
  <2>2. faults' > faults
    BY <1>26 DEF Crash, LoseSession
  <2>. QED
    BY <2>1, <2>2, LocksLeave
<1>27. ASSUME NEW r \in Runners, InputArrives(r) PROVE RerunInv'
  <2>1. UNCHANGED <<queue, lock, pc, cur, runs, faults>>
    BY <1>27 DEF InputArrives
  <2>. QED
    BY <2>1, CountsSame
<1>28. ASSUME NEW r \in Runners, Tick(r) PROVE RerunInv'
  <2>1. UNCHANGED <<queue, lock, pc, cur, runs, faults>>
    BY <1>28 DEF Tick
  <2>. QED
    BY <2>1, CountsSame
<1>29. ASSUME NEW r \in Runners, Kill(r) PROVE RerunInv'
  <2>1. UNCHANGED <<queue, lock, pc, cur, runs, faults>>
    BY <1>29 DEF Kill
  <2>. QED
    BY <2>1, CountsSame
<1>30. ASSUME NEW r \in Runners, Signal(r) PROVE RerunInv'
  <2>1. UNCHANGED <<queue, lock, pc, cur, runs, faults>>
    BY <1>30 DEF Signal
  <2>. QED
    BY <2>1, CountsSame
<1>31. ASSUME NEW r \in Runners, Restart(r) PROVE RerunInv'
  <2>1. /\ UNCHANGED <<queue, lock, runs>> /\ faults' \in Nat /\ faults' >= faults
        /\ pc'[r] # "run" /\ \A q \in Runners \ {r} : pc'[q] = pc[q] /\ cur'[q] = cur[q]
    BY <1>31 DEF Restart
  <2>2. \A c \in Cmds : lock[c] # r
    BY <1>31, IdleHoldsNothing DEF Restart
  <2>. QED
    BY <2>1, <2>2, QuietStep
<1>32. ASSUME NEW c \in Cmds, Enqueue(c) PROVE RerunInv'
  <2>1. /\ UNCHANGED <<lock, pc, cur, faults>> /\ faults \in Nat
        /\ queue' = queue \cup {c} /\ runs' = [runs EXCEPT ![c] = 0]
    BY <1>32 DEF Enqueue
  <2>2. ASSUME NEW d \in Cmds
        PROVE  /\ Astray(d)' \subseteq Astray(d)
               /\ runs'[d] = 0 \/ (runs'[d] = runs[d] /\ (Untried(d)' => Untried(d)))
    BY <2>1 DEF Astray, Untried, Ran
  <2>. QED
    BY <2>1, <2>2, BalanceKept DEF RerunInv
<1>33. ASSUME NEW c \in Cmds, Withdraw(c) PROVE RerunInv'
  <2>1. UNCHANGED <<lock, pc, cur, faults, runs>> /\ faults \in Nat /\ queue' \subseteq queue
    BY <1>33 DEF Withdraw
  <2>2. ASSUME NEW d \in Cmds
        PROVE  Astray(d)' \subseteq Astray(d) /\ (Untried(d)' => Untried(d))
    BY <2>1 DEF Astray, Untried, Ran
  <2>. QED
    BY <2>1, <2>2, BalanceKept DEF RerunInv
<1>34. ASSUME NEW c \in Cmds, ReapOrphan(c) PROVE RerunInv'
  <2>1. /\ UNCHANGED <<queue, pc, cur, faults, runs>> /\ faults \in Nat
        /\ lock[c] = Orphan /\ lock' = [lock EXCEPT ![c] = Free]
    BY <1>34 DEF ReapOrphan
  <2>2. ASSUME NEW d \in Cmds
        PROVE  Astray(d)' \subseteq Astray(d) /\ (Untried(d)' => Untried(d))
    BY <2>1 DEF Astray, Untried, Ran
  <2>. QED
    BY <2>1, <2>2, BalanceKept DEF RerunInv
<1>35. ASSUME NEW p \in {Other, Malformed}, Stray(p) PROVE RerunInv'
  <2>1. UNCHANGED <<queue, lock, pc, cur, runs, faults>>
    BY <1>35 DEF Stray
  <2>. QED
    BY <2>1, CountsSame
<1>36. CASE UNCHANGED vars
  <2>1. UNCHANGED <<queue, lock, pc, cur, runs, faults>>
    BY <1>36 DEF vars
  <2>. QED
    BY <2>1, CountsSame
<1>37. ASSUME NEW r \in Runners, Step(r) PROVE RerunInv'
  BY <1>37, <1>1, <1>2, <1>3, <1>4, <1>5, <1>6, <1>7, <1>8, <1>9,
     <1>10, <1>11, <1>12, <1>13, <1>14, <1>15, <1>16, <1>17,
     <1>18, <1>19, <1>20, <1>21 DEF Step, Select, Poll
<1>38. ASSUME NEW r \in Runners, Failure(r) PROVE RerunInv'
  BY <1>38, <1>22, <1>23, <1>24, <1>25, <1>26 DEF Failure
<1>39. CASE Client
  BY <1>39, <1>32, <1>33, <1>34, <1>35 DEF Client
<1>. QED
  BY <1>27, <1>28, <1>29, <1>30, <1>31, <1>36, <1>37, <1>38, <1>39 DEF Next

\* A command runs again only when its last run is known to have left it in the
\* queue, or because of a fault, whatever number of runners race for it with their
\* regular SELECT and the one for a notification, and however many faults there are.
THEOREM RerunsNeedFaults == Spec => []RerunNeedsFault
<1>1. Init => TypeOK /\ CmdAtHand /\ ClaimBacked /\ RerunInv
  <2>1. ASSUME Init PROVE RerunInv
    <3>1. \A c \in Cmds : Astray(c) = {} /\ runs[c] = 0 /\ faults = 0
      BY <2>1 DEF Init, Astray
    <3>. QED
      BY <3>1, FS_EmptySet DEF RerunInv
  <2>. QED
    BY <2>1, ValuesAssumption, SettingsAssumption, BoundsAssumption
    DEF Init, TypeOK, Pcs, Payloads, CmdAtHand, ClaimBacked, Working
<1>2. TypeOK /\ RerunInv => RerunNeedsFault
  <2>1. ASSUME TypeOK, RerunInv, NEW c \in Cmds PROVE runs[c] <= 1 + faults
    <3>1. /\ Cardinality(Astray(c)) \in Nat /\ runs[c] \in Nat /\ faults \in Nat
          /\ runs[c] + Cardinality(Astray(c)) <= faults + (IF Untried(c) THEN 0 ELSE 1)
      BY <2>1, FS_CardinalityType DEF RerunInv, TypeOK
    <3>. QED
      BY <3>1
  <2>. QED
    BY <2>1 DEF RerunNeedsFault
<1>. QED
  BY <1>1, <1>2, TypeStep, CmdAtHandStep, ClaimBackedStep, RerunStep, PTL DEF Spec

-----------------------------------------------------------------------------
(* What the reselect loop leaves out *)

Looping == {"select", "run", "update", "remember", "empty", "commit", "poll"}

\* The command that r has run but not yet put on record for this round.
AtHand(r) ==
    IF pc[r] \in {"update", "remember"} \/ verdict[r] # "none" THEN {cur[r]} ELSE {}

\* What ran in this round is in updated_cmd, or on its way there.
OnceInv ==
    \A r \in Runners :
      /\ verdict[r] # "ignore"
      /\ (conn[r] = "ok" /\ pc[r] \in Looping) => handled[r] \subseteq updated[r] \cup AtHand(r)

\* A step of r leaves the records of the other runners alone.
LEMMA OnceFrame ==
    ASSUME OnceInv, NEW r \in Runners,
           \A q \in Runners \ {r} :
             /\ conn'[q] = conn[q] /\ pc'[q] = pc[q] /\ verdict'[q] = verdict[q]
             /\ handled'[q] = handled[q] /\ updated'[q] = updated[q] /\ cur'[q] = cur[q],
           verdict'[r] # "ignore",
           (conn'[r] = "ok" /\ pc'[r] \in Looping)
             => handled'[r] \subseteq updated'[r] \cup AtHand(r)'
    PROVE  OnceInv'
<1> SUFFICES ASSUME NEW q \in Runners
             PROVE  /\ verdict'[q] # "ignore"
                    /\ (conn'[q] = "ok" /\ pc'[q] \in Looping)
                       => handled'[q] \subseteq updated'[q] \cup AtHand(q)'
  BY DEF OnceInv
<1>1. CASE q = r
  BY <1>1
<1>2. CASE q # r
  BY <1>2 DEF OnceInv, AtHand
<1>. QED
  BY <1>1, <1>2

\* Every step keeps the commands of the round on record, when no trigger suppresses
\* an UPDATE and no COMMIT fails.
LEMMA OnceStep ==
    ASSUME "ignore" \notin Effects, "commit" \notin Faults,
           TypeOK, CmdAtHand, OnceInv, [Next]_vars
    PROVE  OnceInv'
<1> USE DEF TypeOK, CmdAtHand, OnceInv, AtHand, Looping
<1>1. ASSUME NEW r \in Runners, Start(r) PROVE OnceInv'
  BY <1>1 DEF Start
<1>2. ASSUME NEW r \in Runners, Connect(r) PROVE OnceInv'
  BY <1>2 DEF Connect
<1>3. ASSUME NEW r \in Runners, GiveUpConnecting(r) PROVE OnceInv'
  BY <1>3 DEF GiveUpConnecting
<1>4. ASSUME NEW r \in Runners, SessionStart(r) PROVE OnceInv'
  BY <1>4 DEF SessionStart
<1>5. ASSUME NEW r \in Runners, SessionStartFails(r) PROVE OnceInv'
  BY <1>5 DEF SessionStartFails, LoseSession
<1>6. ASSUME NEW r \in Runners, ClaimNext(r) PROVE OnceInv'
  BY <1>6 DEF ClaimNext, Claim, Candidates, Oldest, Eligible
<1>7. ASSUME NEW r \in Runners, ClaimNotified(r) PROVE OnceInv'
  BY <1>7 DEF ClaimNotified, Claim, Notified
<1>8. ASSUME NEW r \in Runners, NotifiedGone(r) PROVE OnceInv'
  BY <1>8 DEF NotifiedGone
<1>9. ASSUME NEW r \in Runners, RoundComplete(r) PROVE OnceInv'
  BY <1>9 DEF RoundComplete
<1>10. ASSUME NEW r \in Runners, EnterRound(r) PROVE OnceInv'
  <2>1. \A q \in Runners \ {r} :
          /\ conn'[q] = conn[q] /\ pc'[q] = pc[q] /\ verdict'[q] = verdict[q]
          /\ handled'[q] = handled[q] /\ updated'[q] = updated[q] /\ cur'[q] = cur[q]
    BY <1>10 DEF EnterRound, LoseSession, TruncateUpdated
  <2>2. verdict'[r] # "ignore"
    BY <1>10 DEF EnterRound, LoseSession
  <2>3. handled'[r] = {}
    BY <1>10 DEF EnterRound
  <2>. QED
    BY <2>1, <2>2, <2>3, OnceFrame
<1>11. ASSUME NEW r \in Runners, EnterRoundFails(r) PROVE OnceInv'
  BY <1>11 DEF EnterRoundFails, LoseSession
<1>12. ASSUME NEW r \in Runners, RunCmd(r) PROVE OnceInv'
  BY <1>12 DEF RunCmd
<1>13. ASSUME NEW r \in Runners, UpdateCmd(r) PROVE OnceInv'
  <2>1. \A q \in Runners \ {r} :
          /\ conn'[q] = conn[q] /\ pc'[q] = pc[q] /\ verdict'[q] = verdict[q]
          /\ handled'[q] = handled[q] /\ updated'[q] = updated[q] /\ cur'[q] = cur[q]
    BY <1>13 DEF UpdateCmd
  <2>2. verdict'[r] # "ignore" /\ verdict'[r] # "none"
    BY <1>13, SettingsAssumption DEF UpdateCmd, EffectKinds
  <2>3. /\ pc[r] = "update" /\ conn[r] = "ok"
        /\ UNCHANGED <<handled, updated, cur>> /\ AtHand(r)' = {cur[r]}
    BY <1>13, <2>2 DEF UpdateCmd
  <2>. QED
    BY <2>1, <2>2, <2>3, OnceFrame
<1>14. ASSUME NEW r \in Runners, UpdateFails(r) PROVE OnceInv'
  BY <1>14 DEF UpdateFails
<1>15. ASSUME NEW r \in Runners, RememberFailed(r) PROVE OnceInv'
  <2>1. \A q \in Runners \ {r} :
          /\ conn'[q] = conn[q] /\ pc'[q] = pc[q] /\ verdict'[q] = verdict[q]
          /\ handled'[q] = handled[q] /\ updated'[q] = updated[q] /\ cur'[q] = cur[q]
    BY <1>15 DEF RememberFailed, Remember
  <2>2. verdict'[r] # "ignore"
    BY <1>15 DEF RememberFailed
  <2>3. handled'[r] \subseteq updated'[r]
    <3>1. conn[r] = "ok" /\ pc[r] = "remember" /\ handled' = handled
      BY <1>15 DEF RememberFailed
    <3>2. updated'[r] = updated[r] \cup {cur[r]}
      BY <1>15 DEF RememberFailed, Remember
    <3>. QED
      BY <3>1, <3>2
  <2>. QED
    BY <2>1, <2>2, <2>3, OnceFrame
<1>16. ASSUME NEW r \in Runners, Commit(r) PROVE OnceInv'
  <2>1. \A q \in Runners \ {r} :
          /\ conn'[q] = conn[q] /\ pc'[q] = pc[q] /\ verdict'[q] = verdict[q]
          /\ handled'[q] = handled[q] /\ updated'[q] = updated[q] /\ cur'[q] = cur[q]
    BY <1>16 DEF Commit, Settle
  <2>2. verdict'[r] = "none"
    BY <1>16 DEF Commit
  <2>3. handled'[r] \subseteq updated'[r]
    <3>1. conn[r] = "ok" /\ pc[r] = "commit" /\ handled' = handled
      BY <1>16 DEF Commit
    <3>2. verdict[r] = "none" => handled[r] \subseteq updated[r] /\ updated' = updated
      BY <1>16, <3>1 DEF Commit, Settle
    <3>3. verdict[r] # "none"
          => handled[r] \subseteq updated[r] \cup {cur[r]} /\ updated'[r] = updated[r] \cup {cur[r]}
      <4>1. verdict[r] # "none" => verdict[r] \in {"delete", "keep"}
        OBVIOUS
      <4>. QED
        BY <1>16, <3>1, <4>1 DEF Commit, Settle
    <3>. QED
      BY <3>1, <3>2, <3>3
  <2>. QED
    BY <2>1, <2>2, <2>3, OnceFrame
<1>17. ASSUME NEW r \in Runners, BackToConnect(r) PROVE OnceInv'
  BY <1>17 DEF BackToConnect
<1>18. ASSUME NEW r \in Runners, TakeNotification(r) PROVE OnceInv'
  BY <1>18 DEF TakeNotification, HandleNotification
<1>19. ASSUME NEW r \in Runners, PollTimeout(r) PROVE OnceInv'
  BY <1>19 DEF PollTimeout, Reselect
<1>20. ASSUME NEW r \in Runners, ConsumeInput(r) PROVE OnceInv'
  BY <1>20 DEF ConsumeInput
<1>21. ASSUME NEW r \in Runners, DrainKillPipe(r) PROVE OnceInv'
  BY <1>21 DEF DrainKillPipe, LoseSession
<1>22. ASSUME NEW r \in Runners, SelectFails(r) PROVE OnceInv'
  BY <1>22 DEF SelectFails
<1>23. ASSUME NEW r \in Runners, CommitFails(r) PROVE OnceInv'
  BY <1>23 DEF CommitFails
<1>24. ASSUME NEW r \in Runners, CommitUnacknowledged(r) PROVE OnceInv'
  <2>1. \A q \in Runners \ {r} :
          /\ conn'[q] = conn[q] /\ pc'[q] = pc[q] /\ verdict'[q] = verdict[q]
          /\ handled'[q] = handled[q] /\ updated'[q] = updated[q] /\ cur'[q] = cur[q]
    BY <1>24 DEF CommitUnacknowledged, Settle
  <2>2. verdict'[r] = "none"
    BY <1>24 DEF CommitUnacknowledged
  <2>3. handled'[r] \subseteq updated'[r]
    <3>1. conn[r] = "ok" /\ pc[r] = "commit" /\ handled' = handled
      BY <1>24 DEF CommitUnacknowledged
    <3>2. verdict[r] = "none" => handled[r] \subseteq updated[r] /\ updated' = updated
      BY <1>24, <3>1 DEF CommitUnacknowledged, Settle
    <3>3. verdict[r] # "none"
          => handled[r] \subseteq updated[r] \cup {cur[r]} /\ updated'[r] = updated[r] \cup {cur[r]}
      <4>1. verdict[r] # "none" => verdict[r] \in {"delete", "keep"}
        OBVIOUS
      <4>. QED
        BY <1>24, <3>1, <4>1 DEF CommitUnacknowledged, Settle
    <3>. QED
      BY <3>1, <3>2, <3>3
  <2>. QED
    BY <2>1, <2>2, <2>3, OnceFrame
<1>25. ASSUME NEW r \in Runners, ConnLoss(r) PROVE OnceInv'
  BY <1>25 DEF ConnLoss, LoseSession
<1>26. ASSUME NEW r \in Runners, Crash(r) PROVE OnceInv'
  BY <1>26 DEF Crash, LoseSession
<1>27. ASSUME NEW r \in Runners, InputArrives(r) PROVE OnceInv'
  BY <1>27 DEF InputArrives
<1>28. ASSUME NEW r \in Runners, Tick(r) PROVE OnceInv'
  BY <1>28 DEF Tick
<1>29. ASSUME NEW r \in Runners, Kill(r) PROVE OnceInv'
  BY <1>29 DEF Kill
<1>30. ASSUME NEW r \in Runners, Signal(r) PROVE OnceInv'
  BY <1>30 DEF Signal
<1>31. ASSUME NEW r \in Runners, Restart(r) PROVE OnceInv'
  BY <1>31 DEF Restart
<1>32. ASSUME NEW c \in Cmds, Enqueue(c) PROVE OnceInv'
  BY <1>32 DEF Enqueue
<1>33. ASSUME NEW c \in Cmds, Withdraw(c) PROVE OnceInv'
  BY <1>33 DEF Withdraw
<1>34. ASSUME NEW c \in Cmds, ReapOrphan(c) PROVE OnceInv'
  BY <1>34 DEF ReapOrphan
<1>35. ASSUME NEW p \in {Other, Malformed}, Stray(p) PROVE OnceInv'
  BY <1>35 DEF Stray
<1>36. CASE UNCHANGED vars
  BY <1>36 DEF vars
<1>37. ASSUME NEW r \in Runners, Step(r) PROVE OnceInv'
  BY <1>37, <1>1, <1>2, <1>3, <1>4, <1>5, <1>6, <1>7, <1>8, <1>9,
     <1>10, <1>11, <1>12, <1>13, <1>14, <1>15, <1>16, <1>17,
     <1>18, <1>19, <1>20, <1>21 DEF Step, Select, Poll
<1>38. ASSUME NEW r \in Runners, Failure(r) PROVE OnceInv'
  BY <1>38, <1>22, <1>23, <1>24, <1>25, <1>26 DEF Failure
<1>39. CASE Client
  BY <1>39, <1>32, <1>33, <1>34, <1>35 DEF Client
<1>. QED
  BY <1>27, <1>28, <1>29, <1>30, <1>31, <1>36, <1>37, <1>38, <1>39 DEF Next

\* A runner gets from a SELECT to a run by claiming a command.
LEMMA OnlySelectsClaim ==
    ASSUME TypeOK, [Next]_vars, NEW r0 \in Runners, pc[r0] = "select", pc'[r0] = "run"
    PROVE  ClaimNext(r0) \/ ClaimNotified(r0)
<1> USE DEF TypeOK
<1>1. ASSUME NEW r \in Runners, Start(r) PROVE ClaimNext(r0) \/ ClaimNotified(r0)
  BY <1>1 DEF Start
<1>2. ASSUME NEW r \in Runners, Connect(r) PROVE ClaimNext(r0) \/ ClaimNotified(r0)
  BY <1>2 DEF Connect
<1>3. ASSUME NEW r \in Runners, GiveUpConnecting(r) PROVE ClaimNext(r0) \/ ClaimNotified(r0)
  BY <1>3 DEF GiveUpConnecting
<1>4. ASSUME NEW r \in Runners, SessionStart(r) PROVE ClaimNext(r0) \/ ClaimNotified(r0)
  BY <1>4 DEF SessionStart
<1>5. ASSUME NEW r \in Runners, SessionStartFails(r) PROVE ClaimNext(r0) \/ ClaimNotified(r0)
  BY <1>5 DEF SessionStartFails, LoseSession
<1>6. ASSUME NEW r \in Runners, ClaimNext(r) PROVE ClaimNext(r0) \/ ClaimNotified(r0)
  <2>1. pc' = [pc EXCEPT ![r] = "run"]
    BY <1>6 DEF ClaimNext, Claim
  <2>2. r = r0
    BY <2>1
  <2>. QED
    BY <1>6, <2>2
<1>7. ASSUME NEW r \in Runners, ClaimNotified(r) PROVE ClaimNext(r0) \/ ClaimNotified(r0)
  <2>1. pc' = [pc EXCEPT ![r] = "run"]
    BY <1>7 DEF ClaimNotified, Claim
  <2>2. r = r0
    BY <2>1
  <2>. QED
    BY <1>7, <2>2
<1>8. ASSUME NEW r \in Runners, NotifiedGone(r) PROVE ClaimNext(r0) \/ ClaimNotified(r0)
  BY <1>8 DEF NotifiedGone
<1>9. ASSUME NEW r \in Runners, RoundComplete(r) PROVE ClaimNext(r0) \/ ClaimNotified(r0)
  BY <1>9 DEF RoundComplete
<1>10. ASSUME NEW r \in Runners, EnterRound(r) PROVE ClaimNext(r0) \/ ClaimNotified(r0)
  BY <1>10 DEF EnterRound, LoseSession
<1>11. ASSUME NEW r \in Runners, EnterRoundFails(r) PROVE ClaimNext(r0) \/ ClaimNotified(r0)
  BY <1>11 DEF EnterRoundFails, LoseSession
<1>12. ASSUME NEW r \in Runners, RunCmd(r) PROVE ClaimNext(r0) \/ ClaimNotified(r0)
  BY <1>12 DEF RunCmd
<1>13. ASSUME NEW r \in Runners, UpdateCmd(r) PROVE ClaimNext(r0) \/ ClaimNotified(r0)
  BY <1>13 DEF UpdateCmd, EffectKinds
<1>14. ASSUME NEW r \in Runners, UpdateFails(r) PROVE ClaimNext(r0) \/ ClaimNotified(r0)
  BY <1>14 DEF UpdateFails
<1>15. ASSUME NEW r \in Runners, RememberFailed(r) PROVE ClaimNext(r0) \/ ClaimNotified(r0)
  BY <1>15 DEF RememberFailed
<1>16. ASSUME NEW r \in Runners, Commit(r) PROVE ClaimNext(r0) \/ ClaimNotified(r0)
  BY <1>16 DEF Commit
<1>17. ASSUME NEW r \in Runners, BackToConnect(r) PROVE ClaimNext(r0) \/ ClaimNotified(r0)
  BY <1>17 DEF BackToConnect
<1>18. ASSUME NEW r \in Runners, TakeNotification(r) PROVE ClaimNext(r0) \/ ClaimNotified(r0)
  BY <1>18 DEF TakeNotification, HandleNotification
<1>19. ASSUME NEW r \in Runners, PollTimeout(r) PROVE ClaimNext(r0) \/ ClaimNotified(r0)
  BY <1>19 DEF PollTimeout, Reselect
<1>20. ASSUME NEW r \in Runners, ConsumeInput(r) PROVE ClaimNext(r0) \/ ClaimNotified(r0)
  BY <1>20 DEF ConsumeInput
<1>21. ASSUME NEW r \in Runners, DrainKillPipe(r) PROVE ClaimNext(r0) \/ ClaimNotified(r0)
  BY <1>21 DEF DrainKillPipe, LoseSession
<1>22. ASSUME NEW r \in Runners, SelectFails(r) PROVE ClaimNext(r0) \/ ClaimNotified(r0)
  BY <1>22 DEF SelectFails
<1>23. ASSUME NEW r \in Runners, CommitFails(r) PROVE ClaimNext(r0) \/ ClaimNotified(r0)
  BY <1>23 DEF CommitFails
<1>24. ASSUME NEW r \in Runners, CommitUnacknowledged(r) PROVE ClaimNext(r0) \/ ClaimNotified(r0)
  BY <1>24 DEF CommitUnacknowledged
<1>25. ASSUME NEW r \in Runners, ConnLoss(r) PROVE ClaimNext(r0) \/ ClaimNotified(r0)
  BY <1>25 DEF ConnLoss, LoseSession
<1>26. ASSUME NEW r \in Runners, Crash(r) PROVE ClaimNext(r0) \/ ClaimNotified(r0)
  BY <1>26 DEF Crash, LoseSession
<1>27. ASSUME NEW r \in Runners, InputArrives(r) PROVE ClaimNext(r0) \/ ClaimNotified(r0)
  BY <1>27 DEF InputArrives
<1>28. ASSUME NEW r \in Runners, Tick(r) PROVE ClaimNext(r0) \/ ClaimNotified(r0)
  BY <1>28 DEF Tick
<1>29. ASSUME NEW r \in Runners, Kill(r) PROVE ClaimNext(r0) \/ ClaimNotified(r0)
  BY <1>29 DEF Kill
<1>30. ASSUME NEW r \in Runners, Signal(r) PROVE ClaimNext(r0) \/ ClaimNotified(r0)
  BY <1>30 DEF Signal
<1>31. ASSUME NEW r \in Runners, Restart(r) PROVE ClaimNext(r0) \/ ClaimNotified(r0)
  BY <1>31 DEF Restart
<1>32. ASSUME NEW c \in Cmds, Enqueue(c) PROVE ClaimNext(r0) \/ ClaimNotified(r0)
  BY <1>32 DEF Enqueue
<1>33. ASSUME NEW c \in Cmds, Withdraw(c) PROVE ClaimNext(r0) \/ ClaimNotified(r0)
  BY <1>33 DEF Withdraw
<1>34. ASSUME NEW c \in Cmds, ReapOrphan(c) PROVE ClaimNext(r0) \/ ClaimNotified(r0)
  BY <1>34 DEF ReapOrphan
<1>35. ASSUME NEW p \in {Other, Malformed}, Stray(p) PROVE ClaimNext(r0) \/ ClaimNotified(r0)
  BY <1>35 DEF Stray
<1>36. CASE UNCHANGED vars
  BY <1>36 DEF vars
<1>37. ASSUME NEW r \in Runners, Step(r) PROVE ClaimNext(r0) \/ ClaimNotified(r0)
  BY <1>37, <1>1, <1>2, <1>3, <1>4, <1>5, <1>6, <1>7, <1>8, <1>9,
     <1>10, <1>11, <1>12, <1>13, <1>14, <1>15, <1>16, <1>17,
     <1>18, <1>19, <1>20, <1>21 DEF Step, Select, Poll
<1>38. ASSUME NEW r \in Runners, Failure(r) PROVE ClaimNext(r0) \/ ClaimNotified(r0)
  BY <1>38, <1>22, <1>23, <1>24, <1>25, <1>26 DEF Failure
<1>39. CASE Client
  BY <1>39, <1>32, <1>33, <1>34, <1>35 DEF Client
<1>. QED
  BY <1>27, <1>28, <1>29, <1>30, <1>31, <1>36, <1>37, <1>38, <1>39 DEF Next

\* The (re)select loop never picks a command that it already ran in the present
\* round.  Two settings of a queue break this, and are left out: a trigger that
\* suppresses the UPDATE, so that updated_cmd never hears of the run, and a COMMIT
\* that fails, which takes updated_cmd back with the rest of the transaction.
THEOREM RunsOncePerRound ==
    ASSUME "ignore" \notin Effects, "commit" \notin Faults
    PROVE  Spec => OncePerRound
<1>1. Init => TypeOK /\ CmdAtHand /\ OnceInv
  BY ValuesAssumption, SettingsAssumption, BoundsAssumption
  DEF Init, TypeOK, Pcs, Payloads, CmdAtHand, OnceInv, Looping
<1>2. TypeOK /\ CmdAtHand /\ OnceInv /\ [Next]_vars => OnceInv'
  BY OnceStep
<1>3. TypeOK /\ CmdAtHand /\ OnceInv /\ [Next]_vars
      => [\A r \in Runners :
            (pc[r] = "select" /\ pc'[r] = "run" /\ notifyCmd[r] = NoCmd)
            => cur'[r] \notin handled[r]]_vars
  <2> SUFFICES ASSUME TypeOK, CmdAtHand, OnceInv, [Next]_vars, NEW r \in Runners,
                      pc[r] = "select", pc'[r] = "run", notifyCmd[r] = NoCmd
               PROVE  cur'[r] \notin handled[r]
    OBVIOUS
  <2>1. handled[r] \subseteq updated[r] \/ conn[r] # "ok"
    BY DEF OnceInv, CmdAtHand, AtHand, Looping
  <2>2. CASE ClaimNext(r)
    <3>1. PICK c \in Candidates(r) : Claim(r, c) /\ conn[r] = "ok"
      BY <2>2 DEF ClaimNext
    <3>2. Candidates(r) \subseteq Eligible(r)
      BY DEF Candidates, Oldest
    <3>3. c \notin updated[r]
      BY <3>1, <3>2 DEF Eligible
    <3>4. cur'[r] = c
      BY <3>1 DEF Claim, TypeOK
    <3>. QED
      BY <2>1, <3>1, <3>3, <3>4
  <2>3. CASE ClaimNotified(r)
    <3>1. PICK c \in Notified(r) : c = notifyCmd[r] /\ c \in Cmds
      BY <2>3 DEF ClaimNotified, Notified, TypeOK
    <3>. QED
      BY <3>1, ValuesAssumption DEF Payloads
  <2>. QED
    BY <2>2, <2>3, OnlySelectsClaim
<1>. QED
  BY <1>1, <1>2, <1>3, TypeStep, CmdAtHandStep, PTL DEF Spec, OncePerRound

-----------------------------------------------------------------------------
(* What a runner notices *)

In(c, s) == \E i \in 1..Len(s) : s[i] = c

\* Notifications are read from one end and written to the other.
LEMMA InConcat ==
    ASSUME NEW S, NEW s \in Seq(S), NEW t \in Seq(S), NEW c
    PROVE  In(c, s \o t) <=> In(c, s) \/ In(c, t)
<1>1. ASSUME In(c, s \o t) PROVE In(c, s) \/ In(c, t)
  <2>1. PICK i \in 1..Len(s \o t) : (s \o t)[i] = c
    BY <1>1 DEF In
  <2>2. CASE i <= Len(s)
    BY <2>1, <2>2 DEF In
  <2>3. CASE i > Len(s)
    BY <2>1, <2>3 DEF In
  <2>. QED
    BY <2>1, <2>2, <2>3
<1>2. ASSUME In(c, s) PROVE In(c, s \o t)
  BY <1>2 DEF In
<1>3. ASSUME In(c, t) PROVE In(c, s \o t)
  <2>1. PICK i \in 1..Len(t) : t[i] = c
    BY <1>3 DEF In
  <2>2. Len(s) + i \in 1..Len(s \o t) /\ (s \o t)[Len(s) + i] = c
    BY <2>1
  <2>. QED
    BY <2>2 DEF In
<1>. QED
  BY <1>1, <1>2, <1>3

(* Appending a payload adds that payload and no other. *)
LEMMA InAppend ==
    ASSUME NEW S, NEW s \in Seq(S), NEW p \in S, NEW c
    PROVE  In(c, Append(s, p)) <=> In(c, s) \/ c = p
<1>1. Append(s, p) \in Seq(S) /\ Len(Append(s, p)) = Len(s) + 1
      /\ \A i \in 1..Len(s) : Append(s, p)[i] = s[i]
      /\ Append(s, p)[Len(s) + 1] = p /\ Len(s) \in Nat
  OBVIOUS
<1>2. \A i \in 1..Len(s) + 1 : i \in 1..Len(s) \/ i = Len(s) + 1
  BY <1>1
<1>3. Len(s) + 1 \in 1..Len(s) + 1 /\ 1..Len(s) \subseteq 1..Len(s) + 1
  BY <1>1
<1>. QED
  BY <1>1, <1>2, <1>3 DEF In

(* A payload in a sequence is at its head or in its tail. *)
LEMMA InHeadTail ==
    ASSUME NEW S, NEW s \in Seq(S), s # <<>>, NEW c
    PROVE  In(c, s) <=> c = Head(s) \/ In(c, Tail(s))
<1>1. ASSUME In(c, s) PROVE c = Head(s) \/ In(c, Tail(s))
  <2>1. PICK i \in 1..Len(s) : s[i] = c
    BY <1>1 DEF In
  <2>2. CASE i = 1
    BY <2>1, <2>2
  <2>3. CASE i # 1
    <3>1. i - 1 \in 1..Len(Tail(s)) /\ Tail(s)[i - 1] = c
      BY <2>1, <2>3
    <3>. QED
      BY <3>1 DEF In
  <2>. QED
    BY <2>2, <2>3
<1>2. ASSUME In(c, Tail(s)) PROVE In(c, s)
  <2>1. PICK i \in 1..Len(Tail(s)) : Tail(s)[i] = c
    BY <1>2 DEF In
  <2>2. i + 1 \in 1..Len(s) /\ s[i + 1] = c
    BY <2>1
  <2>. QED
    BY <2>2 DEF In
<1>3. In(Head(s), s)
  <2>1. 1 \in 1..Len(s) /\ Head(s) = s[1]
    OBVIOUS
  <2>. QED
    BY <2>1 DEF In
<1>. QED
  BY <1>1, <1>2, <1>3

(* Nothing is in an empty sequence. *)
LEMMA InNothing == \A c : ~In(c, <<>>)
  BY DEF In

\* A pending notification has been read by libpq, or has yet to be.
LEMMA PendingIn ==
    ASSUME NEW r \in Runners, NEW c \in Cmds,
           libpq[r] \in Seq(Payloads), wire[r] \in Seq(Payloads)
    PROVE  c \in Pending(r) <=> In(c, libpq[r]) \/ In(c, wire[r])
<1>1. c \in Pending(r) <=> In(c, libpq[r] \o wire[r])
  BY DEF Pending, In
<1>. QED
  BY <1>1, InConcat

\* The oldest of some commands is one of them.
LEMMA OldestThere ==
    ASSUME SettingsAssumption, NEW S \in SUBSET Cmds, S # {}
    PROVE  Oldest(S) # {}
<1> DEFINE T == {QueuedSince[c] : c \in S}
<1>1. T \subseteq Nat /\ T # {}
  BY DEF SettingsAssumption
<1>2. PICK n \in T : \A m \in T : ~(<<m, n>> \in OpToRel(<, Nat))
  BY <1>1, NatLessThanWellFounded, WFMin
<1>3. \A m \in T : n <= m
  <2>1. ASSUME NEW m \in T PROVE n <= m
    <3>1. m \in Nat /\ n \in Nat
      BY <1>1
    <3>2. ~(m < n)
      BY <1>2, <3>1 DEF OpToRel
    <3>. QED
      BY <3>1, <3>2
  <2>. QED
    BY <2>1
<1>4. PICK c \in S : QueuedSince[c] = n
  BY <1>2
<1>5. c \in Oldest(S)
  BY <1>3, <1>4 DEF Oldest
<1>. QED
  BY <1>5

\* What r knows of c, or is about to know: that it has seen it, that it will be
\* notified of it, or that it now deals with its notification.
Knows(r, c) ==
    \/ c \in seen[r]
    \/ In(c, libpq[r]) \/ In(c, wire[r])
    \/ pc[r] = "select" /\ notifyCmd[r] = c

\* Whether r's session leaves out c until the next round, or is about to.
Leaves(r, c) ==
    \/ c \in updated[r]
    \/ cur[r] = c /\ (pc[r] \in {"run", "update", "remember"} \/ verdict[r] # "none")

\* A live session that looks for commands listens, and knows each command that it
\* leaves out; and every command, once a regular SELECT of it came back empty.
Woken(r) ==
    conn[r] = "ok" =>
      /\ pc[r] = "session" => updated[r] = {}
      /\ (HasChannel /\ pc[r] \in Looping) =>
           /\ r \in listeners
           /\ \A c \in queue : (Leaves(r, c) \/ ~due[r]) => Knows(r, c)

WokenInv == \A r \in Runners : Woken(r)

\* What a step of one runner leaves alone of another.
Untouched(q) ==
    /\ conn'[q] = conn[q] /\ pc'[q] = pc[q] /\ verdict'[q] = verdict[q]
    /\ updated'[q] = updated[q] /\ cur'[q] = cur[q] /\ seen'[q] = seen[q]
    /\ libpq'[q] = libpq[q] /\ wire'[q] = wire[q] /\ notifyCmd'[q] = notifyCmd[q]
    /\ due'[q] = due[q] /\ (q \in listeners => q \in listeners')

(* A step of one runner that keeps its own part keeps the others', whose state it leaves. *)
LEMMA WokenFrame ==
    ASSUME WokenInv, NEW r \in Runners, queue' \subseteq queue,
           \A q \in Runners \ {r} : Untouched(q), Woken(r)'
    PROVE  WokenInv'
<1> SUFFICES ASSUME NEW q \in Runners PROVE Woken(q)'
  BY DEF WokenInv
<1>1. CASE q = r
  BY <1>1
<1>2. CASE q # r
  BY <1>2 DEF WokenInv, Untouched, Woken, Knows, Leaves
<1>. QED
  BY <1>1, <1>2

\* A session that goes on looking forgets nothing.
LEMMA KeepsKnowing ==
    ASSUME NEW r \in Runners, Woken(r), conn[r] = "ok", pc[r] \in Looping, pc'[r] # "session",
           queue' \subseteq queue, r \in listeners => r \in listeners',
           \A c \in queue' :
             /\ Leaves(r, c)' => Leaves(r, c) \/ Knows(r, c)'
             /\ Knows(r, c) => Knows(r, c)'
             /\ ~due'[r] => ~due[r] \/ Knows(r, c)'
    PROVE  Woken(r)'
<1>1. HasChannel => r \in listeners /\ \A c \in queue : (Leaves(r, c) \/ ~due[r]) => Knows(r, c)
  BY DEF Woken
<1>2. ASSUME HasChannel, NEW c \in queue', Leaves(r, c)' \/ ~due'[r] PROVE Knows(r, c)'
  BY <1>1, <1>2
<1>. QED
  BY <1>1, <1>2 DEF Woken

\* One that does not look has nothing to know.
LEMMA NothingToKnow ==
    ASSUME NEW r \in Runners, conn'[r] # "ok" \/ pc'[r] \notin Looping \cup {"session"}
    PROVE  Woken(r)'
  BY DEF Woken

\* Every step keeps the runners aware, when no SELECT fails.
LEMMA WokenStep ==
    ASSUME "select" \notin Faults, TypeOK, CmdAtHand, WokenInv, [Next]_vars
    PROVE  WokenInv'
<1> USE ValuesAssumption, SettingsAssumption DEF TypeOK, CmdAtHand
<1>1. ASSUME NEW r \in Runners, Start(r) PROVE WokenInv'
  <2>1. queue' \subseteq queue /\ \A q \in Runners \ {r} : Untouched(q)
    BY <1>1 DEF Start, Untouched
  <2>2. Woken(r)'
    BY <1>1, NothingToKnow DEF Start, Looping
  <2>. QED
    BY <2>1, <2>2, WokenFrame
<1>2. ASSUME NEW r \in Runners, Connect(r) PROVE WokenInv'
  <2>1. queue' \subseteq queue /\ \A q \in Runners \ {r} : Untouched(q)
    BY <1>2 DEF Connect, Untouched
  <2>2. Woken(r)'
    BY <1>2 DEF Connect, Woken, Looping
  <2>. QED
    BY <2>1, <2>2, WokenFrame
<1>3. ASSUME NEW r \in Runners, GiveUpConnecting(r) PROVE WokenInv'
  <2>1. queue' \subseteq queue /\ \A q \in Runners \ {r} : Untouched(q)
    BY <1>3 DEF GiveUpConnecting, Untouched
  <2>2. Woken(r)'
    BY <1>3, NothingToKnow DEF GiveUpConnecting, Looping
  <2>. QED
    BY <2>1, <2>2, WokenFrame
<1>4. ASSUME NEW r \in Runners, SessionStart(r) PROVE WokenInv'
  <2>1. queue' \subseteq queue /\ \A q \in Runners \ {r} : Untouched(q)
    BY <1>4 DEF SessionStart, Listen, Untouched
  <2>2. Woken(r)'
    <3>1. /\ conn[r] = "ok" /\ pc[r] = "session" /\ pc'[r] = "select" /\ due'[r] = TRUE
          /\ UNCHANGED <<updated, verdict>>
          /\ HasChannel => r \in listeners'
      BY <1>4 DEF SessionStart, Listen
    <3>2. updated[r] = {} /\ verdict[r] = "none"
      BY <3>1 DEF WokenInv, Woken
    <3>3. \A c \in queue' : ~Leaves(r, c)'
      BY <3>1, <3>2 DEF Leaves
    <3>. QED
      BY <3>1, <3>3 DEF Woken
  <2>. QED
    BY <2>1, <2>2, WokenFrame
<1>5. ASSUME NEW r \in Runners, SessionStartFails(r) PROVE WokenInv'
  <2>1. queue' \subseteq queue /\ \A q \in Runners \ {r} : Untouched(q)
    BY <1>5 DEF SessionStartFails, LoseSession, Untouched
  <2>2. Woken(r)'
    BY <1>5, NothingToKnow DEF SessionStartFails, LoseSession, Looping
  <2>. QED
    BY <2>1, <2>2, WokenFrame
<1>6. ASSUME NEW r \in Runners, ClaimNext(r) PROVE WokenInv'
  <2>0. PICK c \in Candidates(r) :
          /\ Claim(r, c) /\ conn[r] = "ok" /\ notifyCmd[r] = NoCmd
          /\ seen' = [seen EXCEPT ![r] = @ \cup LockedByOthers \cup {c}]
    BY <1>6 DEF ClaimNext
  <2>1. queue' \subseteq queue /\ \A q \in Runners \ {r} : Untouched(q)
    BY <2>0 DEF Claim, Untouched
  <2>2. Woken(r)'
    <3>1. /\ conn[r] = "ok" /\ pc[r] \in Looping /\ pc'[r] # "session"
          /\ r \in listeners => r \in listeners'
      BY <2>0 DEF Claim, Looping
    <3>2. ASSUME NEW d \in queue'
          PROVE  /\ Leaves(r, d)' => Leaves(r, d) \/ Knows(r, d)'
                 /\ Knows(r, d) => Knows(r, d)'
                 /\ ~due'[r] => ~due[r] \/ Knows(r, d)'
      <4>1. d # NoCmd
        BY <2>1, ValuesAssumption DEF Payloads
      <4>. QED
        BY <2>0, <4>1 DEF Claim, Knows, Leaves
    <3>. QED
      BY <2>1, <3>1, <3>2, KeepsKnowing DEF WokenInv
  <2>. QED
    BY <2>1, <2>2, WokenFrame
<1>7. ASSUME NEW r \in Runners, ClaimNotified(r) PROVE WokenInv'
  <2>0. PICK c \in Notified(r) :
          /\ Claim(r, c) /\ conn[r] = "ok" /\ c = notifyCmd[r]
          /\ seen' = [seen EXCEPT ![r] = @ \cup {c}]
    BY <1>7 DEF ClaimNotified, Notified
  <2>1. queue' \subseteq queue /\ \A q \in Runners \ {r} : Untouched(q)
    BY <2>0 DEF Claim, Untouched
  <2>2. Woken(r)'
    <3>1. /\ conn[r] = "ok" /\ pc[r] \in Looping /\ pc'[r] # "session"
          /\ r \in listeners => r \in listeners'
      BY <2>0 DEF Claim, Looping
    <3>2. ASSUME NEW d \in queue'
          PROVE  /\ Leaves(r, d)' => Leaves(r, d) \/ Knows(r, d)'
                 /\ Knows(r, d) => Knows(r, d)'
                 /\ ~due'[r] => ~due[r] \/ Knows(r, d)'
      BY <2>0 DEF Claim, Knows, Leaves
    <3>. QED
      BY <2>1, <3>1, <3>2, KeepsKnowing DEF WokenInv
  <2>. QED
    BY <2>1, <2>2, WokenFrame
<1>8. ASSUME NEW r \in Runners, NotifiedGone(r) PROVE WokenInv'
  <2>1. queue' \subseteq queue /\ \A q \in Runners \ {r} : Untouched(q)
    BY <1>8 DEF NotifiedGone, Untouched
  <2>2. Woken(r)'
    <3>1. /\ conn[r] = "ok" /\ pc[r] \in Looping /\ pc'[r] # "session"
          /\ r \in listeners => r \in listeners'
      BY <1>8 DEF NotifiedGone, Looping
    <3>2. ASSUME NEW c \in queue'
          PROVE  /\ Leaves(r, c)' => Leaves(r, c) \/ Knows(r, c)'
                 /\ Knows(r, c) => Knows(r, c)'
                 /\ ~due'[r] => ~due[r] \/ Knows(r, c)'
      <4>1. pc'[r] = "commit" /\ UNCHANGED <<queue, cur, updated, verdict, due, libpq, wire>>
        BY <1>8 DEF NotifiedGone
      <4>2. seen[r] \subseteq seen'[r] /\ (notifyCmd[r] = c => c \in seen'[r])
        BY <1>8 DEF NotifiedGone, Notified, LockedByOthers
      <4>. QED
        BY <1>8, <4>1, <4>2 DEF NotifiedGone, Knows, Leaves
    <3>. QED
      BY <2>1, <3>1, <3>2, KeepsKnowing DEF WokenInv
  <2>. QED
    BY <2>1, <2>2, WokenFrame
<1>9. ASSUME NEW r \in Runners, RoundComplete(r) PROVE WokenInv'
  <2>1. queue' \subseteq queue /\ \A q \in Runners \ {r} : Untouched(q)
    BY <1>9 DEF RoundComplete, Untouched
  <2>2. Woken(r)'
    <3>1. /\ conn[r] = "ok" /\ pc[r] = "select" /\ pc'[r] = "empty" /\ notifyCmd[r] = NoCmd
          /\ UNCHANGED <<queue, cur, updated, verdict, libpq, wire, listeners, conn>>
          /\ seen'[r] = seen[r] \cup LockedByOthers
      BY <1>9 DEF RoundComplete
    <3>2. Eligible(r) = {}
      <4>1. Eligible(r) \in SUBSET Cmds
        BY DEF Eligible
      <4>. QED
        BY <1>9, <4>1, OldestThere DEF RoundComplete, Candidates
    <3>3. HasChannel => r \in listeners /\ \A c \in queue : Leaves(r, c) => Knows(r, c)
      BY <3>1 DEF WokenInv, Woken, Looping
    <3>4. ASSUME HasChannel, NEW c \in queue PROVE Knows(r, c)'
      <4>1. c # NoCmd
        BY ValuesAssumption DEF Payloads
      <4>2. CASE lock[c] # Free
        BY <3>1, <4>2 DEF LockedByOthers, Knows
      <4>3. CASE c \in updated[r]
        <5>1. Knows(r, c)
          BY <3>3, <3>4, <4>3 DEF Leaves
        <5>. QED
          BY <3>1, <4>1, <5>1 DEF Knows
      <4>. QED
        BY <3>2, <4>2, <4>3 DEF Eligible
    <3>. QED
      BY <3>1, <3>3, <3>4 DEF Woken
  <2>. QED
    BY <2>1, <2>2, WokenFrame
<1>10. ASSUME NEW r \in Runners, EnterRound(r) PROVE WokenInv'
  <2>1. queue' \subseteq queue /\ \A q \in Runners \ {r} : Untouched(q)
    BY <1>10 DEF EnterRound, LoseSession, TruncateUpdated, Untouched
  <2>2. Woken(r)'
    <3>1. CASE RoundToEnter(r) <= IntMax
      <4>1. /\ conn[r] = "ok" /\ pc[r] = "empty" /\ pc'[r] = "commit" /\ updated'[r] = {}
            /\ UNCHANGED <<listeners, queue, verdict, due, seen, libpq, wire>>
        BY <1>10, <3>1 DEF EnterRound, TruncateUpdated
      <4>2. \A c \in queue : ~Leaves(r, c)' /\ (Knows(r, c) => Knows(r, c)')
        BY <4>1 DEF Leaves, Knows
      <4>. QED
        BY <2>1, <4>1, <4>2, KeepsKnowing DEF WokenInv, Looping
    <3>2. CASE ~(RoundToEnter(r) <= IntMax)
      BY <1>10, <3>2, NothingToKnow DEF EnterRound, LoseSession, Looping
    <3>. QED
      BY <3>1, <3>2
  <2>. QED
    BY <2>1, <2>2, WokenFrame
<1>11. ASSUME NEW r \in Runners, EnterRoundFails(r) PROVE WokenInv'
  <2>1. queue' \subseteq queue /\ \A q \in Runners \ {r} : Untouched(q)
    BY <1>11 DEF EnterRoundFails, LoseSession, Untouched
  <2>2. Woken(r)'
    BY <1>11, NothingToKnow DEF EnterRoundFails, LoseSession, Looping
  <2>. QED
    BY <2>1, <2>2, WokenFrame
<1>12. ASSUME NEW r \in Runners, RunCmd(r) PROVE WokenInv'
  <2>1. queue' \subseteq queue /\ \A q \in Runners \ {r} : Untouched(q)
    BY <1>12 DEF RunCmd, Untouched
  <2>2. Woken(r)'
    <3>1. /\ pc[r] = "run" /\ pc'[r] = "update"
          /\ UNCHANGED <<conn, listeners, queue, updated, cur, verdict, due, seen, libpq, wire>>
      BY <1>12 DEF RunCmd
    <3>2. \A c \in queue : (Leaves(r, c)' => Leaves(r, c)) /\ (Knows(r, c) => Knows(r, c)')
      BY <3>1 DEF Leaves, Knows
    <3>3. CASE conn[r] = "ok"
      BY <2>1, <3>1, <3>2, <3>3, KeepsKnowing DEF WokenInv, Looping
    <3>4. CASE conn[r] # "ok"
      BY <3>1, <3>4, NothingToKnow
    <3>. QED
      BY <3>3, <3>4
  <2>. QED
    BY <2>1, <2>2, WokenFrame
<1>13. ASSUME NEW r \in Runners, UpdateCmd(r) PROVE WokenInv'
  <2>1. queue' \subseteq queue /\ \A q \in Runners \ {r} : Untouched(q)
    BY <1>13 DEF UpdateCmd, EffectKinds, Untouched
  <2>2. Woken(r)'
    <3>1. /\ conn[r] = "ok" /\ pc[r] \in Looping /\ pc'[r] # "session"
          /\ r \in listeners => r \in listeners'
      BY <1>13 DEF UpdateCmd, EffectKinds, Looping
    <3>2. ASSUME NEW c \in queue'
          PROVE  /\ Leaves(r, c)' => Leaves(r, c) \/ Knows(r, c)'
                 /\ Knows(r, c) => Knows(r, c)'
                 /\ ~due'[r] => ~due[r] \/ Knows(r, c)'
      BY <1>13 DEF UpdateCmd, EffectKinds, Knows, Leaves
    <3>. QED
      BY <2>1, <3>1, <3>2, KeepsKnowing DEF WokenInv
  <2>. QED
    BY <2>1, <2>2, WokenFrame
<1>14. ASSUME NEW r \in Runners, UpdateFails(r) PROVE WokenInv'
  <2>1. queue' \subseteq queue /\ \A q \in Runners \ {r} : Untouched(q)
    BY <1>14 DEF UpdateFails, Untouched
  <2>2. Woken(r)'
    <3>1. /\ conn[r] = "ok" /\ pc[r] \in Looping /\ pc'[r] # "session"
          /\ r \in listeners => r \in listeners'
      BY <1>14 DEF UpdateFails, Looping
    <3>2. ASSUME NEW c \in queue'
          PROVE  /\ Leaves(r, c)' => Leaves(r, c) \/ Knows(r, c)'
                 /\ Knows(r, c) => Knows(r, c)'
                 /\ ~due'[r] => ~due[r] \/ Knows(r, c)'
      BY <1>14 DEF UpdateFails, Knows, Leaves
    <3>. QED
      BY <2>1, <3>1, <3>2, KeepsKnowing DEF WokenInv
  <2>. QED
    BY <2>1, <2>2, WokenFrame
<1>15. ASSUME NEW r \in Runners, RememberFailed(r) PROVE WokenInv'
  <2>1. queue' \subseteq queue /\ \A q \in Runners \ {r} : Untouched(q)
    BY <1>15 DEF RememberFailed, Remember, Untouched
  <2>2. Woken(r)'
    <3>1. /\ conn[r] = "ok" /\ pc[r] \in Looping /\ pc'[r] # "session"
          /\ r \in listeners => r \in listeners'
      BY <1>15 DEF RememberFailed, Remember, Looping
    <3>2. ASSUME NEW c \in queue'
          PROVE  /\ Leaves(r, c)' => Leaves(r, c) \/ Knows(r, c)'
                 /\ Knows(r, c) => Knows(r, c)'
                 /\ ~due'[r] => ~due[r] \/ Knows(r, c)'
      BY <1>15 DEF RememberFailed, Remember, Knows, Leaves
    <3>. QED
      BY <2>1, <3>1, <3>2, KeepsKnowing DEF WokenInv
  <2>. QED
    BY <2>1, <2>2, WokenFrame
<1>16. ASSUME NEW r \in Runners, Commit(r) PROVE WokenInv'
  <2>1. queue' \subseteq queue /\ \A q \in Runners \ {r} : Untouched(q)
    BY <1>16 DEF Commit, Settle, Untouched
  <2>2. Woken(r)'
    <3>1. /\ conn[r] = "ok" /\ pc[r] \in Looping /\ pc'[r] # "session"
          /\ r \in listeners => r \in listeners'
      BY <1>16 DEF Commit, Settle, Looping
    <3>2. ASSUME NEW c \in queue'
          PROVE  /\ Leaves(r, c)' => Leaves(r, c) \/ Knows(r, c)'
                 /\ Knows(r, c) => Knows(r, c)'
                 /\ ~due'[r] => ~due[r] \/ Knows(r, c)'
      BY <1>16 DEF Commit, Settle, Knows, Leaves
    <3>. QED
      BY <2>1, <3>1, <3>2, KeepsKnowing DEF WokenInv
  <2>. QED
    BY <2>1, <2>2, WokenFrame
<1>17. ASSUME NEW r \in Runners, BackToConnect(r) PROVE WokenInv'
  <2>1. queue' \subseteq queue /\ \A q \in Runners \ {r} : Untouched(q)
    BY <1>17 DEF BackToConnect, Untouched
  <2>2. Woken(r)'
    BY <1>17, NothingToKnow DEF BackToConnect, Looping
  <2>. QED
    BY <2>1, <2>2, WokenFrame
<1>18. ASSUME NEW r \in Runners, TakeNotification(r) PROVE WokenInv'
  <2>1. queue' \subseteq queue /\ \A q \in Runners \ {r} : Untouched(q)
    BY <1>18 DEF TakeNotification, HandleNotification, Untouched
  <2>2. Woken(r)'
    <3>1. /\ pc[r] = "poll" /\ libpq[r] # <<>> /\ libpq[r] \in Seq(Payloads)
          /\ libpq'[r] = Tail(libpq[r])
          /\ UNCHANGED <<conn, listeners, queue, updated, cur, verdict, due, seen, wire>>
      BY <1>18 DEF TakeNotification, HandleNotification
    <3>2. \/ Head(libpq[r]) \in Cmds /\ pc'[r] = "select" /\ notifyCmd'[r] = Head(libpq[r])
          \/ Head(libpq[r]) \notin Cmds /\ pc'[r] = "poll"
      BY <1>18 DEF TakeNotification, HandleNotification
    <3>3. ASSUME NEW c \in queue
          PROVE  (Leaves(r, c)' => Leaves(r, c)) /\ (Knows(r, c) => Knows(r, c)')
      <4>1. In(c, libpq[r]) => c = Head(libpq[r]) \/ In(c, libpq'[r])
        BY <3>1, InHeadTail
      <4>. QED
        BY <3>1, <3>2, <4>1 DEF Leaves, Knows
    <3>4. CASE conn[r] = "ok"
      BY <2>1, <3>1, <3>2, <3>3, <3>4, KeepsKnowing DEF WokenInv, Looping
    <3>5. CASE conn[r] # "ok"
      BY <3>1, <3>5, NothingToKnow
    <3>. QED
      BY <3>4, <3>5
  <2>. QED
    BY <2>1, <2>2, WokenFrame
<1>19. ASSUME NEW r \in Runners, PollTimeout(r) PROVE WokenInv'
  <2>1. queue' \subseteq queue /\ \A q \in Runners \ {r} : Untouched(q)
    BY <1>19 DEF PollTimeout, Reselect, Untouched
  <2>2. Woken(r)'
    <3>1. /\ pc[r] = "poll" /\ pc'[r] = "select"
          /\ UNCHANGED <<conn, listeners, queue, updated, cur, verdict, due, seen, libpq, wire>>
      BY <1>19 DEF PollTimeout, Reselect
    <3>2. \A c \in queue : (Leaves(r, c)' => Leaves(r, c)) /\ (Knows(r, c) => Knows(r, c)')
      BY <3>1 DEF Leaves, Knows
    <3>3. CASE conn[r] = "ok"
      BY <2>1, <3>1, <3>2, <3>3, KeepsKnowing DEF WokenInv, Looping
    <3>4. CASE conn[r] # "ok"
      BY <3>1, <3>4, NothingToKnow
    <3>. QED
      BY <3>3, <3>4
  <2>. QED
    BY <2>1, <2>2, WokenFrame
<1>20. ASSUME NEW r \in Runners, ConsumeInput(r) PROVE WokenInv'
  <2>1. queue' \subseteq queue /\ \A q \in Runners \ {r} : Untouched(q)
    BY <1>20 DEF ConsumeInput, Untouched
  <2>2. Woken(r)'
    <3>1. /\ conn[r] = "ok" /\ pc[r] \in Looping /\ pc'[r] # "session"
          /\ r \in listeners => r \in listeners'
      BY <1>20 DEF ConsumeInput, Looping
    <3>2. ASSUME NEW c \in queue'
          PROVE  /\ Leaves(r, c)' => Leaves(r, c) \/ Knows(r, c)'
                 /\ Knows(r, c) => Knows(r, c)'
                 /\ ~due'[r] => ~due[r] \/ Knows(r, c)'
      <4>1. libpq[r] = <<>> /\ libpq'[r] = wire[r]
        BY <1>20 DEF ConsumeInput
      <4>. QED
        BY <1>20, <4>1, InNothing DEF ConsumeInput, Knows, Leaves
    <3>. QED
      BY <2>1, <3>1, <3>2, KeepsKnowing DEF WokenInv
  <2>. QED
    BY <2>1, <2>2, WokenFrame
<1>21. ASSUME NEW r \in Runners, DrainKillPipe(r) PROVE WokenInv'
  <2>1. queue' \subseteq queue /\ \A q \in Runners \ {r} : Untouched(q)
    BY <1>21 DEF DrainKillPipe, LoseSession, Untouched
  <2>2. Woken(r)'
    BY <1>21, NothingToKnow DEF DrainKillPipe, LoseSession, Looping
  <2>. QED
    BY <2>1, <2>2, WokenFrame
<1>22. ASSUME NEW r \in Runners, SelectFails(r) PROVE WokenInv'
  BY <1>22 DEF SelectFails
<1>23. ASSUME NEW r \in Runners, CommitFails(r) PROVE WokenInv'
  <2>1. queue' \subseteq queue /\ \A q \in Runners \ {r} : Untouched(q)
    BY <1>23 DEF CommitFails, Untouched
  <2>2. Woken(r)'
    <3>1. /\ conn[r] = "ok" /\ pc[r] \in Looping /\ pc'[r] # "session"
          /\ r \in listeners => r \in listeners'
      BY <1>23 DEF CommitFails, Looping
    <3>2. ASSUME NEW c \in queue'
          PROVE  /\ Leaves(r, c)' => Leaves(r, c) \/ Knows(r, c)'
                 /\ Knows(r, c) => Knows(r, c)'
                 /\ ~due'[r] => ~due[r] \/ Knows(r, c)'
      BY <1>23 DEF CommitFails, Knows, Leaves
    <3>. QED
      BY <2>1, <3>1, <3>2, KeepsKnowing DEF WokenInv
  <2>. QED
    BY <2>1, <2>2, WokenFrame
<1>24. ASSUME NEW r \in Runners, CommitUnacknowledged(r) PROVE WokenInv'
  <2>1. queue' \subseteq queue /\ \A q \in Runners \ {r} : Untouched(q)
    BY <1>24 DEF CommitUnacknowledged, Settle, Untouched
  <2>2. Woken(r)'
    BY <1>24, NothingToKnow DEF CommitUnacknowledged, Settle, Looping
  <2>. QED
    BY <2>1, <2>2, WokenFrame
<1>25. ASSUME NEW r \in Runners, ConnLoss(r) PROVE WokenInv'
  <2>1. queue' \subseteq queue /\ \A q \in Runners \ {r} : Untouched(q)
    BY <1>25 DEF ConnLoss, LoseSession, Untouched
  <2>2. Woken(r)'
    BY <1>25, NothingToKnow DEF ConnLoss, LoseSession, Looping
  <2>. QED
    BY <2>1, <2>2, WokenFrame
<1>26. ASSUME NEW r \in Runners, Crash(r) PROVE WokenInv'
  <2>1. queue' \subseteq queue /\ \A q \in Runners \ {r} : Untouched(q)
    BY <1>26 DEF Crash, LoseSession, Untouched
  <2>2. Woken(r)'
    BY <1>26, NothingToKnow DEF Crash, LoseSession, Looping
  <2>. QED
    BY <2>1, <2>2, WokenFrame
<1>27. ASSUME NEW r \in Runners, InputArrives(r) PROVE WokenInv'
  <2>1. queue' \subseteq queue /\ \A q \in Runners \ {r} : Untouched(q)
    BY <1>27 DEF InputArrives, Untouched
  <2>2. Woken(r)'
    <3>1. /\ conn[r] = "ok" /\ pc[r] \in Looping /\ pc'[r] # "session"
          /\ r \in listeners => r \in listeners'
      BY <1>27 DEF InputArrives, Looping
    <3>2. ASSUME NEW c \in queue'
          PROVE  /\ Leaves(r, c)' => Leaves(r, c) \/ Knows(r, c)'
                 /\ Knows(r, c) => Knows(r, c)'
                 /\ ~due'[r] => ~due[r] \/ Knows(r, c)'
      <4>1. /\ wire[r] # <<>> /\ wire[r] \in Seq(Payloads) /\ libpq[r] \in Seq(Payloads)
            /\ libpq'[r] = Append(libpq[r], Head(wire[r])) /\ wire'[r] = Tail(wire[r])
        BY <1>27 DEF InputArrives
      <4>2. In(c, libpq[r]) \/ In(c, wire[r]) => In(c, libpq'[r]) \/ In(c, wire'[r])
        <5>1. Head(wire[r]) \in Payloads
          BY <4>1
        <5>2. In(c, wire[r]) <=> c = Head(wire[r]) \/ In(c, wire'[r])
          BY <4>1, InHeadTail
        <5>3. In(c, libpq'[r]) <=> In(c, libpq[r]) \/ c = Head(wire[r])
          BY <4>1, <5>1, InAppend
        <5>. QED
          BY <5>2, <5>3
      <4>. QED
        BY <1>27, <4>2 DEF InputArrives, Knows, Leaves
    <3>. QED
      BY <2>1, <3>1, <3>2, KeepsKnowing DEF WokenInv
  <2>. QED
    BY <2>1, <2>2, WokenFrame
<1>28. ASSUME NEW r \in Runners, Tick(r) PROVE WokenInv'
  <2>1. queue' \subseteq queue /\ \A q \in Runners \ {r} : Untouched(q)
    BY <1>28 DEF Tick, Untouched
  <2>2. Woken(r)'
    BY <1>28 DEF Tick, WokenInv, Woken, Knows, Leaves
  <2>. QED
    BY <2>1, <2>2, WokenFrame
<1>29. ASSUME NEW r \in Runners, Kill(r) PROVE WokenInv'
  <2>1. queue' \subseteq queue /\ \A q \in Runners \ {r} : Untouched(q)
    BY <1>29 DEF Kill, Untouched
  <2>2. Woken(r)'
    BY <1>29 DEF Kill, WokenInv, Woken, Knows, Leaves
  <2>. QED
    BY <2>1, <2>2, WokenFrame
<1>30. ASSUME NEW r \in Runners, Signal(r) PROVE WokenInv'
  <2>1. queue' \subseteq queue /\ \A q \in Runners \ {r} : Untouched(q)
    BY <1>30 DEF Signal, Untouched
  <2>2. Woken(r)'
    BY <1>30 DEF Signal, WokenInv, Woken, Knows, Leaves
  <2>. QED
    BY <2>1, <2>2, WokenFrame
<1>31. ASSUME NEW r \in Runners, Restart(r) PROVE WokenInv'
  <2>1. queue' \subseteq queue /\ \A q \in Runners \ {r} : Untouched(q)
    BY <1>31 DEF Restart, Untouched
  <2>2. Woken(r)'
    BY <1>31, NothingToKnow DEF Restart, Looping
  <2>. QED
    BY <2>1, <2>2, WokenFrame
<1>32. ASSUME NEW c \in Cmds, Enqueue(c) PROVE WokenInv'
  <2>1. /\ UNCHANGED <<conn, listeners, updated, verdict, cur, pc, libpq, notifyCmd, due>>
        /\ c \notin queue /\ queue' = queue \cup {c}
        /\ \A r \in Runners : seen'[r] = seen[r] \ {c}
    BY <1>32 DEF Enqueue
  <2>2. ASSUME NEW r \in Runners PROVE Woken(r)'
    <3>1. wire'[r] = IF r \in listeners THEN Append(wire[r], c) ELSE wire[r]
      BY <1>32 DEF Enqueue
    <3>2. \A d : In(d, Append(wire[r], c)) <=> In(d, wire[r]) \/ d = c
      <4>1. wire[r] \in Seq(Payloads) /\ c \in Payloads
        BY DEF Payloads
      <4>. QED
        BY <4>1, InAppend
    <3>3. /\ \A d : In(d, wire[r]) => In(d, wire'[r])
          /\ r \in listeners => In(c, wire'[r])
      BY <3>1, <3>2
    <3>4. \A d \in queue : (Leaves(r, d)' => Leaves(r, d)) /\ (Knows(r, d) => Knows(r, d)')
      BY <2>1, <3>3 DEF Leaves, Knows
    <3>5. r \in listeners => Knows(r, c)'
      BY <3>3 DEF Knows
    <3>6. Woken(r)
      BY DEF WokenInv
    <3>. QED
      BY <2>1, <3>4, <3>5, <3>6 DEF Woken
  <2>. QED
    BY <2>2 DEF WokenInv
<1>33. ASSUME NEW c \in Cmds, Withdraw(c) PROVE WokenInv'
  <2>1. /\ UNCHANGED <<conn, listeners, updated, verdict, cur, pc, libpq, wire, notifyCmd, due, seen>>
        /\ queue' \subseteq queue
    BY <1>33 DEF Withdraw, sessionVars, threadVars
  <2>. QED
    BY <2>1 DEF WokenInv, Woken, Knows, Leaves
<1>34. ASSUME NEW c \in Cmds, ReapOrphan(c) PROVE WokenInv'
  <2>1. /\ UNCHANGED <<conn, listeners, updated, verdict, cur, pc, libpq, wire, notifyCmd, due, seen>>
        /\ queue' \subseteq queue
    BY <1>34 DEF ReapOrphan, sessionVars, threadVars
  <2>. QED
    BY <2>1 DEF WokenInv, Woken, Knows, Leaves
<1>35. ASSUME NEW p \in {Other, Malformed}, Stray(p) PROVE WokenInv'
  <2>1. UNCHANGED <<conn, listeners, updated, verdict, cur, pc, libpq, notifyCmd, due, seen, queue>>
    BY <1>35 DEF Stray
  <2>2. ASSUME NEW r \in Runners PROVE Woken(r)'
    <3>1. wire'[r] = IF r \in listeners THEN Append(wire[r], p) ELSE wire[r]
      BY <1>35 DEF Stray
    <3>2. \A d : In(d, wire[r]) => In(d, wire'[r])
      <4>1. wire[r] \in Seq(Payloads) /\ p \in Payloads
        BY DEF Payloads
      <4>2. \A d : In(d, Append(wire[r], p)) <=> In(d, wire[r]) \/ d = p
        BY <4>1, InAppend
      <4>. QED
        BY <3>1, <4>2
    <3>3. \A d \in queue : (Leaves(r, d)' => Leaves(r, d)) /\ (Knows(r, d) => Knows(r, d)')
      BY <2>1, <3>2 DEF Leaves, Knows
    <3>4. Woken(r)
      BY DEF WokenInv
    <3>. QED
      BY <2>1, <3>3, <3>4 DEF Woken
  <2>. QED
    BY <2>2 DEF WokenInv
<1>36. CASE UNCHANGED vars
  <2>1. /\ UNCHANGED <<conn, listeners, updated, verdict, cur, pc, libpq, wire, notifyCmd, due, seen>>
        /\ queue' \subseteq queue
    BY <1>36 DEF vars
  <2>. QED
    BY <2>1 DEF WokenInv, Woken, Knows, Leaves
<1>37. ASSUME NEW r \in Runners, Step(r) PROVE WokenInv'
  BY <1>37, <1>1, <1>2, <1>3, <1>4, <1>5, <1>6, <1>7, <1>8, <1>9,
     <1>10, <1>11, <1>12, <1>13, <1>14, <1>15, <1>16, <1>17,
     <1>18, <1>19, <1>20, <1>21 DEF Step, Select, Poll
<1>38. ASSUME NEW r \in Runners, Failure(r) PROVE WokenInv'
  BY <1>38, <1>22, <1>23, <1>24, <1>25, <1>26 DEF Failure
<1>39. CASE Client
  BY <1>39, <1>32, <1>33, <1>34, <1>35 DEF Client
<1>. QED
  BY <1>27, <1>28, <1>29, <1>30, <1>31, <1>36, <1>37, <1>38, <1>39 DEF Next

\* A runner never waits out its reselect interval on a command that it has neither
\* run nor passed over for another transaction's lock, unless the notification of
\* that command is still to wake it, whatever happens to commands, connections,
\* sessions and daemons.  A SELECT that fails on a live connection is left out: the
\* notification that led to it is lost, and its command waits for the next round.
THEOREM RunnersAreWoken ==
    ASSUME "select" \notin Faults
    PROVE  Spec => []WokenForNew
<1>1. Init => TypeOK /\ CmdAtHand /\ WokenInv
  BY ValuesAssumption, SettingsAssumption, BoundsAssumption
  DEF Init, TypeOK, Pcs, Payloads, CmdAtHand, WokenInv, Woken
<1>2. TypeOK /\ CmdAtHand /\ WokenInv /\ [Next]_vars => WokenInv'
  BY WokenStep
<1>3. TypeOK /\ WokenInv => WokenForNew
  <2> SUFFICES ASSUME TypeOK, WokenInv, NEW r \in Runners, HasChannel,
                      pc[r] = "poll", conn[r] = "ok", ~due[r], NEW c \in queue
               PROVE  c \in seen[r] \cup Pending(r)
    BY DEF WokenForNew
  <2>1. Knows(r, c)
    BY DEF WokenInv, Woken, Looping
  <2>2. c \in Cmds /\ libpq[r] \in Seq(Payloads) /\ wire[r] \in Seq(Payloads)
    BY DEF TypeOK
  <2>. QED
    BY <2>1, <2>2, PendingIn DEF Knows
<1>. QED
  BY <1>1, <1>2, <1>3, TypeStep, CmdAtHandStep, PTL DEF Spec
=============================================================================
