------------------------ MODULE RunnerManagerProofs ------------------------
(***************************************************************************)
(* Theorems of RunnerManager, for any number of queues, changes and faults *)
(***************************************************************************)
EXTENDS RunnerManagerProperties, TLAPS

\* Between two steps that read the list, the manager is behind the table only
\* by changes that a notification is pending for, or that went unnoticed before
\* the LISTEN.
UpToDateInv ==
    /\ pc \in {"poll", "refresh"} /\ conn = "ok" => listening
    /\ listening => pc \notin {"connect", "init", "listen"} /\ conn = "ok"
    /\ conn = "ok" /\ pc \in {"listen", "poll"} /\ notes = 0
       => \A q \in Queues \ missed : q \in old <=> q \in enabled
    /\ pc \in {"connect", "init"} => old = {}
    /\ notes <= changes

USE DEF serverVars, signalVars, threadVars, boundVars, Goto, StatementFails

(* Every step keeps the types and the manager's list up to date. *)
LEMMA ManagerStep == TypeOK /\ UpToDateInv /\ [Next]_vars => TypeOK' /\ UpToDateInv'
<1> SUFFICES ASSUME TypeOK, UpToDateInv, [Next]_vars PROVE TypeOK' /\ UpToDateInv'
  OBVIOUS
<1> USE ManagerAssumption DEF TypeOK, UpToDateInv
<1>1. CASE Connect
  BY <1>1 DEF Connect
<1>2. CASE ConnectGivesUp
  BY <1>2 DEF ConnectGivesUp
<1>3. CASE FirstRefresh
  BY <1>3 DEF FirstRefresh, Apply, KillRunners
<1>4. CASE FirstRefreshFails
  BY <1>4 DEF FirstRefreshFails
<1>5. CASE Listen
  BY <1>5 DEF Listen
<1>6. CASE ListenFails
  BY <1>6 DEF ListenFails
<1>7. CASE TakeNote
  BY <1>7 DEF TakeNote
<1>8. CASE Refresh
  BY <1>8 DEF Refresh, Apply, KillRunners
<1>9. CASE RefreshInterrupted
  BY <1>9 DEF RefreshInterrupted, Apply, KillRunners
<1>10. CASE ReadPipe
  BY <1>10 DEF ReadPipe
<1>11. CASE StopAllRunners
  BY <1>11 DEF StopAllRunners, KillRunners
<1>12. CASE JoinAllThreads
  BY <1>12 DEF JoinAllThreads
<1>13. CASE ReceiveSignal
  BY <1>13 DEF ReceiveSignal
<1>14. CASE ConnLoss
  <2>1. conn' = "bad" /\ listening' = FALSE /\ notes' = 0 /\ faults' \in 0..MaxFaults
    BY <1>14 DEF ConnLoss
  <2>2. UNCHANGED <<enabled, signalVars, pc, old, threadVars, changes, missed>>
    BY <1>14 DEF ConnLoss
  <2>3. TypeOK'
    <3>1. notes' \in 0..MaxChanges
      BY <2>1
    <3>2. conn' \in {"none", "ok", "bad"} /\ listening' \in BOOLEAN
      BY <2>1
    <3>. QED
      BY <2>1, <2>2, <3>1, <3>2
  <2>4. UpToDateInv'
    BY <2>1, <2>2
  <2>. QED
    BY <2>3, <2>4
<1>15. ASSUME NEW q \in Queues, ThreadRuns(q) PROVE TypeOK' /\ UpToDateInv'
  BY <1>15 DEF ThreadRuns
<1>16. ASSUME NEW q \in Queues, ThreadStops(q) PROVE TypeOK' /\ UpToDateInv'
  BY <1>16 DEF ThreadStops
<1>17. ASSUME NEW q \in Queues, ThreadFails(q) PROVE TypeOK' /\ UpToDateInv'
  BY <1>17 DEF ThreadFails
<1>18. ASSUME NEW q \in Queues, Enable(q) PROVE TypeOK' /\ UpToDateInv'
  BY <1>18 DEF Enable, Change
<1>19. ASSUME NEW q \in Queues, Disable(q) PROVE TypeOK' /\ UpToDateInv'
  BY <1>19 DEF Disable, Change
<1>20. ASSUME NEW q \in Queues, Alter(q) PROVE TypeOK' /\ UpToDateInv'
  BY <1>20 DEF Alter, Change
<1>21. CASE UNCHANGED vars
  BY <1>21 DEF vars
<1>. QED
  BY <1>1, <1>2, <1>3, <1>4, <1>5, <1>6, <1>7, <1>8, <1>9, <1>10, <1>11, <1>12, <1>13,
     <1>14, <1>15, <1>16, <1>17, <1>18, <1>19, <1>20, <1>21 DEF Next, Manager, Thread

(* The types, and an up-to-date list, at the start. *)
LEMMA ManagerInit == Init => TypeOK /\ UpToDateInv
<1> SUFFICES ASSUME Init PROVE TypeOK /\ UpToDateInv
  OBVIOUS
<1>1. thread \in [Queues -> {"none", "starting", "running", "ended"}]
  BY DEF Init
<1>2. stopReq \in [Queues -> BOOLEAN]
  BY DEF Init
<1>3. enabled \subseteq Queues /\ listening \in BOOLEAN /\ signalled \in BOOLEAN /\ pipe \in BOOLEAN
  BY DEF Init
<1>4. UpToDateInv
  BY DEF Init, UpToDateInv
<1>. QED
  BY <1>1, <1>2, <1>3, <1>4, ManagerAssumption DEF Init, TypeOK

\* The main thread and the threads of the runners stay within the states that
\* their code knows, and no more notifications wait than there were changes.
THEOREM ManagerTypeCorrect == Spec => []TypeOK
  BY ManagerInit, ManagerStep, PTL DEF Spec

\* The manager acts on every change that follows its LISTEN before it goes idle,
\* for any number of queues and changes, whatever faults and signals come.
THEOREM ManagerUpToDate == Spec => []UpToDate
<1>1. UpToDateInv => UpToDate
  BY DEF UpToDateInv, UpToDate, Idle
<1>. QED
  BY <1>1, ManagerInit, ManagerStep, PTL DEF Spec
=============================================================================
