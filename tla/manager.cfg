SPECIFICATION FairSpec
CONSTANTS
    q1 = q1  q2 = q2
    Queues <- MCTwoQueues
    Faults = {"select", "listen", "conn", "thread"}
    MaxFaults = 1
    MaxChanges = 2
INVARIANTS TypeOK UpToDate
PROPERTIES   JoinEnds
CHECK_DEADLOCK FALSE
