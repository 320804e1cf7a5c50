SPECIFICATION Spec
CONSTANTS
    q1 = q1  q2 = q2
    Queues <- MCOneQueue
    Faults = {}
    MaxFaults = 0
    MaxChanges = 3
INVARIANTS KnownQueueServed
CHECK_DEADLOCK FALSE
