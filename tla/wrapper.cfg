SPECIFICATION FairSpec
CONSTANTS
    Threads = {"main", "runner"}
    GraceLines = 1
    MaxLines = 2
    MaxSignals = 1
    Faults = {"fork", "exec", "crash"}
INVARIANTS TypeOK PsqlCodeTrue LogComplete NoDaemonLeft GivenUpForAReason NoLostWakeup NothingLost
PROPERTIES WrapperEnds
CHECK_DEADLOCK FALSE
