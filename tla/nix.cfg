SPECIFICATION FairSpec
CONSTANTS
    Workloads <- MCCommands
    PipeCap = 2
    MaxOut = 2
    Grace = 1
    Heirs = TRUE
    SigpipeIgnored = {TRUE, FALSE}
    Faults = {"fork", "setpgid", "poll", "read", "waitpid"}
INVARIANTS TypeOK OutputComplete ResultTrue ResultGiven
PROPERTIES RunEnds InputEnds
CHECK_DEADLOCK FALSE
