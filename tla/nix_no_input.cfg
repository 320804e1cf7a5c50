SPECIFICATION FairSpec
CONSTANTS
    Workloads <- MCNoInput
    PipeCap = 2
    MaxOut = 0
    Grace = 1
    Heirs = FALSE
    SigpipeIgnored = {TRUE}
    Faults = {}
PROPERTIES InputEnds
CHECK_DEADLOCK FALSE
