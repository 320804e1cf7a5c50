SPECIFICATION Spec
CONSTANTS
    Workloads <- MCUnread
    PipeCap = 2
    MaxOut = 0
    Grace = 1
    Heirs = FALSE
    SigpipeIgnored = {TRUE}
    Faults = {}
INVARIANTS ExitOrSignal
CHECK_DEADLOCK FALSE
