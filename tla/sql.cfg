SPECIFICATION FairSpec
CONSTANTS
    Cmds = {1, 2}
    Daemons = {d}
    Callers = {p}
    Free = Free
    Texts = {"rows", "norows", "error", "deferred", "notice", "commit"}
    Triggers = {"delete", "keep", "raise"}
    Faults = {"conn", "crash", "cancel"}
    MaxFaults = 1
    MaxRuns = 3
    Calls <- MCCalls
INVARIANTS CallTypeOK  EffectOnce ClaimHeld ErrorIsOwn
PROPERTIES Settled 
CHECK_DEADLOCK FALSE
