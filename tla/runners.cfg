SPECIFICATION Spec
CONSTANTS
    c1 = c1  c2 = c2  r1 = r1  r2 = r2
    Free = Free  Orphan = Orphan  NoCmd = NoCmd  Other = Other  Malformed = Malformed
    Cmds <- MCOneCmd
    Runners <- MCTwoRunners
    QueuedSince <- MCQueuedSince
    Effects = {"delete", "keep", "ignore", "raise"}
    HasChannel = TRUE
    EveryNth = 0
    BigintMax = 2
    IntMax = 0
    Faults = {"conn", "session", "select", "round", "commit", "crash"}
    MaxFaults = 2
    MaxPosts = 1
    MaxKills = 0
    MaxRuns = 4
INVARIANTS ClaimBacked RerunNeedsFault
PROPERTIES KeepsContract
SYMMETRY MCRunnerSymmetry
