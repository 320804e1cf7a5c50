SPECIFICATION FairSpec
CONSTANTS
    c1 = c1  c2 = c2  r1 = r1  r2 = r2
    Free = Free  Orphan = Orphan  NoCmd = NoCmd  Other = Other  Malformed = Malformed
    Cmds <- MCTwoCmds
    Runners <- MCOneRunner
    QueuedSince <- MCQueuedSince
    Effects = {"delete", "keep", "raise"}
    HasChannel = FALSE
    EveryNth = 2
    BigintMax = 2
    IntMax = 2
    Faults = {"conn", "select", "commit"}
    MaxFaults = 1
    MaxPosts = 1
    MaxKills = 0
    MaxRuns = 1
PROPERTIES PersistentRetry
