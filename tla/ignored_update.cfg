SPECIFICATION Spec
CONSTANTS
    c1 = c1  c2 = c2  r1 = r1  r2 = r2
    Free = Free  Orphan = Orphan  NoCmd = NoCmd  Other = Other  Malformed = Malformed
    Cmds <- MCTwoCmds
    Runners <- MCOneRunner
    QueuedSince <- MCQueuedSince
    Effects = {"ignore"}
    HasChannel = FALSE
    EveryNth = 0
    BigintMax = 1
    IntMax = 1
    Faults = {}
    MaxFaults = 0
    MaxPosts = 0
    MaxKills = 0
    MaxRuns = 1
PROPERTIES OncePerRound
