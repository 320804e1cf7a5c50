SPECIFICATION SpecNoTimer
CONSTANTS
    c1 = c1  c2 = c2  r1 = r1  r2 = r2
    Free = Free  Orphan = Orphan  NoCmd = NoCmd  Other = Other  Malformed = Malformed
    Cmds <- MCTwoCmds
    Runners <- MCOneRunner
    QueuedSince <- MCQueuedSince
    Effects = {"delete", "keep", "raise"}
    HasChannel = TRUE
    EveryNth = 2
    BigintMax = 2
    IntMax = 2
    Faults = {}
    MaxFaults = 0
    MaxPosts = 2
    MaxKills = 2
    MaxRuns = 1
INVARIANTS TypeOK WokenForNew
PROPERTIES OncePerRound NotifiedTried StopHonoured
