SPECIFICATION FairSpec
CONSTANTS
    r1 = r1
    r2 = r2
    Runners <- TwoRunners
    MaxTasks = 2
    MaxCrashes = 1
    Stalls = FALSE
    FaultyOps = {"reread", "renew", "finish", "release"}
INVARIANT OneHandler
PROPERTY EveryTaskEnds
