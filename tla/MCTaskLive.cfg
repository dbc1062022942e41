SPECIFICATION FairSpec
CONSTANTS
    p1 = p1
    p2 = p2
    f1 = f1
    Pollers <- OnePoller
    Fetchers <- OneFetcher
    Quotas = {1}
    Kinds <- UsageKind
    MaxFailures = 2
    TimeoutSweep = TRUE
    FailureUsage = FALSE
    FullProgress = TRUE
    ChannelLoss = TRUE
    SlowRefund = TRUE
    MaxCrashes = 1
    MaxFetches = 1
    FaultyOps = {"marker"}
PROPERTY TerminalIsFinal
PROPERTY EveryTaskEnds
PROPERTY FailureIsRefunded
