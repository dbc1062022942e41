SPECIFICATION Spec
CONSTANTS
    p1 = p1
    p2 = p2
    f1 = f1
    Pollers <- OnePoller
    Fetchers = {}
    Quotas = {1, 2}
    Kinds <- UsageKind
    MaxFailures = 2
    TimeoutSweep = TRUE
    FailureUsage = TRUE
    FullProgress = FALSE
    ChannelLoss = FALSE
    SlowRefund = FALSE
    MaxCrashes = 0
    MaxFetches = 0
    FaultyOps = {}
SYMMETRY Symmetry
INVARIANT FinalCharge
