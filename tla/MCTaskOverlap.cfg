SPECIFICATION Spec
CONSTANTS
    p1 = p1
    p2 = p2
    f1 = f1
    Pollers <- TwoPollers
    Fetchers = {}
    Quotas = {1, 2}
    Kinds <- AllKinds
    MaxFailures = 1
    TimeoutSweep = TRUE
    FailureUsage = FALSE
    FullProgress = FALSE
    ChannelLoss = TRUE
    SlowRefund = TRUE
    MaxCrashes = 1
    MaxFetches = 0
    FaultyOps = {"insert", "settle", "status", "funding", "token", "marker", "claim", "restore"}
SYMMETRY Symmetry
INVARIANT TypeOK
INVARIANT MarkerTruthful
INVARIANT NoOverRefund
INVARIANT FinalCharge
PROPERTY TerminalIsFinal
