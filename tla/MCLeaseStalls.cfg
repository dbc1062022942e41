SPECIFICATION Spec
CONSTANTS
    r1 = r1
    r2 = r2
    Runners <- TwoRunners
    MaxTasks = 2
    MaxCrashes = 1
    Stalls = TRUE
    FaultyOps = {"mark", "start", "reread", "renew", "finish", "release"}
SYMMETRY Symmetry
INVARIANT TypeOK
INVARIANT StartedOnce
PROPERTY OutcomeIsFinal
