SPECIFICATION Spec
CONSTANTS
  Caches = {c1, c2}
  Fillers = {f1}
  Revokers = {r1, r2}
  TTL = 2
  MaxTime = 4
  MaxVersion = 2
  MaxFaults = 1
SYMMETRY CacheSymmetry
CHECK_DEADLOCK FALSE
INVARIANT TypeOK
INVARIANT VersionConverges
INVARIANT TombstoneHolds
PROPERTY KeepsWindow
