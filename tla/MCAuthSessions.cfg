SPECIFICATION Spec
CONSTANTS
  t1 = t1
  t2 = t2
  Tabs = {t1, t2}
  Ghost = Ghost
  NoTab = NoTab
  MaxSid = 2
  MaxGen = 2
  MaxInputs = 2
  MaxFaults = 2
  WebLocks = TRUE
SYMMETRY TabSymmetry
INVARIANT TypeOK
INVARIANT NeverOutOfSync
INVARIANT LockHolderRuns
PROPERTY HonestRefresh
PROPERTY SignedOutStays
PROPERTY NoSessionSwap
CHECK_DEADLOCK FALSE
