SPECIFICATION FairSpec
CONSTANTS
  Requests = {r1, r2}
  Subs = {1, 2}
  SubTotal <- MCSubTotal
  Periodic = {1}
  AllowOverflow = TRUE
  InitWallet = 2
  InitToken = 2
  TrustQuota = 0
  RetryTimes = 0
  Amounts = {0, 2}
  Fees = {0, 1}
  Profiles <- PrefProfiles
  FaultyOps = {"preConsume", "rollback", "refund"}
INVARIANT SubscriptionCap
INVARIANT RowsAgree
PROPERTY EveryRequestEnds
