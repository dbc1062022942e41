SPECIFICATION Spec
CONSTANTS
  Requests = {r1}
  Subs = {}
  SubTotal <- MCSubTotal
  Periodic = {}
  AllowOverflow = TRUE
  InitWallet = 2
  InitToken = 2
  TrustQuota = 0
  RetryTimes = 0
  Amounts = {0, 1, 2}
  Fees = {0}
  Profiles <- ImageProfiles
  FaultyOps = {}
INVARIANT RefundReturnsAll
