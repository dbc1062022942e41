SPECIFICATION Spec
CONSTANTS
  Requests = {r1, r2}
  Subs = {}
  SubTotal <- MCSubTotal
  Periodic = {}
  AllowOverflow = FALSE
  InitWallet = 2
  InitToken = 2
  TrustQuota = 1
  RetryTimes = 1
  Amounts = {0, 1, 2}
  Fees = {0, 1}
  Profiles <- WalletProfiles
  FaultyOps = {"preConsume", "reserve", "fee", "rollback", "settle", "refund"}
SYMMETRY Perms
INVARIANT TypeOK
INVARIANT TextRefundReturnsAll
INVARIANT NeverOverRefunded
INVARIANT SuccessChargesOnce
PROPERTY AdmissionNeverOverdraws
