SPECIFICATION MCSpec
CONSTANTS
  Users = {ann, bob}
  First = ann
  NoUser = NoUser
  ReplyLen = 2
  MaxStored = 3
  MaxReq = 2
  MaxGestures = 3
  Alike <- EchoingReplies
  AdoptsAccounts = TRUE
CHECK_DEADLOCK FALSE
INVARIANT OwnerOnly
