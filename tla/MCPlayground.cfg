SPECIFICATION MCSpec
CONSTANTS
  Users = {ann, bob}
  First = ann
  NoUser = NoUser
  ReplyLen = 2
  MaxStored = 2
  MaxReq = 2
  MaxGestures = 3
  Alike <- EchoingReplies
  AdoptsAccounts = FALSE
CHECK_DEADLOCK FALSE
INVARIANT TypeOK
INVARIANT OwnReply
INVARIANT NothingLost
INVARIANT Settled
INVARIANT OneOpenStream
INVARIANT SavedOrDue
INVARIANT OwnerOnly
PROPERTY FinalStays
PROPERTY GenerationEnds
