SPECIFICATION FairSpec
CONSTANTS
  Threads = {t1, t2}
  NoMessage = none
  MayExit = TRUE
  Settle = FALSE
  Reattach = TRUE
INVARIANTS
  TypeOK
  SuspendAccounted
  DetachUnsuspended
  ReplyAwaited
PROPERTIES
  JoinReturns
  MessageTaken
