SPECIFICATION FairSpec
CONSTANTS
  Threads = {t1, t2, t3}
  NoMessage = none
  MayExit = FALSE
  Settle = TRUE
  Reattach = FALSE
INVARIANTS
  CallFindsTaskSuspended
  BlockedThreadHeld
  StepBitsCleared
PROPERTIES
  SingleStepReturns
  ImplementsSession
