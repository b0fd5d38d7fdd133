SPECIFICATION Spec
CONSTANTS
  Threads = {t1}
  NoMessage = none
  MayExit = FALSE
  Settle = TRUE
  Reattach = FALSE
INVARIANT
  DetachResumesTask
