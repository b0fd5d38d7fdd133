SPECIFICATION ScriptSpec
CONSTANTS
  Threads = {t1, t2}
  NoMessage = none
  MayExit = TRUE
  Settle = FALSE
  Reattach = FALSE
  Rounds = 3
  Steps = 4
SYMMETRY ThreadSymmetry
INVARIANTS
  AssertsHold
  AccessFindsTaskSuspended
