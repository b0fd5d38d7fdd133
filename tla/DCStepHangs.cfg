SPECIFICATION ScriptFairSpec
CONSTANTS
  Threads = {t1}
  NoMessage = none
  MayExit = FALSE
  Settle = FALSE
  Reattach = FALSE
  Rounds = 1
  Steps = 2
PROPERTY
  SingleStepReturns
