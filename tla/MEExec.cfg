SPECIFICATION Spec
CONSTANTS
  Threads = {t1, t2}
  NoThread = nothread
  Child = child
  DeadPort = dead
  MaxExecs = 2
INVARIANTS
  TypeOK
  NeverAdoptsChild
  TaskFollowed
  SuspendAccounted
PROPERTY
  ExecNoticed
