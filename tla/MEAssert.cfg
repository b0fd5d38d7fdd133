SPECIFICATION Spec
CONSTANTS
  Threads = {t1, t2}
  NoThread = nothread
  Child = child
  DeadPort = dead
  MaxExecs = 1
INVARIANT
  ReplyFindsPid
