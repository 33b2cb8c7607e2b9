CONSTANTS
  MaxCalls = 1
  OpenMax = 4
  SysFaults = {"dup2"}
  Threads = {t1}
  NoThread = NoThread
  ThreadFaults = {"lock"}
  Lines = {1, t1}
  t1 = t1
SPECIFICATION Spec
INVARIANT LinesOnce
CHECK_DEADLOCK FALSE
