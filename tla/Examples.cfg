SPECIFICATION Spec
CONSTANTS
  Lines = {1, 2, t1, t2}
  MaxCalls = 2
  OpenMax = 4
  SysFaults = {"open", "fork", "dup2", "close", "exec", "wait"}
  Threads = {t1, t2}
  NoThread = NoThread
  ThreadFaults = {"malloc", "create", "lock", "unlock"}
CHECK_DEADLOCK FALSE
INVARIANTS
  CallInv
  OutputInv
  ThreadInv
PROPERTIES
  ThreadsEnd
