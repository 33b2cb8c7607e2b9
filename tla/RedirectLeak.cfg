SPECIFICATION Spec
CONSTANTS
  Lines = {1}
  MaxCalls = 1
  OpenMax = 4
  SysFaults = {}
  Threads = {}
  NoThread = NoThread
  ThreadFaults = {}
CHECK_DEADLOCK FALSE
INVARIANTS
  FileClosed
