SPECIFICATION Spec
CONSTANTS
  p1 = p1
  p2 = p2
  f1 = f1
  f2 = f2
  b1 = b1
  b2 = b2
  b3 = b3
  b4 = b4
  Procs = {p1, p2}
  Files = {f1}
  FileOf <- SharedFile
  Blocks = {b1, b2}
  NULL = NULL
  Nobody = Nobody
  NL = NL
  Garbage = Garbage
  Requests <- RelativeSeeks
  Faults = {}
  SizeMod = 256
  MaxPending = 2
  MaxLoads = 1
  MaxWriteOps = 1
  NoEntry <- MCNoEntry
  Entries <- MCEntries
CHECK_DEADLOCK FALSE
PROPERTIES
  SeeksFindBytes
