SPECIFICATION BufferSpec
CONSTANTS
  MaxWriteOps = 4
  MaxSize = 2
  NoEntry <- MCNoEntry
  Entries <- MCEntries
INVARIANTS
  WindowShape
  FindLocatesByte
PROPERTIES
  RemembersRecentWrites
