SPECIFICATION FairSpec
CONSTANTS
  c1 = c1
  c2 = c2
  S = S
  Clients = {c1, c2}
  Packet <- TwoTexts
  Header <- MCHeader
  NL = NL
  Nobody = Nobody
  Capacity = 2
  Faults = {"startup", "signal", "second", "disconnect", "write", "open", "accept", "create"}
CHECK_DEADLOCK FALSE
INVARIANTS
  PacketsContiguous
  NodesOutliveThreads
PROPERTIES
  SignalExitsQuiet
