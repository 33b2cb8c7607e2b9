SPECIFICATION FairSpec
CONSTANTS
  c1 = c1
  c2 = c2
  S = S
  Clients = {c1, c2}
  Packet <- LinesAndSeek
  Header <- MCHeader
  NL = NL
  Nobody = Nobody
  Capacity = 3
  Faults = {"disconnect", "reset"}
CHECK_DEADLOCK FALSE
INVARIANTS
  ServerInv
PROPERTIES
  ReadBackWhole
  ClientsServed
