SPECIFICATION FairSpec
CONSTANTS
  c1 = c1
  c2 = c2
  S = S
  Clients = {c1}
  Packet <- OneText
  Header <- MCHeader
  NL = NL
  Nobody = Nobody
  Capacity = 2
  Faults = {"signal"}
CHECK_DEADLOCK FALSE
PROPERTIES
  SignalExits
