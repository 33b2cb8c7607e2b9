SPECIFICATION FairSpec
CONSTANTS
  Height = 4
  Depth = 5
  SpawnY = 0
  Types = {0, 1, 4, 7}
  MaxPieces = 5
CHECK_DEADLOCK FALSE
INVARIANTS
  FieldInv
  CellsConserved
  ScanStaysInside
PROPERTIES
  PieceLands
