SPECIFICATION Spec
CONSTANTS
  Keys = {12, 16}
  BufferSize = 4
  ReadSizes = {1}
  MaxPresses = 2
CHECK_DEADLOCK FALSE
PROPERTIES
  ZeroMeansEmpty
