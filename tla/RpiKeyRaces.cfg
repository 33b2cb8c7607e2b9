SPECIFICATION Spec
CONSTANTS
  Keys = {12, 16}
  BufferSize = 4
  ReadSizes = {1, 5}
  MaxPresses = 3
CHECK_DEADLOCK FALSE
INVARIANTS
  SafeWhileLoaded
  DeliveredOnce
  PressNotForgotten
