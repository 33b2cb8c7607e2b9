SPECIFICATION Spec
CONSTANTS
  FIELD_WIDTH = 16
  FIELD_HEIGHT = 8
  TITLE_NUM_FRAME = 2
  Pictures = {1, 2}
  Gains = {700}
  Saved = {{0}}
  MaxScore = 700
  MaxKills = 1
  MaxKeys = 1
INVARIANTS
  ScreenShown
  DrawingsNotInterrupted
  DisplayInv
PROPERTIES
  NoStaleKey
  TitleAppears
