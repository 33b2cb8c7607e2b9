SPECIFICATION Spec
CONSTANTS
  FIELD_WIDTH = 16
  FIELD_HEIGHT = 8
  TITLE_NUM_FRAME = 1
  Pictures = {1}
  Gains = {}
  Saved = {{}}
  MaxScore = 0
  MaxKills = 0
  MaxKeys = 1
PROPERTIES
  OnlyFreshKeys
