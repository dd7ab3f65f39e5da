SPECIFICATION Spec
CONSTANTS
  i1 = i1
  i2 = i2
  Pad <- MenuPad
  Tilts <- Never
  Ids <- NoIds
  MaxLevel = 3
  DefaultLevel = 2
  WrapLimit = 2
INVARIANT DpadFollows
