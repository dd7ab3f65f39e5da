SPECIFICATION Spec
CONSTANTS
  i1 = i1
  i2 = i2
  Pad <- GamePad
  Tilts <- AnyTilt
  Ids <- TwoIds
  MaxLevel = 3
  DefaultLevel = 2
  WrapLimit = 2
INVARIANT NoStuckFinger
PROPERTY TouchProtocol
SYMMETRY IdSymmetry
