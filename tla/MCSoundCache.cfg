SPECIFICATION Spec
CONSTANTS
  s1 = s1
  s2 = s2
  s3 = s3
  shot = shot
  step = step
  click = click
  Null = Null
  None = None
  Streams <- ThreeStreams
  Sounds <- ThreeSounds
  Others = {}
  Size <- Sizes
  MaxSize = 2
  MaxEntries = 2
  MaxHandles = 2
  ItemSizes = {1, 2}
  Counts = {2}
  Offsets <- Back
  Past = 1
INVARIANTS
  TypeOK
  HandlesKnown
  LoadedOnce
PROPERTY StreamSpec
SYMMETRY Symmetry
