SPECIFICATION FairSpec
CONSTANTS
  w1 = w1
  w2 = w2
  Mixer = Mixer
  NoOne = NoOne
  Writers <- TwoWriters
  Cap = 6
  Grain = 4
  Frame = 2
  Sizes = {4, 6}
  MaxGuard = 2
  MaxBytes = 6
INVARIANTS
  TypeOK
  RingConsistent
  OutputOnOpenPort
  CutIsSilent
  HeardInOrder
  FramesExact
PROPERTIES
  QueueSpec
  WriteReturns
  ShutdownCompletes
  QueuedIsPlayed
