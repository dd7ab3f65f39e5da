SPECIFICATION FairSpec
CONSTANTS
  Sizes = {1, 2}
  MaxFrames = 6
  MaxScenes = 3
  DeviceCopies = TRUE
INVARIANTS
  SlotsInTurn
  OutputIsSafe
  DrainedAtExit
PROPERTIES
  QueueSpec
  SubmitReturns
  JoinReturns
CHECK_DEADLOCK FALSE
