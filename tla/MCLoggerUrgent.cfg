SPECIFICATION Spec
CONSTANTS
  t1 = t1
  t2 = t2
  NoOne = NoOne
  Threads <- TwoThreads
  Leavers <- OneLeaver
  Cap = 4
  Every = 3
  Sizes = {1, 3}
  MaxLines = 2
INVARIANT UrgentOnDisk
CHECK_DEADLOCK FALSE
