SPECIFICATION Spec
CONSTANTS
  t1 = t1
  t2 = t2
  m1 = m1
  c1 = c1
  h1 = h1
  h2 = h2
  h3 = h3
  NoOne = NoOne
  Zero = Zero
  Threads <- TwoThreads
  Mutexes <- OneMutex
  Conds <- OneCond
  Handles <- ThreeHandles
  Slots = 2
  MaxDepth = 2
  FirstUseRaces = FALSE
INVARIANTS
  TypeOK
  Exclusion
  TableMatchesWords
PROPERTY PosixSpec
SYMMETRY Symmetry
CHECK_DEADLOCK FALSE
