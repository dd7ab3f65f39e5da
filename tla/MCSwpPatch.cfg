\* The spin lock of the engine with its SWP replaced: three threads, one for each sort
\* of operands; the block for patches takes the first trampoline, the cave the other two,
\* unless it is too small for the second of these.
CONSTANTS
  t1 = t1
  t2 = t2
  t3 = t3
  Threads = {t1, t2, t3}
  Regs = {0, 1, 3, 5, 6, 12}
  Values = {0, 1, 2}
  First <- MCFirst
  Last <- MCLast
  Text <- MCText
  Start <- MCStart
  PatchSize = 8
  CaveSizes = {6, 14}
  Reach = 40
  Lock = 2
  Guarded <- MCGuarded
  Knows <- MCKnows
SPECIFICATION Spec
INVARIANTS TypeOK NoUndefined LocksExclude
PROPERTY SwapSpec
CHECK_DEADLOCK FALSE
