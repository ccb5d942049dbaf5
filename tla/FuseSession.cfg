CONSTANTS
  Ordinary = {r}
  Forgets = {f}
  Threads = {1, 2, 3, 4}
  MaxIdle = 1
  None = None
SPECIFICATION FairSpec
INVARIANTS RequestInUse WorkersKnown InterruptKept
PROPERTIES LoopEnds 
CHECK_DEADLOCK FALSE
