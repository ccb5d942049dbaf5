CONSTANTS
  Ordinary = {r}
  Forgets = {f}
  Threads = {1, 2, 3, 4}
  MaxIdle = 1
  None = None
SPECIFICATION FairSpec
PROPERTY SignalEnds
CHECK_DEADLOCK FALSE
