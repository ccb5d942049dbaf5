CONSTANTS
  Threads = {t1, t2, t3}
  Sems = {s1, s2}
  MaxCount = 1
  NULL = NULL
SPECIFICATION FairSpec
INVARIANTS
  OnePlace
  BlockedHasReason
  CountIsWaiters
  ContextIsOwn
PROPERTIES
  JoinWaits
  NoOvertaking
  ImplementsApi
  NoStarvation
