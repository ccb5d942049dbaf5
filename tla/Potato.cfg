CONSTANTS
  Players = {p1, p2, p3}
  Master = Master
  MaxHops = 2
  RAND_MAX = 1
  Segment = 3
  Interrupts = 2
  NULL = NULL
SPECIFICATION FairSpec
INVARIANTS
  NobodyFails
  ClosedAll
PROPERTIES
  ImplementsGame
  GameEnds
  PlayersStop
CHECK_DEADLOCK FALSE
