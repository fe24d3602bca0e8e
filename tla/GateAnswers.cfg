SPECIFICATION FairSpec
CONSTANTS
  x1 = x1 x2 = x2 x3 = x3 r1 = r1 r2 = r2 r3 = r3
  None = None
  Press = {x1, x2}
  Run = {r1}
  Lifetime = 1
  Retention = 1
  MaxTime = 1
  MaxSaid = 1
PROPERTY EveryPressEnds
CHECK_DEADLOCK FALSE
