SPECIFICATION FairSpec
CONSTANTS
  x1 = x1 w1 = w1 w2 = w2 coffee = coffee bus = bus food = food
  Request = {x1}
  Writer = {w1, w2}
  Row = {coffee, bus, food}
  Budgets = {food}
  None = None
  FirstRows <- MCFirstRows
  MaxTime = 3
  MaxOpens = 2
INVARIANT BuildIsBounded CachedIsCurrent
PROPERTY OrderedCommitChangesVersion EveryReportEnds
CHECK_DEADLOCK FALSE
