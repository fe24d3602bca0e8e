SPECIFICATION Spec
CONSTANTS
  w1 = w1 w2 = w2 w3 = w3 k1 = k1 k2 = k2 t1 = t1 t2 = t2 t3 = t3
  food = food fun = fun salary = salary none = none
  Absent = none
  Category = {food, fun, salary}
  DirectionOf <- MCDirectionOf
  SeedRow <- MCSeedRow
  Worker = {w1, w2}
  Key = {k1, k2}
  Id = {t1, t2}
  Request <- MixRequests
  Seeded = {t1}
  Retention = 1
  MaxTime = 1
  MaxEffects = 2
INVARIANT CategoryFitsDirection
CHECK_DEADLOCK FALSE
