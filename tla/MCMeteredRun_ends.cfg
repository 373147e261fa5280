SPECIFICATION FairSpec
CONSTANTS
  c1 = c1
  c2 = c2
  u1 = u1
  u2 = u2
  k1 = k1
  k2 = k2
  None = None
  Cmd <- OneCmd
  Unit <- TwoUnits
  Runs = 1
  Bound <- BoundsDiffer
  Ceilings = {2, 4}
  Conf <- OneConf
  MaxAttempt = 3
CHECK_DEADLOCK FALSE
INVARIANTS ColdCachePaidOnce SpendWithinCeiling
PROPERTIES CommandEnds
