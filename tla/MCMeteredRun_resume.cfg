SPECIFICATION Spec
CONSTANTS
  c1 = c1
  c2 = c2
  u1 = u1
  u2 = u2
  k1 = k1
  k2 = k2
  None = None
  Cmd <- OneCmd
  Unit <- OneUnit
  Runs = 2
  Bound <- BoundOne
  Ceilings = {3}
  Conf <- TwoConfs
  MaxAttempt = 4
INVARIANTS TypeOK PaidIsOnDisk OneProvenance
PROPERTIES ImplementsLedger NeverOverwritten
CHECK_DEADLOCK FALSE
CONSTRAINT WarmCache
