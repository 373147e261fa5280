SPECIFICATION Spec
CONSTANTS
  c1 = c1
  c2 = c2
  u1 = u1
  u2 = u2
  k1 = k1
  k2 = k2
  None = None
  Cmd <- TwoCmds
  Unit <- OneUnit
  Runs = 1
  Bound <- BoundZero
  Ceilings = {0}
  Conf <- OneConf
  MaxAttempt = 2
CHECK_DEADLOCK FALSE
PROPERTIES NeverOverwritten
