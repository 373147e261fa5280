SPECIFICATION Spec
CONSTANTS
  None = None
  NodeId = {1, 2, 3, 4, 5}
  LinkType = {1, 2, 3}
  TYPED_LINKS = {1, 2}
  HISTORY_LINKS = {1}
  Stored <- StoredGraphs
  Hits <- ManyHits
  MAX_HOPS = 3
  HIT_LIMIT = 2
  ITEM_LIMIT = 3
  HOP_CHOICES = {0, 1, 2}
INVARIANTS TypeOK WalkIsShortest DepthLimitIsTold HeldOnlyAdds
           ReplacementsSent SentIsThePrefix MarksAreEarned
CHECK_DEADLOCK FALSE
