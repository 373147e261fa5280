SPECIFICATION IdSpec
CONSTANTS
  v = v
  p1 = p1
  p2 = p2
  line1 = line1
  line2 = line2
  lab = lab
  ref = ref
  split = split
  other = other
  None = None
  Verbatim <- Verbatims
  Placeholder <- Placeholders
  Derived <- Deriveds
  Offset <- Offsets
  LineOf <- Located
  Line <- Lines
  Label <- Labels
  Flag <- Flags
  RELEASED_FLAGS <- ReleasedFlags
  Reference <- References
  LinkType = {"BLOCKED"}
  Slot <- Slots
  Runs = 2
  Sections <- AllSections
  Outputs <- AllOutputs
  MaxBullets = 2
INVARIANTS TypeOK NothingDisputedAccepted EndsAccepted CodePassIsCautious
           NothingDropped NarrowIsComplete SameFindingsAgree
PROPERTIES OnlyReleases
CHECK_DEADLOCK FALSE
