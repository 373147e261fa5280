SPECIFICATION Spec
CONSTANTS
  None = None
  A = A
  B = B
  a1 = a1
  b1 = b1
  b2 = b2
  lab = lab
  words = words
  lineA = lineA
  lineB = lineB
  lineB2 = lineB2
  lineC = lineC
  blankB = blankB
  Units = 3
  Record <- Records
  RecordOf <- RecordOfUnit
  KindOf <- Kinds
  Id = {a1, b1, b2}
  IdRecord <- IdRecords
  Label = {lab}
  Mention = {words}
  Line = {lineA, lineB, lineB2, lineC, blankB}
  Slot = {1, 2}
  Later = {0, 1}
  Artifacts <- AllArtifacts
  NodeId <- Nodeids
  LinkType = {"BLOCKED"}
  TYPED_LINKS = {"BLOCKED"}
  MAX_HOPS = 2
  LineUnit <- LineUnits
  QuoteBelow <- Quotes
  IdRank <- IdRanks
INVARIANTS TypeOK LinksLand EverythingStandsOnce ReleaseIsTheGain
           AbsenceProven HeldNeverLifts FlagsNeverHurt
