SPECIFICATION Spec
CONSTANTS
  c1 = c1
  t1 = t1
  rec = rec
  e1 = e1
  e2 = e2
  e3 = e3
  gap1 = gap1
  gap2 = gap2
  l1 = l1
  l2 = l2
  l3 = l3
  None = None
  Loader <- OneLoader
  Scorer <- OneScorer
  Record <- Records
  Entity <- Entities
  Gap <- Gaps
  Link <- Links
  RecordOf <- AllOneRecord
  Ends <- TheEnds
  Type <- TheTypes
  Plain <- PlainSet
  ByCode <- CodeSet
  ByNarrow <- NarrowSet
INVARIANTS LoneScoreIsExact
