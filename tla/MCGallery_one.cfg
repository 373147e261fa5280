SPECIFICATION GallerySpec
CONSTANTS
  a1 = a1
  q1 = q1
  q2 = q2
  s1 = s1
  s2 = s2
  None = None
  Asker <- OneAsker
  Question <- TwoQuestions
  Eval <- OneEval
  HeldOut <- OneEval
  Development <- NoQuestion
  MaxIn = 1
  MaxOut = 1
  Ceilings = {1, 2}
  MaxSecond = 1
  Answered <- TheAnswers
  Lines <- TheLines
  SlugOf <- TheSlugs
  MarksFiles <- TheMarks
CONSTRAINT FewAnswers
INVARIANTS TypeOK SettledOnce PaidIsCovered NoMissingFile GraphsAgree
