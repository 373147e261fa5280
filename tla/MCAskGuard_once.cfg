SPECIFICATION Spec
CONSTANTS
  a1 = a1
  q1 = q1
  q2 = q2
  None = None
  Asker <- OneAsker
  Question <- TwoQuestions
  Eval <- OneEval
  HeldOut <- OneEval
  MaxIn = 1
  MaxOut = 1
  Ceilings = {1, 2}
  MaxSecond = 1
CONSTRAINT FewAnswers
INVARIANTS AnsweredOnce
