----------------------------- MODULE MCAskGuard -----------------------------
(* Small instances of AskGuard for TLC.                                    *)
EXTENDS AskGuard

CONSTANTS a1, q1, q2

OneAsker == {a1}
\* q1 is of a held out file, q2 is typed.
TwoQuestions == {q1, q2}
OneEval == {q1}

\* The history is bounded for TLC.
FewAnswers == \A q \in Question : answers[q] <= 2
=============================================================================
