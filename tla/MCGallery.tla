----------------------------- MODULE MCGallery -----------------------------
(* Small instances of Gallery for TLC.                                     *)
EXTENDS Gallery

CONSTANTS a1, q1, q2, s1, s2

OneAsker == {a1}
\* q1 is of a held out file, q2 is typed.
TwoQuestions == {q1, q2}
OneEval == {q1}
NoQuestion == {}

\* The history is bounded for TLC.
FewAnswers == answers[q1] <= 2 /\ answers[q2] <= 1

TheLines == [prd |-> 4]
At(id, file, line) == [id |-> id, file |-> file, line |-> line]
Link(source, target) == [source |-> source, target |-> target]
Says(cites, rejected) == [cites |-> cites, rejected |-> rejected]

Items == <<At("R1", "prd", 4), At("R2", "prd", None), At("C1", None, None)>>
\* Two claims share a citation, one repeats it, one rejects what another cites.
TwoClaims ==
    [pinned |-> TRUE, items |-> Items, links |-> <<Link("R1", "R2"), Link("R2", "R2")>>,
     claims |-> <<Says(<<"R2", "Z9", "R2">>, {"Z9"}), Says(<<"R1", "R2">>, {})>>]
\* Nothing is cited but what was rejected.
AllRejected ==
    [pinned |-> TRUE, items |-> <<At("R1", "prd", 1)>>, links |-> <<>>,
     claims |-> <<Says(<<"R1">>, {"R1"}), Says(<<>>, {})>>]
\* A claim cites an item with no file.
Unplaced == [TwoClaims EXCEPT !.claims = <<Says(<<"C1">>, {})>>]

TheAnswers == (<<0, q1>> :> TwoClaims) @@ (<<1, q1>> :> AllRejected) @@ (<<0, q2>> :> AllRejected)
    @@ (<<1, q2>> :> Unplaced)

TheSlugs == ("L1" :> s1) @@ ("L2" :> s2) @@ ("L1!" :> s1) @@ ("!" :> None)
Entry(record, label, section) == [record |-> record, label |-> label, section |-> section]
Typed == Entry(<<0, q2>>, "L2", "realistic")
Asked == Entry(<<0, q1>>, "L1", "held out")
\* Right ones, and one of each that is refused by its slug, its section or its record.
TheMarks ==
    {<<Typed, Asked>>, <<Asked>>, <<Entry(<<0, q2>>, "L1", "realistic")>>,
     <<Typed, Entry(<<1, q1>>, "L1!", "held out")>>,
     <<Entry(<<0, q2>>, "L1", "realistic"), Entry(<<0, q1>>, "L1!", "held out")>>,
     <<Entry(<<0, q2>>, "!", "realistic")>>,
     <<Entry(<<0, q1>>, "L1", "realistic")>>,
     <<Entry(<<1, q2>>, "L2", "realistic")>>}
=============================================================================
