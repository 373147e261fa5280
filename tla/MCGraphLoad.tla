---------------------------- MODULE MCGraphLoad -----------------------------
(* Small instances of GraphLoad for TLC.                                   *)
EXTENDS GraphLoad, TLC

CONSTANTS c1, t1, rec, e1, e2, e3, gap1, gap2, l1, l2, l3

OneLoader == {c1}
OneScorer == {t1}
Records == {rec}
\* e1 is accepted outright, e2 is released by either setting, e3 by the narrow hold rule
\* alone.
Entities == {e1, e2, e3}
Gaps == {gap1, gap2}
\* Links of an accepted entity to a mention, of a released one to a mention no other link
\* reaches, and of one the narrow rule releases to a record.
Links == {l1, l2, l3}
AllOneRecord == [e \in Entities |-> rec]
TheEnds == (l1 :> {e1, gap1}) @@ (l2 :> {e2, gap2}) @@ (l3 :> {e3, rec})
TheTypes == (e1 :> "AC") @@ (e2 :> "AC") @@ (e3 :> "step")
            @@ (l1 :> "blocked") @@ (l2 :> "verifies") @@ (l3 :> "verifies")
PlainSet == {e1}
CodeSet == {e2}
NarrowSet == {e2, e3}
=============================================================================
