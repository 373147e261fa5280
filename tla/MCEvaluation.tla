---------------------------- MODULE MCEvaluation ----------------------------
(***************************************************************************)
(* A small corpus for TLC, scored against every load of it: a section of   *)
(* record A whose links name the entities of record B in every form, and   *)
(* two sections of B, the second of which may say what the first said.     *)
(***************************************************************************)
EXTENDS FourWay, TLC

CONSTANTS A, B, a1, b1, b2, lab, words, lineA, lineB, lineB2, lineC, blankB

Records == {A, B}
RecordOfUnit == <<A, B, B>>
Kinds == <<"Rules", "Rules", "Preamble">>
IdRecords == a1 :> A @@ b1 :> B @@ b2 :> B
IdRanks == a1 :> 1 @@ b1 :> 3 @@ b2 :> 2
LineUnits == lineA :> 1 @@ lineB :> 2 @@ lineB2 :> 2 @@ lineC :> 3 @@ blankB :> 2
Quotes == blankB :> lineB
Nodeids == {a1, b1, b2} \cup Records \cup (Records \X {words})

Span(label, struck, line) == [label |-> label, struck |-> struck, line |-> line]
Own(id) == [local |-> TRUE, record |-> None, id |-> id, label |-> None, mention |-> None]
Ref(record, id, label) ==
    [local |-> FALSE, record |-> record, id |-> id, label |-> label, mention |-> words]
From(source, target) == [type |-> "BLOCKED", source |-> source, target |-> target]

Route(entities, links) == [entities |-> entities, links |-> links]
\* One unit: its first run, its later rows, and what each rule accepts of it.
One(entity, link, before, after) ==
    [first |-> [entity |-> entity, link |-> link],
     later |-> [entities |-> 0, links |-> IF before.links = {} THEN 1 ELSE 0],
     before |-> before, after |-> after]

Nothing == [i \in {} |-> None]
Targets == {Ref(B, b1, None), Ref(B, None, lab), Ref(B, None, None), Ref(None, None, lab)}
Links1 ==
    {1 :> From(Own(a1), t) : t \in Targets}
    \cup {1 :> From(Own(a1), Ref(B, None, lab)) @@ 2 :> From(Own(a1), Ref(B, b1, None))}
UnitA ==
    LET entity == a1 :> Span(None, FALSE, lineA) IN
    UNION {LET s == DOMAIN link
           IN  {One(entity, link, Route({}, {}), Route({a1}, s)),
                One(entity, link, Route({a1}, s), Route({a1}, s))} : link \in Links1}
    \cup {One(entity, link, Route({a1}, {}), Route({a1}, {1})) :
            link \in {l \in Links1 : l[1].target.record # None}}
    \cup {One(entity, link, Route({}, {}), Route({}, {})) :
            link \in {l \in Links1 : DOMAIN l = {1, 2}}}

Back == 1 :> From(Own(b1), Ref(A, a1, None))
UnitB ==
    UNION {LET ids == DOMAIN found[1]
               s == DOMAIN found[2]
           IN  {One(found[1], found[2], Route({}, {}), Route({b1}, {})),
                One(found[1], found[2], Route({b1}, {}), Route(ids, s)),
                One(found[1], found[2], Route(ids, s), Route(ids, s))} :
           found \in {<<b1 :> Span(lab, FALSE, lineB) @@ b2 :> Span(lab, FALSE, lineB2), Nothing>>,
                     <<b1 :> Span(lab, FALSE, lineB) @@ b2 :> Span(lab, FALSE, lineB2), Back>>,
                     <<b1 :> Span(lab, FALSE, lineB) @@ b2 :> Span(lab, FALSE, lineB), Back>>,
                     <<b1 :> Span(lab, FALSE, lineB) @@ b2 :> Span(lab, TRUE, lineB2), Back>>}}
    \cup {One(b1 :> Span(lab, FALSE, lineB), Back, Route({}, {}), Route({}, {}))}

\* The last unit finds what the second found, or an item of its own.
Again == b1 :> Span(None, FALSE, lineC)
Another == b2 :> Span(lab, FALSE, lineC)
UnitC ==
    {One(Again, Nothing, Route({}, {}), Route({b1}, {})),
     One(Another, Nothing, Route({}, {}), Route({b2}, {}))}

AllArtifacts == <<UnitA, UnitB, UnitC>>
=============================================================================
