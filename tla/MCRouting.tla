----------------------------- MODULE MCRouting ------------------------------
(* A small instance of Ids and Routing for TLC: every pair of runs that     *)
(* found a few forms of each item and link in one text, in either order.    *)
EXTENDS Ids, TLC

CONSTANTS v, p1, p2, line1, line2, lab, ref, split, other

Verbatims == {v}
Placeholders == {p1, p2}
Deriveds == 1 .. 3
Offsets == 1 .. 6
\* A bullet on one line, with its struck half, and the line below it.
Lines == {line1, line2}
Located == [o \in Offsets |-> IF o <= 5 THEN line1 ELSE line2]
Labels == {lab}
Flags == {split, other}
ReleasedFlags == {split}
References == {ref}
Slots == 1 .. 2

Defined == [defined |-> (v :> 1), struck |-> {[from |-> 3, to |-> 5]}, rules |-> {}]
Undefined == [defined |-> (v :> None), struck |-> {[from |-> 3, to |-> 5]}, rules |-> {}]
Rules == [defined |-> (v :> None), struck |-> {},
          rules |-> {[from |-> 1, to |-> 5, label |-> lab]}]

At(o) == [at |-> o, body |-> None, says |-> {}]
\* A span from the bullet's id on, its body struck or not.
Bullet(o) == [at |-> 1, body |-> [from |-> o, to |-> o + 1], says |-> {}]
It(name, t, flags, span) == [name |-> name, type |-> t, label |-> None, flags |-> flags, span |-> span]
AC == "AcceptanceCriterion"
Labelled(e) == [e EXCEPT !.label = lab]

\* At most one item of each set, in the order of the sets or against it.
Lists(sets) ==
    LET some == {s \in SUBSET UNION {sets[k] : k \in DOMAIN sets} :
                    \A k \in DOMAIN sets : Cardinality(s \cap sets[k]) <= 1}
        place(e) == CHOOSE k \in DOMAIN sets : e \in sets[k]
        up(s) == SetToSortSeq(s, LAMBDA a, b : place(a) < place(b))
    IN  {up(s) : s \in some} \cup {Reverse(up(s)) : s \in some}
Found(items, links) == [items |-> items, links |-> links]

\* A criterion with any flag or unclassified, a struck or a moved version of it, and two
\* more spans, of the bullet's line or the next, labelled or not, or nowhere.
Criteria == {It(v, AC, f, Bullet(2)) : f \in {{}, {split}, {other}}}
Twins == {It(v, AC, {split}, Bullet(3)), It(v, "Decision", {}, At(None))}
Spans == {It(p1, "Decision", {}, At(o)) : o \in {5, None}}
FlaggedSpans == {It(p1, "Decision", {split}, At(6))}
MoreSpans == {Labelled(It(p2, "Decision", {}, At(5)))}
ItemsFound ==
    {Found(q, <<>>) : q \in Lists(<<{c \in Criteria : c.flags # {}} \cup {It(v, "UNCLASSIFIED", {}, Bullet(2))}, Twins, Spans>>)
                            \cup Lists(<<Spans \cup FlaggedSpans, MoreSpans>>)}

\* A criterion, a span and up to two links: between the two, out of the unit and beside it;
\* the first may be flagged, and the second may be its copy.
Plainly(x, y) == [type |-> "BLOCKED", source |-> x, target |-> y, flags |-> {}]
FirstLinks == {Plainly(v, p1), Plainly(p1, ref),
               [Plainly(v, p1) EXCEPT !.flags = {other}], [Plainly(p1, ref) EXCEPT !.flags = {other}]}
SecondLinks == {Plainly(v, p1), Plainly(v, ref)}
FewSpans == {It(p1, "Decision", {}, At(o)) : o \in {6, None}}
Cited == {c \in Criteria : c.flags # {split}}
LinksFound ==
    {f \in {Found(q, l) : q \in {<<c, d>> : c \in Cited, d \in FewSpans} \cup {<<c>> : c \in Cited},
                          l \in {<<>>} \cup {<<k>> : k \in FirstLinks}
                                \cup {<<k, m>> : k \in FirstLinks, m \in SecondLinks}} :
        IsFound(f)}
\* Links of an item one of two versions of which keeps its id.
TwinLinksFound ==
    {Found(q, l) : q \in {s \in Lists(<<Criteria, Twins, FewSpans>>) : Len(s) = 3},
                   l \in {<<Plainly(v, p1), Plainly(p1, ref)>>, <<Plainly(p1, ref), Plainly(v, p1)>>}}

\* Items inside a rule's leading span, beside it or nowhere, with a label of their own.
RuleItems ==
    {Found(q, <<>>) : q \in
        Lists(<<{It(p1, "Decision", {}, At(1)), Labelled(It(p1, "Decision", {}, At(6)))},
                {Labelled(It(p2, "Decision", {}, At(o))) : o \in {4, 6, None}}
                \cup {Labelled(It(p2, "Decision", {}, [At(6) EXCEPT !.says = {lab}]))}>>)}

AllSections ==
    {[text |-> Defined, findings |-> ItemsFound], [text |-> Defined, findings |-> LinksFound],
     [text |-> Undefined, findings |-> TwinLinksFound], [text |-> Rules, findings |-> RuleItems]}
AllOutputs == {pick.output : pick \in UNION {s.runs : s \in Identifications}}
=============================================================================
