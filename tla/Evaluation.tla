----------------------------- MODULE Evaluation -----------------------------
(***************************************************************************)
(* Scoring a question against the loaded graph (report.py, and the body    *)
(* `trace --eval` and `eval` share in cli.py): the walk is over the graph  *)
(* as the last load left it, and what it did not reach is explained by the *)
(* units as the run files stand now, routed under the rule of that load,   *)
(* since a score refuses any other.                                        *)
(*                                                                         *)
(* The walk is what module Walk shows it reaches.  Lines are lines of the  *)
(* source files, each in one unit; several entities may sit on one.        *)
(* Rows only later runs stand behind explain nothing here, and a mention   *)
(* holds an item's AC token when it is that token.                         *)
(***************************************************************************)
EXTENDS Corpus

CONSTANTS
    MAX_HOPS,
    LineUnit,   \* the unit each line sits in
    QuoteBelow, \* for each blank line a citation may name, the line below it
    IdRank      \* the order of ids a start read from a line is picked by, as _id_order()

ASSUME EvaluationAssumption ==
    /\ MAX_HOPS \in Nat /\ LineUnit \in [Line -> Unit] /\ IdRank \in [Id -> Nat]
    /\ \A i, j \in Id : IdRank[i] = IdRank[j] => i = j
    /\ DOMAIN QuoteBelow \subseteq Line
    /\ \A l \in DOMAIN QuoteBelow :
          QuoteBelow[l] \in Line \ DOMAIN QuoteBelow /\ LineUnit[QuoteBelow[l]] = LineUnit[l]
\* A blank line holds no entity, and what is no value is no gap and no reason.
ASSUME BlankAssumption ==
    \A u \in Unit : \A a \in Artifacts[u] : \A i \in DOMAIN a.first.entity :
        a.first.entity[i].line \notin DOMAIN QuoteBelow
ASSUME NothingAssumption ==
    /\ None \notin Record \X Mention
    /\ None \notin {"section_not_extracted", "held_for_review", "unresolved_endpoint",
                   "record_not_expanded", "link_held", "no_link"}

\* An item cites a line; a question starts from an id or from the entity on a line.
Item == [line : Line, token : Mention \cup {None}]

\* _quoted(): the line its quote starts on, one below a blank line that is cited.
Quoted(item) ==
    IF item.line \in DOMAIN QuoteBelow THEN [item EXCEPT !.line = QuoteBelow[@]] ELSE item

\* held_relationships()
HeldLinks(rule) == HeldPairs(complete, rule)

\* The graph a load l leaves, as it is read with or without its held items.
Shown(l, with_held) == GraphSlice(LoadedGraph(l.units, l.rule, l.held), with_held)

Entities(g) == {n \in Nodes(g) : g.node[n].kind = "Entity"}
AtLine(v, g, line) == {n \in Entities(g) : FileLine(v.load.units, v.load.rule, n) = line}

\* What one score works on: the slice it prints, that slice with held items dropped, and
\* the held links of the run files.
View(l, with_held) ==
    LET shown == Shown(l, with_held) IN
    [load |-> l, withHeld |-> with_held, shown |-> shown, clean |-> DropHeld(shown), held |-> HeldLinks(l.rule)]

Lowest(ids) == CHOOSE i \in ids : \A j \in ids : IdRank[i] <= IdRank[j]

\* resolve_start() of a start read from a line: an accepted entity first.
StartAt(v, line) ==
    LET here == AtLine(v, v.shown, line)
        accepted == {n \in here : ~v.shown.node[n].held}
    IN  IF here = {} THEN None ELSE Lowest(IF accepted # {} THEN accepted ELSE here)

\* walk(), or nothing when the start is not in the slice.
Visited(g, start) == IF start \in Nodes(g) THEN Within(g, start, MAX_HOPS) ELSE {}

\* _reached()
ReachedAt(v, visited, item) == visited \cap AtLine(v, v.shown, item.line)
-----------------------------------------------------------------------------
(* Why an item was not reached.                                            *)

Now(u) == RoutedUnit(u, loaded.rule)
EntitiesAt(u, line) == {i \in DOMAIN First(u).entity : First(u).entity[i].line = line}
AcceptedAt(u, line) == EntitiesAt(u, line) \cap Now(u).entities

\* _names_entity(): an end's signature against entity i as unit u found it.  The code takes an
\* end with a derived id by its line, which names every item of that line.
Names(e, i, u) ==
    \/ e.local /\ e.id = i
    \/ /\ ~e.local /\ e.record # None
       /\ \/ e.id = i
          \/ e.label # None /\ e.record = IdRecord[i] /\ e.label = First(u).entity[i].label

\* _entity_index(): an accepted id is read as the last unit that accepts it found it.
Indexed(i) == Writer(complete, loaded.rule, i)

\* Mutant of NamesVisited: an end is compared with the nodes' own ids alone.
NamesVisitedByNode(e, visited) ==
    \E n \in visited : (e.local /\ e.id = n) \/ (~e.local /\ e.record = n /\ e.id = None /\ e.label = None)

\* _names_visited()
NamesVisited(e, visited) ==
    \E n \in visited :
        \/ e.local /\ e.id = n
        \/ ~e.local /\ e.record = n /\ e.id = None /\ e.label = None
        \/ n \in Accepted(complete, loaded.rule) /\ Names(e, n, Indexed(n))

\* A held link that joins the line to a node the walk visited; for a trace item, to anything.
LinkHeld(v, u, line, visited, absence) ==
    \E p \in v.held, i \in EntitiesAt(u, line) :
        \/ Names(Said(p).source, i, u) /\ (absence => NamesVisited(Said(p).target, visited))
        \/ Names(Said(p).target, i, u) /\ (absence => NamesVisited(Said(p).source, visited))

\* A gap the walk shows that may be the item: written for its record, in words with its token.
GapAt(g, visited, u, token) ==
    \E n \in visited :
        /\ g.node[n].kind = "Unresolved" /\ token # None /\ n[2] = token
        /\ GapRecord(loaded.units, Accepted(loaded.units, loaded.rule),
                     Resolved(loaded.units, loaded.rule), n) = RecordOf[u]

\* _reason(), by its fixed priority.
Reason(v, visited, item, absence) ==
    LET u == LineUnit[item.line] IN
    IF u \notin complete THEN "section_not_extracted"
    ELSE IF EntitiesAt(u, item.line) # {} /\ AcceptedAt(u, item.line) = {} THEN "held_for_review"
    ELSE IF GapAt(v.shown, visited, u, item.token) THEN "unresolved_endpoint"
    ELSE IF RecordOf[u] \in visited THEN "record_not_expanded"
    ELSE IF LinkHeld(v, u, item.line, visited, absence) THEN "link_held" ELSE "no_link"
-----------------------------------------------------------------------------
(* One item's finding and the verdict of a question.                       *)

\* Mutant of CleanWalk: the walk the command prints decides, held items and all.
PrintedWalk(v, start) == Visited(v.shown, start)

\* _score_question(): whichever view is printed, the accepted graph decides what is reached.
CleanWalk(v, start) == Visited(v.clean, start)

Finding(v, start, item, absence) ==
    LET clean == CleanWalk(v, start)
        quoted == Quoted(item)
        reached == ReachedAt(v, clean, quoted) # {}
        heldOnly == v.withHeld /\ ~reached /\ ReachedAt(v, Visited(v.shown, start), quoted) # {}
        u == LineUnit[quoted.line]
    IN  [item |-> item, reached |-> reached, heldOnly |-> heldOnly,
         reason |-> IF reached \/ heldOnly THEN None ELSE Reason(v, clean, quoted, absence),
         acceptedHere |-> u \in complete /\ AcceptedAt(u, quoted.line) # {}]

Findings(v, start, items, absence) == {Finding(v, start, item, absence) : item \in items}

\* _besides_start(): the findings of a trace question K and M count, by the cited line.
BesidesStart(v, start, items) ==
    {f \in Findings(v, start, items, FALSE) : start \notin AtLine(v, v.shown, f.item.line)}

\* _absence_cause(): an item's absence is proven when none of these applies.
AbsenceHolds(v, start, f) ==
    /\ start \in Nodes(v.clean)
    /\ f.reason \in {None, "no_link"} /\ f.acceptedHere /\ ~f.heldOnly

\* verdict() of one question.
Verdict(v, start, items, absence) ==
    LET findings == Findings(v, start, items, absence)
        passed == IF absence THEN \A f \in findings : AbsenceHolds(v, start, f)
                  ELSE start \in Nodes(v.clean) /\ \A f \in findings : f.reached
    IN  IF absence /\ \E f \in findings : f.reached THEN "FAIL"
        ELSE IF passed THEN "PASS"
        ELSE IF absence THEN "INCONCLUSIVE" ELSE "FAIL"
-----------------------------------------------------------------------------
(* Properties.                                                             *)

\* --with-held is refused on a graph loaded without the view.
Views == IF loaded.held THEN BOOLEAN ELSE {FALSE}
\* The graph says what the run files say, and no id is found in two units.
Current == loaded.units = complete
FoundOnce ==
    \A u, v \in complete : u # v => DOMAIN First(u).entity \cap DOMAIN First(v).entity = {}

Joins(p, i) == \E e \in Sides(Said(p)) : Land(complete, Known(complete), p[1], e) = i

\* The graph with one more of its held links accepted, when its ends are nodes.
WithReleased(g, p) ==
    LET key == Key(complete, Known(complete), p) IN
    [g EXCEPT !.links = @ \cup
        {k \in {[type |-> key[1], source |-> key[2], target |-> key[3], held |-> FALSE]} :
            Ends(k) \subseteq Nodes(g)}]

\* The graph a load of what the run files say now would leave, accepted items only.
GraphNow == Shown([units |-> complete, rule |-> loaded.rule, held |-> FALSE], FALSE)

Proven(g, start, item) ==
    \E i \in AcceptedAt(LineUnit[item.line], Quoted(item).line) :
        /\ i \notin Visited(g, start)
        /\ \A p \in HeldLinks(loaded.rule) :
              Joins(p, i) => i \notin Visited(WithReleased(g, p), start)

\* The scoring explains the routing the graph holds (_committed()), whatever was extracted
\* since the load: an absence that passes is one the accepted items of the run files bear out.
AbsenceAlwaysProven ==
    loaded # None /\ FoundOnce =>
        LET g == GraphNow IN
        \A with_held \in Views :
            LET v == View(loaded, with_held) IN
            \A start \in Id, item \in Item :
                Verdict(v, start, {item}, TRUE) = "PASS" => Proven(g, start, item)

\* An absence passes only when it is proven: an entity accepted on the cited line, which the
\* walk does not reach, and would not reach if review released any one held link that names
\* it (AC-17 to AC-17d), over a graph that holds what the run files say, when no id is found
\* in two units.
AbsenceProven == loaded # None /\ Current => AbsenceAlwaysProven

\* "PASS" and "K of M expected items reached besides the start" never contradict each other
\* once the walk has a start.
CountsBearOut(v, start, items) ==
    start \in Nodes(v.clean) =>
        (Verdict(v, start, items, FALSE) = "PASS"
            <=> \A f \in BesidesStart(v, start, items) : f.reached)

\* Reading the held view never turns a verdict for the better, and changes no verdict of a
\* question with a trace list: held items are shown and prove nothing (spec 0005 AC-12).
\* In either view the counts printed beside a verdict bear it out (spec 0006 AC-10b).
HeldNeverLifts ==
    loaded # None =>
        LET plain == View(loaded, FALSE)
            cited == [line : Line, token : {None}]
        IN
        \A with_held \in Views :
            LET v == View(loaded, with_held) IN
            /\ \A l \in Line, item \in cited : CountsBearOut(v, StartAt(v, l), {item})
            /\ with_held =>
                /\ \A s \in Id, item \in cited :
                      Verdict(v, s, {item}, FALSE) = Verdict(plain, s, {item}, FALSE)
                /\ \A s \in Id, item \in Item :
                      Verdict(v, s, {item}, TRUE) \in {Verdict(plain, s, {item}, TRUE), "INCONCLUSIVE"}
                /\ \A l \in Line, item \in cited :
                      Verdict(v, StartAt(v, l), {item}, FALSE)
                          = Verdict(plain, StartAt(plain, l), {item}, FALSE)
=============================================================================
