------------------------------- MODULE Corpus -------------------------------
(***************************************************************************)
(* The corpus of units behind one load (pipeline.py, rebuild.py,           *)
(* resolve/endpoints.py): every fully extracted unit is routed, its        *)
(* accepted links are resolved against what the other units found, a link  *)
(* that waits on an entity still in review is held, and `load` writes the  *)
(* accepted graph and, asked to, the held view beside it.                  *)
(*                                                                         *)
(* How one unit is routed is module Routing; here a unit is its first run, *)
(* what routing accepts of it before and after a release rule (the code    *)
(* pass or the narrow hold) and the rows only later runs stand behind, with *)
(* what Routing proves of these as their type.                             *)
(***************************************************************************)
EXTENDS Slice, FiniteSetsExt

CONSTANTS
    Units,      \* how many units there are, in the order of record and section slug
    Record, RecordOf,   \* the records, and the one each unit is of
    KindOf,     \* the kind each unit's rows are counted under, by its section
    Id, IdRecord,       \* the canonical ids of entities, and the record each starts with
    Label, Mention, Line,
    Slot,       \* positions in a run's list of relationships
    Later,      \* how many rows only later runs stand behind
    Artifacts,  \* what the run files of each unit may say
    None        \* no value

Unit == 1 .. Units
\* An end is local, an id of its own output, or a reference: any of a record, an id
\* (qualified by that record) and a label, with the words it was made in.
End == [local : BOOLEAN, record : Record \cup {None}, id : Id \cup {None},
        label : Label \cup {None}, mention : Mention \cup {None}]
Entity == [label : Label \cup {None}, struck : BOOLEAN, line : Line \cup {None}]
Relationship == [type : LinkType, source : End, target : End]
Sides(k) == {k.source, k.target}
Rule == {"before", "after"}

IsFirst(o) ==
    /\ DOMAIN o.entity \subseteq Id /\ o.entity \in [DOMAIN o.entity -> Entity]
    /\ DOMAIN o.link \subseteq Slot /\ o.link \in [DOMAIN o.link -> Relationship]
    /\ \A s \in DOMAIN o.link : \A e \in Sides(o.link[s]) :
          IF e.local THEN e.id \in DOMAIN o.entity ELSE e.mention # None
\* Routing's EndsAccepted, and its OnlyReleases between the two rules.
IsRouted(o, r) ==
    /\ r.entities \subseteq DOMAIN o.entity /\ r.links \subseteq DOMAIN o.link
    /\ \A s \in r.links : \A e \in Sides(o.link[s]) : e.local => e.id \in r.entities
IsArtifact(a) ==
    /\ IsFirst(a.first) /\ a.later \in [entities : Later, links : Later]
    /\ IsRouted(a.first, a.before) /\ IsRouted(a.first, a.after)
    /\ a.before.entities \subseteq a.after.entities /\ a.before.links \subseteq a.after.links

ASSUME CorpusAssumption ==
    /\ Units \in Nat /\ RecordOf \in [Unit -> Record] /\ DOMAIN KindOf = Unit /\ IdRecord \in [Id -> Record]
    /\ Later \subseteq Nat
    /\ None \notin Id \cup Record \cup Label
    /\ \A u \in Unit : \A a \in Artifacts[u] : IsArtifact(a)
    /\ \A gap \in Record \X Mention : gap \notin Id \cup Record
    /\ Id \cap Record = {}
\* Every id, record and gap may be a node, and what one run found is finite.
ASSUME NodeAssumption == Id \cup Record \cup (Record \X Mention) \subseteq NodeId
ASSUME FiniteAssumption == IsFiniteSet(Id) /\ IsFiniteSet(Slot)

VARIABLES
    art,        \* what each unit's run files say once it is fully extracted
    complete,   \* the units that are; the others hold fewer runs than the policy asks for
    loaded      \* the last load: its units, its rule and whether it wrote the held view

vars == <<art, complete, loaded>>
-----------------------------------------------------------------------------
(* What a set R of units holds.                                            *)

First(u) == art[u].first
RoutedUnit(u, rule) == IF rule = "before" THEN art[u].before ELSE art[u].after

Known(R) == UNION {DOMAIN First(u).entity : u \in R}
Accepted(R, rule) == UNION {RoutedUnit(u, rule).entities : u \in R}
KnownRecords(R) == {RecordOf[u] : u \in R}

\* A link is the unit and the slot it was written in.
Written(R) == UNION {{u} \X DOMAIN First(u).link : u \in R}
Said(p) == First(p[1]).link[p[2]]
Routed(R, rule) == {p \in Written(R) : p[2] \in RoutedUnit(p[1], rule).links}

\* build_label_index(): the one unstruck entity of the record that carries the label.
Carriers(R, record, label) ==
    {i \in Known(R) : IdRecord[i] = record /\
        \E u \in R : i \in DOMAIN First(u).entity /\ First(u).entity[i].label = label
                     /\ ~First(u).entity[i].struck}
LabelMatch(R, record, label) ==
    LET ids == Carriers(R, record, label) IN
    IF Cardinality(ids) = 1 THEN CHOOSE i \in ids : TRUE ELSE None

\* The entity an end names, known or not.
Named(R, e) ==
    IF e.local THEN e.id
    ELSE IF e.record = None THEN None
    ELSE IF e.id # None THEN e.id
    ELSE IF e.label # None THEN LabelMatch(R, e.record, e.label) ELSE None

\* _waiting_on(): an end names an entity the corpus holds and review has not released.
Waits(R, rule, p) == \E e \in Sides(Said(p)) : Named(R, e) \in Known(R) \ Accepted(R, rule)
HeldAcross(R, rule) == {p \in Routed(R, rule) : Waits(R, rule, p)}
Resolved(R, rule) == Routed(R, rule) \ HeldAcross(R, rule)

\* Mutant of Gap: the gap is filed under the record the reference names.
GapOfNamed(u, e) == <<e.record, e.mention>>

\* unresolved_id(): a gap is of the record whose text made the reference.
Gap(u, e) == <<RecordOf[u], e.mention>>

\* Mutant of NamesRecord: any record may be named, loaded or not.
NamesAnyRecord(R, e) == ~e.local /\ e.id = None /\ e.label = None /\ e.record # None

NamesRecord(R, e) == ~e.local /\ e.id = None /\ e.label = None /\ e.record \in KnownRecords(R)

\* Mutant of Land: a label is looked up among the entities that may be named.
LandAmong(R, ids, u, e) ==
    LET carriers == IF e.label = None THEN {} ELSE Carriers(R, e.record, e.label) \cap ids
    IN  IF e.local THEN e.id
        ELSE IF e.id # None /\ Named(R, e) \in ids THEN Named(R, e)
        ELSE IF e.id = None /\ Cardinality(carriers) = 1 THEN CHOOSE i \in carriers : TRUE
        ELSE IF NamesRecord(R, e) THEN e.record ELSE Gap(u, e)

\* _resolve_one(), ids being the entities that may be named.
Land(R, ids, u, e) ==
    IF e.local \/ Named(R, e) \in ids THEN Named(R, e)
    ELSE IF NamesRecord(R, e) THEN e.record ELSE Gap(u, e)
Key(R, ids, p) == <<Said(p).type, Land(R, ids, p[1], Said(p).source), Land(R, ids, p[1], Said(p).target)>>

\* The write is a MERGE on the key, so links with one key are one relationship.
LinkKeys(R, rule) == {Key(R, Accepted(R, rule), p) : p \in Resolved(R, rule)}
KeyEnds(keys) == {key[2] : key \in keys} \cup {key[3] : key \in keys}
Gaps(keys) == KeyEnds(keys) \cap (Record \X Mention)
-----------------------------------------------------------------------------
(* build_held_view(): what review still holds, resolved over every id.     *)

HeldIds(R, rule) == Known(R) \ Accepted(R, rule)
HeldPairs(R, rule) == HeldAcross(R, rule) \cup (Written(R) \ Routed(R, rule))

\* Mutant of HeldKeys: a held copy of an accepted relationship is written too.
HeldKeysAll(R, rule) == {Key(R, Known(R), p) : p \in HeldPairs(R, rule)}

HeldKeys(R, rule) == {Key(R, Known(R), p) : p \in HeldPairs(R, rule)} \ LinkKeys(R, rule)
HeldGaps(R, rule) == Gaps(HeldKeys(R, rule)) \ Gaps(LinkKeys(R, rule))

HeldEntities(u, rule) == DOMAIN First(u).entity \ RoutedUnit(u, rule).entities
SkippedEntities(R, u, rule) ==
    {i \in HeldEntities(u, rule) :
        i \in Accepted(R, rule) \/ \E v \in R : v < u /\ i \in HeldEntities(v, rule)}
HeldInside(u, rule) == DOMAIN First(u).link \ RoutedUnit(u, rule).links
LaterLinks(u) == art[u].later.links
LaterEntities(u) == art[u].later.entities

\* HeldView.counts(): written, skipped for what the graph holds already, not written for
\* want of a first run item.
HeldCounts(R, rule) ==
    [entities |-> Cardinality(HeldIds(R, rule)), links |-> Cardinality(HeldKeys(R, rule)),
     unresolved |-> Cardinality(HeldGaps(R, rule)),
     skipped_entities |-> SumFunction([u \in R |-> Cardinality(SkippedEntities(R, u, rule))]),
     skipped_links |-> Cardinality(HeldPairs(R, rule)) - Cardinality(HeldKeys(R, rule)),
     not_written |-> SumFunction([u \in R |-> LaterEntities(u) + LaterLinks(u)])]

\* graph_build(): one unit's counts in the manifest.
UnitCounts(R, rule, u) ==
    [accepted_entities |-> Cardinality(RoutedUnit(u, rule).entities),
     accepted_links |-> Cardinality({p \in Resolved(R, rule) : p[1] = u}),
     held_links |-> Cardinality(HeldInside(u, rule)) + LaterLinks(u)
                      + Cardinality({p \in HeldAcross(R, rule) : p[1] = u})]

\* held_items(): the rows one unit puts in the review queue, review_rows() of them all.
QueueRows(R, rule, u) ==
    Cardinality(HeldEntities(u, rule)) + Cardinality(HeldInside(u, rule))
    + LaterEntities(u) + LaterLinks(u) + Cardinality({p \in HeldAcross(R, rule) : p[1] = u})

\* unit_holds(): one unit's accepted entities and held rows, entity and link; kind_holds()
\* of the units of one kind, as the ratio of accepted to held is printed.
UnitHold(R, rule, u) ==
    [accepted_entities |-> Cardinality(RoutedUnit(u, rule).entities),
     held_entities |-> Cardinality(HeldEntities(u, rule)) + LaterEntities(u),
     held_links |-> Cardinality(HeldInside(u, rule)) + LaterLinks(u)
                      + Cardinality({p \in HeldAcross(R, rule) : p[1] = u})]
KindHold(R, rule, kind) ==
    LET holds == [u \in {v \in R : KindOf[v] = kind} |-> UnitHold(R, rule, u)]
        sum(field) == SumFunction([u \in DOMAIN holds |-> holds[u][field]])
    IN  [accepted_entities |-> sum("accepted_entities"), held_entities |-> sum("held_entities"),
         held_links |-> sum("held_links")]
HeldRows(count) == count.held_entities + count.held_links
-----------------------------------------------------------------------------
(* What the second rule released, as `load` prints and stamps it.          *)

\* released_links() and the links of narrow_hold_tally().
ReleasedLinks(R) == Resolved(R, "after") \ Resolved(R, "before")

\* Mutant of TallyLinks: a link its unit released and another unit still holds is counted.
TallyLinksAnyway(R) ==
    LET inside == Routed(R, "after") \ Routed(R, "before")
        across == HeldAcross(R, "before") \ HeldAcross(R, "after")
    IN  Cardinality(inside) + Cardinality(across)

\* narrow_hold_tally(): released inside a unit and not still held across units, or held
\* across units before and no longer.
TallyLinks(R) ==
    LET inside == (Routed(R, "after") \ Routed(R, "before")) \ HeldAcross(R, "after")
        across == HeldAcross(R, "before") \ HeldAcross(R, "after")
    IN  Cardinality(inside) + Cardinality(across)
TallyEntities(R) ==
    SumFunction([u \in R |-> Cardinality(art[u].after.entities \ art[u].before.entities)])

\* narrow_link_keys(): the relationships stamped with the rule's name.
StampedKeys(R) == {Key(R, Accepted(R, "after"), p) : p \in ReleasedLinks(R)} \ LinkKeys(R, "before")

\* regressions(): what was accepted without the rule and is not with it.
LostLinks(R) ==
    {p \in Resolved(R, "before") :
        \/ p \notin Resolved(R, "after")
        \/ Key(R, Accepted(R, "after"), p) # Key(R, Accepted(R, "before"), p)}
LostEntities(R) == UNION {art[u].before.entities \ art[u].after.entities : u \in R}
-----------------------------------------------------------------------------
(* load(): the graph it leaves.                                            *)

\* An id several units accept is one node, and its properties are the last unit's; a held
\* one is written once, from the first unit that holds it.
Writer(R, rule, i) ==
    IF i \in Accepted(R, rule) THEN Max({u \in R : i \in RoutedUnit(u, rule).entities})
    ELSE Min({u \in R : i \in DOMAIN First(u).entity})
FileLine(R, rule, i) == First(Writer(R, rule, i)).entity[i].line

\* The reference a gap was first made by, whose record the gap carries.
GapRecord(R, ids, pairs, gap) ==
    LET made == {m \in pairs \X End :
                    m[2] \in Sides(Said(m[1])) /\ Land(R, ids, m[1][1], m[2]) = gap}
    IN  (CHOOSE m \in made : \A n \in made :
            \/ m[1][1] < n[1][1]
            \/ m[1][1] = n[1][1] /\ m[1][2] < n[1][2]
            \/ m[1] = n[1] /\ (m[2] = n[2] \/ m[2] = Said(m[1]).source))[2].record

LoadedGraph(R, rule, with_held) ==
    LET accepted == Accepted(R, rule)
        keys == LinkKeys(R, rule)
        heldIds == IF with_held THEN HeldIds(R, rule) ELSE {}
        heldKeys == IF with_held THEN HeldKeys(R, rule) ELSE {}
        heldGaps == IF with_held THEN HeldGaps(R, rule) ELSE {}
        entities == accepted \cup heldIds
        link(key, held) == [type |-> key[1], source |-> key[2], target |-> key[3], held |-> held]
    IN  [node |-> [n \in KnownRecords(R) \cup entities \cup Gaps(keys) \cup heldGaps |->
                    [kind |-> IF n \in entities THEN "Entity"
                              ELSE IF n \in Record THEN "Record" ELSE "Unresolved",
                     held |-> n \in heldIds \cup heldGaps,
                     struck |-> n \in entities /\ First(Writer(R, rule, n)).entity[n].struck]],
         links |-> {link(key, FALSE) : key \in keys} \cup {link(key, TRUE) : key \in heldKeys}]

Init ==
    /\ art \in [Unit -> UNION {Artifacts[u] : u \in Unit}]
    /\ \A u \in Unit : art[u] \in Artifacts[u]
    /\ complete \in SUBSET Unit
    /\ loaded = None

\* `extract --resume` gives a unit the runs it lacked.
Extract(u) ==
    /\ u \notin complete
    /\ complete' = complete \cup {u}
    /\ UNCHANGED <<art, loaded>>

Load(rule, with_held) ==
    /\ loaded' = [units |-> complete, rule |-> rule, held |-> with_held]
    /\ UNCHANGED <<art, complete>>

Next ==
    \/ \E u \in Unit : Extract(u)
    \/ \E rule \in Rule, with_held \in BOOLEAN : Load(rule, with_held)

Spec == Init /\ [][Next]_vars
-----------------------------------------------------------------------------
(* Properties, of the corpus as the next load would read it.               *)

TypeOK ==
    /\ \A u \in Unit : IsArtifact(art[u])
    /\ complete \subseteq Unit
    /\ loaded = None \/ loaded \in [units : SUBSET Unit, rule : Rule, held : BOOLEAN]
    /\ loaded # None => IsGraph(LoadedGraph(loaded.units, loaded.rule, loaded.held))

EndsAreNodes ==
    \A rule \in Rule :
        LET accepted == KnownRecords(complete) \cup Accepted(complete, rule) \cup Gaps(LinkKeys(complete, rule))
        IN  /\ KeyEnds(LinkKeys(complete, rule)) \subseteq accepted
            /\ KeyEnds(HeldKeys(complete, rule)) \subseteq
                  accepted \cup HeldIds(complete, rule) \cup HeldGaps(complete, rule)
GapsAreUnknown ==
    \A rule \in Rule : \A p \in Resolved(complete, rule) : \A e \in Sides(Said(p)) :
        Land(complete, Accepted(complete, rule), p[1], e) \in Record \X Mention =>
            Named(complete, e) \notin Known(complete)

\* Both ends of every link row have a node by the time it is written: an accepted one never
\* waits for a held node (a row that lacks one is what stopped the first full load with
\* "asked to write 7 but the database wrote 2", AC-11c); and no gap stands for an entity the
\* corpus holds, in the graph or in review (AC-10).
LinksLand == EndsAreNodes /\ GapsAreUnknown

\* With the held view nothing of a first run is lost and nothing stands twice: each of its
\* entities and links is in the graph, accepted or held and never both, and the manifest's
\* counts of a unit and its queue rows account for each item once, as do the rows the hold
\* ratio counts by kind (spec 0008 AC-7).
EverythingStandsOnce ==
    \A rule \in Rule :
        LET g == LoadedGraph(complete, rule, TRUE)
            key(k) == <<k.type, k.source, k.target>>
        IN  /\ Known(complete) \subseteq Nodes(g)
            /\ \A p \in Written(complete) :
                  \E k \in g.links : key(k) = Key(complete, Known(complete), p)
            /\ \A j, k \in g.links : key(j) = key(k) => j = k
            /\ \A u \in complete :
                  LET c == UnitCounts(complete, rule, u) IN
                  /\ c.accepted_links + c.held_links = Cardinality(DOMAIN First(u).link) + LaterLinks(u)
                  /\ QueueRows(complete, rule, u) + c.accepted_links + c.accepted_entities
                      = Cardinality(DOMAIN First(u).link) + Cardinality(DOMAIN First(u).entity)
                        + LaterLinks(u) + LaterEntities(u)
            /\ LET c == HeldCounts(complete, rule) IN
               c.entities + c.skipped_entities
                  = SumFunction([u \in complete |-> Cardinality(HeldEntities(u, rule))])
            /\ SumFunction([kind \in {KindOf[u] : u \in complete} |-> HeldRows(KindHold(complete, rule, kind))])
                  = SumFunction([u \in complete |-> QueueRows(complete, rule, u)])

ReleaseMovesNothing == LostEntities(complete) = {} /\ LostLinks(complete) = {}
TallyIsTheGain ==
    LET entities(rule) == SumFunction([u \in complete |-> Cardinality(RoutedUnit(u, rule).entities)])
    IN  /\ TallyLinks(complete) = Cardinality(Resolved(complete, "after")) - Cardinality(Resolved(complete, "before"))
        /\ TallyEntities(complete) = entities("after") - entities("before")
        /\ StampedKeys(complete) = LinkKeys(complete, "after") \ LinkKeys(complete, "before")

\* A release only adds: what is accepted without the rule is accepted with it and every
\* link still lands where it did, so no relationship moves from one item to another because
\* a third was released (AC-19b, spec 0008 AC-2); and what `load --narrow-hold` prints and
\* stamps as released is what the graph gained, though links are released inside units and
\* across them (spec 0008 AC-3b, AC-5).
ReleaseIsTheGain == ReleaseMovesNothing /\ TallyIsTheGain
=============================================================================
