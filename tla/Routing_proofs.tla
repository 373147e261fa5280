--------------------------- MODULE Routing_proofs ---------------------------
(***************************************************************************)
(* Theorems about Routing and Ids, for any number of runs over any         *)
(* outputs, any flags and any bullets.  Each safety property of the routed *)
(* unit follows from one invariant: the unit is always what route_runs()   *)
(* makes of the same runs under the settings of the moment.  The rest is   *)
(* what the reasons of an item say, what a setting changes, and which rows *)
(* of the queue an item and a difference between the runs have.            *)
(*                                                                         *)
(* Then the ids: the number of an item is a rank among those that keep no  *)
(* verbatim id, so ids are apart and what assign_ids() makes is an output  *)
(* routing takes.  Two lists of the same things are a one-to-one map of    *)
(* their positions, which carries over who keeps an id, the binding rule   *)
(* labels, every signature and its count.                                  *)
(***************************************************************************)
EXTENDS Ids, FiniteSetTheorems, FunctionTheorems, NaturalsInduction, TLAPS

\* The ids the code pass may release under the settings of the moment.
Decided == IF set.code THEN CodeDecided(runs, bullets) ELSE {}

\* Nothing is carried over from an earlier routing.
RoutedInv ==
    /\ runs \in [Run -> Outputs]
    /\ set \in [code : BOOLEAN, narrow : BOOLEAN]
    /\ routed = RouteRuns(runs, Decided, set.narrow)

\* Every setting routes the same runs afresh (rebuild.py: apply_code_pass(),
\* apply_narrow_hold()).
THEOREM RoutedAfresh == Spec => []RoutedInv
<1>1. Init => RoutedInv
    BY DEF Init, RoutedInv, Decided
<1>2. RoutedInv /\ [Next]_vars => RoutedInv'
    <2> SUFFICES ASSUME RoutedInv, [Next]_vars PROVE RoutedInv'
        OBVIOUS
    <2> USE DEF RoutedInv
    <2>1. CASE ApplyCodePass
        BY <2>1 DEF ApplyCodePass, Decided
    <2>2. CASE ApplyNarrowHold
        BY <2>2 DEF ApplyNarrowHold, Decided
    <2>3. CASE UNCHANGED vars
        BY <2>3 DEF vars, Decided
    <2> QED
        BY <2>1, <2>2, <2>3 DEF Next
<1> QED
    BY <1>1, <1>2, PTL DEF Spec

-----------------------------------------------------------------------------
(* What the reasons of an item say, and what each rule lets through.       *)

\* Each reason of an entity says one thing of it.
LEMMA EntityReasonNames ==
    ASSUME NEW rs, NEW i
    PROVE  /\ Reason("runs_disagree") \in EntityReasons(rs, i)
                <=> ~EntityShared(rs, EntitySignature(rs[1], i))
           /\ Reason("known_trap_flag") \in EntityReasons(rs, i)
                <=> rs[1].entity[i].flags # {}
           /\ Reason("unclassified_type") \in EntityReasons(rs, i)
                <=> rs[1].entity[i].type = "UNCLASSIFIED"
           /\ Reason("span_not_located") \in EntityReasons(rs, i)
                <=> EntitySignature(rs[1], i).identity = COLLAPSED
    BY DEF EntityReasons, Reason

\* Each reason of a link says one thing of it.
LEMMA LinkReasonNames ==
    ASSUME NEW rs, NEW s, NEW accepted
    PROVE  /\ Reason("runs_disagree") \in LinkReasons(rs, s, accepted)
                <=> ~LinkShared(rs, LinkSignature(rs[1], s))
           /\ \A i : Waiting(i) \in LinkReasons(rs, s, accepted)
                <=> i \in (LocalEnds(rs[1].link[s]) \cap Entities(rs[1])) \ accepted
    BY DEF LinkReasons, Reason, Waiting

\* What the narrow hold rule may release has none of the reasons of a dispute.
LEMMA NarrowNames ==
    ASSUME NEW reasons, NarrowReleasable(reasons)
    PROVE  /\ Reason("runs_disagree") \notin reasons
           /\ Reason("unclassified_type") \notin reasons
           /\ Reason("span_not_located") \notin reasons
    BY DEF NarrowReleasable, NARROW_REASONS, Reason

\* An accepted entity has none of the reasons of a dispute, whichever rule let it in.
LEMMA AcceptedEntityReasons ==
    ASSUME NEW rs, NEW decided, NEW narrow,
           NEW i \in RouteRuns(rs, decided, narrow).entities
    PROVE  /\ i \in Entities(rs[1])
           /\ Reason("runs_disagree") \notin EntityReasons(rs, i)
           /\ Reason("unclassified_type") \notin EntityReasons(rs, i)
           /\ Reason("span_not_located") \notin EntityReasons(rs, i)
<1>1. i \in Plain(rs) \cup Released(rs, decided) \cup NarrowEntities(rs, decided, narrow)
    BY DEF RouteRuns
<1>2. CASE i \in Plain(rs)
    BY <1>2 DEF Plain
<1>3. CASE i \in Released(rs, decided)
    BY <1>3 DEF Released, Reason
<1>4. CASE i \in NarrowEntities(rs, decided, narrow)
    BY <1>4, NarrowNames DEF NarrowEntities
<1> QED
    BY <1>1, <1>2, <1>3, <1>4

\* An accepted link was released by the narrow hold rule or has no reason left.
LEMMA AcceptedLinkReasons ==
    ASSUME NEW rs, NEW decided, NEW narrow,
           NEW s \in RouteRuns(rs, decided, narrow).links
    PROVE  LET before == Plain(rs) \cup Released(rs, decided)
               accepted == RouteRuns(rs, decided, narrow).entities
           IN  /\ s \in Links(rs[1])
               /\ \/ s \in NarrowLinks(rs, before, accepted, narrow)
                  \/ HeldReasons(rs, s, before, accepted) = {}
    BY DEF RouteRuns

-----------------------------------------------------------------------------

\* No setting ever accepts an item whose runs disagree on its count, an unclassified
\* entity, or a derived one with no located line, from any outputs (AC-11b, AC-11d,
\* spec 0008 AC-1b and AC-1c).
THEOREM DisputesAreHeld == Spec => []NothingDisputedAccepted
<1>1. RoutedInv => NothingDisputedAccepted
    <2> SUFFICES ASSUME RoutedInv PROVE NothingDisputedAccepted
        OBVIOUS
    <2> DEFINE before == Plain(runs) \cup Released(runs, Decided)
    <2>0. routed = RouteRuns(runs, Decided, set.narrow)
        BY DEF RoutedInv
    <2>1. ASSUME NEW i \in routed.entities PROVE ~DisputedEntity(i)
        <3>1. /\ EntityShared(runs, EntitySignature(runs[1], i))
              /\ runs[1].entity[i].type # "UNCLASSIFIED"
              /\ EntitySignature(runs[1], i).identity # COLLAPSED
            BY <2>0, AcceptedEntityReasons, EntityReasonNames
        <3> QED
            BY <3>1 DEF DisputedEntity, EntityShared, EntitySignature
    <2>2. ASSUME NEW s \in routed.links PROVE ~DisputedLink(s)
        <3>1. \/ s \in NarrowLinks(runs, before, routed.entities, set.narrow)
              \/ HeldReasons(runs, s, before, routed.entities) = {}
            BY <2>0, AcceptedLinkReasons
        <3>2. \E accepted : Reason("runs_disagree") \notin LinkReasons(runs, s, accepted)
            BY <3>1, NarrowNames DEF NarrowLinks, HeldReasons
        <3>3. LinkShared(runs, LinkSignature(runs[1], s))
            BY <3>2, LinkReasonNames
        <3> QED
            BY <3>3 DEF DisputedLink, LinkShared
    <2> QED
        BY <2>1, <2>2 DEF NothingDisputedAccepted
<1> QED
    BY <1>1, RoutedAfresh, PTL

\* No accepted link has a local end that is not accepted with it, whichever rule released
\* either of them (AC-11c, spec 0008 AC-2).
THEOREM LinksHaveEnds == Spec => []EndsAccepted
<1>1. RoutedInv => EndsAccepted
    <2> SUFFICES ASSUME RoutedInv, NEW s \in routed.links
                 PROVE  LocalEnds(runs[1].link[s]) \subseteq routed.entities
        BY DEF EndsAccepted
    <2> DEFINE before == Plain(runs) \cup Released(runs, Decided)
               ends == LocalEnds(runs[1].link[s])
    <2>0. routed = RouteRuns(runs, Decided, set.narrow)
        BY DEF RoutedInv
    <2>1. /\ s \in Links(runs[1])
          /\ \/ s \in NarrowLinks(runs, before, routed.entities, set.narrow)
             \/ HeldReasons(runs, s, before, routed.entities) = {}
        BY <2>0, AcceptedLinkReasons
    <2>2. ends \subseteq Entities(runs[1]) \cap Id
        <3>1. 1 \in Run
            BY RunsAssumption DEF Run
        <3>2. Identified(runs[1])
            BY <3>1, OutputAssumption DEF RoutedInv
        <3> QED
            BY <3>2, <2>1 DEF Identified, LocalEnds
    <2>3. before \subseteq routed.entities
        BY <2>0 DEF RouteRuns
    <2>4. CASE s \in NarrowLinks(runs, before, routed.entities, set.narrow)
        <3> SUFFICES ASSUME NEW i \in ends, i \notin before PROVE i \in routed.entities
            BY <2>3
        <3>1. Waiting(i) \in LinkReasons(runs, s, before)
            BY <2>2, LinkReasonNames
        <3> QED
            BY <3>1, <2>2, <2>4 DEF NarrowLinks
    <2>5. CASE HeldReasons(runs, s, before, routed.entities) = {}
        BY <2>2, <2>5, LinkReasonNames DEF HeldReasons
    <2> QED
        BY <2>1, <2>4, <2>5
<1> QED
    BY <1>1, RoutedAfresh, PTL

\* With the narrow hold rule, an entity is accepted exactly when nothing disputes it, and a
\* link exactly when nothing disputes it and both its local ends are accepted: the rule
\* needs no second pass, and the code pass changes who released an item, never whether.
THEOREM NarrowSettles == Spec => []NarrowIsComplete
<1>1. RoutedInv /\ NothingDisputedAccepted /\ EndsAccepted => NarrowIsComplete
    <2> SUFFICES ASSUME RoutedInv, NothingDisputedAccepted, EndsAccepted, set.narrow
                 PROVE  /\ routed.entities = {i \in Entities(runs[1]) : ~DisputedEntity(i)}
                        /\ routed.links = {s \in Links(runs[1]) :
                              /\ ~DisputedLink(s)
                              /\ LocalEnds(runs[1].link[s]) \subseteq routed.entities}
        BY DEF NarrowIsComplete
    <2> DEFINE released == Released(runs, Decided)
               before == Plain(runs) \cup released
    <2>0. routed = RouteRuns(runs, Decided, set.narrow)
        BY DEF RoutedInv
    <2>1. /\ routed.entities \subseteq Entities(runs[1])
          /\ before \subseteq routed.entities
          /\ NarrowEntities(runs, Decided, set.narrow) \subseteq routed.entities
        BY <2>0 DEF RouteRuns, Plain, Released, NarrowEntities
    <2>2. ASSUME NEW i \in Entities(runs[1]), ~DisputedEntity(i) PROVE i \in routed.entities
        <3>1. EntityReasons(runs, i) \subseteq {Reason("known_trap_flag")}
            BY <2>2 DEF EntityReasons, DisputedEntity, EntityShared, EntitySignature, Reason
        <3>2. CASE EntityReasons(runs, i) = {}
            BY <3>2, <2>1 DEF Plain
        <3>3. CASE EntityReasons(runs, i) # {}
            <4>1. NarrowReleasable(EntityReasons(runs, i))
                BY <3>1, <3>3 DEF NarrowReleasable, NARROW_REASONS, Reason
            <4> QED
                BY <4>1, <2>1 DEF NarrowEntities
        <3> QED
            BY <3>2, <3>3
    <2>3. ASSUME NEW s \in Links(runs[1]), ~DisputedLink(s),
                 LocalEnds(runs[1].link[s]) \subseteq routed.entities
          PROVE  s \in routed.links
        <3>1. LinkShared(runs, LinkSignature(runs[1], s))
            BY <2>3 DEF DisputedLink, LinkShared
        <3>2. \A r \in LinkReasons(runs, s, before) : r[1] \in NARROW_REASONS
            BY <3>1 DEF LinkReasons, Reason, Waiting, NARROW_REASONS
        <3>3. CASE LinkReasons(runs, s, before) = {}
            <4>1. HeldReasons(runs, s, before, routed.entities) = {}
                BY <3>3, <2>1 DEF HeldReasons, LinkReasons
            <4> QED
                BY <4>1, <2>0 DEF RouteRuns
        <3>4. CASE LinkReasons(runs, s, before) # {}
            <4>1. NarrowReleasable(LinkReasons(runs, s, before))
                BY <3>2, <3>4 DEF NarrowReleasable
            <4>2. \A i \in Id : Waiting(i) \in LinkReasons(runs, s, before) => i \in routed.entities
                BY <2>3, LinkReasonNames
            <4>3. s \in NarrowLinks(runs, before, routed.entities, set.narrow)
                BY <4>1, <4>2 DEF NarrowLinks
            <4> QED
                BY <4>3, <2>0 DEF RouteRuns
        <3> QED
            BY <3>3, <3>4
    <2>4. routed.links \subseteq Links(runs[1])
        BY <2>0 DEF RouteRuns
    <2> QED
        BY <2>1, <2>2, <2>3, <2>4 DEF NothingDisputedAccepted, EndsAccepted
<1> QED
    BY <1>1, RoutedAfresh, DisputesAreHeld, LinksHaveEnds, PTL

-----------------------------------------------------------------------------
(* What one setting changes: the unit routed without the narrow hold rule  *)
(* against the unit routed with more decided ids, with the rule or without.*)

\* More decided ids release more.
LEMMA MoreReleased ==
    ASSUME NEW rs, NEW fewer, NEW more, fewer \subseteq more
    PROVE  Released(rs, fewer) \subseteq Released(rs, more)
    BY DEF Released

\* More decided ids, or the rule, accept more entities.
LEMMA MoreAccepted ==
    ASSUME NEW rs, NEW fewer, NEW more, fewer \subseteq more, NEW narrow
    PROVE  RouteRuns(rs, fewer, FALSE).entities \subseteq RouteRuns(rs, more, narrow).entities
    BY MoreReleased DEF RouteRuns, NarrowEntities

\* More accepted entities leave a link fewer reasons.
LEMMA ReasonsShrink ==
    ASSUME NEW rs, NEW s, NEW fewer, NEW more, fewer \subseteq more
    PROVE  LinkReasons(rs, s, more) \subseteq LinkReasons(rs, s, fewer)
    BY DEF LinkReasons

\* The links the routing holds: those it did not release that have a reason left.
Held(rs, decided, narrow) ==
    LET before == Plain(rs) \cup Released(rs, decided)
        accepted == RouteRuns(rs, decided, narrow).entities
    IN  {s \in Links(rs[1]) \ NarrowLinks(rs, before, accepted, narrow) :
            HeldReasons(rs, s, before, accepted) # {}}

\* The routed unit, field by field.
LEMMA RouteRunsFields ==
    ASSUME NEW rs, NEW decided, NEW narrow
    PROVE  LET r == RouteRuns(rs, decided, narrow)
               before == Plain(rs) \cup Released(rs, decided)
               rows == EntityRows(rs, r.entities)
                       \cup LinkRows(rs, Held(rs, decided, narrow), before, r.entities)
           IN  /\ r.links = Links(rs[1]) \ Held(rs, decided, narrow)
               /\ r.released = Released(rs, decided)
               /\ r.review = rows \cup Leftovers(rs, rows)
    BY DEF RouteRuns, Held

\* More decided ids, or the rule, hold fewer links, each for fewer reasons.
LEMMA FewerHeld ==
    ASSUME NEW rs, NEW fewer, NEW more, fewer \subseteq more, NEW narrow
    PROVE  /\ Held(rs, more, narrow) \subseteq Held(rs, fewer, FALSE)
           /\ \A s : HeldReasons(rs, s, Plain(rs) \cup Released(rs, more),
                                RouteRuns(rs, more, narrow).entities)
                    \subseteq HeldReasons(rs, s, Plain(rs) \cup Released(rs, fewer),
                                         RouteRuns(rs, fewer, FALSE).entities)
<1> DEFINE A == RouteRuns(rs, fewer, FALSE).entities
           B == RouteRuns(rs, more, narrow).entities
<1>1. A \subseteq B
    BY MoreAccepted
<1>2. \A s : LinkReasons(rs, s, B) \subseteq LinkReasons(rs, s, A)
    BY <1>1, ReasonsShrink
<1>3. \A before : NarrowLinks(rs, before, A, FALSE) = {}
    BY DEF NarrowLinks
<1> QED
    BY <1>2, <1>3 DEF Held, HeldReasons

\* More decided ids, or the rule, add no row to the queue and no reason to a row.
LEMMA NoRowAdded ==
    ASSUME NEW rs, NEW fewer, NEW more, fewer \subseteq more, NEW narrow
    PROVE  RowsShrink(RouteRuns(rs, fewer, FALSE).review, RouteRuns(rs, more, narrow).review)
<1> SUFFICES ASSUME NEW row \in RouteRuns(rs, more, narrow).review
             PROVE  \E old \in RouteRuns(rs, fewer, FALSE).review :
                       /\ old.of = row.of /\ old.item = row.item /\ old.sig = row.sig
                       /\ row.reasons \subseteq old.reasons
    BY DEF RowsShrink
<1> DEFINE A == RouteRuns(rs, fewer, FALSE).entities
           B == RouteRuns(rs, more, narrow).entities
           beforeA == Plain(rs) \cup Released(rs, fewer)
           beforeB == Plain(rs) \cup Released(rs, more)
           heldA == Held(rs, fewer, FALSE)
           heldB == Held(rs, more, narrow)
           rowsA == EntityRows(rs, A) \cup LinkRows(rs, heldA, beforeA, A)
           rowsB == EntityRows(rs, B) \cup LinkRows(rs, heldB, beforeB, B)
<1>1. /\ RouteRuns(rs, fewer, FALSE).review = rowsA \cup Leftovers(rs, rowsA)
      /\ RouteRuns(rs, more, narrow).review = rowsB \cup Leftovers(rs, rowsB)
    BY RouteRunsFields
<1>2. /\ A \subseteq B /\ heldB \subseteq heldA
      /\ \A s : HeldReasons(rs, s, beforeB, B) \subseteq HeldReasons(rs, s, beforeA, A)
    BY MoreAccepted, FewerHeld
<1> HIDE DEF A, B, beforeA, beforeB, heldA, heldB
<1>3. CASE row \in EntityRows(rs, B)
    <2>1. row \in EntityRows(rs, A)
        BY <1>2, <1>3 DEF EntityRows
    <2> QED
        BY <2>1, <1>1
<1>4. CASE row \in LinkRows(rs, heldB, beforeB, B)
    <2>1. PICK s \in heldB : row = [of |-> "link", item |-> s, sig |-> LinkSignature(rs[1], s),
                                    reasons |-> HeldReasons(rs, s, beforeB, B)]
        BY <1>4 DEF LinkRows
    <2> DEFINE was == [of |-> "link", item |-> s, sig |-> LinkSignature(rs[1], s),
                       reasons |-> HeldReasons(rs, s, beforeA, A)]
    <2>2. was \in rowsA
        BY <1>2, <2>1 DEF LinkRows
    <2>3. /\ was.of = row.of /\ was.item = row.item /\ was.sig = row.sig
          /\ row.reasons = HeldReasons(rs, s, beforeB, B)
          /\ was.reasons = HeldReasons(rs, s, beforeA, A)
        BY <2>1
    <2>4. row.reasons \subseteq was.reasons
        BY <2>3, <1>2
    <2> HIDE DEF was
    <2> QED
        BY <2>2, <2>3, <2>4, <1>1
<1>5. CASE row \in Leftovers(rs, rowsB)
    <2>1. ASSUME NEW d \in DifferingEntities(rs), Seen(rowsA, "entity", d)
          PROVE  Seen(rowsB, "entity", d)
        <3>1. PICK i \in Entities(rs[1]) : EntitySignature(rs[1], i) = d
            BY <2>1 DEF Seen, EntityRows, LinkRows
        <3>2. Reason("runs_disagree") \in EntityReasons(rs, i)
            BY <3>1, EntityReasonNames DEF DifferingEntities
        <3>3. i \notin B
            BY <3>2, AcceptedEntityReasons DEF B
        <3> DEFINE own == [of |-> "entity", item |-> i, sig |-> EntitySignature(rs[1], i),
                           reasons |-> EntityReasons(rs, i)]
        <3>4. own \in EntityRows(rs, B) /\ own.of = "entity" /\ own.sig = d
            BY <3>1, <3>3 DEF EntityRows
        <3> QED
            BY <3>4 DEF Seen
    <2>2. ASSUME NEW d \in DifferingLinks(rs), Seen(rowsA, "link", d)
          PROVE  Seen(rowsB, "link", d)
        <3>1. PICK s \in heldA : LinkSignature(rs[1], s) = d
            BY <2>2 DEF Seen, EntityRows, LinkRows
        <3>2. \A accepted : Reason("runs_disagree") \in LinkReasons(rs, s, accepted)
            BY <3>1, LinkReasonNames DEF DifferingLinks
        <3>3. s \in heldB
            <4>1. s \in Links(rs[1])
                BY DEF heldA, Held
            <4>2. s \notin NarrowLinks(rs, beforeB, B, narrow)
                BY <3>2, NarrowNames DEF NarrowLinks
            <4> QED
                BY <3>2, <4>1, <4>2 DEF heldB, Held, HeldReasons, beforeB, B
        <3> DEFINE own == [of |-> "link", item |-> s, sig |-> LinkSignature(rs[1], s),
                           reasons |-> HeldReasons(rs, s, beforeB, B)]
        <3>4. own \in LinkRows(rs, heldB, beforeB, B) /\ own.of = "link" /\ own.sig = d
            BY <3>1, <3>3 DEF LinkRows
        <3> QED
            BY <3>4 DEF Seen
    <2>3. row \in Leftovers(rs, rowsA)
        BY <2>1, <2>2, <1>5 DEF Leftovers
    <2> QED
        BY <2>3, <1>1
<1> QED
    BY <1>1, <1>3, <1>4, <1>5

\* More decided ids, or the rule, only release.
LEMMA OneSettingReleases ==
    ASSUME NEW rs, NEW fewer, NEW more, fewer \subseteq more, NEW narrow
    PROVE  OnlyReleased(RouteRuns(rs, fewer, FALSE), RouteRuns(rs, more, narrow))
<1> DEFINE was == RouteRuns(rs, fewer, FALSE)
           now == RouteRuns(rs, more, narrow)
<1>1. was.entities \subseteq now.entities
    BY MoreAccepted
<1>2. was.released \subseteq now.released
    <2>1. was.released = Released(rs, fewer) /\ now.released = Released(rs, more)
        BY RouteRunsFields
    <2>2. Released(rs, fewer) \subseteq Released(rs, more)
        BY MoreReleased
    <2> QED
        BY <2>1, <2>2
<1>3. was.links \subseteq now.links
    <2>1. /\ was.links = Links(rs[1]) \ Held(rs, fewer, FALSE)
          /\ now.links = Links(rs[1]) \ Held(rs, more, narrow)
        BY RouteRunsFields
    <2>2. Held(rs, more, narrow) \subseteq Held(rs, fewer, FALSE)
        BY FewerHeld
    <2> QED
        BY <2>1, <2>2
<1>4. RowsShrink(was.review, now.review)
    BY NoRowAdded
<1> QED
    BY <1>1, <1>2, <1>3, <1>4 DEF OnlyReleased

\* A setting only ever releases: nothing accepted is queued again, no row appears that was
\* not there, and none gains a reason (spec 0007 AC-13, spec 0008 AC-6).
THEOREM SettingsOnlyRelease == Spec => OnlyReleases
<1>1. RoutedInv /\ [Next]_vars => [OnlyReleased(routed, routed')]_vars
    <2> SUFFICES ASSUME RoutedInv, Next PROVE OnlyReleased(routed, routed')
        OBVIOUS
    <2>1. CASE ApplyCodePass
        <3>1. /\ routed = RouteRuns(runs, {}, FALSE)
              /\ routed' = RouteRuns(runs, CodeDecided(runs, bullets), FALSE)
            BY <2>1 DEF ApplyCodePass, RoutedInv, Decided
        <3>2. OnlyReleased(RouteRuns(runs, {}, FALSE),
                           RouteRuns(runs, CodeDecided(runs, bullets), FALSE))
            BY OneSettingReleases
        <3> QED
            BY <3>1, <3>2
    <2>2. CASE ApplyNarrowHold
        <3>1. /\ routed = RouteRuns(runs, Decided, FALSE)
              /\ routed' = RouteRuns(runs, Decided, TRUE)
            BY <2>2 DEF ApplyNarrowHold, RoutedInv, Decided
        <3>2. OnlyReleased(RouteRuns(runs, Decided, FALSE), RouteRuns(runs, Decided, TRUE))
            BY OneSettingReleases
        <3> QED
            BY <3>1, <3>2
    <2> QED
        BY <2>1, <2>2 DEF Next
<1> QED
    BY <1>1, RoutedAfresh, PTL DEF Spec, OnlyReleases
-----------------------------------------------------------------------------
(* What the code pass releases, what is queued, and the types.             *)

\* The code pass accepts an entity only when one bullet carries its id and every run found
\* it once, typed it a criterion and raised no flag on it but the released ones
\* (spec 0007 AC-10 to AC-12).
THEOREM CodePassLooksAtEveryRun == Spec => []CodePassIsCautious
<1>1. RoutedInv => CodePassIsCautious
    <2> SUFFICES ASSUME RoutedInv, NEW i \in routed.released, NEW r \in Run
                 PROVE  /\ bullets[i] = 1
                        /\ i \in Entities(runs[r])
                        /\ runs[r].entity[i].type = "AcceptanceCriterion"
                        /\ runs[r].entity[i].flags \subseteq RELEASED_FLAGS
                        /\ \A j \in Entities(runs[r]) \ {i} : runs[r].entity[j].says # i
        BY RunsAssumption DEF CodePassIsCautious, Run
    <2>1. i \in Released(runs, Decided)
        BY RouteRunsFields DEF RoutedInv
    <2>2. i \in CodeDecided(runs, bullets) /\ FlagAloneReleasable(runs, i)
        BY <2>1 DEF Released, Decided
    <2>3. bullets[i] = 1 /\ Settles(runs[r], i)
        BY <2>2 DEF CodeDecided
    <2>4. {j \in Entities(runs[r]) : runs[r].entity[j].says = i} = {i}
        BY <2>3 DEF Settles
    <2>5. i \in Entities(runs[r]) /\ \A j \in Entities(runs[r]) \ {i} : runs[r].entity[j].says # i
        BY <2>4
    <2> QED
        BY <2>2, <2>3, <2>5 DEF Settles, FlagAloneReleasable
<1> QED
    BY <1>1, RoutedAfresh, PTL

\* The row of a held entity and of a held link.
EntityRow(rs, i) == [of |-> "entity", item |-> i, sig |-> EntitySignature(rs[1], i),
                     reasons |-> EntityReasons(rs, i)]
LinkRow(rs, s, before, accepted) ==
    [of |-> "link", item |-> s, sig |-> LinkSignature(rs[1], s),
     reasons |-> HeldReasons(rs, s, before, accepted)]

\* The queue is a row for each held item, and those of what only later runs found.
LEMMA ReviewRows ==
    ASSUME NEW rs, NEW decided, NEW narrow
    PROVE  LET r == RouteRuns(rs, decided, narrow)
               before == Plain(rs) \cup Released(rs, decided)
               held == Held(rs, decided, narrow)
           IN  /\ \A i \in Entities(rs[1]) \ r.entities : EntityRow(rs, i) \in r.review
               /\ \A s \in held : LinkRow(rs, s, before, r.entities) \in r.review
               /\ \A row \in r.review :
                     \/ \E i \in Entities(rs[1]) \ r.entities : row = EntityRow(rs, i)
                     \/ \E s \in held : row = LinkRow(rs, s, before, r.entities)
                     \/ row.item = None /\ \E rows : row \in Leftovers(rs, rows)
<1> DEFINE r == RouteRuns(rs, decided, narrow)
           before == Plain(rs) \cup Released(rs, decided)
           held == Held(rs, decided, narrow)
           rows == EntityRows(rs, r.entities) \cup LinkRows(rs, held, before, r.entities)
<1>1. r.review = rows \cup Leftovers(rs, rows)
    BY RouteRunsFields
<1>2. \A row \in Leftovers(rs, rows) : row.item = None
    BY DEF Leftovers
<1> HIDE DEF r, before, held
<1>3. /\ \A i \in Entities(rs[1]) \ r.entities : EntityRow(rs, i) \in rows
      /\ \A s \in held : LinkRow(rs, s, before, r.entities) \in rows
      /\ \A row \in rows : \/ \E i \in Entities(rs[1]) \ r.entities : row = EntityRow(rs, i)
                           \/ \E s \in held : row = LinkRow(rs, s, before, r.entities)
    BY DEF EntityRows, LinkRows, EntityRow, LinkRow
<1> HIDE DEF rows
<1> QED
    BY <1>1, <1>2, <1>3 DEF r, before, held

\* Every signature the runs disagree on has a row.
LEMMA DifferencesSeen ==
    ASSUME NEW rs, NEW decided, NEW narrow
    PROVE  LET review == RouteRuns(rs, decided, narrow).review
           IN  /\ \A d \in DifferingEntities(rs) : Seen(review, "entity", d)
               /\ \A d \in DifferingLinks(rs) : Seen(review, "link", d)
<1> DEFINE r == RouteRuns(rs, decided, narrow)
           rows == EntityRows(rs, r.entities)
                   \cup LinkRows(rs, Held(rs, decided, narrow), Plain(rs) \cup Released(rs, decided), r.entities)
<1>1. r.review = rows \cup Leftovers(rs, rows)
    BY RouteRunsFields
<1> HIDE DEF r, rows
<1>2. ASSUME NEW d \in DifferingEntities(rs) PROVE Seen(r.review, "entity", d)
    <2>1. CASE Seen(rows, "entity", d)
        BY <1>1, <2>1 DEF Seen
    <2>2. CASE ~Seen(rows, "entity", d)
        <3> DEFINE row == [of |-> "entity", item |-> None, sig |-> d,
                           reasons |-> {Reason("runs_disagree")} \cup {Reason(n) :
                               n \in {m \in {"span_not_located"} : d.identity = COLLAPSED}}]
        <3>1. row \in Leftovers(rs, rows)
            BY <2>2 DEF Leftovers
        <3>2. row.of = "entity" /\ row.sig = d
            OBVIOUS
        <3> HIDE DEF row
        <3> QED
            BY <1>1, <3>1, <3>2 DEF Seen
    <2> QED
        BY <2>1, <2>2
<1>3. ASSUME NEW d \in DifferingLinks(rs) PROVE Seen(r.review, "link", d)
    <2>1. CASE Seen(rows, "link", d)
        BY <1>1, <2>1 DEF Seen
    <2>2. CASE ~Seen(rows, "link", d)
        <3> DEFINE row == [of |-> "link", item |-> None, sig |-> d,
                           reasons |-> {Reason("runs_disagree")}]
        <3>1. row \in Leftovers(rs, rows)
            BY <2>2 DEF Leftovers
        <3>2. row.of = "link" /\ row.sig = d
            OBVIOUS
        <3> HIDE DEF row
        <3> QED
            BY <1>1, <3>1, <3>2 DEF Seen
    <2> QED
        BY <2>1, <2>2
<1> QED
    BY <1>2, <1>3 DEF r

\* Nothing is dropped: each item of the first run is accepted or has exactly one row of its
\* own, never both, and every signature the runs disagree on has a row (AC-11).
THEOREM EveryItemAccountedFor == Spec => []NothingDropped
<1>1. RoutedInv => NothingDropped
    <2> SUFFICES ASSUME RoutedInv PROVE NothingDropped
        OBVIOUS
    <2>0. PICK decided, narrow : routed = RouteRuns(runs, decided, narrow)
        BY DEF RoutedInv
    <2> DEFINE before == Plain(runs) \cup Released(runs, decided)
               held == Held(runs, decided, narrow)
    <2>1. routed.links = Links(runs[1]) \ held /\ held \subseteq Links(runs[1])
        <3>1. routed.links = Links(runs[1]) \ held
            BY <2>0, RouteRunsFields
        <3>2. held \subseteq Links(runs[1])
            BY DEF Held
        <3> QED
            BY <3>1, <3>2
    <2>2. /\ \A i \in Entities(runs[1]) \ routed.entities : EntityRow(runs, i) \in routed.review
          /\ \A s \in held : LinkRow(runs, s, before, routed.entities) \in routed.review
          /\ \A row \in routed.review :
                \/ \E i \in Entities(runs[1]) \ routed.entities : row = EntityRow(runs, i)
                \/ \E s \in held : row = LinkRow(runs, s, before, routed.entities)
                \/ row.item = None
        <3>1. \A row \in routed.review :
                \/ \E i \in Entities(runs[1]) \ routed.entities : row = EntityRow(runs, i)
                \/ \E s \in held : row = LinkRow(runs, s, before, routed.entities)
                \/ row.item = None /\ \E rows : row \in Leftovers(runs, rows)
            BY <2>0, ReviewRows
        <3>2. \A i \in Entities(runs[1]) \ routed.entities : EntityRow(runs, i) \in routed.review
            BY <2>0, ReviewRows
        <3>3. \A s \in held : LinkRow(runs, s, before, routed.entities) \in routed.review
            BY <2>0, ReviewRows
        <3> QED
            BY <3>1, <3>2, <3>3
    <2>3. None \notin Entities(runs[1]) /\ None \notin Links(runs[1])
        BY IdAssumption, SlotAssumption DEF Entities, Links, Id
    <2> HIDE DEF before, held
    <2>4. ASSUME NEW i \in Entities(runs[1])
          PROVE  Cardinality({row \in routed.review : row.of = "entity" /\ row.item = i})
                 = IF i \in routed.entities THEN 0 ELSE 1
        <3>1. CASE i \in routed.entities
            <4>1. {row \in routed.review : row.of = "entity" /\ row.item = i} = {}
                BY <2>2, <2>3, <3>1 DEF EntityRow, LinkRow
            <4> QED
                BY <3>1, <4>1, FS_EmptySet
        <3>2. CASE i \notin routed.entities
            <4>1. {row \in routed.review : row.of = "entity" /\ row.item = i} = {EntityRow(runs, i)}
                BY <2>2, <2>3, <3>2 DEF EntityRow, LinkRow
            <4> QED
                BY <3>2, <4>1, FS_Singleton
        <3> QED
            BY <3>1, <3>2
    <2>5. ASSUME NEW s \in Links(runs[1])
          PROVE  Cardinality({row \in routed.review : row.of = "link" /\ row.item = s})
                 = IF s \in routed.links THEN 0 ELSE 1
        <3>1. CASE s \in routed.links
            <4>1. {row \in routed.review : row.of = "link" /\ row.item = s} = {}
                BY <2>1, <2>2, <2>3, <3>1 DEF EntityRow, LinkRow
            <4> QED
                BY <3>1, <4>1, FS_EmptySet
        <3>2. CASE s \notin routed.links
            <4>1. {row \in routed.review : row.of = "link" /\ row.item = s}
                  = {LinkRow(runs, s, before, routed.entities)}
                BY <2>1, <2>2, <2>3, <3>2 DEF EntityRow, LinkRow
            <4> QED
                BY <3>2, <4>1, FS_Singleton
        <3> QED
            BY <3>1, <3>2
    <2>6. /\ \A d \in DifferingEntities(runs) : Seen(routed.review, "entity", d)
          /\ \A d \in DifferingLinks(runs) : Seen(routed.review, "link", d)
        BY DifferencesSeen DEF RoutedInv
    <2> QED
        BY <2>4, <2>5, <2>6 DEF NothingDropped, Seen
<1> QED
    BY <1>1, RoutedAfresh, PTL

\* The routed unit is well formed, and every row of its queue says why it is there.
THEOREM TypeInvariant == Spec => []TypeOK
<1>1. RoutedInv => TypeOK
    <2> SUFFICES ASSUME RoutedInv PROVE TypeOK
        OBVIOUS
    <2>0. PICK decided, narrow : routed = RouteRuns(runs, decided, narrow)
        BY DEF RoutedInv
    <2> DEFINE before == Plain(runs) \cup Released(runs, decided)
               held == Held(runs, decided, narrow)
    <2>1. 1 \in Run /\ \A r \in Run : runs[r] \in Output /\ Identified(runs[r])
        BY RunsAssumption, OutputAssumption DEF RoutedInv, Run
    <2>2. /\ routed.links = Links(runs[1]) \ held
          /\ routed.released = Released(runs, decided)
          /\ routed.entities = before \cup routed.narrowEntities
          /\ routed.narrowEntities = NarrowEntities(runs, decided, narrow)
          /\ routed.narrowLinks = NarrowLinks(runs, before, routed.entities, narrow)
        <3>1. routed.links = Links(runs[1]) \ held /\ routed.released = Released(runs, decided)
            BY <2>0, RouteRunsFields
        <3>2. /\ routed.entities = before \cup routed.narrowEntities
              /\ routed.narrowEntities = NarrowEntities(runs, decided, narrow)
              /\ routed.narrowLinks = NarrowLinks(runs, before, routed.entities, narrow)
            BY <2>0 DEF RouteRuns
        <3> QED
            BY <3>1, <3>2
    <2>3. /\ routed.entities \in SUBSET Entities(runs[1]) /\ routed.links \in SUBSET Links(runs[1])
          /\ routed.released \in SUBSET routed.entities
          /\ routed.narrowEntities \in SUBSET (routed.entities \ routed.released)
          /\ routed.narrowLinks \in SUBSET routed.links
        <3>1. /\ before \subseteq Entities(runs[1])
              /\ NarrowEntities(runs, decided, narrow) \subseteq Entities(runs[1]) \ Released(runs, decided)
              /\ NarrowLinks(runs, before, routed.entities, narrow) \subseteq Links(runs[1]) \ held
            <4>1. before \subseteq Entities(runs[1])
                BY DEF Plain, Released
            <4>2. NarrowEntities(runs, decided, narrow) \subseteq Entities(runs[1]) \ Released(runs, decided)
                BY DEF NarrowEntities
            <4>3. NarrowLinks(runs, before, routed.entities, narrow) \subseteq Links(runs[1]) \ held
                BY <2>0 DEF NarrowLinks, Held
            <4> QED
                BY <4>1, <4>2, <4>3
        <3>2. Released(runs, decided) \subseteq before
            OBVIOUS
        <3> HIDE DEF before, held
        <3> QED
            BY <2>2, <3>1, <3>2
    <2>4. ASSUME NEW i \in Entities(runs[1])
          PROVE  /\ i \in Id /\ EntitySignature(runs[1], i) \in EntitySignatures(runs)
                 /\ EntityReasons(runs, i) \in SUBSET ReasonSet
        BY <2>1 DEF Entities, EntitySignatures, EntityReasons, ReasonSet, Name, Reason
    <2>5. ASSUME NEW s \in Links(runs[1]), NEW accepted
          PROVE  /\ s \in Slot /\ LinkSignature(runs[1], s) \in LinkSignatures(runs)
                 /\ LinkReasons(runs, s, accepted) \in SUBSET ReasonSet
        BY <2>1 DEF Links, LinkSignatures, LinkReasons, LocalEnds, ReasonSet, Name, Reason, Waiting
    <2>6. ASSUME NEW row \in routed.review PROVE row \in RowSet /\ row.reasons # {}
        <3>1. CASE \E i \in Entities(runs[1]) \ routed.entities : row = EntityRow(runs, i)
            <4>1. PICK i \in Entities(runs[1]) \ routed.entities : row = EntityRow(runs, i)
                BY <3>1
            <4>2. EntityReasons(runs, i) # {}
                BY <2>2, <4>1 DEF Plain
            <4> QED
                BY <2>4, <4>1, <4>2 DEF EntityRow, RowSet
        <3>2. CASE \E s \in held : row = LinkRow(runs, s, before, routed.entities)
            <4>1. PICK s \in held : row = LinkRow(runs, s, before, routed.entities)
                BY <3>2
            <4>2. s \in Links(runs[1]) /\ HeldReasons(runs, s, before, routed.entities) # {}
                BY <2>0, <4>1 DEF Held
            <4> QED
                BY <2>5, <4>1, <4>2 DEF LinkRow, HeldReasons, RowSet
        <3>3. CASE \E rows : row \in Leftovers(runs, rows)
            <4>1. \A d \in DifferingEntities(runs) : d \in EntitySignatures(runs)
                BY DEF DifferingEntities
            <4>2. \A d \in DifferingLinks(runs) : d \in LinkSignatures(runs)
                BY DEF DifferingLinks
            <4>3. PICK rows : row \in Leftovers(runs, rows)
                BY <3>3
            <4>4. CASE \E d \in DifferingEntities(runs) :
                         row = [of |-> "entity", item |-> None, sig |-> d,
                                reasons |-> {Reason("runs_disagree")} \cup {Reason(n) :
                                    n \in {m \in {"span_not_located"} : d.identity = COLLAPSED}}]
                <5>1. PICK d \in DifferingEntities(runs) :
                         row = [of |-> "entity", item |-> None, sig |-> d,
                                reasons |-> {Reason("runs_disagree")} \cup {Reason(n) :
                                    n \in {m \in {"span_not_located"} : d.identity = COLLAPSED}}]
                    BY <4>4
                <5> DEFINE because == {Reason("runs_disagree")} \cup {Reason(n) :
                                    n \in {m \in {"span_not_located"} : d.identity = COLLAPSED}}
                <5>2. because \in SUBSET ReasonSet /\ because # {}
                    <6>1. \A n \in Name : Reason(n) \in ReasonSet
                        BY DEF ReasonSet, Reason
                    <6>2. "runs_disagree" \in Name /\ "span_not_located" \in Name
                        BY DEF Name
                    <6>3. \A reason \in because : \E n \in Name : reason = Reason(n)
                        BY <6>2
                    <6>4. Reason("runs_disagree") \in because
                        OBVIOUS
                    <6> QED
                        BY <6>1, <6>3, <6>4
                <5> HIDE DEF because
                <5>3. row = [of |-> "entity", item |-> None, sig |-> d, reasons |-> because]
                    BY <5>1 DEF because
                <5>4. row \in RowSet
                    BY <4>1, <5>2, <5>3 DEF RowSet
                <5> QED
                    BY <5>2, <5>3, <5>4
            <4>5. CASE \E d \in DifferingLinks(runs) :
                         row = [of |-> "link", item |-> None, sig |-> d, reasons |-> {Reason("runs_disagree")}]
                BY <4>2, <4>5 DEF RowSet, ReasonSet, Name, Reason
            <4> QED
                BY <4>3, <4>4, <4>5 DEF Leftovers
        <3>4. \/ \E i \in Entities(runs[1]) \ routed.entities : row = EntityRow(runs, i)
              \/ \E s \in held : row = LinkRow(runs, s, before, routed.entities)
              \/ row.item = None /\ \E rows : row \in Leftovers(runs, rows)
            BY <2>0, ReviewRows
        <3> QED
            BY <3>1, <3>2, <3>3, <3>4
    <2> QED
        BY <2>1, <2>3, <2>6 DEF TypeOK, RoutedInv
<1> QED
    BY <1>1, RoutedAfresh, PTL

-----------------------------------------------------------------------------
\* A set of naturals has a least one.
LEMMA LeastNatural ==
    ASSUME NEW T \in SUBSET Nat, T # {}
    PROVE  \E x \in T : \A y \in T : ~(y < x)
<1> DEFINE less == OpToRel(<, Nat)
<1>1. IsWellFoundedOn(less, Nat)
    BY NatLessThanWellFounded
<1>2. \A x, y \in Nat : y < x => <<y, x>> \in less
    BY DEF OpToRel
<1> HIDE DEF less
<1>3. PICK x \in T : \A y \in T : <<y, x>> \notin less
    BY <1>1, WFMin
<1> QED
    BY <1>2, <1>3

-----------------------------------------------------------------------------
(* The numbering of one list (module Ids).                                 *)

\* A finding of a text, within the ids and slots there are.
Fits(t, f) ==
    /\ t \in Text /\ IsFound(f)
    /\ Len(f.items) <= Cardinality(Derived) /\ DOMAIN f.links \subseteq Slot

\* Whatever a run of a section found fits it.
LEMMA FindingsFit == \A s \in Sections : \A f \in s.findings : Fits(s.text, f)
    BY SectionAssumption, OrdinalAssumption DEF Fits

\* What the positions of a list hold.
LEMMA ItemIs ==
    ASSUME NEW t, NEW f, Fits(t, f)
    PROVE  /\ Len(f.items) \in Nat /\ DOMAIN f.items = 1 .. Len(f.items)
           /\ IsFiniteSet(DOMAIN f.items) /\ Cardinality(DOMAIN f.items) = Len(f.items)
           /\ \A k \in DOMAIN f.items :
                 f.items[k] \in Item /\ Location(t, f.items[k]) \in Offset \cup {None}
<1>1. f.items \in Seq(Item) /\ t \in Text
    BY DEF Fits, IsFound
<1>2. Len(f.items) \in Nat /\ DOMAIN f.items = 1 .. Len(f.items)
    BY <1>1
<1>3. IsFiniteSet(1 .. Len(f.items)) /\ Cardinality(1 .. Len(f.items)) = Len(f.items)
    BY <1>2, FS_Interval
<1>4. ASSUME NEW k \in DOMAIN f.items
      PROVE  f.items[k] \in Item /\ Location(t, f.items[k]) \in Offset \cup {None}
    <2>1. f.items[k] \in Item
        BY <1>1, <1>2
    <2>2. f.items[k].span.at \in Offset \cup {None}
        BY <2>1 DEF Item, Span
    <2>3. f.items[k].name \in Verbatim => t.defined[f.items[k].name] \in Offset \cup {None}
        BY <1>1 DEF Text
    <2> QED
        BY <2>1, <2>2, <2>3 DEF Location
<1> QED
    BY <1>2, <1>3, <1>4

\* A list of links is finite.
LEMMA LinksFinite ==
    ASSUME NEW t, NEW f, Fits(t, f)
    PROVE  IsFiniteSet(DOMAIN f.links)
<1>1. f.links \in Seq(FoundLink)
    BY DEF Fits, IsFound
<1>2. DOMAIN f.links = 1 .. Len(f.links) /\ Len(f.links) \in Nat
    BY <1>1
<1> QED
    BY <1>2, FS_Interval

\* The order the positions are numbered in is one: of any two one comes first, never both.
LEMMA ComesOrders ==
    ASSUME NEW t, NEW f, Fits(t, f)
    PROVE  /\ \A k \in DOMAIN f.items : ~Comes(t, f.items, k, k)
           /\ \A j, k \in DOMAIN f.items :
                 j # k => Comes(t, f.items, j, k) \/ Comes(t, f.items, k, j)
           /\ \A i, j, k \in DOMAIN f.items :
                 Comes(t, f.items, i, j) /\ Comes(t, f.items, j, k) => Comes(t, f.items, i, k)
<1> DEFINE at(k) == Location(t, f.items[k])
<1>1. \A k \in DOMAIN f.items : k \in Nat /\ at(k) \in Offset \cup {None}
    BY ItemIs
<1>2. Offset \subseteq Nat /\ None \notin Offset
    BY SectionAssumption
<1>3. \A j, k : Comes(t, f.items, j, k) <=>
                   \/ at(j) # None /\ at(k) = None
                   \/ at(j) # None /\ at(k) # None /\ at(j) < at(k)
                   \/ at(j) = at(k) /\ j < k
    BY DEF Comes
<1> HIDE DEF at
<1>4. ASSUME NEW k \in DOMAIN f.items PROVE ~Comes(t, f.items, k, k)
    <2>1. k \in Nat /\ (at(k) # None => at(k) \in Nat)
        BY <1>1, <1>2
    <2>2. \A n \in Nat : ~(n < n)
        OBVIOUS
    <2> QED
        BY <1>3, <2>1, <2>2
<1>5. ASSUME NEW j \in DOMAIN f.items, NEW k \in DOMAIN f.items, j # k
      PROVE  Comes(t, f.items, j, k) \/ Comes(t, f.items, k, j)
    <2>1. CASE at(j) = None \/ at(k) = None
        <3>1. j < k \/ k < j
            BY <1>1, <1>5
        <3> QED
            BY <1>3, <2>1, <3>1
    <2>2. CASE at(j) \in Offset /\ at(k) \in Offset
        <3>1. at(j) < at(k) \/ at(k) < at(j) \/ (at(j) = at(k) /\ (j < k \/ k < j))
            <4>1. \A m, n \in Nat : m = n \/ m < n \/ n < m
                OBVIOUS
            <4>2. at(j) \in Nat /\ at(k) \in Nat /\ j \in Nat /\ k \in Nat
                BY <1>1, <1>2, <2>2
            <4> QED
                BY <1>5, <4>1, <4>2
        <3> QED
            BY <1>2, <1>3, <2>2, <3>1
    <2> QED
        BY <1>1, <2>1, <2>2
<1>6. ASSUME NEW i \in DOMAIN f.items, NEW j \in DOMAIN f.items, NEW k \in DOMAIN f.items,
             Comes(t, f.items, i, j), Comes(t, f.items, j, k)
      PROVE  Comes(t, f.items, i, k)
    <2>1. CASE at(i) = None
        <3>1. at(j) = None /\ at(k) = None /\ i < j /\ j < k
            BY <1>3, <1>6, <2>1
        <3> QED
            BY <1>1, <1>3, <2>1, <3>1
    <2>2. CASE at(i) # None /\ at(k) = None
        BY <1>3, <2>2
    <2>3. CASE at(i) # None /\ at(k) # None
        <3>1. at(j) # None
            BY <1>3, <1>6, <2>3
        <3>2. at(i) \in Nat /\ at(j) \in Nat /\ at(k) \in Nat
            BY <1>1, <1>2, <2>3, <3>1
        <3>3. (at(i) < at(j) \/ (at(i) = at(j) /\ i < j)) /\ (at(j) < at(k) \/ (at(j) = at(k) /\ j < k))
            BY <1>3, <1>6, <2>3, <3>1
        <3>4. at(i) < at(k) \/ (at(i) = at(k) /\ i < k)
            BY <1>1, <3>2, <3>3
        <3> QED
            BY <1>3, <2>3, <3>4
    <2> QED
        BY <2>1, <2>2, <2>3
<1> QED
    BY <1>4, <1>5, <1>6

\* The number of a position among some: how many of them come up to it.
Rank(t, items, U, k) == Cardinality({j \in U : j = k \/ Comes(t, items, j, k)})

\* The numbers run from 1 to how many there are, and who comes first has the smaller one.
LEMMA RankGrows ==
    ASSUME NEW t, NEW f, Fits(t, f), NEW U \in SUBSET DOMAIN f.items
    PROVE  /\ IsFiniteSet(U)
           /\ \A k \in U : Rank(t, f.items, U, k) \in 1 .. Cardinality(U)
           /\ \A j, k \in U :
                 Comes(t, f.items, j, k) => Rank(t, f.items, U, j) < Rank(t, f.items, U, k)
<1> DEFINE to(k) == {j \in U : j = k \/ Comes(t, f.items, j, k)}
<1>1. IsFiniteSet(U) /\ Cardinality(U) \in Nat
    BY ItemIs, FS_Subset, FS_CardinalityType
<1>2. ASSUME NEW k \in U
      PROVE  /\ IsFiniteSet(to(k)) /\ Cardinality(to(k)) \in Nat
             /\ Cardinality(to(k)) <= Cardinality(U) /\ Cardinality(to(k)) # 0
    <2>1. to(k) \in SUBSET U /\ k \in to(k)
        BY <1>2
    <2> HIDE DEF to
    <2>2. IsFiniteSet(to(k)) /\ Cardinality(to(k)) <= Cardinality(U)
        BY <1>1, <2>1, FS_Subset
    <2>3. Cardinality(to(k)) \in Nat /\ Cardinality(to(k)) # 0
        BY <2>1, <2>2, FS_CardinalityType, FS_EmptySet
    <2> QED
        BY <2>2, <2>3
<1>3. ASSUME NEW j \in U, NEW k \in U, Comes(t, f.items, j, k)
      PROVE  Cardinality(to(j)) < Cardinality(to(k))
    <2>1. to(j) \in SUBSET to(k)
        BY <1>3, ComesOrders
    <2>2. k \in to(k) /\ k \notin to(j)
        BY <1>3, ComesOrders
    <2> HIDE DEF to
    <2>3. Cardinality(to(j)) <= Cardinality(to(k)) /\ Cardinality(to(j)) # Cardinality(to(k))
        BY <1>2, <2>1, <2>2, FS_Subset
    <2> QED
        BY <1>2, <2>3
<1> QED
    BY <1>1, <1>2, <1>3 DEF Rank

\* No two have one number.
LEMMA RanksApart ==
    ASSUME NEW t, NEW f, Fits(t, f), NEW U \in SUBSET DOMAIN f.items, NEW j \in U, NEW k \in U,
           Rank(t, f.items, U, j) = Rank(t, f.items, U, k)
    PROVE  j = k
<1>1. SUFFICES ASSUME j # k PROVE FALSE
    OBVIOUS
<1>2. Comes(t, f.items, j, k) \/ Comes(t, f.items, k, j)
    BY <1>1, ComesOrders
<1>3. \A i \in U : Rank(t, f.items, U, i) \in Int
    BY RankGrows
<1> QED
    BY <1>2, <1>3, RankGrows

\* Some position of a list comes before all others of a set of them.
LEMMA FirstIs ==
    ASSUME NEW t, NEW f, Fits(t, f), NEW C \in SUBSET DOMAIN f.items, C # {}
    PROVE  First(t, f.items, C) \in C
<1> DEFINE ranks == {Rank(t, f.items, C, k) : k \in C}
<1>1. ranks \in SUBSET Nat /\ ranks # {}
    <2>1. \A k \in C : Rank(t, f.items, C, k) \in Nat
        BY RankGrows
    <2> QED
        BY <2>1
<1> HIDE DEF ranks
<1>2. PICK n \in ranks : \A m \in ranks : ~(m < n)
    BY <1>1, LeastNatural
<1>3. PICK k \in C : n = Rank(t, f.items, C, k)
    BY <1>2 DEF ranks
<1>4. \A j \in C \ {k} : Comes(t, f.items, k, j)
    <2> SUFFICES ASSUME NEW j \in C \ {k} PROVE Comes(t, f.items, k, j)
        OBVIOUS
    <2>1. Comes(t, f.items, k, j) \/ Comes(t, f.items, j, k)
        BY ComesOrders
    <2>2. ~(Rank(t, f.items, C, j) < Rank(t, f.items, C, k))
        BY <1>2, <1>3 DEF ranks
    <2> QED
        BY <2>1, <2>2, RankGrows
<1> QED
    BY <1>4 DEF First


\* The positions that keep no verbatim id.
Others(t, items) == {j \in DOMAIN items : ~Keeps(t, items, j)}

\* A keeper has its verbatim id, any other item its number among the others.
LEMMA CanonicalIs ==
    ASSUME NEW t, NEW f, Fits(t, f), NEW k \in DOMAIN f.items
    PROVE  /\ Keeps(t, f.items, k) =>
                 CanonicalId(t, f.items, k) = f.items[k].name /\ f.items[k].name \in Verbatim
           /\ ~Keeps(t, f.items, k) =>
                 /\ k \in Others(t, f.items)
                 /\ CanonicalId(t, f.items, k) = Rank(t, f.items, Others(t, f.items), k)
                 /\ CanonicalId(t, f.items, k) \in Derived
<1>1. CASE Keeps(t, f.items, k)
    BY <1>1 DEF CanonicalId, Keeps
<1>2. CASE ~Keeps(t, f.items, k)
    <2> DEFINE U == Others(t, f.items)
    <2>1. k \in U /\ U \in SUBSET DOMAIN f.items
        BY <1>2 DEF Others
    <2>2. CanonicalId(t, f.items, k) = Rank(t, f.items, U, k)
        <3>1. {j \in DOMAIN f.items : ~Keeps(t, f.items, j) /\ (j = k \/ Comes(t, f.items, j, k))}
                = {j \in U : j = k \/ Comes(t, f.items, j, k)}
            BY DEF Others
        <3> QED
            BY <1>2, <3>1 DEF CanonicalId, Rank
    <2> HIDE DEF U
    <2>3. Rank(t, f.items, U, k) \in 1 .. Cardinality(U)
        BY <2>1, RankGrows
    <2>4. Cardinality(U) <= Len(f.items) /\ Cardinality(U) \in Nat
        BY <2>1, ItemIs, FS_Subset, FS_CardinalityType
    <2>5. /\ Len(f.items) <= Cardinality(Derived) /\ Cardinality(Derived) \in Nat
          /\ Len(f.items) \in Nat
        BY ItemIs, OrdinalAssumption, FS_CardinalityType DEF Fits
    <2>6. Rank(t, f.items, U, k) \in 1 .. Cardinality(Derived)
        BY <2>3, <2>4, <2>5
    <2>7. Rank(t, f.items, U, k) \in Derived
        BY <2>6, OrdinalAssumption
    <2> QED
        BY <1>2, <2>1, <2>2, <2>7 DEF U
<1> QED
    BY <1>1, <1>2

\* No two items of a list have one id.
LEMMA IdsApart ==
    ASSUME NEW t, NEW f, Fits(t, f), NEW j \in DOMAIN f.items, NEW k \in DOMAIN f.items,
           CanonicalId(t, f.items, j) = CanonicalId(t, f.items, k)
    PROVE  j = k
<1>1. Verbatim \cap Derived = {}
    BY IdAssumption
<1>2. Keeps(t, f.items, j) <=> Keeps(t, f.items, k)
    BY <1>1, CanonicalIs
<1>3. CASE Keeps(t, f.items, j)
    <2>1. f.items[j].name = f.items[k].name
        BY <1>2, <1>3, CanonicalIs
    <2> QED
        BY <1>2, <1>3, <2>1 DEF Keeps
<1>4. CASE ~Keeps(t, f.items, j)
    <2> DEFINE U == Others(t, f.items)
    <2>1. /\ j \in U /\ k \in U /\ U \in SUBSET DOMAIN f.items
          /\ Rank(t, f.items, U, j) = Rank(t, f.items, U, k)
        BY <1>2, <1>4, CanonicalIs DEF Others
    <2> HIDE DEF U
    <2> QED
        BY <2>1, RanksApart
<1> QED
    BY <1>3, <1>4

\* A verbatim id some item claims has its keeper among those that claim it.
LEMMA KeeperIs ==
    ASSUME NEW t, NEW f, Fits(t, f), NEW v \in Verbatim, Claimants(f.items, v) # {}
    PROVE  /\ Keeper(t, f.items, v) \in Candidates(t, f.items, v)
           /\ Keeper(t, f.items, v) \in Claimants(f.items, v)
           /\ Keeps(t, f.items, Keeper(t, f.items, v))
<1>1. /\ Candidates(t, f.items, v) \in SUBSET Claimants(f.items, v)
      /\ Candidates(t, f.items, v) # {}
    BY DEF Candidates
<1>2. Claimants(f.items, v) \in SUBSET DOMAIN f.items
    BY DEF Claimants
<1>3. Keeper(t, f.items, v) \in Candidates(t, f.items, v)
    BY <1>1, <1>2, FirstIs DEF Keeper
<1>4. f.items[Keeper(t, f.items, v)].name = v
    BY <1>1, <1>3 DEF Claimants
<1> QED
    BY <1>1, <1>3, <1>4 DEF Keeps

\* A local end of a link is rewritten to the id of an item that has its name.
LEMMA RewrittenIs ==
    ASSUME NEW t, NEW f, Fits(t, f), NEW end \in GivenName,
           \E j \in DOMAIN f.items : f.items[j].name = end
    PROVE  \E k \in DOMAIN f.items :
              /\ f.items[k].name = end /\ Rewritten(t, f.items, end) = CanonicalId(t, f.items, k)
              /\ Keeps(t, f.items, k) <=> end \in Verbatim
<1>1. end \notin Reference
    BY SectionAssumption
<1>2. CASE end \in Verbatim
    <2>1. Claimants(f.items, end) # {}
        BY DEF Claimants
    <2> DEFINE k == Keeper(t, f.items, end)
    <2>2. k \in Claimants(f.items, end) /\ Keeps(t, f.items, k)
        BY <1>2, <2>1, KeeperIs
    <2> HIDE DEF k
    <2>3. k \in DOMAIN f.items /\ f.items[k].name = end
        BY <2>2 DEF Claimants
    <2>4. CanonicalId(t, f.items, k) = end /\ Rewritten(t, f.items, end) = end
        BY <1>1, <1>2, <2>2, <2>3 DEF CanonicalId, Rewritten
    <2> QED
        BY <1>2, <2>2, <2>3, <2>4
<1>3. CASE end \notin Verbatim
    <2> DEFINE k == CHOOSE j \in DOMAIN f.items : f.items[j].name = end
    <2>1. k \in DOMAIN f.items /\ f.items[k].name = end
        OBVIOUS
    <2>2. Rewritten(t, f.items, end) = CanonicalId(t, f.items, k)
        BY <1>1, <1>3 DEF Rewritten
    <2> HIDE DEF k
    <2>3. ~Keeps(t, f.items, k)
        BY <1>3, <2>1 DEF Keeps
    <2> QED
        BY <1>3, <2>1, <2>2, <2>3
<1> QED
    BY <1>2, <1>3

-----------------------------------------------------------------------------
(* What the ids make of a list.                                            *)

\* Each item has its id and no other item has it.
LEMMA EntitiesAre ==
    ASSUME NEW t, NEW f, Fits(t, f)
    PROVE  LET o == AssignIds(t, f) IN
           /\ Entities(o) = {CanonicalId(t, f.items, k) : k \in DOMAIN f.items}
           /\ \A k \in DOMAIN f.items :
                 o.entity[CanonicalId(t, f.items, k)] = LocatedEntity(t, f.items, k)
           /\ \A k \in DOMAIN f.items : LocatedEntity(t, f.items, k) \in Entity
           /\ o.entity \in [Id -> Entity \cup {None}]
<1> DEFINE at(i) == {k \in DOMAIN f.items : CanonicalId(t, f.items, k) = i}
           located(k) == LocatedEntity(t, f.items, k)
           id(k) == CanonicalId(t, f.items, k)
           entity == [i \in Id |-> IF at(i) = {} THEN None ELSE located(CHOOSE k \in at(i) : TRUE)]
<1>1. AssignIds(t, f).entity = entity
    BY DEF AssignIds
<1>2. ASSUME NEW k \in DOMAIN f.items PROVE located(k) \in Entity
    <2>1. f.items[k] \in Item /\ Location(t, f.items[k]) \in Offset \cup {None}
        BY ItemIs
    <2>2. BoundLabel(t, f.items, k) \in Label \cup {None}
        <3> DEFINE rules == {rule \in t.rules : Inside(t, f.items, rule) = {k}}
        <3>1. t.rules \in SUBSET [from : Offset, to : Offset, label : Label]
            BY DEF Fits, Text
        <3>2. rules # {} => (CHOOSE rule \in rules : TRUE).label \in Label
            <4>1. rules # {} => (CHOOSE rule \in rules : TRUE) \in rules
                OBVIOUS
            <4> QED
                BY <3>1, <4>1
        <3>3. f.items[k].label \in Label \cup {None}
            BY <2>1 DEF Item
        <3> QED
            BY <3>2, <3>3 DEF BoundLabel
    <2>3. Location(t, f.items[k]) # None => LineOf[Location(t, f.items[k])] \in Line
        BY <2>1, SectionAssumption
    <2>4. f.items[k].type \in EntityType /\ f.items[k].flags \in SUBSET Flag
        BY <2>1 DEF Item
    <2> QED
        BY <2>2, <2>3, <2>4 DEF LocatedEntity, Entity
<1>3. ASSUME NEW k \in DOMAIN f.items PROVE at(id(k)) = {k} /\ id(k) \in Id
    <2>1. \A j \in DOMAIN f.items : id(j) = id(k) => j = k
        BY IdsApart
    <2>2. id(k) \in Id
        BY CanonicalIs DEF Id
    <2> QED
        BY <2>1, <2>2
<1>4. ASSUME NEW k \in DOMAIN f.items PROVE entity[id(k)] = located(k)
    <2> HIDE DEF id, located
    <2>1. at(id(k)) = {k} /\ id(k) \in Id
        BY <1>3
    <2> HIDE DEF at
    <2>2. (CHOOSE j \in {k} : TRUE) = k
        OBVIOUS
    <2> QED
        BY <2>1, <2>2
<1>5. ASSUME NEW i \in Id PROVE at(i) # {} => \E k \in DOMAIN f.items : i = id(k)
    OBVIOUS
<1>6. None \notin Entity
    BY NothingAssumption
<1>7. \A i \in Id : entity[i] = None \/ \E k \in DOMAIN f.items : i = id(k) /\ entity[i] = located(k)
    <2> SUFFICES ASSUME NEW i \in Id, entity[i] # None
                 PROVE  \E k \in DOMAIN f.items : i = id(k) /\ entity[i] = located(k)
        OBVIOUS
    <2>1. at(i) # {}
        <3> HIDE DEF at
        <3> QED
            OBVIOUS
    <2> HIDE DEF id, located, entity
    <2> QED
        BY <1>4, <1>5, <2>1
<1> HIDE DEF at, located, id, entity
<1>8. entity \in [Id -> Entity \cup {None}]
    <2>1. DOMAIN entity = Id /\ entity = [i \in Id |-> entity[i]]
        BY DEF entity
    <2>2. \A i \in Id : entity[i] \in Entity \cup {None}
        BY <1>2, <1>7
    <2> QED
        BY <2>1, <2>2
<1>9. {i \in Id : entity[i] # None} = {id(k) : k \in DOMAIN f.items}
    BY <1>2, <1>3, <1>4, <1>6, <1>7
<1> QED
    BY <1>1, <1>2, <1>4, <1>8, <1>9 DEF Entities, located, id

\* Each link is in its place, with its local ends rewritten.
LEMMA LinksAre ==
    ASSUME NEW t, NEW f, Fits(t, f)
    PROVE  LET o == AssignIds(t, f) IN
           /\ Links(o) = DOMAIN f.links
           /\ \A s \in DOMAIN f.links :
                 /\ f.links[s] \in FoundLink
                 /\ o.link[s] \in Link
                 /\ o.link[s].type = f.links[s].type
                 /\ o.link[s].source = Rewritten(t, f.items, f.links[s].source)
                 /\ o.link[s].target = Rewritten(t, f.items, f.links[s].target)
                 /\ \A end \in {f.links[s].source, f.links[s].target} :
                       \/ end \in Reference
                       \/ end \in GivenName /\ \E j \in DOMAIN f.items : f.items[j].name = end
           /\ o.link \in [Slot -> Link \cup {None}]
<1> DEFINE to(e) == Rewritten(t, f.items, e)
           written(s) == [f.links[s] EXCEPT !.source = to(f.links[s].source),
                                            !.target = to(f.links[s].target)]
           link == [s \in Slot |-> IF s \notin DOMAIN f.links THEN None ELSE written(s)]
<1>1. AssignIds(t, f).link = link
    BY DEF AssignIds
<1>2. f.links \in Seq(FoundLink) /\ DOMAIN f.links \subseteq Slot
    BY DEF Fits, IsFound
<1>3. ASSUME NEW s \in DOMAIN f.links
      PROVE  /\ f.links[s] \in FoundLink
             /\ \A end \in {f.links[s].source, f.links[s].target} :
                   \/ end \in Reference
                   \/ end \in GivenName /\ \E j \in DOMAIN f.items : f.items[j].name = end
    <2>1. f.links[s] \in FoundLink
        BY <1>2
    <2>2. {f.links[s].source, f.links[s].target} \subseteq GivenName \cup Reference
        BY <2>1 DEF FoundLink
    <2>3. \A n \in {f.links[s].source, f.links[s].target} \cap GivenName :
             \E j \in DOMAIN f.items : f.items[j].name = n
        BY DEF Fits, IsFound
    <2> QED
        BY <2>1, <2>2, <2>3
<1>4. ASSUME NEW end, end \in Reference \/ (end \in GivenName /\ \E j \in DOMAIN f.items : f.items[j].name = end)
      PROVE  to(end) \in End
    <2>1. CASE end \in Reference
        BY <2>1 DEF Rewritten, End
    <2>2. CASE end \in GivenName /\ \E j \in DOMAIN f.items : f.items[j].name = end
        <3>1. PICK k \in DOMAIN f.items : to(end) = CanonicalId(t, f.items, k)
            BY <2>2, RewrittenIs
        <3>2. CanonicalId(t, f.items, k) \in Id
            BY CanonicalIs DEF Id
        <3> QED
            BY <3>1, <3>2 DEF End
    <2> QED
        BY <1>4, <2>1, <2>2
<1> HIDE DEF to
<1>5. ASSUME NEW s \in DOMAIN f.links
      PROVE  /\ written(s) \in Link /\ written(s).type = f.links[s].type
             /\ written(s).source = to(f.links[s].source) /\ written(s).target = to(f.links[s].target)
    <2>1. to(f.links[s].source) \in End /\ to(f.links[s].target) \in End
        BY <1>3, <1>4
    <2>2. f.links[s] \in FoundLink
        BY <1>3
    <2> QED
        BY <2>1, <2>2 DEF FoundLink, Link
<1>6. ASSUME NEW s \in DOMAIN f.links PROVE link[s] = written(s)
    BY <1>2
<1>7. None \notin Link
    BY NothingAssumption
<1>8. \A s \in Slot : s \notin DOMAIN f.links => link[s] = None
    OBVIOUS
<1>9. DOMAIN link = Slot /\ link = [s \in Slot |-> link[s]]
    OBVIOUS
<1> HIDE DEF written, link
<1>10. {s \in Slot : link[s] # None} = DOMAIN f.links
    BY <1>2, <1>5, <1>6, <1>7, <1>8
<1>11. link \in [Slot -> Link \cup {None}]
    <2>1. \A s \in Slot : link[s] \in Link \cup {None}
        BY <1>5, <1>6, <1>8
    <2> QED
        BY <1>9, <2>1
<1> QED
    BY <1>1, <1>3, <1>5, <1>6, <1>10, <1>11 DEF Links, to

\* What every run brings to routing is an output routing takes: a verbatim id is kept by
\* one item that says it, and a local end names an item of its own list (assign_ids(),
\* _rewrite_endpoints()), whatever a run found and however it numbered it.
THEOREM OutputsAreIdentified ==
    \A s \in Sections : \A f \in s.findings :
        AssignIds(s.text, f) \in Output /\ Identified(AssignIds(s.text, f))
<1> SUFFICES ASSUME NEW s \in Sections, NEW f \in s.findings
             PROVE  AssignIds(s.text, f) \in Output /\ Identified(AssignIds(s.text, f))
    OBVIOUS
<1> DEFINE t == s.text
           o == AssignIds(t, f)
           id(k) == CanonicalId(t, f.items, k)
<1>1. Fits(t, f)
    BY FindingsFit
<1>2. /\ Entities(o) = {id(k) : k \in DOMAIN f.items}
      /\ \A k \in DOMAIN f.items : o.entity[id(k)] = LocatedEntity(t, f.items, k)
    BY <1>1, EntitiesAre
<1>3. o \in Output
    <2>1. o.entity \in [Id -> Entity \cup {None}] /\ o.link \in [Slot -> Link \cup {None}]
        BY <1>1, EntitiesAre, LinksAre
    <2>2. o = [entity |-> o.entity, link |-> o.link]
        BY DEF AssignIds
    <2> HIDE DEF o
    <2> QED
        BY <2>1, <2>2 DEF Output
<1>4. \A k \in DOMAIN f.items :
         LocatedEntity(t, f.items, k).says = IF f.items[k].name \in Verbatim THEN f.items[k].name ELSE None
    BY DEF LocatedEntity
<1>5. ASSUME NEW i \in Entities(o) \cap Verbatim PROVE o.entity[i].says = i
    <2>1. PICK k \in DOMAIN f.items : i = id(k)
        BY <1>2, <1>5
    <2>2. f.items[k].name = i
        <3>1. Verbatim \cap Derived = {}
            BY IdAssumption
        <3> QED
            BY <1>1, <2>1, <3>1, CanonicalIs
    <2> QED
        BY <1>2, <1>4, <2>1, <2>2
<1>6. ASSUME NEW i \in Entities(o), o.entity[i].says # None PROVE o.entity[i].says \in Entities(o)
    <2>1. PICK k \in DOMAIN f.items : i = id(k)
        BY <1>2, <1>6
    <2>2. f.items[k].name \in Verbatim /\ o.entity[i].says = f.items[k].name
        BY <1>2, <1>4, <1>6, <2>1
    <2> DEFINE j == Keeper(t, f.items, f.items[k].name)
    <2>3. Claimants(f.items, f.items[k].name) # {}
        BY DEF Claimants
    <2>4. j \in Claimants(f.items, f.items[k].name) /\ Keeps(t, f.items, j)
        BY <1>1, <2>2, <2>3, KeeperIs
    <2> HIDE DEF j
    <2>5. j \in DOMAIN f.items /\ id(j) = f.items[k].name
        BY <1>1, <2>4, CanonicalIs DEF Claimants
    <2> QED
        BY <1>2, <2>2, <2>5
<1>7. ASSUME NEW x \in Links(o) PROVE LocalEnds(o.link[x]) \subseteq Entities(o)
    <2> DEFINE from == {f.links[x].source, f.links[x].target}
    <2>1. /\ {o.link[x].source, o.link[x].target} = {Rewritten(t, f.items, e) : e \in from}
          /\ \A e \in from : \/ e \in Reference
                             \/ e \in GivenName /\ \E j \in DOMAIN f.items : f.items[j].name = e
        BY <1>1, <1>7, LinksAre
    <2> HIDE DEF from, o
    <2>2. ASSUME NEW e \in from, Rewritten(t, f.items, e) \in Id
          PROVE  Rewritten(t, f.items, e) \in Entities(o)
        <3>1. e \notin Reference
            BY <2>2, EndAssumption DEF Rewritten, Id
        <3>2. PICK k \in DOMAIN f.items : Rewritten(t, f.items, e) = id(k)
            BY <1>1, <2>1, <2>2, <3>1, RewrittenIs
        <3> QED
            BY <1>2, <3>2
    <2> QED
        BY <2>1, <2>2 DEF LocalEnds
<1> QED
    BY <1>3, <1>5, <1>6, <1>7 DEF Identified

-----------------------------------------------------------------------------
(* Two lists of the same items.                                            *)

\* What a one-to-one map carries over has the same size.
LEMMA CarriedCount ==
    ASSUME NEW S, NEW T, NEW h \in Bijection(S, T), IsFiniteSet(S),
           NEW A \in SUBSET S, NEW B \in SUBSET T, \A k \in S : k \in A <=> h[k] \in B
    PROVE  Cardinality(A) = Cardinality(B)
<1> DEFINE on == [k \in A |-> h[k]]
<1>1. /\ h \in [S -> T] /\ \A a, b \in S : h[a] = h[b] => a = b
      /\ \A x \in T : \E k \in S : h[k] = x
    BY Fun_BijectionProperties
<1>2. on \in Bijection(A, B)
    <2>1. on \in [A -> B]
        BY <1>1
    <2>2. \A a, b \in A : on[a] = on[b] => a = b
        BY <1>1
    <2>3. \A x \in B : \E k \in A : on[k] = x
        BY <1>1
    <2> QED
        BY <2>1, <2>2, <2>3 DEF Bijection, Injection, Surjection, IsInjective
<1>3. ExistsBijection(A, B)
    BY <1>2 DEF ExistsBijection
<1>4. IsFiniteSet(A)
    BY FS_Subset
<1> QED
    BY <1>3, <1>4, FS_Bijection

\* h takes each position of a list to one of another that holds the same.
Permutes(h, a, b) ==
    h \in Bijection(DOMAIN a, DOMAIN b) /\ \A k \in DOMAIN a : b[h[k]] = a[k]

\* Lists of the same things, each as often, are one list in another order.
LEMMA SameListPermutes ==
    ASSUME NEW a, NEW b, IsFiniteSet(DOMAIN a), IsFiniteSet(DOMAIN b), SameList(a, b)
    PROVE  \E h : Permutes(h, a, b)
<1> DEFINE ofA(x) == {k \in DOMAIN a : a[k] = x}
           ofB(x) == {k \in DOMAIN b : b[k] = x}
           pick(x) == CHOOSE h : h \in Bijection(ofA(x), ofB(x))
           h == [k \in DOMAIN a |-> pick(a[k])[k]]
<1>1. ASSUME NEW x \in Range(a) \cup Range(b)
      PROVE  pick(x) \in Bijection(ofA(x), ofB(x))
    <2>1. IsFiniteSet(ofA(x)) /\ IsFiniteSet(ofB(x))
        BY FS_Subset
    <2>2. Cardinality(ofA(x)) = Cardinality(ofB(x))
        BY DEF SameList
    <2> HIDE DEF ofA, ofB
    <2>3. ExistsBijection(ofA(x), ofB(x))
        BY <2>1, <2>2, FS_SameCardinalityBij
    <2>4. \E g : g \in Bijection(ofA(x), ofB(x))
        BY <2>3 DEF ExistsBijection
    <2> QED
        BY <2>4
<1>2. ASSUME NEW x \in Range(a) \cup Range(b)
      PROVE  /\ \A k \in ofA(x) : pick(x)[k] \in ofB(x)
             /\ \A j, k \in ofA(x) : pick(x)[j] = pick(x)[k] => j = k
             /\ \A y \in ofB(x) : \E k \in ofA(x) : pick(x)[k] = y
    <2> HIDE DEF ofA, ofB, pick
    <2> QED
        BY <1>1, Fun_BijectionProperties
<1>3. \A k \in DOMAIN a : a[k] \in Range(a) /\ k \in ofA(a[k]) /\ h[k] = pick(a[k])[k]
    BY DEF Range
<1>4. \A k \in DOMAIN b : b[k] \in Range(b) /\ k \in ofB(b[k])
    BY DEF Range
<1>5. \A x : \A k \in ofA(x) : k \in DOMAIN a /\ a[k] = x
    OBVIOUS
<1>6. \A x : \A k \in ofB(x) : k \in DOMAIN b /\ b[k] = x
    OBVIOUS
<1>7. h = [k \in DOMAIN a |-> h[k]]
    OBVIOUS
<1> HIDE DEF ofA, ofB, pick, h
<1>8. ASSUME NEW k \in DOMAIN a PROVE h[k] \in DOMAIN b /\ b[h[k]] = a[k]
    BY <1>2, <1>3, <1>6
<1>9. ASSUME NEW j \in DOMAIN a, NEW k \in DOMAIN a, h[j] = h[k] PROVE j = k
    <2>1. a[j] = a[k]
        BY <1>8, <1>9
    <2> QED
        BY <1>2, <1>3, <1>9, <2>1
<1>10. ASSUME NEW y \in DOMAIN b PROVE \E k \in DOMAIN a : h[k] = y
    <2>1. PICK k \in ofA(b[y]) : pick(b[y])[k] = y
        BY <1>2, <1>4
    <2>2. k \in DOMAIN a /\ a[k] = b[y]
        BY <1>5, <2>1
    <2> QED
        BY <1>3, <2>1, <2>2
<1>11. h \in Bijection(DOMAIN a, DOMAIN b)
    <2>1. h \in [DOMAIN a -> DOMAIN b]
        BY <1>7, <1>8
    <2> QED
        BY <1>9, <1>10, <2>1 DEF Bijection, Injection, Surjection, IsInjective
<1> QED
    BY <1>8, <1>11 DEF Permutes

\* Those of a verbatim id that are not struck in the unit's text.
Current(f, v) == {k \in Claimants(f.items, v) : ~Struck(text, f.items[k])}

\* With at most one item to keep each id, the item keeps it whatever its place in the list.
LEMMA KeepsIs ==
    ASSUME NEW f, Fits(text, f), OneKeeper(f), NEW k \in DOMAIN f.items
    PROVE  Keeps(text, f.items, k)
             <=> /\ f.items[k].name \in Verbatim
                 /\ ~Struck(text, f.items[k]) \/ Current(f, f.items[k].name) = {}
<1> DEFINE v == f.items[k].name
           all == Claimants(f.items, v)
           current == Current(f, v)
           keeper == Keeper(text, f.items, v)
<1>1. SUFFICES ASSUME v \in Verbatim
               PROVE  keeper = k <=> ~Struck(text, f.items[k]) \/ current = {}
    BY DEF Keeps
<1>2. k \in all /\ current \in SUBSET all /\ all \in SUBSET DOMAIN f.items
    BY DEF Current, Claimants
<1>3. IsFiniteSet(all) /\ IsFiniteSet(current)
    BY <1>2, ItemIs, FS_Subset
<1>4. Cardinality(current) <= 1 /\ (current = {} => Cardinality(all) <= 1)
    BY <1>1 DEF OneKeeper, Current
<1>5. Candidates(text, f.items, v) = IF current # {} THEN current ELSE all
    BY DEF Candidates, Current
<1>6. keeper \in Candidates(text, f.items, v)
    BY <1>1, <1>2, KeeperIs
<1>7. k \in current <=> ~Struck(text, f.items[k])
    BY <1>2 DEF Current
<1> HIDE DEF all, current, keeper, v
<1>8. ASSUME NEW S, IsFiniteSet(S), Cardinality(S) <= 1, S # {}
      PROVE  \E x : S = {x}
    <2>1. Cardinality(S) \in Nat /\ Cardinality(S) # 0
        BY <1>8, FS_CardinalityType, FS_EmptySet
    <2>2. Cardinality(S) = 1
        BY <1>8, <2>1
    <2> QED
        BY <1>8, <2>2, FS_Singleton
<1>9. CASE current # {}
    <2>1. PICK x : current = {x}
        BY <1>3, <1>4, <1>8, <1>9
    <2> QED
        BY <1>5, <1>6, <1>7, <1>9, <2>1
<1>10. CASE current = {}
    <2>1. PICK x : all = {x}
        BY <1>2, <1>3, <1>4, <1>8, <1>10
    <2> QED
        BY <1>2, <1>5, <1>6, <1>10, <2>1
<1> QED
    BY <1>9, <1>10

\* A list that holds the same items has as many to keep each id.
LEMMA KeepersCarried ==
    ASSUME NEW f, NEW g, Fits(text, f), Fits(text, g), OneKeeper(f), NEW h,
           Permutes(h, f.items, g.items)
    PROVE  /\ OneKeeper(g)
           /\ \A v \in Verbatim : Current(f, v) = {} <=> Current(g, v) = {}
<1> USE DEF Permutes
<1>1. /\ \A k \in DOMAIN f.items : h[k] \in DOMAIN g.items /\ g.items[h[k]] = f.items[k]
      /\ IsFiniteSet(DOMAIN f.items) /\ IsFiniteSet(DOMAIN g.items)
    BY ItemIs, Fun_BijectionProperties
<1>2. ASSUME NEW v \in Verbatim
      PROVE  /\ Cardinality(Claimants(f.items, v)) = Cardinality(Claimants(g.items, v))
             /\ Cardinality(Current(f, v)) = Cardinality(Current(g, v))
             /\ IsFiniteSet(Current(f, v)) /\ IsFiniteSet(Current(g, v))
    <2>1. /\ Claimants(f.items, v) \in SUBSET DOMAIN f.items
          /\ Claimants(g.items, v) \in SUBSET DOMAIN g.items
          /\ Current(f, v) \in SUBSET DOMAIN f.items /\ Current(g, v) \in SUBSET DOMAIN g.items
        BY DEF Claimants, Current
    <2>2. \A k \in DOMAIN f.items : /\ k \in Claimants(f.items, v) <=> h[k] \in Claimants(g.items, v)
                                    /\ k \in Current(f, v) <=> h[k] \in Current(g, v)
        BY <1>1 DEF Claimants, Current
    <2>3. Cardinality(Claimants(f.items, v)) = Cardinality(Claimants(g.items, v))
        BY <1>1, <2>1, <2>2, CarriedCount
    <2>4. Cardinality(Current(f, v)) = Cardinality(Current(g, v))
        BY <1>1, <2>1, <2>2, CarriedCount
    <2> QED
        BY <1>1, <2>1, <2>3, <2>4, FS_Subset
<1>3. \A v \in Verbatim : Current(f, v) = {} <=> Current(g, v) = {}
    BY <1>2, FS_EmptySet
<1>4. \A e : OneKeeper(e) <=>
         \A v \in Verbatim : /\ Cardinality(Current(e, v)) <= 1
                             /\ Current(e, v) = {} => Cardinality(Claimants(e.items, v)) <= 1
    BY DEF OneKeeper, Current
<1> QED
    BY <1>2, <1>3, <1>4

\* Each item of a list keeps its id in another order of it, or does not, and has the same
\* binding rule label.
LEMMA ItemCarried ==
    ASSUME NEW f, NEW g, Fits(text, f), Fits(text, g), OneKeeper(f), NEW h,
           Permutes(h, f.items, g.items), NEW k \in DOMAIN f.items
    PROVE  /\ h[k] \in DOMAIN g.items /\ g.items[h[k]] = f.items[k]
           /\ Keeps(text, f.items, k) <=> Keeps(text, g.items, h[k])
           /\ LocatedEntity(text, f.items, k) = LocatedEntity(text, g.items, h[k])
<1>1. /\ \A j \in DOMAIN f.items : h[j] \in DOMAIN g.items /\ g.items[h[j]] = f.items[j]
      /\ OneKeeper(g) /\ \A v \in Verbatim : Current(f, v) = {} <=> Current(g, v) = {}
    BY KeepersCarried, Fun_BijectionProperties DEF Permutes
<1>2. Keeps(text, f.items, k) <=> Keeps(text, g.items, h[k])
    <2>1. Keeps(text, f.items, k)
            <=> /\ f.items[k].name \in Verbatim
                /\ ~Struck(text, f.items[k]) \/ Current(f, f.items[k].name) = {}
        BY KeepsIs
    <2>2. Keeps(text, g.items, h[k])
            <=> /\ g.items[h[k]].name \in Verbatim
                /\ ~Struck(text, g.items[h[k]]) \/ Current(g, g.items[h[k]].name) = {}
        BY <1>1, KeepsIs
    <2> QED
        BY <1>1, <2>1, <2>2
<1>3. ASSUME NEW rule
      PROVE  Inside(text, f.items, rule) = {k} <=> Inside(text, g.items, rule) = {h[k]}
    <2> DEFINE A == Inside(text, f.items, rule)
               B == Inside(text, g.items, rule)
    <2>1. /\ A \in SUBSET DOMAIN f.items /\ B \in SUBSET DOMAIN g.items
          /\ \A j \in DOMAIN f.items : j \in A <=> h[j] \in B
        BY <1>1 DEF Inside
    <2>2. /\ \A i, j \in DOMAIN f.items : h[i] = h[j] => i = j
          /\ \A x \in DOMAIN g.items : \E j \in DOMAIN f.items : h[j] = x
        BY Fun_BijectionProperties DEF Permutes
    <2> HIDE DEF A, B
    <2>3. ASSUME A = {k} PROVE B = {h[k]}
        <3>1. h[k] \in B
            BY <2>1, <2>3
        <3>2. ASSUME NEW x \in B PROVE x = h[k]
            <4>1. PICK j \in DOMAIN f.items : h[j] = x
                BY <2>1, <2>2, <3>2
            <4> QED
                BY <2>1, <2>3, <3>2, <4>1
        <3> QED
            BY <3>1, <3>2
    <2>4. ASSUME B = {h[k]} PROVE A = {k}
        <3>1. k \in A
            BY <2>1, <2>4
        <3>2. ASSUME NEW j \in A PROVE j = k
            BY <2>1, <2>2, <2>4, <3>2
        <3> QED
            BY <3>1, <3>2
    <2> QED
        BY <2>3, <2>4 DEF A, B
<1>4. BoundLabel(text, f.items, k) = BoundLabel(text, g.items, h[k])
    <2> DEFINE rules == {rule \in text.rules : Inside(text, f.items, rule) = {k}}
               same == {rule \in text.rules : Inside(text, g.items, rule) = {h[k]}}
               bound(e, of) == IF text.rules = {} THEN e.label
                               ELSE IF of # {} THEN (CHOOSE rule \in of : TRUE).label
                               ELSE IF e.label \in e.span.says THEN e.label ELSE None
    <2>1. rules = same
        BY <1>3
    <2>2. /\ BoundLabel(text, f.items, k) = bound(f.items[k], rules)
          /\ BoundLabel(text, g.items, h[k]) = bound(g.items[h[k]], same)
        BY DEF BoundLabel
    <2> HIDE DEF rules, same, bound
    <2> QED
        BY <1>1, <2>1, <2>2
<1> QED
    BY <1>1, <1>2, <1>4 DEF LocatedEntity

\* The identity and the signature of an item, by its position.
LEMMA SignatureIs ==
    ASSUME NEW f, Fits(text, f), NEW k \in DOMAIN f.items
    PROVE  LET o == AssignIds(text, f)
               e == LocatedEntity(text, f.items, k)
               identity == IF Keeps(text, f.items, k) THEN f.items[k].name ELSE e.line
           IN  /\ Identity(o, CanonicalId(text, f.items, k)) = identity
               /\ EntitySignature(o, CanonicalId(text, f.items, k))
                    = [identity |-> identity, type |-> e.type,
                       label |-> IF identity = COLLAPSED THEN None ELSE e.label]
<1> DEFINE o == AssignIds(text, f)
           e == LocatedEntity(text, f.items, k)
           i == CanonicalId(text, f.items, k)
           identity == IF Keeps(text, f.items, k) THEN f.items[k].name ELSE e.line
<1>1. o.entity[i] = e
    BY EntitiesAre
<1>2. /\ Keeps(text, f.items, k) => i = f.items[k].name /\ i \in Verbatim
      /\ ~Keeps(text, f.items, k) => i \notin Verbatim
    BY CanonicalIs, IdAssumption
<1> HIDE DEF o, e, i
<1>3. Identity(o, i) = identity
    BY <1>1, <1>2 DEF Identity
<1> HIDE DEF identity
<1>4. EntitySignature(o, i) = [identity |-> identity, type |-> e.type,
                               label |-> IF identity = COLLAPSED THEN None ELSE e.label]
    BY <1>1, <1>3 DEF EntitySignature
<1> QED
    BY <1>3, <1>4 DEF o, e, i, identity

\* A signature is counted over the positions of the list.
LEMMA CountIs ==
    ASSUME NEW f, Fits(text, f), NEW sig
    PROVE  EntityCount(AssignIds(text, f), sig)
             = Cardinality({k \in DOMAIN f.items :
                   EntitySignature(AssignIds(text, f), CanonicalId(text, f.items, k)) = sig})
<1> DEFINE o == AssignIds(text, f)
           id == [k \in DOMAIN f.items |-> CanonicalId(text, f.items, k)]
           A == {k \in DOMAIN f.items : EntitySignature(o, CanonicalId(text, f.items, k)) = sig}
           B == {i \in Entities(o) : EntitySignature(o, i) = sig}
<1>1. Entities(o) = {id[k] : k \in DOMAIN f.items}
    <2>1. Entities(o) = {CanonicalId(text, f.items, k) : k \in DOMAIN f.items}
        BY EntitiesAre
    <2>2. \A k \in DOMAIN f.items : id[k] = CanonicalId(text, f.items, k)
        OBVIOUS
    <2> HIDE DEF o, id
    <2> QED
        BY <2>1, <2>2
<1>2. \A j, k \in DOMAIN f.items : id[j] = id[k] => j = k
    BY IdsApart
<1>3. A = {k \in DOMAIN f.items : EntitySignature(o, id[k]) = sig}
    OBVIOUS
<1>4. DOMAIN id = DOMAIN f.items /\ id = [k \in DOMAIN f.items |-> id[k]]
    OBVIOUS
<1> HIDE DEF o, id
<1>5. id \in Bijection(DOMAIN f.items, Entities(o))
    <2>1. id \in [DOMAIN f.items -> Entities(o)]
        BY <1>1, <1>4
    <2> QED
        BY <1>1, <1>2, <2>1 DEF Bijection, Injection, Surjection, IsInjective
<1>6. A \in SUBSET DOMAIN f.items /\ B \in SUBSET Entities(o)
    OBVIOUS
<1>7. \A k \in DOMAIN f.items : k \in A <=> id[k] \in B
    BY <1>1, <1>3
<1>8. IsFiniteSet(DOMAIN f.items)
    BY ItemIs
<1> HIDE DEF A, B
<1>9. Cardinality(A) = Cardinality(B)
    BY <1>5, <1>6, <1>7, <1>8, CarriedCount
<1> QED
    BY <1>9 DEF A, B, o, EntityCount

\* An item has the same identity and the same signature wherever it stands.
LEMMA SignatureCarried ==
    ASSUME NEW f, NEW g, Fits(text, f), Fits(text, g), OneKeeper(f), NEW h,
           Permutes(h, f.items, g.items), NEW k \in DOMAIN f.items
    PROVE  /\ Identity(AssignIds(text, f), CanonicalId(text, f.items, k))
                = Identity(AssignIds(text, g), CanonicalId(text, g.items, h[k]))
           /\ EntitySignature(AssignIds(text, f), CanonicalId(text, f.items, k))
                = EntitySignature(AssignIds(text, g), CanonicalId(text, g.items, h[k]))
<1> DEFINE made(o, i, e, identity) ==
              /\ Identity(o, i) = identity
              /\ EntitySignature(o, i) = [identity |-> identity, type |-> e.type,
                                          label |-> IF identity = COLLAPSED THEN None ELSE e.label]
           e1 == LocatedEntity(text, f.items, k)
           e2 == LocatedEntity(text, g.items, h[k])
           identity1 == IF Keeps(text, f.items, k) THEN f.items[k].name ELSE e1.line
           identity2 == IF Keeps(text, g.items, h[k]) THEN g.items[h[k]].name ELSE e2.line
<1>1. /\ h[k] \in DOMAIN g.items /\ g.items[h[k]] = f.items[k]
      /\ Keeps(text, f.items, k) <=> Keeps(text, g.items, h[k])
      /\ e1 = e2
    BY ItemCarried
<1>2. made(AssignIds(text, f), CanonicalId(text, f.items, k), e1, identity1)
    BY SignatureIs
<1>3. made(AssignIds(text, g), CanonicalId(text, g.items, h[k]), e2, identity2)
    BY <1>1, SignatureIs
<1>4. identity1 = identity2
    <2> HIDE DEF e1, e2
    <2> QED
        BY <1>1
<1> HIDE DEF e1, e2, identity1, identity2
<1> QED
    BY <1>1, <1>2, <1>3, <1>4

\* Runs that found the same items produced each signature the same number of times.
LEMMA EntitiesCarried ==
    ASSUME NEW f, NEW g, Fits(text, f), Fits(text, g), OneKeeper(f), NEW h,
           Permutes(h, f.items, g.items), NEW sig
    PROVE  EntityCount(AssignIds(text, f), sig) = EntityCount(AssignIds(text, g), sig)
<1> DEFINE signed(e, k) == EntitySignature(AssignIds(text, e), CanonicalId(text, e.items, k))
           A == {k \in DOMAIN f.items : signed(f, k) = sig}
           B == {k \in DOMAIN g.items : signed(g, k) = sig}
<1>1. /\ EntityCount(AssignIds(text, f), sig) = Cardinality(A)
      /\ EntityCount(AssignIds(text, g), sig) = Cardinality(B)
    BY CountIs
<1>2. /\ h \in Bijection(DOMAIN f.items, DOMAIN g.items) /\ IsFiniteSet(DOMAIN f.items)
      /\ \A k \in DOMAIN f.items : h[k] \in DOMAIN g.items
    BY ItemIs, Fun_BijectionProperties DEF Permutes
<1>3. \A k \in DOMAIN f.items : signed(f, k) = signed(g, h[k])
    BY SignatureCarried
<1> HIDE DEF signed
<1>4. A \in SUBSET DOMAIN f.items /\ B \in SUBSET DOMAIN g.items
    OBVIOUS
<1>5. \A k \in DOMAIN f.items : k \in A <=> h[k] \in B
    BY <1>2, <1>3
<1> HIDE DEF A, B
<1> QED
    BY <1>1, <1>2, <1>4, <1>5, CarriedCount

\* A local end is rewritten to the same item in any order of the list, so it is signed the
\* same; a verbatim or a foreign one is signed by itself.
LEMMA EndCarried ==
    ASSUME NEW f, NEW g, Fits(text, f), Fits(text, g), OneKeeper(f), NEW h,
           Permutes(h, f.items, g.items), NEW end,
           \/ end \in Reference
           \/ end \in GivenName /\ \E j \in DOMAIN f.items : f.items[j].name = end
    PROVE  EndSignature(AssignIds(text, f), Rewritten(text, f.items, end))
             = EndSignature(AssignIds(text, g), Rewritten(text, g.items, end))
<1>1. CASE end \in Reference
    <2>1. end \notin Id
        BY <1>1, EndAssumption DEF Id
    <2> QED
        BY <1>1, <2>1 DEF Rewritten, EndSignature
<1>2. CASE end \in Verbatim
    <2>1. end \notin Reference /\ end \in Id
        BY <1>2, EndAssumption DEF Id
    <2> QED
        BY <1>2, <2>1 DEF Rewritten, EndSignature, Identity
<1>3. CASE end \in Placeholder /\ end \notin Reference
    <2>1. /\ end \in GivenName /\ end \notin Verbatim
          /\ \E j \in DOMAIN f.items : f.items[j].name = end
        BY <1>3, SectionAssumption DEF GivenName
    <2>2. PICK k \in DOMAIN f.items :
             f.items[k].name = end /\ Rewritten(text, f.items, end) = CanonicalId(text, f.items, k)
        BY <2>1, RewrittenIs
    <2>3. h[k] \in DOMAIN g.items /\ g.items[h[k]].name = end
        BY <2>2, ItemCarried
    <2>4. PICK j \in DOMAIN g.items :
             g.items[j].name = end /\ Rewritten(text, g.items, end) = CanonicalId(text, g.items, j)
        BY <2>1, <2>3, RewrittenIs
    <2>5. j = h[k]
        BY <1>3, <2>3, <2>4 DEF Fits, IsFound
    <2>6. CanonicalId(text, f.items, k) \in Id /\ CanonicalId(text, g.items, h[k]) \in Id
        BY <2>3, CanonicalIs DEF Id
    <2>7. Identity(AssignIds(text, f), CanonicalId(text, f.items, k))
            = Identity(AssignIds(text, g), CanonicalId(text, g.items, h[k]))
        BY SignatureCarried
    <2> QED
        BY <2>2, <2>4, <2>5, <2>6, <2>7 DEF EndSignature
<1> QED
    BY <1>1, <1>2, <1>3 DEF GivenName

\* Runs that found the same items and links produced each link signature as often.
LEMMA LinksCarried ==
    ASSUME NEW f, NEW g, Fits(text, f), Fits(text, g), OneKeeper(f), NEW h,
           Permutes(h, f.items, g.items), NEW l, Permutes(l, f.links, g.links), NEW sig
    PROVE  LinkCount(AssignIds(text, f), sig) = LinkCount(AssignIds(text, g), sig)
<1> DEFINE of == AssignIds(text, f)
           og == AssignIds(text, g)
           A == {s \in DOMAIN f.links : LinkSignature(of, s) = sig}
           B == {s \in DOMAIN g.links : LinkSignature(og, s) = sig}
<1>1. Links(of) = DOMAIN f.links /\ Links(og) = DOMAIN g.links
    BY LinksAre
<1>2. /\ l \in Bijection(DOMAIN f.links, DOMAIN g.links)
      /\ \A s \in DOMAIN f.links : l[s] \in DOMAIN g.links /\ g.links[l[s]] = f.links[s]
    BY Fun_BijectionProperties DEF Permutes
<1>3. IsFiniteSet(DOMAIN f.links)
    BY LinksFinite
<1>4. ASSUME NEW s \in DOMAIN f.links PROVE LinkSignature(of, s) = LinkSignature(og, l[s])
    <2>1. /\ of.link[s].type = f.links[s].type
          /\ of.link[s].source = Rewritten(text, f.items, f.links[s].source)
          /\ of.link[s].target = Rewritten(text, f.items, f.links[s].target)
        BY LinksAre
    <2>2. /\ og.link[l[s]].type = f.links[s].type
          /\ og.link[l[s]].source = Rewritten(text, g.items, f.links[s].source)
          /\ og.link[l[s]].target = Rewritten(text, g.items, f.links[s].target)
        BY <1>2, LinksAre
    <2>3. \A end \in {f.links[s].source, f.links[s].target} :
             EndSignature(of, Rewritten(text, f.items, end))
               = EndSignature(og, Rewritten(text, g.items, end))
        <3>1. \A end \in {f.links[s].source, f.links[s].target} :
                 \/ end \in Reference
                 \/ end \in GivenName /\ \E j \in DOMAIN f.items : f.items[j].name = end
            BY LinksAre
        <3> QED
            BY <3>1, EndCarried
    <2> HIDE DEF of, og
    <2> QED
        BY <2>1, <2>2, <2>3 DEF LinkSignature
<1> HIDE DEF of, og
<1>5. A \in SUBSET DOMAIN f.links /\ B \in SUBSET DOMAIN g.links
    OBVIOUS
<1>6. \A s \in DOMAIN f.links : s \in A <=> l[s] \in B
    BY <1>2, <1>4
<1>7. LinkCount(of, sig) = Cardinality(A) /\ LinkCount(og, sig) = Cardinality(B)
    BY <1>1 DEF LinkCount
<1> HIDE DEF A, B
<1>8. Cardinality(A) = Cardinality(B)
    BY <1>2, <1>3, <1>5, <1>6, CarriedCount
<1> QED
    BY <1>7, <1>8 DEF of, og

-----------------------------------------------------------------------------
(* Routing what the runs of one section found.                             *)

\* When the runs produced every signature the same number of times, no row says that they
\* disagree.
LEMMA NoneDisagree ==
    ASSUME NEW rs, NEW decided, NEW narrow,
           \A sig : EntityShared(rs, sig) /\ LinkShared(rs, sig),
           NEW row \in RouteRuns(rs, decided, narrow).review
    PROVE  Reason("runs_disagree") \notin row.reasons
<1> DEFINE before == Plain(rs) \cup Released(rs, decided)
           accepted == RouteRuns(rs, decided, narrow).entities
           held == Held(rs, decided, narrow)
<1>1. \/ \E i \in Entities(rs[1]) \ accepted : row = EntityRow(rs, i)
      \/ \E s \in held : row = LinkRow(rs, s, before, accepted)
      \/ \E rows : row \in Leftovers(rs, rows)
    BY ReviewRows
<1>2. ASSUME NEW i, row = EntityRow(rs, i) PROVE Reason("runs_disagree") \notin row.reasons
    BY <1>2, EntityReasonNames DEF EntityRow
<1>3. ASSUME NEW s, row = LinkRow(rs, s, before, accepted)
      PROVE  Reason("runs_disagree") \notin row.reasons
    <2> HIDE DEF before, accepted
    <2>1. Reason("runs_disagree") \notin LinkReasons(rs, s, accepted)
        BY LinkReasonNames
    <2> QED
        BY <1>3, <2>1 DEF LinkRow, HeldReasons
<1>4. ASSUME NEW rows PROVE row \notin Leftovers(rs, rows)
    <2>1. DifferingEntities(rs) = {} /\ DifferingLinks(rs) = {}
        BY DEF DifferingEntities, DifferingLinks
    <2> QED
        BY <2>1 DEF Leftovers
<1> HIDE DEF before, accepted, held
<1> QED
    BY <1>1, <1>2, <1>3, <1>4

\* Routing's steps are those of the runs of one section: they leave what was found alone.
LEMMA IdsFeedRouting == IdSpec => Spec
<1>1. IdInit => Init
    BY DEF IdInit
<1>2. [IdNext]_idVars => [Next]_vars
    BY DEF IdNext, idVars, vars
<1> QED
    BY <1>1, <1>2, PTL DEF IdSpec, Spec

\* What is routed is what the runs of one section found, with the ids of each run.
FoundInv ==
    \E s \in Sections :
        /\ text = s.text
        /\ \A r \in Run : found[r] \in s.findings /\ runs[r] = AssignIds(text, found[r])

\* No setting changes what the runs found, nor the ids it was given.
THEOREM FindingsAreKept == IdSpec => []FoundInv
<1>1. IdInit => FoundInv
    <2> SUFFICES ASSUME IdInit PROVE FoundInv
        OBVIOUS
    <2>0. PICK u \in Identifications : \E pick \in [Run -> u.runs] :
             /\ text = u.text
             /\ found = [r \in Run |-> pick[r].found] /\ runs = [r \in Run |-> pick[r].output]
        BY DEF IdInit
    <2>1. PICK pick \in [Run -> u.runs] :
             /\ text = u.text
             /\ found = [r \in Run |-> pick[r].found] /\ runs = [r \in Run |-> pick[r].output]
        BY <2>0
    <2>2. PICK s \in Sections :
             u = [text |-> s.text,
                  runs |-> {[found |-> f, output |-> AssignIds(s.text, f)] : f \in s.findings}]
        BY DEF Identifications
    <2>3. ASSUME NEW r \in Run
          PROVE  found[r] \in s.findings /\ runs[r] = AssignIds(text, found[r])
        <3>1. pick[r] \in {[found |-> f, output |-> AssignIds(s.text, f)] : f \in s.findings}
            BY <2>2
        <3>2. PICK f \in s.findings : pick[r] = [found |-> f, output |-> AssignIds(s.text, f)]
            BY <3>1
        <3> QED
            BY <2>1, <2>2, <3>2
    <2>4. text = s.text
        BY <2>1, <2>2
    <2> QED
        BY <2>3, <2>4 DEF FoundInv
<1>2. FoundInv /\ [IdNext]_idVars => FoundInv'
    BY DEF FoundInv, IdNext, idVars, vars, Next, ApplyCodePass, ApplyNarrowHold
<1> QED
    BY <1>1, <1>2, PTL DEF IdSpec

\* Runs that found the same items and links, in whatever order each listed and numbered
\* them, are never held apart, as long as no id has two current items, or two struck ones
\* alone, to choose its keeper from (assign_ids(), label_binding_rules(), compare_runs()).
THEOREM SameFindingsAreNotHeldApart == IdSpec => []SameFindingsAgree
<1>1. RoutedInv /\ FoundInv => SameFindingsAgree
    <2> SUFFICES ASSUME RoutedInv, FoundInv,
                        \A r \in Run : SameFindings(found[1], found[r]) /\ OneKeeper(found[1]),
                        NEW row \in routed.review
                 PROVE  Reason("runs_disagree") \notin row.reasons
        BY DEF SameFindingsAgree
    <2>1. 1 \in Run
        BY RunsAssumption DEF Run
    <2>2. \A r \in Run : Fits(text, found[r]) /\ runs[r] = AssignIds(text, found[r])
        BY FindingsFit DEF FoundInv
    <2>3. ASSUME NEW r \in Run, NEW sig
          PROVE  /\ EntityCount(runs[r], sig) = EntityCount(runs[1], sig)
                 /\ LinkCount(runs[r], sig) = LinkCount(runs[1], sig)
        <3> DEFINE f == found[1]
                   g == found[r]
        <3>1. Fits(text, f) /\ Fits(text, g) /\ OneKeeper(f) /\ SameFindings(f, g)
            BY <2>1, <2>2
        <3>2. runs[1] = AssignIds(text, f) /\ runs[r] = AssignIds(text, g)
            BY <2>1, <2>2
        <3> HIDE DEF f, g
        <3>3. PICK h : Permutes(h, f.items, g.items)
            <4>1. IsFiniteSet(DOMAIN f.items) /\ IsFiniteSet(DOMAIN g.items)
                BY <3>1, ItemIs
            <4>2. SameList(f.items, g.items)
                BY <3>1 DEF SameFindings
            <4> QED
                BY <4>1, <4>2, SameListPermutes
        <3>4. PICK l : Permutes(l, f.links, g.links)
            <4>1. IsFiniteSet(DOMAIN f.links) /\ IsFiniteSet(DOMAIN g.links)
                BY <3>1, LinksFinite
            <4>2. SameList(f.links, g.links)
                BY <3>1 DEF SameFindings
            <4> QED
                BY <4>1, <4>2, SameListPermutes
        <3>5. EntityCount(AssignIds(text, f), sig) = EntityCount(AssignIds(text, g), sig)
            BY <3>1, <3>3, EntitiesCarried
        <3>6. LinkCount(AssignIds(text, f), sig) = LinkCount(AssignIds(text, g), sig)
            BY <3>1, <3>3, <3>4, LinksCarried
        <3> QED
            BY <3>2, <3>5, <3>6
    <2>4. \A sig : EntityShared(runs, sig) /\ LinkShared(runs, sig)
        BY <2>3 DEF EntityShared, LinkShared
    <2> QED
        BY <2>4, NoneDisagree DEF RoutedInv
<1> QED
    BY <1>1, FindingsAreKept, IdsFeedRouting, RoutedAfresh, PTL

-----------------------------------------------------------------------------
(* The order of the runs.                                                  *)

\* Only which run comes first matters: the others may settle in any order, and the same
\* items are accepted, released and queued, for the same reasons (_tally(),
\* code_decided_ids(), route_runs()).
THEOREM LaterRunsCommute ==
    ASSUME NEW rs, NEW p \in Bijection(Run, Run), p[1] = 1, NEW bs, NEW narrow
    PROVE  LET sr == [r \in Run |-> rs[p[r]]] IN
           /\ CodeDecided(sr, bs) = CodeDecided(rs, bs)
           /\ \A decided : RouteRuns(sr, decided, narrow) = RouteRuns(rs, decided, narrow)
<1> DEFINE sr == [r \in Run |-> rs[p[r]]]
<1>1. 1 \in Run
    BY RunsAssumption DEF Run
<1>2. /\ \A r \in Run : p[r] \in Run /\ sr[r] = rs[p[r]]
      /\ \A r \in Run : \E q \in Run : p[q] = r
    BY Fun_BijectionProperties
<1>3. sr[1] = rs[1]
    BY <1>1, <1>2
<1> HIDE DEF sr
<1>4. ASSUME NEW sig PROVE EntityShared(sr, sig) <=> EntityShared(rs, sig)
    BY <1>2, <1>3 DEF EntityShared
<1>5. ASSUME NEW sig PROVE LinkShared(sr, sig) <=> LinkShared(rs, sig)
    BY <1>2, <1>3 DEF LinkShared
<1>6. EntitySignatures(sr) = EntitySignatures(rs) /\ LinkSignatures(sr) = LinkSignatures(rs)
    <2> DEFINE entities(o) == {EntitySignature(o, i) : i \in Entities(o)}
               links(o) == {LinkSignature(o, s) : s \in Links(o)}
    <2>1. /\ EntitySignatures(sr) = UNION {entities(sr[r]) : r \in Run}
          /\ EntitySignatures(rs) = UNION {entities(rs[r]) : r \in Run}
          /\ LinkSignatures(sr) = UNION {links(sr[r]) : r \in Run}
          /\ LinkSignatures(rs) = UNION {links(rs[r]) : r \in Run}
        BY DEF EntitySignatures, LinkSignatures
    <2> HIDE DEF entities, links
    <2>2. /\ {entities(sr[r]) : r \in Run} = {entities(rs[r]) : r \in Run}
          /\ {links(sr[r]) : r \in Run} = {links(rs[r]) : r \in Run}
        BY <1>2
    <2> QED
        BY <2>1, <2>2
<1>7. DifferingEntities(sr) = DifferingEntities(rs) /\ DifferingLinks(sr) = DifferingLinks(rs)
    BY <1>4, <1>5, <1>6 DEF DifferingEntities, DifferingLinks
<1>8. /\ \A i : EntityReasons(sr, i) = EntityReasons(rs, i)
      /\ \A s, accepted : LinkReasons(sr, s, accepted) = LinkReasons(rs, s, accepted)
    BY <1>3, <1>4, <1>5 DEF EntityReasons, LinkReasons
<1>9. \A i : FlagAloneReleasable(sr, i) <=> FlagAloneReleasable(rs, i)
    BY <1>2 DEF FlagAloneReleasable
<1>10. CodeDecided(sr, bs) = CodeDecided(rs, bs)
    BY <1>2 DEF CodeDecided
<1>11. ASSUME NEW decided PROVE RouteRuns(sr, decided, narrow) = RouteRuns(rs, decided, narrow)
    <2>1. Plain(sr) = Plain(rs) /\ Released(sr, decided) = Released(rs, decided)
        BY <1>3, <1>8, <1>9 DEF Plain, Released
    <2>2. NarrowEntities(sr, decided, narrow) = NarrowEntities(rs, decided, narrow)
        BY <1>3, <1>8, <2>1 DEF NarrowEntities
    <2>3. \A before, accepted :
             NarrowLinks(sr, before, accepted, narrow) = NarrowLinks(rs, before, accepted, narrow)
        BY <1>3, <1>8 DEF NarrowLinks
    <2>4. \A s, before, accepted :
             HeldReasons(sr, s, before, accepted) = HeldReasons(rs, s, before, accepted)
        BY <1>8 DEF HeldReasons
    <2>5. /\ \A accepted : EntityRows(sr, accepted) = EntityRows(rs, accepted)
          /\ \A held, before, accepted :
                LinkRows(sr, held, before, accepted) = LinkRows(rs, held, before, accepted)
        BY <1>3, <1>8, <2>4 DEF EntityRows, LinkRows
    <2>6. \A rows : Leftovers(sr, rows) = Leftovers(rs, rows)
        BY <1>7 DEF Leftovers
    <2> DEFINE before == Plain(rs) \cup Released(rs, decided)
               narrowed == NarrowEntities(rs, decided, narrow)
               accepted == before \cup narrowed
               freed == NarrowLinks(rs, before, accepted, narrow)
               unfreed(xs) == {s \in Links(xs[1]) \ freed : HeldReasons(xs, s, before, accepted) # {}}
               held == unfreed(rs)
               rows == EntityRows(rs, accepted) \cup LinkRows(rs, held, before, accepted)
               unit(xs, left) ==
                   [entities |-> accepted, links |-> Links(xs[1]) \ held, released |-> Released(rs, decided),
                    narrowEntities |-> narrowed, narrowLinks |-> freed,
                    review |-> rows \cup left]
    <2>7. unfreed(sr) = held
        BY <1>3, <2>4
    <2>8. RouteRuns(rs, decided, narrow) = unit(rs, Leftovers(rs, rows))
        BY DEF RouteRuns
    <2>9. RouteRuns(sr, decided, narrow) = unit(sr, Leftovers(sr, rows))
        <3> HIDE DEF freed, held
        <3>1. NarrowLinks(sr, before, accepted, narrow) = freed
            BY <2>3 DEF freed
        <3>2. EntityRows(sr, accepted) \cup LinkRows(sr, held, before, accepted) = rows
            BY <2>5
        <3> QED
            BY <2>1, <2>2, <2>7, <3>1, <3>2 DEF RouteRuns
    <2>10. unit(sr, Leftovers(sr, rows)) = unit(rs, Leftovers(rs, rows))
        <3> HIDE DEF rows
        <3> QED
            BY <1>3, <2>6
    <2> QED
        BY <2>8, <2>9, <2>10
<1> QED
    BY <1>10, <1>11 DEF sr
=============================================================================
