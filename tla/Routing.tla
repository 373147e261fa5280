------------------------------- MODULE Routing -------------------------------
(***************************************************************************)
(* Routing one unit: the runs of the unit compared by the count of each    *)
(* signature, and every item of the first run accepted or queued           *)
(* (extract/compare.py), plainly, with the code pass (extract/codepass.py) *)
(* and with the narrow hold rule, in the order `load` applies them.        *)
(*                                                                         *)
(* An output is what one run found once its ids are assigned: at most one  *)
(* entity per canonical id, and any number of links, one per Slot of its   *)
(* list.  The routed unit is kept as the sets of ids and slots it accepts, *)
(* those each rule released, and the rows of the review queue.             *)
(***************************************************************************)
EXTENDS Integers, FiniteSets

CONSTANTS
    Verbatim,     \* canonical ids of the form <record>/<id>
    Derived,      \* canonical ids of the form <record>#<slug>:<n>
    Line,         \* the lines a span may be located on
    Label,        \* normalized labels
    Flag,         \* the known trap flags
    RELEASED_FLAGS, \* those the code pass may release
    Reference,    \* what an end outside the unit may name
    LinkType,
    Slot,         \* the positions of a run's list of relationships
    Runs,         \* how many settled runs are compared
    Outputs,      \* the outputs a run may have had
    MaxBullets,   \* model bound: the bullets that may carry one id
    None          \* no value

ASSUME IdAssumption == Verbatim \cap Derived = {} /\ None \notin Verbatim \cup Derived \cup Line
ASSUME EndAssumption == Reference \cap (Verbatim \cup Derived) = {}
ASSUME FlagAssumption == RELEASED_FLAGS \subseteq Flag
ASSUME RunsAssumption == Runs \in Nat /\ Runs >= 2
ASSUME BulletsAssumption == MaxBullets \in Nat
ASSUME SlotAssumption == None \notin Slot

Id == Verbatim \cup Derived
End == Id \cup Reference
Run == 1 .. Runs
\* The types routing tells apart: a criterion, any other one (a Decision here), none.
EntityType == {"AcceptanceCriterion", "Decision", "UNCLASSIFIED"}

\* `says` is the verbatim id the model wrote, kept or not.
Entity == [type : EntityType, line : Line \cup {None}, label : Label \cup {None},
           says : Verbatim \cup {None}, flags : SUBSET Flag]
Link == [type : LinkType, source : End, target : End, flags : SUBSET Flag]
Output == [entity : [Id -> Entity \cup {None}], link : [Slot -> Link \cup {None}]]

VARIABLES
    runs,     \* the identified output of every settled run
    bullets,  \* how many bullets of the unit's text parse to each verbatim id
    set,      \* the settings the unit is routed under
    routed    \* the RoutedUnit

vars == <<runs, bullets, set, routed>>

Entities(o) == {i \in Id : o.entity[i] # None}
Links(o) == {s \in Slot : o.link[s] # None}
LocalEnds(k) == {k.source, k.target} \cap Id
\* assign_ids(): a verbatim id is kept by one entity that says it, and a local end names
\* an entity of its own output.
Identified(o) ==
    /\ \A i \in Entities(o) \cap Verbatim : o.entity[i].says = i
    /\ \A i \in Entities(o) : o.entity[i].says # None => o.entity[i].says \in Entities(o)
    /\ \A s \in Links(o) : LocalEnds(o.link[s]) \subseteq Entities(o)
ASSUME OutputAssumption == \A o \in Outputs : o \in Output /\ Identified(o)
-----------------------------------------------------------------------------
(* compare_runs(): signatures and their counts.                            *)

COLLAPSED == None

\* entity_identity(): a verbatim id stands, a derived one is the line it was located on.
Identity(o, i) == IF i \in Verbatim THEN i ELSE o.entity[i].line

EntitySignature(o, i) ==
    LET identity == Identity(o, i) IN
    [identity |-> identity, type |-> o.entity[i].type,
     label |-> IF identity = COLLAPSED THEN None ELSE o.entity[i].label]

EndSignature(o, e) == IF e \in Id THEN Identity(o, e) ELSE e
LinkSignature(o, s) ==
    [type |-> o.link[s].type, source |-> EndSignature(o, o.link[s].source),
     target |-> EndSignature(o, o.link[s].target)]

EntitySignatures(rs) == UNION {{EntitySignature(rs[r], i) : i \in Entities(rs[r])} : r \in Run}
LinkSignatures(rs) == UNION {{LinkSignature(rs[r], s) : s \in Links(rs[r])} : r \in Run}

EntityCount(o, sig) == Cardinality({i \in Entities(o) : EntitySignature(o, i) = sig})
LinkCount(o, sig) == Cardinality({s \in Links(o) : LinkSignature(o, s) = sig})

\* Mutant of EntityShared: runs compared as sets.
EntitySharedAsSet(rs, sig) == \A r \in Run : EntityCount(rs[r], sig) > 0

\* _tally(): shared only when every run produced it the same number of times.
EntityShared(rs, sig) == \A r \in Run : EntityCount(rs[r], sig) = EntityCount(rs[1], sig)
LinkShared(rs, sig) == \A r \in Run : LinkCount(rs[r], sig) = LinkCount(rs[1], sig)

DifferingEntities(rs) == {sig \in EntitySignatures(rs) : ~EntityShared(rs, sig)}
DifferingLinks(rs) == {sig \in LinkSignatures(rs) : ~LinkShared(rs, sig)}
-----------------------------------------------------------------------------
(* The reasons an item is held, each a name and the id it waits on.        *)

Reason(name) == <<name, None>>
Waiting(i) == <<"endpoint_not_accepted", i>>
NARROW_REASONS == {"known_trap_flag", "endpoint_not_accepted"}

EntityReasons(rs, i) ==
    LET e == rs[1].entity[i]
        sig == EntitySignature(rs[1], i)
    IN  {Reason(n) : n \in
            {m \in {"runs_disagree"} : ~EntityShared(rs, sig)}
            \cup {m \in {"known_trap_flag"} : e.flags # {}}
            \cup {m \in {"unclassified_type"} : e.type = "UNCLASSIFIED"}
            \cup {m \in {"span_not_located"} : sig.identity = COLLAPSED}}

LinkReasons(rs, s, accepted) ==
    LET k == rs[1].link[s] IN
    {Reason(n) : n \in
        {m \in {"runs_disagree"} : ~LinkShared(rs, LinkSignature(rs[1], s))}
        \cup {m \in {"known_trap_flag"} : k.flags # {}}}
    \cup {Waiting(i) : i \in (LocalEnds(k) \cap Entities(rs[1])) \ accepted}

\* narrow_releasable()
NarrowReleasable(reasons) == reasons # {} /\ \A r \in reasons : r[1] \in NARROW_REASONS

\* code_decided_ids(): an id one bullet parses to, and every run settles on.
Settles(o, v) ==
    /\ {i \in Entities(o) : o.entity[i].says = v} = {v}
    /\ o.entity[v].type = "AcceptanceCriterion"
CodeDecided(rs, bs) == {v \in Verbatim : bs[v] = 1 /\ \A r \in Run : Settles(rs[r], v)}

\* Mutant of FlagAloneReleasable: only the first run's flags are read.
FirstFlagAlone(rs, i) == rs[1].entity[i].flags \subseteq RELEASED_FLAGS

\* _flag_alone_releasable()
FlagAloneReleasable(rs, i) ==
    \A r \in Run : i \in Entities(rs[r]) => rs[r].entity[i].flags \subseteq RELEASED_FLAGS
-----------------------------------------------------------------------------
(* route_runs()                                                            *)

Plain(rs) == {i \in Entities(rs[1]) : EntityReasons(rs, i) = {}}

Released(rs, decided) ==
    {i \in Entities(rs[1]) \cap decided :
        EntityReasons(rs, i) = {Reason("known_trap_flag")} /\ FlagAloneReleasable(rs, i)}

\* Mutant of NarrowEntities: the code pass is not looked at first.
NarrowEntitiesToo(rs, decided, narrow) ==
    {i \in Entities(rs[1]) : narrow /\ NarrowReleasable(EntityReasons(rs, i))}

NarrowEntities(rs, decided, narrow) ==
    {i \in Entities(rs[1]) \ Released(rs, decided) :
        narrow /\ NarrowReleasable(EntityReasons(rs, i))}

\* Mutants of NarrowLinks: a link is released whatever it waits on, and one only when it
\* waits on nothing the rule itself released.
NarrowLinksAnyway(rs, before, accepted, narrow) ==
    {s \in Links(rs[1]) : narrow /\ NarrowReleasable(LinkReasons(rs, s, before))}
NarrowLinksBefore(rs, before, accepted, narrow) ==
    {s \in Links(rs[1]) :
        /\ narrow /\ NarrowReleasable(LinkReasons(rs, s, before))
        /\ \A i \in Id : Waiting(i) \in LinkReasons(rs, s, before) => i \in before}

\* A link is read against what was accepted without the narrow hold rule, and released
\* when every entity it waits on is accepted with it.
NarrowLinks(rs, before, accepted, narrow) ==
    {s \in Links(rs[1]) :
        /\ narrow /\ NarrowReleasable(LinkReasons(rs, s, before))
        /\ \A i \in Id : Waiting(i) \in LinkReasons(rs, s, before) => i \in accepted}

\* The reasons of a link still held: its row names only the ends still waiting.
HeldReasons(rs, s, before, accepted) == LinkReasons(rs, s, accepted)

\* The rows of the first run's items: each says what it is of and every reason it is held.
EntityRows(rs, accepted) ==
    {[of |-> "entity", item |-> i, sig |-> EntitySignature(rs[1], i),
      reasons |-> EntityReasons(rs, i)] : i \in Entities(rs[1]) \ accepted}
LinkRows(rs, held, before, accepted) ==
    {[of |-> "link", item |-> s, sig |-> LinkSignature(rs[1], s),
      reasons |-> HeldReasons(rs, s, before, accepted)] : s \in held}
Seen(rows, of, sig) == \E row \in rows : row.of = of /\ row.sig = sig

\* Mutant of Leftovers: a link only later runs produced is left out.
EntityLeftovers(rs, rows) ==
    {[of |-> "entity", item |-> None, sig |-> sig, reasons |-> {Reason("runs_disagree")}] :
        sig \in {d \in DifferingEntities(rs) : ~Seen(rows, "entity", d)}}

\* A signature no first run row carries, because only later runs produced it.
Leftovers(rs, rows) ==
    {[of |-> "entity", item |-> None, sig |-> sig,
      reasons |-> {Reason("runs_disagree")}
                  \cup {Reason(n) : n \in {m \in {"span_not_located"} : sig.identity = COLLAPSED}}] :
        sig \in {d \in DifferingEntities(rs) : ~Seen(rows, "entity", d)}}
    \cup {[of |-> "link", item |-> None, sig |-> sig, reasons |-> {Reason("runs_disagree")}] :
        sig \in {d \in DifferingLinks(rs) : ~Seen(rows, "link", d)}}

RouteRuns(rs, decided, narrow) ==
    LET released == Released(rs, decided)
        before == Plain(rs) \cup released
        narrowed == NarrowEntities(rs, decided, narrow)
        accepted == before \cup narrowed
        freed == NarrowLinks(rs, before, accepted, narrow)
        held == {s \in Links(rs[1]) \ freed : HeldReasons(rs, s, before, accepted) # {}}
        rows == EntityRows(rs, accepted) \cup LinkRows(rs, held, before, accepted)
    IN  [entities |-> accepted, links |-> Links(rs[1]) \ held, released |-> released,
         narrowEntities |-> narrowed, narrowLinks |-> freed,
         review |-> rows \cup Leftovers(rs, rows)]
-----------------------------------------------------------------------------
\* The outputs and the bullets are chosen once; a unit is first routed plainly.
Init ==
    /\ runs \in [Run -> Outputs]
    /\ bullets \in [Verbatim -> 0 .. MaxBullets]
    /\ set = [code |-> FALSE, narrow |-> FALSE]
    /\ routed = RouteRuns(runs, {}, FALSE)

\* apply_code_pass()
ApplyCodePass ==
    /\ ~set.code /\ ~set.narrow
    /\ set' = [set EXCEPT !.code = TRUE]
    /\ routed' = RouteRuns(runs, CodeDecided(runs, bullets), FALSE)
    /\ UNCHANGED <<runs, bullets>>

\* Mutant of ApplyNarrowHold: the code pass is forgotten.
ApplyNarrowHoldAlone ==
    /\ ~set.narrow
    /\ set' = [set EXCEPT !.narrow = TRUE]
    /\ routed' = RouteRuns(runs, {}, TRUE)
    /\ UNCHANGED <<runs, bullets>>

\* apply_narrow_hold(), with the code pass if it was applied.
ApplyNarrowHold ==
    /\ ~set.narrow
    /\ set' = [set EXCEPT !.narrow = TRUE]
    /\ routed' = RouteRuns(runs, IF set.code THEN CodeDecided(runs, bullets) ELSE {}, TRUE)
    /\ UNCHANGED <<runs, bullets>>

Next == ApplyCodePass \/ ApplyNarrowHold

Spec == Init /\ [][Next]_vars
-----------------------------------------------------------------------------
(* Properties.                                                             *)

Name == {"runs_disagree", "known_trap_flag", "unclassified_type", "span_not_located"}
ReasonSet == (Name \X {None}) \cup {Waiting(i) : i \in Id}
RowSet ==
    [of : {"entity"}, item : Id \cup {None}, sig : EntitySignatures(runs), reasons : SUBSET ReasonSet]
    \cup [of : {"link"}, item : Slot \cup {None}, sig : LinkSignatures(runs), reasons : SUBSET ReasonSet]

\* The outputs, the settings and the routed unit are well formed, and every row says why.
TypeOK ==
    /\ \A r \in Run : runs[r] \in Output /\ Identified(runs[r])
    /\ set \in [code : BOOLEAN, narrow : BOOLEAN]
    /\ routed.entities \in SUBSET Entities(runs[1]) /\ routed.links \in SUBSET Links(runs[1])
    /\ routed.released \in SUBSET routed.entities
    /\ routed.narrowEntities \in SUBSET (routed.entities \ routed.released)
    /\ routed.narrowLinks \in SUBSET routed.links
    /\ routed.review \in SUBSET RowSet
    /\ \A row \in routed.review : row.reasons # {}

\* What no setting may release: an item whose runs disagree on its count, an unclassified
\* entity, a derived one with no located line (AC-11b, AC-11d; spec 0008 AC-1b, AC-1c).
DisputedEntity(i) ==
    \/ \E r \in Run : EntityCount(runs[r], EntitySignature(runs[1], i))
                      # EntityCount(runs[1], EntitySignature(runs[1], i))
    \/ runs[1].entity[i].type = "UNCLASSIFIED"
    \/ Identity(runs[1], i) = COLLAPSED
DisputedLink(s) ==
    \E r \in Run : LinkCount(runs[r], LinkSignature(runs[1], s))
                    # LinkCount(runs[1], LinkSignature(runs[1], s))
NothingDisputedAccepted ==
    /\ \A i \in routed.entities : ~DisputedEntity(i)
    /\ \A s \in routed.links : ~DisputedLink(s)

\* An accepted link never has a local end that is not accepted with it, whichever rule
\* accepted either (AC-11c, spec 0008 AC-2).
EndsAccepted == \A s \in routed.links : LocalEnds(runs[1].link[s]) \subseteq routed.entities

\* The code pass accepts an entity only when one bullet carries its id, no run raised any
\* flag on it but the released ones, and every run found it once and typed it a criterion,
\* though only the first run's copy is accepted (spec 0007 AC-10 to AC-12).
CodePassIsCautious ==
    \A i \in routed.released :
        /\ bullets[i] = 1
        /\ \A r \in Run : /\ i \in Entities(runs[r])
                           /\ runs[r].entity[i].type = "AcceptanceCriterion"
                           /\ runs[r].entity[i].flags \subseteq RELEASED_FLAGS
                           /\ \A j \in Entities(runs[r]) \ {i} : runs[r].entity[j].says # i

\* Nothing is dropped: each first run item is accepted or has exactly one row of its own,
\* never both, and every signature the runs disagree on has a row (AC-11).
NothingDropped ==
    /\ \A i \in Entities(runs[1]) :
          Cardinality({row \in routed.review : row.of = "entity" /\ row.item = i})
              = IF i \in routed.entities THEN 0 ELSE 1
    /\ \A s \in Links(runs[1]) :
          Cardinality({row \in routed.review : row.of = "link" /\ row.item = s})
              = IF s \in routed.links THEN 0 ELSE 1
    /\ \A sig \in DifferingEntities(runs) : \E row \in routed.review : row.of = "entity" /\ row.sig = sig
    /\ \A sig \in DifferingLinks(runs) : \E row \in routed.review : row.of = "link" /\ row.sig = sig

\* What the narrow hold rule leaves held is exactly what has a reason outside its two, and
\* the links that wait on such an entity: applied twice it would release nothing more.
NarrowIsComplete ==
    set.narrow =>
        /\ routed.entities = {i \in Entities(runs[1]) : ~DisputedEntity(i)}
        /\ routed.links = {s \in Links(runs[1]) :
              /\ ~DisputedLink(s)
              /\ LocalEnds(runs[1].link[s]) \subseteq routed.entities}

RowsShrink(was, now) ==
    \A row \in now : \E old \in was :
        /\ old.of = row.of /\ old.item = row.item /\ old.sig = row.sig
        /\ row.reasons \subseteq old.reasons

\* What was accepted stays accepted, no new row appears, and no row gains a reason.
OnlyReleased(was, now) ==
    /\ was.entities \subseteq now.entities /\ was.links \subseteq now.links
    /\ was.released \subseteq now.released
    /\ RowsShrink(was.review, now.review)

\* A setting only ever releases, compared with the unit routed without it (spec 0007 AC-13,
\* spec 0008 AC-6).
OnlyReleases == [][OnlyReleased(routed, routed')]_vars
=============================================================================
