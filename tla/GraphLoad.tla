----------------------------- MODULE GraphLoad ------------------------------
(***************************************************************************)
(* `tracepath load` and the commands that read what it leaves: the graph   *)
(* and the build manifest artifacts/graph-build.json (load_graph, eval and *)
(* trace --eval of cli.py, load of pipeline.py, graph/load.py,             *)
(* graph/read.py, the manifest part of artifacts.py).                      *)
(*                                                                         *)
(* A load computes its rows and its manifest, then clears the graph and    *)
(* writes it statement by statement, each its own transaction that counts  *)
(* the rows it wrote, then replaces the manifest in two steps (open and    *)
(* write).  It may be refused before the clear, and may stop at any step   *)
(* after it: a crash, a database error, a short count.  A score reads the  *)
(* manifest up to three times and then the graph in one statement.         *)
(*                                                                         *)
(* The committed artifacts do not change here; what routing accepts under  *)
(* each setting comes in as constants.                                     *)
(***************************************************************************)
EXTENDS Integers, FiniteSets

CONSTANTS
    Loader, Scorer,   \* the commands that may be running
    Record,           \* the records of the corpus
    Entity,           \* the entities of the first runs
    Gap,              \* the unresolved mentions
    Link,             \* the links of the first runs
    RecordOf,         \* the record an entity is part of
    Ends,             \* the two nodes a link joins
    Type,             \* the type of an entity or a link, one statement each
    Plain,            \* entities accepted with no setting
    ByCode, ByNarrow, \* those the code pass and the narrow hold rule release
    None              \* no value

ASSUME CorpusAssumption ==
    /\ RecordOf \in [Entity -> Record]
    /\ Ends \in [Link -> SUBSET (Record \cup Entity \cup Gap)]
    /\ Plain \subseteq Entity /\ ByCode \subseteq Entity /\ ByNarrow \subseteq Entity
\* A record, an entity and a mention are nodes of labels of their own, and no link is a node.
ASSUME KindAssumption ==
    /\ Record \cap Entity = {} /\ (Record \cup Entity) \cap Gap = {}
    /\ (Record \cup Entity \cup Gap) \cap Link = {}
    /\ ({"part_of"} \X Entity) \cap (Record \cup Entity \cup Gap \cup Link) = {}

\* How a graph is loaded, and what a manifest says of it.
Setting == [held : BOOLEAN, code : BOOLEAN, narrow : BOOLEAN]

\* Everything a load may write: the nodes, an entity's PART_OF, the links.
Node == Record \cup Entity \cup Gap
PartOf == {"part_of"} \X Entity
Item == Node \cup PartOf \cup Link

\* Who is written to have accepted an item, for one that is in the graph.
Stamp == {"load", "code_pass", "narrow_hold", "held"}

VARIABLES
    graph,     \* the database: the stamp of every item, or "absent"
    manifest,  \* artifacts/graph-build.json: missing, torn, or whole with its setting
    load,      \* the local state of every load
    score,     \* the local state of every score
    finished   \* history: the last load that cleared the graph wrote its manifest

vars == <<graph, manifest, load, score, finished>>

NoGraph == [i \in Item |-> "absent"]
NoLoad == [pc |-> "idle", set |-> None, done |-> {}]
\* History: `quiet`, no load was past its clear and unfinished since the score began;
\* `alone`, no load was running since then, and a whole manifest stood.
NoScore == [pc |-> "idle", by |-> "eval", given |-> None, set |-> None,
            exact |-> FALSE, quiet |-> FALSE, alone |-> FALSE]

Init ==
    /\ graph = NoGraph /\ manifest = [is |-> "missing", set |-> None] /\ finished = FALSE
    /\ load = [c \in Loader |-> NoLoad]
    /\ score = [c \in Scorer |-> NoScore]
-----------------------------------------------------------------------------
(* The rows of a load, under a setting.                                    *)

AcceptedEntities(s) ==
    Plain \cup (IF s.code THEN ByCode ELSE {}) \cup (IF s.narrow THEN ByNarrow ELSE {})

\* resolve_accepted(): a link is held while one of its ends is an entity not accepted.
AcceptedLinks(s) == {l \in Link : Ends[l] \cap Entity \subseteq AcceptedEntities(s)}

Accepted(s) ==
    LET links == AcceptedLinks(s) IN
    Record \cup AcceptedEntities(s) \cup ({"part_of"} \X AcceptedEntities(s)) \cup links
        \cup {g \in Gap : \E l \in links : g \in Ends[l]}

\* build_held_view(): every other entity and link, and the mentions only those reach.
Rows(s) ==
    IF ~s.held THEN Accepted(s)
    ELSE Record \cup Entity \cup PartOf \cup Link \cup {g \in Gap : \E l \in Link : g \in Ends[l]}

\* entity_row(), link_row() and held_*_row(): the mark each row carries.
StampOf(s, i) ==
    IF i \notin Accepted(s) THEN "held"
    ELSE IF i \in Entity \ Plain THEN IF s.code /\ i \in ByCode THEN "code_pass" ELSE "narrow_hold"
    ELSE IF i \in Link /\ s.narrow /\ i \notin AcceptedLinks([s EXCEPT !.narrow = FALSE])
    THEN "narrow_hold" ELSE "load"

\* The graph a load with this setting means to leave.
Built(s) == [i \in Item |-> IF i \in Rows(s) THEN StampOf(s, i) ELSE "absent"]

\* What must be there for a row to be written: both ends are matched, never merged.
Needs(i) ==
    CASE i \in PartOf -> {i[2], RecordOf[i[2]]}
      [] i \in Link -> Ends[i]
      [] OTHER -> {}

\* The order of the statements: nodes before what joins them, accepted before held.
KindOrder(i) ==
    CASE i \in Record -> 1 [] i \in Entity -> 2 [] i \in Gap -> 3
      [] i \in PartOf -> 4 [] OTHER -> 5

\* Mutant of Order: held items among the accepted.
HeldAmong(s, i) == KindOrder(i)

Order(s, i) == KindOrder(i) + (IF i \in Accepted(s) THEN 0 ELSE 5)

\* The rows of the next statement: one kind, and of entities and links one type.
NextRows(s, done) ==
    LET left == Rows(s) \ done
        first == {i \in left : \A j \in left : Order(s, i) <= Order(s, j)}
    IN  {rows \in SUBSET first :
            \E i \in first :
               rows = {j \in first : i \in Entity \cup Link => Type[j] = Type[i]}}
-----------------------------------------------------------------------------
(* load.                                                                   *)

SetLoad(c, l) == load' = [load EXCEPT ![c] = l]

\* Mutant of StartLoad: the graph is emptied before the rows are built.
StartLoadClearing(c, s) ==
    /\ load[c].pc = "idle"
    /\ graph' = NoGraph
    /\ SetLoad(c, [pc |-> "rows", set |-> s, done |-> {}])
    /\ UNCHANGED <<manifest, score, finished>>

\* The settings, artifacts and corpus are read and routed, and the manifest computed;
\* `narrow` and `held` default to on and may be switched off by name.
StartLoad(c, s) ==
    /\ load[c].pc = "idle"
    /\ SetLoad(c, [pc |-> "rows", set |-> s, done |-> {}])
    /\ score' = [t \in Scorer |-> [score[t] EXCEPT !.alone = FALSE]]
    /\ UNCHANGED <<graph, manifest, finished>>

\* A unit or link whose provenance does not fit is refused while the rows are built.
Refuse(c) ==
    /\ load[c].pc = "rows"
    /\ SetLoad(c, NoLoad)
    /\ UNCHANGED <<graph, manifest, score, finished>>

\* Every row is built, then the graph emptied and the constraints created.
Clear(c) ==
    /\ load[c].pc = "rows"
    /\ graph' = NoGraph /\ finished' = FALSE
    /\ score' = [t \in Scorer |-> [score[t] EXCEPT !.quiet = FALSE]]
    /\ SetLoad(c, [load[c] EXCEPT !.pc = "write"])
    /\ UNCHANGED manifest

\* One statement: the rows whose ends are there are written; a short count ends the load.
Statement(c) ==
    /\ load[c].pc = "write"
    /\ \E rows \in NextRows(load[c].set, load[c].done) :
          LET ok == {i \in rows : \A n \in Needs(i) : graph[n] # "absent"} IN
          /\ graph' = [i \in Item |-> IF i \in ok THEN StampOf(load[c].set, i) ELSE graph[i]]
          /\ SetLoad(c, IF ok = rows THEN [load[c] EXCEPT !.done = @ \cup rows]
                        ELSE [load[c] EXCEPT !.pc = "short"])
    /\ UNCHANGED <<manifest, score, finished>>

\* Mutant of OpenManifest: only what the manifest is changes.
OpenManifestKeeping(c) ==
    /\ load[c].pc = "write" /\ load[c].done = Rows(load[c].set)
    /\ manifest' = [manifest EXCEPT !.is = "torn"]
    /\ SetLoad(c, [load[c] EXCEPT !.pc = "text"])
    /\ UNCHANGED <<graph, score, finished>>

\* write_graph_build(): the manifest is opened, which empties it, ...
OpenManifest(c) ==
    /\ load[c].pc = "write" /\ load[c].done = Rows(load[c].set)
    /\ manifest' = [is |-> "torn", set |-> None]
    /\ SetLoad(c, [load[c] EXCEPT !.pc = "text"])
    /\ UNCHANGED <<graph, score, finished>>

\* ... then written.
WriteManifest(c) ==
    /\ load[c].pc = "text"
    /\ manifest' = [is |-> "whole", set |-> load[c].set]
    /\ finished' = TRUE
    /\ SetLoad(c, NoLoad)
    /\ UNCHANGED <<graph, score>>

\* A crash, a Ctrl-C, a lost database connection, a full disk; or the short count reported.
Break(c) ==
    /\ load[c].pc # "idle"
    /\ SetLoad(c, NoLoad)
    /\ UNCHANGED <<graph, manifest, score, finished>>
-----------------------------------------------------------------------------
(* eval and trace --eval.                                                  *)

SetScore(c, s) == score' = [score EXCEPT ![c] = s]

Readable == manifest.is # "torn"
\* built_with_*(): a missing manifest says no.
BuiltWith(key) == manifest.is = "whole" /\ manifest.set[key]

\* eval settles the held view first, trace --eval last.
AfterHeld(c) == IF score[c].by = "eval" THEN "code" ELSE "read"
AfterChecks(c) == IF score[c].by = "eval" THEN "read" ELSE "held"

StartScore(c, by, given, code, narrow) ==
    /\ score[c].pc = "idle"
    /\ SetScore(c, [pc |-> IF by = "eval" THEN "held" ELSE "code", by |-> by,
                    given |-> given, exact |-> FALSE, quiet |-> finished,
                    alone |-> manifest.is = "whole" /\ \A l \in Loader : load[l].pc = "idle",
                    set |-> [held |-> FALSE, code |-> code, narrow |-> narrow]])
    /\ UNCHANGED <<graph, manifest, load, finished>>

\* _scored_held_view(): the flag given, else how the graph was loaded.
ScoredHeldView(c) ==
    /\ score[c].pc = "held"
    /\ SetScore(c,
         IF score[c].given # None
         THEN [score[c] EXCEPT !.pc = AfterHeld(c), !.set.held = score[c].given]
         ELSE IF Readable
         THEN [score[c] EXCEPT !.pc = AfterHeld(c), !.set.held = BuiltWith("held")]
         ELSE NoScore)
    /\ UNCHANGED <<graph, manifest, load, finished>>

\* _refuse_code_pass_mismatch() and _refuse_narrow_hold_mismatch().
Agrees(c, key) == Readable /\ BuiltWith(key) = score[c].set[key]

CheckCodePass(c) ==
    /\ score[c].pc = "code"
    /\ SetScore(c, IF Agrees(c, "code") THEN [score[c] EXCEPT !.pc = "narrow"] ELSE NoScore)
    /\ UNCHANGED <<graph, manifest, load, finished>>

\* Mutant of CheckNarrowHold: it looks only when the rule is on.
CheckNarrowHoldOn(c) ==
    /\ score[c].pc = "narrow"
    /\ SetScore(c, IF score[c].set.narrow => Agrees(c, "narrow")
                   THEN [score[c] EXCEPT !.pc = AfterChecks(c)] ELSE NoScore)
    /\ UNCHANGED <<graph, manifest, load, finished>>

CheckNarrowHold(c) ==
    /\ score[c].pc = "narrow"
    /\ SetScore(c, IF Agrees(c, "narrow") THEN [score[c] EXCEPT !.pc = AfterChecks(c)] ELSE NoScore)
    /\ UNCHANGED <<graph, manifest, load, finished>>

\* graph_slice(): PART_OF links go, and unless asked for, the held items and every link
\* with a held end.
Slice(g, held) ==
    LET kept == {i \in Item \ PartOf : g[i] # "absent" /\ (g[i] = "held" => held)} IN
    {<<i, g[i]>> : i \in {i \in kept : i \in Link =>
        \A n \in Ends[i] : g[n] = "held" => n \in kept}}

\* _holds_held()
HoldsHeld == \E n \in Entity \cup Gap : graph[n] = "held"

\* read_graph(), and for --with-held given by name a graph that holds held items.
\* `exact` says whether the slice read is the one the routing scored would have built.
ReadGraph(c) ==
    /\ score[c].pc = "read"
    /\ SetScore(c,
         IF score[c].given = TRUE /\ ~HoldsHeld THEN NoScore
         ELSE [score[c] EXCEPT !.pc = "score",
                 !.exact = Slice(graph, score[c].set.held) = Slice(Built(score[c].set), score[c].set.held)])
    /\ UNCHANGED <<graph, manifest, load, finished>>

EndScore(c) ==
    /\ score[c].pc = "score"
    /\ SetScore(c, NoScore)
    /\ UNCHANGED <<graph, manifest, load, finished>>
-----------------------------------------------------------------------------
LoadStep(c) ==
    \/ \E s \in Setting : StartLoad(c, s)
    \/ Refuse(c) \/ Clear(c) \/ Statement(c)
    \/ OpenManifest(c) \/ WriteManifest(c) \/ Break(c)

ScoreStep(c) ==
    \/ \E by \in {"eval", "trace"}, given \in BOOLEAN \cup {None}, code, narrow \in BOOLEAN :
          StartScore(c, by, given, code, narrow)
    \/ ScoredHeldView(c) \/ CheckCodePass(c) \/ CheckNarrowHold(c) \/ ReadGraph(c) \/ EndScore(c)

Next == (\E c \in Loader : LoadStep(c)) \/ (\E c \in Scorer : ScoreStep(c))

Spec == Init /\ [][Next]_vars
-----------------------------------------------------------------------------
(* Properties.                                                             *)

\* The graph, the manifest and every command are well formed.
TypeOK ==
    /\ graph \in [Item -> Stamp \cup {"absent"}]
    /\ manifest \in [is : {"missing", "torn"}, set : {None}] \cup [is : {"whole"}, set : Setting]
    /\ load \in [Loader -> [pc : {"idle", "rows", "write", "short", "text"},
                            set : Setting \cup {None}, done : SUBSET Item]]
    /\ score \in [Scorer -> [pc : {"idle", "held", "code", "narrow", "read", "score"},
                             by : {"eval", "trace"}, given : BOOLEAN \cup {None}, set : Setting \cup {None},
                             exact : BOOLEAN, quiet : BOOLEAN, alone : BOOLEAN]]
    /\ finished \in BOOLEAN

\* With one load at a time, whatever loads were refused, broken or left half written
\* before, a graph whose last load finished is exactly the one the manifest describes.
ManifestTells == finished => graph = Built(manifest.set)

\* With one load at a time no statement comes up short by the load's own order, whatever is
\* held, released or unresolved: every row finds its ends (graph/load.py _write); and
\* whatever broke before, a held item is in the graph only beside every accepted item of its
\* load (pipeline.load: "a held item never lands first").
LandsInOrder ==
    \A c \in Loader :
        /\ load[c].pc # "short"
        /\ load[c].pc \in {"write", "text"} /\ (\E i \in Item : graph[i] = "held")
              => \A i \in Accepted(load[c].set) : graph[i] # "absent"

\* A score over a quiet graph, one no load was rewriting or had left half written since the
\* score began, reads exactly the graph that the routing and held view it scores under
\* would build (spec 0007 AC-7c, spec 0008 AC-5d).
QuietScoreIsExact ==
    \A c \in Scorer : score[c].pc = "score" /\ score[c].quiet => score[c].exact

\* A score that no load runs beside, over a manifest that says how the graph was loaded,
\* reads the graph its routing would build (cli.py: "Exit 1 unless the graph was loaded
\* with the routing this command will score").
LoneScoreIsExact ==
    \A c \in Scorer : score[c].pc = "score" /\ score[c].alone => score[c].exact
=============================================================================
