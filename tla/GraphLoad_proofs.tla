-------------------------- MODULE GraphLoad_proofs --------------------------
(* Proofs about GraphLoad, for every corpus, every routing of it, and any      *)
(* number of scores; the graph and the manifest with one load at a time.       *)
EXTENDS GraphLoad, TLAPS

(* A command that runs has its setting.                                        *)
Set ==
    /\ \A c \in Loader : load[c].pc # "idle" => load[c].set \in Setting
    /\ \A c \in Scorer : score[c].pc # "idle" => score[c].set \in Setting
Typed == TypeOK /\ Set

LoadState == [pc : {"idle", "rows", "write", "short", "text"}, set : Setting \cup {None},
              done : SUBSET Item]
ScoreState == [pc : {"idle", "held", "code", "narrow", "read", "score"},
               by : {"eval", "trace"}, given : BOOLEAN \cup {None}, set : Setting \cup {None},
               exact : BOOLEAN, quiet : BOOLEAN, alone : BOOLEAN]
Loading(l) == l \in LoadState /\ (l.pc # "idle" => l.set \in Setting)
Scoring(s) == s \in ScoreState /\ (s.pc # "idle" => s.set \in Setting)

(* What the types say of each part of the state.                               *)
Manifest == [is : {"missing", "torn"}, set : {None}] \cup [is : {"whole"}, set : Setting]

\* The type invariant, variable by variable.
LEMMA Parts ==
    Typed <=> /\ graph \in [Item -> Stamp \cup {"absent"}] /\ manifest \in Manifest
              /\ load \in [Loader -> LoadState] /\ \A c \in Loader : Loading(load[c])
              /\ score \in [Scorer -> ScoreState] /\ \A c \in Scorer : Scoring(score[c])
              /\ finished \in BOOLEAN
  BY DEF Typed, Set, TypeOK, Loading, Scoring, LoadState, ScoreState, Manifest

\* A load that moves to a well typed state leaves every load well typed.
LEMMA LoadTyped ==
    ASSUME Typed, NEW c \in Loader, NEW l, Loading(l), SetLoad(c, l)
    PROVE  load' \in [Loader -> LoadState] /\ \A d \in Loader : Loading(load'[d])
  BY Parts DEF SetLoad, Loading

\* A score that moves to a well typed state leaves every score well typed.
LEMMA ScoreTyped ==
    ASSUME Typed, NEW c \in Scorer, NEW s, Scoring(s), SetScore(c, s)
    PROVE  score' \in [Scorer -> ScoreState] /\ \A d \in Scorer : Scoring(score'[d])
  BY Parts DEF SetScore, Scoring

\* An idle load and an idle score are well typed.
LEMMA IdleTyped == Loading(NoLoad) /\ Scoring(NoScore)
  BY DEF Loading, LoadState, NoLoad, Scoring, ScoreState, NoScore

(* Every stamp a row may carry is one of the four.                             *)
LEMMA StampIsStamp == \A s, i : StampOf(s, i) \in Stamp
  BY DEF StampOf, Stamp

(* Rows, and what a statement takes of them, are items.                        *)
LEMMA RowsAreItems ==
    ASSUME NEW s
    PROVE  Rows(s) \subseteq Item /\ Accepted(s) \subseteq Item /\ Accepted(s) \subseteq Rows(s)
  <1>1. AcceptedEntities(s) \subseteq Entity /\ AcceptedLinks(s) \subseteq Link
    BY CorpusAssumption DEF AcceptedEntities, AcceptedLinks
  <1>2. \A g \in Gap : (\E l \in AcceptedLinks(s) : g \in Ends[l]) => \E l \in Link : g \in Ends[l]
    BY <1>1
  <1>3. ({"part_of"} \X AcceptedEntities(s)) \subseteq PartOf
    BY <1>1 DEF PartOf
  <1>4. Accepted(s) \subseteq Item
    BY <1>1, <1>3 DEF Accepted, Item, Node
  <1>5. Rows(s) \subseteq Item
    BY <1>4 DEF Rows, Item, Node
  <1>6. Accepted(s) \subseteq Rows(s)
    BY <1>1, <1>2, <1>3 DEF Accepted, Rows
  <1> QED
    BY <1>4, <1>5, <1>6
(* Clearing a history field of every score leaves it a score.                  *)
LEMMA HistoryTyped ==
    ASSUME Typed,
           \/ score' = [t \in Scorer |-> [score[t] EXCEPT !.alone = FALSE]]
           \/ score' = [t \in Scorer |-> [score[t] EXCEPT !.quiet = FALSE]]
    PROVE  score' \in [Scorer -> ScoreState] /\ \A d \in Scorer : Scoring(score'[d])
  <1>1. ASSUME NEW t \in Scorer
        PROVE  Scoring([score[t] EXCEPT !.alone = FALSE]) /\ Scoring([score[t] EXCEPT !.quiet = FALSE])
    <2>1. Scoring(score[t])
      BY Parts
    <2> QED
      BY <2>1 DEF Scoring, ScoreState
  <1>2. CASE score' = [t \in Scorer |-> [score[t] EXCEPT !.alone = FALSE]]
    BY <1>1, <1>2 DEF Scoring
  <1>3. CASE score' = [t \in Scorer |-> [score[t] EXCEPT !.quiet = FALSE]]
    BY <1>1, <1>3 DEF Scoring
  <1> QED
    BY <1>2, <1>3

(* The types, and the setting of a command that runs, hold throughout.         *)
LEMMA TypedAlways == Spec => []Typed
<1>1. Init => Typed
  <2> SUFFICES ASSUME Init PROVE Typed
    OBVIOUS
  <2>1. /\ load \in [Loader -> LoadState] /\ \A c \in Loader : Loading(load[c])
        /\ score \in [Scorer -> ScoreState] /\ \A c \in Scorer : Scoring(score[c])
    BY IdleTyped DEF Init, Loading, Scoring
  <2>2. graph \in [Item -> Stamp \cup {"absent"}] /\ manifest \in Manifest /\ finished \in BOOLEAN
    BY DEF Init, NoGraph, Manifest
  <2> QED
    BY <2>1, <2>2, Parts
<1>2. Typed /\ [Next]_vars => Typed'
  <2> SUFFICES ASSUME Typed, [Next]_vars PROVE Typed'
    OBVIOUS
  <2>1. CASE UNCHANGED vars
    BY <2>1 DEF vars, Typed, TypeOK, Set
  <2>2. ASSUME NEW c \in Loader, LoadStep(c) PROVE Typed'
    <3>1. /\ Loading(load[c]) /\ graph \in [Item -> Stamp \cup {"absent"}] /\ manifest \in Manifest
          /\ score \in [Scorer -> ScoreState] /\ \A d \in Scorer : Scoring(score[d])
          /\ finished \in BOOLEAN
      BY Parts
    <3>2. ASSUME graph' \in [Item -> Stamp \cup {"absent"}], manifest' \in Manifest,
                 finished' \in BOOLEAN,
                 score' \in [Scorer -> ScoreState] /\ \A d \in Scorer : Scoring(score'[d]),
                 NEW l, Loading(l), SetLoad(c, l)
          PROVE  Typed'
      <4>1. load' \in [Loader -> LoadState] /\ \A d \in Loader : Loading(load'[d])
        BY <3>2, LoadTyped
      <4> QED
        BY <3>2, <4>1 DEF Typed, Set, TypeOK, Loading, Scoring, LoadState, ScoreState, Manifest
    <3>3. ASSUME NEW s \in Setting, StartLoad(c, s) PROVE Typed'
      <4>1. Loading([pc |-> "rows", set |-> s, done |-> {}])
        BY DEF Loading, LoadState
      <4> QED
        BY <3>1, <3>2, <3>3, <4>1, HistoryTyped DEF StartLoad
    <3>4. CASE Refuse(c) \/ Break(c)
      BY <3>1, <3>2, <3>4, IdleTyped DEF Refuse, Break
    <3>5. CASE Clear(c)
      <4>1. Loading([load[c] EXCEPT !.pc = "write"]) /\ graph' \in [Item -> Stamp \cup {"absent"}]
        BY <3>1, <3>5 DEF Clear, Loading, LoadState, NoGraph
      <4> QED
        BY <3>1, <3>2, <3>5, <4>1, HistoryTyped DEF Clear
    <3>6. CASE Statement(c)
      <4>1. PICK rows \in NextRows(load[c].set, load[c].done) :
              LET ok == {i \in rows : \A n \in Needs(i) : graph[n] # "absent"} IN
              /\ graph' = [i \in Item |-> IF i \in ok THEN StampOf(load[c].set, i) ELSE graph[i]]
              /\ SetLoad(c, IF ok = rows THEN [load[c] EXCEPT !.done = @ \cup rows]
                            ELSE [load[c] EXCEPT !.pc = "short"])
        BY <3>6 DEF Statement
      <4>2. rows \subseteq Item
        BY RowsAreItems DEF NextRows
      <4>3. Loading([load[c] EXCEPT !.done = @ \cup rows]) /\ Loading([load[c] EXCEPT !.pc = "short"])
        BY <3>1, <3>6, <4>2 DEF Statement, Loading, LoadState
      <4>4. graph' \in [Item -> Stamp \cup {"absent"}]
        BY <3>1, <4>1, StampIsStamp
      <4> QED
        BY <3>1, <3>2, <3>6, <4>1, <4>3, <4>4 DEF Statement
    <3>7. CASE OpenManifest(c)
      <4>1. Loading([load[c] EXCEPT !.pc = "text"]) /\ manifest' \in Manifest
        BY <3>1, <3>7 DEF OpenManifest, Loading, LoadState, Manifest
      <4> QED
        BY <3>1, <3>2, <3>7, <4>1 DEF OpenManifest
    <3>8. CASE WriteManifest(c)
      <4>1. manifest' \in Manifest
        BY <3>1, <3>8 DEF WriteManifest, Loading, Manifest
      <4> QED
        BY <3>1, <3>2, <3>8, <4>1, IdleTyped DEF WriteManifest
    <3> QED
      BY <2>2, <3>3, <3>4, <3>5, <3>6, <3>7, <3>8 DEF LoadStep
  <2>3. ASSUME NEW c \in Scorer, ScoreStep(c) PROVE Typed'
    <3>1. Scoring(score[c]) /\ manifest \in Manifest /\ finished \in BOOLEAN
      BY Parts
    <3>2. UNCHANGED <<graph, manifest, load, finished>>
      BY <2>3 DEF ScoreStep, StartScore, ScoredHeldView, CheckCodePass, CheckNarrowHold, ReadGraph,
                  EndScore
    <3>3. ASSUME NEW s, Scoring(s), SetScore(c, s) PROVE Typed'
      <4>1. score' \in [Scorer -> ScoreState] /\ \A d \in Scorer : Scoring(score'[d])
        BY <3>3, ScoreTyped
      <4> QED
        BY <3>2, <4>1 DEF Typed, Set, TypeOK, Scoring, ScoreState
    <3>4. ASSUME NEW by \in {"eval", "trace"}, NEW given \in BOOLEAN \cup {None},
                 NEW code \in BOOLEAN, NEW narrow \in BOOLEAN, StartScore(c, by, given, code, narrow)
          PROVE  Typed'
      <4> DEFINE alone == manifest.is = "whole" /\ \A l \in Loader : load[l].pc = "idle"
                 pc == IF by = "eval" THEN "held" ELSE "code"
                 s == [pc |-> pc, by |-> by, given |-> given, exact |-> FALSE, quiet |-> finished,
                       alone |-> alone, set |-> [held |-> FALSE, code |-> code, narrow |-> narrow]]
      <4>1. alone \in BOOLEAN /\ pc \in {"held", "code"}
        OBVIOUS
      <4>2. SetScore(c, s)
        BY <3>4 DEF StartScore
      <4> HIDE DEF alone, pc
      <4>3. Scoring(s)
        BY <3>1, <4>1 DEF Scoring, ScoreState, Setting
      <4> QED
        BY <3>3, <4>2, <4>3
    <3>5. CASE SetScore(c, NoScore)
      BY <3>3, <3>5, IdleTyped
    <3>6. CASE ScoredHeldView(c)
      <4>1. ASSUME NEW held \in BOOLEAN,
                   SetScore(c, [score[c] EXCEPT !.pc = AfterHeld(c), !.set.held = held])
            PROVE  Typed'
        <5>1. AfterHeld(c) \in {"code", "read"} /\ score[c].set \in Setting
          BY <3>1, <3>6 DEF AfterHeld, ScoredHeldView, Scoring
        <5>2. Scoring([score[c] EXCEPT !.pc = AfterHeld(c), !.set.held = held])
          BY <3>1, <4>1, <5>1 DEF Scoring, ScoreState, Setting
        <5> QED
          BY <3>3, <4>1, <5>2
      <4>2. CASE score[c].given # None
        <5>1. score[c].given \in BOOLEAN
          BY <3>1, <4>2 DEF Scoring, ScoreState
        <5> QED
          BY <3>6, <4>1, <4>2, <5>1 DEF ScoredHeldView
      <4>3. CASE score[c].given = None /\ Readable
        <5>1. BuiltWith("held") \in BOOLEAN
          BY DEF BuiltWith
        <5> QED
          BY <3>6, <4>1, <4>3, <5>1 DEF ScoredHeldView
      <4> QED
        BY <3>5, <3>6, <4>2, <4>3 DEF ScoredHeldView
    <3>7. CASE CheckCodePass(c)
      <4>1. Scoring([score[c] EXCEPT !.pc = "narrow"])
        BY <3>1, <3>7 DEF CheckCodePass, Scoring, ScoreState
      <4> QED
        BY <3>3, <3>5, <3>7, <4>1 DEF CheckCodePass
    <3>8. CASE CheckNarrowHold(c)
      <4>1. AfterChecks(c) \in {"read", "held"}
        BY DEF AfterChecks
      <4>2. Scoring([score[c] EXCEPT !.pc = AfterChecks(c)])
        BY <3>1, <3>8, <4>1 DEF CheckNarrowHold, Scoring, ScoreState
      <4> QED
        BY <3>3, <3>5, <3>8, <4>2 DEF CheckNarrowHold
    <3>9. CASE ReadGraph(c)
      <4> DEFINE exact == Slice(graph, score[c].set.held) = Slice(Built(score[c].set), score[c].set.held)
      <4>1. exact \in BOOLEAN
        OBVIOUS
      <4> HIDE DEF exact
      <4>2. Scoring([score[c] EXCEPT !.pc = "score", !.exact = exact])
        BY <3>1, <3>9, <4>1 DEF ReadGraph, Scoring, ScoreState
      <4>3. SetScore(c, NoScore) \/ SetScore(c, [score[c] EXCEPT !.pc = "score", !.exact = exact])
        BY <3>9 DEF ReadGraph, exact
      <4> QED
        BY <3>3, <3>5, <4>2, <4>3
    <3> QED
      BY <2>3, <3>4, <3>5, <3>6, <3>7, <3>8, <3>9 DEF ScoreStep, EndScore
  <2> QED
    BY <2>1, <2>2, <2>3 DEF Next
<1> QED
  BY <1>1, <1>2, PTL DEF Spec

(* The graph, the manifest and every command are well formed, for any number   *)
(* of loads and scores at once.                                                *)
THEOREM TypeInvariant == Spec => []TypeOK
<1>1. Typed => TypeOK
  BY DEF Typed
<1> QED
  BY <1>1, TypedAlways, PTL

-----------------------------------------------------------------------------
(* The order of the statements.                                                *)

\* What is accepted comes before what is held.
LEMMA OrderType ==
    ASSUME NEW s, NEW i
    PROVE  /\ KindOrder(i) \in 1 .. 5 /\ Order(s, i) \in Nat
           /\ i \in Accepted(s) => Order(s, i) <= 5
           /\ i \notin Accepted(s) => Order(s, i) > 5
  BY DEF Order, KindOrder

\* Records are written first, then entities, then mentions.
LEMMA NodeOrder ==
    ASSUME NEW n
    PROVE  /\ n \in Record => KindOrder(n) = 1
           /\ n \in Entity => KindOrder(n) = 2
           /\ n \in Gap => KindOrder(n) = 3
  <1>1. n \in Record => n \notin Entity /\ n \notin Gap /\ n \notin PartOf
    BY KindAssumption DEF PartOf
  <1>2. n \in Entity => n \notin Record /\ n \notin Gap /\ n \notin PartOf
    BY KindAssumption DEF PartOf
  <1>3. n \in Gap => n \notin Record /\ n \notin Entity /\ n \notin PartOf
    BY KindAssumption DEF PartOf
  <1>4. n \in Record => KindOrder(n) = 1
    BY <1>1 DEF KindOrder
  <1>5. n \in Entity => KindOrder(n) = 2
    BY <1>2 DEF KindOrder
  <1>6. n \in Gap => KindOrder(n) = 3
    BY <1>3 DEF KindOrder
  <1> QED
    BY <1>4, <1>5, <1>6

(* What a row needs is among the rows, and of an earlier order: a node before  *)
(* what joins it, and an accepted row needs nothing held (graph/load.py _write)*)
LEMMA NeedsFirst ==
    ASSUME NEW s, NEW i \in Rows(s), NEW n \in Needs(i)
    PROVE  n \in Rows(s) /\ Order(s, n) < Order(s, i)
  <1>1. AcceptedEntities(s) \subseteq Entity /\ AcceptedLinks(s) \subseteq Link
    BY CorpusAssumption DEF AcceptedEntities, AcceptedLinks
  <1>2. i \in Item
    BY RowsAreItems
  <1>3. CASE i \in PartOf
    <2>1. PICK e \in Entity : i = <<"part_of", e>>
      BY <1>3 DEF PartOf
    <2>2. i \notin Node /\ i \notin Link /\ KindOrder(i) = 4
      BY <1>3, KindAssumption DEF PartOf, Node, KindOrder
    <2>3. n = e \/ n = RecordOf[e]
      <3>1. Needs(i) = {i[2], RecordOf[i[2]]}
        BY <1>3, <2>2 DEF Needs
      <3>2. i[2] = e
        BY <2>1
      <3> QED
        BY <3>1, <3>2
    <2>4. KindOrder(n) \in 1 .. 2 /\ n \in Rows(s)
      <3>1. i \in Accepted(s) => e \in AcceptedEntities(s)
        BY <1>1, <2>1, <2>2 DEF Accepted, Node
      <3>2. e \in Entity /\ RecordOf[e] \in Record
        BY CorpusAssumption
      <3>3. KindOrder(n) \in 1 .. 2
        BY <2>3, <3>2, NodeOrder
      <3>4. n \in Rows(s)
        BY <2>3, <3>1, <3>2 DEF Rows, Accepted
      <3> QED
        BY <3>3, <3>4
    <2>5. i \in Accepted(s) => n \in Accepted(s)
      <3>1. i \in Accepted(s) => e \in AcceptedEntities(s)
        BY <1>1, <2>1, <2>2 DEF Accepted, Node
      <3> QED
        BY <2>3, <3>1, CorpusAssumption DEF Accepted
    <2> QED
      BY <2>2, <2>4, <2>5 DEF Order
  <1>4. CASE i \in Link
    <2>1. i \notin Node /\ i \notin PartOf /\ KindOrder(i) = 5
      BY <1>4, KindAssumption DEF PartOf, Node, KindOrder
    <2>2. n \in Ends[i]
      BY <1>4, <2>1 DEF Needs
    <2>3. n \in Node
      BY <1>4, <2>2, CorpusAssumption DEF Node
    <2>4. KindOrder(n) \in 1 .. 3
      BY <2>3, NodeOrder DEF Node
    <2>5. i \in Accepted(s) => n \in Accepted(s)
      <3>1. i \in Accepted(s) => i \in AcceptedLinks(s)
        BY <1>1, <1>4, <2>1, KindAssumption DEF Accepted, Node, PartOf
      <3> QED
        BY <2>2, <2>3, <3>1 DEF Accepted, AcceptedLinks, Node
    <2>6. n \in Rows(s)
      BY <1>4, <2>2, <2>3, <2>5, RowsAreItems DEF Rows, Node
    <2> QED
      BY <2>1, <2>4, <2>5, <2>6 DEF Order
  <1> QED
    BY <1>3, <1>4 DEF Needs

(* A graph built with the held view off holds nothing held; a held item is one *)
(* the setting does not accept.                                                *)
LEMMA HeldIsNotAccepted == ASSUME NEW s, NEW i PROVE StampOf(s, i) = "held" <=> i \notin Accepted(s)
  BY DEF StampOf

-----------------------------------------------------------------------------
(* The graph and the manifest, with one load at a time.                        *)

(* The one `tracepath load`: two of them may clear and fill one graph at once. *)
OneAtATime == \A c, d \in Loader : c = d

(* What a load past its clear has written: the rows of its finished            *)
(* statements, which are all the rows of every earlier order.                  *)
Written(c) ==
    LET s == load[c].set  done == load[c].done IN
    /\ done \subseteq Rows(s)
    /\ \A i \in Item : graph[i] = IF i \in done THEN StampOf(s, i) ELSE "absent"
    /\ \A i \in done, j \in Rows(s) : Order(s, j) < Order(s, i) => j \in done
LoadInv ==
    \A c \in Loader :
        /\ load[c].pc # "short"
        /\ load[c].pc \in {"write", "text"} => Written(c)
        /\ load[c].pc = "rows" => load[c].done = {}
        /\ load[c].pc = "text" => load[c].done = Rows(load[c].set)

(* A finished graph is the manifest's, and no load is past its clear.          *)
ManifestInv ==
    finished =>
        /\ manifest.is = "whole" /\ graph = Built(manifest.set)
        /\ \A c \in Loader : load[c].pc \in {"idle", "rows"}

\* One load at a time, the graph is what the statements so far have written.
LEMMA LoadAlways == ASSUME OneAtATime PROVE Spec => []LoadInv
<1>1. Init => LoadInv
  BY DEF Init, LoadInv, NoLoad
<1>2. Typed /\ LoadInv /\ [Next]_vars => LoadInv'
  <2> SUFFICES ASSUME Typed, LoadInv, [Next]_vars PROVE LoadInv'
    OBVIOUS
  <2>1. CASE UNCHANGED <<graph, load>>
    BY <2>1 DEF LoadInv, Written
  <2>2. ASSUME NEW c \in Loader, LoadStep(c) PROVE LoadInv'
    <3>1. Loading(load[c]) /\ load \in [Loader -> LoadState] /\ \A d \in Loader : d = c
          /\ graph \in [Item -> Stamp \cup {"absent"}]
      BY Parts DEF OneAtATime
    <3>2. \A l : SetLoad(c, l) => load'[c] = l
      BY <3>1 DEF SetLoad
    <3>3. ASSUME NEW s \in Setting, StartLoad(c, s) PROVE LoadInv'
      BY <3>1, <3>2, <3>3 DEF StartLoad, LoadInv
    <3>4. CASE SetLoad(c, NoLoad)
      BY <3>1, <3>2, <3>4 DEF NoLoad, LoadInv
    <3>5. CASE Clear(c)
      <4>1. load'[c].pc = "write" /\ load'[c].done = {} /\ load'[c].set = load[c].set
        BY <3>1, <3>2, <3>5 DEF Clear, LoadInv, Loading, LoadState
      <4>2. Written(c)'
        BY <3>5, <4>1 DEF Written, Clear, NoGraph
      <4> QED
        BY <3>1, <4>1, <4>2 DEF LoadInv
    <3>6. CASE Statement(c)
      <4> DEFINE s == load[c].set
                 done == load[c].done
                 left == Rows(s) \ done
      <4>1. PICK rows \in NextRows(s, done) :
              LET ok == {i \in rows : \A n \in Needs(i) : graph[n] # "absent"} IN
              /\ graph' = [i \in Item |-> IF i \in ok THEN StampOf(s, i) ELSE graph[i]]
              /\ SetLoad(c, IF ok = rows THEN [load[c] EXCEPT !.done = @ \cup rows]
                            ELSE [load[c] EXCEPT !.pc = "short"])
        BY <3>6 DEF Statement
      <4>2. Written(c)
        BY <3>1, <3>6 DEF LoadInv, Statement
      <4>3. rows \subseteq left /\ \A i \in rows, j \in left : Order(s, i) <= Order(s, j)
        BY DEF NextRows
      <4>4. \A i \in rows, j \in Rows(s) : Order(s, j) < Order(s, i) => j \in done
        BY <4>3, OrderType
      <4>5. \A i \in rows : \A n \in Needs(i) : graph[n] # "absent"
        <5> SUFFICES ASSUME NEW i \in rows, NEW n \in Needs(i) PROVE graph[n] # "absent"
          OBVIOUS
        <5>1. n \in done
          BY <4>3, <4>4, NeedsFirst
        <5>2. graph[n] = StampOf(s, n)
          BY <4>2, <5>1, RowsAreItems DEF Written
        <5> QED
          BY <5>2, StampIsStamp DEF Stamp
      <4>6. /\ graph' = [i \in Item |-> IF i \in rows THEN StampOf(s, i) ELSE graph[i]]
            /\ load'[c] = [load[c] EXCEPT !.done = @ \cup rows]
        BY <3>2, <4>1, <4>5
      <4>7. load'[c].pc = "write" /\ load'[c].set = s /\ load'[c].done = done \cup rows
        BY <3>1, <3>6, <4>6 DEF Statement, Loading, LoadState
      <4>8. Written(c)'
        <5>1. done \cup rows \subseteq Rows(s)
          BY <4>2, <4>3 DEF Written
        <5>2. \A i \in Item : graph'[i] = IF i \in done \cup rows THEN StampOf(s, i) ELSE "absent"
          BY <4>2, <4>6 DEF Written
        <5>3. \A i \in done \cup rows, j \in Rows(s) :
                 Order(s, j) < Order(s, i) => j \in done \cup rows
          BY <4>2, <4>4 DEF Written
        <5> HIDE DEF s, done
        <5> QED
          BY <4>7, <5>1, <5>2, <5>3 DEF Written
      <4> QED
        BY <3>1, <4>7, <4>8 DEF LoadInv
    <3>7. CASE OpenManifest(c)
      <4>1. load'[c].pc = "text" /\ load'[c].done = load[c].done /\ load'[c].set = load[c].set
            /\ graph' = graph /\ load[c].pc = "write" /\ load[c].done = Rows(load[c].set)
        BY <3>1, <3>2, <3>7 DEF OpenManifest, Loading, LoadState
      <4>2. Written(c)'
        BY <3>1, <4>1 DEF Written, LoadInv
      <4> QED
        BY <3>1, <4>1, <4>2 DEF LoadInv
    <3> QED
      BY <2>2, <3>3, <3>4, <3>5, <3>6, <3>7 DEF LoadStep, Refuse, Break, WriteManifest
  <2>3. ASSUME NEW c \in Scorer, ScoreStep(c) PROVE LoadInv'
    BY <2>1, <2>3 DEF ScoreStep, StartScore, ScoredHeldView, CheckCodePass, CheckNarrowHold,
                      ReadGraph, EndScore
  <2> QED
    BY <2>1, <2>2, <2>3 DEF Next, vars
<1> QED
  BY <1>1, <1>2, TypedAlways, PTL DEF Spec

(* One load at a time, no statement comes up short by the load's own order,    *)
(* and a held item is in the graph only beside every accepted one, whatever    *)
(* the corpus, the routing and what broke before.                              *)
THEOREM RowsLandInOrder == ASSUME OneAtATime PROVE Spec => []LandsInOrder
<1>1. LoadInv => LandsInOrder
  <2> SUFFICES ASSUME LoadInv, NEW c \in Loader, load[c].pc \in {"write", "text"},
                      NEW i \in Item, graph[i] = "held", NEW j \in Accepted(load[c].set)
               PROVE  graph[j] # "absent"
    BY DEF LoadInv, LandsInOrder
  <2> DEFINE s == load[c].set
             done == load[c].done
  <2>1. Written(c)
    BY DEF LoadInv
  <2>2. i \in done /\ i \notin Accepted(s)
    BY <2>1, HeldIsNotAccepted DEF Written
  <2>3. j \in Rows(s) /\ j \in Item /\ Order(s, j) < Order(s, i)
    BY <2>2, RowsAreItems, OrderType
  <2>4. j \in done
    BY <2>1, <2>2, <2>3 DEF Written
  <2> QED
    BY <2>1, <2>3, <2>4, StampIsStamp DEF Written, Stamp
<1> QED
  BY <1>1, LoadAlways, PTL

\* One load at a time, a finished load and its manifest describe the graph.
LEMMA ManifestAlways == ASSUME OneAtATime PROVE Spec => []ManifestInv
<1>1. Init => ManifestInv
  BY DEF Init, ManifestInv
<1>2. Typed /\ LoadInv /\ ManifestInv /\ [Next]_vars => ManifestInv'
  <2> SUFFICES ASSUME Typed, LoadInv, ManifestInv, [Next]_vars PROVE ManifestInv'
    OBVIOUS
  <2>1. CASE UNCHANGED <<graph, manifest, load, finished>>
    BY <2>1 DEF ManifestInv
  <2>2. ASSUME NEW c \in Loader, LoadStep(c) PROVE ManifestInv'
    <3>1. /\ Loading(load[c]) /\ load \in [Loader -> LoadState] /\ \A d \in Loader : d = c
          /\ graph \in [Item -> Stamp \cup {"absent"}]
      BY Parts DEF OneAtATime
    <3>2. \A l : SetLoad(c, l) => load'[c] = l
      BY <3>1 DEF SetLoad
    <3>3. ASSUME NEW s \in Setting, StartLoad(c, s) PROVE ManifestInv'
      <4>1. load'[c].pc = "rows" /\ UNCHANGED <<graph, manifest, finished>>
        BY <3>2, <3>3 DEF StartLoad
      <4> QED
        BY <3>1, <4>1 DEF ManifestInv, Built
    <3>4. CASE Refuse(c) \/ Break(c)
      <4>1. load'[c].pc = "idle" /\ UNCHANGED <<graph, manifest, finished>>
        BY <3>2, <3>4 DEF Refuse, Break, NoLoad
      <4> QED
        BY <3>1, <4>1 DEF ManifestInv, Built
    <3>5. CASE Clear(c)
      BY <3>5 DEF Clear, ManifestInv
    <3>6. CASE Statement(c) \/ OpenManifest(c)
      BY <3>6 DEF Statement, OpenManifest, ManifestInv
    <3>7. CASE WriteManifest(c)
      <4> DEFINE s == load[c].set
      <4>1. Written(c) /\ load[c].done = Rows(s)
        BY <3>7 DEF WriteManifest, LoadInv
      <4>2. graph = Built(s)
        BY <3>1, <4>1 DEF Written, Built
      <4>3. manifest'.is = "whole" /\ manifest'.set = s /\ graph' = graph /\ load'[c].pc = "idle"
        BY <3>2, <3>7 DEF WriteManifest, NoLoad
      <4> HIDE DEF s
      <4> QED
        BY <3>1, <4>2, <4>3 DEF ManifestInv, Built
    <3> QED
      BY <2>2, <3>3, <3>4, <3>5, <3>6, <3>7 DEF LoadStep
  <2>3. ASSUME NEW c \in Scorer, ScoreStep(c) PROVE ManifestInv'
    BY <2>1, <2>3 DEF ScoreStep, StartScore, ScoredHeldView, CheckCodePass, CheckNarrowHold,
                      ReadGraph, EndScore
  <2> QED
    BY <2>1, <2>2, <2>3 DEF Next, vars
<1> QED
  BY <1>1, <1>2, TypedAlways, LoadAlways, PTL DEF Spec

(* One load at a time, a graph whose last load finished is the one the         *)
(* manifest describes, whatever was refused, broken or half written before.    *)
THEOREM ManifestIsTrue == ASSUME OneAtATime PROVE Spec => []ManifestTells
<1>1. ManifestInv => ManifestTells
  BY DEF ManifestInv, ManifestTells
<1> QED
  BY <1>1, ManifestAlways, PTL

-----------------------------------------------------------------------------
(* What a score reads.                                                         *)

(* Two settings that differ in the held view alone accept and stamp alike.     *)
LEMMA SameRouting ==
    ASSUME NEW s \in Setting, NEW m \in Setting, s.code = m.code, s.narrow = m.narrow
    PROVE  Accepted(s) = Accepted(m) /\ \A i : StampOf(s, i) = StampOf(m, i)
  <1>1. AcceptedEntities(s) = AcceptedEntities(m)
    BY DEF AcceptedEntities
  <1>2. AcceptedLinks(s) = AcceptedLinks(m)
    BY <1>1 DEF AcceptedLinks
  <1>3. Accepted(s) = Accepted(m)
    BY <1>1, <1>2 DEF Accepted
  <1>4. AcceptedEntities([s EXCEPT !.narrow = FALSE]) = AcceptedEntities([m EXCEPT !.narrow = FALSE])
    BY DEF AcceptedEntities, Setting
  <1>5. AcceptedLinks([s EXCEPT !.narrow = FALSE]) = AcceptedLinks([m EXCEPT !.narrow = FALSE])
    BY <1>4 DEF AcceptedLinks
  <1> QED
    BY <1>3, <1>5 DEF StampOf

(* Without the held items, the slice of a built graph is what was accepted, and*)
(* no accepted link is dropped for an end that was not read.                   *)
LEMMA SliceOfAccepted ==
    ASSUME NEW s \in Setting
    PROVE  Slice(Built(s), FALSE) = {<<i, StampOf(s, i)>> : i \in Accepted(s) \ PartOf}
  <1> DEFINE g == Built(s)
             kept == {i \in Item \ PartOf : g[i] # "absent" /\ (g[i] = "held" => FALSE)}
  <1>1. \A i \in Item : g[i] = IF i \in Rows(s) THEN StampOf(s, i) ELSE "absent"
    BY DEF Built
  <1>2. \A i \in Item : i \in Accepted(s) <=> g[i] # "absent" /\ g[i] # "held"
    BY <1>1, RowsAreItems, HeldIsNotAccepted, StampIsStamp DEF Stamp
  <1>3. kept = Accepted(s) \ PartOf
    BY <1>2, RowsAreItems
  <1>4. \A i \in kept : i \in Link => \A n \in Ends[i] : g[n] # "held"
    <2> SUFFICES ASSUME NEW i \in kept, i \in Link, NEW n \in Ends[i] PROVE g[n] # "held"
      OBVIOUS
    <2>1. i \in AcceptedLinks(s)
      <3>1. i \in Accepted(s) /\ i \notin Node /\ i \notin PartOf
        BY <1>3, KindAssumption DEF Node, PartOf
      <3> QED
        BY <3>1, CorpusAssumption DEF Accepted, Node, PartOf, AcceptedEntities
    <2>2. n \in Accepted(s)
      BY <2>1, CorpusAssumption DEF Accepted, AcceptedLinks
    <2> QED
      BY <1>2, <2>2, RowsAreItems
  <1>5. {i \in kept : i \in Link => \A n \in Ends[i] : g[n] = "held" => n \in kept} = kept
    BY <1>4
  <1>6. \A i \in kept : g[i] = StampOf(s, i)
    BY <1>1, <1>3, RowsAreItems
  <1>7. Slice(g, FALSE) = {<<i, g[i]>> : i \in {i \in kept : i \in Link =>
                                \A n \in Ends[i] : g[n] = "held" => n \in kept}}
    BY DEF Slice
  <1> HIDE DEF g, kept
  <1>8. Slice(g, FALSE) = {<<i, g[i]>> : i \in kept}
    BY <1>5, <1>7
  <1>9. {<<i, g[i]>> : i \in kept} = {<<i, StampOf(s, i)>> : i \in kept}
    BY <1>6
  <1> QED
    BY <1>3, <1>8, <1>9 DEF g

(* A score that routes as the graph was built reads what it would have built,  *)
(* if it takes the held view of the build or none.                             *)
LEMMA SlicesAgree ==
    ASSUME NEW s \in Setting, NEW m \in Setting, s.code = m.code, s.narrow = m.narrow,
           s.held = m.held \/ s.held = FALSE
    PROVE  Slice(Built(m), s.held) = Slice(Built(s), s.held)
  <1>1. CASE s.held = m.held
    <2>1. s = m
      BY <1>1 DEF Setting
    <2> QED
      BY <2>1
  <1>2. CASE s.held = FALSE
    <2>1. Slice(Built(m), FALSE) = {<<i, StampOf(m, i)>> : i \in Accepted(m) \ PartOf}
      BY SliceOfAccepted
    <2>2. Slice(Built(s), FALSE) = {<<i, StampOf(s, i)>> : i \in Accepted(s) \ PartOf}
      BY SliceOfAccepted
    <2>3. Accepted(s) = Accepted(m) /\ \A i : StampOf(s, i) = StampOf(m, i)
      BY SameRouting
    <2>4. Slice(Built(m), FALSE) = Slice(Built(s), FALSE)
      BY <2>1, <2>2, <2>3
    <2> QED
      BY <1>2, <2>4
  <1> QED
    BY <1>1, <1>2

(* A graph built with the held view off holds nothing held.                    *)
LEMMA HeldMeansHeldView ==
    ASSUME NEW m \in Setting, NEW n \in Item, Built(m)[n] = "held"
    PROVE  m.held = TRUE
  <1>1. n \in Rows(m) /\ n \notin Accepted(m)
    BY HeldIsNotAccepted DEF Built
  <1> QED
    BY <1>1 DEF Rows, Setting

(* A score that saw no clear is over a finished graph, and what it has checked *)
(* so far agrees with the manifest.                                            *)
HeldChecked(t) ==
    \/ score[t].pc = "read"
    \/ (score[t].by = "eval" /\ score[t].pc \in {"code", "narrow"})
CodeChecked(t) ==
    \/ score[t].pc \in {"narrow", "read"}
    \/ score[t].by = "trace" /\ score[t].pc = "held"
NarrowChecked(t) == score[t].pc = "read" \/ (score[t].by = "trace" /\ score[t].pc = "held")

QuietInv ==
    \A t \in Scorer : score[t].quiet =>
        /\ finished
        /\ HeldChecked(t) => score[t].set.held = IF score[t].given # None THEN score[t].given
                                                 ELSE manifest.set.held
        /\ CodeChecked(t) => score[t].set.code = manifest.set.code
        /\ NarrowChecked(t) => score[t].set.narrow = manifest.set.narrow
        /\ score[t].pc = "score" => score[t].exact

(* One step of a score that saw no clear keeps what it checked.                *)
LEMMA QuietStep ==
    ASSUME Typed, ManifestInv, QuietInv, NEW c \in Scorer, ScoreStep(c)
    PROVE  QuietInv'
  <1> DEFINE Good(s) ==
        s.quiet =>
          /\ finished
          /\ s.pc = "read" \/ (s.by = "eval" /\ s.pc \in {"code", "narrow"})
                => s.set.held = IF s.given # None THEN s.given ELSE manifest.set.held
          /\ s.pc \in {"narrow", "read"} \/ (s.by = "trace" /\ s.pc = "held")
                => s.set.code = manifest.set.code
          /\ s.pc = "read" \/ (s.by = "trace" /\ s.pc = "held")
                => s.set.narrow = manifest.set.narrow
          /\ s.pc = "score" => s.exact
  <1>1. QuietInv <=> \A t \in Scorer : Good(score[t])
    BY DEF QuietInv, HeldChecked, CodeChecked, NarrowChecked
  <1>2. UNCHANGED <<graph, manifest, load, finished>>
    BY DEF ScoreStep, StartScore, ScoredHeldView, CheckCodePass, CheckNarrowHold, ReadGraph, EndScore
  <1>3. ASSUME NEW s, SetScore(c, s), Good(s) PROVE QuietInv'
    <2>1. \A t \in Scorer : score'[t] = IF t = c THEN s ELSE score[t]
      BY <1>3, Parts DEF SetScore
    <2>2. \A t \in Scorer : Good(score'[t])
      BY <1>1, <1>3, <2>1
    <2> QED
      BY <1>2, <2>2 DEF QuietInv, HeldChecked, CodeChecked, NarrowChecked
  <1>4. Scoring(score[c]) /\ Good(score[c])
    BY <1>1, Parts
  <1>5. score[c].quiet => /\ finished /\ manifest.is = "whole" /\ graph = Built(manifest.set)
                          /\ manifest.set \in Setting
    BY <1>4, Parts DEF ManifestInv, Manifest
  <1>6. Good(NoScore)
    BY DEF NoScore
  <1>7. ASSUME NEW by \in {"eval", "trace"}, NEW given \in BOOLEAN \cup {None},
               NEW code \in BOOLEAN, NEW narrow \in BOOLEAN, StartScore(c, by, given, code, narrow)
        PROVE  QuietInv'
    <2> DEFINE alone == manifest.is = "whole" /\ \A l \in Loader : load[l].pc = "idle"
               s == [pc |-> IF by = "eval" THEN "held" ELSE "code", by |-> by, given |-> given,
                     exact |-> FALSE, quiet |-> finished, alone |-> alone,
                     set |-> [held |-> FALSE, code |-> code, narrow |-> narrow]]
    <2>1. SetScore(c, s)
      BY <1>7 DEF StartScore
    <2> HIDE DEF alone
    <2>2. Good(s)
      BY <1>7
    <2> QED
      BY <1>3, <2>1, <2>2
  <1>8. CASE SetScore(c, NoScore)
    BY <1>3, <1>6, <1>8
  <1>9. CASE ScoredHeldView(c)
    <2>1. ASSUME NEW held, held = IF score[c].given # None THEN score[c].given ELSE manifest.set.held,
                 SetScore(c, [score[c] EXCEPT !.pc = AfterHeld(c), !.set.held = held])
          PROVE  QuietInv'
      <3> DEFINE s == [score[c] EXCEPT !.pc = AfterHeld(c), !.set.held = held]
      <3>1. score[c].pc = "held" /\ score[c].set \in Setting
        BY <1>4, <1>9 DEF ScoredHeldView, Scoring
      <3>2. /\ s.quiet = score[c].quiet /\ s.by = score[c].by /\ s.given = score[c].given
            /\ s.pc = IF s.by = "eval" THEN "code" ELSE "read"
            /\ s.set.held = held /\ s.set.code = score[c].set.code /\ s.set.narrow = score[c].set.narrow
            /\ s.by \in {"eval", "trace"}
        BY <1>4, <3>1 DEF Scoring, ScoreState, Setting, AfterHeld
      <3> HIDE DEF s
      <3>3. Good(s)
        BY <1>4, <2>1, <3>1, <3>2
      <3> QED
        BY <1>3, <2>1, <3>3 DEF s
    <2>2. CASE score[c].given # None
      BY <1>9, <2>1, <2>2 DEF ScoredHeldView
    <2>3. CASE score[c].given = None /\ Readable /\ score[c].quiet
      <3>1. BuiltWith("held") = manifest.set.held
        BY <1>5, <2>3 DEF BuiltWith, Setting
      <3> QED
        BY <1>9, <2>1, <2>3, <3>1 DEF ScoredHeldView
    <2>4. CASE score[c].given = None /\ Readable /\ ~score[c].quiet
      <3> DEFINE s == [score[c] EXCEPT !.pc = AfterHeld(c), !.set.held = BuiltWith("held")]
      <3>1. s.quiet = score[c].quiet
        BY <1>4 DEF Scoring, ScoreState
      <3>2. SetScore(c, s)
        BY <1>9, <2>4 DEF ScoredHeldView
      <3> HIDE DEF s
      <3>3. Good(s)
        BY <2>4, <3>1
      <3> QED
        BY <1>3, <3>2, <3>3
    <2> QED
      BY <1>4, <1>8, <1>9, <2>2, <2>3, <2>4 DEF ScoredHeldView
  <1>10. CASE CheckCodePass(c)
    <2>1. CASE Agrees(c, "code") /\ SetScore(c, [score[c] EXCEPT !.pc = "narrow"])
      <3> DEFINE s == [score[c] EXCEPT !.pc = "narrow"]
      <3>1. /\ s.quiet = score[c].quiet /\ s.by = score[c].by /\ s.given = score[c].given
            /\ s.pc = "narrow" /\ s.set = score[c].set /\ score[c].pc = "code"
        BY <1>4, <1>10 DEF CheckCodePass, Scoring, ScoreState
      <3>2. score[c].quiet => score[c].set.code = manifest.set.code
        BY <1>5, <2>1 DEF Agrees, BuiltWith, Setting
      <3> HIDE DEF s
      <3>3. Good(s)
        BY <1>4, <3>1, <3>2
      <3> QED
        BY <1>3, <2>1, <3>3 DEF s
    <2> QED
      BY <1>8, <1>10, <2>1 DEF CheckCodePass
  <1>11. CASE CheckNarrowHold(c)
    <2>1. CASE Agrees(c, "narrow") /\ SetScore(c, [score[c] EXCEPT !.pc = AfterChecks(c)])
      <3> DEFINE s == [score[c] EXCEPT !.pc = AfterChecks(c)]
      <3>1. /\ s.quiet = score[c].quiet /\ s.by = score[c].by /\ s.given = score[c].given
            /\ s.pc = IF s.by = "eval" THEN "read" ELSE "held"
            /\ s.set = score[c].set /\ score[c].pc = "narrow" /\ s.by \in {"eval", "trace"}
        BY <1>4, <1>11 DEF CheckNarrowHold, Scoring, ScoreState, AfterChecks
      <3>2. score[c].quiet => score[c].set.narrow = manifest.set.narrow
        BY <1>5, <2>1 DEF Agrees, BuiltWith, Setting
      <3> HIDE DEF s
      <3>3. Good(s)
        BY <1>4, <3>1, <3>2
      <3> QED
        BY <1>3, <2>1, <3>3 DEF s
    <2> QED
      BY <1>8, <1>11, <2>1 DEF CheckNarrowHold
  <1>12. CASE ReadGraph(c)
    <2> DEFINE set == score[c].set
               exact == Slice(graph, set.held) = Slice(Built(set), set.held)
               s == [score[c] EXCEPT !.pc = "score", !.exact = exact]
    <2>1. CASE SetScore(c, s) /\ ~(score[c].given = TRUE /\ ~HoldsHeld)
      <3>1. s.quiet = score[c].quiet /\ s.pc = "score" /\ s.exact = exact
            /\ score[c].pc = "read" /\ set \in Setting /\ score[c].given \in BOOLEAN \cup {None}
        BY <1>4, <1>12 DEF ReadGraph, Scoring, ScoreState
      <3>2. ASSUME score[c].quiet PROVE exact
        <4>1. /\ graph = Built(manifest.set) /\ manifest.set \in Setting
              /\ set.code = manifest.set.code /\ set.narrow = manifest.set.narrow
              /\ set.held = IF score[c].given # None THEN score[c].given ELSE manifest.set.held
          BY <1>4, <1>5, <3>1, <3>2
        <4>2. score[c].given = TRUE => manifest.set.held = TRUE
          <5> SUFFICES ASSUME score[c].given = TRUE PROVE manifest.set.held = TRUE
            OBVIOUS
          <5>1. PICK n \in Entity \cup Gap : graph[n] = "held"
            BY <2>1 DEF HoldsHeld
          <5> QED
            BY <4>1, <5>1, HeldMeansHeldView DEF Item, Node
        <4>3. set.held = manifest.set.held \/ set.held = FALSE
          BY <3>1, <4>1, <4>2
        <4> HIDE DEF set
        <4> QED
          BY <3>1, <4>1, <4>3, SlicesAgree
      <3> HIDE DEF s, exact
      <3>3. Good(s)
        BY <1>4, <3>1, <3>2
      <3> QED
        BY <1>3, <2>1, <3>3
    <2> QED
      BY <1>8, <1>12, <2>1 DEF ReadGraph
  <1>13. CASE EndScore(c)
    BY <1>8, <1>13 DEF EndScore
  <1> QED
    BY <1>7, <1>9, <1>10, <1>11, <1>12, <1>13 DEF ScoreStep

\* One load at a time, a score no load came near has read what its checks let through.
LEMMA QuietAlways == ASSUME OneAtATime PROVE Spec => []QuietInv
<1>1. Init => QuietInv
  BY DEF Init, QuietInv, NoScore
<1>2. Typed /\ ManifestInv /\ QuietInv /\ [Next]_vars => QuietInv'
  <2> SUFFICES ASSUME Typed, ManifestInv, QuietInv, [Next]_vars PROVE QuietInv'
    OBVIOUS
  <2> USE DEF HeldChecked, CodeChecked, NarrowChecked
  <2>1. CASE UNCHANGED <<manifest, score, finished>>
    BY <2>1 DEF QuietInv
  <2>2. ASSUME NEW c \in Loader, LoadStep(c) PROVE QuietInv'
    <3>1. ASSUME NEW s \in Setting, StartLoad(c, s) PROVE QuietInv'
      <4>1. score' = [t \in Scorer |-> [score[t] EXCEPT !.alone = FALSE]]
            /\ UNCHANGED <<manifest, finished>>
        BY <3>1 DEF StartLoad
      <4>2. ASSUME NEW t \in Scorer
            PROVE  /\ score'[t].quiet = score[t].quiet /\ score'[t].pc = score[t].pc
                   /\ score'[t].by = score[t].by /\ score'[t].given = score[t].given
                   /\ score'[t].set = score[t].set /\ score'[t].exact = score[t].exact
        BY <4>1, Parts DEF Scoring, ScoreState
      <4> QED
        BY <4>1, <4>2 DEF QuietInv
    <3>2. CASE Refuse(c) \/ Break(c) \/ Statement(c)
      BY <2>1, <3>2 DEF Refuse, Break, Statement
    <3>3. CASE Clear(c)
      <4>1. score' = [t \in Scorer |-> [score[t] EXCEPT !.quiet = FALSE]]
        BY <3>3 DEF Clear
      <4>2. \A t \in Scorer : score'[t].quiet = FALSE
        BY <4>1, Parts DEF Scoring, ScoreState
      <4> QED
        BY <4>2 DEF QuietInv
    \* A load past its clear, and so no score is quiet.
    <3>4. CASE OpenManifest(c) \/ WriteManifest(c)
      <4>1. ~finished /\ score' = score
        BY <3>4 DEF OpenManifest, WriteManifest, ManifestInv
      <4> QED
        BY <4>1 DEF QuietInv
    <3> QED
      BY <2>2, <3>1, <3>2, <3>3, <3>4 DEF LoadStep
  <2>3. ASSUME NEW c \in Scorer, ScoreStep(c) PROVE QuietInv'
    BY <2>3, QuietStep
  <2> QED
    BY <2>1, <2>2, <2>3 DEF Next, vars
<1> QED
  BY <1>1, <1>2, TypedAlways, ManifestAlways, PTL DEF Spec

(* One load at a time and any number of scores beside it, a score over a graph *)
(* no load was rewriting or had left half written since it began reads exactly *)
(* the graph its own routing would build.                                      *)
THEOREM QuietScoresAreExact == ASSUME OneAtATime PROVE Spec => []QuietScoreIsExact
<1>1. QuietInv => QuietScoreIsExact
  BY DEF QuietInv, QuietScoreIsExact
<1> QED
  BY <1>1, QuietAlways, PTL

=============================================================================
