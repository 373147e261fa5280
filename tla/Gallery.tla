------------------------------ MODULE Gallery ------------------------------
(***************************************************************************)
(* `tracepath gallery build` (gallery/ and gallery_build of cli.py) over   *)
(* the records `ask` writes: the marks file and the records it names, read *)
(* and checked before anything is written; each shown answer's graph; and  *)
(* the site written file by file over the last one, the page last.         *)
(***************************************************************************)
EXTENDS AskGuard, SequencesExt

CONSTANTS
    Development,  \* the questions of the development eval file
    Answered,     \* what a settled record of each name stores
    Lines,        \* the pinned snapshot: how many lines each of its files has
    SlugOf,       \* the slug of each label, None when it is empty
    MarksFiles    \* the marks files the engineer may keep, sequences of entries

SectionOrder == <<"development", "held out", "realistic">>
\* An entry of the marks file names a record, a label and a section.
MarksEntry == [record : Name, label : DOMAIN SlugOf, section : Range(SectionOrder)]

ASSUME DevelopmentAssumption == Development \subseteq Eval
\* A record stores lists: its items, its claims and what each claim cites.
ASSUME AnsweredAssumption ==
    /\ DOMAIN Answered = Name
    /\ \A answer \in Range(Answered) :
          /\ answer.items \in Seq(Range(answer.items))
          /\ answer.claims \in Seq(Range(answer.claims))
          /\ \A claim \in Range(answer.claims) : claim.cites \in Seq(Range(claim.cites))
\* A place is a file and a line, or no line.
ASSUME PlaceAssumption ==
    /\ \A file \in DOMAIN Lines : Lines[file] \in Nat
    /\ None \notin (DOMAIN Lines) \X (Nat \cup {None})
ASSUME MarksAssumption == MarksFiles \subseteq Seq(MarksEntry)

Slugs == {SlugOf[l] : l \in DOMAIN SlugOf} \ {None}
\* The graph files have a folder of their own.
ASSUME SlugAssumption == Slugs \cap {"preview", "index"} = {}
File == Slugs \cup {"preview", "index"}
NoFile == [is |-> "absent", holds |-> None]
Torn == [is |-> "torn", holds |-> None]
Whole(text) == [is |-> "whole", holds |-> text]

VARIABLES
    site,   \* the files of the output folder
    build   \* the build that runs

galleryVars == <<site, build>>
allVars == <<vars, galleryVars>>

NoBuild == [entries |-> <<>>, left |-> <<>>, text |-> None, clean |-> FALSE]

GalleryInit ==
    /\ Init
    /\ site = [f \in File |-> NoFile]
    /\ build = NoBuild
-----------------------------------------------------------------------------
(* The records, the marks file and the snapshot, as read.                  *)

IdsOf(answer) == {answer.items[i].id : i \in DOMAIN answer.items}
ItemOf(answer, id) == CHOOSE item \in Range(answer.items) : item.id = id
EndsOf(link) == {link.source, link.target}
\* The ids a claim cites and code did not reject.
Uses(claim) == Range(claim.cites) \ claim.rejected

\* The place in JobHunt an item's link opens.
ItemLink(item) == IF item.file = None THEN None ELSE <<item.file, item.line>>

\* A file of the snapshot, and a line it has when a line is stored.
InSnapshot(item) ==
    \/ item.file = None
    \/ /\ item.file \in DOMAIN Lines
       /\ item.line = None \/ item.line \in 1 .. Lines[item.file]

\* checked_items(): the pinned commit, the places, ids told apart, and links and citations
\* of items the record holds, each cited one with a file to open.
CheckedItems(answer) ==
    /\ answer.pinned
    /\ \A item \in Range(answer.items) : InSnapshot(item)
    /\ Cardinality(IdsOf(answer)) = Len(answer.items)
    /\ \A link \in Range(answer.links) : EndsOf(link) \subseteq IdsOf(answer)
    /\ \A claim \in Range(answer.claims) : \A id \in Uses(claim) :
          id \in IdsOf(answer) /\ ItemOf(answer, id).file # None

\* The one section a record may be marked in.
SectionFits(n) ==
    CASE n[2] \notin Eval -> "realistic"
      [] n[2] \in Development -> "development"
      [] OTHER -> "held out"

\* Only the record of an answer has a verdict, missing notes and claims to read.
Readable(entry) == records[entry.record] = "settled"

Column(field, marks) == {marks[k][field] : k \in DOMAIN marks}

\* parse_marks(), then every record in turn; nothing has been written yet.
Loads(marks) ==
    /\ \A field \in {"record", "label"} : Cardinality(Column(field, marks)) = Len(marks)
    /\ \A entry \in Range(marks) :
          /\ Readable(entry)
          /\ entry.section = SectionFits(entry.record)
          /\ CheckedItems(Answered[entry.record])

\* The members of s that are in S, in turn.
Only(s, S) ==
    LET kept[k \in 0 .. Len(s)] ==
            IF k = 0 THEN <<>>
            ELSE IF s[k] \in S THEN Append(kept[k - 1], s[k]) ELSE kept[k - 1]
    IN  kept[Len(s)]

InSection(entries, section) == Only(entries, {e \in Range(entries) : e.section = section})

\* Each section's entries in turn, in the order of the marks file.
PageOrder(entries) ==
    FlattenSeq([s \in DOMAIN SectionOrder |-> InSection(entries, SectionOrder[s])])

\* Every label makes a slug, and no two the same.
SlugsTellApart(entries) ==
    LET slugs == {SlugOf[e.label] : e \in Range(entries)} IN
    None \notin slugs /\ Cardinality(slugs) = Len(entries)
-----------------------------------------------------------------------------
(* One entry's graph file.                                                 *)

\* The numbers of the claims that cite the item and do not reject it.
CitedBy(answer, id) == {k \in DOMAIN answer.claims : id \in Uses(answer.claims[k])}

\* The citations in reading order.
Citations(answer) ==
    FlattenSeq([k \in DOMAIN answer.claims |->
        Only(answer.claims[k].cites, Uses(answer.claims[k]))])

\* The item's number in order of first citation.
CiteOrder(answer, id) ==
    LET cited == Citations(answer)
        first == CHOOSE j \in DOMAIN cited : cited[j] = id /\ id \notin Range(SubSeq(cited, 1, j - 1))
    IN  Cardinality(Range(SubSeq(cited, 1, first)))

LinksAt(answer, id) == {k \in DOMAIN answer.links : id \in EndsOf(answer.links[k])}
Neighbours(answer, id) == (UNION {EndsOf(answer.links[k]) : k \in LinksAt(answer, id)}) \ {id}

GraphItem(answer, id) ==
    LET cited == {i \in IdsOf(answer) : CitedBy(answer, i) # {}} IN
    [cited |-> id \in cited,
     citedBy |-> CitedBy(answer, id),
     order |-> IF id \in cited THEN CiteOrder(answer, id) ELSE None,
     neighbours |-> Neighbours(answer, id),
     nearCited |-> id \in cited \/ Neighbours(answer, id) \cap cited # {},
     links |-> LinksAt(answer, id),
     source |-> ItemLink(ItemOf(answer, id))]

\* One entry's graph, with its place among the shown ones.
EntryGraph(entry, slug, position, total, previous, next) ==
    LET answer == Answered[entry.record]
        items == [id \in IdsOf(answer) |-> GraphItem(answer, id)]
    IN  [slug |-> slug, record |-> entry.record, position |-> position, total |-> total,
         previous |-> previous, next |-> next,
         count |-> Cardinality({id \in IdsOf(answer) : items[id].cited}), items |-> items]

\* Every entry's graph, in page order, with the slugs of the ones beside it.
EntryGraphs(entries) ==
    LET ordered == PageOrder(entries)
        slug(j) == IF j \in DOMAIN ordered THEN SlugOf[ordered[j].label] ELSE None
    IN  [k \in DOMAIN ordered |->
            EntryGraph(ordered[k], slug(k), k, Len(ordered), slug(k - 1), slug(k + 1))]
-----------------------------------------------------------------------------
(* The page.                                                               *)

\* Mutant of Cited: every id a claim names is counted.
NamedAtAll(answer) == UNION {Range(claim.cites) : claim \in Range(answer.claims)}

\* The ids some claim cites without rejecting: the M of the strip and of Items sent.
Cited(answer) == UNION {Uses(claim) : claim \in Range(answer.claims)}

\* What a claim's citations link to; a rejected one is plain words.
CitationLinks(answer, claim) ==
    [id \in {i \in Range(claim.cites) : i \notin claim.rejected} |-> ItemLink(ItemOf(answer, id))]

\* What Items sent lists: the cited ones in full, the others a row each.
ItemsSent(answer) ==
    LET cited == Cited(answer) IN
    [full |-> IdsOf(answer) \cap cited, rows |-> IdsOf(answer) \ cited]

\* The counts the strip shows.
Strip(answer) == [sent |-> Len(answer.items), cited |-> Cardinality(Cited(answer))]

\* An article: its graph strip, its claims, and the items sent.
Article(entry) ==
    LET answer == Answered[entry.record] IN
    [slug |-> SlugOf[entry.label], record |-> entry.record, section |-> entry.section,
     strip |-> Strip(answer), items |-> ItemsSent(answer),
     claims |-> [k \in DOMAIN answer.claims |-> CitationLinks(answer, answer.claims[k])]]

SectionArticles(entries, section) ==
    LET shown == InSection(entries, section) IN
    [k \in DOMAIN shown |-> Article(shown[k])]

CountRecords == Cardinality({n \in Name : Written(n)})

\* The articles section by section, and how many records the page says there are.
RenderPage(entries) ==
    [articles |-> FlattenSeq([s \in DOMAIN SectionOrder |->
         SectionArticles(entries, SectionOrder[s])]),
     shown |-> Len(entries), records |-> CountRecords]
-----------------------------------------------------------------------------
(* The build.                                                              *)

Idling == build.left = <<>>

\* Mutant of FilesInOrder: the page goes first.
PageFirst(ordered) ==
    <<"index">> \o [k \in DOMAIN ordered |-> SlugOf[ordered[k].label]] \o <<"preview">>

\* The graph files, the preview, and the page last.
FilesInOrder(ordered) ==
    [k \in DOMAIN ordered |-> SlugOf[ordered[k].label]] \o <<"preview", "index">>

\* load_entries() and entry_graphs(), read as one: a record once whole is never rewritten.
\* A marks file, record or label that fails ends the command with nothing written.
Build ==
    /\ Idling
    /\ \E marks \in MarksFiles :
          /\ Loads(marks)
          /\ SlugsTellApart(marks)
          /\ build' = [entries |-> marks, left |-> FilesInOrder(PageOrder(marks)), text |-> None,
                       clean |-> FALSE]
    /\ UNCHANGED <<vars, site>>

\* A graph file, the preview image or the page.
TextOf(file) ==
    CASE file = "preview" -> "preview"
      [] file = "index" -> RenderPage(build.entries)
      [] OTHER -> CHOOSE graph \in Range(EntryGraphs(build.entries)) : graph.slug = file

\* _write_site_file(): the text is made, the file emptied, the text written.
OpenFile ==
    /\ ~Idling
    /\ build.text = None
    /\ build' = [build EXCEPT !.text = TextOf(Head(build.left))]
    /\ site' = [site EXCEPT ![Head(build.left)] = Torn]
    /\ UNCHANGED vars

FillFile ==
    /\ ~Idling
    /\ build.text # None
    /\ site' = [site EXCEPT ![Head(build.left)] = Whole(build.text)]
    /\ build' = [build EXCEPT !.left = Tail(@), !.text = None, !.clean = Len(build.left) = 1]
    /\ UNCHANGED vars

\* A file that cannot be written, or a kill: the site is left as it stands.
BuildStops ==
    /\ ~Idling
    /\ build' = NoBuild
    /\ UNCHANGED <<vars, site>>

GalleryNext ==
    \/ Next /\ UNCHANGED galleryVars
    \/ Build \/ OpenFile \/ FillFile \/ BuildStops

GallerySpec == GalleryInit /\ [][GalleryNext]_allVars
-----------------------------------------------------------------------------
(* Properties.                                                             *)

PageStands == site["index"].is = "whole"
Page == site["index"].holds
ArticlesOf(page) == Range(page.articles)
GraphAt(slug) == site[slug].holds

\* Whatever build failed where, and over whatever page came before: a page that can be read
\* names no graph file that is not there (AC-127), shows settled answers alone, each in the
\* section its question belongs to, and never more of them than the records it counts.
NoMissingFile ==
    PageStands =>
        /\ \A article \in ArticlesOf(Page) :
              /\ site[article.slug].is # "absent"
              /\ records[article.record] = "settled"
              /\ article.section = SectionFits(article.record)
        /\ Page.shown = Len(Page.articles)
        /\ Page.shown <= Page.records

Opens(place) ==
    place # None /\ place[1] \in DOMAIN Lines /\ place[2] \in {None} \cup (1 .. Lines[place[1]])

\* When the last build ended, every graph the page opens is the one of the record beside
\* it: the strip's two counts are the graph's (AC-93 to AC-97), the items shown in full are
\* the ones it draws as cited, numbered from 1 with no gap, a claim links the items that list it and
\* no others, each to the place the graph gives, which the snapshot has (AC-38, AC-39), and
\* the window's arrows walk the articles in the order the page shows them.
GraphsAgree ==
    build.clean =>
        \A k \in DOMAIN Page.articles :
            LET article == Page.articles[k]
                graph == GraphAt(article.slug)
                ids == DOMAIN graph.items
                beside(j) == IF j \in DOMAIN Page.articles THEN Page.articles[j].slug ELSE None
            IN  /\ site[article.slug].is = "whole"
                /\ graph.record = article.record
                /\ article.strip.sent = Cardinality(ids)
                /\ article.strip.cited = graph.count
                /\ article.items.full = {id \in ids : graph.items[id].cited}
                /\ article.items.rows = {id \in ids : ~graph.items[id].cited}
                /\ {graph.items[id].order : id \in article.items.full} = 1 .. graph.count
                /\ \A c \in DOMAIN article.claims :
                      LET links == article.claims[c] IN
                      /\ DOMAIN links = {id \in ids : c \in graph.items[id].citedBy}
                      /\ \A id \in DOMAIN links : links[id] = graph.items[id].source
                                                /\ Opens(links[id])
                /\ graph.position = k /\ graph.total = Page.shown
                /\ graph.previous = beside(k - 1) /\ graph.next = beside(k + 1)
=============================================================================
