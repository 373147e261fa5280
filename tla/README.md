# Verifying tracepath

`tracepath` extracts the decisions a project's documents record, with paid model calls,
into JSON artifacts that are never edited; compares the runs of each section and routes
what is unstable to a review queue; loads what is left into a Neo4j graph; and answers
questions from that graph, again with paid calls, every claim cited. Everything after the
paid calls is meant to be rebuildable from the committed artifacts alone.

This directory models it from the paid call to the printed answer, wherever an interleaving, a
crash, a lost write, a rule that meets another or a long sequence of commands could go wrong,
checks the models with TLC and proves nearly every checked property for all instances with TLAPS. Paths below are
relative to `src/tracepath/` of the repository unless they start with `docs/` or `README`.

## The system

| Component | State | Operations | Talks to | What is hard | Correct means | Module |
|---|---|---|---|---|---|---|
| **Paid extraction** (`extract/metered.py`, `cli.py: extract`, `artifacts.py`) | `artifacts/runs/<record>/<slug>/run-N.json`, `failed-run-N-attempt-M.json`; within a command: its owed runs, total, cache and failure counts | `extract`, `extract --resume`, one retry per run, `write_run` | model client, cost rules | crashes and Ctrl-C between any two steps, lost writes, calls that drop without reporting usage, resume under changed settings, two commands at once | no money past `--ceiling`; what was paid for is on disk before anything else is; nothing on disk is replaced; attempts have no gap; blocked runs stay blocked | `MeteredRun` |
| **Model client and cost** (`extract/client.py`, `extract/cost.py`) | none | `extract_once`, `attempt_cost`, `recorded_cost` | provider | what a failed or dropped call costs | a call is never counted at less than its bill | in `MeteredRun`, `AskGuard` |
| **Ids, spans, units** (`extract/ids.py`, `locate.py`, `units.py`, `precheck.py`, `schema.py`) | none | `locate_output`, `assign_ids`, ... | routing, corpus | ordering of derived ids, verbatim ids that a struck and a current item both carry | the ids do not depend on how a run numbered its items | `Ids` |
| **Routing** (`extract/compare.py`, `extract/codepass.py`) | one `RoutedUnit` per unit | `compare_runs`, `code_decided_ids`, `route_runs` (plain, with the code pass, with the narrow hold rule) | rebuild, load, review queue | rules that release each other's holds; links that wait on entities | nothing disputed is ever accepted; nothing is dropped; a setting only ever releases | `Routing` |
| **Corpus** (`pipeline.py`, `resolve/endpoints.py`, `rebuild.py`) | none (recomputed from artifacts) | `resolve_accepted`, `build_held_view`, `review_rows`, `narrow_hold_tally` | routing, load | links across units, labels, ids two units claim, keys that collapse | every link has both its ends; everything stands once, accepted or held | `Corpus` |
| **Graph load** (`pipeline.load`, `graph/*.py`, `cli.py: load_graph`) | the Neo4j graph; `artifacts/graph-build.json` | `load` | corpus, manifest | many transactions, not one; stops part way; the manifest is written last | a finished load leaves exactly the graph its manifest describes | `GraphLoad` |
| **Score** (`cli.py: eval`, `trace --eval`, `report.py`) | none | the held view and mismatch checks, `read_graph`, findings, reasons, verdicts | manifest, graph, routing | reads the manifest up to three times, then the graph; explains with the run files of the moment | what is scored is what its label says; an absence that passes is proven | `GraphLoad`, `Evaluation` |
| **Comparison and hold ratio** (`four_way.py`, `hold_ratio.py`) | none | the four configurations side by side | load, score | two flags meet | neither flag makes a step worse | `FourWay`, `Corpus` |
| **Walk** (`traverse/*.py`) | the walk's queue | `read_graph`, `graph_slice`, `drop_held`, `walk` | graph | cycles, hop limit, held ends | what is near is reached at its distance; a limit is told | `Slice`, `GraphRead`, `Walk` |
| **Retrieval and answers** (`ask/retrieve.py`, `ask/answer.py`) | none | `build_pack`, `check_answer` | graph slice | limits, chains of replacements | what is sent is closed under replacement; a claim's marks are earned | `Pack` |
| **Ask** (`cli.py: ask`, `extract/metered.py: ask_metered`, `ask/record.py`) | `artifacts/asks/*.json` | `ask`, the held out guard, one paid call, `write_record` | graph, model client | guard, call and record are three steps; record names have one second resolution | a settled held out question stays settled; the record never understates the bill | `AskGuard` |
| **Gallery** (`gallery/*.py`, `cli.py: gallery_build`) | the site folder | `gallery build` | ask records, marks file | files written one by one over the last site; two modules count the same citations | the page opens only what is there, and says what it says | `Gallery` |
| **Settings, connection** (`config.py`, `graph/connection.py`) | none | read the environment, open a driver | all | nothing | | |

Components interact through three directories and one database: `extract` writes run files;
`load`, `eval`, `trace`, `ask` and the review queue rebuild from them; `load` alone writes
the graph and its manifest; the score and `ask` read both; `ask` writes ask records, which
only `ask` and the gallery read; the gallery alone writes the site. No lock protects any of
them: two commands may run at once.

`PROJECT.json` lists, under `hazards`, each place of the code where this can go wrong, with
the properties aimed at it, and says why where there is none.

## The modules

| Module | What it is | Uses |
|---|---|---|
| `MeteredRun` | the paid extraction commands over one artifact directory | |
| `RunLedger` | abstract: the history of attempts the directory promises | |
| `MeteredLedger` | the refinement mapping from `MeteredRun` to `RunLedger` | both |
| `Ids` | what a run found: located, struck, labelled, given ids | `Routing` |
| `Routing` | one unit: its runs compared, and what each setting accepts and queues | |
| `Slice` | the graph as a value: its slices, its held items, what can be followed | |
| `Corpus` | the units together: links resolved, held view, counts, the graph a load leaves | `Slice` |
| `Evaluation` | a question scored against a loaded graph | `Corpus` |
| `FourWay` | the comparison of the four loads | `Evaluation` |
| `GraphLoad` | the load statement by statement, the manifest, and the scores that read both | |
| `GraphRead` | one command's read of the graph | `Slice` |
| `Walk` | the walk of `trace` and `eval`, one queue step at a time | `GraphRead` |
| `Pack` | the items one `ask` sends, and the marks of its claims | `GraphRead` |
| `Reading` | one command over one read: a walk, or a pack | `Walk`, `Pack` |
| `AskGuard` | the ask command, its guards, its paid call and its record | |
| `Gallery` | `gallery build` over the records of `AskGuard` | `AskGuard` |
| `MeteredRun_proofs`, `MeteredLedger_proofs`, `Routing_proofs`, `Corpus_proofs`, `GraphLoad_proofs`, `Reading_proofs`, `AskGuard_proofs`, `Gallery_proofs` | theorems, one module per model or chain of models | the model they are about (`Routing_proofs`: `Ids` and `Routing`) |
| `MC*` | small instances for TLC: model values, bounds, views, symmetry | |

Four compositions join what the commands join: `Ids` gives `Routing` the outputs it
compares; `Corpus` takes routed units with what `Routing` proves of them as their type
(`IsRouted`), and `Evaluation` scores what `Corpus` loaded with the walk `Walk` shows to be
the layers of `Slice`; `Reading` is a walk or a pack over the graph one command read; `Gallery`
runs beside the asks whose records it reads.

### MeteredRun

`files` maps every path an attempt can take (unit, run, attempt number; 0 is the settled
file) to what is there: nothing, a *torn* file (opened and not written: `write_text`
truncates first), or an attempt with the settings that made it. `cmd` holds, for each
command, where it is (`pc`), the runs it owes, the run and attempt in hand, its ceiling and
running total. One action is one step another command or a crash can come between:
`StartFresh`/`StartResume` are every check of the `extract` command up to the first call;
`TakeRun`, `Check`, `Call`, `WriteExists`, `WriteOpen`, `WriteText` and the four ways to
account for an attempt are the body of `run_metered`. `Crash` is a kill or Ctrl-C at any
step, `WriteFails` an `OSError` from the write. `Outcome` is what the provider can do to a
call: settle it, fail it at the model's fault with usage reported, or drop it with all, part
or none of its usage reported.

Money is whole units. Billing assumption: a call is billed at most its bound (`Bound`, the
counted input and the token limit at full price), and a completed call is billed what it
reports. Both are what `extract/cost.py` states the bound to be.

`RunLedger` says the same of the directory without a command in it: a history per run, begun
and completed entry by entry, closed by a settled entry or the second model failure.

### Ids

A run finds items and links in a text, in some order and under names of its own: verbatim
ids or placeholders. The text is the offsets where ids are defined, the struck ranges and the
leading spans of binding rules; a span is found at one offset or nowhere. `Location`,
`Struck` and `BoundLabel` are `locate_output`; `Keeper` and `CanonicalId` are `assign_ids`:
one item keeps a verbatim id (the first unstruck one), the others are numbered as they stand.
`IdInit` hands the result to `Routing`'s `Init`, so the routing run starts from outputs the
program can have; that every one is `Identified` is checked there and proved
(`OutputsAreIdentified`). The code numbers as many items as a run found; here there are
`Derived` numbers and `Slot` positions, enough for the longest list (`OrdinalAssumption`).

### Routing

An output is what one run found once its ids are assigned (`Ids` makes them): a function from
canonical ids to entities and from list positions to links (`Identified` is what `assign_ids`
guarantees of it). Spans, labels and flags are values; a span is only the line it was located
on, or none, which is all a signature keeps of it. `RouteRuns` is `route_runs` in its order:
entities first (the code pass before the narrow hold rule), then links against what was accepted
before the rule and after it, then the signatures only a later run produced. The three ways the
commands route a unit are `Init` (plainly), `ApplyCodePass` and `ApplyNarrowHold`, the latter
with the code pass if it was applied; none of them reads an earlier routing. The routed unit is
kept as sets: the order of the review queue is left out, and so is the list of flags beside a
release. How many bullets carry an id is chosen freely (`bullets`), 0 where `Ids` has no bullet
that defines it.

### Slice, Corpus

A graph is a function from node ids to their kind and marks and a set of typed links.
`Corpus` keeps which units have all their runs (`complete`), what their files say (`art`) and
the last load. A unit is its first run, what routing accepts of it before and after a release
rule, and how many rows only later runs stand behind. An end of a link is local or a reference
by record, id or label. Everything else is derived, as in the code: `Land` is `_resolve_one`,
`HeldAcross` is what `resolve_accepted` holds for another unit's entity, `HeldKeys` and
`HeldGaps` are `build_held_view`, `UnitCounts`, `HeldCounts`, `QueueRows` and `UnitHold` the
counts that are printed and stored, `TallyLinks` and `StampedKeys` what the narrow hold rule
is credited with, `LoadedGraph` what the statements of a load write, MERGE and SET included.
Sections are told apart by their unit, so two of one name or slug do not occur.

### Evaluation, FourWay

`Verdict` is one question: the start (an id, or the lowest accepted id on a cited line), the
walk over the printed slice and over that slice with held items dropped, a `Finding` per
cited line and its `Reason` by the fixed priority of `_reason`. The walk is the layers of
`Slice`, which `WalkIsShortest` shows the queue computes. Reasons are read from the units as the
run files stand at the time of the score, not of the load. A citation may name a blank line
whose quote starts below (`QuoteBelow`): findings are made for the quoted line, while a start
and the lines counted besides it are compared by the cited one, as in the code. Rows only later runs
stand behind explain nothing here, and a mention holds an item's token when it is that token.
Several entities may sit on one line, as in the corpus (question 5 of the compared eval file names
a line of three). An end written as an item of its own unit is matched by that item, where the
code matches a derived id by its line: of such a line the code may find a held link that the
model does not, and prove fewer absences. `FourWay` loads and scores the four configurations from
one set of units (the comparison refuses run files with uncommitted changes), and each question
in each of them: a start the text gives is one id throughout, a start read from a line is what
`StartAt` finds in the graph of each configuration (`Starts`).

### GraphLoad

`graph` maps each item to the stamp it carries or "absent"; `manifest` is missing, torn or
whole. `Statement` is one `_write`: the rows of one kind (and, for entities and links, one
type, in any order of types), committed before its count is asserted. `Order` is the order
of the calls in `pipeline.load`; `Needs` is what the Cypher `MATCH`es must find. What routing
accepts under each setting comes in as constants. `score` goes through the checks of `eval`
(held view, code pass, narrow hold, read) or of `trace --eval` (code pass, narrow hold,
held view, read). What the rows say is the business
of `Corpus`; here they are what they need and the stamp they carry.

### GraphRead, Walk, Pack, Reading

`GraphRead` is the one statement that reads the graph and the slice a command works on. Ids
and types are numbers in their lexical order. `Walk` takes one item off the queue per step;
`Trace` starts it with or without held items, as the flag or its default says; `Stop` is why
a step went no further, `HeldParts` what the report names beside a line only held items reach.
`Pack` considers one item per step, in the order of hits, then of hops; words and scores are
left out, so hits come in any order. `Group` is an item with all that replaces it;
`ClaimMarks` the marks of a claim, for every set of ids it may cite.

### AskGuard

`records` maps each record name (second, question) to what is there; `asker` is each
command. The clock ticks freely, so two asks may fall in one second. The held out guard
(`NotAnswered`) reads the records as `settled_eval_record` does: a settled record refuses
the ask, and so does one that cannot be read. `Call` includes the failed, refused and
interrupted call (`ask_metered` records all three); `Crash` is everything nothing is
recorded for.

An answer's record is counted at its recorded usage and any other at the bound of the call;
`RecordedUsage` is what `record_usage` keeps of what arrived before a drop. A question that
matches no item makes no call, and leaves a record only when it is an eval question.

### Gallery

A build reads the marks file and every record it names, refuses all of it or plans the
site, then writes graph files, preview and page one by one (`OpenFile` empties, `FillFile`
writes). Reading is one step because a whole record is never rewritten. What a record says
is given by its name (`Answered`): items with a place in the snapshot, links, claims with what
they cite and what code rejected. `GraphItem` is a node of an answer's graph file, `Article`
its place on the page. Neighbours are sets; wording, style and script are left out.

## The runs

| Run | Bounds | Shows |
|---|---|---|
| `extract_resume` | 1 command at a time, 1 unit, 2 runs, 4 attempts, 2 provenances | `TypeOK`, `PaidIsOnDisk`, `OneProvenance`, `NeverOverwritten`, and `ImplementsLedger`: the commands implement the ledger of attempts |
| `extract_two` | 2 commands at once, 1 unit, 2 runs, 2 attempts | `ResumableDirectory` under every interleaving: attempts without a gap, runs settled in order |
| `extract_ends` | 1 command at a time, 2 units of different bounds, 3 attempts, ceilings that do and do not cover both | `SpendWithinCeiling`; `ColdCachePaidOnce`, warm, cold and unreported calls in every order; `CommandEnds`, under `FairSpec` |
| `extract_race` | 2 commands, 1 run | *violation* of `NeverOverwritten` |
| `routing_unit` | 2 runs, 4 texts: a criterion with its struck or moved twin and two more spans; links of a criterion and a span; links beside twins; items in and beside a binding rule; each list in both orders; 0 to 2 bullets | `TypeOK` (every output of `Ids` is `Identified`), `NothingDisputedAccepted`, `EndsAccepted`, `CodePassIsCautious`, `NothingDropped`, `NarrowIsComplete`, `SameFindingsAgree`, `OnlyReleases` |
| `corpus_eval` | 3 units of 2 records, 3 ids, one of which two units may claim and two of which may share a line, held or released, ends in every form; any units extracted, any load, either rule; every start by id and by line, every cited line | `TypeOK`, `LinksLand`, `EverythingStandsOnce`, `ReleaseIsTheGain`, `AbsenceProven`, `HeldNeverLifts`, `FlagsNeverHurt` |
| `eval_absence` | the same | *violation* of `AbsenceAlwaysProven` |
| `graph_load` | 1 load beside 1 score, all 8 settings, 3 entities, 3 links, 2 mentions | `TypeOK`, `ManifestTells`, `LandsInOrder`, `QuietScoreIsExact` |
| `graph_stale` | the same | *violation* of `LoneScoreIsExact` |
| `graph_read` | graphs of 5 nodes with cycles, a Record or none, a held node or none, a struck one, 7 links each absent, held or accepted; 3 hops; 2 hits, 3 items, 0 to 2 hops | `TypeOK`, `WalkIsShortest`, `DepthLimitIsTold`, `HeldOnlyAdds`, `ReplacementsSent`, `SentIsThePrefix`, `MarksAreEarned` |
| `ask_one` | 1 ask at a time, 2 questions (one held out), 2 seconds, 2 ceilings, beside 1 gallery build over 8 marks files and 2 graph files | `TypeOK`, `SettledOnce`, `PaidIsCovered`, `NoMissingFile`, `GraphsAgree` |
| `ask_once` | the same asks | *violation* of `AnsweredOnce` |

Why the bounds are enough.

* *Extraction.* A run blocks at its second model failure, and a resume makes at most two
  attempts, so four attempt numbers hold a fresh command and one resume of the same run, and
  a transport failure before or after each model failure. Two runs show the order of runs;
  two units with up to two calls each, three "earlier calls of the command" for the cache
  rule. Two commands are what a race needs.
* *Routing.* Every pair of lists of findings in a text, so "two against one", "only the later
  run", "same line, other type", "struck against current" and "same items, other order" all
  occur. Two runs are enough because agreement, a settled bullet and a released flag are each
  a condition on every run compared with the first. Two links show one released beside one
  still waiting and two copies of one signature.
* *Corpus and score.* One unit whose links name the entities of another by id, by label, by
  record alone and by nothing; a label carried by one entity, by two, or by one and a struck
  one; an entity released at either rule, at both or never; a link back, so a walk may come
  round; a third unit that claims an id of the second. Two hops go from one record's item over
  the other's.
* *Load.* One entity accepted outright, one either setting releases, one only the narrow rule
  does; a link from each, to a mention, to a mention no accepted link reaches, and to a record.
* *Graph reading.* Five nodes hold a cycle, a chain of two replacements, a circle of two, and a
  node past the hop limit; an item limit of three is cut by a chain and by its neighbours.
* *Ask and gallery.* A failed or lost ask and its repetition, in the same second and in the
  next; marks files with one fault of each kind; answers with a rejected, a repeated and a
  doubly cited id, an item with no file and an answer with nothing cited.

`MaxAttempt`, `MaxSecond` and `MaxBullets` are the only bounds the models add to the code:
`StartResume` plans no run past `MaxAttempt`, the clock stops at `MaxSecond`, and one id is in
at most `MaxBullets` bullets (the code asks only whether it is one). `FewAnswers` stops counting
paid answers. `WarmCache` restricts a run to calls that find the cache warm, where the
properties read nothing of the cache; `WithoutHistory` is a view that drops three history
fields the run's property does not read.

Deadlock is not checked in the `extract` runs: a unit that is settled, blocked or torn may
leave no command able to start, and that is the code's answer (it refuses and says why). Nor
is it in `routing_unit` and `graph_read`, which end when both settings are applied, the queue
is empty or the last item is considered.

**Conditions in the properties.** `AbsenceProven` is stated while the load is current, which is
just what `eval_absence` drops, and where no id is found in two complete units (`FoundOnce`): of
such an id the code keeps the last unit's properties, which nothing documented rules out or
promises. It speaks of held links that name the item; a held link between two other items that
would bridge the walk to it is left aside by the code, and by the spec (AC-17d). `FlagsNeverHurt`
is looked at before any load, since the comparison loads the corpus itself, and where the rule
moves no node to another line (`NothingMoves`): an id one unit holds and a later unit's release
accepts takes the later unit's line, and a step that cites the first line is then lost to both
flags together. That no step is worse is stated of questions whose start stays (`StartStays`): a
question that names a line of several items starts at the lowest accepted one, so when the rule
releases a lower one the walk starts elsewhere, a step the baseline reached may be lost (AC-9b
fails) and both flags may do worse than `--with-held` alone (AC-8f stops the comparison); TLC shows
both when the condition is dropped. Nothing documented promises that a start stays. What is checked
of every start is that it moves only to something the rule released. `SameFindingsAgree` is for runs where at most one current item claims each id;
between two the code goes by their order. `ManifestTells`, `SettledOnce` and the refinement of
`RunLedger` are for one command at a time.

**Fairness.** `FairSpec` asks only that a running command takes its next step: it is
one process, its calls have a client timeout, and a write ends or raises. Crashes, failed
writes and starting another command are left unfair. No other model states fairness: their
commands are sequences of steps with no loop and no wait.

## What the violation runs show

* `extract_race`: `write_run` looks whether the path exists and then opens it. Two fresh
  `extract`s of one unit can both pass every check, both pay, and the second to open the
  path empties and replaces the artifact of the first, against the README's "never
  overwritten". With one command at a time it holds (`extract_resume`).
* `ask_once`: the guard reads records, not answers. An answer that was paid for and printed
  and whose record was then lost is asked and paid for again. Spec 0009 owns up to the
  failed write; a kill does the same. What does hold is `SettledOnce`.
* `graph_stale`: the manifest is replaced last and never withdrawn, so after a load that
  broke between the clear and the end, the old manifest vouches for a graph that is partly
  written, or routed otherwise, and `eval` passes both mismatch checks. What does hold is
  `QuietScoreIsExact`: over a graph no load was rewriting or had left unfinished, a score
  reads exactly what its label says.
* `eval_absence`: the checks compare settings, not run files. A unit extracted after the load
  takes part in the explanation and not in the walk, so an absence can pass though an accepted
  link of that unit reaches the item. What does hold is `AbsenceProven`, over a graph that holds
  what the run files say.

## What is proved

Every invariant and action property the passing runs check is a theorem for every value of the
constants, from the assumptions the modules name. Each section says what the inductive invariant
adds to the property and why it is needed.

**One at a time.** Some theorems assume `OneAtATime`: one command of that kind in the whole
system (one `extract`, one `load`, one `ask`), any number after each other, crashes included. The
code takes no lock, and the runs `extract_race` and (for asks) the hazards of `PROJECT.json` show
what two commands do, so the theorems could not hold without it. What holds of any number of
commands at once is proved so.

**What the assumptions say.** Bounds and prices are naturals, `MaxAttempt` at least 2. The kinds of
nodes are apart (`KindAssumption`, `NodeAssumption`): a record, an entity and a mention have labels
of their own in the database. Ids, slots, stored graphs and lists are finite, as everything a
program holds is (`FiniteAssumption`, `StoredAssumption`, `AnsweredAssumption`,
`MarksAssumption`), and the derived ids and slots are enough for what a run found
(`OrdinalAssumption`). `None` is no id, slot, item, link, gap or reason (`SlotAssumption`,
`NothingAssumption`). `SlugAssumption`: graph files have a folder of their own. `BlankAssumption`: no
entity is located on a blank line. `OutputAssumption`, which the
theorems of `Routing` rest on, is proved of every output `Ids` makes (`OutputsAreIdentified`).

### MeteredRun_proofs

For any number of commands at once.

* `TypeInvariant`: `Spec => []TypeOK`. `TypeOK` is inductive: it carries, beside the types, that a
  command past its plan holds a run and one past its call an attempt of that run's unit.
* `SpendIsBounded`: `Spec => []SpendWithinCeiling`. The property says nothing of a command that is
  about to call. `SpendInv` says what each phase keeps: up to the call the bill is covered by the
  running total; from the ceiling check until the attempt is counted the total leaves room for one
  more bound; and between the call and the count the bill is covered by the total plus what the
  attempt will be counted at (`CallBill`: never less than its bill).
* `DirectoryInOrder`: `Spec => []ResumableDirectory`, for commands racing. `Order` has two parts:
  `DirInv`, the property on the set of paths that exist, and `PlanInv`, that each command's plan
  fits the directory. Existence only grows (`PlanGrows`), so what one command writes cannot spoil
  another's plan, and each write adds a path whose predecessors the writer's plan holds.
* `ColdCacheStops`: `Spec => []ColdCachePaidOnce`. `ColdInv` counts cold calls against the flag the
  code keeps (`reported`): at most one before it is set and none after it goes on.

### MeteredLedger_proofs

One command at a time.

* `PaidAttemptsAreOnDisk`: `Spec => []PaidIsOnDisk`. `DiskInv` follows one attempt through its
  steps: nothing at its path until it is opened, then its unfinished file, then, unless the write
  was lost, itself; all paid before it are on disk.
* `AttemptsStand`: `Spec => NeverOverwritten`, from `DiskInv`: only an opened path is written.
* `UnitsHaveOneProvenance`: `Spec => []OneProvenance`. `ConfInv` adds that what a command plans is
  in units whose settled runs have its own settings: a fresh command plans units with none, a
  resume only where `ProvenanceMatches`.
* `DirectoryIsALedger`: `Spec => ImplementsLedger`. `LedgerReady` says the attempts of a run are
  numbered from 1, a run in hand is ready for the number it takes (unsettled, the attempts before
  it whole, its model failures counted and too few to block it), and that the entry being written
  is the last of its history. Every step then maps to `Begin`, `Complete` or a stutter.

### Routing_proofs

* `RoutedAfresh`: the routed unit is always `RouteRuns` of the same outputs under the settings of
  the moment (`RoutedInv`). Every other theorem follows from it and from the lemmas on what the
  reasons of an item say.
* `DisputesAreHeld`, `LinksHaveEnds`, `NarrowSettles`: each of the three ways in (no reason, a flag
  alone, the two narrow reasons) excludes the three reasons of a dispute; an accepted link has no
  reason left against the final entities, or was released because each entity it waited on is
  accepted; so under the rule the reasons left are only the rule's own two.
* `SettingsOnlyRelease`: more decided ids, or the rule, accept more entities (`MoreAccepted`), so
  leave fewer reasons and fewer held links; a signature the runs disagree on keeps the row it had.
* `CodePassLooksAtEveryRun`, `EveryItemAccountedFor`, `TypeInvariant`: what is released passed every
  run's check; a row is an item's own or a leftover signature's, and a leftover is exactly a
  difference no row of the first run stands for (`DifferencesSeen`).
* `LaterRunsCommute`: the runs after the first may come in any order; every definition of the
  routing reads them through a quantifier over all runs or through the first.
* `OutputsAreIdentified`: what `assign_ids` makes of a list is an output routing may take. The
  order of the items is strict and total (`ComesOrders`); a derived id is a rank among the items
  that keep no verbatim id, so it grows along the order (`RankGrows`) and no two items share an
  id (`IdsApart`); a verbatim id some item claims has exactly one keeper (`KeeperIs`), and so
  every local end is rewritten to the id of an item of the list (`RewrittenIs`).
* `FindingsAreKept`: what is routed is always the findings and ids of one section (`FoundInv`).
* `SameFindingsAreNotHeldApart`: the numbers of two runs differ, so the ids cannot be compared.
  The same items in another order are a one-to-one map of positions (`SameListPermutes`).
  Where one item at most may keep an id, `OneKeeper`, being its keeper says nothing of the order
  (`KeepsIs`), and the map carries over the keepers, the items inside each rule and so the
  labels, the signatures (`SignatureCarried`), the ends of the links (`EndCarried`; a
  placeholder names one item) and every count (`EntitiesCarried`, `LinksCarried`); with all counts
  equal no row has the reason (`NoneDisagree`).

### Corpus_proofs

Of `Corpus`, `Evaluation` and `FourWay`. The graph is one function of what the units hold, so the
invariant is small (`Typed`: what the units hold are artifacts; `Sourced`: of those their run files
may say) and the argument is about the operators.

* `BothEndsLand`: an end lands on an accepted id or a known record, or stays a gap (`EndLands`), and
  a gap is no known item (`GapUnknown`).
* `TallyIsTold`, `NothingLostOrDoubled`: a library of sums over finite sets (`SumAdds`, `SumsJoin`,
  `SumGroups`) carries each count from a unit to the corpus.
* `TypeInvariant`: the graph of any load is a graph (`LoadIsGraph`).
* `FlagsAreSafe`: what is accepted under the plain rule is in the graph of each other configuration
  (`AcceptedBelow`, `WholeBelow`), a walk over a larger graph visits more (`BelowVisits`), and a
  node keeps its line. Which item of a line each configuration starts at is `StartIs`; the lowest
  of more items is the one it was or one of those that came (`LowestOfMore`), so a start that moves
  moves to something released, and the starts of the two views agree where anything is accepted
  (`StartsMove`). A step newly reached needs something released, else graphs and starts are equal
  (`NothingReleased`, `NothingHeld`).
* `HeldLiftsNothing`: dropping held items from the shown slice gives the plain slice (`DropLeaves`),
  so both views have one clean walk and one set of nodes on a line that are not held
  (`ViewsAgree`); a start read from a line is an accepted entity in both or in neither
  (`StartsAgree`). It is about verdicts, and the counts bearing out the verdict beside them: the
  counts themselves may differ between the views, since the items on the line of a held start are
  left out of them (question 5: 0 of 7 in the plain view, 0 of 6 in the held one).
* `AbsencesAreProven`: if releasing a held link that names the item brought the walk to it, the
  walk reached the link's other end before (`ReleasedFrom`, by the first hop that uses it), that end
  is named by the link (`LandsThenNames`), and the finding's reason would be `link_held`.

### GraphLoad_proofs

`TypeInvariant` for any number of loads and scores; the others for one load and any number of
scores beside it.

* `RowsLandInOrder`: `LoadInv` says the graph of a load past its clear is what its finished
  statements wrote, and those are all the rows of every earlier order; a row needs only earlier
  ones (`NodeOrder`), so no statement comes up short.
* `ManifestIsTrue`: `ManifestInv`, that a finished graph is the manifest's and no load is past its
  clear.
* `QuietScoresAreExact`: `QuietInv`, that each check a quiet score has passed compared its setting
  with the manifest of the graph it will read.

### Reading_proofs

For every finite graph, start, question, hop and item limit. `Holds` joins the invariants of the
walk and of the pack, with each standing still beside the other.

* `WalkFindsShortest`, `LimitIsTold`: `Walking` says each visited node is as near as its hop says and
  chained to the start, the queue stands in order of hops with at most two in it, and what left it
  has shown its neighbours. When the queue is empty each layer was met (`LayersAreMet`, by the
  first layer that would not be), at its distance.
* `HeldViewOnlyAdds`: the accepted graph's layers lie within the shown one's (`CleanReachesLess`), and
  a path in which nothing is held is one of the accepted graph (`CleanPath`).
* `ReplacementsAreSent`: what is wanted is closed under replacement at every step (`Sending`).
* `SentIsAPrefix`: `Prefix` says what is wanted is what the positions so far ask for, and what is sent
  is that up to the first that did not fit.
* `MarksAreTrue`: from what was sent, for every claim.

### AskGuard_proofs

* `TypeInvariant`, and `CostIsCovered` (the amounts of a record in order: usage, bill, cost,
  ceiling), for any number of commands.
* `PaidCallsAreCovered`, `RecordsStand`: one command at a time, the name it found free is free until
  it writes there itself (`FreeInv`).
* `HeldOutSettledOnce`: `HeldInv`, that at most one record of a held out question counts, and none
  while a command asks it.

### Gallery_proofs

* `PageNamesWhatIsThere`: `GalleryInv` keeps, across a build over another's leavings, that every
  graph file still to write comes before the page and each one the page will name is written.
* `GraphsMatchThePage`: for one article the two modules' definitions of cited, numbered and placed
  agree (`AnswerAgrees`, `EntryAgrees`); `Standing` says each file is still to write or is the graph
  of its entry; the site of an ended build is therefore the page and graphs of its entries.

### What the proofs changed

An attempt that fails says where a model or a property was wrong. Each of these was confirmed with
TLC, and the model corrected against the source.

* `FlagsNeverHurt` was stated where no id is *accepted* by two units; it fails when one unit holds
  an id that another's release accepts. It now asks that nothing moves (`NothingMoves`), and that
  the start of a question does not (`StartStays`).
* `AbsenceProven` took any held link, and an id that two units find; it now speaks of the links that
  name the item, which is what the code and the spec promise, and of ids found once.
* `StampOf` (`GraphLoad`) had overlapping `CASE` arms, of which TLC takes the first and the language
  promises none.
* `IsFound` (`Ids`) said what the items and links of a list are and not that the list is one, and
  nothing gave it numbers enough; `IsFound` and `OrdinalAssumption` now say both.
* Sorting, selecting and joining are written as `InOrder`, `Only`, function constructors and
  `SumFunction`, since the provers know nothing of `SortSeq`, `SelectSeq`, `@@` and sums over
  sequences; they define the same values.

### What is only model-checked

`CommandEnds`: liveness under fairness, and `ENABLED`, are out of the prover's reach. The library's
induction theorems cannot be used, since no prover here instantiates an operator parameter; where
a proof needs induction over hops, positions, prefixes or sets it goes by the least counterexample
(`LeastNatural`, `SmallestSubset`), from the well-foundedness of the naturals.

## What is not modelled, and why

* Text: `extract/units.py`, `address.py`, `records.py`, `schema.py`, `examples.py`, and of `locate.py`
  and `precheck.py` the reading of Markdown and the alignment of a span that is not there word
  for word. What they find (an offset, a line, a struck range, a bullet) is an input of the
  models. Section slugs and headings are left out with them, so two sections of one slug or
  heading do not occur.
* Prompts, transport and prices in `extract/client.py` and `extract/cost.py`, and what the
  commands print: only the outcome of a call and what it may cost are kept.
* The words and scores behind the hits of an `ask`, and the text of its answer.
* The eval file and sidecar parsers, links to lines outside the corpus, and the wording of the
  report (`report.py`); the blind samples and ratings of `measure.py`, which draw from the
  queue and write forms for a reader.
* The order of the review queue, its file and its log, and the flags listed beside a release.
* Inline markup, styles, the script and the wording of the marks in `gallery/`.
* Neo4j itself: a statement commits whole or not at all, and a `MATCH` finds what is there.
* `config.py` and `graph/connection.py` read the environment and open a driver.
* `docs/` and the one-off programs under `experiments/`, but for the comparison `FourWay` models:
  they call the same functions and write forms and tables for a reader.
* Two asks at once, two loads at once and two gallery builds at once: no lock and no document
  orders them, so the properties of `AskGuard`, `GraphLoad` and `Gallery` are stated for one at
  a time.

## Plan

1. **Run files that change under a load**: `GraphLoad` takes what routing accepts as constants;
   with `Corpus` in their place a load and a score would each read the files of the moment.
2. **Two sections of one name** in `Corpus`: the unit a stored artifact is matched with.
