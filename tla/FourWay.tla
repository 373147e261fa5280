------------------------------ MODULE FourWay ------------------------------
(***************************************************************************)
(* The four way comparison of spec 0008 (four_way.py, and the experiment's *)
(* compare_four_ways.py that runs it): the corpus loaded and scored with   *)
(* and without each of --with-held and --narrow-hold, one row per expected *)
(* step, and the checks read from the table.  The comparison refuses run   *)
(* files with uncommitted changes, so its four loads read the same units.  *)
(***************************************************************************)
EXTENDS Evaluation

Config(with_held, narrow_hold) == [with_held |-> with_held, narrow_hold |-> narrow_hold]
BASELINE == Config(FALSE, FALSE)
WITH_HELD == Config(TRUE, FALSE)
NARROW_HOLD == Config(FALSE, TRUE)
BOTH == Config(TRUE, TRUE)
CONFIGS == {BASELINE, WITH_HELD, NARROW_HOLD, BOTH}

\* score_config(): the graph `load` leaves with the configuration's flags, read with its own.
ScoreConfig(config) ==
    View([units |-> complete, rule |-> IF config.narrow_hold THEN "after" ELSE "before",
          held |-> config.with_held], config.with_held)

\* The states of a step by their RANK.
NOT_REACHED == 0
HELD_ONLY == 1
ACCEPTED == 2

\* cell_of() the finding of a step, read at the line its quote starts on.
CellOf(v, start, item) ==
    LET here == AtLine(v, v.shown, Quoted(item).line) IN
    IF here \cap CleanWalk(v, start) # {} THEN ACCEPTED
    ELSE IF v.withHeld /\ here \cap Visited(v.shown, start) # {} THEN HELD_ONLY ELSE NOT_REACHED

\* Where _score_question() starts each question: an id its text gives is the same under every
\* configuration, one read from a line is read afresh in each configuration's graph.
Starts(scored) ==
    {[config \in CONFIGS |-> i] : i \in Id}
    \cup {[config \in CONFIGS |-> StartAt(scored[config], line)] : line \in Line}

\* compare(): each step's cell under each configuration, with where its question started.
Rows(scored) ==
    {[start |-> start,
      cell |-> [config \in CONFIGS |-> CellOf(scored[config], start[config], item)]] :
        start \in Starts(scored), item \in [line : Line, token : {None}]}

Better(i, j) == IF i > j THEN i ELSE j
WorseUnderBoth(rows) ==
    {row \in rows : row.cell[BOTH] < Better(row.cell[WITH_HELD], row.cell[NARROW_HOLD])}
NewlyAccepted(rows) ==
    {row \in rows : row.cell[BASELINE] # ACCEPTED /\ row.cell[NARROW_HOLD] = ACCEPTED}
Regressed(rows) ==
    {row \in rows : row.cell[BASELINE] = ACCEPTED /\ row.cell[NARROW_HOLD] # ACCEPTED}
NewlyHeldOnly(rows) ==
    {row \in rows : row.cell[BASELINE] = NOT_REACHED /\ row.cell[WITH_HELD] = HELD_ONLY}
-----------------------------------------------------------------------------
(* Properties.                                                             *)

\* What the rule releases stays on the line it was held on, which may fail for an id that two
\* units found.
NothingMoves ==
    \A i \in Known(complete) : FileLine(complete, "before", i) = FileLine(complete, "after", i)

\* The held view shows the question one start under either rule.  It may not when the question
\* names a line of several entities and the rule releases one of them.
StartStays(start) == start[WITH_HELD] = start[BOTH]

\* What --narrow-hold accepts and the plain rule held.
Released == Accepted(complete, "after") \ Accepted(complete, "before")

\* Of a question whose start stays where it was, the comparison never stops (AC-8f) and never
\* fails the rule (AC-9b): --narrow-hold loses no step the baseline reached as accepted, and
\* both flags together leave no step worse than the better flag alone.  The start of a question
\* that names a line may move, and its steps may then be lost: it moves only to an entity of
\* the line that the rule released.  What the comparison credits is there, wherever a question
\* starts: a step newly reached as accepted under --narrow-hold comes with something the rule
\* released (AC-9a), and one the held view newly shows (AC-11) with something review holds.
\* The comparison loads the corpus itself, so it is looked at before any load.
FlagsNeverHurt ==
    loaded = None /\ NothingMoves =>
        LET scored == [config \in CONFIGS |-> ScoreConfig(config)]
            rows == Rows(scored)
            stay == {row \in rows : StartStays(row.start)}
        IN
        /\ WorseUnderBoth(stay) = {} /\ Regressed(stay) = {}
        /\ \A start \in Starts(scored) :
              /\ StartStays(start) \/ start[BOTH] \in Released
              /\ start[NARROW_HOLD] \in {start[BASELINE]} \cup Released
        /\ NewlyAccepted(rows) # {} => TallyLinks(complete) + TallyEntities(complete) > 0
        /\ NewlyHeldOnly(rows) # {} =>
              \E u \in complete : QueueRows(complete, "before", u) > LaterEntities(u) + LaterLinks(u)
=============================================================================
