----------------------------- MODULE MeteredRun -----------------------------
(***************************************************************************)
(* The paid extraction run behind `tracepath extract` and `extract         *)
(* --resume` (extract/metered.py, the extract command of cli.py, and the   *)
(* run artifacts of artifacts.py it reads and writes).                     *)
(*                                                                         *)
(* Several commands may run over one artifact directory.  A command plans  *)
(* from the directory, then makes its attempts one by one: it looks for a  *)
(* colliding file, checks the ceiling, pays for a call, writes the         *)
(* attempt's artifact in three steps (exists, open, write) and accounts    *)
(* for it.  It may crash or be interrupted between any two steps, and a    *)
(* write may fail.                                                         *)
(*                                                                         *)
(* Money is counted in whole units; Bound[u] is the per call bound of unit *)
(* u.  What the estimate prints and `--dry-run` change no state.           *)
(***************************************************************************)
EXTENDS Integers, FiniteSets

CONSTANTS
    Cmd,         \* the commands that may be running, one slot per terminal
    Unit,        \* the extraction units
    Runs,        \* settings.runs_per_unit
    Bound,       \* the per call bound of each unit, in money units
    Ceilings,    \* the values --ceiling may be given
    Conf,        \* prompt version, model, commit and effort, taken together
    MaxAttempt,  \* model bound: no run is planned past this attempt number
    None         \* no value

ASSUME RunsAssumption == Runs \in Nat \ {0}
ASSUME BoundAssumption == Bound \in [Unit -> Nat]
ASSUME CeilingAssumption == Ceilings \subseteq Nat
ASSUME AttemptAssumption == MaxAttempt \in Nat /\ MaxAttempt >= 2

\* One call and one retry (client.RETRIES).
RETRIES == 1
ATTEMPTS_PER_COMMAND == RETRIES + 1
BLOCKING_MODEL_FAILURES == RETRIES + 1

Run == 1 .. Runs
Number == 1 .. MaxAttempt

\* How an attempt ends: settled, or failed in one of the two FailureKinds.
FailureKind == {"model", "transport"}
Kind == {"settled"} \cup FailureKind

\* A path of the artifact directory: attempt 0 is `run-N.json`, attempt n > 0 is
\* `failed-run-N-attempt-n.json`.
Path == Unit \X Run \X (0 .. MaxAttempt)

\* A file as far as anyone reads it: torn is one opened and not (fully) written.
File == [kind : Kind \cup {"torn", "absent"}, conf : Conf \cup {None}, by : Cmd \cup {None}]
NoFile == [kind |-> "absent", conf |-> None, by |-> None]

\* What one call reports: its recorded usage, what it is billed, whether it reported
\* any usage (_reported_usage), and whether it read nothing from the cache.
Attempt(u) == [kind : Kind, usage : 0 .. Bound[u], bill : 0 .. Bound[u],
               reported : BOOLEAN, cold : BOOLEAN]

\* One run a command owes: RunPlan, with the unit of its Plan.
RunPlan == [unit : Unit, run : Run, first : {n \in Number : n + RETRIES \in Number}, mf : Nat]

VARIABLES
    files,  \* the artifact directory: every path and what is there
    cmd     \* the local state of every command

vars == <<files, cmd>>

\* A command not running.  `billed`, `paid` and `coldCalls` are history: what the
\* provider charged it, the attempts it paid for and where each belongs, and how many
\* of its calls found the cache cold.
Idle == [pc |-> "idle", owed |-> {}, cur |-> None, number |-> 0, mf |-> 0,
         att |-> None, lost |-> FALSE, total |-> 0, reported |-> FALSE,
         ceiling |-> 0, conf |-> None, billed |-> 0, paid |-> {}, coldCalls |-> 0]

Init == files = [p \in Path |-> NoFile] /\ cmd = [c \in Cmd |-> Idle]
-----------------------------------------------------------------------------
(* The artifact directory, as the code looks at it.                        *)

Exists(p) == files[p].kind # "absent"
\* read_run() reads it: whatever is there, it was written out.
Parses(p) == files[p].kind # "torn"
Settled(u, r) == Exists(<<u, r, 0>>)
Failed(u, r) == {n \in Number : Exists(<<u, r, n>>)}
ModelFailed(u, r) == {n \in Number : files[<<u, r, n>>].kind = "model"}

\* The two paths one attempt can take.
AttemptPaths(u, r, n) == {<<u, r, 0>>, <<u, r, n>>}
\* ensure_attempt_unwritten(): nothing sits at either.
AttemptUnwritten(u, r, n) == \A p \in AttemptPaths(u, r, n) : ~Exists(p)
\* run_path(): where the attempt a, number n of run r, is written.
RunPath(u, r, n, a) == IF a.kind = "settled" THEN <<u, r, 0>> ELSE <<u, r, n>>

NoCollision(u) == \A r \in Run : AttemptUnwritten(u, r, 1)

\* fresh_runs(): every run of a unit not yet started, from attempt 1.
FreshRuns(u) == [unit : {u}, run : Run, first : {1}, mf : {0}]

\* Mutant of OwedRuns: a resume numbers its next attempt as its last.
OwedRunsFromLast(u) ==
    {[unit |-> u, run |-> r, first |-> Cardinality(Failed(u, r)),
      mf |-> Cardinality(ModelFailed(u, r))] : r \in {r \in Run : ~Settled(u, r)}}

\* The runs of resume_runs(): each run not settled, its next attempt one above its
\* highest, with the model failures it already holds.
OwedRuns(u) ==
    {[unit |-> u, run |-> r, first |-> Cardinality(Failed(u, r)) + 1,
      mf |-> Cardinality(ModelFailed(u, r))] : r \in {r \in Run : ~Settled(u, r)}}

\* Mutant of Resumable: a blocked run is planned like any other.
ResumableThoughBlocked(u) ==
    /\ \E r \in Run : Settled(u, r) \/ Failed(u, r) # {}
    /\ \A r \in Run : Failed(u, r) = 1 .. Cardinality(Failed(u, r))
    /\ \A r \in Run : ~Settled(u, r) =>
          \A n \in Failed(u, r) : Parses(<<u, r, n>>)
    /\ OwedRuns(u) # {}

\* A unit resume_runs() plans rather than refuses: it has an artifact, its attempts
\* have no gap, the failed files it reads parse, no run is blocked, a run is owed.
Resumable(u) ==
    /\ \E r \in Run : Settled(u, r) \/ Failed(u, r) # {}
    /\ \A r \in Run : Failed(u, r) = 1 .. Cardinality(Failed(u, r))
    /\ \A r \in Run : ~Settled(u, r) =>
          \A n \in Failed(u, r) : Parses(<<u, r, n>>)
    /\ \A p \in OwedRuns(u) : p.mf < BLOCKING_MODEL_FAILURES
    /\ OwedRuns(u) # {}

\* Mutant of ProvenanceMatches: the files need only parse.
ProvenanceUnread(u, k) ==
    \A r \in Run : Settled(u, r) => Parses(<<u, r, 0>>)

\* provenance_mismatch() finds nothing, and can read every settled run.
ProvenanceMatches(u, k) ==
    \A r \in Run : Settled(u, r) =>
        Parses(<<u, r, 0>>) /\ files[<<u, r, 0>>].conf = k

\* Mutant of AttemptCost: a failed attempt counts at the usage it recorded.
AttemptUsage(u, a) == a.usage

\* attempt_cost(): a settled attempt at its recorded usage, a failed one at the bound.
AttemptCost(u, a) == IF a.kind = "settled" THEN a.usage ELSE Bound[u]
-----------------------------------------------------------------------------
(* Starting a command.                                                     *)

\* One command goes on as s; the others do not move.
Become(c, s) == cmd' = [cmd EXCEPT ![c] = s]
Stop(c) == Become(c, Idle)

\* Every check of the extract command before its first call passes.
Begin(c, targets, owed, pc, ceiling, k) ==
    /\ cmd[c].pc = "idle"
    /\ \A u \in targets : Bound[u] <= ceiling
    /\ Become(c, [Idle EXCEPT !.pc = pc, !.owed = owed, !.ceiling = ceiling, !.conf = k])
    /\ UNCHANGED files

\* `extract`: no first attempt of any run collides, and every run is owed.
StartFresh(c, targets, ceiling, k) ==
    /\ \A u \in targets : NoCollision(u)
    /\ Begin(c, targets, UNION {FreshRuns(u) : u \in targets}, "take", ceiling, k)

\* `extract --resume`: every unit can be planned and holds only runs of this provenance.
StartResume(c, targets, ceiling, k) ==
    /\ \A u \in targets : Resumable(u) /\ ProvenanceMatches(u, k)
    /\ \A u \in targets : \A p \in OwedRuns(u) : p.first + RETRIES <= MaxAttempt
    /\ Begin(c, targets, UNION {OwedRuns(u) : u \in targets}, "preflight", ceiling, k)

\* resume_preflight(): every owed run's next attempt, before anything is paid.
ResumePreflight(c) ==
    /\ cmd[c].pc = "preflight"
    /\ UNCHANGED files
    /\ IF \A p \in cmd[c].owed : AttemptUnwritten(p.unit, p.run, p.first)
       THEN Become(c, [cmd[c] EXCEPT !.pc = "take"])
       ELSE Stop(c)
-----------------------------------------------------------------------------
(* run_metered(): the attempts, in order.                                  *)

\* The next run: the lowest owed one of the unit begun, or of any unit once it is
\* done (the order of the addresses on the command line is free).
TakeRun(c) ==
    /\ cmd[c].pc = "take"
    /\ \E p \in cmd[c].owed :
          /\ \A q \in cmd[c].owed : q.unit = p.unit => p.run <= q.run
          /\ (\E q \in cmd[c].owed : cmd[c].cur # None /\ q.unit = cmd[c].cur.unit)
                => p.unit = cmd[c].cur.unit
          /\ Become(c, [cmd[c] EXCEPT !.pc = "check", !.owed = @ \ {p},
                        !.cur = p, !.number = p.first, !.mf = p.mf])
    /\ UNCHANGED files

Finish(c) ==
    /\ cmd[c].pc = "take" /\ cmd[c].owed = {}
    /\ Stop(c) /\ UNCHANGED files

\* The paths of the attempt, then the ceiling against the bound.
MayCall(c) ==
    /\ AttemptUnwritten(cmd[c].cur.unit, cmd[c].cur.run, cmd[c].number)
    /\ cmd[c].total + Bound[cmd[c].cur.unit] <= cmd[c].ceiling

Check(c) ==
    /\ cmd[c].pc = "check"
    /\ IF MayCall(c) THEN Become(c, [cmd[c] EXCEPT !.pc = "call"]) ELSE Stop(c)
    /\ UNCHANGED files

\* A completed call reports usage, and its recorded usage is its bill.
Completed(u) == {a \in Attempt(u) : a.kind # "transport" /\ a.usage = a.bill /\ a.reported}

\* A dropped call may have reported no usage, or part of what it is billed.
Dropped(u) ==
    {a \in Attempt(u) :
        /\ a.kind = "transport" /\ a.usage <= a.bill
        /\ ~a.reported => a.usage = 0 /\ ~a.cold}

\* What extract_once() can bring back.
Outcome(u) == Completed(u) \cup Dropped(u)

\* The path an attempt's artifact belongs at, and what it should say.
Paid(c, a) == [path |-> RunPath(cmd[c].cur.unit, cmd[c].cur.run, cmd[c].number, a),
               kind |-> a.kind]

Call(c) ==
    /\ cmd[c].pc = "call"
    /\ \E a \in Outcome(cmd[c].cur.unit) :
          Become(c, [cmd[c] EXCEPT !.pc = "exists", !.att = a,
                     !.billed = @ + a.bill, !.paid = @ \cup {Paid(c, a)},
                     !.coldCalls = IF a.cold THEN @ + 1 ELSE @])
    /\ UNCHANGED files

PathOf(c) == RunPath(cmd[c].cur.unit, cmd[c].cur.run, cmd[c].number, cmd[c].att)

\* build_artifact(): what the attempt's file says.
BuildArtifact(c) == [kind |-> cmd[c].att.kind, conf |-> cmd[c].conf, by |-> c]

\* write_run(): refuse a path in use ...
WriteExists(c) ==
    /\ cmd[c].pc = "exists"
    /\ Become(c, IF Exists(PathOf(c))
                 THEN [cmd[c] EXCEPT !.pc = "account", !.lost = TRUE]
                 ELSE [cmd[c] EXCEPT !.pc = "open"])
    /\ UNCHANGED files

\* ... then open it, which truncates whatever is there by now ...
WriteOpen(c) ==
    /\ cmd[c].pc = "open"
    /\ files' = [files EXCEPT ![PathOf(c)] =
                    [kind |-> "torn", conf |-> cmd[c].conf, by |-> c]]
    /\ Become(c, [cmd[c] EXCEPT !.pc = "write"])

\* Mutant of WriteText: a run that settles clears its failed attempts.
WriteTextClearing(c) ==
    /\ cmd[c].pc = "write"
    /\ files' = [p \in Path |->
                    IF p = PathOf(c)
                    THEN BuildArtifact(c)
                    ELSE IF cmd[c].att.kind = "settled" /\ p[1] = cmd[c].cur.unit
                                                        /\ p[2] = cmd[c].cur.run
                    THEN NoFile ELSE files[p]]
    /\ Become(c, [cmd[c] EXCEPT !.pc = "account"])

\* ... then write it out.
WriteText(c) ==
    /\ cmd[c].pc = "write"
    /\ files' = [files EXCEPT ![PathOf(c)] = BuildArtifact(c)]
    /\ Become(c, [cmd[c] EXCEPT !.pc = "account"])

\* An OSError from the directory, the open or the write: the record is lost.
WriteFails(c) ==
    /\ cmd[c].pc \in {"open", "write"}
    /\ Become(c, [cmd[c] EXCEPT !.pc = "account", !.lost = TRUE])
    /\ UNCHANGED files

\* A paid call reading no cache, once an earlier call of the command reported usage.
ColdFault(c) == cmd[c].reported /\ cmd[c].att.reported /\ cmd[c].att.cold
Counted(c) == cmd[c].total + AttemptCost(cmd[c].cur.unit, cmd[c].att)
ModelFailures(c) == cmd[c].mf + (IF cmd[c].att.kind = "model" THEN 1 ELSE 0)

\* Mutant of StopPaid: a lost record is paid for again, uncounted.
PayAgain(c) ==
    /\ cmd[c].pc = "account"
    /\ cmd[c].lost \/ ColdFault(c)
    /\ Become(c, [cmd[c] EXCEPT !.pc = IF cmd[c].lost THEN "check" ELSE "idle",
                                !.lost = FALSE, !.att = None])
    /\ UNCHANGED files

\* After the attempt is counted: a lost record or a cold cache stops the command.
StopPaid(c) ==
    /\ cmd[c].pc = "account"
    /\ cmd[c].lost \/ ColdFault(c)
    /\ Stop(c) /\ UNCHANGED files

\* Mutants of Settle: it does not look whether the record was lost, and it forgets for the
\* next run that a call reported usage.
SettleThoughLost(c) ==
    /\ cmd[c].pc = "account"
    /\ ~ColdFault(c) /\ cmd[c].att.kind = "settled"
    /\ Become(c, [cmd[c] EXCEPT !.pc = "take", !.total = Counted(c),
                  !.reported = @ \/ cmd[c].att.reported, !.att = None])
    /\ UNCHANGED files

SettleForgettingCache(c) ==
    /\ cmd[c].pc = "account"
    /\ ~cmd[c].lost /\ ~ColdFault(c) /\ cmd[c].att.kind = "settled"
    /\ Become(c, [cmd[c] EXCEPT !.pc = "take", !.total = Counted(c),
                  !.reported = FALSE, !.att = None])
    /\ UNCHANGED files

\* A settled attempt ends its run; the next one is taken.
Settle(c) ==
    /\ cmd[c].pc = "account"
    /\ ~cmd[c].lost /\ ~ColdFault(c) /\ cmd[c].att.kind = "settled"
    /\ Become(c, [cmd[c] EXCEPT !.pc = "take", !.total = Counted(c),
                  !.reported = @ \/ cmd[c].att.reported, !.att = None])
    /\ UNCHANGED files

\* Mutant of Retry: it goes on after a lost record.
RetryThoughLost(c) ==
    /\ cmd[c].pc = "account"
    /\ ~ColdFault(c) /\ cmd[c].att.kind # "settled"
    /\ ModelFailures(c) < BLOCKING_MODEL_FAILURES
    /\ cmd[c].number + 1 < cmd[c].cur.first + ATTEMPTS_PER_COMMAND
    /\ Become(c, [cmd[c] EXCEPT !.pc = "check", !.total = Counted(c), !.lost = FALSE,
                  !.reported = @ \/ cmd[c].att.reported, !.att = None,
                  !.mf = ModelFailures(c), !.number = @ + 1])
    /\ UNCHANGED files

\* A failed attempt is retried once, unless the run now holds two model failures.
Retry(c) ==
    /\ cmd[c].pc = "account"
    /\ ~cmd[c].lost /\ ~ColdFault(c) /\ cmd[c].att.kind # "settled"
    /\ ModelFailures(c) < BLOCKING_MODEL_FAILURES
    /\ cmd[c].number + 1 < cmd[c].cur.first + ATTEMPTS_PER_COMMAND
    /\ Become(c, [cmd[c] EXCEPT !.pc = "check", !.total = Counted(c),
                  !.reported = @ \/ cmd[c].att.reported, !.att = None,
                  !.mf = ModelFailures(c), !.number = @ + 1])
    /\ UNCHANGED files

\* A run blocked, or still owed after its two attempts, stops the command.
StopUnsettled(c) ==
    /\ cmd[c].pc = "account"
    /\ ~cmd[c].lost /\ ~ColdFault(c) /\ cmd[c].att.kind # "settled"
    /\ \/ ModelFailures(c) >= BLOCKING_MODEL_FAILURES
       \/ cmd[c].number + 1 >= cmd[c].cur.first + ATTEMPTS_PER_COMMAND
    /\ Stop(c) /\ UNCHANGED files

\* Ctrl-C, a kill or an uncaught error, between any two steps.
Crash(c) == cmd[c].pc # "idle" /\ Stop(c) /\ UNCHANGED files
-----------------------------------------------------------------------------
Start(c) ==
    \E targets \in (SUBSET Unit) \ {{}}, ceiling \in Ceilings, k \in Conf :
        \/ StartFresh(c, targets, ceiling, k)
        \/ StartResume(c, targets, ceiling, k)

Write(c) == WriteExists(c) \/ WriteOpen(c) \/ WriteText(c)
Account(c) == StopPaid(c) \/ Settle(c) \/ Retry(c) \/ StopUnsettled(c)

\* The steps a running command takes of its own accord.
Step(c) ==
    \/ ResumePreflight(c) \/ TakeRun(c) \/ Finish(c)
    \/ Check(c) \/ Call(c) \/ Write(c) \/ Account(c)

Next == \E c \in Cmd : Start(c) \/ Step(c) \/ WriteFails(c) \/ Crash(c)

Spec == Init /\ [][Next]_vars

\* A running command is scheduled, its calls return (the client times out), and its
\* writes end one way or the other.
FairSpec == Spec /\ \A c \in Cmd : WF_vars(Step(c))
-----------------------------------------------------------------------------
(* Properties.                                                             *)

PC == {"idle", "preflight", "take", "check", "call", "exists", "open", "write", "account"}
\* Where a command holds a run, and where it holds a paid attempt not yet accounted for.
HasRun == {"check", "call", "exists", "open", "write", "account"}
HasAttempt == {"exists", "open", "write", "account"}

AnyAttempt == UNION {Attempt(u) : u \in Unit}

CmdState ==
    [pc : PC, owed : SUBSET RunPlan, cur : RunPlan \cup {None}, number : Nat, mf : Nat,
     att : AnyAttempt \cup {None}, lost : BOOLEAN, total : Nat, reported : BOOLEAN,
     ceiling : Nat, conf : Conf \cup {None}, billed : Nat,
     paid : SUBSET [path : Path, kind : Kind], coldCalls : Nat]

\* A command past the plan holds a run and an attempt number of it; one past the call
\* holds an attempt of that run's unit.
WellFormed(s) ==
    /\ s \in CmdState
    /\ s.pc \in HasRun => s.cur \in RunPlan /\ s.number \in Number
    /\ s.pc \in HasAttempt => s.att \in Attempt(s.cur.unit)

\* The directory and every command are well formed.
TypeOK ==
    /\ files \in [Path -> File]
    /\ cmd \in [Cmd -> CmdState]
    /\ \A c \in Cmd : WellFormed(cmd[c])

\* What the provider has billed a command never passes its --ceiling, whatever its
\* calls report, drop or leave out (run_metered: "so spend never passes it").
SpendWithinCeiling == \A c \in Cmd : cmd[c].billed <= cmd[c].ceiling

\* Whenever a command is about to go on, every attempt it has paid for is on disk,
\* under its own name and with its own content (AC-12a: written before the next call).
PaidIsOnDisk ==
    \A c \in Cmd : cmd[c].pc \in {"take", "check", "call"} =>
        \A a \in cmd[c].paid :
            files[a.path] = [kind |-> a.kind, conf |-> cmd[c].conf, by |-> c]

\* No attempt number is ever skipped on disk, over all commands, retries, resumes, lost
\* writes and crashes: resume_runs() never refuses a unit for a gap the tool made.
ContiguousAttempts ==
    \A u \in Unit, r \in Run, n \in Number :
        n > 1 /\ Exists(<<u, r, n>>) => Exists(<<u, r, n - 1>>)

\* A run has an artifact only once the run before it is settled, so a unit cut short is
\* settled runs, then at most one failing run, then nothing; and a fresh `extract`,
\* which looks at first attempts only, starts no unit that has any artifact.
RunsInOrder ==
    \A u \in Unit, r \in Run :
        r > 1 /\ (Settled(u, r) \/ Failed(u, r) # {}) => Settled(u, r - 1)
ResumableDirectory == ContiguousAttempts /\ RunsInOrder

\* The settled runs of a unit were all written under one prompt, model, commit and
\* effort, however many commands wrote them (AC-60b).
OneProvenance ==
    \A u \in Unit : \A r, s \in Run :
        Settled(u, r) /\ Settled(u, s) => files[<<u, r, 0>>].conf = files[<<u, s, 0>>].conf

\* A command pays for at most one call with a cold cache and then goes on to another: the
\* second reported cold read stops it, whatever came between (AC-11).
ColdCachePaidOnce == \A c \in Cmd : cmd[c].pc = "call" => cmd[c].coldCalls <= 1

\* A file that holds an attempt keeps it: no step ever replaces or empties it (README,
\* "a JSON file that is never overwritten").
NeverOverwritten ==
    [][\A p \in Path : files[p].kind \in Kind => files'[p] = files[p]]_vars

\* A command that starts comes to an end: nothing makes it retry or wait for ever.
CommandEnds == \A c \in Cmd : cmd[c].pc # "idle" ~> cmd[c].pc = "idle"
=============================================================================
