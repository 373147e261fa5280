------------------------------ MODULE AskGuard ------------------------------
(***************************************************************************)
(* `tracepath ask` (the ask command of cli.py), the one paid call it makes *)
(* (ask_metered) and the records it keeps (ask/record.py): the ceiling,    *)
(* the record names by the second, the write as the call settles, the      *)
(* interrupt saved as a failed call, and the held out guard that reads     *)
(* the records back.                                                       *)
(***************************************************************************)
EXTENDS Integers, FiniteSets

CONSTANTS
    Asker,      \* the commands that may be running
    Question,   \* the questions, each with its own record name pattern
    Eval,       \* those of an eval file, asked by number
    HeldOut,    \* those of a held out eval file
    MaxIn,      \* the price of the tokens the count endpoint counted, in money units
    MaxOut,     \* the price of the most tokens a reply may hold
    Ceilings,   \* the values --ceiling may be given
    MaxSecond,  \* model bound: the clock stops here
    None        \* no value

ASSUME QuestionAssumption == HeldOut \subseteq Eval /\ Eval \subseteq Question
ASSUME MoneyAssumption == MaxIn \in Nat /\ MaxOut \in Nat /\ Ceilings \subseteq Nat
ASSUME ClockAssumption == MaxSecond \in Nat

Second == 0 .. MaxSecond
\* A record's name: the second it was asked, and the question.
Name == Second \X Question
RecordKind == {"settled", "failed", "nocall"}
\* A record as far as it is read back: whether it is there, whole, and settled.
Record == RecordKind \cup {"torn", "absent"}
\* The bound of one call.
Bound == MaxIn + MaxOut

VARIABLES
    records,   \* artifacts/asks/
    asker,     \* the local state of every command
    now,       \* the clock, in seconds
    answers    \* history: the settled answers paid for, per question

vars == <<records, asker, now, answers>>

Idle == [pc |-> "idle", q |-> None, at |-> 0, ceiling |-> 0, kind |-> None, bill |-> 0,
         recorded |-> 0, cost |-> 0, collided |-> FALSE]

Init ==
    /\ records = [n \in Name |-> "absent"]
    /\ asker = [c \in Asker |-> Idle]
    /\ now = 0
    /\ answers = [q \in Question |-> 0]
-----------------------------------------------------------------------------
Become(c, s) == asker' = [asker EXCEPT ![c] = s]
Stop(c) == Become(c, Idle)
GoesTo(c, pc) == Become(c, [asker[c] EXCEPT !.pc = pc])

Written(n) == records[n] # "absent"
NameOf(c) == <<asker[c].at, asker[c].q>>

\* Mutant of NotAnswered: a record that cannot be read is skipped.
NoneSettled(q) == \A t \in Second : records[<<t, q>>] # "settled"

\* settled_eval_record() finds no settled record of q, and can read every record of q.
NotAnswered(q) == \A t \in Second : records[<<t, q>>] \notin {"settled", "torn"}

\* `ask q --ceiling N`: the options, and for a held out question the guard.
Ask(c) ==
    /\ asker[c].pc = "idle"
    /\ \E q \in Question, ceiling \in Ceilings :
          /\ q \in HeldOut => NotAnswered(q)
          /\ Become(c, [Idle EXCEPT !.pc = "find", !.q = q, !.ceiling = ceiling])
    /\ UNCHANGED <<records, now, answers>>

\* The settings, manifest and graph are read, the pack built, and the time taken.
FindItems(c) ==
    /\ asker[c].pc = "find"
    /\ \/ Become(c, [asker[c] EXCEPT !.pc = "price", !.at = now])
       \/ Stop(c)
    /\ UNCHANGED <<records, now, answers>>

\* no_call_record(): no call, so nothing settled, nothing counted and nothing spent.
NoCallRecord == "nocall"

\* Mutant of NoMatch: the record is written before its kind is known.
NoMatchUnkind(c) ==
    /\ asker[c].pc = "find"
    /\ asker[c].q \in Eval
    /\ Become(c, [asker[c] EXCEPT !.pc = "exists", !.at = now])
    /\ UNCHANGED <<records, now, answers>>

\* An eval question whose words match no item leaves a record; a typed one ends with none.
NoMatch(c) ==
    /\ asker[c].pc = "find"
    /\ asker[c].q \in Eval
    /\ Become(c, [asker[c] EXCEPT !.pc = "exists", !.at = now, !.kind = NoCallRecord])
    /\ UNCHANGED <<records, now, answers>>

\* ask_metered(): the bound against the ceiling, then the record's name.
MayCall(c) == Bound <= asker[c].ceiling /\ ~Written(NameOf(c))

Guard(c) ==
    /\ asker[c].pc = "price"
    /\ IF MayCall(c) THEN GoesTo(c, "call") ELSE Stop(c)
    /\ UNCHANGED <<records, now, answers>>

\* How a call ends: it fails or drops before a message starts, drops with the stop reason
\* still to come, drops after it, stops on max_tokens or a refusal, replies with no text or
\* with what is no Answer, raises (a Ctrl-C included), or is answered.
Reply == {"nomessage", "dropped", "droppedlate", "stopped", "notext", "invalid", "raised", "answer"}

Settles(reply) == reply = "answer"

\* The cost of the usage that arrived: the input's with the message, the output's with the
\* stop reason, and what is unmeasured at nothing.
RecordedUsage(reply, in, out) ==
    CASE reply \in {"nomessage", "raised"} -> 0
      [] reply = "dropped" -> in
      [] OTHER -> in + out

\* Mutant of RecordCost: a failed call is recorded at its recorded usage.
CostsWhatArrived(reply, recorded) == recorded

\* The cost its record carries: the recorded usage of an answer, the bound of a failure.
RecordCost(reply, recorded) == IF Settles(reply) THEN recorded ELSE Bound

\* The one streamed call, with no cache and no retry.
Call(c) ==
    /\ asker[c].pc = "call"
    /\ \E reply \in Reply, in \in 0 .. MaxIn, out \in 0 .. MaxOut :
          LET recorded == RecordedUsage(reply, in, out) IN
          /\ Become(c, [asker[c] EXCEPT !.pc = "exists", !.bill = in + out, !.recorded = recorded,
                                        !.kind = IF Settles(reply) THEN "settled" ELSE "failed",
                                        !.cost = RecordCost(reply, recorded)])
          /\ answers' = IF Settles(reply)
                        THEN [answers EXCEPT ![asker[c].q] = @ + 1] ELSE answers
    /\ UNCHANGED <<records, now>>

\* write_record(): refuse a name in use, open the file, write it.
WriteExists(c) ==
    /\ asker[c].pc = "exists"
    /\ IF Written(NameOf(c))
       THEN Become(c, [asker[c] EXCEPT !.pc = "lost", !.collided = TRUE])
       ELSE GoesTo(c, "open")
    /\ UNCHANGED <<records, now, answers>>

WriteOpen(c) ==
    /\ asker[c].pc = "open"
    /\ records' = [records EXCEPT ![NameOf(c)] = "torn"]
    /\ GoesTo(c, "write")
    /\ UNCHANGED <<now, answers>>

WriteText(c) ==
    /\ asker[c].pc = "write"
    /\ records' = [records EXCEPT ![NameOf(c)] = asker[c].kind]
    /\ Stop(c)
    /\ UNCHANGED <<now, answers>>

\* An OSError: the answer, if any, is still printed, and the record reported lost.
WriteFails(c) ==
    /\ asker[c].pc \in {"open", "write"}
    /\ GoesTo(c, "lost")
    /\ UNCHANGED <<records, now, answers>>

ReportLost(c) ==
    /\ asker[c].pc = "lost"
    /\ Stop(c)
    /\ UNCHANGED <<records, now, answers>>

\* A kill at any step, or a Ctrl-C outside the call itself.
Crash(c) ==
    /\ asker[c].pc # "idle"
    /\ Stop(c)
    /\ UNCHANGED <<records, now, answers>>

Tick ==
    /\ now < MaxSecond
    /\ now' = now + 1
    /\ UNCHANGED <<records, asker, answers>>

Write(c) == WriteExists(c) \/ WriteOpen(c) \/ WriteText(c)
Step(c) == FindItems(c) \/ NoMatch(c) \/ Guard(c) \/ Call(c) \/ Write(c) \/ ReportLost(c)
Next == Tick \/ \E c \in Asker : Ask(c) \/ Step(c) \/ WriteFails(c) \/ Crash(c)

Spec == Init /\ [][Next]_vars
-----------------------------------------------------------------------------
(* Properties.                                                             *)

AskerState ==
    [pc : {"idle", "find", "price", "call", "exists", "open", "write", "lost"},
     q : Question \cup {None}, at : Second, ceiling : Nat,
     kind : RecordKind \cup {None}, bill : 0 .. Bound, recorded : 0 .. Bound,
     cost : 0 .. Bound, collided : BOOLEAN]

\* The records and every command are well formed.
TypeOK ==
    /\ records \in [Name -> Record]
    /\ asker \in [Asker -> AskerState]
    /\ now \in Second
    /\ answers \in [Question -> Nat]
    /\ \A c \in Asker : asker[c].pc # "idle" => asker[c].q \in Question
    /\ \A c \in Asker : asker[c].pc \in {"open", "write"} => asker[c].kind \in RecordKind

\* A held out question has at most one record that settled, or that a crash cut short and
\* may have: over every later ask, second, failure and crash, asked one command at a time,
\* once it is answered it is answered (AC-32).  A failed call uses nothing up.
SettledOnce ==
    \A q \in HeldOut :
        Cardinality({t \in Second : records[<<t, q>>] \in {"settled", "torn"}}) <= 1

\* A paid call never loses its record to a name already in use, for the name was found free
\* before the call was paid for (AC-27b); and while its record is written, what its usage
\* recorded is never more than what the provider billed, the bill never more than the cost
\* the record carries, failed and interrupted calls included, and that cost never more than
\* the ceiling (AC-23, AC-24).
PaidIsCovered ==
    \A c \in Asker :
        asker[c].pc \in {"exists", "open", "write", "lost"} /\ asker[c].kind # "nocall" =>
            /\ ~asker[c].collided
            /\ asker[c].recorded <= asker[c].bill
            /\ asker[c].bill <= asker[c].cost
            /\ asker[c].cost <= asker[c].ceiling

\* A held out question is answered by at most one paid call (README: the tool "refuses to
\* ask a held out question a second time once it has an answer").
AnsweredOnce == \A q \in HeldOut : answers[q] <= 1
=============================================================================
