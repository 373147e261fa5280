--------------------------- MODULE AskGuard_proofs --------------------------
(* Proofs about AskGuard, for every number of questions, every price, every    *)
(* ceiling and every length of the clock.  Types and amounts hold for any      *)
(* number of commands; what depends on a record found free staying free is     *)
(* proved of one command at a time.                                            *)
EXTENDS AskGuard, FiniteSetTheorems, TLAPS

(* A record being written has a kind.                                          *)
Kinded == \A c \in Asker : asker[c].pc \in {"exists", "open", "write"} => asker[c].kind \in RecordKind
Typed == TypeOK /\ Kinded

(* What a command knows of itself.                                             *)
SelfTyped(s) ==
    /\ s \in AskerState
    /\ s.pc # "idle" => s.q \in Question
    /\ s.pc \in {"exists", "open", "write"} => s.kind \in RecordKind

(* The bound of a call is a price.                                             *)
LEMMA BoundIsPrice == Bound \in Nat /\ MaxIn \in Nat /\ MaxOut \in Nat
  BY MoneyAssumption DEF Bound

(* A step that changes one command to a well formed state, and the records and *)
(* answers to well formed ones, keeps the types.                               *)
LEMMA CommandStep ==
    ASSUME Typed, NEW c \in Asker, NEW s, SelfTyped(s), Become(c, s),
           records' \in [Name -> Record], now' \in Second, answers' \in [Question -> Nat]
    PROVE  Typed'
  BY DEF Typed, TypeOK, Kinded, SelfTyped, Become

\* What the types say of one command.
LEMMA CommandTyped ==
    ASSUME Typed, NEW c \in Asker
    PROVE  SelfTyped(asker[c])
  BY DEF Typed, TypeOK, Kinded, SelfTyped

\* An idle command is well typed.
LEMMA IdleTyped == SelfTyped(Idle)
  BY BoundIsPrice, ClockAssumption DEF SelfTyped, Idle, AskerState, Second

(* What a call records, is billed and costs: the record of a failed call       *)
(* carries the bound, that of an answer what its usage recorded.               *)
LEMMA CallCosts ==
    ASSUME NEW reply \in Reply, NEW in \in 0 .. MaxIn, NEW out \in 0 .. MaxOut
    PROVE  LET recorded == RecordedUsage(reply, in, out)
               cost == RecordCost(reply, recorded)
           IN  /\ in + out \in 0 .. Bound /\ recorded \in 0 .. Bound /\ cost \in 0 .. Bound
               /\ recorded <= in + out /\ in + out <= cost
  <1>1. /\ in \in Nat /\ out \in Nat /\ in <= MaxIn /\ out <= MaxOut
        /\ MaxIn \in Nat /\ MaxOut \in Nat /\ Bound = MaxIn + MaxOut
    BY BoundIsPrice DEF Bound
  <1>2. CASE reply = "answer"
    BY <1>1, <1>2 DEF RecordedUsage, RecordCost, Settles
  <1>3. CASE reply # "answer"
    <2>1. RecordedUsage(reply, in, out) \in {0, in, in + out}
      BY DEF RecordedUsage
    <2>2. RecordCost(reply, RecordedUsage(reply, in, out)) = Bound
      BY <1>3 DEF RecordCost, Settles
    <2> QED
      BY <1>1, <2>1, <2>2
  <1> QED
    BY <1>2, <1>3

(* The state a call leaves its command in.                                     *)
Called(c, reply, in, out) ==
    LET recorded == RecordedUsage(reply, in, out) IN
    [asker[c] EXCEPT !.pc = "exists", !.bill = in + out, !.recorded = recorded,
                     !.kind = IF Settles(reply) THEN "settled" ELSE "failed",
                     !.cost = RecordCost(reply, recorded)]

\* A call is one of the replies the provider may give, recorded as Called says.
LEMMA CallIs ==
    ASSUME NEW c \in Asker, Call(c)
    PROVE  /\ asker[c].pc = "call" /\ records' = records /\ now' = now
           /\ \E reply \in Reply, in \in 0 .. MaxIn, out \in 0 .. MaxOut :
                 /\ Become(c, Called(c, reply, in, out))
                 /\ answers' = IF Settles(reply)
                               THEN [answers EXCEPT ![asker[c].q] = @ + 1] ELSE answers
  BY DEF Call, Called

\* A command whose call has come back is well typed, whatever came back.
LEMMA CalledTyped ==
    ASSUME NEW c \in Asker, SelfTyped(asker[c]), asker[c].pc = "call",
           NEW reply \in Reply, NEW in \in 0 .. MaxIn, NEW out \in 0 .. MaxOut
    PROVE  SelfTyped(Called(c, reply, in, out))
  <1> DEFINE recorded == RecordedUsage(reply, in, out)
             kind == IF Settles(reply) THEN "settled" ELSE "failed"
             cost == RecordCost(reply, recorded)
  <1>1. in + out \in 0 .. Bound /\ recorded \in 0 .. Bound /\ cost \in 0 .. Bound
    BY CallCosts
  <1>2. kind \in RecordKind
    BY DEF RecordKind
  <1> HIDE DEF recorded, kind, cost
  <1>3. SelfTyped([asker[c] EXCEPT !.pc = "exists", !.bill = in + out, !.recorded = recorded,
                     !.kind = kind, !.cost = cost])
    BY <1>1, <1>2 DEF SelfTyped, AskerState
  <1> QED
    BY <1>3 DEF Called, recorded, kind, cost

(* The types, and the kind of a record being written, hold throughout.         *)
LEMMA TypedAlways == Spec => []Typed
<1>1. Init => Typed
  <2> SUFFICES ASSUME Init PROVE Typed
    OBVIOUS
  <2>1. \A c \in Asker : asker[c] = Idle /\ SelfTyped(asker[c])
    BY IdleTyped DEF Init
  <2>2. records \in [Name -> Record] /\ now \in Second /\ answers \in [Question -> Nat]
    BY ClockAssumption DEF Init, Record, Second
  <2> QED
    BY <2>1, <2>2 DEF Typed, TypeOK, Kinded, SelfTyped, Init
<1>2. Typed /\ [Next]_vars => Typed'
  <2> SUFFICES ASSUME Typed, [Next]_vars PROVE Typed'
    OBVIOUS
  <2> USE DEF GoesTo
  <2>1. CASE UNCHANGED vars
    BY <2>1 DEF vars, Typed, TypeOK, Kinded
  <2>2. CASE Tick
    BY <2>2, ClockAssumption DEF Tick, Typed, TypeOK, Kinded, Second
  <2>3. ASSUME NEW c \in Asker, Ask(c) \/ Step(c) \/ WriteFails(c) \/ Crash(c)
        PROVE  Typed'
    <3>1. SelfTyped(asker[c]) /\ records \in [Name -> Record] /\ now \in Second
          /\ answers \in [Question -> Nat]
      BY CommandTyped DEF Typed, TypeOK
    <3>2. CASE Stop(c) /\ UNCHANGED <<records, now, answers>>
      BY <3>1, <3>2, IdleTyped, CommandStep DEF Stop
    <3>3. CASE Ask(c)
      <4>1. PICK q \in Question, ceiling \in Ceilings :
              Become(c, [Idle EXCEPT !.pc = "find", !.q = q, !.ceiling = ceiling])
        BY <3>3 DEF Ask
      <4>2. SelfTyped([Idle EXCEPT !.pc = "find", !.q = q, !.ceiling = ceiling])
        BY IdleTyped, MoneyAssumption DEF SelfTyped, Idle, AskerState
      <4> QED
        BY <3>1, <3>3, <4>1, <4>2, CommandStep DEF Ask
    <3>4. CASE FindItems(c)
      <4>1. SelfTyped([asker[c] EXCEPT !.pc = "price", !.at = now])
        BY <3>1, <3>4 DEF FindItems, SelfTyped, AskerState
      <4> QED
        BY <3>1, <3>2, <3>4, <4>1, CommandStep DEF FindItems
    <3>5. CASE NoMatch(c)
      <4>1. SelfTyped([asker[c] EXCEPT !.pc = "exists", !.at = now, !.kind = NoCallRecord])
        BY <3>1, <3>5 DEF NoMatch, SelfTyped, AskerState, NoCallRecord, RecordKind
      <4> QED
        BY <3>1, <3>5, <4>1, CommandStep DEF NoMatch
    <3>6. CASE Guard(c)
      <4>1. SelfTyped([asker[c] EXCEPT !.pc = "call"])
        BY <3>1, <3>6 DEF Guard, SelfTyped, AskerState
      <4> QED
        BY <3>1, <3>2, <3>6, <4>1, CommandStep DEF Guard
    <3>7. CASE Call(c)
      <4>1. PICK reply \in Reply, in \in 0 .. MaxIn, out \in 0 .. MaxOut :
              /\ Become(c, Called(c, reply, in, out))
              /\ answers' = IF Settles(reply)
                            THEN [answers EXCEPT ![asker[c].q] = @ + 1] ELSE answers
        BY <3>7, CallIs
      <4>2. answers' \in [Question -> Nat]
        <5>1. CASE Settles(reply)
          <6>1. answers[asker[c].q] + 1 \in Nat
            BY <3>1, <3>7, CallIs DEF SelfTyped
          <6> QED
            BY <3>1, <4>1, <5>1, <6>1
        <5> QED
          BY <3>1, <4>1, <5>1
      <4>3. SelfTyped(Called(c, reply, in, out))
        BY <3>1, <3>7, CalledTyped, CallIs
      <4> QED
        BY <3>1, <3>7, <4>1, <4>2, <4>3, CallIs, CommandStep
    <3>8. CASE WriteExists(c)
      <4>1. /\ SelfTyped([asker[c] EXCEPT !.pc = "lost", !.collided = TRUE])
            /\ SelfTyped([asker[c] EXCEPT !.pc = "open"])
        BY <3>1, <3>8 DEF WriteExists, SelfTyped, AskerState
      <4>2. CASE Become(c, [asker[c] EXCEPT !.pc = "lost", !.collided = TRUE])
        BY <3>1, <3>8, <4>1, <4>2, CommandStep DEF WriteExists
      <4>3. CASE Become(c, [asker[c] EXCEPT !.pc = "open"])
        BY <3>1, <3>8, <4>1, <4>3, CommandStep DEF WriteExists
      <4> QED
        BY <3>8, <4>2, <4>3 DEF WriteExists
    <3>9. CASE WriteOpen(c)
      <4>1. SelfTyped([asker[c] EXCEPT !.pc = "write"]) /\ records' \in [Name -> Record]
        BY <3>1, <3>9 DEF WriteOpen, SelfTyped, AskerState, Record
      <4> QED
        BY <3>1, <3>9, <4>1, CommandStep DEF WriteOpen
    <3>10. CASE WriteText(c)
      <4>1. records' \in [Name -> Record]
        BY <3>1, <3>10 DEF WriteText, SelfTyped, Record
      <4> QED
        BY <3>1, <3>10, <4>1, IdleTyped, CommandStep DEF WriteText, Stop
    <3>11. CASE WriteFails(c)
      <4>1. SelfTyped([asker[c] EXCEPT !.pc = "lost"])
        BY <3>1, <3>11 DEF WriteFails, SelfTyped, AskerState
      <4> QED
        BY <3>1, <3>11, <4>1, CommandStep DEF WriteFails
    <3> QED
      BY <2>3, <3>2, <3>3, <3>4, <3>5, <3>6, <3>7, <3>8, <3>9, <3>10, <3>11
         DEF Step, Write, ReportLost, Crash
  <2> QED
    BY <2>1, <2>2, <2>3 DEF Next
<1> QED
  BY <1>1, <1>2, PTL DEF Spec

(* Every state of the ask command is well formed, for any number of commands.  *)
THEOREM TypeInvariant == Spec => []TypeOK
<1>1. Typed => TypeOK
  BY DEF Typed
<1> QED
  BY <1>1, TypedAlways, PTL
-----------------------------------------------------------------------------
(* What a paid call costs, for any number of commands.                         *)

(* The amounts of one command: the bound fits the ceiling before the call, and *)
(* what was recorded, billed and written down are in order after it.           *)
Covered(s) ==
    /\ s.pc = "call" => Bound <= s.ceiling
    /\ s.pc \in {"exists", "open", "write", "lost"} /\ s.kind # "nocall" =>
          s.recorded <= s.bill /\ s.bill <= s.cost /\ s.cost <= s.ceiling
CostInOrder == \A c \in Asker : Covered(asker[c])

\* A command that moves to a covered state leaves the others covered.
LEMMA CoveredStep ==
    ASSUME Typed, CostInOrder, NEW c \in Asker, NEW s, Covered(s), Become(c, s)
    PROVE  CostInOrder'
  BY DEF CostInOrder, Covered, Become, Typed, TypeOK

\* An idle command is covered: nothing is billed and nothing recorded.
LEMMA IdleCovered == Covered(Idle)
  BY DEF Covered, Idle

(* However many ask commands run at once, what a paid call's usage recorded is *)
(* never more than what was billed, the bill never more than the cost its      *)
(* record carries, and that cost never more than the command's ceiling.        *)
THEOREM CostIsCovered == Spec => []CostInOrder
<1>1. Init => CostInOrder
  BY IdleCovered DEF Init, CostInOrder
<1>2. Typed /\ CostInOrder /\ [Next]_vars => CostInOrder'
  <2> SUFFICES ASSUME Typed, CostInOrder, [Next]_vars PROVE CostInOrder'
    OBVIOUS
  <2> USE DEF GoesTo
  <2>1. CASE UNCHANGED asker
    BY <2>1 DEF CostInOrder, Covered
  <2>2. ASSUME NEW c \in Asker, Ask(c) \/ Step(c) \/ WriteFails(c) \/ Crash(c)
        PROVE  CostInOrder'
    <3>1. SelfTyped(asker[c]) /\ Covered(asker[c])
      BY CommandTyped DEF CostInOrder
    <3>2. CASE Stop(c)
      BY <3>2, IdleCovered, CoveredStep DEF Stop
    <3>3. CASE Ask(c)
      <4>1. PICK q \in Question, ceiling \in Ceilings :
              Become(c, [Idle EXCEPT !.pc = "find", !.q = q, !.ceiling = ceiling])
        BY <3>3 DEF Ask
      <4>2. Covered([Idle EXCEPT !.pc = "find", !.q = q, !.ceiling = ceiling])
        BY DEF Covered, Idle
      <4> QED
        BY <4>1, <4>2, CoveredStep
    <3>4. CASE FindItems(c)
      <4>1. Covered([asker[c] EXCEPT !.pc = "price", !.at = now])
        BY <3>1 DEF Covered, SelfTyped, AskerState
      <4> QED
        BY <3>2, <3>4, <4>1, CoveredStep DEF FindItems
    <3>5. CASE NoMatch(c)
      <4>1. Covered([asker[c] EXCEPT !.pc = "exists", !.at = now, !.kind = NoCallRecord])
        BY <3>1 DEF Covered, SelfTyped, AskerState, NoCallRecord
      <4> QED
        BY <3>5, <4>1, CoveredStep DEF NoMatch
    <3>6. CASE Guard(c)
      <4>1. CASE MayCall(c) /\ Become(c, [asker[c] EXCEPT !.pc = "call"])
        <5>1. Covered([asker[c] EXCEPT !.pc = "call"])
          BY <3>1, <4>1 DEF Covered, SelfTyped, AskerState, MayCall
        <5> QED
          BY <4>1, <5>1, CoveredStep
      <4> QED
        BY <3>2, <3>6, <4>1 DEF Guard
    <3>7. CASE Call(c)
      <4>1. PICK reply \in Reply, in \in 0 .. MaxIn, out \in 0 .. MaxOut :
              Become(c, Called(c, reply, in, out))
        BY <3>7, CallIs
      <4> DEFINE recorded == RecordedUsage(reply, in, out)
                 cost == RecordCost(reply, recorded)
                 s == Called(c, reply, in, out)
      <4>2. recorded <= in + out /\ in + out <= cost /\ cost <= Bound
            /\ cost \in Nat /\ asker[c].ceiling \in Nat
        BY <3>1, CallCosts, BoundIsPrice DEF SelfTyped, AskerState
      <4>3. /\ s.pc = "exists" /\ s.recorded = recorded /\ s.bill = in + out /\ s.cost = cost
            /\ s.ceiling = asker[c].ceiling
        BY <3>1 DEF Called, SelfTyped, AskerState
      <4>4. Bound <= asker[c].ceiling
        BY <3>1, <3>7, CallIs DEF Covered
      <4>5. Covered(s)
        <5> HIDE DEF s, recorded, cost
        <5>1. cost <= asker[c].ceiling
          BY <4>2, <4>4, BoundIsPrice
        <5> QED
          BY <4>2, <4>3, <5>1 DEF Covered
      <4> QED
        BY <4>1, <4>5, CoveredStep
    <3>8. CASE WriteExists(c)
      <4>1. /\ Covered([asker[c] EXCEPT !.pc = "lost", !.collided = TRUE])
            /\ Covered([asker[c] EXCEPT !.pc = "open"])
        BY <3>1, <3>8 DEF WriteExists, Covered, SelfTyped, AskerState
      <4> QED
        BY <3>8, <4>1, CoveredStep DEF WriteExists
    <3>9. CASE WriteOpen(c)
      <4>1. Covered([asker[c] EXCEPT !.pc = "write"])
        BY <3>1, <3>9 DEF WriteOpen, Covered, SelfTyped, AskerState
      <4> QED
        BY <3>9, <4>1, CoveredStep DEF WriteOpen
    <3>10. CASE WriteFails(c)
      <4>1. Covered([asker[c] EXCEPT !.pc = "lost"])
        BY <3>1, <3>10 DEF WriteFails, Covered, SelfTyped, AskerState
      <4> QED
        BY <3>10, <4>1, CoveredStep DEF WriteFails
    <3> QED
      BY <2>2, <3>2, <3>3, <3>4, <3>5, <3>6, <3>7, <3>8, <3>9, <3>10
         DEF Step, Write, WriteText, ReportLost, Crash
  <2> QED
    BY <2>1, <2>2 DEF Next, vars, Tick
<1> QED
  BY <1>1, <1>2, TypedAlways, PTL DEF Spec

-----------------------------------------------------------------------------
(* One command at a time: names and held out questions.                        *)

(* The one command of `tracepath ask`: two of them may both pass the guard.    *)
OneAtATime == \A c, d \in Asker : c = d

(* A name found free stays free until its own command opens it: from the guard *)
(* on for a paid call, from the last look for every record.  Only the record   *)
(* of a question that was never asked may meet a name in use.                  *)
Free(c) ==
    /\ asker[c].pc \in {"call", "open"} => ~Written(NameOf(c))
    /\ asker[c].pc = "exists" /\ asker[c].kind # "nocall" => ~Written(NameOf(c))
    /\ asker[c].pc = "write" => records[NameOf(c)] = "torn"
    /\ asker[c].collided => asker[c].pc = "lost" /\ asker[c].kind = "nocall"
FreeInv == \A c \in Asker : Free(c)

\* One command at a time, the name it found free is free until it writes there itself.
LEMMA FreeAlways == ASSUME OneAtATime PROVE Spec => []FreeInv
<1>1. Init => FreeInv
  BY DEF Init, FreeInv, Free, Idle
<1>2. Typed /\ FreeInv /\ [Next]_vars => FreeInv'
  <2> SUFFICES ASSUME Typed, FreeInv, [Next]_vars PROVE FreeInv'
    OBVIOUS
  <2> USE DEF GoesTo
  <2>1. CASE UNCHANGED <<records, asker>>
    BY <2>1 DEF FreeInv, Free, Written, NameOf
  <2>2. ASSUME NEW c \in Asker, Ask(c) \/ Step(c) \/ WriteFails(c) \/ Crash(c)
        PROVE  FreeInv'
    <3>1. /\ SelfTyped(asker[c]) /\ Free(c) /\ asker \in [Asker -> AskerState]
          /\ records \in [Name -> Record] /\ now \in Second
          /\ \A d \in Asker : d = c
      BY CommandTyped DEF FreeInv, Typed, TypeOK, OneAtATime
    <3>0. \A s : Become(c, s) => asker'[c] = s
      BY <3>1 DEF Become
    <3>2. CASE Stop(c)
      BY <3>0, <3>1, <3>2 DEF Stop, Idle, FreeInv, Free
    <3>3. CASE Ask(c)
      BY <3>0, <3>1, <3>3 DEF Ask, Idle, FreeInv, Free
    <3>4. CASE FindItems(c)
      <4>1. CASE Become(c, [asker[c] EXCEPT !.pc = "price", !.at = now])
        <5>1. asker'[c].pc = "price" /\ asker'[c].collided = asker[c].collided
          BY <3>0, <3>1, <4>1 DEF SelfTyped, AskerState
        <5> QED
          BY <3>1, <3>4, <5>1 DEF FindItems, FreeInv, Free
      <4> QED
        BY <3>2, <3>4, <4>1 DEF FindItems
    <3>5. CASE NoMatch(c)
      <4>1. /\ asker'[c].pc = "exists" /\ asker'[c].kind = "nocall"
            /\ asker'[c].collided = asker[c].collided /\ asker[c].pc = "find"
        BY <3>0, <3>1, <3>5 DEF NoMatch, NoCallRecord, SelfTyped, AskerState
      <4> QED
        BY <3>1, <4>1 DEF FreeInv, Free
    <3>6. CASE Guard(c)
      <4>1. CASE MayCall(c) /\ Become(c, [asker[c] EXCEPT !.pc = "call"])
        <5>1. /\ asker'[c].pc = "call" /\ asker'[c].at = asker[c].at /\ asker'[c].q = asker[c].q
              /\ asker'[c].collided = asker[c].collided
          BY <3>0, <3>1, <4>1 DEF SelfTyped, AskerState
        <5> QED
          BY <3>1, <3>6, <4>1, <5>1 DEF Guard, MayCall, FreeInv, Free, Written, NameOf
      <4> QED
        BY <3>2, <3>6, <4>1 DEF Guard
    <3>7. CASE Call(c)
      <4>1. PICK reply \in Reply, in \in 0 .. MaxIn, out \in 0 .. MaxOut :
              Become(c, Called(c, reply, in, out))
        BY <3>7, CallIs
      <4> DEFINE s == Called(c, reply, in, out)
      <4>2. /\ s.pc = "exists" /\ s.at = asker[c].at /\ s.q = asker[c].q
            /\ s.collided = asker[c].collided /\ s.kind # "nocall"
        BY <3>1 DEF Called, SelfTyped, AskerState
      <4>3. asker'[c] = s /\ records' = records /\ asker[c].pc = "call"
        BY <3>1, <3>7, <4>1, CallIs DEF Become
      <4> HIDE DEF s
      <4> QED
        BY <3>1, <4>2, <4>3 DEF FreeInv, Free, Written, NameOf
    <3>8. CASE WriteExists(c)
      <4>1. asker[c].pc = "exists" /\ records' = records /\ ~asker[c].collided
        BY <3>1, <3>8 DEF WriteExists, Free
      <4>2. CASE Written(NameOf(c))
        <5>1. asker'[c].pc = "lost" /\ asker'[c].kind = asker[c].kind
          BY <3>0, <3>1, <3>8, <4>2 DEF WriteExists, SelfTyped, AskerState
        <5> QED
          BY <3>1, <4>1, <4>2, <5>1 DEF FreeInv, Free
      <4>3. CASE ~Written(NameOf(c))
        <5>1. /\ asker'[c].pc = "open" /\ asker'[c].at = asker[c].at /\ asker'[c].q = asker[c].q
              /\ asker'[c].collided = asker[c].collided
          BY <3>0, <3>1, <3>8, <4>3 DEF WriteExists, SelfTyped, AskerState
        <5> QED
          BY <3>1, <4>1, <4>3, <5>1 DEF FreeInv, Free, Written, NameOf
      <4> QED
        BY <4>2, <4>3
    <3>9. CASE WriteOpen(c)
      <4>1. NameOf(c) \in Name /\ NameOf(c)' = NameOf(c) /\ asker'[c].pc = "write"
            /\ asker'[c].collided = asker[c].collided /\ asker[c].pc = "open"
        BY <3>0, <3>1, <3>9 DEF WriteOpen, Become, SelfTyped, AskerState, NameOf, Name
      <4>2. records'[NameOf(c)] = "torn"
        BY <3>1, <3>9, <4>1 DEF WriteOpen
      <4> QED
        BY <3>1, <4>1, <4>2 DEF FreeInv, Free
    <3>10. CASE WriteText(c)
      BY <3>2, <3>10 DEF WriteText
    <3>11. CASE WriteFails(c)
      <4>1. /\ asker'[c].pc = "lost" /\ asker'[c].collided = asker[c].collided
            /\ asker[c].pc \in {"open", "write"}
        BY <3>0, <3>1, <3>11 DEF WriteFails, SelfTyped, AskerState
      <4> QED
        BY <3>1, <4>1 DEF FreeInv, Free
    <3> QED
      BY <2>2, <3>2, <3>3, <3>4, <3>5, <3>6, <3>7, <3>8, <3>9, <3>10, <3>11
         DEF Step, Write, ReportLost, Crash
  <2> QED
    BY <2>1, <2>2 DEF Next, vars, Tick
<1> QED
  BY <1>1, <1>2, TypedAlways, PTL DEF Spec

(* One command at a time, a paid call never loses its record to a name in use, *)
(* and the record's amounts are in order (PaidIsCovered).                      *)
THEOREM PaidCallsAreCovered == ASSUME OneAtATime PROVE Spec => []PaidIsCovered
<1>1. CostInOrder /\ FreeInv => PaidIsCovered
  BY DEF CostInOrder, Covered, FreeInv, Free, PaidIsCovered
<1> QED
  BY <1>1, CostIsCovered, FreeAlways, PTL

(* A step leaves a whole record as it is: no command writes to a name that is   *)
(* in use.                                                                     *)
LEMMA RecordStands ==
    ASSUME Typed, FreeInv, [Next]_vars
    PROVE  \A n \in Name : records[n] \in RecordKind => records'[n] = records[n]
<1> SUFFICES ASSUME NEW n \in Name, records[n] \in RecordKind
             PROVE  records'[n] = records[n]
  OBVIOUS
<1>1. records \in [Name -> Record] /\ records[n] # "absent" /\ records[n] # "torn"
  BY DEF Typed, TypeOK, RecordKind
<1>2. ASSUME NEW c \in Asker, WriteOpen(c) \/ WriteText(c)
      PROVE  records'[n] = records[n]
  <2>1. NameOf(c) # n
    BY <1>1, <1>2 DEF WriteOpen, WriteText, FreeInv, Free, Written
  <2> QED
    BY <1>1, <1>2, <2>1 DEF WriteOpen, WriteText
<1>3. UNCHANGED records \/ \E c \in Asker : WriteOpen(c) \/ WriteText(c)
  BY DEF Next, vars, Tick, Ask, Step, FindItems, NoMatch, Guard, Call, Write, WriteExists,
              ReportLost, WriteFails, Crash
<1> QED
  BY <1>2, <1>3

(* One command at a time, a record once written stands, whatever its kind:     *)
(* nothing asked later writes over it (record.py write_record).                *)
THEOREM RecordsStand ==
    ASSUME OneAtATime
    PROVE  Spec => [][\A n \in Name : records[n] \in RecordKind => records'[n] = records[n]]_vars
<1>1. Typed /\ FreeInv /\ [Next]_vars
         => \A n \in Name : records[n] \in RecordKind => records'[n] = records[n]
  BY RecordStands
<1> QED
  BY <1>1, TypedAlways, FreeAlways, PTL DEF Spec

(* A record that counts against its question: settled, or cut short.           *)
Counts(n) == records[n] \in {"settled", "torn"}

(* Until the command of a held out question opens its record, none counts.     *)
Unasked(c) ==
    asker[c].pc \in {"find", "price", "call", "exists", "open"} /\ asker[c].q \in HeldOut
        => NotAnswered(asker[c].q)
OnlyOne ==
    \A q \in HeldOut : \A t, u \in Second : Counts(<<t, q>>) /\ Counts(<<u, q>>) => t = u
HeldInv == OnlyOne /\ \A c \in Asker : Unasked(c)

\* One command at a time, a held out question has at most one record that counts, and none
\* while a command asks it.
LEMMA HeldAlways == ASSUME OneAtATime PROVE Spec => []HeldInv
<1>1. Init => HeldInv
  BY QuestionAssumption DEF Init, HeldInv, OnlyOne, Unasked, Counts, Idle, Name
<1>2. Typed /\ FreeInv /\ HeldInv /\ [Next]_vars => HeldInv'
  <2> SUFFICES ASSUME Typed, FreeInv, HeldInv, [Next]_vars PROVE HeldInv'
    OBVIOUS
  <2> USE DEF GoesTo
  <2>1. CASE UNCHANGED <<records, asker>>
    BY <2>1 DEF HeldInv, OnlyOne, Unasked, Counts, NotAnswered
  <2>2. ASSUME NEW c \in Asker, Ask(c) \/ Step(c) \/ WriteFails(c) \/ Crash(c)
        PROVE  HeldInv'
    <3>1. /\ SelfTyped(asker[c]) /\ Free(c) /\ Unasked(c) /\ OnlyOne
          /\ asker \in [Asker -> AskerState] /\ records \in [Name -> Record]
          /\ \A d \in Asker : d = c
      BY <2>2, CommandTyped DEF FreeInv, HeldInv, Typed, TypeOK, OneAtATime
    <3>0. \A s : Become(c, s) => asker'[c] = s
      BY <3>1 DEF Become
    <3>2. ASSUME UNCHANGED records, Unasked(c)' PROVE HeldInv'
      BY <3>1, <3>2 DEF HeldInv, OnlyOne, Counts
    <3>3. CASE Stop(c) /\ UNCHANGED records
      <4>1. Unasked(c)'
        BY <3>1, <3>3 DEF Stop, Become, Idle, Unasked
      <4> QED
        BY <3>2, <3>3, <4>1
    <3>4. CASE Ask(c)
      <4>1. PICK q \in Question, ceiling \in Ceilings :
              /\ q \in HeldOut => NotAnswered(q)
              /\ Become(c, [Idle EXCEPT !.pc = "find", !.q = q, !.ceiling = ceiling])
        BY <3>4 DEF Ask
      <4>2. asker'[c].q = q /\ records' = records
        BY <3>1, <3>4, <4>1 DEF Ask, Become, Idle
      <4>3. Unasked(c)'
        BY <4>1, <4>2 DEF Unasked, NotAnswered
      <4> QED
        BY <3>2, <4>2, <4>3
    \* These go on with the question they found unanswered.
    <3>5. ASSUME UNCHANGED records, asker'[c].q = asker[c].q,
                 asker[c].pc \in {"find", "price", "call", "exists", "open"}
          PROVE  HeldInv'
      BY <3>1, <3>2, <3>5 DEF Unasked, NotAnswered
    <3>6. CASE FindItems(c) \/ NoMatch(c) \/ Guard(c)
      <4>1. CASE asker'[c].q = asker[c].q
        BY <3>5, <3>6, <4>1 DEF FindItems, NoMatch, Guard
      <4>2. CASE Stop(c)
        BY <3>3, <3>6, <4>2 DEF FindItems, NoMatch, Guard
      <4>3. asker'[c].q = asker[c].q \/ Stop(c)
        <5>1. CASE FindItems(c)
          BY <3>0, <3>1, <5>1 DEF FindItems, SelfTyped, AskerState
        <5>2. CASE NoMatch(c)
          BY <3>0, <3>1, <5>2 DEF NoMatch, SelfTyped, AskerState
        <5>3. CASE Guard(c)
          BY <3>0, <3>1, <5>3 DEF Guard, SelfTyped, AskerState
        <5> QED
          BY <3>6, <5>1, <5>2, <5>3
      <4> QED
        BY <4>1, <4>2, <4>3
    <3>7. CASE Call(c)
      <4>1. asker'[c].q = asker[c].q
        <5>1. PICK reply \in Reply, in \in 0 .. MaxIn, out \in 0 .. MaxOut :
                Become(c, Called(c, reply, in, out))
          BY <3>7, CallIs
        <5>2. Called(c, reply, in, out).q = asker[c].q
          BY <3>1 DEF Called, SelfTyped, AskerState
        <5> QED
          BY <3>0, <5>1, <5>2
      <4> QED
        BY <3>5, <3>7, <4>1, CallIs
    <3>8. CASE WriteExists(c)
      <4>1. asker'[c].q = asker[c].q
        BY <3>0, <3>1, <3>8 DEF WriteExists, SelfTyped, AskerState
      <4> QED
        BY <3>5, <3>8, <4>1 DEF WriteExists
    <3>9. CASE WriteOpen(c)
      <4> DEFINE q == asker[c].q
      <4>1. /\ asker[c].pc = "open" /\ asker'[c].pc = "write" /\ q \in Question
            /\ NameOf(c) \in Name /\ NameOf(c) = <<asker[c].at, q>>
        BY <3>1, <3>9 DEF WriteOpen, Become, SelfTyped, AskerState, NameOf, Name
      <4>2. \A n \in Name : n # NameOf(c) => records'[n] = records[n]
        BY <3>1, <3>9 DEF WriteOpen
      <4>3. q \in HeldOut => NotAnswered(q)
        BY <3>1, <4>1 DEF Unasked
      <4>4. OnlyOne'
        <5> SUFFICES ASSUME NEW p \in HeldOut, NEW t \in Second, NEW u \in Second,
                            Counts(<<t, p>>)', Counts(<<u, p>>)'
                     PROVE  t = u
          BY DEF OnlyOne, Counts
        <5>1. <<t, p>> \in Name /\ <<u, p>> \in Name
          BY QuestionAssumption DEF Name
        <5>2. CASE p = q
          <6>1. \A v \in Second : ~Counts(<<v, q>>)
            BY <4>3, <5>2 DEF NotAnswered, Counts
          <6> QED
            BY <4>1, <4>2, <5>1, <5>2, <6>1 DEF Counts
        <5>3. CASE p # q
          BY <3>1, <4>1, <4>2, <5>1, <5>3 DEF Counts, OnlyOne
        <5> QED
          BY <5>2, <5>3
      <4>5. Unasked(c)'
        BY <4>1 DEF Unasked
      <4> QED
        BY <3>1, <4>4, <4>5 DEF HeldInv
    <3>10. CASE WriteText(c)
      <4>1. records[NameOf(c)] = "torn" /\ NameOf(c) \in Name
        BY <3>1, <3>10 DEF WriteText, Free, SelfTyped, AskerState, NameOf, Name
      <4>2. \A n \in Name : Counts(n)' => Counts(n)
        BY <3>1, <3>10, <4>1 DEF WriteText, Counts
      <4>3. OnlyOne'
        <5> SUFFICES ASSUME NEW p \in HeldOut, NEW t \in Second, NEW u \in Second,
                            Counts(<<t, p>>)', Counts(<<u, p>>)'
                     PROVE  t = u
          BY DEF OnlyOne, Counts
        <5>1. <<t, p>> \in Name /\ <<u, p>> \in Name
          BY QuestionAssumption DEF Name
        <5> QED
          BY <3>1, <4>2, <5>1 DEF OnlyOne
      <4>4. Unasked(c)'
        BY <3>1, <3>10 DEF WriteText, Stop, Become, Idle, Unasked
      <4> QED
        BY <3>1, <4>3, <4>4 DEF HeldInv
    <3>11. CASE WriteFails(c)
      <4>1. Unasked(c)'
        BY <3>1, <3>11 DEF WriteFails, Become, Unasked, SelfTyped, AskerState
      <4> QED
        BY <3>2, <3>11, <4>1 DEF WriteFails
    <3> QED
      BY <2>2, <3>3, <3>4, <3>6, <3>7, <3>8, <3>9, <3>10, <3>11
         DEF Step, Write, ReportLost, Crash
  <2> QED
    BY <2>1, <2>2 DEF Next, vars, Tick
<1> QED
  BY <1>1, <1>2, TypedAlways, FreeAlways, PTL DEF Spec

(* A set whose members are all equal has at most one.                          *)
LEMMA AtMostOne ==
    ASSUME NEW S, \A x, y \in S : x = y
    PROVE  Cardinality(S) <= 1
  <1>1. CASE S = {}
    BY <1>1, FS_EmptySet
  <1>2. CASE S # {}
    <2>1. PICK x \in S : S = {x}
      BY <1>2
    <2> QED
      BY <2>1, FS_Singleton
  <1> QED
    BY <1>1, <1>2

(* A held out question asked one command at a time is answered at most once,   *)
(* whatever failed, was cut short or was asked again in between (SettledOnce). *)
THEOREM HeldOutSettledOnce == ASSUME OneAtATime PROVE Spec => []SettledOnce
<1>1. HeldInv => SettledOnce
  <2> SUFFICES ASSUME HeldInv, NEW q \in HeldOut
               PROVE  Cardinality({t \in Second : records[<<t, q>>] \in {"settled", "torn"}}) <= 1
    BY DEF SettledOnce
  <2> DEFINE S == {t \in Second : records[<<t, q>>] \in {"settled", "torn"}}
  <2>1. \A t, u \in S : t = u
    BY DEF HeldInv, OnlyOne, Counts
  <2> HIDE DEF S
  <2>2. Cardinality(S) <= 1
    BY <2>1, AtMostOne
  <2> QED
    BY <2>2 DEF S
<1> QED
  BY <1>1, HeldAlways, PTL

=============================================================================
