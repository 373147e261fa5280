-------------------------- MODULE MeteredRun_proofs --------------------------
(* Proofs about MeteredRun, for every number of commands, units, runs and      *)
(* attempts, every bound and every ceiling.                                    *)
EXTENDS MeteredRun, FiniteSetTheorems, TLAPS

(* The failed attempts of a run are a finite set of attempt numbers.           *)
LEMMA FailedFinite ==
    ASSUME NEW u, NEW r
    PROVE  /\ IsFiniteSet(Failed(u, r)) /\ Cardinality(Failed(u, r)) \in Nat
           /\ IsFiniteSet(ModelFailed(u, r)) /\ Cardinality(ModelFailed(u, r)) \in Nat
  <1>1. IsFiniteSet(Number)
    BY AttemptAssumption, FS_Interval DEF Number
  <1>2. Failed(u, r) \subseteq Number /\ ModelFailed(u, r) \subseteq Number
    BY DEF Failed, ModelFailed
  <1> QED
    BY <1>1, <1>2, FS_Subset, FS_CardinalityType

(* A step that changes one command to a well formed state keeps the types.     *)
LEMMA LocalStep ==
    ASSUME TypeOK, NEW c \in Cmd, NEW s, WellFormed(s),
           files' \in [Path -> File], Become(c, s)
    PROVE  TypeOK'
  BY DEF TypeOK, WellFormed, Become

\* An idle command is well formed.
LEMMA IdleWellFormed == WellFormed(Idle)
  BY DEF WellFormed, Idle, CmdState, PC, HasRun, HasAttempt

(* What the plans of a command hold.                                           *)
LEMMA FreshPlans == ASSUME NEW u \in Unit PROVE FreshRuns(u) \subseteq RunPlan
  BY AttemptAssumption DEF FreshRuns, RunPlan, Number, RETRIES

\* What a resume owes are plans.
LEMMA OwedPlans ==
    ASSUME NEW u \in Unit, \A p \in OwedRuns(u) : p.first + RETRIES <= MaxAttempt
    PROVE  OwedRuns(u) \subseteq RunPlan
  <1> SUFFICES ASSUME NEW p \in OwedRuns(u) PROVE p \in RunPlan
    OBVIOUS
  <1>1. PICK r \in Run : p = [unit |-> u, run |-> r, first |-> Cardinality(Failed(u, r)) + 1,
                              mf |-> Cardinality(ModelFailed(u, r))]
    BY DEF OwedRuns
  <1>2. p.first = Cardinality(Failed(u, r)) + 1 /\ p.first + RETRIES <= MaxAttempt
    BY <1>1
  <1> QED
    BY <1>1, <1>2, FailedFinite, AttemptAssumption DEF RunPlan, Number, RETRIES

(* A call's outcome, and its cost, are of the unit called.                     *)
LEMMA CostType ==
    ASSUME NEW u \in Unit, NEW a \in Attempt(u)
    PROVE  AttemptCost(u, a) \in Nat /\ AttemptCost(u, a) <= Bound[u]
  BY BoundAssumption DEF AttemptCost, Attempt

\* Every reachable state is well typed: a command past its plan holds a run, and one past
\* its call an attempt of that run.
THEOREM TypeInvariant == Spec => []TypeOK
<1>1. Init => TypeOK
  <2> SUFFICES ASSUME Init PROVE TypeOK
    OBVIOUS
  <2>1. files \in [Path -> File]
    BY DEF Init, NoFile, File
  <2>2. \A c \in Cmd : cmd[c] = Idle /\ WellFormed(cmd[c])
    BY IdleWellFormed DEF Init
  <2> QED
    BY <2>1, <2>2 DEF TypeOK, Init, WellFormed
<1>2. TypeOK /\ [Next]_vars => TypeOK'
  <2> SUFFICES ASSUME TypeOK, [Next]_vars PROVE TypeOK'
    OBVIOUS
  <2>1. CASE UNCHANGED vars
    BY <2>1 DEF vars, TypeOK, WellFormed
  <2>2. ASSUME NEW c \in Cmd, Start(c) \/ Step(c) \/ WriteFails(c) \/ Crash(c)
        PROVE  TypeOK'
    <3>1. WellFormed(cmd[c]) /\ files \in [Path -> File]
      BY DEF TypeOK
    <3>2. CASE Start(c)
      <4>1. ASSUME NEW targets \in (SUBSET Unit) \ {{}}, NEW ceiling \in Ceilings, NEW k \in Conf,
                   StartFresh(c, targets, ceiling, k)
            PROVE  TypeOK'
        <5>1. UNION {FreshRuns(u) : u \in targets} \subseteq RunPlan
          BY FreshPlans
        <5> DEFINE s == [Idle EXCEPT !.pc = "take", !.owed = UNION {FreshRuns(u) : u \in targets},
                                     !.ceiling = ceiling, !.conf = k]
        <5>2. WellFormed(s)
          BY <5>1, IdleWellFormed, CeilingAssumption
             DEF WellFormed, Idle, CmdState, PC, HasRun, HasAttempt
        <5>3. Become(c, s) /\ files' = files
          BY <4>1 DEF StartFresh, Begin
        <5> QED
          BY <3>1, <5>2, <5>3, LocalStep
      <4>2. ASSUME NEW targets \in (SUBSET Unit) \ {{}}, NEW ceiling \in Ceilings, NEW k \in Conf,
                   StartResume(c, targets, ceiling, k)
            PROVE  TypeOK'
        <5>1. UNION {OwedRuns(u) : u \in targets} \subseteq RunPlan
          BY <4>2, OwedPlans DEF StartResume
        <5> DEFINE s == [Idle EXCEPT !.pc = "preflight", !.owed = UNION {OwedRuns(u) : u \in targets},
                                     !.ceiling = ceiling, !.conf = k]
        <5>2. WellFormed(s)
          BY <5>1, IdleWellFormed, CeilingAssumption
             DEF WellFormed, Idle, CmdState, PC, HasRun, HasAttempt
        <5>3. Become(c, s) /\ files' = files
          BY <4>2 DEF StartResume, Begin
        <5> QED
          BY <3>1, <5>2, <5>3, LocalStep
      <4> QED
        BY <3>2, <4>1, <4>2 DEF Start
    <3>3. CASE Stop(c) /\ UNCHANGED files
      BY <3>1, <3>3, IdleWellFormed, LocalStep DEF Stop
    <3>4. CASE ResumePreflight(c)
      <4>1. CASE Become(c, [cmd[c] EXCEPT !.pc = "take"])
        <5>1. WellFormed([cmd[c] EXCEPT !.pc = "take"])
          BY <3>1 DEF WellFormed, CmdState, PC, HasRun, HasAttempt
        <5> QED
          BY <3>1, <3>4, <4>1, <5>1, LocalStep DEF ResumePreflight
      <4> QED
        BY <3>3, <3>4, <4>1 DEF ResumePreflight
    <3>5. CASE TakeRun(c)
      <4>1. PICK p \in cmd[c].owed :
              Become(c, [cmd[c] EXCEPT !.pc = "check", !.owed = @ \ {p},
                        !.cur = p, !.number = p.first, !.mf = p.mf])
        BY <3>5 DEF TakeRun
      <4>2. p \in RunPlan /\ p.first \in Number /\ p.mf \in Nat /\ p.first \in Nat
        BY <3>1 DEF WellFormed, CmdState, RunPlan, Number
      <4>3. WellFormed([cmd[c] EXCEPT !.pc = "check", !.owed = @ \ {p},
                        !.cur = p, !.number = p.first, !.mf = p.mf])
        BY <3>1, <4>2 DEF WellFormed, CmdState, PC, HasRun, HasAttempt
      <4> QED
        BY <3>1, <3>5, <4>1, <4>3, LocalStep DEF TakeRun
    <3>6. CASE Check(c)
      <4>1. CASE Become(c, [cmd[c] EXCEPT !.pc = "call"])
        <5>1. WellFormed([cmd[c] EXCEPT !.pc = "call"])
          BY <3>1, <3>6 DEF Check, WellFormed, CmdState, PC, HasRun, HasAttempt
        <5> QED
          BY <3>1, <3>6, <4>1, <5>1, LocalStep DEF Check
      <4> QED
        BY <3>3, <3>6, <4>1 DEF Check
    <3>7. CASE Call(c)
      <4>1. PICK a \in Outcome(cmd[c].cur.unit) :
              Become(c, [cmd[c] EXCEPT !.pc = "exists", !.att = a,
                     !.billed = @ + a.bill, !.paid = @ \cup {Paid(c, a)},
                     !.coldCalls = IF a.cold THEN @ + 1 ELSE @])
        BY <3>7 DEF Call
      <4> DEFINE u == cmd[c].cur.unit
      <4>2. cmd[c].cur \in RunPlan /\ cmd[c].number \in Number /\ u \in Unit /\ cmd[c].cur.run \in Run
        BY <3>1, <3>7 DEF Call, WellFormed, HasRun, RunPlan
      <4>3. a \in Attempt(u) /\ a \in AnyAttempt /\ a.bill \in Nat /\ a.kind \in Kind /\ a.cold \in BOOLEAN
        BY <4>2, BoundAssumption DEF Outcome, Completed, Dropped, AnyAttempt, Attempt
      <4>4. Paid(c, a) \in [path : Path, kind : Kind]
        BY <4>2, <4>3, AttemptAssumption DEF Paid, RunPath, Path, Number
      <4>5. /\ cmd[c].billed + a.bill \in Nat
            /\ cmd[c].paid \cup {Paid(c, a)} \subseteq [path : Path, kind : Kind]
            /\ (IF a.cold THEN cmd[c].coldCalls + 1 ELSE cmd[c].coldCalls) \in Nat
        BY <3>1, <4>3, <4>4 DEF WellFormed, CmdState
      <4>6. WellFormed([cmd[c] EXCEPT !.pc = "exists", !.att = a,
                     !.billed = @ + a.bill, !.paid = @ \cup {Paid(c, a)},
                     !.coldCalls = IF a.cold THEN @ + 1 ELSE @])
        <5> HIDE DEF Paid
        <5> QED
          BY <3>1, <4>2, <4>3, <4>5 DEF WellFormed, CmdState, PC, HasRun, HasAttempt
      <4> QED
        BY <3>1, <3>7, <4>1, <4>6, LocalStep DEF Call
    <3>8. CASE WriteExists(c)
      <4> DEFINE s == IF Exists(PathOf(c)) THEN [cmd[c] EXCEPT !.pc = "account", !.lost = TRUE]
                                           ELSE [cmd[c] EXCEPT !.pc = "open"]
      <4>1. WellFormed(s)
        BY <3>1, <3>8 DEF WriteExists, WellFormed, CmdState, PC, HasRun, HasAttempt
      <4>2. Become(c, s) /\ files' = files
        BY <3>8 DEF WriteExists
      <4> QED
        BY <3>1, <4>1, <4>2, LocalStep
    <3>9. CASE WriteOpen(c)
      <4>1. files' \in [Path -> File]
        BY <3>1, <3>9 DEF WriteOpen, File, WellFormed, CmdState
      <4>2. WellFormed([cmd[c] EXCEPT !.pc = "write"])
        BY <3>1, <3>9 DEF WriteOpen, WellFormed, CmdState, PC, HasRun, HasAttempt
      <4> QED
        BY <3>9, <4>1, <4>2, LocalStep DEF WriteOpen
    <3>10. CASE WriteText(c)
      <4>1. cmd[c].att.kind \in Kind
        BY <3>1, <3>10 DEF WriteText, WellFormed, HasAttempt, Attempt
      <4>2. files' \in [Path -> File]
        BY <3>1, <3>10, <4>1 DEF WriteText, BuildArtifact, File, WellFormed, CmdState
      <4>3. WellFormed([cmd[c] EXCEPT !.pc = "account"])
        BY <3>1, <3>10 DEF WriteText, WellFormed, CmdState, PC, HasRun, HasAttempt
      <4> QED
        BY <3>10, <4>2, <4>3, LocalStep DEF WriteText
    <3>11. CASE WriteFails(c)
      <4>1. WellFormed([cmd[c] EXCEPT !.pc = "account", !.lost = TRUE])
        BY <3>1, <3>11 DEF WriteFails, WellFormed, CmdState, PC, HasRun, HasAttempt
      <4> QED
        BY <3>1, <3>11, <4>1, LocalStep DEF WriteFails
    <3>12. ASSUME cmd[c].pc = "account"
           PROVE  /\ Counted(c) \in Nat /\ ModelFailures(c) \in Nat
                  /\ cmd[c].reported \/ cmd[c].att.reported \in BOOLEAN
      <4>1. cmd[c].cur.unit \in Unit /\ cmd[c].att \in Attempt(cmd[c].cur.unit)
        BY <3>1, <3>12 DEF WellFormed, HasRun, HasAttempt, RunPlan
      <4>2. AttemptCost(cmd[c].cur.unit, cmd[c].att) \in Nat
        BY <4>1, CostType
      <4> QED
        BY <3>1, <4>1, <4>2 DEF WellFormed, CmdState, Counted, ModelFailures, Attempt
    <3>13. CASE Settle(c)
      <4>1. WellFormed([cmd[c] EXCEPT !.pc = "take", !.total = Counted(c),
                          !.reported = @ \/ cmd[c].att.reported, !.att = None])
        BY <3>1, <3>12, <3>13 DEF Settle, WellFormed, CmdState, PC, HasRun, HasAttempt
      <4> QED
        BY <3>1, <3>13, <4>1, LocalStep DEF Settle
    <3>14. CASE Retry(c)
      <4>1. cmd[c].number + 1 \in Number
        BY <3>1, <3>14, AttemptAssumption
           DEF Retry, WellFormed, HasRun, RunPlan, Number, RETRIES, ATTEMPTS_PER_COMMAND
      <4>2. cmd[c].cur \in RunPlan /\ cmd[c].number + 1 \in Nat
        BY <3>1, <3>14, <4>1 DEF Retry, WellFormed, HasRun, Number
      <4>3. cmd[c].pc = "account"
        BY <3>14 DEF Retry
      <4>4. WellFormed([cmd[c] EXCEPT !.pc = "check", !.total = Counted(c),
                          !.reported = @ \/ cmd[c].att.reported, !.att = None,
                          !.mf = ModelFailures(c), !.number = @ + 1])
        BY <3>1, <3>12, <4>1, <4>2, <4>3 DEF WellFormed, CmdState, PC, HasRun, HasAttempt
      <4> QED
        BY <3>1, <3>14, <4>4, LocalStep DEF Retry
    <3> QED
      BY <2>2, <3>2, <3>3, <3>4, <3>5, <3>6, <3>7, <3>8, <3>9, <3>10, <3>11, <3>13, <3>14
         DEF Step, Write, Account, Finish, StopPaid, StopUnsettled, Crash
  <2> QED
    BY <2>1, <2>2 DEF Next
<1> QED
  BY <1>1, <1>2, PTL DEF Spec
-----------------------------------------------------------------------------
(* Spending.                                                                   *)

(* The guard's figures, against what the provider has billed: between attempts the
   total covers the bill; from the check on, one more bound still fits; while an attempt
   is not yet accounted for, its cost by the guard's rule covers its bill.             *)
SpendInv(s) ==
    /\ s.pc \in {"idle", "preflight", "take", "check", "call"} => s.billed <= s.total
    /\ s.pc \in {"idle", "preflight", "take", "check"} => s.total <= s.ceiling
    /\ s.pc \in {"call"} \cup HasAttempt => s.total + Bound[s.cur.unit] <= s.ceiling
    /\ s.pc \in HasAttempt => s.billed <= s.total + AttemptCost(s.cur.unit, s.att)

Spending == \A c \in Cmd : SpendInv(cmd[c])

\* A command that moves to a state within its ceiling leaves the others within theirs.
LEMMA SpendStep ==
    ASSUME TypeOK, Spending, NEW c \in Cmd, NEW s, SpendInv(s), Become(c, s)
    PROVE  Spending'
  BY DEF TypeOK, Spending, Become

\* An idle command has spent nothing.
LEMMA SpendIdle == SpendInv(Idle)
  BY DEF SpendInv, Idle, HasAttempt

\* A call is billed at most what the guard counts it at, and that at most its bound.
LEMMA CallBill ==
    ASSUME NEW u \in Unit, NEW a \in Outcome(u)
    PROVE  a \in Attempt(u) /\ a.bill \in Nat /\ a.bill <= AttemptCost(u, a)
  <1>1. a \in Attempt(u) /\ a.bill \in Nat /\ a.bill <= Bound[u]
    BY BoundAssumption DEF Outcome, Completed, Dropped, Attempt
  <1>2. a.kind # "transport" => a.usage = a.bill
    BY DEF Outcome, Completed, Dropped
  <1> QED
    BY <1>1, <1>2 DEF AttemptCost

(* The invariant gives the property.                                           *)
LEMMA SpendingSuffices == TypeOK /\ Spending => SpendWithinCeiling
  <1> SUFFICES ASSUME TypeOK, Spending, NEW c \in Cmd PROVE cmd[c].billed <= cmd[c].ceiling
    BY DEF SpendWithinCeiling
  <1>1. SpendInv(cmd[c]) /\ WellFormed(cmd[c]) /\ cmd[c].total \in Nat /\ cmd[c].billed \in Nat
         /\ cmd[c].ceiling \in Nat /\ cmd[c].pc \in PC
    BY DEF Spending, TypeOK, WellFormed, CmdState
  <1>2. CASE cmd[c].pc \in {"idle", "preflight", "take", "check"}
    BY <1>1, <1>2 DEF SpendInv
  <1>3. CASE cmd[c].pc \in {"call"} \cup HasAttempt
    <2>1. cmd[c].cur.unit \in Unit /\ Bound[cmd[c].cur.unit] \in Nat
      BY <1>1, <1>3, BoundAssumption DEF WellFormed, HasRun, HasAttempt, RunPlan
    <2>2. cmd[c].pc \in HasAttempt => /\ AttemptCost(cmd[c].cur.unit, cmd[c].att) \in Nat
                                    /\ AttemptCost(cmd[c].cur.unit, cmd[c].att) <= Bound[cmd[c].cur.unit]
      BY <1>1, <2>1, CostType DEF WellFormed
    <2> QED
      BY <1>1, <1>3, <2>1, <2>2 DEF SpendInv
  <1> QED
    BY <1>1, <1>2, <1>3 DEF PC, HasAttempt

\* Every step keeps every command within its ceiling.
LEMMA SpendingStep == TypeOK /\ Spending /\ [Next]_vars => Spending'
<1> SUFFICES ASSUME TypeOK, Spending, [Next]_vars PROVE Spending'
  OBVIOUS
<1>1. CASE UNCHANGED vars
  BY <1>1 DEF vars, Spending
<1>2. ASSUME NEW c \in Cmd, Start(c) \/ Step(c) \/ WriteFails(c) \/ Crash(c)
      PROVE  Spending'
  <2>1. SpendInv(cmd[c]) /\ WellFormed(cmd[c])
    BY DEF Spending, TypeOK
  <2>2. cmd[c] \in CmdState /\ cmd[c].total \in Nat /\ cmd[c].billed \in Nat /\ cmd[c].ceiling \in Nat
    BY <2>1 DEF WellFormed, CmdState
  <2>3. cmd[c].pc \in HasRun => cmd[c].cur.unit \in Unit /\ Bound[cmd[c].cur.unit] \in Nat
    BY <2>1, BoundAssumption DEF WellFormed, RunPlan
  <2>4. CASE Start(c)
    <3>1. ASSUME NEW owed, NEW pc \in {"take", "preflight"}, NEW ceiling \in Ceilings, NEW k
          PROVE  SpendInv([Idle EXCEPT !.pc = pc, !.owed = owed, !.ceiling = ceiling, !.conf = k])
      BY CeilingAssumption DEF SpendInv, Idle, HasAttempt
    <3>2. ASSUME NEW targets, NEW owed, NEW pc \in {"take", "preflight"}, NEW ceiling \in Ceilings,
                 NEW k, Begin(c, targets, owed, pc, ceiling, k)
          PROVE  Spending'
      BY <3>1, <3>2, SpendStep DEF Begin
    <3> QED
      BY <2>4, <3>2 DEF Start, StartFresh, StartResume
  <2>5. CASE Stop(c)
    BY <2>5, SpendIdle, SpendStep DEF Stop
  <2>6. CASE ResumePreflight(c)
    <3>1. cmd[c].pc = "preflight" => SpendInv([cmd[c] EXCEPT !.pc = "take"])
      BY <2>1, <2>2 DEF SpendInv, HasAttempt, CmdState
    <3> QED
      BY <2>5, <2>6, <3>1, SpendStep DEF ResumePreflight
  <2>7. CASE TakeRun(c)
    <3>1. PICK p : Become(c, [cmd[c] EXCEPT !.pc = "check", !.owed = @ \ {p},
                        !.cur = p, !.number = p.first, !.mf = p.mf])
      BY <2>7 DEF TakeRun
    <3>2. SpendInv([cmd[c] EXCEPT !.pc = "check", !.owed = @ \ {p},
                        !.cur = p, !.number = p.first, !.mf = p.mf])
      BY <2>1, <2>2, <2>7 DEF TakeRun, SpendInv, HasAttempt, CmdState
    <3> QED
      BY <3>1, <3>2, SpendStep
  <2>8. CASE Check(c)
    <3>1. cmd[c].pc = "check" /\ MayCall(c) => SpendInv([cmd[c] EXCEPT !.pc = "call"])
      BY <2>1, <2>2 DEF MayCall, SpendInv, HasAttempt, CmdState
    <3> QED
      BY <2>5, <2>8, <3>1, SpendStep DEF Check
  <2>9. CASE Call(c)
    <3> DEFINE u == cmd[c].cur.unit
    <3>1. PICK a \in Outcome(u) :
            Become(c, [cmd[c] EXCEPT !.pc = "exists", !.att = a,
                     !.billed = @ + a.bill, !.paid = @ \cup {Paid(c, a)},
                     !.coldCalls = IF a.cold THEN @ + 1 ELSE @])
      BY <2>9 DEF Call
    <3>2. u \in Unit /\ Bound[u] \in Nat /\ cmd[c].pc = "call"
      BY <2>3, <2>9 DEF Call, HasRun
    <3>3. a.bill \in Nat /\ a.bill <= AttemptCost(u, a) /\ AttemptCost(u, a) \in Nat
      BY <3>2, CallBill, CostType
    <3> DEFINE s == [cmd[c] EXCEPT !.pc = "exists", !.att = a,
                     !.billed = @ + a.bill, !.paid = @ \cup {Paid(c, a)},
                     !.coldCalls = IF a.cold THEN @ + 1 ELSE @]
    <3>4. /\ s.pc = "exists" /\ s.att = a /\ s.cur = cmd[c].cur /\ s.total = cmd[c].total
          /\ s.ceiling = cmd[c].ceiling /\ s.billed = cmd[c].billed + a.bill
      BY <2>2 DEF CmdState
    <3>5. SpendInv(s)
      <4> HIDE DEF s
      <4>1. cmd[c].billed <= cmd[c].total /\ cmd[c].total + Bound[u] <= cmd[c].ceiling
        BY <2>1, <3>2 DEF SpendInv
      <4>2. s.billed <= s.total + AttemptCost(s.cur.unit, s.att)
        BY <2>2, <3>3, <3>4, <4>1
      <4> QED
        BY <3>4, <4>1, <4>2 DEF SpendInv, HasAttempt
    <3> QED
      BY <3>1, <3>5, SpendStep
  <2>10. ASSUME NEW s, s.total = cmd[c].total, s.billed = cmd[c].billed, s.ceiling = cmd[c].ceiling,
                s.cur = cmd[c].cur, s.att = cmd[c].att, s.pc \in HasAttempt, cmd[c].pc \in HasAttempt
         PROVE  SpendInv(s)
    BY <2>1, <2>10 DEF SpendInv, HasAttempt
  <2>11. CASE Write(c) \/ WriteFails(c)
    <3>1. PICK s : /\ Become(c, s)
                   /\ s \in {[cmd[c] EXCEPT !.pc = "open"], [cmd[c] EXCEPT !.pc = "write"],
                             [cmd[c] EXCEPT !.pc = "account"],
                             [cmd[c] EXCEPT !.pc = "account", !.lost = TRUE]}
                   /\ cmd[c].pc \in HasAttempt
      BY <2>11 DEF Write, WriteExists, WriteOpen, WriteText, WriteFails, HasAttempt
    <3>2. /\ s.total = cmd[c].total /\ s.billed = cmd[c].billed /\ s.ceiling = cmd[c].ceiling
          /\ s.cur = cmd[c].cur /\ s.att = cmd[c].att /\ s.pc \in HasAttempt
      BY ZenonT(60), <2>2, <3>1 DEF CmdState, HasAttempt
    <3> QED
      BY <2>10, <3>1, <3>2, SpendStep
  <2>12. CASE Settle(c) \/ Retry(c)
    <3>1. PICK s : Become(c, s) /\ s.pc \in {"take", "check"} /\ s.total = Counted(c)
                   /\ s.billed = cmd[c].billed /\ s.ceiling = cmd[c].ceiling
      <4>1. CASE Settle(c)
        <5> DEFINE s == [cmd[c] EXCEPT !.pc = "take", !.total = Counted(c),
                  !.reported = @ \/ cmd[c].att.reported, !.att = None]
        <5>1. Become(c, s) /\ s.pc = "take" /\ s.total = Counted(c) /\ s.billed = cmd[c].billed
              /\ s.ceiling = cmd[c].ceiling
          BY <2>2, <4>1 DEF Settle, CmdState
        <5> QED
          BY <5>1
      <4>2. CASE Retry(c)
        <5> DEFINE s == [cmd[c] EXCEPT !.pc = "check", !.total = Counted(c),
                  !.reported = @ \/ cmd[c].att.reported, !.att = None,
                  !.mf = ModelFailures(c), !.number = @ + 1]
        <5>1. Become(c, s) /\ s.pc = "check" /\ s.total = Counted(c) /\ s.billed = cmd[c].billed
              /\ s.ceiling = cmd[c].ceiling
          BY <2>2, <4>2 DEF Retry, CmdState
        <5> QED
          BY <5>1
      <4> QED
        BY <2>12, <4>1, <4>2
    <3>2. cmd[c].pc = "account" /\ cmd[c].att \in Attempt(cmd[c].cur.unit)
      BY <2>1, <2>12 DEF Settle, Retry, WellFormed, HasAttempt
    <3>3. /\ AttemptCost(cmd[c].cur.unit, cmd[c].att) \in Nat
          /\ AttemptCost(cmd[c].cur.unit, cmd[c].att) <= Bound[cmd[c].cur.unit]
          /\ Bound[cmd[c].cur.unit] \in Nat
      BY <2>3, <3>2, CostType DEF HasRun
    <3>4. s.billed <= s.total /\ s.total <= s.ceiling
      BY <2>1, <2>2, <3>1, <3>2, <3>3 DEF SpendInv, Counted, HasAttempt
    <3>5. SpendInv(s)
      BY <3>1, <3>4 DEF SpendInv, HasAttempt
    <3> QED
      BY <3>1, <3>5, SpendStep
  <2> QED
    BY <1>2, <2>4, <2>5, <2>6, <2>7, <2>8, <2>9, <2>11, <2>12
       DEF Step, Account, Finish, StopPaid, StopUnsettled, Crash
<1> QED
  BY <1>1, <1>2 DEF Next

(* What the provider bills a command stays within its ceiling, for every number of
   commands over the directory, every bound and every way a call can fail.            *)
THEOREM SpendIsBounded == Spec => []SpendWithinCeiling
<1>1. Init => Spending
  BY SpendIdle DEF Init, Spending
<1>2. TypeOK /\ TypeOK' /\ Spending /\ [Next]_vars => Spending'
  BY SpendingStep
<1> QED
  BY <1>1, <1>2, TypeInvariant, SpendingSuffices, PTL DEF Spec
-----------------------------------------------------------------------------
(* The order of the artifacts.                                                 *)

(* The paths in use.                                                           *)
Here == {p \in Path : Exists(p)}

(* Attempts are contiguous, and runs in order, among the paths E.              *)
DirInv(E) ==
    \A u \in Unit, r \in Run, n \in 0 .. MaxAttempt : <<u, r, n>> \in E =>
        /\ n > 1 => <<u, r, n - 1>> \in E
        /\ r > 1 => <<u, r - 1, 0>> \in E

Active(s) == s.owed \cup (IF s.pc \in HasRun THEN {s.cur} ELSE {})

(* A command's plan, against the paths E: the run before one it owes is settled or owed
   too, and the attempt before one it would make is there; the run in hand has both,
   and an attempt it has opened is there.                                              *)
PlanInv(s, E) ==
    /\ \A p \in Active(s) :
          /\ p.run > 1 => \/ <<p.unit, p.run - 1, 0>> \in E
                         \/ \E q \in Active(s) : q.unit = p.unit /\ q.run = p.run - 1
          /\ p.first > 1 => <<p.unit, p.run, p.first - 1>> \in E
    /\ s.pc \in HasRun =>
          /\ s.cur.run > 1 => <<s.cur.unit, s.cur.run - 1, 0>> \in E
          /\ s.number > 1 => <<s.cur.unit, s.cur.run, s.number - 1>> \in E
    /\ s.pc = "write" \/ (s.pc = "account" /\ ~s.lost) =>
          RunPath(s.cur.unit, s.cur.run, s.number, s.att) \in E

Order == DirInv(Here) /\ \A c \in Cmd : PlanInv(cmd[c], Here)

\* A plan that fits the directory still fits when paths are added.
LEMMA PlanGrows ==
    ASSUME NEW s, NEW E, NEW F, E \subseteq F, PlanInv(s, E) PROVE PlanInv(s, F)
  BY DEF PlanInv

\* The two parts of ResumableDirectory are DirInv over every path.
LEMMA OrderSuffices == Order => ContiguousAttempts /\ RunsInOrder
  <1> SUFFICES ASSUME Order PROVE ContiguousAttempts /\ RunsInOrder
    OBVIOUS
  <1>1. \A u \in Unit, r \in Run, n \in 0 .. MaxAttempt : <<u, r, n>> \in Path
    BY DEF Path
  <1>2. \A n \in Number : n \in 0 .. MaxAttempt
    BY AttemptAssumption DEF Number
  <1>3. 0 \in 0 .. MaxAttempt
    BY AttemptAssumption
  <1>4. ContiguousAttempts
    BY <1>1, <1>2 DEF Order, DirInv, Here, ContiguousAttempts
  <1>5. RunsInOrder
    BY <1>1, <1>2, <1>3 DEF Order, DirInv, Here, RunsInOrder, Settled, Failed
  <1> QED
    BY <1>4, <1>5

(* A step of c that leaves the directory, or adds the path of c's run to it.   *)
LEMMA OrderQuiet ==
    ASSUME TypeOK, Order, NEW c \in Cmd, NEW s, Become(c, s), files' = files, PlanInv(s, Here)
    PROVE  Order'
  <1>1. Here' = Here
    BY DEF Here, Exists
  <1> QED
    BY <1>1 DEF Order, TypeOK, Become

\* A write adds one path, whose predecessors the plan of its writer holds.
LEMMA OrderWrites ==
    ASSUME TypeOK, Order, NEW c \in Cmd, NEW s, Become(c, s),
           cmd[c].pc \in {"open", "write"},
           NEW p \in Path, p = RunPath(cmd[c].cur.unit, cmd[c].cur.run, cmd[c].number, cmd[c].att),
           Here' = Here \cup {p}, PlanInv(s, Here')
    PROVE  Order'
  <1>1. PlanInv(cmd[c], Here) /\ WellFormed(cmd[c]) /\ cmd[c].pc \in HasRun
    BY DEF Order, TypeOK, HasRun
  <1>2. /\ cmd[c].cur.unit \in Unit /\ cmd[c].cur.run \in Run /\ cmd[c].number \in Number
        /\ \/ p = <<cmd[c].cur.unit, cmd[c].cur.run, 0>>
           \/ p = <<cmd[c].cur.unit, cmd[c].cur.run, cmd[c].number>>
    BY <1>1 DEF WellFormed, RunPlan, RunPath
  <1>3. DirInv(Here')
    <2> SUFFICES ASSUME NEW u \in Unit, NEW r \in Run, NEW n \in 0 .. MaxAttempt, <<u, r, n>> \in Here'
                 PROVE  /\ n > 1 => <<u, r, n - 1>> \in Here'
                        /\ r > 1 => <<u, r - 1, 0>> \in Here'
      BY DEF DirInv
    <2>1. CASE <<u, r, n>> \in Here
      BY <2>1 DEF Order, DirInv
    <2>2. CASE <<u, r, n>> = p
      <3>1. u = cmd[c].cur.unit /\ r = cmd[c].cur.run /\ (n = 0 \/ n = cmd[c].number)
        <4>1. p[1] = u /\ p[2] = r /\ p[3] = n
          BY <2>2
        <4>2. p[1] = cmd[c].cur.unit /\ p[2] = cmd[c].cur.run /\ (p[3] = 0 \/ p[3] = cmd[c].number)
          BY <1>2
        <4> QED
          BY <4>1, <4>2
      <3>2. /\ cmd[c].cur.run > 1 => <<cmd[c].cur.unit, cmd[c].cur.run - 1, 0>> \in Here
            /\ cmd[c].number > 1 =>
                  <<cmd[c].cur.unit, cmd[c].cur.run, cmd[c].number - 1>> \in Here
        BY <1>1 DEF PlanInv
      <3>3. /\ r > 1 => <<u, r - 1, 0>> \in Here
            /\ n = cmd[c].number /\ n > 1 => <<u, r, n - 1>> \in Here
        BY <3>1, <3>2
      <3>4. n = 0 => ~(n > 1)
        OBVIOUS
      <3> QED
        BY <3>1, <3>3, <3>4
    <2> QED
      BY <2>1, <2>2
  <1>4. \A d \in Cmd : PlanInv(cmd'[d], Here')
    <2> SUFFICES ASSUME NEW d \in Cmd PROVE PlanInv(cmd'[d], Here')
      OBVIOUS
    <2>1. CASE d = c
      BY <2>1 DEF Become, TypeOK
    <2>2. CASE d # c
      <3>1. cmd'[d] = cmd[d] /\ PlanInv(cmd[d], Here)
        BY <2>2 DEF Become, TypeOK, Order
      <3> QED
        BY <3>1, PlanGrows
    <2> QED
      BY <2>1, <2>2
  <1> QED
    BY <1>3, <1>4 DEF Order

\* A command that owes nothing fits any directory.
LEMMA OrderIdle == ASSUME NEW E PROVE PlanInv(Idle, E)
  BY DEF PlanInv, Idle, Active, HasRun

(* The plans of a fresh command and of a resume.                               *)
LEMMA FreshOrder ==
    ASSUME NEW targets \in SUBSET Unit, NEW s,
           s.pc = "take", s.owed = UNION {FreshRuns(u) : u \in targets}
    PROVE  PlanInv(s, Here)
  <1>1. Active(s) = s.owed
    BY DEF Active, HasRun
  <1>2. ASSUME NEW p \in s.owed
        PROVE  /\ p.first = 1
               /\ p.run > 1 => \E q \in s.owed : q.unit = p.unit /\ q.run = p.run - 1
    <2>1. PICK u \in targets : p \in FreshRuns(u)
      OBVIOUS
    <2>2. p.first = 1 /\ p.unit = u /\ p.run \in Run
      BY <2>1 DEF FreshRuns
    <2> DEFINE q == [unit |-> u, run |-> p.run - 1, first |-> 1, mf |-> 0]
    <2>3. ASSUME p.run > 1 PROVE q \in s.owed
      <3>1. p.run - 1 \in Run
        BY <2>2, <2>3, RunsAssumption DEF Run
      <3> QED
        BY <3>1 DEF FreshRuns
    <2> QED
      BY <2>2, <2>3
  <1> QED
    BY <1>1, <1>2 DEF PlanInv, HasRun

\* What a resume owes fits the directory it was planned from.
LEMMA ResumeOrder ==
    ASSUME NEW targets \in SUBSET Unit, NEW s, \A u \in targets : Resumable(u),
           \A u \in targets : \A p \in OwedRuns(u) : p.first + RETRIES <= MaxAttempt,
           s.pc = "preflight", s.owed = UNION {OwedRuns(u) : u \in targets}
    PROVE  PlanInv(s, Here)
  <1>1. Active(s) = s.owed
    BY DEF Active, HasRun
  <1>2. ASSUME NEW p \in s.owed
        PROVE  /\ p.first > 1 => <<p.unit, p.run, p.first - 1>> \in Here
               /\ p.run > 1 => \/ <<p.unit, p.run - 1, 0>> \in Here
                              \/ \E q \in s.owed : q.unit = p.unit /\ q.run = p.run - 1
    <2>1. PICK u \in targets : p \in OwedRuns(u)
      OBVIOUS
    <2>2. PICK r \in Run : p = [unit |-> u, run |-> r, first |-> Cardinality(Failed(u, r)) + 1,
                              mf |-> Cardinality(ModelFailed(u, r))]
      BY <2>1 DEF OwedRuns
    <2>3. p.first > 1 => <<p.unit, p.run, p.first - 1>> \in Here
      <3> DEFINE k == Cardinality(Failed(u, r))
      <3>1. k \in Nat /\ Failed(u, r) = 1 .. k
        BY FailedFinite DEF Resumable, Parses
      <3>2. p.first > 1 => k \in Failed(u, r)
        BY <2>2, <3>1
      <3>3. k \in Failed(u, r) => <<u, r, k>> \in Here
        BY AttemptAssumption DEF Failed, Here, Path, Number
      <3> HIDE DEF k
      <3>4. p.first - 1 = k /\ p.unit = u /\ p.run = r
        BY <2>2, <3>1 DEF k
      <3> QED
        BY <3>2, <3>3, <3>4
    <2>4. ASSUME p.run > 1
          PROVE  \/ <<p.unit, p.run - 1, 0>> \in Here
                 \/ \E q \in s.owed : q.unit = p.unit /\ q.run = p.run - 1
      <3>1. r - 1 \in Run /\ p.run = r /\ p.unit = u
        BY <2>2, <2>4, RunsAssumption DEF Run
      <3>2. CASE Settled(u, r - 1)
        BY <3>1, <3>2, AttemptAssumption DEF Settled, Here, Path
      <3>3. CASE ~Settled(u, r - 1)
        <4> DEFINE q == [unit |-> u, run |-> r - 1, first |-> Cardinality(Failed(u, r - 1)) + 1,
                         mf |-> Cardinality(ModelFailed(u, r - 1))]
        <4>1. q \in OwedRuns(u)
          BY <3>1, <3>3 DEF OwedRuns
        <4>2. q \in s.owed /\ q.unit = u /\ q.run = r - 1
          BY <4>1
        <4> QED
          BY <3>1, <4>2
      <3> QED
        BY <3>2, <3>3
    <2> QED
      BY <2>3, <2>4
  <1> QED
    BY <1>1, <1>2 DEF PlanInv, HasRun

(* A command that moves on within the same run keeps its plan.                 *)
LEMMA SamePlan ==
    ASSUME NEW E, NEW t, NEW s, PlanInv(t, E), s.owed = t.owed, s.cur = t.cur, s.number = t.number,
           s.pc \in HasRun <=> t.pc \in HasRun, s.pc # "write", s.pc = "account" => s.lost
    PROVE  PlanInv(s, E)
  BY DEF PlanInv, Active

\* The attempt in hand has a path.
LEMMA PathType ==
    ASSUME NEW s, WellFormed(s), s.pc \in HasAttempt
    PROVE  RunPath(s.cur.unit, s.cur.run, s.number, s.att) \in Path
  BY AttemptAssumption DEF WellFormed, HasAttempt, HasRun, RunPlan, Path, RunPath, Number

\* Every step keeps the directory and every plan in order.
LEMMA OrderStep == TypeOK /\ Order /\ [Next]_vars => Order'
<1> SUFFICES ASSUME TypeOK, Order, [Next]_vars PROVE Order'
  OBVIOUS
<1>1. CASE UNCHANGED vars
  BY <1>1 DEF vars, Order, Here, Exists
<1>2. ASSUME NEW c \in Cmd, Start(c) \/ Step(c) \/ WriteFails(c) \/ Crash(c)
      PROVE  Order'
  <2> DEFINE t == cmd[c]
  <2>1. PlanInv(t, Here) /\ WellFormed(t) /\ t \in CmdState
    BY DEF Order, TypeOK
  <2>2. CASE Start(c)
    <3>1. ASSUME NEW targets \in (SUBSET Unit) \ {{}}, NEW ceiling \in Ceilings, NEW k \in Conf,
                 StartFresh(c, targets, ceiling, k)
          PROVE  Order'
      <4> DEFINE s == [Idle EXCEPT !.pc = "take", !.owed = UNION {FreshRuns(u) : u \in targets},
                                   !.ceiling = ceiling, !.conf = k]
      <4>1. s.pc = "take" /\ s.owed = UNION {FreshRuns(u) : u \in targets}
        BY DEF Idle
      <4>2. PlanInv(s, Here)
        <5> HIDE DEF s
        <5> QED
          BY <4>1, FreshOrder
      <4> QED
        BY <3>1, <4>2, OrderQuiet DEF StartFresh, Begin
    <3>2. ASSUME NEW targets \in (SUBSET Unit) \ {{}}, NEW ceiling \in Ceilings, NEW k \in Conf,
                 StartResume(c, targets, ceiling, k)
          PROVE  Order'
      <4> DEFINE s == [Idle EXCEPT !.pc = "preflight", !.owed = UNION {OwedRuns(u) : u \in targets},
                                   !.ceiling = ceiling, !.conf = k]
      <4>1. s.pc = "preflight" /\ s.owed = UNION {OwedRuns(u) : u \in targets}
        BY DEF Idle
      <4>2. PlanInv(s, Here)
        <5> HIDE DEF s
        <5> QED
          BY <3>2, <4>1, ResumeOrder DEF StartResume
      <4> QED
        BY <3>2, <4>2, OrderQuiet DEF StartResume, Begin
    <3> QED
      BY <2>2, <3>1, <3>2 DEF Start
  <2>3. CASE Stop(c) /\ UNCHANGED files
    BY <2>3, OrderIdle, OrderQuiet DEF Stop
  <2>4. CASE ResumePreflight(c)
    <3> DEFINE s == [t EXCEPT !.pc = "take"]
    <3>1. s.pc = "take" /\ s.owed = t.owed /\ s.cur = t.cur /\ s.number = t.number
      BY <2>1 DEF CmdState
    <3>2. t.pc = "preflight" => PlanInv(s, Here)
      <4> HIDE DEF s
      <4> QED
        BY <2>1, <3>1, SamePlan DEF HasRun
    <3> QED
      BY <2>3, <2>4, <3>2, OrderQuiet DEF ResumePreflight
  <2>5. CASE TakeRun(c)
    <3>1. PICK p \in t.owed :
            /\ \A q \in t.owed : q.unit = p.unit => p.run <= q.run
            /\ Become(c, [t EXCEPT !.pc = "check", !.owed = @ \ {p},
                        !.cur = p, !.number = p.first, !.mf = p.mf])
      BY <2>5 DEF TakeRun
    <3> DEFINE s == [t EXCEPT !.pc = "check", !.owed = @ \ {p},
                        !.cur = p, !.number = p.first, !.mf = p.mf]
    <3>2. s.pc = "check" /\ s.owed = t.owed \ {p} /\ s.cur = p /\ s.number = p.first
      BY <2>1 DEF CmdState
    <3>3. Active(s) = t.owed /\ Active(t) = t.owed
      <4> HIDE DEF s
      <4> QED
        BY <2>5, <3>1, <3>2 DEF Active, HasRun, TakeRun
    <3>4. \A q \in t.owed : q.run \in Int
      BY <2>1 DEF CmdState, RunPlan, Run
    <3>5. p.run > 1 => <<p.unit, p.run - 1, 0>> \in Here
      <4>1. \A q \in t.owed : q.unit = p.unit => p.run <= q.run
        BY <3>1
      <4>2. p.run > 1 => \/ <<p.unit, p.run - 1, 0>> \in Here
                         \/ \E q \in t.owed : q.unit = p.unit /\ q.run = p.run - 1
        BY <2>1, <3>3 DEF PlanInv
      <4> QED
        BY <3>4, <4>1, <4>2
    <3>6. p.first > 1 => <<p.unit, p.run, p.first - 1>> \in Here
      BY <2>1, <3>1, <3>3 DEF PlanInv
    <3>7. PlanInv(s, Here)
      <4> HIDE DEF s
      <4> QED
        BY <2>1, <3>2, <3>3, <3>5, <3>6 DEF PlanInv
    <3> QED
      BY <2>5, <3>1, <3>7, OrderQuiet DEF TakeRun
  <2>6. CASE Check(c)
    <3> DEFINE s == [t EXCEPT !.pc = "call"]
    <3>1. s.pc = "call" /\ s.owed = t.owed /\ s.cur = t.cur /\ s.number = t.number
      BY <2>1 DEF CmdState
    <3>2. t.pc = "check" => PlanInv(s, Here)
      <4> HIDE DEF s
      <4> QED
        BY <2>1, <3>1, SamePlan DEF HasRun
    <3> QED
      BY <2>3, <2>6, <3>2, OrderQuiet DEF Check
  <2>7. CASE Call(c)
    <3>1. PICK a : Become(c, [t EXCEPT !.pc = "exists", !.att = a,
                     !.billed = @ + a.bill, !.paid = @ \cup {Paid(c, a)},
                     !.coldCalls = IF a.cold THEN @ + 1 ELSE @])
      BY <2>7 DEF Call
    <3> DEFINE s == [t EXCEPT !.pc = "exists", !.att = a,
                     !.billed = @ + a.bill, !.paid = @ \cup {Paid(c, a)},
                     !.coldCalls = IF a.cold THEN @ + 1 ELSE @]
    <3>2. s.pc = "exists" /\ s.owed = t.owed /\ s.cur = t.cur /\ s.number = t.number
      BY <2>1 DEF CmdState
    <3>3. PlanInv(s, Here)
      <4> HIDE DEF s
      <4> QED
        BY <2>1, <2>7, <3>2, SamePlan DEF HasRun, Call
    <3> QED
      BY <2>7, <3>1, <3>3, OrderQuiet DEF Call
  <2>8. CASE WriteExists(c) \/ WriteFails(c)
    <3>1. PICK s \in {[t EXCEPT !.pc = "open"], [t EXCEPT !.pc = "account", !.lost = TRUE]} :
            Become(c, s)
      BY <2>8 DEF WriteExists, WriteFails
    <3>2. /\ s.owed = t.owed /\ s.cur = t.cur /\ s.number = t.number
          /\ s.pc = "open" \/ (s.pc = "account" /\ s.lost)
      BY <2>1, <3>1 DEF CmdState
    <3>3. t.pc \in HasRun
      BY <2>8 DEF WriteExists, WriteFails, HasRun
    <3>4. PlanInv(s, Here)
      BY <2>1, <3>2, <3>3, SamePlan DEF HasRun
    <3> QED
      BY <2>8, <3>1, <3>4, OrderQuiet DEF WriteExists, WriteFails
  <2>9. CASE WriteOpen(c) \/ WriteText(c)
    <3>1. t.pc \in {"open", "write"} /\ PathOf(c) = RunPath(t.cur.unit, t.cur.run, t.number, t.att)
      BY <2>9 DEF WriteOpen, WriteText, PathOf
    <3>2. PathOf(c) \in Path
      BY <2>1, <3>1, PathType DEF HasAttempt
    <3>3. PICK s \in {[t EXCEPT !.pc = "write"], [t EXCEPT !.pc = "account"]} : Become(c, s)
      BY <2>9 DEF WriteOpen, WriteText
    <3>4. PICK f : files' = [files EXCEPT ![PathOf(c)] = f] /\ f.kind # "absent"
      <4>1. CASE WriteOpen(c)
        <5> DEFINE g == [kind |-> "torn", conf |-> cmd[c].conf, by |-> c]
        <5>1. g.kind # "absent" /\ files' = [files EXCEPT ![PathOf(c)] = g]
          BY <4>1 DEF WriteOpen
        <5> HIDE DEF g
        <5> QED
          BY <5>1
      <4>2. CASE WriteText(c)
        <5>1. t.att.kind # "absent"
          BY <2>1, <4>2 DEF WriteText, WellFormed, HasAttempt, Attempt, Kind, FailureKind
        <5> DEFINE g == [kind |-> cmd[c].att.kind, conf |-> cmd[c].conf, by |-> c]
        <5>2. g.kind # "absent" /\ files' = [files EXCEPT ![PathOf(c)] = g]
          BY <4>2, <5>1 DEF WriteText, BuildArtifact
        <5> HIDE DEF g
        <5> QED
          BY <5>2
      <4> QED
        BY <2>9, <4>1, <4>2
    <3>5. Here' = Here \cup {PathOf(c)}
      <4>1. files \in [Path -> File]
        BY DEF TypeOK
      <4>2. files'[PathOf(c)] = f /\ \A q \in Path : q # PathOf(c) => files'[q] = files[q]
        BY <3>2, <3>4, <4>1
      <4> HIDE DEF t
      <4> QED
        BY <3>2, <3>4, <4>2 DEF Here, Exists
    <3>6. s.owed = t.owed /\ s.cur = t.cur /\ s.number = t.number /\ s.att = t.att
          /\ s.pc \in {"write", "account"}
      BY <2>1, <3>3 DEF CmdState
    <3>7. Active(s) = Active(t)
      BY <3>1, <3>6 DEF Active, HasRun
    <3>8. PlanInv(s, Here')
      <4>1. PlanInv(t, Here') /\ PathOf(c) \in Here'
        BY <2>1, <3>5, PlanGrows
      <4> QED
        BY <3>1, <3>6, <3>7, <4>1 DEF PlanInv, HasRun
    <3> QED
      BY <3>1, <3>2, <3>3, <3>5, <3>8, OrderWrites
  <2>10. CASE Settle(c)
    <3> DEFINE s == [t EXCEPT !.pc = "take", !.total = Counted(c),
                  !.reported = @ \/ cmd[c].att.reported, !.att = None]
    <3>1. s.pc = "take" /\ s.owed = t.owed
      BY <2>1 DEF CmdState
    <3>2. <<t.cur.unit, t.cur.run, 0>> \in Here
      BY <2>1, <2>10 DEF Settle, PlanInv, RunPath
    <3>3. Active(t) = t.owed \cup {t.cur}
      BY <2>10 DEF Active, HasRun, Settle
    <3>4. PlanInv(s, Here)
      <4> HIDE DEF s
      <4>1. Active(s) = t.owed
        BY <3>1 DEF Active, HasRun
      <4> QED
        BY <2>1, <3>1, <3>2, <3>3, <4>1 DEF PlanInv, HasRun
    <3> QED
      BY <2>10, <3>4, OrderQuiet DEF Settle
  <2>11. CASE Retry(c)
    <3> DEFINE s == [t EXCEPT !.pc = "check", !.total = Counted(c),
                  !.reported = @ \/ cmd[c].att.reported, !.att = None,
                  !.mf = ModelFailures(c), !.number = @ + 1]
    <3>1. s.pc = "check" /\ s.owed = t.owed /\ s.cur = t.cur /\ s.number = t.number + 1
      BY <2>1 DEF CmdState
    <3>2. <<t.cur.unit, t.cur.run, t.number>> \in Here /\ t.number \in Nat
      BY <2>1, <2>11 DEF Retry, PlanInv, RunPath, CmdState
    <3>3. Active(s) = Active(t)
      <4> HIDE DEF s
      <4> QED
        BY <2>11, <3>1 DEF Active, HasRun, Retry
    <3>4. PlanInv(s, Here)
      <4> HIDE DEF s
      <4>1. s.number - 1 = t.number
        BY <3>1, <3>2
      <4> QED
        BY <2>1, <2>11, <3>1, <3>2, <3>3, <4>1 DEF PlanInv, HasRun, Retry
    <3> QED
      BY <2>11, <3>4, OrderQuiet DEF Retry
  <2> QED
    BY <1>2, <2>2, <2>3, <2>4, <2>5, <2>6, <2>7, <2>8, <2>9, <2>10, <2>11
       DEF Step, Write, Account, Finish, StopPaid, StopUnsettled, Crash
<1> QED
  BY <1>1, <1>2 DEF Next

(* Plans and directory are in order throughout.                                *)
LEMMA OrderAlways == Spec => []Order
<1>1. Init => Order
  <2> SUFFICES ASSUME Init PROVE Order
    OBVIOUS
  <2>1. Here = {}
    BY DEF Init, Here, Exists, NoFile
  <2> QED
    BY <2>1, OrderIdle DEF Init, Order, DirInv
<1> QED
  BY <1>1, OrderStep, TypeInvariant, PTL DEF Spec

(* However many commands run, crash, retry and resume, the attempts of a run are
   contiguous on disk and its unit's runs are settled in order.                  *)
THEOREM DirectoryInOrder == Spec => []ResumableDirectory
<1>1. Order => ResumableDirectory
  BY OrderSuffices DEF ResumableDirectory
<1> QED
  BY <1>1, OrderAlways, PTL
-----------------------------------------------------------------------------
(* The cache.                                                                  *)

(* A command goes on after at most one cold call, and then it knows that a     *)
(* call reported usage; the call in hand may be one more.                      *)
ColdInv(s) ==
    /\ s.pc \in {"idle", "preflight"} => s.coldCalls = 0
    /\ s.pc \in {"take", "check", "call"} =>
          s.coldCalls <= 1 /\ (~s.reported => s.coldCalls = 0)
    /\ s.pc \in HasAttempt =>
          /\ s.att.cold => s.att.reported
          /\ s.coldCalls <= (IF s.reported THEN 1 ELSE 0) + (IF s.att.cold THEN 1 ELSE 0)
Cold == \A c \in Cmd : ColdInv(cmd[c])

\* A command that moves to a state in order leaves the others in order.
LEMMA ColdStepOf ==
    ASSUME TypeOK, Cold, NEW c \in Cmd, NEW s, ColdInv(s), Become(c, s)
    PROVE  Cold'
  BY DEF TypeOK, Cold, Become

\* An idle command has made no call.
LEMMA ColdIdle == ColdInv(Idle)
  BY DEF ColdInv, Idle, HasAttempt

(* A call that read nothing from the cache reported its usage.                 *)
LEMMA ColdReports == ASSUME NEW u, NEW a \in Outcome(u) PROVE a.cold \in BOOLEAN /\ (a.cold => a.reported)
  BY DEF Outcome, Completed, Dropped, Attempt

\* Every step keeps the count of cold calls.
LEMMA ColdStep == TypeOK /\ Cold /\ [Next]_vars => Cold'
<1> SUFFICES ASSUME TypeOK, Cold, [Next]_vars PROVE Cold'
  OBVIOUS
<1>1. CASE UNCHANGED vars
  BY <1>1 DEF vars, Cold
<1>2. ASSUME NEW c \in Cmd, Start(c) \/ Step(c) \/ WriteFails(c) \/ Crash(c)
      PROVE  Cold'
  <2> DEFINE t == cmd[c]
  <2>1. ColdInv(t) /\ WellFormed(t) /\ t \in CmdState /\ t.coldCalls \in Nat /\ t.reported \in BOOLEAN
    BY DEF Cold, TypeOK, WellFormed, CmdState
  <2>2. CASE Start(c)
    <3>1. ASSUME NEW targets, NEW owed, NEW pc \in {"take", "preflight"}, NEW ceiling, NEW k,
                 Begin(c, targets, owed, pc, ceiling, k)
          PROVE  Cold'
      <4>1. ColdInv([Idle EXCEPT !.pc = pc, !.owed = owed, !.ceiling = ceiling, !.conf = k])
        BY DEF ColdInv, Idle, HasAttempt
      <4> QED
        BY <3>1, <4>1, ColdStepOf DEF Begin
    <3> QED
      BY <2>2, <3>1 DEF Start, StartFresh, StartResume
  <2>3. CASE Stop(c)
    BY <2>3, ColdIdle, ColdStepOf DEF Stop
  \* A command that moves on without a call keeps its count.
  <2>4. ASSUME NEW s, Become(c, s), s.coldCalls = t.coldCalls, s.reported = t.reported,
               \/ t.pc \in {"preflight", "take", "check"} /\ s.pc \in {"take", "check", "call"}
               \/ t.pc \in HasAttempt /\ s.pc \in HasAttempt /\ s.att = t.att
        PROVE  Cold'
    <3>1. ColdInv(s)
      BY <2>1, <2>4 DEF ColdInv, HasAttempt
    <3> QED
      BY <2>4, <3>1, ColdStepOf
  <2>5. CASE ResumePreflight(c)
    <3> DEFINE s == [t EXCEPT !.pc = "take"]
    <3>1. s.pc = "take" /\ s.coldCalls = t.coldCalls /\ s.reported = t.reported
      BY <2>1 DEF CmdState
    <3> HIDE DEF s
    <3>2. Become(c, s) /\ t.pc = "preflight" => Cold'
      BY <2>4, <3>1
    <3> QED
      BY <2>3, <2>5, <3>2 DEF ResumePreflight, s
  <2>6. CASE TakeRun(c)
    <3>1. PICK p : Become(c, [t EXCEPT !.pc = "check", !.owed = @ \ {p},
                        !.cur = p, !.number = p.first, !.mf = p.mf])
      BY <2>6 DEF TakeRun
    <3> DEFINE s == [t EXCEPT !.pc = "check", !.owed = @ \ {p},
                        !.cur = p, !.number = p.first, !.mf = p.mf]
    <3>2. s.pc = "check" /\ s.coldCalls = t.coldCalls /\ s.reported = t.reported
      BY <2>1 DEF CmdState
    <3> HIDE DEF s
    <3> QED
      BY <2>4, <2>6, <3>1, <3>2 DEF TakeRun, s
  <2>7. CASE Check(c)
    <3> DEFINE s == [t EXCEPT !.pc = "call"]
    <3>1. s.pc = "call" /\ s.coldCalls = t.coldCalls /\ s.reported = t.reported
      BY <2>1 DEF CmdState
    <3> HIDE DEF s
    <3>2. Become(c, s) /\ t.pc = "check" => Cold'
      BY <2>4, <3>1
    <3> QED
      BY <2>3, <2>7, <3>2 DEF Check, s
  <2>8. CASE Call(c)
    <3>1. PICK a \in Outcome(t.cur.unit) :
            Become(c, [t EXCEPT !.pc = "exists", !.att = a,
                     !.billed = @ + a.bill, !.paid = @ \cup {Paid(c, a)},
                     !.coldCalls = IF a.cold THEN @ + 1 ELSE @])
      BY <2>8 DEF Call
    <3> DEFINE s == [t EXCEPT !.pc = "exists", !.att = a,
                     !.billed = @ + a.bill, !.paid = @ \cup {Paid(c, a)},
                     !.coldCalls = IF a.cold THEN @ + 1 ELSE @]
    <3>2. /\ s.pc = "exists" /\ s.att = a /\ s.reported = t.reported
          /\ s.coldCalls = IF a.cold THEN t.coldCalls + 1 ELSE t.coldCalls
      BY <2>1 DEF CmdState
    <3>3. t.coldCalls <= (IF t.reported THEN 1 ELSE 0) /\ t.pc = "call"
      BY <2>1, <2>8 DEF Call, ColdInv
    <3> HIDE DEF s
    <3>4. ColdInv(s)
      BY <2>1, <3>2, <3>3, ColdReports DEF ColdInv, HasAttempt
    <3> QED
      BY <3>1, <3>4, ColdStepOf DEF s
  <2>9. CASE Write(c) \/ WriteFails(c)
    <3>1. PICK s : /\ Become(c, s)
                   /\ s \in {[t EXCEPT !.pc = "open"], [t EXCEPT !.pc = "write"],
                             [t EXCEPT !.pc = "account"], [t EXCEPT !.pc = "account", !.lost = TRUE]}
                   /\ t.pc \in HasAttempt
      BY <2>9 DEF Write, WriteExists, WriteOpen, WriteText, WriteFails, HasAttempt
    <3>2. s.coldCalls = t.coldCalls /\ s.reported = t.reported /\ s.att = t.att /\ s.pc \in HasAttempt
      BY <2>1, <3>1 DEF CmdState, HasAttempt
    <3> QED
      BY <2>4, <3>1, <3>2
  <2>10. ASSUME NEW s, Become(c, s), t.pc = "account", ~ColdFault(c), s.pc \in {"take", "check"},
                s.coldCalls = t.coldCalls, s.reported = (t.reported \/ t.att.reported)
         PROVE  Cold'
    <3>1. /\ t.att.cold => t.att.reported
          /\ ~(t.reported /\ t.att.reported /\ t.att.cold)
          /\ t.coldCalls <= (IF t.reported THEN 1 ELSE 0) + (IF t.att.cold THEN 1 ELSE 0)
      BY <2>1, <2>10 DEF ColdInv, ColdFault, HasAttempt
    <3>2. s.coldCalls <= 1 /\ (~s.reported => s.coldCalls = 0)
      <4>1. CASE t.reported
        <5>1. ~t.att.cold /\ s.reported
          BY <2>10, <3>1, <4>1
        <5> QED
          BY <2>1, <2>10, <3>1, <4>1, <5>1
      <4>2. CASE ~t.reported /\ t.att.cold
        <5>1. s.reported
          BY <2>10, <3>1, <4>2
        <5> QED
          BY <2>1, <2>10, <3>1, <4>2, <5>1
      <4>3. CASE ~t.reported /\ ~t.att.cold
        BY <2>1, <2>10, <3>1, <4>3
      <4> QED
        BY <4>1, <4>2, <4>3
    <3>3. ColdInv(s)
      BY <2>10, <3>2 DEF ColdInv, HasAttempt
    <3> QED
      BY <2>10, <3>3, ColdStepOf
  <2>11. CASE Settle(c)
    <3> DEFINE s == [t EXCEPT !.pc = "take", !.total = Counted(c),
                  !.reported = @ \/ cmd[c].att.reported, !.att = None]
    <3>1. s.pc = "take" /\ s.coldCalls = t.coldCalls /\ s.reported = (t.reported \/ t.att.reported)
      BY <2>1 DEF CmdState
    <3> HIDE DEF s
    <3> QED
      BY <2>10, <2>11, <3>1 DEF Settle, s
  <2>12. CASE Retry(c)
    <3> DEFINE s == [t EXCEPT !.pc = "check", !.total = Counted(c),
                  !.reported = @ \/ cmd[c].att.reported, !.att = None,
                  !.mf = ModelFailures(c), !.number = @ + 1]
    <3>1. s.pc = "check" /\ s.coldCalls = t.coldCalls /\ s.reported = (t.reported \/ t.att.reported)
      BY <2>1 DEF CmdState
    <3> HIDE DEF s
    <3> QED
      BY <2>10, <2>12, <3>1 DEF Retry, s
  <2> QED
    BY <1>2, <2>2, <2>3, <2>5, <2>6, <2>7, <2>8, <2>9, <2>11, <2>12
       DEF Step, Account, Finish, StopPaid, StopUnsettled, Crash
<1> QED
  BY <1>1, <1>2 DEF Next

(* A command pays for at most one cold call and then goes on to another,       *)
(* whatever its runs, retries and dropped calls, for any number of commands.   *)
THEOREM ColdCacheStops == Spec => []ColdCachePaidOnce
<1>1. Init => Cold
  BY ColdIdle DEF Init, Cold
<1>2. Cold => ColdCachePaidOnce
  BY DEF Cold, ColdInv, ColdCachePaidOnce
<1> QED
  BY <1>1, <1>2, ColdStep, TypeInvariant, PTL DEF Spec
=============================================================================
