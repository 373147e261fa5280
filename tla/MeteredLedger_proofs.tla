------------------------ MODULE MeteredLedger_proofs ------------------------
(* Proofs about the artifact directory with one paid run at a time, for every  *)
(* number of units, runs and attempts and every way its calls and writes end:  *)
(* what was paid for is on disk, nothing whole is replaced, one provenance per *)
(* unit, and the directory is only ever changed as RunLedger allows.           *)
EXTENDS MeteredLedger, MeteredRun_proofs, SequenceTheorems

(* The one `tracepath extract`: a second one may take the same path.           *)
OneAtATime == \A c, d \in Cmd : c = d

-----------------------------------------------------------------------------
(* What each step of a command changes of it.                                  *)

(* The command keeps its run, its attempt number and what it has paid for.     *)
Keeps(c) ==
    /\ cmd'[c].owed = cmd[c].owed /\ cmd'[c].cur = cmd[c].cur /\ cmd'[c].number = cmd[c].number
    /\ cmd'[c].mf = cmd[c].mf /\ cmd'[c].conf = cmd[c].conf /\ cmd'[c].paid = cmd[c].paid

\* A command that becomes s is s.
LEMMA BecomeIs ==
    ASSUME TypeOK, NEW c \in Cmd, NEW s, Become(c, s)
    PROVE  cmd'[c] = s
  BY DEF TypeOK, Become

\* What the checks of a starting command leave.
LEMMA BeginFields ==
    ASSUME TypeOK, NEW c \in Cmd, NEW targets, NEW owed, NEW pc, NEW ceiling, NEW k,
           Begin(c, targets, owed, pc, ceiling, k)
    PROVE  /\ cmd'[c].pc = pc /\ cmd'[c].owed = owed /\ cmd'[c].conf = k /\ cmd'[c].paid = {}
           /\ cmd[c].pc = "idle" /\ files' = files
  <1>1. Become(c, [Idle EXCEPT !.pc = pc, !.owed = owed, !.ceiling = ceiling, !.conf = k])
    BY DEF Begin
  <1>2. cmd'[c] = [Idle EXCEPT !.pc = pc, !.owed = owed, !.ceiling = ceiling, !.conf = k]
    BY <1>1, BecomeIs
  <1> QED
    BY <1>2 DEF Begin, Idle

\* What the preflight of a resume leaves.
LEMMA PreflightFields ==
    ASSUME TypeOK, NEW c \in Cmd, ResumePreflight(c), ~Stop(c)
    PROVE  Keeps(c) /\ cmd[c].pc = "preflight" /\ cmd'[c].pc = "take" /\ files' = files
  <1>1. cmd[c] \in CmdState
    BY DEF TypeOK
  <1>2. cmd'[c] = [cmd[c] EXCEPT !.pc = "take"]
    BY BecomeIs DEF ResumePreflight
  <1> QED
    BY <1>1, <1>2 DEF ResumePreflight, Keeps, CmdState

\* What taking the next owed run leaves.
LEMMA TakeFields ==
    ASSUME TypeOK, NEW c \in Cmd, TakeRun(c)
    PROVE  /\ cmd[c].pc = "take" /\ cmd'[c].pc = "check" /\ files' = files
           /\ cmd'[c].conf = cmd[c].conf /\ cmd'[c].paid = cmd[c].paid
           /\ cmd'[c].cur \in cmd[c].owed /\ cmd'[c].owed = cmd[c].owed \ {cmd'[c].cur}
           /\ cmd'[c].number = cmd'[c].cur.first /\ cmd'[c].mf = cmd'[c].cur.mf
  <1>1. cmd[c] \in CmdState
    BY DEF TypeOK
  <1>2. PICK p \in cmd[c].owed :
          Become(c, [cmd[c] EXCEPT !.pc = "check", !.owed = @ \ {p},
                        !.cur = p, !.number = p.first, !.mf = p.mf])
    BY DEF TakeRun
  <1>3. cmd'[c] = [cmd[c] EXCEPT !.pc = "check", !.owed = @ \ {p},
                        !.cur = p, !.number = p.first, !.mf = p.mf]
    BY <1>2, BecomeIs
  <1> QED
    BY <1>1, <1>3 DEF TakeRun, CmdState

\* What the check of the ceiling leaves.
LEMMA CheckFields ==
    ASSUME TypeOK, NEW c \in Cmd, Check(c), ~Stop(c)
    PROVE  Keeps(c) /\ cmd[c].pc = "check" /\ cmd'[c].pc = "call" /\ files' = files /\ MayCall(c)
  <1>1. cmd[c] \in CmdState
    BY DEF TypeOK
  <1>2. cmd'[c] = [cmd[c] EXCEPT !.pc = "call"]
    BY BecomeIs DEF Check
  <1> QED
    BY <1>1, <1>2 DEF Check, Keeps, CmdState

\* What a call leaves, whatever came back.
LEMMA CallFields ==
    ASSUME TypeOK, NEW c \in Cmd, Call(c)
    PROVE  /\ cmd[c].pc = "call" /\ cmd'[c].pc = "exists" /\ files' = files
           /\ cmd'[c].owed = cmd[c].owed /\ cmd'[c].cur = cmd[c].cur /\ cmd'[c].mf = cmd[c].mf
           /\ cmd'[c].number = cmd[c].number /\ cmd'[c].conf = cmd[c].conf
           /\ cmd'[c].att.kind \in Kind
           /\ cmd'[c].paid = cmd[c].paid \cup {Paid(c, cmd'[c].att)}
  <1>1. cmd[c] \in CmdState
    BY DEF TypeOK
  <1>2. PICK a \in Outcome(cmd[c].cur.unit) :
          Become(c, [cmd[c] EXCEPT !.pc = "exists", !.att = a,
                     !.billed = @ + a.bill, !.paid = @ \cup {Paid(c, a)},
                     !.coldCalls = IF a.cold THEN @ + 1 ELSE @])
    BY DEF Call
  <1>3. cmd'[c] = [cmd[c] EXCEPT !.pc = "exists", !.att = a,
                     !.billed = @ + a.bill, !.paid = @ \cup {Paid(c, a)},
                     !.coldCalls = IF a.cold THEN @ + 1 ELSE @]
    BY <1>2, BecomeIs
  <1>4. a.kind \in Kind
    BY DEF Outcome, Completed, Dropped, Attempt
  <1>5. cmd'[c].att = a
    BY <1>1, <1>3 DEF CmdState
  <1> QED
    BY <1>1, <1>3, <1>4, <1>5 DEF Call, CmdState

\* What the look at the path leaves.
LEMMA ExistsFields ==
    ASSUME TypeOK, NEW c \in Cmd, WriteExists(c)
    PROVE  /\ cmd[c].pc = "exists" /\ files' = files /\ Keeps(c) /\ cmd'[c].att = cmd[c].att
           /\ \/ Exists(PathOf(c)) /\ cmd'[c].pc = "account" /\ cmd'[c].lost
              \/ ~Exists(PathOf(c)) /\ cmd'[c].pc = "open"
  <1>1. cmd[c] \in CmdState
    BY DEF TypeOK
  <1>2. cmd'[c] = IF Exists(PathOf(c)) THEN [cmd[c] EXCEPT !.pc = "account", !.lost = TRUE]
                  ELSE [cmd[c] EXCEPT !.pc = "open"]
    BY BecomeIs DEF WriteExists
  <1>3. CASE Exists(PathOf(c))
    BY <1>1, <1>2, <1>3 DEF WriteExists, Keeps, CmdState
  <1>4. CASE ~Exists(PathOf(c))
    BY <1>1, <1>2, <1>4 DEF WriteExists, Keeps, CmdState
  <1> QED
    BY <1>3, <1>4

(* The open and the write change one path, that of the attempt in hand.        *)
LEMMA WriteFields ==
    ASSUME TypeOK, NEW c \in Cmd, WriteOpen(c) \/ WriteText(c)
    PROVE  /\ Keeps(c) /\ cmd'[c].att = cmd[c].att /\ cmd'[c].lost = cmd[c].lost
           /\ PathOf(c) \in Path /\ cmd[c].pc \in HasAttempt /\ cmd[c].att.kind \in Kind
           /\ \A p \in Path : p # PathOf(c) => files'[p] = files[p]
           /\ WriteOpen(c) => /\ cmd[c].pc = "open" /\ cmd'[c].pc = "write"
                              /\ files'[PathOf(c)] = [kind |-> "torn", conf |-> cmd[c].conf, by |-> c]
           /\ WriteText(c) => /\ cmd[c].pc = "write" /\ cmd'[c].pc = "account"
                              /\ files'[PathOf(c)] = BuildArtifact(c)
  <1>1. cmd[c] \in CmdState /\ WellFormed(cmd[c]) /\ files \in [Path -> File]
    BY DEF TypeOK
  <1>2. cmd[c].pc \in HasAttempt
    BY DEF WriteOpen, WriteText, HasAttempt
  <1>3. PathOf(c) \in Path /\ cmd[c].att.kind \in Kind
    BY <1>1, <1>2, PathType DEF PathOf, WellFormed, Attempt
  <1>4. CASE WriteOpen(c)
    <2>1. cmd'[c] = [cmd[c] EXCEPT !.pc = "write"]
      BY <1>4, BecomeIs DEF WriteOpen
    <2>2. ~WriteText(c)
      BY <1>4 DEF WriteOpen, WriteText
    <2>3. /\ files'[PathOf(c)] = [kind |-> "torn", conf |-> cmd[c].conf, by |-> c]
          /\ \A p \in Path : p # PathOf(c) => files'[p] = files[p]
      BY <1>1, <1>3, <1>4 DEF WriteOpen
    <2>4. Keeps(c) /\ cmd'[c].att = cmd[c].att /\ cmd'[c].lost = cmd[c].lost
          /\ cmd[c].pc = "open" /\ cmd'[c].pc = "write"
      BY <1>1, <1>4, <2>1 DEF WriteOpen, Keeps, CmdState
    <2> QED
      BY <1>2, <1>3, <2>2, <2>3, <2>4
  <1>5. CASE WriteText(c)
    <2>1. cmd'[c] = [cmd[c] EXCEPT !.pc = "account"]
      BY <1>5, BecomeIs DEF WriteText
    <2>2. ~WriteOpen(c)
      BY <1>5 DEF WriteOpen, WriteText
    <2>3. /\ files'[PathOf(c)] = BuildArtifact(c)
          /\ \A p \in Path : p # PathOf(c) => files'[p] = files[p]
      BY <1>1, <1>3, <1>5 DEF WriteText
    <2>4. Keeps(c) /\ cmd'[c].att = cmd[c].att /\ cmd'[c].lost = cmd[c].lost
          /\ cmd[c].pc = "write" /\ cmd'[c].pc = "account"
      BY <1>1, <1>5, <2>1 DEF WriteText, Keeps, CmdState
    <2> QED
      BY <1>2, <1>3, <2>2, <2>3, <2>4
  <1> QED
    BY <1>4, <1>5

\* What a failed write leaves.
LEMMA FailsFields ==
    ASSUME TypeOK, NEW c \in Cmd, WriteFails(c)
    PROVE  /\ cmd[c].pc \in {"open", "write"} /\ cmd'[c].pc = "account" /\ cmd'[c].lost
           /\ Keeps(c) /\ cmd'[c].att = cmd[c].att /\ files' = files
  <1>1. cmd[c] \in CmdState
    BY DEF TypeOK
  <1>2. cmd'[c] = [cmd[c] EXCEPT !.pc = "account", !.lost = TRUE]
    BY BecomeIs DEF WriteFails
  <1> QED
    BY <1>1, <1>2 DEF WriteFails, Keeps, CmdState

\* What accounting for a settled attempt leaves.
LEMMA SettleFields ==
    ASSUME TypeOK, NEW c \in Cmd, Settle(c)
    PROVE  /\ cmd[c].pc = "account" /\ cmd'[c].pc = "take" /\ ~cmd[c].lost /\ Keeps(c)
           /\ cmd[c].att.kind = "settled" /\ files' = files
  <1>1. cmd[c] \in CmdState
    BY DEF TypeOK
  <1>2. cmd'[c] = [cmd[c] EXCEPT !.pc = "take", !.total = Counted(c),
                  !.reported = @ \/ cmd[c].att.reported, !.att = None]
    BY BecomeIs DEF Settle
  <1> QED
    BY <1>1, <1>2 DEF Settle, Keeps, CmdState

\* What accounting for a failed attempt that may be retried leaves.
LEMMA RetryFields ==
    ASSUME TypeOK, NEW c \in Cmd, Retry(c)
    PROVE  /\ cmd[c].pc = "account" /\ cmd'[c].pc = "check" /\ ~cmd[c].lost
           /\ cmd[c].att.kind # "settled" /\ files' = files
           /\ cmd'[c].owed = cmd[c].owed /\ cmd'[c].cur = cmd[c].cur
           /\ cmd'[c].conf = cmd[c].conf /\ cmd'[c].paid = cmd[c].paid
           /\ cmd'[c].number = cmd[c].number + 1 /\ cmd'[c].mf = ModelFailures(c)
           /\ ModelFailures(c) < BLOCKING_MODEL_FAILURES
  <1>1. cmd[c] \in CmdState
    BY DEF TypeOK
  <1>2. cmd'[c] = [cmd[c] EXCEPT !.pc = "check", !.total = Counted(c),
                  !.reported = @ \/ cmd[c].att.reported, !.att = None,
                  !.mf = ModelFailures(c), !.number = @ + 1]
    BY BecomeIs DEF Retry
  <1> QED
    BY <1>1, <1>2 DEF Retry, CmdState

(* A command that stops is idle again.                                         *)
LEMMA StopIs ==
    ASSUME TypeOK, NEW c \in Cmd, Stop(c)
    PROVE  cmd'[c] = Idle
  BY BecomeIs DEF Stop

(* Every step of a command is one of these.                                    *)
Moves(c) ==
    \/ Start(c) \/ (Stop(c) /\ UNCHANGED files)
    \/ (ResumePreflight(c) /\ ~Stop(c)) \/ TakeRun(c) \/ (Check(c) /\ ~Stop(c)) \/ Call(c)
    \/ WriteExists(c) \/ WriteOpen(c) \/ WriteText(c) \/ WriteFails(c) \/ Settle(c) \/ Retry(c)

\* Every step is a command starting, moving, stopping or crashing.
LEMMA StepMoves == ASSUME [Next]_vars PROVE UNCHANGED vars \/ \E c \in Cmd : Moves(c)
  BY DEF Next, Step, Write, Account, Moves, ResumePreflight, Finish, Check, StopPaid, StopUnsettled,
         Crash
-----------------------------------------------------------------------------
(* What was paid for.                                                          *)

(* What is at the path of the attempt in hand: nothing until it is opened,     *)
(* then its unfinished file, then, if nothing was lost, what it should say.    *)
OnDisk(c, a) == files[a.path] = [kind |-> a.kind, conf |-> cmd[c].conf, by |-> c]
InHand(c) == Paid(c, cmd[c].att)
DiskInv(c) ==
    LET s == cmd[c] IN
    /\ s.pc \in {"idle", "preflight"} => s.paid = {}
    /\ s.pc \in {"take", "check", "call"} => \A a \in s.paid : OnDisk(c, a)
    /\ s.pc = "call" => AttemptUnwritten(s.cur.unit, s.cur.run, s.number)
    /\ s.pc \in HasAttempt => \A a \in s.paid : a = InHand(c) \/ OnDisk(c, a)
    /\ s.pc \in {"exists", "open"} => ~Exists(PathOf(c))
    /\ s.pc = "write" => files[PathOf(c)].kind = "torn"
    /\ s.pc = "account" /\ ~s.lost => OnDisk(c, InHand(c))
Disk == \A c \in Cmd : DiskInv(c)

\* Every step keeps what was paid for on disk.
LEMMA DiskStep == ASSUME OneAtATime PROVE TypeOK /\ Disk /\ [Next]_vars => Disk'
<1> SUFFICES ASSUME TypeOK, Disk, [Next]_vars PROVE Disk'
  OBVIOUS
<1>1. CASE UNCHANGED vars
  <2>1. cmd' = cmd /\ files' = files
    BY <1>1 DEF vars
  <2>2. ASSUME NEW c \in Cmd PROVE DiskInv(c)' <=> DiskInv(c)
    <3>1. /\ \A a : OnDisk(c, a)' <=> OnDisk(c, a)
          /\ InHand(c)' = InHand(c) /\ PathOf(c)' = PathOf(c)
      BY <2>1 DEF OnDisk, InHand, Paid, PathOf
    <3>2. /\ \A p : Exists(p)' <=> Exists(p)
          /\ \A u, r, n : AttemptUnwritten(u, r, n)' <=> AttemptUnwritten(u, r, n)
      BY <2>1 DEF Exists, AttemptUnwritten
    <3> QED
      BY <2>1, <3>1, <3>2 DEF DiskInv
  <2> QED
    BY <2>2 DEF Disk
<1>2. ASSUME NEW c \in Cmd, Moves(c) PROVE Disk'
  <2>1. DiskInv(c) /\ WellFormed(cmd[c]) /\ (\A d \in Cmd : d = c) /\ cmd[c].paid \subseteq [path : Path, kind : Kind]
    BY DEF Disk, TypeOK, OneAtATime, CmdState
  <2>2. SUFFICES DiskInv(c)'
    BY <2>1 DEF Disk
  <2>3. CASE Start(c)
    <3>1. cmd'[c].pc \in {"take", "preflight"} /\ cmd'[c].paid = {}
      BY <2>3, BeginFields DEF Start, StartFresh, StartResume
    <3> QED
      BY <3>1 DEF DiskInv, HasAttempt
  <2>4. CASE Stop(c)
    BY <2>4, StopIs DEF Idle, DiskInv, HasAttempt
  <2>5. CASE (ResumePreflight(c) /\ ~Stop(c)) \/ TakeRun(c)
    <3>1. /\ cmd'[c].pc \in {"take", "check"} /\ cmd[c].pc \in {"preflight", "take"}
          /\ cmd'[c].paid = cmd[c].paid /\ cmd'[c].conf = cmd[c].conf /\ files' = files
      BY <2>5, PreflightFields, TakeFields DEF Keeps
    <3> QED
      BY <2>1, <3>1 DEF DiskInv, OnDisk, HasAttempt
  <2>6. CASE Check(c) /\ ~Stop(c)
    BY <2>1, <2>6, CheckFields DEF Keeps, DiskInv, OnDisk, HasAttempt, MayCall, AttemptUnwritten, Exists
  <2>7. CASE Call(c)
    <3>1. PathOf(c)' = RunPath(cmd[c].cur.unit, cmd[c].cur.run, cmd[c].number, cmd'[c].att)
      BY <2>7, CallFields DEF PathOf
    <3>2. ~Exists(PathOf(c))'
      BY <2>1, <2>7, <3>1, CallFields DEF DiskInv, RunPath, AttemptUnwritten, AttemptPaths, Exists
    <3>3. InHand(c)' = Paid(c, cmd'[c].att)
      BY <2>7, CallFields DEF InHand, Paid
    <3>4. \A a \in cmd'[c].paid : a = InHand(c)' \/ OnDisk(c, a)'
      BY <2>1, <2>7, <3>3, CallFields DEF DiskInv, OnDisk
    <3> QED
      BY <2>7, <3>2, <3>4, CallFields DEF DiskInv, HasAttempt
  <2>8. ASSUME Keeps(c), cmd'[c].att = cmd[c].att
        PROVE  PathOf(c)' = PathOf(c) /\ InHand(c)' = InHand(c) /\ InHand(c).path = PathOf(c)
    BY <2>8 DEF Keeps, PathOf, InHand, Paid
  <2>9. CASE WriteExists(c)
    <3>1. /\ cmd'[c].pc = "open" \/ (cmd'[c].pc = "account" /\ cmd'[c].lost)
          /\ cmd'[c].pc = "open" => ~Exists(PathOf(c))'
          /\ \A a \in cmd'[c].paid : a = InHand(c)' \/ OnDisk(c, a)'
      BY <2>1, <2>8, <2>9, ExistsFields DEF DiskInv, HasAttempt, OnDisk, Keeps, Exists
    <3> QED
      BY <3>1 DEF DiskInv, HasAttempt
  <2>10. CASE WriteOpen(c) \/ WriteText(c)
    \* What is on disk is elsewhere: the path in hand is not there yet, or unfinished.
    <3>1. ASSUME NEW a \in cmd[c].paid, a # InHand(c) PROVE OnDisk(c, a)'
      <4>1. OnDisk(c, a) /\ a.path \in Path /\ a.kind \in Kind
        BY <2>1, <2>10, <3>1, WriteFields DEF DiskInv
      <4>2. files[PathOf(c)].kind \in {"absent", "torn"}
        BY <2>1, <2>10, WriteFields DEF DiskInv, Exists
      <4>3. a.path # PathOf(c)
        BY <4>1, <4>2 DEF OnDisk, Kind, FailureKind
      <4> QED
        BY <2>10, <4>1, <4>3, WriteFields DEF OnDisk, Keeps
    <3>2. \A a \in cmd'[c].paid : a = InHand(c)' \/ OnDisk(c, a)'
      BY <2>8, <2>10, <3>1, WriteFields DEF Keeps
    <3>3. CASE WriteOpen(c)
      <4>1. /\ Keeps(c) /\ cmd'[c].att = cmd[c].att /\ cmd'[c].pc = "write"
            /\ files'[PathOf(c)] = [kind |-> "torn", conf |-> cmd[c].conf, by |-> c]
        BY <3>3, WriteFields
      <4>2. PathOf(c)' = PathOf(c)
        BY <2>8, <4>1
      <4>3. files[PathOf(c)]'.kind = "torn"
        BY <4>1, <4>2
      <4> QED
        BY <3>2, <4>1, <4>3 DEF DiskInv, HasAttempt
    <3>4. CASE WriteText(c)
      <4>1. /\ Keeps(c) /\ cmd'[c].att = cmd[c].att /\ cmd'[c].pc = "account"
            /\ files'[PathOf(c)] = BuildArtifact(c)
        BY <3>4, WriteFields
      <4>2. InHand(c)' = InHand(c) /\ InHand(c).path = PathOf(c) /\ InHand(c).kind = cmd[c].att.kind
        BY <2>8, <4>1 DEF InHand, Paid
      <4>3. OnDisk(c, InHand(c))'
        BY <4>1, <4>2 DEF OnDisk, BuildArtifact, Keeps
      <4> QED
        BY <3>2, <4>1, <4>3 DEF DiskInv, HasAttempt
    <3> QED
      BY <2>10, <3>3, <3>4
  <2>11. CASE WriteFails(c)
    <3>1. /\ cmd'[c].pc = "account" /\ cmd'[c].lost
          /\ \A a \in cmd'[c].paid : a = InHand(c)' \/ OnDisk(c, a)'
      BY <2>1, <2>8, <2>11, FailsFields DEF DiskInv, HasAttempt, OnDisk, Keeps
    <3> QED
      BY <3>1 DEF DiskInv, HasAttempt
  <2>12. CASE Settle(c) \/ Retry(c)
    <3>1. /\ cmd'[c].pc \in {"take", "check"} /\ cmd[c].pc = "account" /\ ~cmd[c].lost
          /\ cmd'[c].paid = cmd[c].paid /\ cmd'[c].conf = cmd[c].conf /\ files' = files
      BY <2>12, SettleFields, RetryFields DEF Keeps
    <3>2. \A a \in cmd[c].paid : OnDisk(c, a)
      BY <2>1, <3>1 DEF DiskInv, HasAttempt
    <3> QED
      BY <3>1, <3>2 DEF DiskInv, OnDisk, HasAttempt
  <2> QED
    BY <1>2, <2>3, <2>4, <2>5, <2>6, <2>7, <2>9, <2>10, <2>11, <2>12 DEF Moves
<1> QED
  BY <1>1, <1>2, StepMoves

\* One command at a time, what was paid for is on disk or in hand.
LEMMA DiskAlways == ASSUME OneAtATime PROVE Spec => []Disk
<1>1. Init => Disk
  BY DEF Init, Disk, DiskInv, Idle, HasAttempt
<1> QED
  BY <1>1, DiskStep, TypeInvariant, PTL DEF Spec

(* One command at a time, whenever it is about to go on, every attempt it has  *)
(* paid for is on disk under its own name with its own content (AC-12a).       *)
THEOREM PaidAttemptsAreOnDisk == ASSUME OneAtATime PROVE Spec => []PaidIsOnDisk
<1>1. Disk => PaidIsOnDisk
  BY DEF Disk, DiskInv, OnDisk, PaidIsOnDisk
<1> QED
  BY <1>1, DiskAlways, PTL

(* One command at a time, a file that holds an attempt keeps it, over every    *)
(* retry, resume, failed write and crash (README: "never overwritten").        *)
THEOREM AttemptsStand == ASSUME OneAtATime PROVE Spec => NeverOverwritten
<1>1. ASSUME TypeOK, Disk, [Next]_vars, NEW p \in Path, files[p].kind \in Kind
      PROVE  files'[p] = files[p]
  <2>1. CASE UNCHANGED files
    BY <2>1
  <2>2. ASSUME NEW c \in Cmd, WriteOpen(c) \/ WriteText(c) PROVE files'[p] = files[p]
    <3>1. /\ cmd[c].pc \in {"open", "write"} /\ DiskInv(c) /\ PathOf(c) \in Path
          /\ \A q \in Path : q # PathOf(c) => files'[q] = files[q]
      BY <1>1, <2>2, WriteFields DEF Disk
    <3>2. files[PathOf(c)].kind \in {"absent", "torn"}
      BY <3>1 DEF DiskInv, Exists
    <3>3. p # PathOf(c)
      BY <1>1, <3>2 DEF Kind, FailureKind
    <3> QED
      BY <3>1, <3>3
  <2>3. UNCHANGED files \/ \E c \in Cmd : WriteOpen(c) \/ WriteText(c)
    BY ZenonT(60), <1>1, StepMoves DEF vars, Moves, Start, StartFresh, StartResume, Begin, ResumePreflight, TakeRun,
       Check, Call, WriteExists, WriteFails, Settle, Retry
  <2> QED
    BY <2>1, <2>2, <2>3
<1>2. TypeOK /\ Disk /\ [Next]_vars => [\A p \in Path : files[p].kind \in Kind => files'[p] = files[p]]_vars
  BY <1>1
<1> QED
  BY <1>2, TypeInvariant, DiskAlways, PTL DEF Spec, NeverOverwritten
-----------------------------------------------------------------------------
(* One provenance per unit.                                                    *)

(* A step that neither starts a command nor writes leaves it nothing new to    *)
(* work on.                                                                    *)
QuietMoves(c) ==
    \/ (ResumePreflight(c) /\ ~Stop(c)) \/ TakeRun(c) \/ (Check(c) /\ ~Stop(c)) \/ Call(c)
    \/ WriteExists(c) \/ WriteFails(c) \/ Settle(c) \/ Retry(c)

\* A move that writes no file makes no run active and keeps the settings.
LEMMA QuietMoveFields ==
    ASSUME TypeOK, NEW c \in Cmd, QuietMoves(c)
    PROVE  /\ Active(cmd'[c]) \subseteq Active(cmd[c])
           /\ cmd'[c].conf = cmd[c].conf /\ files' = files
  <1>1. CASE ResumePreflight(c) /\ ~Stop(c)
    BY <1>1, PreflightFields DEF Keeps, Active, HasRun
  <1>2. CASE TakeRun(c)
    BY <1>2, TakeFields DEF Active, HasRun
  <1>3. CASE Check(c) /\ ~Stop(c)
    BY <1>3, CheckFields DEF Keeps, Active, HasRun
  <1>4. CASE Call(c)
    BY <1>4, CallFields DEF Active, HasRun
  <1>5. CASE WriteExists(c)
    BY <1>5, ExistsFields DEF Keeps, Active, HasRun
  <1>6. CASE WriteFails(c)
    BY <1>6, FailsFields DEF Keeps, Active, HasRun
  <1>7. CASE Settle(c)
    BY <1>7, SettleFields DEF Keeps, Active, HasRun
  <1>8. CASE Retry(c)
    BY <1>8, RetryFields DEF Active, HasRun
  <1> QED
    BY <1>1, <1>2, <1>3, <1>4, <1>5, <1>6, <1>7, <1>8 DEF QuietMoves

(* The settled runs of a unit a command still works on were written as it      *)
(* writes: one provenance, checked at a resume and none to check at a start.   *)
ConfInv(c) ==
    \A p \in Active(cmd[c]) : \A r \in Run :
        Settled(p.unit, r) => files[<<p.unit, r, 0>>].conf = cmd[c].conf
Provenance == OneProvenance /\ \A c \in Cmd : ConfInv(c)

(* What a fresh command plans has no settled run.                              *)
LEMMA FreshUnsettled ==
    ASSUME NEW u \in Unit, NoCollision(u), NEW r \in Run PROVE ~Settled(u, r)
  BY DEF NoCollision, AttemptUnwritten, AttemptPaths, Settled

(* A start begins on units its provenance is right for.                        *)
LEMMA StartConf ==
    ASSUME TypeOK, NEW c \in Cmd, Start(c)
    PROVE  files' = files /\ ConfInv(c)'
  <1>1. ASSUME NEW targets \in (SUBSET Unit) \ {{}}, NEW ceiling \in Ceilings, NEW k \in Conf,
               StartFresh(c, targets, ceiling, k)
        PROVE  files' = files /\ ConfInv(c)'
    <2>1. /\ cmd'[c].pc = "take" /\ cmd'[c].owed = UNION {FreshRuns(u) : u \in targets}
          /\ files' = files
      BY <1>1, BeginFields DEF StartFresh
    <2>2. \A p \in Active(cmd'[c]) : p.unit \in targets
      BY <2>1 DEF Active, HasRun, FreshRuns
    <2>3. \A u \in targets, r \in Run : ~Settled(u, r)
      BY <1>1, FreshUnsettled DEF StartFresh
    <2>4. \A u \in targets, r \in Run : ~Settled(u, r)'
      BY <2>1, <2>3 DEF Settled, Exists
    <2> QED
      BY <2>1, <2>2, <2>4 DEF ConfInv
  <1>2. ASSUME NEW targets \in (SUBSET Unit) \ {{}}, NEW ceiling \in Ceilings, NEW k \in Conf,
               StartResume(c, targets, ceiling, k)
        PROVE  files' = files /\ ConfInv(c)'
    <2>1. /\ cmd'[c].pc = "preflight" /\ cmd'[c].owed = UNION {OwedRuns(u) : u \in targets}
          /\ files' = files /\ cmd'[c].conf = k
      BY <1>2, BeginFields DEF StartResume
    <2>2. \A p \in Active(cmd'[c]) : p.unit \in targets
      BY <2>1 DEF Active, HasRun, OwedRuns
    <2>3. \A u \in targets, r \in Run : Settled(u, r) => files[<<u, r, 0>>].conf = k
      BY <1>2 DEF StartResume, ProvenanceMatches
    <2>4. \A u \in targets, r \in Run : Settled(u, r)' => files'[<<u, r, 0>>].conf = k
      BY <2>1, <2>3 DEF Settled, Exists
    <2> QED
      BY <2>1, <2>2, <2>4 DEF ConfInv
  <1> QED
    BY <1>1, <1>2 DEF Start

\* Every step keeps one provenance to a unit.
LEMMA ProvenanceStep == ASSUME OneAtATime PROVE TypeOK /\ Provenance /\ [Next]_vars => Provenance'
<1> SUFFICES ASSUME TypeOK, Provenance, [Next]_vars PROVE Provenance'
  OBVIOUS
<1>1. CASE UNCHANGED vars
  BY <1>1 DEF vars, Provenance, OneProvenance, ConfInv, Settled, Exists
<1>2. ASSUME NEW c \in Cmd, Moves(c) PROVE Provenance'
  <2>1. ConfInv(c) /\ OneProvenance /\ (\A d \in Cmd : d = c)
    BY DEF Provenance, OneAtATime
  <2>2. ASSUME files' = files, ConfInv(c)' PROVE Provenance'
    BY <2>1, <2>2 DEF Provenance, OneProvenance, Settled, Exists
  <2>3. CASE Start(c)
    BY <2>2, <2>3, StartConf
  <2>4. CASE Stop(c) /\ UNCHANGED files
    <3>1. Active(cmd'[c]) = {}
      BY <2>4, StopIs DEF Active, Idle, HasRun
    <3> QED
      BY <2>2, <2>4, <3>1 DEF ConfInv
  <2>5. CASE QuietMoves(c)
    BY <2>1, <2>2, <2>5, QuietMoveFields DEF ConfInv, Settled, Exists
  <2>6. CASE WriteOpen(c) \/ WriteText(c)
    <3>1. /\ Keeps(c) /\ PathOf(c) \in Path /\ cmd[c].pc \in HasRun
          /\ \A p \in Path : p # PathOf(c) => files'[p] = files[p]
          /\ files'[PathOf(c)].conf = cmd[c].conf
      <4>1. /\ Keeps(c) /\ PathOf(c) \in Path /\ cmd[c].pc \in HasAttempt
            /\ \A p \in Path : p # PathOf(c) => files'[p] = files[p]
            /\ WriteOpen(c) => files'[PathOf(c)] = [kind |-> "torn", conf |-> cmd[c].conf, by |-> c]
            /\ WriteText(c) => files'[PathOf(c)] = BuildArtifact(c)
        BY <2>6, WriteFields
      <4>2. files'[PathOf(c)].conf = cmd[c].conf
        BY <2>6, <4>1 DEF BuildArtifact
      <4> QED
        BY <4>1, <4>2 DEF HasAttempt, HasRun
    <3>2. cmd'[c].pc \in HasRun
      BY <2>6, WriteFields DEF HasRun
    <3>3. Active(cmd'[c]) = Active(cmd[c])
      BY <3>1, <3>2 DEF Keeps, Active
    <3>4. \A p \in Active(cmd[c]) : p.unit \in Unit
      BY DEF Active, TypeOK, WellFormed, CmdState, RunPlan
    <3>5. \A u \in Unit, r \in Run : <<u, r, 0>> \in Path
      BY AttemptAssumption DEF Path
    <3>6. ConfInv(c)'
      BY <2>1, <3>1, <3>3, <3>4, <3>5 DEF ConfInv, Keeps, Settled, Exists
    <3>7. OneProvenance'
      <4> SUFFICES ASSUME NEW u \in Unit, NEW r \in Run, NEW q \in Run, Settled(u, r)', Settled(u, q)'
                   PROVE  files'[<<u, r, 0>>].conf = files'[<<u, q, 0>>].conf
        BY DEF OneProvenance
      <4>1. CASE u = cmd[c].cur.unit
        <5>1. cmd[c].cur \in Active(cmd'[c])
          BY <3>1, <3>3 DEF Active
        <5> QED
          BY <3>6, <4>1, <5>1 DEF ConfInv
      <4>2. CASE u # cmd[c].cur.unit
        <5>1. <<u, r, 0>> # PathOf(c) /\ <<u, q, 0>> # PathOf(c)
          BY <4>2 DEF PathOf, RunPath
        <5> QED
          BY <2>1, <3>1, <3>5, <5>1 DEF OneProvenance, Settled, Exists
      <4> QED
        BY <4>1, <4>2
    <3> QED
      BY <2>1, <3>6, <3>7 DEF Provenance
  <2> QED
    BY <1>2, <2>3, <2>4, <2>5, <2>6 DEF Moves, QuietMoves
<1> QED
  BY <1>1, <1>2, StepMoves

(* One command at a time, the settled runs of a unit were all written under    *)
(* one prompt, model, commit and effort, over any number of commands (AC-60b). *)
THEOREM UnitsHaveOneProvenance == ASSUME OneAtATime PROVE Spec => []OneProvenance
<1>1. Init => Provenance
  <2> SUFFICES ASSUME Init PROVE Provenance
    OBVIOUS
  <2>1. \A c \in Cmd : Active(cmd[c]) = {}
    BY DEF Init, Active, Idle, HasRun
  <2>2. \A u \in Unit, r \in Run : files[<<u, r, 0>>] = NoFile
    BY AttemptAssumption DEF Init, Path
  <2> QED
    BY <2>1, <2>2 DEF Provenance, OneProvenance, ConfInv
<1>2. Provenance => OneProvenance
  BY DEF Provenance
<1> QED
  BY <1>1, <1>2, ProvenanceStep, TypeInvariant, PTL DEF Spec
-----------------------------------------------------------------------------
(* The attempts on disk, as a resume counts them.                              *)

(* The attempts of a run are numbered from 1 without a gap, and each file is   *)
(* of a kind its name allows.                                                  *)
Numbered ==
    /\ \A u \in Unit, r \in Run : Failed(u, r) = 1 .. Cardinality(Failed(u, r))
    /\ \A u \in Unit, r \in Run : files[<<u, r, 0>>].kind \in {"absent", "torn", "settled"}
    /\ \A u \in Unit, r \in Run, n \in Number :
          files[<<u, r, n>>].kind \in {"absent", "torn"} \cup FailureKind

(* A run may take its attempt n: it is not settled, its attempts before n are  *)
(* there and whole, and mf of them, fewer than block it, are model failures.   *)
Ready(u, r, n, mf) ==
    /\ ~Settled(u, r)
    /\ n = Cardinality(Failed(u, r)) + 1
    /\ mf = Cardinality(ModelFailed(u, r)) /\ mf < BLOCKING_MODEL_FAILURES
    /\ \A i \in Failed(u, r) : Parses(<<u, r, i>>)

(* A failed attempt n of a run is its last, the ones before it are whole, and  *)
(* mf of those are model failures.                                             *)
Latest(u, r, n, mf) ==
    /\ ~Settled(u, r)
    /\ n = Cardinality(Failed(u, r))
    /\ mf = Cardinality(ModelFailed(u, r) \ {n})
    /\ \A i \in Failed(u, r) : i = n \/ Parses(<<u, r, i>>)

(* The command s is at attempt n of run r of unit u.                           *)
At(s, u, r, n, mf) ==
    s.pc \in HasRun /\ s.cur.unit = u /\ s.cur.run = r /\ s.number = n /\ s.mf = mf
Opened(s) == s.pc = "write" \/ (s.pc = "account" /\ ~s.lost)

(* Every run a command owes is ready, and so is the one in hand until its      *)
(* attempt is opened; from there that attempt is the last of its run.  Every   *)
(* settled run of a unit in hand is whole, but for the one being written.      *)
OwedInv(s) ==
    /\ \A p \in s.owed : Ready(p.unit, p.run, p.first, p.mf)
    /\ s.pc \in HasRun => \A p \in s.owed : p.unit # s.cur.unit \/ p.run # s.cur.run
AttemptInv(s) ==
    \A u \in Unit, r \in Run, n \in Number, mf \in Nat : At(s, u, r, n, mf) =>
        /\ s.pc \in {"check", "call", "exists", "open"} => Ready(u, r, n, mf)
        /\ Opened(s) /\ s.att.kind # "settled" => Latest(u, r, n, mf)
WholeInv(s) ==
    \A p \in Active(s), q \in Run :
        Settled(p.unit, q) => \/ Parses(<<p.unit, q, 0>>)
                              \/ s.pc \in {"write", "account"} /\ p.unit = s.cur.unit /\ q = s.cur.run
LedgerReady ==
    Numbered /\ \A c \in Cmd : OwedInv(cmd[c]) /\ AttemptInv(cmd[c]) /\ WholeInv(cmd[c])

\* The settled file and the attempts of a run are paths.
LEMMA AttemptPath ==
    ASSUME NEW u \in Unit, NEW r \in Run
    PROVE  <<u, r, 0>> \in Path /\ \A n \in Number : <<u, r, n>> \in Path
  BY AttemptAssumption DEF Path, Number

(* What the counts say once the attempts are numbered.                         *)
LEMMA Counts ==
    ASSUME Numbered, NEW u \in Unit, NEW r \in Run
    PROVE  /\ Failed(u, r) = 1 .. Cardinality(Failed(u, r)) /\ Cardinality(Failed(u, r)) \in Nat
           /\ Failed(u, r) \subseteq Number /\ ModelFailed(u, r) \subseteq Failed(u, r)
           /\ IsFiniteSet(ModelFailed(u, r)) /\ Cardinality(ModelFailed(u, r)) \in Nat
  <1>1. Failed(u, r) = 1 .. Cardinality(Failed(u, r))
    BY DEF Numbered
  <1>2. Failed(u, r) \subseteq Number /\ ModelFailed(u, r) \subseteq Failed(u, r)
    BY DEF Failed, ModelFailed, Exists
  <1> QED
    BY <1>1, <1>2, FailedFinite

(* A step that leaves the files of a run leaves all that is said of it.        *)
LEMMA RunSame ==
    ASSUME Numbered, NEW u \in Unit, NEW r \in Run,
           \A k \in 0 .. MaxAttempt : files'[<<u, r, k>>] = files[<<u, r, k>>]
    PROVE  /\ Failed(u, r)' = Failed(u, r) /\ ModelFailed(u, r)' = ModelFailed(u, r)
           /\ Settled(u, r)' <=> Settled(u, r)
           /\ \A k \in 0 .. MaxAttempt : Parses(<<u, r, k>>)' <=> Parses(<<u, r, k>>)
           /\ \A n, mf : Ready(u, r, n, mf)' <=> Ready(u, r, n, mf)
           /\ \A n, mf : Latest(u, r, n, mf)' <=> Latest(u, r, n, mf)
           /\ History(u, r)' = History(u, r)
  <1>1. Number \subseteq 0 .. MaxAttempt /\ 0 \in 0 .. MaxAttempt
    BY AttemptAssumption DEF Number
  <1>2. Failed(u, r)' = Failed(u, r) /\ ModelFailed(u, r)' = ModelFailed(u, r)
    BY <1>1 DEF Failed, ModelFailed, Exists
  <1>3. Settled(u, r)' <=> Settled(u, r)
    BY <1>1 DEF Settled, Exists
  <1>4. \A k \in 0 .. MaxAttempt : Parses(<<u, r, k>>)' <=> Parses(<<u, r, k>>)
    BY DEF Parses
  <1>5. Failed(u, r) \subseteq 0 .. MaxAttempt
    BY <1>1 DEF Failed
  <1>6. \A n, mf : Ready(u, r, n, mf)' <=> Ready(u, r, n, mf)
    BY <1>2, <1>3, <1>4, <1>5 DEF Ready
  <1>7. \A n, mf : Latest(u, r, n, mf)' <=> Latest(u, r, n, mf)
    BY <1>2, <1>3, <1>4, <1>5 DEF Latest
  <1>8. History(u, r)' = History(u, r)
    <2>1. \A k \in 1 .. Cardinality(Failed(u, r)) : files'[<<u, r, k>>].kind = files[<<u, r, k>>].kind
      BY <1>5, Counts
    <2>2. [k \in 1 .. Cardinality(Failed(u, r)) |-> files[<<u, r, k>>].kind]'
          = [k \in 1 .. Cardinality(Failed(u, r)) |-> files[<<u, r, k>>].kind]
      BY <1>2, <2>1
    <2>3. files'[<<u, r, 0>>] = files[<<u, r, 0>>]
      BY <1>1
    <2> QED
      BY <1>3, <2>2, <2>3 DEF History
  <1> QED
    BY <1>2, <1>3, <1>4, <1>6, <1>7, <1>8

(* The step that opens or writes out an attempt leaves every other run.        *)
LEMMA OtherRuns ==
    ASSUME TypeOK, NEW c \in Cmd, WriteOpen(c) \/ WriteText(c), NEW u \in Unit, NEW r \in Run,
           u # cmd[c].cur.unit \/ r # cmd[c].cur.run
    PROVE  \A k \in 0 .. MaxAttempt : files'[<<u, r, k>>] = files[<<u, r, k>>]
  <1>1. \A k \in 0 .. MaxAttempt : <<u, r, k>> \in Path /\ <<u, r, k>> # PathOf(c)
    BY DEF Path, PathOf, RunPath
  <1> QED
    BY <1>1, WriteFields

(* Opening an attempt: it becomes the last of its run, or its settled one.     *)
LEMMA OpenRun ==
    ASSUME TypeOK, Numbered, NEW c \in Cmd, WriteOpen(c),
           NEW u \in Unit, NEW r \in Run, NEW n \in Number, NEW mf \in Nat,
           At(cmd[c], u, r, n, mf), Ready(u, r, n, mf)
    PROVE  /\ ModelFailed(u, r)' = ModelFailed(u, r) /\ n \notin ModelFailed(u, r)
           /\ \A i \in Failed(u, r) : files'[<<u, r, i>>] = files[<<u, r, i>>]
           /\ cmd[c].att.kind = "settled" =>
                 /\ Failed(u, r)' = Failed(u, r)
                 /\ files'[<<u, r, 0>>].kind = "torn"
                 /\ \A k \in Number : files'[<<u, r, k>>] = files[<<u, r, k>>]
           /\ cmd[c].att.kind # "settled" =>
                 /\ Failed(u, r)' = 1 .. n /\ Cardinality(Failed(u, r))' = n
                 /\ files'[<<u, r, n>>].kind = "torn"
                 /\ \A k \in 0 .. MaxAttempt : k # n => files'[<<u, r, k>>] = files[<<u, r, k>>]
  <1>1. /\ PathOf(c) \in Path /\ files'[PathOf(c)].kind = "torn"
        /\ \A p \in Path : p # PathOf(c) => files'[p] = files[p]
    <2>1. files'[PathOf(c)] = [kind |-> "torn", conf |-> cmd[c].conf, by |-> c]
      BY WriteFields
    <2>2. files'[PathOf(c)].kind = "torn"
      BY <2>1
    <2> QED
      BY <2>2, WriteFields
  <1>2. /\ \A k \in 0 .. MaxAttempt : <<u, r, k>> \in Path
        /\ Number \subseteq 0 .. MaxAttempt /\ 0 \in 0 .. MaxAttempt /\ 0 \notin Number
    BY AttemptAssumption DEF Path, Number
  <1>3. /\ Failed(u, r) = 1 .. (n - 1) /\ n - 1 \in Nat /\ Failed(u, r) \subseteq Number
        /\ n \notin Failed(u, r) /\ n \notin ModelFailed(u, r)
    BY Counts DEF Ready, Number
  <1>4. CASE cmd[c].att.kind = "settled"
    <2>1. PathOf(c) = <<u, r, 0>>
      BY <1>4 DEF PathOf, RunPath, At
    <2>2. \A k \in Number : files'[<<u, r, k>>] = files[<<u, r, k>>]
      <3>1. \A k \in Number : <<u, r, k>> \in Path /\ <<u, r, k>> # <<u, r, 0>>
        BY <1>2
      <3> QED
        BY <1>1, <2>1, <3>1
    <2>3. Failed(u, r)' = Failed(u, r) /\ ModelFailed(u, r)' = ModelFailed(u, r)
      BY <2>2 DEF Failed, ModelFailed, Exists
    <2>4. files'[<<u, r, 0>>].kind = "torn"
      BY <1>1, <2>1
    <2> QED
      BY <1>3, <1>4, <2>2, <2>3, <2>4
  <1>5. CASE cmd[c].att.kind # "settled"
    <2>1. PathOf(c) = <<u, r, n>>
      BY <1>5 DEF PathOf, RunPath, At
    <2>2. files'[<<u, r, n>>].kind = "torn"
      BY <1>1, <2>1
    <2>3. \A k \in 0 .. MaxAttempt : k # n => files'[<<u, r, k>>] = files[<<u, r, k>>]
      BY <1>1, <1>2, <2>1
    <2>4. Failed(u, r)' = Failed(u, r) \cup {n}
      BY <1>2, <2>2, <2>3 DEF Failed, Exists
    <2>5. ModelFailed(u, r)' = ModelFailed(u, r)
      BY <1>2, <1>3, <2>2, <2>3 DEF ModelFailed
    <2>6. Failed(u, r)' = 1 .. n
      BY <1>3, <2>4 DEF Number
    <2>7. Cardinality(Failed(u, r))' = n
      BY <2>6, FS_Interval DEF Number
    <2>8. \A i \in Failed(u, r) : files'[<<u, r, i>>] = files[<<u, r, i>>]
      BY <1>2, <1>3, <2>3
    <2> QED
      BY <1>3, <1>5, <2>2, <2>3, <2>5, <2>6, <2>7, <2>8
  <1> QED
    BY <1>4, <1>5

(* Writing it out: the same files, the opened one now whole.                   *)
LEMMA TextRun ==
    ASSUME TypeOK, Disk, NEW c \in Cmd, WriteText(c),
           NEW u \in Unit, NEW r \in Run, NEW n \in Number, NEW mf \in Nat,
           At(cmd[c], u, r, n, mf)
    PROVE  /\ Failed(u, r)' = Failed(u, r) /\ (Settled(u, r)' <=> Settled(u, r))
           /\ cmd[c].att.kind = "settled" =>
                 /\ ModelFailed(u, r)' = ModelFailed(u, r) /\ Settled(u, r)
                 /\ files[<<u, r, 0>>].kind = "torn" /\ files'[<<u, r, 0>>].kind = "settled"
                 /\ \A k \in Number : files'[<<u, r, k>>] = files[<<u, r, k>>]
           /\ cmd[c].att.kind # "settled" =>
                 /\ ModelFailed(u, r)' \ {n} = ModelFailed(u, r) \ {n}
                 /\ files'[<<u, r, n>>].kind = cmd[c].att.kind
                 /\ \A k \in 0 .. MaxAttempt : k # n => files'[<<u, r, k>>] = files[<<u, r, k>>]
  <1>1. /\ PathOf(c) \in Path /\ files'[PathOf(c)] = BuildArtifact(c)
        /\ \A p \in Path : p # PathOf(c) => files'[p] = files[p]
        /\ cmd[c].pc = "write" /\ cmd[c].att.kind \in Kind
    BY WriteFields
  <1>2. /\ \A k \in 0 .. MaxAttempt : <<u, r, k>> \in Path
        /\ Number \subseteq 0 .. MaxAttempt /\ 0 \in 0 .. MaxAttempt /\ 0 \notin Number
    BY AttemptAssumption DEF Path, Number
  <1>3. /\ files[PathOf(c)].kind = "torn" /\ files'[PathOf(c)].kind = cmd[c].att.kind
        /\ cmd[c].att.kind # "absent"
    BY <1>1 DEF Disk, DiskInv, BuildArtifact, Kind, FailureKind
  <1>4. \A p \in Path : (files'[p].kind # "absent") <=> (files[p].kind # "absent")
    BY <1>1, <1>3
  <1>5. Failed(u, r)' = Failed(u, r) /\ (Settled(u, r)' <=> Settled(u, r))
    BY <1>2, <1>4 DEF Failed, Settled, Exists
  <1>6. CASE cmd[c].att.kind = "settled"
    <2>1. PathOf(c) = <<u, r, 0>>
      BY <1>6 DEF PathOf, RunPath, At
    <2>2. \A k \in Number : files'[<<u, r, k>>] = files[<<u, r, k>>]
      <3>1. \A k \in Number : <<u, r, k>> \in Path /\ <<u, r, k>> # <<u, r, 0>>
        BY <1>2
      <3> QED
        BY <1>1, <2>1, <3>1
    <2>3. ModelFailed(u, r)' = ModelFailed(u, r)
      BY <2>2 DEF ModelFailed
    <2>4. files[<<u, r, 0>>].kind = "torn" /\ files'[<<u, r, 0>>].kind = "settled" /\ Settled(u, r)
      BY <1>3, <1>6, <2>1 DEF Settled, Exists
    <2> QED
      BY <1>5, <1>6, <2>2, <2>3, <2>4
  <1>7. CASE cmd[c].att.kind # "settled"
    <2>1. PathOf(c) = <<u, r, n>>
      BY <1>7 DEF PathOf, RunPath, At
    <2>2. \A k \in 0 .. MaxAttempt : k # n => files'[<<u, r, k>>] = files[<<u, r, k>>]
      BY <1>1, <1>2, <2>1
    <2>3. ModelFailed(u, r)' \ {n} = ModelFailed(u, r) \ {n}
      BY <1>2, <2>2 DEF ModelFailed
    <2>4. files'[<<u, r, n>>].kind = cmd[c].att.kind
      BY <1>3, <2>1
    <2> QED
      BY <1>5, <1>7, <2>2, <2>3, <2>4
  <1> QED
    BY <1>6, <1>7

(* Nothing is numbered anew but by a write.                                    *)
LEMMA LedgerFrame ==
    ASSUME Numbered, files' = files
    PROVE  /\ Numbered'
           /\ \A u \in Unit, r \in Run :
                 /\ Settled(u, r)' <=> Settled(u, r)
                 /\ Parses(<<u, r, 0>>)' <=> Parses(<<u, r, 0>>)
                 /\ \A n, mf : Ready(u, r, n, mf)' <=> Ready(u, r, n, mf)
                 /\ \A n, mf : Latest(u, r, n, mf)' <=> Latest(u, r, n, mf)
  BY DEF Numbered, Failed, ModelFailed, Settled, Exists, Parses, Ready, Latest

(* The run a command holds, and those it owes, are runs of units.              *)
LEMMA PlanTypes ==
    ASSUME TypeOK, NEW c \in Cmd
    PROVE  /\ \A p \in Active(cmd[c]) : p \in RunPlan /\ p.unit \in Unit /\ p.run \in Run
                                       /\ p.first \in Number /\ p.mf \in Nat
           /\ cmd[c].owed \subseteq Active(cmd[c])
           /\ cmd[c].pc \in HasRun => cmd[c].cur \in Active(cmd[c]) /\ cmd[c].number \in Number
           /\ cmd[c].mf \in Nat
  <1>1. cmd[c] \in CmdState /\ WellFormed(cmd[c])
    BY DEF TypeOK
  <1>2. \A p \in Active(cmd[c]) : p \in RunPlan
    BY <1>1 DEF Active, WellFormed, CmdState
  <1>3. \A p \in RunPlan : p.unit \in Unit /\ p.run \in Run /\ p.first \in Number /\ p.mf \in Nat
    BY DEF RunPlan
  <1> QED
    BY <1>1, <1>2, <1>3 DEF Active, WellFormed, CmdState

(* A command is started on runs ready for it, whose settled runs are whole.    *)
LEMMA StartReady ==
    ASSUME TypeOK, Numbered, NEW c \in Cmd, Start(c)
    PROVE  files' = files /\ OwedInv(cmd[c])' /\ AttemptInv(cmd[c])' /\ WholeInv(cmd[c])'
  <1>1. ASSUME NEW targets \in (SUBSET Unit) \ {{}}, NEW owed, NEW pc \in {"take", "preflight"},
               NEW ceiling, NEW k, Begin(c, targets, owed, pc, ceiling, k),
               \A p \in owed : /\ p.unit \in Unit /\ p.run \in Run /\ Ready(p.unit, p.run, p.first, p.mf)
                               /\ \A q \in Run : Settled(p.unit, q) => Parses(<<p.unit, q, 0>>)
        PROVE  files' = files /\ OwedInv(cmd[c])' /\ AttemptInv(cmd[c])' /\ WholeInv(cmd[c])'
    <2>1. cmd'[c].pc = pc /\ cmd'[c].owed = owed /\ files' = files /\ pc \notin HasRun
      BY <1>1, BeginFields DEF HasRun
    <2>2. Active(cmd'[c]) = owed
      BY <2>1 DEF Active
    <2>3. OwedInv(cmd[c])'
      BY <1>1, <2>1, LedgerFrame DEF OwedInv
    <2>4. AttemptInv(cmd[c])'
      BY <2>1 DEF AttemptInv, At
    <2>5. WholeInv(cmd[c])'
      BY <1>1, <2>1, <2>2, LedgerFrame DEF WholeInv
    <2> QED
      BY <2>1, <2>3, <2>4, <2>5
  <1>2. ASSUME NEW targets \in (SUBSET Unit) \ {{}}, NEW ceiling \in Ceilings, NEW k \in Conf,
               StartFresh(c, targets, ceiling, k)
        PROVE  files' = files /\ OwedInv(cmd[c])' /\ AttemptInv(cmd[c])' /\ WholeInv(cmd[c])'
    <2>1. ASSUME NEW u \in targets, NEW r \in Run PROVE Ready(u, r, 1, 0) /\ ~Settled(u, r)
      <3>1. ~Settled(u, r) /\ 1 \notin Failed(u, r)
        BY <1>2 DEF StartFresh, NoCollision, AttemptUnwritten, AttemptPaths, Settled, Failed
      <3>2. Failed(u, r) = {} /\ ModelFailed(u, r) = {}
        BY <3>1, Counts
      <3> QED
        BY <3>1, <3>2, FS_EmptySet DEF Ready, BLOCKING_MODEL_FAILURES, RETRIES
    <2>2. \A p \in UNION {FreshRuns(u) : u \in targets} :
             /\ p.unit \in targets /\ p.run \in Run /\ p.first = 1 /\ p.mf = 0
      BY DEF FreshRuns
    <2> DEFINE owed == UNION {FreshRuns(u) : u \in targets}
    <2>3. Begin(c, targets, owed, "take", ceiling, k)
      BY <1>2 DEF StartFresh
    <2>4. \A p \in owed :
             /\ p.unit \in Unit /\ p.run \in Run /\ Ready(p.unit, p.run, p.first, p.mf)
             /\ \A q \in Run : Settled(p.unit, q) => Parses(<<p.unit, q, 0>>)
      BY <2>1, <2>2
    <2> HIDE DEF owed
    <2> QED
      BY <1>1, <2>3, <2>4
  <1>3. ASSUME NEW targets \in (SUBSET Unit) \ {{}}, NEW ceiling \in Ceilings, NEW k \in Conf,
               StartResume(c, targets, ceiling, k)
        PROVE  files' = files /\ OwedInv(cmd[c])' /\ AttemptInv(cmd[c])' /\ WholeInv(cmd[c])'
    <2>1. ASSUME NEW u \in targets, NEW p \in OwedRuns(u)
          PROVE  /\ p.unit \in targets /\ p.unit \in Unit /\ p.run \in Run
                 /\ Ready(p.unit, p.run, p.first, p.mf)
                 /\ \A q \in Run : Settled(p.unit, q) => Parses(<<p.unit, q, 0>>)
      <3>1. PICK r \in Run : /\ ~Settled(u, r)
                             /\ p = [unit |-> u, run |-> r, first |-> Cardinality(Failed(u, r)) + 1,
                                     mf |-> Cardinality(ModelFailed(u, r))]
        BY DEF OwedRuns
      <3>2. /\ p.unit = u /\ p.run = r /\ p.first = Cardinality(Failed(u, r)) + 1
            /\ p.mf = Cardinality(ModelFailed(u, r))
        BY <3>1
      <3>3. /\ \A i \in Failed(u, r) : Parses(<<u, r, i>>)
            /\ p.mf < BLOCKING_MODEL_FAILURES
        BY <1>3, <3>1 DEF StartResume, Resumable
      <3>4. \A q \in Run : Settled(u, q) => Parses(<<u, q, 0>>)
        BY <1>3 DEF StartResume, ProvenanceMatches
      <3> QED
        BY <3>1, <3>2, <3>3, <3>4 DEF Ready
    <2>2. \A p \in UNION {OwedRuns(u) : u \in targets} :
             /\ p.unit \in Unit /\ p.run \in Run /\ Ready(p.unit, p.run, p.first, p.mf)
             /\ \A q \in Run : Settled(p.unit, q) => Parses(<<p.unit, q, 0>>)
      BY <2>1
    <2> DEFINE owed == UNION {OwedRuns(u) : u \in targets}
    <2>3. Begin(c, targets, owed, "preflight", ceiling, k)
      BY <1>3 DEF StartResume
    <2>4. \A p \in owed :
             /\ p.unit \in Unit /\ p.run \in Run /\ Ready(p.unit, p.run, p.first, p.mf)
             /\ \A q \in Run : Settled(p.unit, q) => Parses(<<p.unit, q, 0>>)
      BY <2>2
    <2> HIDE DEF owed
    <2> QED
      BY <1>1, <2>3, <2>4
  <1> QED
    BY <1>2, <1>3 DEF Start

(* A step that writes nothing, from a command that is on.                      *)
LEMMA QuietReady ==
    ASSUME TypeOK, Disk, LedgerReady, NEW c \in Cmd, QuietMoves(c)
    PROVE  OwedInv(cmd[c])' /\ AttemptInv(cmd[c])' /\ WholeInv(cmd[c])'
  <1> DEFINE s == cmd[c]
             t == cmd'[c]
  <1>1. /\ Numbered /\ OwedInv(s) /\ AttemptInv(s) /\ WholeInv(s) /\ DiskInv(c)
        /\ files' = files /\ Active(t) \subseteq Active(s)
    BY QuietMoveFields DEF LedgerReady, Disk
  \* Every step but one that settles or retries keeps a settled run whole.
  <1>2. ASSUME NEW p \in Active(t), NEW q \in Run, Settled(p.unit, q)
        PROVE  /\ p.unit \in Unit
               /\ \/ Parses(<<p.unit, q, 0>>)
                  \/ s.pc \in {"write", "account"} /\ p.unit = s.cur.unit /\ q = s.cur.run
    BY <1>1, <1>2, PlanTypes DEF WholeInv
  <1>3. ASSUME \A p \in Active(t), q \in Run :
                  Settled(p.unit, q) => \/ Parses(<<p.unit, q, 0>>)
                                        \/ t.pc \in {"write", "account"} /\ p.unit = t.cur.unit /\ q = t.cur.run
        PROVE  WholeInv(cmd[c])'
    BY <1>1, <1>3 DEF WholeInv, Settled, Exists, Parses
  <1>4. ASSUME \A p \in t.owed : Ready(p.unit, p.run, p.first, p.mf),
               t.pc \in HasRun => \A p \in t.owed : p.unit # t.cur.unit \/ p.run # t.cur.run,
               t.owed \subseteq s.owed
        PROVE  OwedInv(cmd[c])'
    <2>1. \A p \in t.owed : p.unit \in Unit /\ p.run \in Run
      BY <1>4, PlanTypes
    <2> QED
      BY <1>1, <1>4, <2>1, LedgerFrame DEF OwedInv
  <1>5. ASSUME \A u \in Unit, r \in Run, n \in Number, mf \in Nat : At(t, u, r, n, mf) =>
                  /\ t.pc \in {"check", "call", "exists", "open"} => Ready(u, r, n, mf)
                  /\ Opened(t) /\ t.att.kind # "settled" => Latest(u, r, n, mf)
        PROVE  AttemptInv(cmd[c])'
    BY <1>1, <1>5, LedgerFrame DEF AttemptInv, Opened
  \* The steps that stay with the attempt in hand.
  <1>6. ASSUME t.owed = s.owed, t.cur = s.cur, t.number = s.number, t.mf = s.mf,
               \/ s.pc = "preflight" /\ t.pc = "take"
               \/ s.pc \in {"check", "call", "exists"} /\ t.pc \in {"call", "exists", "open"}
               \/ s.pc \in {"exists", "open", "write"} /\ t.pc = "account" /\ t.lost
        PROVE  OwedInv(cmd[c])' /\ AttemptInv(cmd[c])' /\ WholeInv(cmd[c])'
    <2>1. OwedInv(cmd[c])'
      BY <1>1, <1>4, <1>6 DEF OwedInv, HasRun
    <2>2. AttemptInv(cmd[c])'
      BY <1>1, <1>5, <1>6 DEF AttemptInv, At, Opened, HasRun
    <2>3. WholeInv(cmd[c])'
      BY <1>2, <1>3, <1>6
    <2> QED
      BY <2>1, <2>2, <2>3
  <1>7. CASE TakeRun(c)
    <2>1. /\ t.cur \in s.owed /\ t.owed = s.owed \ {t.cur} /\ t.number = t.cur.first
          /\ t.mf = t.cur.mf /\ s.pc = "take" /\ t.pc = "check"
      BY <1>7, TakeFields
    <2>2. \A p \in s.owed : Ready(p.unit, p.run, p.first, p.mf)
      BY <1>1 DEF OwedInv
    \* Two plans for one run would be the same plan.
    <2>3. ASSUME NEW p \in t.owed, p.unit = t.cur.unit, p.run = t.cur.run PROVE FALSE
      <3>1. p.first = t.cur.first /\ p.mf = t.cur.mf
        BY <2>1, <2>2, <2>3 DEF Ready
      <3>2. p \in RunPlan /\ t.cur \in RunPlan
        BY <2>1, PlanTypes
      <3>3. p = t.cur
        BY <2>3, <3>1, <3>2 DEF RunPlan
      <3> QED
        BY <2>1, <3>3
    <2>4. OwedInv(cmd[c])'
      BY <1>4, <2>1, <2>2, <2>3
    <2>5. AttemptInv(cmd[c])'
      BY <1>5, <2>1, <2>2 DEF At, Opened
    <2>6. WholeInv(cmd[c])'
      BY <1>2, <1>3, <2>1
    <2> QED
      BY <2>4, <2>5, <2>6
  <1>8. CASE Settle(c)
    <2>1. /\ s.pc = "account" /\ t.pc = "take" /\ ~s.lost /\ t.owed = s.owed
          /\ s.att.kind = "settled" /\ s.cur = t.cur
      BY <1>8, SettleFields DEF Keeps
    <2>2. Parses(<<s.cur.unit, s.cur.run, 0>>)
      BY <1>1, <2>1 DEF DiskInv, OnDisk, InHand, Paid, RunPath, Parses
    <2>3. WholeInv(cmd[c])'
      BY <1>2, <1>3, <2>1, <2>2
    <2>4. OwedInv(cmd[c])'
      BY <1>1, <1>4, <2>1 DEF OwedInv, HasRun
    <2>5. AttemptInv(cmd[c])'
      BY <1>5, <2>1 DEF At, HasRun
    <2> QED
      BY <2>3, <2>4, <2>5
  <1>9. CASE Retry(c)
    <2>1. /\ s.pc = "account" /\ t.pc = "check" /\ ~s.lost /\ s.att.kind # "settled"
          /\ t.owed = s.owed /\ t.cur = s.cur /\ t.number = s.number + 1
          /\ t.mf = ModelFailures(c) /\ ModelFailures(c) < BLOCKING_MODEL_FAILURES
      BY <1>9, RetryFields
    <2> DEFINE u == s.cur.unit
               r == s.cur.run
               n == s.number
    <2>2. u \in Unit /\ r \in Run /\ n \in Number /\ n \in Nat /\ s.mf \in Nat
      BY <2>1, PlanTypes DEF HasRun, Number
    <2>3. Latest(u, r, n, s.mf)
      BY <1>1, <2>1, <2>2 DEF AttemptInv, At, Opened, HasRun
    <2>4. files[<<u, r, n>>].kind = s.att.kind /\ s.att.kind \in FailureKind
      <3>1. OnDisk(c, InHand(c)) /\ InHand(c).path = <<u, r, n>> /\ InHand(c).kind = s.att.kind
        BY <1>1, <2>1 DEF DiskInv, InHand, Paid, RunPath
      <3>2. s.att \in Attempt(u)
        BY <2>1 DEF TypeOK, WellFormed, HasAttempt
      <3> QED
        BY <2>1, <3>1, <3>2 DEF OnDisk, Attempt, Kind
    <2>5. Ready(u, r, n + 1, t.mf)
      <3>1. Parses(<<u, r, n>>)
        BY <2>4 DEF Parses, FailureKind
      <3>2. (n \in ModelFailed(u, r)) <=> (s.att.kind = "model")
        BY <2>2, <2>4 DEF ModelFailed
      <3>3. t.mf = Cardinality(ModelFailed(u, r))
        <4> DEFINE M == ModelFailed(u, r)
        <4>1. IsFiniteSet(M) /\ Cardinality(M) \in Nat
          BY FailedFinite
        <4>2. Cardinality(M \ {n}) = IF n \in M THEN Cardinality(M) - 1 ELSE Cardinality(M)
          BY <4>1, FS_RemoveElement
        <4>3. s.mf = Cardinality(M \ {n})
          BY <2>3 DEF Latest
        <4>4. t.mf = s.mf + (IF s.att.kind = "model" THEN 1 ELSE 0)
          BY <2>1 DEF ModelFailures
        <4>5. (n \in M) <=> (s.att.kind = "model")
          BY <3>2
        <4>6. t.mf = Cardinality(M)
          <5> HIDE DEF M
          <5> QED
            BY <2>2, <4>1, <4>2, <4>3, <4>4, <4>5
        <4> QED
          BY <4>6
      <3> QED
        BY <2>1, <2>3, <3>1, <3>3 DEF Ready, Latest
    <2>6. ~Settled(u, r)
      BY <2>3 DEF Latest
    <2>7. AttemptInv(cmd[c])'
      BY <1>5, <2>1, <2>5 DEF At, Opened
    <2>8. OwedInv(cmd[c])'
      BY <1>1, <1>4, <2>1 DEF OwedInv, HasRun
    <2>9. WholeInv(cmd[c])'
      BY <1>2, <1>3, <2>1, <2>6
    <2> QED
      BY <2>7, <2>8, <2>9
  <1>10. CASE WriteExists(c) \/ WriteFails(c)
    BY <1>6, <1>10, ExistsFields, FailsFields DEF Keeps
  <1>11. CASE (ResumePreflight(c) /\ ~Stop(c)) \/ (Check(c) /\ ~Stop(c))
    BY <1>6, <1>11, PreflightFields, CheckFields DEF Keeps
  <1>12. CASE Call(c)
    BY <1>6, <1>12, CallFields
  <1> QED
    BY <1>7, <1>8, <1>9, <1>10, <1>11, <1>12 DEF QuietMoves

(* A step that opens or writes out an attempt.                                 *)
LEMMA WriteReady ==
    ASSUME TypeOK, Disk, LedgerReady, NEW c \in Cmd, WriteOpen(c) \/ WriteText(c)
    PROVE  Numbered' /\ OwedInv(cmd[c])' /\ AttemptInv(cmd[c])' /\ WholeInv(cmd[c])'
  <1>1. /\ Numbered /\ OwedInv(cmd[c]) /\ AttemptInv(cmd[c]) /\ WholeInv(cmd[c])
        /\ cmd[c].pc \in HasRun
    BY WriteFields DEF LedgerReady, HasAttempt, HasRun
  <1>2. PICK u \in Unit, r \in Run, n \in Number, mf \in Nat : At(cmd[c], u, r, n, mf)
    BY <1>1, PlanTypes DEF At
  <1>3. /\ \A v \in Unit, q \in Run, m \in Number, f \in Nat :
              At(cmd'[c], v, q, m, f) => v = u /\ q = r /\ m = n /\ f = mf
        /\ cmd'[c].cur = cmd[c].cur /\ cmd'[c].owed = cmd[c].owed /\ cmd'[c].att = cmd[c].att
        /\ cmd'[c].lost = cmd[c].lost
        /\ Active(cmd'[c]) = Active(cmd[c])
        /\ WriteOpen(c) => cmd[c].pc = "open" /\ cmd'[c].pc = "write"
        /\ WriteText(c) => cmd[c].pc = "write" /\ cmd'[c].pc = "account"
    BY <1>1, <1>2, WriteFields DEF At, Keeps, Active, HasRun
  <1>4. ASSUME NEW v \in Unit, NEW q \in Run, v # u \/ q # r
        PROVE  \A k \in 0 .. MaxAttempt : files'[<<v, q, k>>] = files[<<v, q, k>>]
    BY <1>2, <1>4, OtherRuns DEF At
  <1>5. Number \subseteq 0 .. MaxAttempt /\ 0 \in 0 .. MaxAttempt /\ 0 \notin Number
    BY AttemptAssumption DEF Number
  <1>6. ASSUME NEW v \in Unit, NEW q \in Run, v # u \/ q # r
        PROVE  /\ Failed(v, q)' = Failed(v, q) /\ (Settled(v, q)' <=> Settled(v, q))
               /\ \A k \in 0 .. MaxAttempt : files'[<<v, q, k>>].kind = files[<<v, q, k>>].kind
               /\ Parses(<<v, q, 0>>)' <=> Parses(<<v, q, 0>>)
               /\ \A m, f : Ready(v, q, m, f)' <=> Ready(v, q, m, f)
    BY <1>1, <1>4, <1>5, <1>6, RunSame
  <1>7. OwedInv(cmd[c])'
    <2>1. \A p \in cmd[c].owed :
             /\ p.unit \in Unit /\ p.run \in Run /\ Ready(p.unit, p.run, p.first, p.mf)
             /\ p.unit # u \/ p.run # r
      BY <1>1, <1>2, PlanTypes DEF OwedInv, At
    <2>2. \A p \in cmd[c].owed : Ready(p.unit, p.run, p.first, p.mf)'
      BY <1>6, <2>1
    <2> QED
      BY <1>2, <1>3, <2>1, <2>2 DEF OwedInv, At
  <1>8. ASSUME /\ Failed(u, r)' = 1 .. Cardinality(Failed(u, r))'
               /\ files'[<<u, r, 0>>].kind \in {"absent", "torn", "settled"}
               /\ \A k \in Number : files'[<<u, r, k>>].kind \in {"absent", "torn"} \cup FailureKind
        PROVE  Numbered'
    <2>1. \A v \in Unit, q \in Run : Failed(v, q)' = 1 .. Cardinality(Failed(v, q))'
      BY <1>1, <1>6, <1>8 DEF Numbered
    <2>2. \A v \in Unit, q \in Run : files'[<<v, q, 0>>].kind \in {"absent", "torn", "settled"}
      BY <1>1, <1>5, <1>6, <1>8 DEF Numbered
    <2>3. \A v \in Unit, q \in Run, k \in Number :
             files'[<<v, q, k>>].kind \in {"absent", "torn"} \cup FailureKind
      BY <1>1, <1>5, <1>6, <1>8 DEF Numbered
    <2> QED
      BY <2>1, <2>2, <2>3 DEF Numbered
  <1>9. ASSUME cmd[c].att.kind # "settled" => files'[<<u, r, 0>>] = files[<<u, r, 0>>]
        PROVE  WholeInv(cmd[c])'
    <2> SUFFICES ASSUME NEW p \in Active(cmd[c]), NEW q \in Run, Settled(p.unit, q)',
                        p.unit # u \/ q # r
                 PROVE  Parses(<<p.unit, q, 0>>)'
      BY <1>2, <1>3 DEF WholeInv, At
    <2>1. p.unit \in Unit
      BY PlanTypes
    <2>2. Settled(p.unit, q) /\ (Parses(<<p.unit, q, 0>>)' <=> Parses(<<p.unit, q, 0>>))
      BY <1>6, <2>1
    <2> QED
      BY <1>1, <1>2, <2>2 DEF WholeInv, At
  <1>10. /\ n \in Number /\ n # 0 /\ Failed(u, r) = 1 .. Cardinality(Failed(u, r))
         /\ Failed(u, r) \subseteq Number
         /\ files[<<u, r, 0>>].kind \in {"absent", "torn", "settled"}
         /\ \A k \in Number : files[<<u, r, k>>].kind \in {"absent", "torn"} \cup FailureKind
    BY <1>1, <1>5, Counts DEF Numbered
  <1>11. CASE WriteOpen(c)
    <2>1. Ready(u, r, n, mf) /\ cmd'[c].pc = "write" /\ ~WriteText(c)
      BY <1>1, <1>2, <1>3, <1>11 DEF AttemptInv, WriteOpen, WriteText
    <2>4. /\ ModelFailed(u, r)' = ModelFailed(u, r) /\ n \notin ModelFailed(u, r)
          /\ cmd[c].att.kind = "settled" =>
                /\ Failed(u, r)' = Failed(u, r)
                /\ files'[<<u, r, 0>>].kind = "torn"
                /\ \A k \in Number : files'[<<u, r, k>>] = files[<<u, r, k>>]
          /\ cmd[c].att.kind # "settled" =>
                /\ Failed(u, r)' = 1 .. n /\ Cardinality(Failed(u, r))' = n
                /\ files'[<<u, r, n>>].kind = "torn"
                /\ \A k \in 0 .. MaxAttempt : k # n => files'[<<u, r, k>>] = files[<<u, r, k>>]
      BY <1>1, <1>2, <1>11, <2>1, OpenRun
    <2>2. CASE cmd[c].att.kind = "settled"
      <3>1. /\ Failed(u, r)' = Failed(u, r) /\ files'[<<u, r, 0>>].kind = "torn"
            /\ \A k \in Number : files'[<<u, r, k>>] = files[<<u, r, k>>]
        BY <2>2, <2>4
      <3>2. Numbered'
        BY <1>8, <1>10, <3>1
      <3>3. AttemptInv(cmd[c])'
        BY <1>3, <2>1, <2>2 DEF AttemptInv
      <3> QED
        BY <1>7, <1>9, <2>2, <3>2, <3>3
    <2>3. CASE cmd[c].att.kind # "settled"
      <3>1. /\ Failed(u, r)' = 1 .. n /\ Cardinality(Failed(u, r))' = n
            /\ files'[<<u, r, n>>].kind = "torn"
            /\ \A k \in 0 .. MaxAttempt : k # n => files'[<<u, r, k>>] = files[<<u, r, k>>]
            /\ ModelFailed(u, r)' = ModelFailed(u, r) /\ n \notin ModelFailed(u, r)
        BY <2>3, <2>4
      <3>2. Numbered'
        <4>1. \A k \in Number : files'[<<u, r, k>>].kind \in {"absent", "torn"} \cup FailureKind
          BY <1>5, <1>10, <3>1
        <4>2. files'[<<u, r, 0>>].kind \in {"absent", "torn", "settled"}
          BY <1>5, <1>10, <3>1
        <4> QED
          BY <1>8, <3>1, <4>1, <4>2
      <3>3. Latest(u, r, n, mf)'
        <4>1. ~Settled(u, r)'
          BY <1>5, <1>10, <2>1, <3>1 DEF Ready, Settled, Exists
        <4>2. (ModelFailed(u, r) \ {n})' = ModelFailed(u, r)
          BY <3>1
        <4>3. \A i \in Failed(u, r)' : i = n \/ Parses(<<u, r, i>>)'
          <5>1. ASSUME NEW i \in 1 .. n, i # n PROVE files'[<<u, r, i>>].kind # "torn"
            <6>1. i \in Failed(u, r)
              <7>1. Failed(u, r) = 1 .. (n - 1)
                BY <1>1, <2>1, Counts DEF Ready
              <7> QED
                BY <5>1, <7>1 DEF Number
            <6>2. i \in 0 .. MaxAttempt /\ files[<<u, r, i>>].kind # "torn"
              BY <1>5, <1>10, <2>1, <6>1 DEF Ready, Parses
            <6> QED
              BY <3>1, <5>1, <6>2
          <5> QED
            BY <3>1, <5>1 DEF Parses
        <4>4. mf = Cardinality(ModelFailed(u, r))
          BY <2>1 DEF Ready
        <4> QED
          BY <3>1, <4>1, <4>2, <4>3, <4>4 DEF Latest
      <3>4. AttemptInv(cmd[c])'
        BY <1>3, <2>1, <3>3 DEF AttemptInv
      <3>5. files'[<<u, r, 0>>] = files[<<u, r, 0>>]
        BY <1>5, <1>10, <3>1
      <3> QED
        BY <1>7, <1>9, <3>2, <3>4, <3>5
    <2> QED
      BY <2>2, <2>3
  <1>12. CASE WriteText(c)
    <2>1. cmd[c].pc = "write" /\ cmd'[c].pc = "account" /\ cmd[c].att.kind \in Kind
      BY <1>3, <1>12, WriteFields
    <2>2. /\ Failed(u, r)' = Failed(u, r) /\ (Settled(u, r)' <=> Settled(u, r))
          /\ cmd[c].att.kind = "settled" =>
                /\ ModelFailed(u, r)' = ModelFailed(u, r) /\ Settled(u, r)
                /\ files[<<u, r, 0>>].kind = "torn" /\ files'[<<u, r, 0>>].kind = "settled"
                /\ \A k \in Number : files'[<<u, r, k>>] = files[<<u, r, k>>]
          /\ cmd[c].att.kind # "settled" =>
                /\ ModelFailed(u, r)' \ {n} = ModelFailed(u, r) \ {n}
                /\ files'[<<u, r, n>>].kind = cmd[c].att.kind
                /\ \A k \in 0 .. MaxAttempt : k # n => files'[<<u, r, k>>] = files[<<u, r, k>>]
      BY <1>2, <1>12, TextRun
    <2>3. CASE cmd[c].att.kind = "settled"
      <3>1. /\ files'[<<u, r, 0>>].kind = "settled"
            /\ \A k \in Number : files'[<<u, r, k>>] = files[<<u, r, k>>]
        BY <2>2, <2>3
      <3>2. Numbered'
        BY <1>8, <1>10, <2>2, <3>1
      <3>3. AttemptInv(cmd[c])'
        BY <1>3, <2>1, <2>3 DEF AttemptInv
      <3> QED
        BY <1>7, <1>9, <2>3, <3>2, <3>3
    <2>4. CASE cmd[c].att.kind # "settled"
      <3>1. /\ ModelFailed(u, r)' \ {n} = ModelFailed(u, r) \ {n}
            /\ files'[<<u, r, n>>].kind \in FailureKind
            /\ \A k \in 0 .. MaxAttempt : k # n => files'[<<u, r, k>>] = files[<<u, r, k>>]
        <4>1. /\ ModelFailed(u, r)' \ {n} = ModelFailed(u, r) \ {n}
              /\ files'[<<u, r, n>>].kind = cmd[c].att.kind
              /\ \A k \in 0 .. MaxAttempt : k # n => files'[<<u, r, k>>] = files[<<u, r, k>>]
          BY <2>2, <2>4
        <4> QED
          BY <2>1, <2>4, <4>1 DEF Kind
      <3>2. Numbered'
        <4>1. \A k \in Number : files'[<<u, r, k>>].kind \in {"absent", "torn"} \cup FailureKind
          BY <1>5, <1>10, <3>1
        <4>2. files'[<<u, r, 0>>].kind \in {"absent", "torn", "settled"}
          BY <1>5, <1>10, <3>1
        <4> QED
          BY <1>8, <1>10, <2>2, <4>1, <4>2
      <3>3. Latest(u, r, n, mf)'
        <4>1. cmd[c].pc = "write" => Latest(u, r, n, mf)
          BY <1>1, <1>2, <2>4 DEF AttemptInv, Opened
        <4>2. \A i \in Failed(u, r) : i = n \/ (Parses(<<u, r, i>>)' <=> Parses(<<u, r, i>>))
          BY <1>5, <1>10, <3>1 DEF Parses
        <4>3. (ModelFailed(u, r) \ {n})' = ModelFailed(u, r) \ {n}
          BY <3>1
        <4> QED
          BY <2>1, <2>2, <4>1, <4>2, <4>3 DEF Latest
      <3>4. AttemptInv(cmd[c])'
        BY <1>3, <2>1, <3>3 DEF AttemptInv
      <3>5. files'[<<u, r, 0>>] = files[<<u, r, 0>>]
        BY <1>5, <1>10, <3>1
      <3> QED
        BY <1>7, <1>9, <3>2, <3>4, <3>5
    <2> QED
      BY <2>3, <2>4
  <1> QED
    BY <1>11, <1>12

\* Every step keeps the attempts numbered and the runs in hand ready for their next one.
LEMMA LedgerStep ==
    ASSUME OneAtATime PROVE TypeOK /\ Disk /\ LedgerReady /\ [Next]_vars => LedgerReady'
<1> SUFFICES ASSUME TypeOK, Disk, LedgerReady, [Next]_vars PROVE LedgerReady'
  OBVIOUS
<1>1. CASE UNCHANGED vars
  <2>1. Numbered' /\ files' = files /\ cmd' = cmd
    BY <1>1, LedgerFrame DEF LedgerReady, vars
  <2> SUFFICES ASSUME NEW c \in Cmd PROVE OwedInv(cmd[c])' /\ AttemptInv(cmd[c])' /\ WholeInv(cmd[c])'
    BY <2>1 DEF LedgerReady
  <2>2. OwedInv(cmd[c]) /\ AttemptInv(cmd[c]) /\ WholeInv(cmd[c])
    BY DEF LedgerReady
  <2>3. OwedInv(cmd[c])'
    BY <2>1, <2>2 DEF OwedInv, Ready, Failed, ModelFailed, Settled, Exists, Parses
  <2>4. AttemptInv(cmd[c])'
    <3>1. \A u \in Unit, r \in Run : \A n, mf :
             (Ready(u, r, n, mf)' <=> Ready(u, r, n, mf)) /\ (Latest(u, r, n, mf)' <=> Latest(u, r, n, mf))
      BY <2>1, LedgerFrame DEF LedgerReady
    <3> QED
      BY <2>1, <2>2, <3>1 DEF AttemptInv
  <2>5. WholeInv(cmd[c])'
    BY <2>1, <2>2 DEF WholeInv, Settled, Exists, Parses
  <2> QED
    BY <2>3, <2>4, <2>5
<1>2. ASSUME NEW c \in Cmd, Moves(c) PROVE LedgerReady'
  <2>1. Numbered /\ \A d \in Cmd : d = c
    BY DEF LedgerReady, OneAtATime
  <2>2. SUFFICES Numbered' /\ OwedInv(cmd[c])' /\ AttemptInv(cmd[c])' /\ WholeInv(cmd[c])'
    BY <2>1 DEF LedgerReady
  <2>3. CASE Start(c)
    BY <2>1, <2>3, StartReady, LedgerFrame
  <2>4. CASE Stop(c) /\ UNCHANGED files
    <3>1. cmd'[c].owed = {} /\ cmd'[c].pc \notin HasRun
      BY <2>4, StopIs DEF Idle, HasRun
    <3>2. Active(cmd'[c]) = {}
      BY <3>1 DEF Active
    <3>3. OwedInv(cmd[c])' /\ AttemptInv(cmd[c])' /\ WholeInv(cmd[c])'
      BY <3>1, <3>2 DEF OwedInv, AttemptInv, WholeInv, At
    <3> QED
      BY <2>1, <2>4, <3>3, LedgerFrame
  <2>5. CASE QuietMoves(c)
    BY <2>1, <2>5, QuietReady, QuietMoveFields, LedgerFrame
  <2>6. CASE WriteOpen(c) \/ WriteText(c)
    BY <2>6, WriteReady
  <2> QED
    BY <1>2, <2>3, <2>4, <2>5, <2>6 DEF Moves, QuietMoves
<1> QED
  BY <1>1, <1>2, StepMoves

(* One command at a time, whatever it owes stays ready for it.                 *)
LEMMA LedgerAlways == ASSUME OneAtATime PROVE Spec => []LedgerReady
<1>1. Init => LedgerReady
  <2> SUFFICES ASSUME Init PROVE LedgerReady
    OBVIOUS
  <2>1. \A p \in Path : files[p].kind = "absent"
    BY DEF Init, NoFile
  <2>2. \A u \in Unit, r \in Run : Failed(u, r) = {} /\ files[<<u, r, 0>>].kind = "absent"
                                  /\ \A n \in Number : files[<<u, r, n>>].kind = "absent"
    BY <2>1, AttemptPath DEF Failed, Exists
  <2>3. Numbered
    <3>1. Cardinality({}) = 0 /\ 1 .. 0 = {}
      BY FS_EmptySet
    <3> QED
      BY <2>2, <3>1 DEF Numbered
  <2>4. \A c \in Cmd : cmd[c].owed = {} /\ cmd[c].pc \notin HasRun /\ Active(cmd[c]) = {}
    BY DEF Init, Idle, HasRun, Active
  <2> QED
    BY <2>3, <2>4 DEF LedgerReady, OwedInv, AttemptInv, WholeInv, At
<1> QED
  BY <1>1, LedgerStep, DiskAlways, TypeInvariant, PTL DEF Spec
-----------------------------------------------------------------------------
(* The directory as RunLedger sees it.                                         *)

Entry == Kind \cup {"torn", "absent"}
FailedKinds(u, r) == [n \in 1 .. Cardinality(Failed(u, r)) |-> files[<<u, r, n>>].kind]

(* A history is its failed attempts, and its settled one if it has that.       *)
LEMMA HistoryIs ==
    ASSUME TypeOK, Numbered, NEW u \in Unit, NEW r \in Run
    PROVE  /\ FailedKinds(u, r) \in Seq(Entry)
           /\ Len(FailedKinds(u, r)) = Cardinality(Failed(u, r))
           /\ files[<<u, r, 0>>].kind \in Entry
           /\ ~Settled(u, r) => History(u, r) = FailedKinds(u, r)
           /\ Settled(u, r) => History(u, r) = Append(FailedKinds(u, r), files[<<u, r, 0>>].kind)
  <1>1. \A p \in Path : files[p].kind \in Entry
    BY DEF TypeOK, File, Entry
  <1>2. \A n \in 1 .. Cardinality(Failed(u, r)) : files[<<u, r, n>>].kind \in Entry
    BY <1>1, Counts, AttemptPath
  <1>3. Cardinality(Failed(u, r)) \in Nat
    BY Counts
  <1>4. FailedKinds(u, r) \in [1 .. Cardinality(Failed(u, r)) -> Entry]
    BY <1>2 DEF FailedKinds
  <1>5. FailedKinds(u, r) \in Seq(Entry) /\ Len(FailedKinds(u, r)) = Cardinality(Failed(u, r))
    BY <1>3, <1>4
  <1>6. files[<<u, r, 0>>].kind \in Entry
    BY <1>1, AttemptPath
  <1>7. History(u, r) = FailedKinds(u, r) \o (IF Settled(u, r) THEN <<files[<<u, r, 0>>].kind>> ELSE <<>>)
    BY DEF History, FailedKinds
  <1>8. ~Settled(u, r) => History(u, r) = FailedKinds(u, r)
    BY <1>5, <1>7, ConcatEmptySeq
  <1>9. Settled(u, r) => History(u, r) = Append(FailedKinds(u, r), files[<<u, r, 0>>].kind)
    BY <1>5, <1>6, <1>7, AppendIsConcat
  <1> QED
    BY <1>5, <1>6, <1>8, <1>9

(* RunLedger counts as this module does.                                       *)
LEMMA SameCount == ASSUME NEW S PROVE Ledger!Cardinality(S) = Cardinality(S)
  BY DEF Ledger!Cardinality, Cardinality

(* A step that changes one history changes the ledger there.                   *)
LEMMA LedgerChange ==
    ASSUME NEW u \in Unit, NEW r \in Run, NEW h, History(u, r)' = h,
           \A v \in Unit, q \in Run : v # u \/ q # r => History(v, q)' = History(v, q)
    PROVE  \A s \in Unit \X Run :
              History(s[1], s[2])' = IF s = <<u, r>> THEN h ELSE History(s[1], s[2])
  <1> SUFFICES ASSUME NEW s \in Unit \X Run
               PROVE  History(s[1], s[2])' = IF s = <<u, r>> THEN h ELSE History(s[1], s[2])
    OBVIOUS
  <1>1. s[1] \in Unit /\ s[2] \in Run /\ s = <<s[1], s[2]>>
    OBVIOUS
  <1>2. CASE s = <<u, r>>
    BY <1>2
  <1>3. CASE s # <<u, r>>
    BY <1>1, <1>3
  <1> QED
    BY <1>2, <1>3

(* Opening an attempt begins an entry of its run.                              *)
LEMMA BeginsEntry ==
    ASSUME TypeOK, Disk, LedgerReady, Order, NEW c \in Cmd, WriteOpen(c)
    PROVE  Ledger!Next
  <1>1. /\ Numbered /\ OwedInv(cmd[c]) /\ AttemptInv(cmd[c]) /\ WholeInv(cmd[c])
        /\ cmd[c].pc \in HasRun /\ cmd[c].pc = "open"
    BY WriteFields DEF LedgerReady, HasAttempt, HasRun
  <1>2. PICK u \in Unit, r \in Run, n \in Number, mf \in Nat : At(cmd[c], u, r, n, mf)
    BY <1>1, PlanTypes DEF At
  <1>3. Ready(u, r, n, mf)
    BY <1>1, <1>2 DEF AttemptInv
  <1> DEFINE F == FailedKinds(u, r)
             k == Cardinality(Failed(u, r))
             ledger == [s \in Unit \X Run |-> History(s[1], s[2])]
  <1>4. /\ F \in Seq(Entry) /\ Len(F) = k /\ k \in Nat /\ n = k + 1
        /\ ledger[<<u, r>>] = F /\ ~Settled(u, r)
    BY <1>1, <1>3, HistoryIs, Counts DEF Ready
  \* The entries so far are whole failures, too few to block.
  <1>5. ASSUME NEW i \in 1 .. k PROVE F[i] \in FailureKind
    <2>1. i \in Failed(u, r) /\ i \in Number
      BY <1>1, Counts
    <2>2. files[<<u, r, i>>].kind \in FailureKind
      BY <1>1, <1>3, <2>1 DEF Numbered, Ready, Parses, Failed, Exists
    <2> QED
      BY <2>2 DEF FailedKinds
  <1>6. Cardinality({i \in 1 .. Len(F) : F[i] = "model"}) < BLOCKING_MODEL_FAILURES
    <2>1. {i \in 1 .. Len(F) : F[i] = "model"} = ModelFailed(u, r)
      <3>1. Failed(u, r) = 1 .. k /\ ModelFailed(u, r) \subseteq 1 .. k /\ 1 .. k \subseteq Number
        BY <1>1, Counts
      <3> QED
        BY <1>4, <3>1 DEF FailedKinds, ModelFailed
    <2> QED
      BY <1>3, <2>1 DEF Ready
  <1>7. Ledger!Open(<<u, r>>)
    <2>1. ~Ledger!Ends(<<u, r>>, "settled") /\ ~Ledger!Ends(<<u, r>>, Ledger!Begun)
      BY <1>4, <1>5 DEF Ledger!Ends, Ledger!Begun, FailureKind
    <2>2. Ledger!ModelEntries(<<u, r>>) = {i \in 1 .. Len(F) : F[i] = "model"}
      BY <1>4 DEF Ledger!ModelEntries
    <2> QED
      BY <1>6, <2>1, <2>2, SameCount DEF Ledger!Open
  \* The run before it is settled, and its file is whole.
  <1>8. ASSUME r - 1 \in Run PROVE Ledger!Ends(<<u, r - 1>>, "settled")
    <2>1. Settled(u, r - 1) /\ Parses(<<u, r - 1, 0>>)
      <3>1. r > 1
        BY <1>8 DEF Run
      <3>2. <<u, r - 1, 0>> \in Here
        BY <1>1, <1>2, <3>1 DEF Order, PlanInv, At
      <3>3. cmd[c].cur \in Active(cmd[c])
        BY <1>1, PlanTypes
      <3> QED
        BY <1>1, <1>2, <1>8, <3>2, <3>3 DEF Here, Settled, WholeInv, At
    <2>2. files[<<u, r - 1, 0>>].kind = "settled"
      BY <1>1, <1>8, <2>1 DEF Numbered, Settled, Exists, Parses
    <2>3. ledger[<<u, r - 1>>] = Append(FailedKinds(u, r - 1), "settled")
          /\ FailedKinds(u, r - 1) \in Seq(Entry) /\ "settled" \in Entry
      BY <1>1, <1>8, <2>1, <2>2, HistoryIs
    <2>4. ledger[<<u, r - 1>>] # <<>> /\ ledger[<<u, r - 1>>][Len(ledger[<<u, r - 1>>])] = "settled"
      <3> HIDE DEF ledger
      <3> QED
        BY <2>3, AppendProperties
    <2> QED
      BY <2>4 DEF Ledger!Ends
  <1>9. History(u, r)' = Append(F, "torn")
    <2>3. /\ ModelFailed(u, r)' = ModelFailed(u, r) /\ n \notin ModelFailed(u, r)
          /\ cmd[c].att.kind = "settled" =>
                /\ Failed(u, r)' = Failed(u, r)
                /\ files'[<<u, r, 0>>].kind = "torn"
                /\ \A i \in Number : files'[<<u, r, i>>] = files[<<u, r, i>>]
          /\ cmd[c].att.kind # "settled" =>
                /\ Failed(u, r)' = 1 .. n /\ Cardinality(Failed(u, r))' = n
                /\ files'[<<u, r, n>>].kind = "torn"
                /\ \A i \in 0 .. MaxAttempt : i # n => files'[<<u, r, i>>] = files[<<u, r, i>>]
      BY <1>1, <1>2, <1>3, OpenRun
    <2>1. CASE cmd[c].att.kind = "settled"
      <3>1. /\ Failed(u, r)' = Failed(u, r) /\ files'[<<u, r, 0>>].kind = "torn"
            /\ \A i \in Number : files'[<<u, r, i>>] = files[<<u, r, i>>]
        BY <2>1, <2>3
      <3>2. Settled(u, r)'
        BY <3>1 DEF Settled, Exists
      <3>3. FailedKinds(u, r)' = F
        <4>1. \A i \in 1 .. k : files'[<<u, r, i>>].kind = files[<<u, r, i>>].kind
          BY <1>1, <3>1, Counts
        <4> QED
          BY <3>1, <4>1 DEF FailedKinds
      <3>4. History(u, r)' = FailedKinds(u, r)' \o <<"torn">>
        BY <3>1, <3>2 DEF History, FailedKinds
      <3> QED
        BY <1>4, <3>3, <3>4, AppendIsConcat DEF Entry
    <2>2. CASE cmd[c].att.kind # "settled"
      <3>1. /\ Failed(u, r)' = 1 .. n /\ Cardinality(Failed(u, r))' = n
            /\ files'[<<u, r, n>>].kind = "torn"
            /\ \A i \in 0 .. MaxAttempt : i # n => files'[<<u, r, i>>] = files[<<u, r, i>>]
        BY <2>2, <2>3
      <3>2. ~Settled(u, r)'
        BY <1>4, <3>1, AttemptAssumption DEF Settled, Exists, Number
      <3> DEFINE G == [i \in 1 .. n |-> files'[<<u, r, i>>].kind]
      <3>3. \A i \in 1 .. k : G[i] = F[i]
        <4>1. \A i \in 1 .. k : i \in 0 .. MaxAttempt /\ i # n /\ i \in 1 .. n
          BY <1>4, AttemptAssumption DEF Number
        <4> QED
          BY <3>1, <4>1 DEF FailedKinds
      <3>4. G[n] = "torn"
        BY <1>4, <3>1
      <3>5. G \in Seq(Entry) /\ Len(G) = n
        <4>1. \A i \in 1 .. n : G[i] \in Entry
          <5>1. \A i \in 1 .. n : i \in 1 .. k \/ i = n
            BY <1>4
          <5> QED
            BY <1>5, <3>3, <3>4, <5>1 DEF Entry, Kind
        <4>2. G \in [1 .. n -> Entry] /\ n \in Nat
          BY <1>4, <4>1
        <4> HIDE DEF G
        <4> QED
          BY <4>2
      <3>6. G = Append(F, "torn")
        <4> HIDE DEF G, F
        <4>1. /\ Append(F, "torn") \in Seq(Entry) /\ Len(Append(F, "torn")) = n
              /\ \A i \in 1 .. k : Append(F, "torn")[i] = F[i]
              /\ Append(F, "torn")[n] = "torn"
          BY <1>4, AppendProperties DEF Entry
        <4>2. \A i \in 1 .. n : i \in 1 .. k \/ i = n
          BY <1>4
        <4> QED
          BY <3>3, <3>4, <3>5, <4>1, <4>2, SeqEqual
      <3>7. History(u, r)' = G \o <<>>
        BY <3>1, <3>2 DEF History
      <3> QED
        BY <3>5, <3>6, <3>7, ConcatEmptySeq
    <2> QED
      BY <2>1, <2>2
  <1>10. \A v \in Unit, q \in Run : v # u \/ q # r => History(v, q)' = History(v, q)
    BY <1>1, <1>2, OtherRuns, RunSame DEF At
  <1>11. ledger' = [ledger EXCEPT ![<<u, r>>] = Append(@, "torn")]
    <2> DEFINE h == Append(F, "torn")
    <2>1. \A s \in Unit \X Run :
             History(s[1], s[2])' = IF s = <<u, r>> THEN h ELSE History(s[1], s[2])
      <3>1. History(u, r)' = h
        BY <1>9
      <3> HIDE DEF h
      <3> QED
        BY <1>10, <3>1, LedgerChange
    <2>2. ledger' = [ledger EXCEPT ![<<u, r>>] = Append(F, "torn")]
      <3> HIDE DEF h
      <3>1. ledger' = [ledger EXCEPT ![<<u, r>>] = h]
        BY <2>1
      <3> QED
        BY <3>1 DEF h
    <2> HIDE DEF ledger, F
    <2> QED
      BY <1>4, <2>2
  <1> QED
    BY <1>7, <1>8, <1>11 DEF Ledger!Next, Ledger!Begin, Ledger!Begun

(* Writing it out completes that entry.                                        *)
LEMMA CompletesEntry ==
    ASSUME TypeOK, Disk, LedgerReady, NEW c \in Cmd, WriteText(c)
    PROVE  Ledger!Next
  <1>1. /\ Numbered /\ OwedInv(cmd[c]) /\ AttemptInv(cmd[c])
        /\ cmd[c].pc \in HasRun /\ cmd[c].pc = "write"
        /\ cmd[c].att.kind \in {"settled", "model", "transport"}
    BY WriteFields DEF LedgerReady, HasAttempt, HasRun, Kind, FailureKind
  <1>2. PICK u \in Unit, r \in Run, n \in Number, mf \in Nat : At(cmd[c], u, r, n, mf)
    BY <1>1, PlanTypes DEF At
  <1> DEFINE F == FailedKinds(u, r)
             k == Cardinality(Failed(u, r))
             H == History(u, r)
             e == cmd[c].att.kind
             ledger == [s \in Unit \X Run |-> History(s[1], s[2])]
  <1>3. F \in Seq(Entry) /\ Len(F) = k /\ k \in Nat /\ ledger[<<u, r>>] = H
    BY <1>1, HistoryIs, Counts
  <1>12. At(cmd[c], u, r, n, mf)
    BY <1>2
  <1>13. /\ Failed(u, r)' = Failed(u, r) /\ (Settled(u, r)' <=> Settled(u, r))
         /\ cmd[c].att.kind = "settled" =>
               /\ ModelFailed(u, r)' = ModelFailed(u, r) /\ Settled(u, r)
               /\ files[<<u, r, 0>>].kind = "torn" /\ files'[<<u, r, 0>>].kind = "settled"
               /\ \A i \in Number : files'[<<u, r, i>>] = files[<<u, r, i>>]
         /\ cmd[c].att.kind # "settled" =>
               /\ ModelFailed(u, r)' \ {n} = ModelFailed(u, r) \ {n}
               /\ files'[<<u, r, n>>].kind = cmd[c].att.kind
               /\ \A i \in 0 .. MaxAttempt : i # n => files'[<<u, r, i>>] = files[<<u, r, i>>]
    <2> HIDE DEF F, k, H, e, ledger
    <2> QED
      BY <1>12, TextRun
  <1>4. Failed(u, r)' = Failed(u, r) /\ (Settled(u, r)' <=> Settled(u, r))
    BY <1>13
  <1>5. H \in Seq(Entry) /\ H # <<>> /\ H[Len(H)] = "torn" /\ History(u, r)' = [H EXCEPT ![Len(H)] = e]
    <2>1. CASE cmd[c].att.kind = "settled"
      <3>1. /\ Settled(u, r) /\ files[<<u, r, 0>>].kind = "torn" /\ files'[<<u, r, 0>>].kind = "settled"
            /\ \A i \in Number : files'[<<u, r, i>>] = files[<<u, r, i>>]
        BY <1>13, <2>1
      <3>2. H = Append(F, "torn") /\ "torn" \in Entry /\ "settled" \in Entry
        BY <1>1, <3>1, HistoryIs DEF Entry, Kind
      <3>3. H \in Seq(Entry) /\ H # <<>> /\ Len(H) = k + 1 /\ H[k + 1] = "torn"
            /\ \A i \in 1 .. k : H[i] = F[i]
        <4> HIDE DEF F, H, k
        <4>1. /\ Append(F, "torn") \in Seq(Entry) /\ Len(Append(F, "torn")) = Len(F) + 1
              /\ \A i \in 1 .. Len(F) : Append(F, "torn")[i] = F[i]
              /\ Append(F, "torn")[Len(F) + 1] = "torn" /\ Append(F, "torn") # <<>>
          BY <1>3, <3>2, AppendProperties
        <4> QED
          BY <1>3, <3>2, <4>1
      <3>4. FailedKinds(u, r)' = F
        <4>1. \A i \in 1 .. k : files'[<<u, r, i>>].kind = files[<<u, r, i>>].kind
          BY <1>1, <3>1, Counts
        <4> QED
          BY <1>4, <4>1 DEF FailedKinds
      <3>5. History(u, r)' = F \o <<"settled">>
        BY <1>4, <3>1, <3>4 DEF History, FailedKinds
      <3>6. History(u, r)' = Append(F, "settled")
        <4> HIDE DEF F
        <4> QED
          BY <1>3, <3>2, <3>5, AppendIsConcat
      <3>7. Append(F, "settled") = [H EXCEPT ![k + 1] = "settled"]
        <4> HIDE DEF F, H, k
        <4>1. /\ Append(F, "settled") \in Seq(Entry) /\ Len(Append(F, "settled")) = k + 1
              /\ \A i \in 1 .. k : Append(F, "settled")[i] = F[i]
              /\ Append(F, "settled")[k + 1] = "settled"
          BY <1>3, <3>2, AppendProperties
        <4>2. k + 1 \in 1 .. Len(H) /\ "settled" \in Entry
          BY <1>3, <3>2, <3>3
        <4>3. /\ [H EXCEPT ![k + 1] = "settled"] \in Seq(Entry)
              /\ Len([H EXCEPT ![k + 1] = "settled"]) = k + 1
              /\ \A i \in 1 .. Len(H) :
                    [H EXCEPT ![k + 1] = "settled"][i] = IF i = k + 1 THEN "settled" ELSE H[i]
          BY <3>3, <4>2, ExceptSeq
        <4> DEFINE A == Append(F, "settled")
                   B == [H EXCEPT ![k + 1] = "settled"]
        <4>4. \A i \in 1 .. Len(A) : A[i] = B[i]
          <5>1. \A i \in 1 .. k + 1 : i \in 1 .. k \/ i = k + 1
            BY <1>3
          <5> QED
            BY <3>3, <4>1, <4>3, <5>1
        <4>5. A \in Seq(Entry) /\ B \in Seq(Entry) /\ Len(A) = Len(B)
          BY <4>1, <4>3
        <4> HIDE DEF A, B
        <4>6. A = B
          BY <4>4, <4>5, SeqEqual
        <4> QED
          BY <4>6 DEF A, B
      <3> QED
        BY <2>1, <3>3, <3>6, <3>7
    <2>2. CASE cmd[c].att.kind # "settled"
      <3>1. /\ files'[<<u, r, n>>].kind = e
            /\ \A i \in 0 .. MaxAttempt : i # n => files'[<<u, r, i>>] = files[<<u, r, i>>]
        <4>1. /\ ModelFailed(u, r)' \ {n} = ModelFailed(u, r) \ {n}
              /\ files'[<<u, r, n>>].kind = cmd[c].att.kind
              /\ \A i \in 0 .. MaxAttempt : i # n => files'[<<u, r, i>>] = files[<<u, r, i>>]
          BY <1>13, <2>2
        <4> QED
          BY <4>1
      <3>2. ~Settled(u, r) /\ n = k
        BY <1>1, <1>2, <2>2 DEF AttemptInv, Opened, Latest
      <3>3. H = F /\ 1 .. k \subseteq 0 .. MaxAttempt /\ k \in 1 .. k
        <4>1. H = F
          BY <1>1, <3>2, HistoryIs
        <4>2. n \in 1 .. MaxAttempt /\ MaxAttempt \in Nat
          BY AttemptAssumption DEF Number
        <4>3. 1 .. k \subseteq 0 .. MaxAttempt /\ k \in 1 .. k
          <5> HIDE DEF k
          <5> QED
            BY <1>3, <3>2, <4>2
        <4> QED
          BY <4>1, <4>3
      <3>4. files[<<u, r, n>>].kind = "torn"
        BY <1>1, <1>2, <2>2 DEF Disk, DiskInv, PathOf, RunPath, At
      <3>5. F \in [1 .. k -> Entry] /\ F[k] = "torn"
        BY <1>3, <3>2, <3>3, <3>4 DEF FailedKinds
      <3>6. FailedKinds(u, r)' = [F EXCEPT ![k] = e]
        <4>1. \A i \in 1 .. k : files'[<<u, r, i>>].kind = IF i = k THEN e ELSE files[<<u, r, i>>].kind
          BY <3>1, <3>2, <3>3
        <4> QED
          BY <1>4, <4>1 DEF FailedKinds
      <3>7. History(u, r)' = FailedKinds(u, r)' \o <<>>
        BY <1>4, <3>2 DEF History, FailedKinds
      <3>8. [F EXCEPT ![k] = e] \in Seq(Entry)
        <4> HIDE DEF F, k, e
        <4>1. e \in Entry
          BY <1>1 DEF Entry, Kind, FailureKind, e
        <4> QED
          BY <1>3, <3>3, <4>1, ExceptSeq
      <3>9. History(u, r)' = [F EXCEPT ![k] = e]
        BY <3>6, <3>7, <3>8, ConcatEmptySeq
      <3> QED
        <4> HIDE DEF F, H, k, e
        <4>1. H = F /\ Len(H) = k /\ H # <<>>
          BY <1>3, <3>3
        <4> QED
          BY <1>3, <3>5, <3>9, <4>1
    <2> QED
      BY <2>1, <2>2
  <1>6. \A v \in Unit, q \in Run : v # u \/ q # r => History(v, q)' = History(v, q)
    BY <1>1, <1>2, OtherRuns, RunSame DEF At
  <1>7. ledger' = [ledger EXCEPT ![<<u, r>>][Len(ledger[<<u, r>>])] = e]
    <2> DEFINE h == [H EXCEPT ![Len(H)] = e]
    <2>1. \A s \in Unit \X Run :
             History(s[1], s[2])' = IF s = <<u, r>> THEN h ELSE History(s[1], s[2])
      <3>1. History(u, r)' = h
        BY <1>5
      <3> HIDE DEF h
      <3> QED
        BY <1>6, <3>1, LedgerChange
    <2>2. ledger' = [ledger EXCEPT ![<<u, r>>] = [H EXCEPT ![Len(H)] = e]]
      <3> HIDE DEF h
      <3>1. ledger' = [ledger EXCEPT ![<<u, r>>] = h]
        BY <2>1
      <3> QED
        BY <3>1 DEF h
    <2> HIDE DEF ledger, H
    <2> QED
      BY <1>3, <2>2
  <1>8. Ledger!Ends(<<u, r>>, Ledger!Begun)
    BY <1>3, <1>5 DEF Ledger!Ends, Ledger!Begun
  <1>9. Ledger!Complete(u, r)
    BY <1>1, <1>7, <1>8 DEF Ledger!Complete
  <1> QED
    BY <1>9 DEF Ledger!Next

(* One command at a time, the directory is only ever changed as RunLedger      *)
(* allows: the open begins an entry, the write completes it, and a failed      *)
(* write, a crash, a retry or a resume leaves every history as it was (AC-13). *)
THEOREM DirectoryIsALedger == ASSUME OneAtATime PROVE Spec => ImplementsLedger
<1> DEFINE ledger == [s \in Unit \X Run |-> History(s[1], s[2])]
<1>1. Init => Ledger!Init
  <2> SUFFICES ASSUME Init PROVE Ledger!Init
    OBVIOUS
  <2>1. ASSUME NEW u \in Unit, NEW r \in Run PROVE History(u, r) = <<>>
    <3>1. \A p \in Path : files[p].kind = "absent"
      BY DEF Init, NoFile
    <3>2. Failed(u, r) = {} /\ ~Settled(u, r)
      BY <3>1, AttemptPath DEF Failed, Settled, Exists
    <3>3. Cardinality(Failed(u, r)) = 0
      BY <3>2, FS_EmptySet
    <3>4. [n \in 1 .. 0 |-> files[<<u, r, n>>].kind] = <<>>
      OBVIOUS
    <3>5. History(u, r) = <<>> \o <<>>
      BY <3>2, <3>3, <3>4 DEF History
    <3> QED
      BY <3>5
  <2> QED
    BY <2>1 DEF Ledger!Init, Ledger!Slot
<1>2. ASSUME TypeOK, Disk, LedgerReady, Order, [Next]_vars PROVE [Ledger!Next]_ledger
  <2>1. CASE UNCHANGED files
    BY <2>1 DEF History, Failed, Settled, Exists
  <2>2. CASE \E c \in Cmd : WriteOpen(c)
    BY <1>2, <2>2, BeginsEntry
  <2>3. CASE \E c \in Cmd : WriteText(c)
    BY <1>2, <2>3, CompletesEntry
  <2>4. UNCHANGED files \/ \E c \in Cmd : WriteOpen(c) \/ WriteText(c)
    BY <1>2, StepMoves DEF vars, Moves, Start, StartFresh, StartResume, Begin, ResumePreflight, TakeRun,
       Check, Call, WriteExists, WriteFails, Settle, Retry
  <2> QED
    BY <2>1, <2>2, <2>3, <2>4
<1> QED
  BY <1>1, <1>2, TypeInvariant, DiskAlways, LedgerAlways, OrderAlways, PTL
     DEF Spec, ImplementsLedger, Ledger!Spec
=============================================================================
