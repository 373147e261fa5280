--------------------------- MODULE MeteredLedger ----------------------------
(* With one command at a time, MeteredRun implements RunLedger.            *)
EXTENDS MeteredRun, Sequences

\* The history of a run as its files tell it: the failed attempts in order, then the
\* settled one.
History(u, r) ==
    [n \in 1 .. Cardinality(Failed(u, r)) |-> files[<<u, r, n>>].kind]
        \o (IF Settled(u, r) THEN <<files[<<u, r, 0>>].kind>> ELSE <<>>)

Ledger == INSTANCE RunLedger WITH
    Unit <- Unit, Run <- Run, MaxModelFailures <- BLOCKING_MODEL_FAILURES,
    ledger <- [s \in Unit \X Run |-> History(s[1], s[2])]

\* Crashes, failed writes, retries and resumes included, the directory is only ever
\* changed as RunLedger allows (AC-13, AC-58b, write_run's "evidence a rebuild depends on").
ImplementsLedger == Ledger!Spec
=============================================================================
