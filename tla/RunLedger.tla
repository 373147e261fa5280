----------------------------- MODULE RunLedger ------------------------------
(***************************************************************************)
(* What the artifact directory promises a reader: for every run of every   *)
(* unit, the history of its attempts, in order.  An entry is begun (the    *)
(* file is there, its text is not), then completed; nothing else ever      *)
(* changes a history, no attempt follows a settled one, an unfinished one  *)
(* or the second model failure, and no run is begun before the run before  *)
(* it is settled.                                                          *)
(***************************************************************************)
EXTENDS Integers, Sequences, FiniteSets

CONSTANTS Unit, Run,
          MaxModelFailures   \* the model failures that block a run

VARIABLE ledger

Slot == Unit \X Run
Begun == "torn"

Ends(s, e) == ledger[s] # <<>> /\ ledger[s][Len(ledger[s])] = e
ModelEntries(s) == {n \in 1 .. Len(ledger[s]) : ledger[s][n] = "model"}
Open(s) ==
    /\ ~Ends(s, "settled") /\ ~Ends(s, Begun)
    /\ Cardinality(ModelEntries(s)) < MaxModelFailures

Init == ledger = [s \in Slot |-> <<>>]

Begin(u, r) ==
    /\ Open(<<u, r>>)
    /\ r - 1 \in Run => Ends(<<u, r - 1>>, "settled")
    /\ ledger' = [ledger EXCEPT ![<<u, r>>] = Append(@, Begun)]

Complete(u, r) ==
    /\ Ends(<<u, r>>, Begun)
    /\ \E e \in {"settled", "model", "transport"} :
          ledger' = [ledger EXCEPT ![<<u, r>>][Len(ledger[<<u, r>>])] = e]

Next == \E u \in Unit, r \in Run : Begin(u, r) \/ Complete(u, r)

Spec == Init /\ [][Next]_ledger
=============================================================================
