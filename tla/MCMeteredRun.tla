---------------------------- MODULE MCMeteredRun ----------------------------
(* Small instances of MeteredRun for TLC.                                  *)
EXTENDS MeteredLedger, TLC

CONSTANTS c1, c2, u1, u2, k1, k2

OneCmd == {c1}
TwoCmds == {c1, c2}
OneUnit == {u1}
TwoUnits == {u1, u2}
OneConf == {k1}
TwoConfs == {k1, k2}

\* One unit bounded at 0 or at 1, and two units with different bounds.
BoundZero == [u \in OneUnit |-> 0]
BoundOne == [u \in OneUnit |-> 1]
BoundsDiffer == (u1 :> 1) @@ (u2 :> 2)

\* Commands whose calls all find the cache warm, for runs not about the cache.
WarmCache == \A c \in Cmd : cmd[c].coldCalls = 0

\* The state without the history fields, for runs whose properties read none of them.
WithoutHistory ==
    <<files, [c \in Cmd |-> [cmd[c] EXCEPT !.billed = 0, !.paid = {}, !.coldCalls = 0]]>>

CmdSymmetry == Permutations(TwoCmds)
=============================================================================
