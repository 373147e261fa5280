------------------------------- MODULE Reading -------------------------------
(***************************************************************************)
(* One command over one read of the graph: `trace` walks the slice from    *)
(* one of its nodes, or `ask` packs it for one question.  The slice is     *)
(* never read again and never changed.                                     *)
(***************************************************************************)
EXTENDS Walk, Pack

readVars == <<stored, withHeld, graph>>

NoWalk == start = None /\ reached = <<>> /\ queue = <<>>
NoPack == ordered = <<>> /\ at = 1 /\ wanted = {} /\ taken = {} /\ full = FALSE

Init ==
    /\ ReadGraph
    /\ \/ NoPack /\ \E n \in NodeId, flag \in BOOLEAN \cup {None} : Trace(flag, n)
       \/ NoWalk /\ \E hits \in Hits, hops \in HOP_CHOICES : PackInit(hits, hops)

Next ==
    /\ UNCHANGED readVars
    /\ \/ Dequeue /\ UNCHANGED packVars
       \/ Consider /\ UNCHANGED walkVars

Spec == Init /\ [][Next]_<<readVars, walkVars, packVars>>

\* What was read is a graph; the walk and the pack hold nodes and links of it, within their
\* bounds.
TypeOK == ReadTypeOK /\ WalkTypeOK /\ PackTypeOK
=============================================================================
