------------------------------ MODULE GraphRead ------------------------------
(***************************************************************************)
(* One read of the graph by one command (graph/read.py): what is stored,   *)
(* and whether the command asked for held items.  The read is one          *)
(* statement, so the slice is of one state of the graph; it is immutable   *)
(* from then on.  Canonical ids and link types are numbers in their lexical *)
(* order: the readers sort by both, and nothing else of a string matters.  *)
(***************************************************************************)
EXTENDS Slice, SequencesExt

CONSTANT Stored   \* the graphs a load may have left

VARIABLES
    stored,     \* the graph the command read
    withHeld,   \* --with-held
    graph       \* the slice it works on

ASSUME OrderAssumption == NodeId \subseteq Nat /\ LinkType \subseteq Nat
ASSUME StoredAssumption == \A g \in Stored : IsGraph(g) /\ IsFiniteSet(Nodes(g)) /\ IsFiniteSet(g.links)

\* read_graph()
ReadGraph ==
    /\ stored \in Stored /\ withHeld \in BOOLEAN
    /\ graph = GraphSlice(stored, withHeld)

\* sorted() by a key: nothing stands behind what its key puts it before.
InOrder(S, before(_, _)) ==
    CHOOSE s \in SetToSeqs(S) : \A i, j \in DOMAIN s : i < j => ~before(s[j], s[i])

ReadTypeOK == IsGraph(stored) /\ withHeld \in BOOLEAN /\ IsGraph(graph)
=============================================================================
