-------------------------------- MODULE Slice --------------------------------
(***************************************************************************)
(* The slice of the graph that `trace`, `eval` and `ask` read              *)
(* (traverse/graph_slice.py): its nodes and typed links, its held items    *)
(* dropped unless they are asked for, and what can be followed in it.      *)
(*                                                                         *)
(* What a step prints of a node (text, file, commit, ...) is left out.     *)
(***************************************************************************)
EXTENDS Integers, FiniteSets

CONSTANTS
    NodeId,       \* the canonical ids
    LinkType,     \* every link type the graph holds
    TYPED_LINKS   \* those a walk may follow: PART_OF is not one

ASSUME SliceAssumption == TYPED_LINKS \subseteq LinkType

NodeKind == {"Entity", "Record", "Unresolved"}
Node == [kind : NodeKind, held : BOOLEAN, struck : BOOLEAN]
Link == [type : LinkType, source : NodeId, target : NodeId, held : BOOLEAN]

Nodes(g) == DOMAIN g.node
Ends(k) == {k.source, k.target}
IsGraph(g) ==
    /\ Nodes(g) \subseteq NodeId
    /\ g = [node |-> g.node, links |-> g.links]
    /\ g.node \in [Nodes(g) -> Node] /\ g.links \in SUBSET Link

\* Mutant of DropHeld: only the held nodes go, and a held link between two others stays.
DropHeldNodes(g) ==
    LET dropped == {n \in Nodes(g) : g.node[n].held} IN
    [node |-> [n \in Nodes(g) \ dropped |-> g.node[n]],
     links |-> {k \in g.links : Ends(k) \cap dropped = {}}]

\* drop_held()
DropHeld(g) ==
    LET dropped == {n \in Nodes(g) : g.node[n].held} IN
    [node |-> [n \in Nodes(g) \ dropped |-> g.node[n]],
     links |-> {k \in g.links : ~k.held /\ Ends(k) \cap dropped = {}}]

\* graph_slice()
GraphSlice(g, with_held) ==
    LET kept == [g EXCEPT !.links = {k \in @ : k.type \in TYPED_LINKS}] IN
    IF with_held THEN kept ELSE DropHeld(kept)

\* _holds_held(): a held entity or a held gap; a Record never is.
HoldsHeld(g) == \E n \in Nodes(g) : g.node[n].held /\ g.node[n].kind # "Record"

\* The links of _neighbours(): typed, both ends in the slice.
Followable(g) == {k \in g.links : k.type \in TYPED_LINKS /\ Ends(k) \subseteq Nodes(g)}

\* _neighbours(): a link seen from n, its direction first (0 outgoing) as the code sorts.
Neighbours(g, n) ==
    {<<k.type, 0, k.target, k>> : k \in {j \in Followable(g) : j.source = n}}
    \cup {<<k.type, 1, k.source, k>> : k \in {j \in Followable(g) : j.target = n}}

\* _terminal(): a Record or an Unresolved node is printed and never expanded.
Terminal(g, n) == g.node[n].kind # "Entity"

\* What the walk's rules allow to be reached, defined by layers instead of a queue.
Wider(g, S) ==
    S \cup UNION {Ends(k) : k \in {j \in Followable(g) : \E n \in Ends(j) \cap S : ~Terminal(g, n)}}
Within(g, n, hops) ==
    LET within[h \in 0 .. hops] == IF h = 0 THEN {n} ELSE Wider(g, within[h - 1]) IN within[hops]
=============================================================================
