-------------------------------- MODULE Walk --------------------------------
(***************************************************************************)
(* The walk of `trace` and `eval` (traverse/walk.py): breadth first from   *)
(* one item along typed links both ways, Record and Unresolved nodes never *)
(* expanded, each node visited once, at most MAX_HOPS hops.                *)
(***************************************************************************)
EXTENDS GraphRead

CONSTANTS MAX_HOPS, None

ASSUME HopsAssumption == MAX_HOPS \in Nat /\ None \notin NodeId

VARIABLES
    start,     \* the id the walk starts from, or None when no walk runs
    reached,   \* per node visited: its hop, the link that led to it, its direction, its parent
    queue      \* the nodes visited and not yet looked at

walkVars == <<start, reached, queue>>

Reached == [hop : 0 .. MAX_HOPS, via : Link \cup {None}, direction : {0, 1, None}, parent : NodeId \cup {None}]

\* StartNotInGraph is raised for any other start.
WalkInit(n) ==
    /\ n \in Nodes(graph)
    /\ start = n
    /\ reached = [m \in {n} |-> [hop |-> 0, via |-> None, direction |-> None, parent |-> None]]
    /\ queue = <<n>>

\* What `trace` shows when it is given neither --with-held nor --no-with-held.
WITH_HELD_DEFAULT == TRUE

\* `trace START`: the flag decides the view; --with-held given by name is refused over a
\* graph that holds nothing held.
Trace(flag, n) ==
    /\ withHeld = IF flag = None THEN WITH_HELD_DEFAULT ELSE flag
    /\ flag = TRUE => HoldsHeld(graph)
    /\ WalkInit(n)

\* The fixed order of neighbours: type, direction, the other node.
Before(a, b) ==
    \/ a[1] < b[1]
    \/ a[1] = b[1] /\ a[2] < b[2]
    \/ a[1] = b[1] /\ a[2] = b[2] /\ a[3] < b[3]

\* The first neighbour tuple that leads from n to each node not yet visited.
Fresh(n) ==
    LET all == {a \in Neighbours(graph, n) : a[3] \notin DOMAIN reached} IN
    {a \in all : \A b \in all : b[3] = a[3] => ~Before(b, a)}

\* Mutant of Expandable: a step at the limit is expanded.
ExpandableAnyHop(n) == ~Terminal(graph, n)

Expandable(n) == ~Terminal(graph, n) /\ reached[n].hop < MAX_HOPS

\* Mutant of Dequeue: what is met last is looked at first.
DequeueLast ==
    LET n == Head(queue)
        fresh == IF Expandable(n) THEN InOrder(Fresh(n), Before) ELSE <<>>
        step(a) == [hop |-> reached[n].hop + 1, via |-> a[4], direction |-> a[2], parent |-> n]
        news == [i \in DOMAIN fresh |-> fresh[i][3]]
    IN  /\ queue # <<>>
        /\ reached' = [m \in DOMAIN reached \cup Range(news) |->
                          IF m \in DOMAIN reached THEN reached[m]
                          ELSE step(CHOOSE a \in Range(fresh) : a[3] = m)]
        /\ queue' = news \o Tail(queue)
        /\ UNCHANGED start

Dequeue ==
    LET n == Head(queue)
        fresh == IF Expandable(n) THEN InOrder(Fresh(n), Before) ELSE <<>>
        step(a) == [hop |-> reached[n].hop + 1, via |-> a[4], direction |-> a[2], parent |-> n]
        news == [i \in DOMAIN fresh |-> fresh[i][3]]
    IN  /\ queue # <<>>
        /\ reached' = [m \in DOMAIN reached \cup Range(news) |->
                          IF m \in DOMAIN reached THEN reached[m]
                          ELSE step(CHOOSE a \in Range(fresh) : a[3] = m)]
        /\ queue' = Tail(queue) \o news
        /\ UNCHANGED start

WalkDone == start # None /\ queue = <<>>

\* Mutant of Unfollowed: the links back to visited nodes count too.
UnfollowedAll(n) ==
    IF Terminal(graph, n) \/ reached[n].hop < MAX_HOPS THEN {} ELSE Neighbours(graph, n)

\* The links a step at the depth limit did not follow.
Unfollowed(n) ==
    IF Terminal(graph, n) \/ reached[n].hop < MAX_HOPS THEN {}
    ELSE {a \in Neighbours(graph, n) : a[3] \notin DOMAIN reached}

\* Step.stop: why the walk did not go on.
Stop(n) ==
    IF Terminal(graph, n) THEN graph.node[n].kind
    ELSE IF Unfollowed(n) # {} THEN "depth limit" ELSE "None"

\* _held_line(): the held steps and links the printed chain counts and marks HELD.
HeldSteps == {n \in DOMAIN reached : graph.node[n].held}
HeldVias == {n \in DOMAIN reached \ {start} : reached[n].via.held}

\* The nodes on the path the walk took to n, followed by parent back to the start.
PathTo(n) ==
    LET up[k \in 0 .. reached[n].hop] == IF k = 0 THEN n ELSE reached[up[k - 1]].parent
    IN  Range(up)

\* held_parts(): the held nodes and links on that path; the report prints them beside a
\* line that only the held walk reaches.
HeldParts(n) == PathTo(n) \cap (HeldSteps \cup HeldVias)
-----------------------------------------------------------------------------
(* Properties.                                                             *)

WalkTypeOK ==
    start # None =>
        /\ DOMAIN reached \subseteq Nodes(graph)
        /\ \A n \in DOMAIN reached : reached[n] \in Reached
        /\ Range(queue) \subseteq DOMAIN reached

Reach(g, hops) == Within(g, start, hops)
Distance(g, n) == CHOOSE h \in 0 .. MAX_HOPS :
                      n \in Reach(g, h) /\ (h > 0 => n \notin Reach(g, h - 1))

\* Every step can be followed back to the start: its parent is one hop nearer, was expanded,
\* and is the other end of its link, in the direction the step shows.
ChainsLeadBack ==
    \A n \in DOMAIN reached \ {start} :
        LET s == reached[n] IN
        /\ s.parent \in DOMAIN reached /\ ~Terminal(graph, s.parent)
        /\ s.hop = reached[s.parent].hop + 1
        /\ s.via \in Followable(graph)
        /\ IF s.direction = 0 THEN s.via.source = s.parent /\ s.via.target = n
                              ELSE s.via.target = s.parent /\ s.via.source = n

\* A finished walk holds what MAX_HOPS hops can reach and nothing else, each node at its
\* shortest distance, whichever of its neighbours the queue looked at first, with a chain
\* the printed steps and held_parts() can follow back (AC-23, AC-25).
WalkIsShortest ==
    WalkDone =>
        /\ DOMAIN reached = Reach(graph, MAX_HOPS)
        /\ \A n \in DOMAIN reached : reached[n].hop = Distance(graph, n)
        /\ ChainsLeadBack

\* A chain that says nothing of a depth limit is complete: no hop more would find a node it
\* does not show, and one that names the limit does leave something out.
DepthLimitIsTold ==
    WalkDone =>
        ((\E n \in DOMAIN reached : Stop(n) = "depth limit")
            <=> Reach(graph, MAX_HOPS + 1) # Reach(graph, MAX_HOPS))

\* Showing the held items never hides or moves away a node the accepted graph reaches; a
\* node they bring in or bring nearer names the held parts that did; and without them no
\* step and no link of the chain is held (spec 0005 AC-2, AC-13).
HeldOnlyAdds ==
    WalkDone =>
        LET clean == GraphSlice(stored, FALSE) IN
        /\ start \in Nodes(clean) =>
              \A n \in Reach(clean, MAX_HOPS) :
                  n \in DOMAIN reached /\ reached[n].hop <= Distance(clean, n)
        /\ \A n \in DOMAIN reached :
              (start \notin Nodes(clean) \/ n \notin Reach(clean, reached[n].hop))
                  => HeldParts(n) # {}
        /\ ~withHeld => HeldSteps = {} /\ HeldVias = {}
=============================================================================
