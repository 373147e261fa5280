-------------------------------- MODULE Pack --------------------------------
(***************************************************************************)
(* What one `ask` sends and what it lets a claim say (ask/retrieve.py,     *)
(* ask/answer.py): the hits of a question, their neighbours, every history *)
(* item with what replaces it, at most ITEM_LIMIT items, and the marks the *)
(* code sets on each claim of the answer.                                  *)
(*                                                                         *)
(* Words and scores are left out: the hits are any nodes, in any order, as *)
(* a score above 0 may rank them.  build_pack() visits `ordered` one item  *)
(* per step.                                                               *)
(***************************************************************************)
EXTENDS GraphRead

CONSTANTS
    HISTORY_LINKS, HIT_LIMIT, ITEM_LIMIT, HOP_CHOICES,
    Hits   \* the hits a question may have, best first

ASSUME PackAssumption ==
    /\ HISTORY_LINKS \subseteq TYPED_LINKS /\ Hits \subseteq Seq(NodeId)
    /\ HIT_LIMIT \in Nat /\ ITEM_LIMIT \in Nat /\ HOP_CHOICES \subseteq Nat

VARIABLES
    ordered,   \* the hits and their neighbours, in the order they are considered
    at,        \* the position of the next one
    wanted,    \* every item some position asked for
    taken,     \* the items sent
    full       \* whether an item did not fit

packVars == <<ordered, at, wanted, taken, full>>

\* replacements(): what a history link says replaces n, held or accepted.
Replaced(g, n) ==
    {k.target : k \in {j \in g.links :
        j.type \in HISTORY_LINKS /\ j.source = n /\ j.source # j.target}}
IsHistory(g, n) == g.node[n].struck \/ Replaced(g, n) # {}

\* _neighbours() of retrieve.py: either direction, no link of a node to itself.
Beside(g, n) ==
    UNION {Ends(k) \ {n} : k \in {j \in g.links :
        n \in Ends(j) /\ j.source # j.target /\ Ends(j) \subseteq Nodes(g)}}

\* One hop of _reached(): the nodes first met there, each with the best hit behind it.
Farther(g, rank, hop) ==
    LET frontier == {m \in DOMAIN rank : rank[m].hop = hop - 1}
        met == (UNION {Beside(g, m) : m \in frontier}) \ DOMAIN rank
        origins(n) == {rank[m].origin : m \in {f \in frontier : n \in Beside(g, f)}}
    IN  [n \in DOMAIN rank \cup met |->
            IF n \in DOMAIN rank THEN rank[n] ELSE [hop |-> hop, origin |-> Min(origins(n))]]
Rank(g, hits, hops) ==
    LET rank[h \in 0 .. hops] ==
            IF h = 0 THEN [n \in ToSet(hits) |->
                              [hop |-> 0, origin |-> CHOOSE i \in DOMAIN hits : hits[i] = n]]
            ELSE Farther(g, rank[h - 1], h)
    IN  rank[hops]

\* Hits by rank, then each hop by the rank of the hit it came from and by id.
Ordered(g, hits, hops) ==
    LET rank == Rank(g, hits, hops)
        before(a, b) ==
            \/ rank[a].hop < rank[b].hop
            \/ rank[a].hop = rank[b].hop /\ rank[a].origin < rank[b].origin
            \/ rank[a].hop = rank[b].hop /\ rank[a].origin = rank[b].origin /\ a < b
    IN  InOrder(DOMAIN rank, before)

\* _ask_graph(): the held items are always read.
AskGraph == withHeld

\* `ask` stops when the graph it read holds no held item.
PackInit(hits, hops) ==
    /\ AskGraph /\ HoldsHeld(graph)
    /\ ToSet(hits) \subseteq Nodes(graph) /\ Len(hits) <= HIT_LIMIT /\ hops \in HOP_CHOICES
    /\ ordered = Ordered(graph, hits, hops)
    /\ at = 1 /\ wanted = {} /\ taken = {} /\ full = FALSE

\* Mutant of Group: a replacement brings in nothing in its turn.
GroupOnce(g, n, have) == {n} \cup ((Replaced(g, n) \cap Nodes(g)) \ have)

\* The item and what replaces it, and what replaces that, as far as not wanted already.
Group(g, n, have) ==
    {m \in Nodes(g) :
        \A S \in SUBSET Nodes(g) :
            (n \in S /\ \A k \in S : (Replaced(g, k) \cap Nodes(g)) \ have \subseteq S) => m \in S}

\* Mutant of Consider: an item that does not fit is passed over, and a later one may fit.
ConsiderEach ==
    LET group == Group(graph, ordered[at], wanted)
        fits == Cardinality(taken) + Cardinality(group) <= ITEM_LIMIT
    IN  /\ at \in DOMAIN ordered /\ at' = at + 1
        /\ wanted' = wanted \cup group /\ full' = (full \/ ~fits)
        /\ taken' = IF fits THEN taken \cup group ELSE taken
        /\ UNCHANGED ordered

Consider ==
    LET n == ordered[at]
        group == Group(graph, n, wanted)
    IN  /\ at \in DOMAIN ordered
        /\ at' = at + 1
        /\ IF n \in wanted THEN UNCHANGED <<wanted, taken, full>>
           ELSE /\ wanted' = wanted \cup group
                /\ full' = (full \/ Cardinality(taken) + Cardinality(group) > ITEM_LIMIT)
                /\ taken' = IF full' THEN taken ELSE taken \cup group
        /\ UNCHANGED ordered

PackDone == at > Len(ordered)
Cut == Cardinality(wanted) - Cardinality(taken)
SentLinks == {k \in graph.links : Ends(k) \subseteq taken}
-----------------------------------------------------------------------------
(* check_claims(): the marks of a claim, by the ids it cites and its basis. *)

Basis == {"text", "link", "inferred"}

\* Mutant of Linked: one sent link among the cited ids is enough.
LinkedSomewhere(cites) ==
    \E k \in SentLinks : k.source # k.target /\ Ends(k) \subseteq cites

\* _linked(): every cited id is joined by a sent link to another cited id.
Linked(cites) ==
    /\ Cardinality(cites) > 1
    /\ cites = UNION {Ends(k) : k \in {j \in SentLinks : j.source # j.target /\ Ends(j) \subseteq cites}}

RejectedIds(cites) == cites \ taken
Inferred(cites, basis) == basis = "inferred" \/ (basis = "link" /\ ~Linked(cites))
HistoryClaim(cites) == \E n \in cites \cap taken : IsHistory(graph, n)
Unsupported(cites) == cites # {} /\ RejectedIds(cites) = cites
FailedClaim(cites, basis) ==
    RejectedIds(cites) # {} \/ cites = {} \/ (basis = "link" /\ Inferred(cites, basis))

\* claim_marks()
ClaimMarks(cites, basis) ==
    {m \in {"HISTORY"} : HistoryClaim(cites)}
    \cup {m \in {"INFERRED"} : Inferred(cites, basis)}
    \cup {m \in {"CITATION REJECTED"} : RejectedIds(cites) # {}}
    \cup {m \in {"UNCITED"} : cites = {}}
    \cup (IF Unsupported(cites) THEN {"unsupported"}
          ELSE IF Inferred(cites, basis) THEN {}
          ELSE IF basis = "link" THEN {"link"} ELSE {"read from text"})
-----------------------------------------------------------------------------
(* Properties.                                                             *)

PackTypeOK ==
    /\ ordered \in Seq(Nodes(graph)) /\ at \in 1 .. Len(ordered) + 1
    /\ taken \subseteq wanted /\ wanted \subseteq Nodes(graph) /\ full \in BOOLEAN

\* An item that no longer stands is never sent without everything that replaces it, however
\* the replacements chain or circle and whatever the limit cut (AC-14b); what was left out
\* is never sent in part.
ReplacementsSent ==
    \A n \in taken : Replaced(graph, n) \cap Nodes(graph) \subseteq taken

\* Everything the first c positions ask for.
Asked(c) ==
    LET step(S) == S \cup ((UNION {Replaced(graph, n) : n \in S}) \cap Nodes(graph))
        grown[h \in 0 .. Cardinality(Nodes(graph))] ==
            IF h = 0 THEN {ordered[i] : i \in 1 .. c} ELSE step(grown[h - 1])
    IN  grown[Cardinality(Nodes(graph))]

\* What is sent stays within the limit the bill was bounded for: it is the longest prefix of
\* the order that fits with its replacements, and the cut printed beside it counts
\* everything else the question asked for (AC-11).
SentIsThePrefix ==
    /\ Cardinality(taken) <= ITEM_LIMIT
    /\ PackDone =>
        /\ \E c \in 0 .. Len(ordered) :
              /\ taken = Asked(c)
              /\ c < Len(ordered) => Cardinality(Asked(c + 1)) > ITEM_LIMIT
        /\ Cut = Cardinality(Asked(Len(ordered))) - Cardinality(taken)

\* A claim that shows no failing mark rests on what was sent: every id it cites is in the
\* pack, and one that says `link` cites no id without a sent link to another of its ids.
\* One that rests on something replaced says HISTORY.
MarksAreEarned ==
    PackDone =>
        \A cites \in SUBSET NodeId, basis \in Basis :
            LET marks == ClaimMarks(cites, basis) IN
            /\ marks \cap {"INFERRED", "CITATION REJECTED", "UNCITED", "unsupported"} = {} =>
                  /\ cites # {} /\ cites \subseteq taken
                  /\ ~FailedClaim(cites, basis)
            /\ "link" \in marks =>
                  \A n \in cites : \E m \in cites \cap taken :
                      \E k \in SentLinks : Ends(k) = {n, m} /\ m # n
            /\ "HISTORY" \notin marks =>
                  \A n \in cites \cap taken : Replaced(graph, n) = {}
=============================================================================
