----------------------------- MODULE MCGraphRead -----------------------------
(* Small graphs for TLC, each read by one command.                         *)
EXTENDS Reading

L(type, source, target) == [type |-> type, source |-> source, target |-> target]
\* Type 1 is SUPERSEDED_BY, 2 another typed link, 3 PART_OF.
Candidate == {L(1, 1, 2), L(1, 2, 1), L(1, 2, 3), L(2, 3, 5), L(1, 4, 3), L(2, 5, 4), L(2, 4, 1)}
May(k) ==
    CASE k = L(1, 2, 1) -> {"absent", "held"}
      [] k \in {L(2, 3, 5), L(2, 4, 1)} -> {"absent", "accepted"}
      [] k \in {L(1, 2, 3), L(2, 5, 4)} -> {"accepted", "held"}
      [] OTHER -> {"absent", "accepted", "held"}
Parts == {[type |-> 3, source |-> 1, target |-> 5, held |-> FALSE]}

\* A held node has only held links.
Written(how) ==
    Parts \cup {[type |-> k.type, source |-> k.source, target |-> k.target, held |-> how[k] = "held"] :
                    k \in {j \in Candidate : how[j] # "absent"}}
NodesWith(record, held) ==
    [n \in NodeId |-> [kind |-> IF n = record THEN "Record" ELSE "Entity",
                       held |-> n \in held, struck |-> n = 4]]
Hows == {how \in [Candidate -> {"absent", "accepted", "held"}] : \A k \in Candidate : how[k] \in May(k)}
StoredGraphs ==
    {g \in {[node |-> NodesWith(r, h), links |-> Written(how)] :
                r \in {0, 3}, h \in {{}, {2}, {4}}, how \in Hows} :
        \A k \in g.links : k.held \/ \A n \in Ends(k) : ~g.node[n].held}

\* The questions: hits ranked in any order.
ManyHits == {<<>>} \cup {<<n>> : n \in NodeId} \cup {p \in NodeId \X NodeId : p[1] # p[2]}
=============================================================================
