--------------------------------- MODULE Ids ---------------------------------
(***************************************************************************)
(* From what a run found to the output Routing compares (extract/ids.py,   *)
(* locate.py, precheck.py): every span is located in the unit's text, the  *)
(* struck ones and the binding rules are read from the characters, and the *)
(* ids are assigned, the runs of a unit each by itself and in the order    *)
(* each found its items.                                                   *)
(*                                                                         *)
(* The text is what these read of it: offsets where ids are defined and    *)
(* spans found, struck ranges, and the leading span of each binding rule   *)
(* (of a `Binding rules` section; any other has none).                     *)
(* How a span is aligned with a text that does not hold it word for word   *)
(* is left out: a span is found at one offset or nowhere.                  *)
(***************************************************************************)
EXTENDS Routing, SequencesExt

CONSTANTS
    Placeholder,  \* the `derived:N` names a model may give
    Offset, LineOf,
    Sections      \* the texts a unit may have, each with what its runs may have found

Stretch == [from : Offset, to : Offset]
Text ==
    [defined : [Verbatim -> Offset \cup {None}],  \* the first bullet that defines an id
     struck : SUBSET Stretch,
     rules : SUBSET [from : Offset, to : Offset, label : Label]]
\* Where a span is found, where its body past an id token is, and the labels it says.
Span == [at : Offset \cup {None}, body : Stretch \cup {None}, says : SUBSET Label]
GivenName == Verbatim \cup Placeholder
Item == [name : GivenName, type : EntityType, label : Label \cup {None},
         flags : SUBSET Flag, span : Span]
FoundLink == [type : LinkType, source : GivenName \cup Reference, target : GivenName \cup Reference,
              flags : SUBSET Flag]

\* ExtractionOutput's validators: a placeholder names one entity, a local end some entity.
IsFound(f) ==
    /\ f.items \in Seq(Item) /\ f.links \in Seq(FoundLink)
    /\ \A j, k \in DOMAIN f.items :
          f.items[j].name = f.items[k].name /\ f.items[j].name \in Placeholder => j = k
    /\ \A k \in DOMAIN f.links : \A n \in {f.links[k].source, f.links[k].target} \cap GivenName :
          \E j \in DOMAIN f.items : f.items[j].name = n

ASSUME SectionAssumption ==
    /\ Offset \subseteq Nat /\ LineOf \in [Offset -> Line] /\ None \notin Offset
    /\ GivenName \cap Reference = {} /\ Verbatim \cap Placeholder = {}
    /\ \A s \in Sections : s.text \in Text /\ \A f \in s.findings : IsFound(f)
\* There are derived ids and slots enough for the longest list a run may have found.
ASSUME OrdinalAssumption ==
    /\ IsFiniteSet(Derived) /\ Derived = 1 .. Cardinality(Derived)
    /\ \A s \in Sections : \A f \in s.findings :
          Len(f.items) <= Cardinality(Derived) /\ DOMAIN f.links \subseteq Slot
ASSUME NothingAssumption == None \notin Entity /\ None \notin Link

VARIABLES
    text,    \* the unit's text
    found    \* what each run found in it

idVars == <<vars, text, found>>
-----------------------------------------------------------------------------
(* locate_output()                                                         *)

Within(range, offset) == range.from <= offset /\ offset < range.to

\* A verbatim id is located at the bullet that defines it, anything else where its span is.
Location(t, e) ==
    IF e.name \in Verbatim /\ t.defined[e.name] # None THEN t.defined[e.name] ELSE e.span.at

\* _struck_probe(): the span decides, and only when it is nowhere the definition.
Probe(t, e) == IF e.span.at # None THEN e.span.at ELSE Location(t, e)

\* _body_is_struck()
BodyIsStruck(t, e) ==
    /\ e.name \in Verbatim /\ e.span.body # None
    /\ \E r \in t.struck : Within(r, e.span.body.from) /\ e.span.body.to <= r.to

Struck(t, e) ==
    \/ Probe(t, e) # None /\ \E r \in t.struck : Within(r, Probe(t, e))
    \/ BodyIsStruck(t, e)

\* The positions of the items located inside the leading span of a rule.
Inside(t, items, rule) ==
    {k \in DOMAIN items : Location(t, items[k]) # None /\ Within(rule, Location(t, items[k]))}

\* label_binding_rules(): the only item inside a rule has its label, any other item one
\* its own span says; a unit without rules is left alone.
BoundLabel(t, items, k) ==
    LET e == items[k]
        rules == {rule \in t.rules : Inside(t, items, rule) = {k}}
    IN  IF t.rules = {} THEN e.label
        ELSE IF rules # {} THEN (CHOOSE rule \in rules : TRUE).label
        ELSE IF e.label \in e.span.says THEN e.label ELSE None
\* locate_output(): an item with what code, not the model, decides about it.
LocatedEntity(t, items, k) ==
    LET e == items[k] IN
    [type |-> e.type, label |-> BoundLabel(t, items, k), flags |-> e.flags,
     line |-> IF Location(t, e) = None THEN None ELSE LineOf[Location(t, e)],
     says |-> IF e.name \in Verbatim THEN e.name ELSE None]
-----------------------------------------------------------------------------
(* assign_ids()                                                            *)

\* _ordering_key(): located items by offset, the others behind, each in output order.
Comes(t, items, j, k) ==
    LET a == Location(t, items[j])
        b == Location(t, items[k])
    IN  \/ a # None /\ b = None
        \/ a # None /\ b # None /\ a < b
        \/ a = b /\ j < k
First(t, items, ks) == CHOOSE k \in ks : \A j \in ks \ {k} : Comes(t, items, k, j)

Claimants(items, v) == {k \in DOMAIN items : items[k].name = v}

\* Mutant of Candidates: the struck version of an id may keep it.
CandidatesAny(t, items, v) == Claimants(items, v)

\* Those that may keep a verbatim id: the unstruck ones, or all if every one is struck.
Candidates(t, items, v) ==
    LET unstruck == {k \in Claimants(items, v) : ~Struck(t, items[k])} IN
    IF unstruck # {} THEN unstruck ELSE Claimants(items, v)

\* _verbatim_keepers()
Keeper(t, items, v) == First(t, items, Candidates(t, items, v))
Keeps(t, items, k) == items[k].name \in Verbatim /\ Keeper(t, items, items[k].name) = k

\* The keepers have their ids; the others are numbered in the order they stand.
CanonicalId(t, items, k) ==
    IF Keeps(t, items, k) THEN items[k].name
    ELSE Cardinality({j \in DOMAIN items :
             ~Keeps(t, items, j) /\ (j = k \/ Comes(t, items, j, k))})

\* _rewrite_endpoints(): a name means the entity that has it, the keeper of a repeated id.
Rewritten(t, items, end) ==
    IF end \in Reference THEN end
    ELSE IF end \in Verbatim THEN end
    ELSE CanonicalId(t, items, CHOOSE k \in DOMAIN items : items[k].name = end)

AssignIds(t, f) ==
    LET at(i) == {k \in DOMAIN f.items : CanonicalId(t, f.items, k) = i} IN
        [entity |-> [i \in Id |-> IF at(i) = {} THEN None
                                  ELSE LocatedEntity(t, f.items, CHOOSE k \in at(i) : TRUE)],
         link |-> [s \in Slot |-> IF s \notin DOMAIN f.links THEN None
                                  ELSE [f.links[s] EXCEPT !.source = Rewritten(t, f.items, @),
                                                          !.target = Rewritten(t, f.items, @)]]]
-----------------------------------------------------------------------------
\* What each run of a section may bring to routing, with what it found.
Identifications ==
    {[text |-> s.text, runs |-> {[found |-> f, output |-> AssignIds(s.text, f)] : f \in s.findings}] :
        s \in Sections}

\* Only the bullets that define an id parse to it, and rules stand in a section without them.
IdInit ==
    /\ \E s \in Identifications : \E pick \in [Run -> s.runs] :
          /\ text = s.text
          /\ found = [r \in Run |-> pick[r].found]
          /\ runs = [r \in Run |-> pick[r].output]
    /\ Init
    /\ \A v \in Verbatim : bullets[v] > 0 => text.defined[v] # None /\ text.rules = {}

IdNext == Next /\ UNCHANGED <<text, found>>

IdSpec == IdInit /\ [][IdNext]_idVars
-----------------------------------------------------------------------------
(* Properties.                                                             *)

SameList(a, b) == \A x \in Range(a) \cup Range(b) :
    Cardinality({k \in DOMAIN a : a[k] = x}) = Cardinality({k \in DOMAIN b : b[k] = x})
SameFindings(f, g) == SameList(f.items, g.items) /\ SameList(f.links, g.links)
OneKeeper(f) ==
    \A v \in Verbatim :
        LET current == {k \in Claimants(f.items, v) : ~Struck(text, f.items[k])} IN
        /\ Cardinality(current) <= 1
        /\ current = {} => Cardinality(Claimants(f.items, v)) <= 1

\* Runs that found the same items and links in another order are never held apart: the ids,
\* the keeper of an id with a struck version and the rule labels come out the same, however
\* each run numbered its items.  Only an id that two current items claim depends on the order.
SameFindingsAgree ==
    (\A r \in Run : SameFindings(found[1], found[r]) /\ OneKeeper(found[1])) =>
        \A row \in routed.review : Reason("runs_disagree") \notin row.reasons
=============================================================================
