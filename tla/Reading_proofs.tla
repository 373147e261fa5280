---------------------------- MODULE Reading_proofs ----------------------------
(***************************************************************************)
(* Proofs about module Reading, for every graph a load may have left,      *)
(* every start, question and bound.                                        *)
(*                                                                         *)
(* The walk (Walking): each node visited is as near as its hop says and is *)
(* chained to the start, the queue stands in order of hops, and what left  *)
(* it has shown its neighbours.  So a finished walk has what MAX_HOPS hops *)
(* reach, at shortest distances, tells a depth limit that cut it, and      *)
(* holds what the accepted graph reaches no farther away.                  *)
(*                                                                         *)
(* The pack (Sending, Prefix): what is wanted is closed under replacement  *)
(* and is what the positions visited ask for; what is sent is that, up to  *)
(* the first position that did not fit.                                    *)
(*                                                                         *)
(* First come the facts both need: naturals and finite sets have least     *)
(* members, which serves as induction over hops, positions and sets, and a *)
(* finite set can be sorted.                                               *)
(***************************************************************************)
EXTENDS Reading, FiniteSetTheorems, TLAPS

\* A set of naturals has a least one.
LEMMA LeastNatural ==
    ASSUME NEW T \in SUBSET Nat, T # {}
    PROVE  \E x \in T : \A y \in T : ~(y < x)
<1> DEFINE less == OpToRel(<, Nat)
<1>1. IsWellFoundedOn(less, Nat)
    BY NatLessThanWellFounded
<1>2. \A x, y \in Nat : y < x => <<y, x>> \in less
    BY DEF OpToRel
<1> HIDE DEF less
<1>3. PICK x \in T : \A y \in T : <<y, x>> \notin less
    BY <1>1, WFMin
<1> QED
    BY <1>2, <1>3
-----------------------------------------------------------------------------
(* Sorting: what stands before what is a set of pairs.                     *)

IsStrict(S, before) ==
    /\ \A x \in S : <<x, x>> \notin before
    /\ \A x, y, z \in S : <<x, y>> \in before /\ <<y, z>> \in before => <<x, z>> \in before

\* A set of subsets of a finite set has a smallest member.
LEMMA SmallestSubset ==
    ASSUME NEW S, IsFiniteSet(S), NEW T, T \subseteq SUBSET S, T # {}
    PROVE  \E x \in T : \A y \in T : ~(y \subseteq x /\ y # x)
<1>1. IsWellFoundedOn(StrictSubsetOrdering(S), SUBSET S)
    BY FS_StrictSubsetOrderingWellFounded, FS_FiniteSubsetsOfFinite
<1>2. PICK x \in T : \A y \in T : <<y, x>> \notin StrictSubsetOrdering(S)
    BY <1>1, WFMin
<1> QED
    BY <1>2 DEF StrictSubsetOrdering

\* A finite set that is not empty has a first member, and a last.
LEMMA FirstAndLast ==
    ASSUME NEW S, IsFiniteSet(S), NEW before, IsStrict(S, before), NEW T \in SUBSET S, T # {}
    PROVE  /\ \E m \in T : \A x \in T : <<x, m>> \notin before
           /\ \E m \in T : \A x \in T : <<m, x>> \notin before
<1> DEFINE first(U) == \E m \in U : \A x \in U : <<x, m>> \notin before
           last(U) == \E m \in U : \A x \in U : <<m, x>> \notin before
           bad == {U \in SUBSET S : U # {} /\ ~(first(U) /\ last(U))}
<1>1. SUFFICES ASSUME bad # {} PROVE FALSE
    OBVIOUS
<1>2. PICK U \in bad : \A y \in bad : ~(y \subseteq U /\ y # U)
    <2>1. bad \subseteq SUBSET S
        OBVIOUS
    <2> HIDE DEF bad
    <2> QED
        BY <1>1, <2>1, SmallestSubset
<1>3. U \in SUBSET S /\ U # {} /\ ~(first(U) /\ last(U))
    BY <1>2
<1>4. PICK u \in U : TRUE
    BY <1>3
<1> DEFINE less == U \ {u}
<1>5. CASE less = {}
    <2>1. \A x \in U : x = u
        BY <1>5
    <2>2. <<u, u>> \notin before
        BY <1>3 DEF IsStrict
    <2> QED
        BY <1>3, <2>1, <2>2
<1>6. CASE less # {}
    <2>1. less \in SUBSET S /\ less \subseteq U /\ less # U
        BY <1>3
    <2>2. first(less) /\ last(less)
        BY <1>2, <1>6, <2>1
    <2>3. PICK a \in less : \A x \in less : <<x, a>> \notin before
        BY <2>2
    <2>4. PICK z \in less : \A x \in less : <<z, x>> \notin before
        BY <2>2
    <2>5. u \in S /\ a \in S /\ z \in S /\ \A x \in U : x \in S /\ (x = u \/ x \in less)
        BY <1>3
    <2>6. first(U)
        <3>1. CASE <<u, a>> \in before
            <4>1. ASSUME NEW x \in U PROVE <<x, u>> \notin before
                BY <2>3, <2>5, <3>1 DEF IsStrict
            <4> QED
                BY <4>1
        <3>2. CASE <<u, a>> \notin before
            BY <2>3, <2>5, <3>2
        <3> QED
            BY <3>1, <3>2
    <2>7. last(U)
        <3>1. CASE <<z, u>> \in before
            <4>1. ASSUME NEW x \in U PROVE <<u, x>> \notin before
                BY ZenonT(60), <2>4, <2>5, <3>1 DEF IsStrict
            <4> QED
                BY <4>1
        <3>2. CASE <<z, u>> \notin before
            BY <2>4, <2>5, <3>2
        <3> QED
            BY <3>1, <3>2
    <2> QED
        BY <1>3, <2>6, <2>7
<1> QED
    BY <1>5, <1>6

InTurn(s, before) == \A i, j \in DOMAIN s : i < j => <<s[j], s[i]>> \notin before

\* A finite set can be sorted.
LEMMA CanSort ==
    ASSUME NEW S, IsFiniteSet(S), NEW before, IsStrict(S, before)
    PROVE  \E s \in SetToSeqs(S) : InTurn(s, before)
<1> DEFINE bad == {U \in SUBSET S : ~\E s \in SetToSeqs(U) : InTurn(s, before)}
<1>1. SUFFICES ASSUME bad # {} PROVE FALSE
    OBVIOUS
<1>2. PICK U \in bad : \A y \in bad : ~(y \subseteq U /\ y # U)
    <2>1. bad \subseteq SUBSET S
        OBVIOUS
    <2> HIDE DEF bad
    <2> QED
        BY <1>1, <2>1, SmallestSubset
<1>3. U \in SUBSET S /\ ~\E s \in SetToSeqs(U) : InTurn(s, before)
    BY <1>2
<1>4. IsFiniteSet(U)
    BY <1>3, FS_Subset
<1>5. CASE U = {}
    <2> DEFINE s == [i \in 1 .. 0 |-> i]
    <2>1. Cardinality(U) = 0 /\ 1 .. 0 = {}
        BY <1>5, FS_EmptySet
    <2>2. s \in [1 .. Cardinality(U) -> U] /\ DOMAIN s = {}
        BY <2>1
    <2> HIDE DEF s
    <2>3. s \in SetToSeqs(U) /\ InTurn(s, before)
        BY <2>1, <2>2 DEF SetToSeqs, InTurn
    <2> QED
        BY <1>3, <2>3
<1>6. CASE U # {}
    <2>1. PICK m \in U : \A x \in U : <<m, x>> \notin before
        BY <1>3, <1>6, FirstAndLast
    <2> DEFINE less == U \ {m}
               N == Cardinality(U)
    <2>2. less \in SUBSET S /\ less \subseteq U /\ less # U /\ less \notin bad
        BY <1>2, <1>3
    <2>3. PICK t \in SetToSeqs(less) : InTurn(t, before)
        BY <2>2
    <2>4. N \in Nat /\ N # 0 /\ Cardinality(less) = N - 1
        BY <1>4, <1>6, FS_RemoveElement, FS_CardinalityType, FS_EmptySet
    <2>5. /\ t \in [1 .. N - 1 -> less]
          /\ \A i, j \in 1 .. N - 1 : i # j => t[i] # t[j]
          /\ \A i, j \in 1 .. N - 1 : i < j => <<t[j], t[i]>> \notin before
        BY <2>3, <2>4 DEF SetToSeqs, InTurn
    <2> HIDE DEF less, N
    <2> DEFINE s == [i \in 1 .. N |-> IF i = N THEN m ELSE t[i]]
    <2>6. \A i \in 1 .. N : (i = N /\ s[i] = m) \/ (i \in 1 .. N - 1 /\ s[i] = t[i] /\ t[i] \in less)
        BY <2>4, <2>5
    <2>7. s \in [1 .. N -> U] /\ DOMAIN s = 1 .. N
        BY <2>2, <2>5, <2>6
    <2> HIDE DEF s
    <2>8. ASSUME NEW i \in 1 .. N, NEW j \in 1 .. N, i # j PROVE s[i] # s[j]
        BY <2>4, <2>5, <2>6, <2>8 DEF less
    <2>9. ASSUME NEW i \in 1 .. N, NEW j \in 1 .. N, i < j PROVE <<s[j], s[i]>> \notin before
        <3>1. i \in 1 .. N - 1 /\ i # N /\ s[i] \in U
            BY <2>4, <2>7, <2>9
        <3>2. CASE j = N
            BY <2>1, <2>6, <3>1, <3>2
        <3>3. CASE j # N
            BY <2>5, <2>6, <2>9, <3>1, <3>3
        <3> QED
            BY <3>2, <3>3
    <2>10. s \in SetToSeqs(U)
        BY <2>7, <2>8 DEF SetToSeqs, N
    <2>11. InTurn(s, before)
        BY <2>7, <2>9 DEF InTurn
    <2> QED
        BY <1>3, <2>10, <2>11
<1> QED
    BY <1>5, <1>6

\* What is sorted lists its set, each member once.
LEMMA SeqsList ==
    ASSUME NEW S, IsFiniteSet(S), NEW s \in SetToSeqs(S)
    PROVE  s \in Seq(S) /\ Range(s) = S
<1> DEFINE N == Cardinality(S)
<1>1. s \in [1 .. N -> S] /\ \A i, j \in 1 .. N : i # j => s[i] # s[j]
    BY DEF SetToSeqs
<1>2. N \in Nat
    BY FS_CardinalityType
<1> HIDE DEF N
<1>3. IsFiniteSet(1 .. N) /\ Cardinality(1 .. N) = N
    <2>1. Cardinality(1 .. N) = (IF 1 > N THEN 0 ELSE N - 1 + 1) /\ IsFiniteSet(1 .. N)
        BY <1>2, FS_Interval
    <2> QED
        BY <1>2, <2>1
<1>4. s \in Injection(1 .. N, S)
    BY <1>1 DEF Injection, IsInjective
<1>5. s \in Surjection(1 .. N, S)
    BY <1>3, <1>4, FS_Injection DEF N
<1>6. \A x \in S : \E i \in 1 .. N : s[i] = x
    BY <1>5 DEF Surjection
<1>7. Range(s) = S
    BY <1>1, <1>6 DEF Range
<1>8. s \in Seq(S)
    BY <1>1, <1>2
<1> QED
    BY <1>7, <1>8
-----------------------------------------------------------------------------
(* The layers of Within.                                                   *)

IsLayers(f, g, n, h) == f = [k \in 0 .. h |-> IF k = 0 THEN {n} ELSE Wider(g, f[k - 1])]

\* The recursion is one: there are layers to every number of hops.
LEMMA LayersExist ==
    ASSUME NEW g, NEW n, NEW h \in Nat
    PROVE  \E f : IsLayers(f, g, n, h)
<1> DEFINE bad == {m \in Nat : ~\E f : IsLayers(f, g, n, m)}
<1>1. SUFFICES ASSUME bad # {} PROVE FALSE
    OBVIOUS
<1>2. PICK m \in bad : \A y \in bad : ~(y < m)
    <2>1. bad \in SUBSET Nat
        OBVIOUS
    <2> HIDE DEF bad
    <2> QED
        BY <1>1, <2>1, LeastNatural
<1>3. m \in Nat /\ ~\E f : IsLayers(f, g, n, m)
    BY <1>2
<1>4. CASE m = 0
    <2> DEFINE f == [k \in 0 .. 0 |-> {n}]
    <2>1. f = [k \in 0 .. 0 |-> IF k = 0 THEN {n} ELSE Wider(g, f[k - 1])]
        OBVIOUS
    <2> HIDE DEF f
    <2>2. IsLayers(f, g, n, m)
        BY <1>4, <2>1 DEF IsLayers
    <2> QED
        BY <1>3, <2>2
<1>5. CASE m # 0
    <2>1. m - 1 \in Nat /\ m - 1 < m /\ m - 1 \notin bad
        BY <1>2, <1>3, <1>5
    <2>2. PICK e : IsLayers(e, g, n, m - 1)
        BY <2>1
    <2> DEFINE f == [k \in 0 .. m |-> IF k = m THEN Wider(g, e[m - 1]) ELSE e[k]]
    <2>3. \A k \in 0 .. m - 1 : e[k] = IF k = 0 THEN {n} ELSE Wider(g, e[k - 1])
        BY <2>2 DEF IsLayers
    <2>4. ASSUME NEW k \in 0 .. m
          PROVE  f[k] = IF k = 0 THEN {n} ELSE Wider(g, f[k - 1])
        <3>1. CASE k = m
            <4>1. f[k - 1] = e[m - 1] /\ f[k] = Wider(g, e[m - 1])
                BY <1>3, <1>5, <3>1
            <4> HIDE DEF f
            <4> QED
                BY <1>5, <3>1, <4>1
        <3>2. CASE k # m /\ k # 0
            <4>1. k \in 0 .. m - 1 /\ k - 1 \in 0 .. m /\ k - 1 # m
                BY <1>3, <3>2
            <4>2. f[k] = e[k] /\ f[k - 1] = e[k - 1]
                BY <3>2, <4>1
            <4> HIDE DEF f
            <4> QED
                BY <2>3, <3>2, <4>1, <4>2
        <3>3. CASE k = 0
            <4>1. f[k] = e[0] /\ 0 \in 0 .. m - 1
                BY <1>3, <1>5, <3>3
            <4> HIDE DEF f
            <4> QED
                BY <2>3, <3>3, <4>1
        <3> QED
            BY <3>1, <3>2, <3>3
    <2>5. f = [k \in 0 .. m |-> f[k]]
        OBVIOUS
    <2> HIDE DEF f
    <2>6. IsLayers(f, g, n, m)
        BY <2>4, <2>5 DEF IsLayers
    <2> QED
        BY <1>3, <2>6
<1> QED
    BY <1>4, <1>5

\* Layers to different numbers of hops agree where both go.
LEMMA LayersAgree ==
    ASSUME NEW g, NEW n, NEW h \in Nat, NEW i \in Nat,
           NEW e, IsLayers(e, g, n, h), NEW f, IsLayers(f, g, n, i),
           NEW k \in Nat, k <= h, k <= i
    PROVE  e[k] = f[k]
<1> DEFINE bad == {m \in Nat : m <= h /\ m <= i /\ e[m] # f[m]}
<1>1. SUFFICES ASSUME bad # {} PROVE FALSE
    OBVIOUS
<1>2. PICK m \in bad : \A y \in bad : ~(y < m)
    <2>1. bad \in SUBSET Nat
        OBVIOUS
    <2> HIDE DEF bad
    <2> QED
        BY <1>1, <2>1, LeastNatural
<1>a. /\ \A j \in 0 .. h : e[j] = IF j = 0 THEN {n} ELSE Wider(g, e[j - 1])
      /\ \A j \in 0 .. i : f[j] = IF j = 0 THEN {n} ELSE Wider(g, f[j - 1])
    BY DEF IsLayers
<1>b. m \in 0 .. h /\ m \in 0 .. i /\ e[m] # f[m]
    BY <1>2
<1> HIDE DEF bad
<1>3. /\ m \in 0 .. h /\ m \in 0 .. i /\ e[m] # f[m]
      /\ e[m] = (IF m = 0 THEN {n} ELSE Wider(g, e[m - 1]))
      /\ f[m] = (IF m = 0 THEN {n} ELSE Wider(g, f[m - 1]))
    BY <1>a, <1>b
<1>4. m # 0
    BY <1>3
<1>5. m - 1 \in Nat /\ m - 1 < m /\ m - 1 <= h /\ m - 1 <= i
    BY <1>3, <1>4
<1>6. e[m - 1] = f[m - 1]
    BY <1>2, <1>5 DEF bad
<1> QED
    BY <1>3, <1>4, <1>6

\* What no hop reaches, and what one hop more does.
LEMMA WithinIs ==
    ASSUME NEW g, NEW n, NEW h \in Nat
    PROVE  /\ Within(g, n, 0) = {n}
           /\ Within(g, n, h + 1) = Wider(g, Within(g, n, h))
<1> DEFINE f(i) == CHOOSE f : IsLayers(f, g, n, i)
<1>1. \A i \in Nat : Within(g, n, i) = f(i)[i]
    BY DEF Within, IsLayers
<1>2. \A i \in Nat : IsLayers(f(i), g, n, i)
    BY LayersExist
<1> HIDE DEF f
<1>3. f(0)[0] = {n}
    BY <1>2 DEF IsLayers
<1>4. h + 1 \in Nat /\ IsLayers(f(h + 1), g, n, h + 1) /\ IsLayers(f(h), g, n, h)
    BY <1>2
<1>5. f(h + 1)[h + 1] = Wider(g, f(h + 1)[h])
    BY <1>4 DEF IsLayers
<1>6. f(h + 1)[h] = f(h)[h]
    BY <1>4, LayersAgree
<1> QED
    BY <1>1, <1>3, <1>4, <1>5, <1>6

\* More hops reach no less.
LEMMA WithinGrows ==
    ASSUME NEW g, NEW n, NEW h \in Nat, NEW i \in Nat, h <= i
    PROVE  Within(g, n, h) \subseteq Within(g, n, i)
<1> DEFINE bad == {m \in Nat : h <= m /\ ~(Within(g, n, h) \subseteq Within(g, n, m))}
<1>1. SUFFICES ASSUME bad # {} PROVE FALSE
    OBVIOUS
<1>2. PICK m \in bad : \A y \in bad : ~(y < m)
    <2>1. bad \in SUBSET Nat
        OBVIOUS
    <2> HIDE DEF bad
    <2> QED
        BY <1>1, <2>1, LeastNatural
<1>3. m \in Nat /\ h <= m /\ m # h /\ ~(Within(g, n, h) \subseteq Within(g, n, m))
    BY <1>2
<1>4. m - 1 \in Nat /\ m - 1 < m /\ h <= m - 1 /\ (m - 1) + 1 = m
    BY <1>3
<1>5. Within(g, n, h) \subseteq Within(g, n, m - 1)
    BY <1>2, <1>4
<1>6. Within(g, n, m) = Wider(g, Within(g, n, m - 1))
    BY <1>4, WithinIs
<1>7. Within(g, n, m - 1) \subseteq Within(g, n, m)
    BY <1>6 DEF Wider
<1> QED
    BY <1>3, <1>5, <1>7
-----------------------------------------------------------------------------
(* Links, as a walk sees them.                                             *)

\* A neighbour is the far end of a link that can be followed.
LEMMA NeighbourIs ==
    ASSUME NEW g, NEW n, NEW a \in Neighbours(g, n)
    PROVE  /\ a[4] \in Followable(g) /\ a = <<a[4].type, a[2], a[3], a[4]>>
           /\ \/ a[2] = 0 /\ a[4].source = n /\ a[4].target = a[3]
              \/ a[2] = 1 /\ a[4].target = n /\ a[4].source = a[3]
    BY DEF Neighbours

\* Both ends of such a link see it.
LEMMA EndsAreNeighbours ==
    ASSUME NEW g, NEW k \in Followable(g)
    PROVE  /\ <<k.type, 0, k.target, k>> \in Neighbours(g, k.source)
           /\ <<k.type, 1, k.source, k>> \in Neighbours(g, k.target)
    BY DEF Neighbours

\* One hop more meets the neighbours of what is expanded.
LEMMA WiderMeets ==
    ASSUME NEW g, NEW S, NEW x
    PROVE  x \in Wider(g, S) <=>
              x \in S \/ \E n \in S : ~Terminal(g, n) /\ \E a \in Neighbours(g, n) : a[3] = x
<1> DEFINE through == {j \in Followable(g) : \E n \in Ends(j) \cap S : ~Terminal(g, n)}
<1>1. ASSUME x \in Wider(g, S), x \notin S
      PROVE  \E n \in S : ~Terminal(g, n) /\ \E a \in Neighbours(g, n) : a[3] = x
    <2>1. x \in UNION {Ends(k) : k \in through}
        BY <1>1 DEF Wider
    <2>2. PICK k \in through : x \in Ends(k)
        BY <2>1
    <2>3. PICK n \in Ends(k) \cap S : ~Terminal(g, n)
        BY <2>2
    <2>4. k \in Followable(g) /\ n # x
        BY <1>1, <2>2, <2>3
    <2>5. \/ n = k.source /\ x = k.target
          \/ n = k.target /\ x = k.source
        BY <2>2, <2>3, <2>4 DEF Ends
    <2>6. /\ n \in S /\ ~Terminal(g, n)
          /\ <<k.type, 0, k.target, k>>[3] = k.target /\ <<k.type, 1, k.source, k>>[3] = k.source
        BY <2>3
    <2>7. \E a \in Neighbours(g, n) : a[3] = x
        BY <2>4, <2>5, <2>6, EndsAreNeighbours
    <2> QED
        BY <2>6, <2>7
<1>2. ASSUME NEW n \in S, ~Terminal(g, n), NEW a \in Neighbours(g, n), a[3] = x
      PROVE  x \in Wider(g, S)
    <2>1. a[4] \in Followable(g) /\ n \in Ends(a[4]) /\ x \in Ends(a[4])
        BY <1>2, NeighbourIs DEF Ends
    <2>2. a[4] \in through
        BY <1>2, <2>1
    <2>3. Ends(a[4]) \in {Ends(k) : k \in through}
        BY <2>2
    <2>4. x \in UNION {Ends(k) : k \in through}
        BY <2>1, <2>3
    <2> QED
        BY <2>4 DEF Wider
<1>3. x \in S => x \in Wider(g, S)
    BY DEF Wider
<1> QED
    BY <1>1, <1>2, <1>3
-----------------------------------------------------------------------------
(* What one node brings in.                                                *)

\* A slice of what a load may have left.
Sliced == IsGraph(graph) /\ IsFiniteSet(Nodes(graph)) /\ IsFiniteSet(graph.links)

\* A graph with its untyped links dropped.
Kept(g) == [g EXCEPT !.links = {k \in @ : k.type \in TYPED_LINKS}]

\* Keeping the typed links leaves a graph with the same nodes.
LEMMA KeptIs ==
    ASSUME NEW g, IsGraph(g)
    PROVE  /\ IsGraph(Kept(g)) /\ Kept(g).node = g.node
           /\ Kept(g).links = {k \in g.links : k.type \in TYPED_LINKS}
<1> DEFINE a == g.node
           b == g.links
           cut == {k \in b : k.type \in TYPED_LINKS}
<1>1. g = [node |-> a, links |-> b] /\ a \in [DOMAIN a -> Node] /\ b \subseteq Link /\ DOMAIN a \subseteq NodeId
    BY DEF IsGraph, Nodes
<1>2. Kept(g) = [g EXCEPT !.links = cut]
    BY DEF Kept
<1>3. cut \subseteq Link
    BY <1>1
<1> HIDE DEF a, b, cut
<1>4. Kept(g) = [node |-> a, links |-> cut]
    BY <1>1, <1>2
<1>5. Kept(g).node = a /\ Kept(g).links = cut /\ IsGraph(Kept(g))
    BY <1>1, <1>3, <1>4 DEF IsGraph, Nodes
<1> QED
    BY <1>5 DEF a, b, cut

\* Dropping what is held takes nodes and links away, and leaves a graph.
LEMMA DropHeldIs ==
    ASSUME NEW g, IsGraph(g)
    PROVE  /\ IsGraph(DropHeld(g)) /\ Nodes(DropHeld(g)) = {n \in Nodes(g) : ~g.node[n].held}
           /\ \A n \in Nodes(DropHeld(g)) : DropHeld(g).node[n] = g.node[n]
           /\ DropHeld(g).links = {k \in g.links : ~k.held /\ \A n \in Ends(k) \cap Nodes(g) : ~g.node[n].held}
<1> DEFINE d == DropHeld(g)
           dropped == {n \in Nodes(g) : g.node[n].held}
           left == Nodes(g) \ dropped
<1>1. /\ d.node = [n \in left |-> g.node[n]]
      /\ d.links = {k \in g.links : ~k.held /\ Ends(k) \cap dropped = {}}
      /\ d = [node |-> d.node, links |-> d.links]
    BY DEF DropHeld
<1>2. left = {n \in Nodes(g) : ~g.node[n].held}
    OBVIOUS
<1>3. \A k : Ends(k) \cap dropped = {} <=> \A n \in Ends(k) \cap Nodes(g) : ~g.node[n].held
    OBVIOUS
<1>4. d.links = {k \in g.links : ~k.held /\ \A n \in Ends(k) \cap Nodes(g) : ~g.node[n].held}
    BY <1>1, <1>3
<1> HIDE DEF d
<1>5. /\ DOMAIN d.node = left /\ left \subseteq NodeId /\ d.node \in [left -> Node]
      /\ d.links \subseteq Link
    BY <1>1 DEF IsGraph, Nodes
<1>6. IsGraph(d)
    BY <1>1, <1>5 DEF IsGraph, Nodes
<1>7. \A n \in Nodes(d) : d.node[n] = g.node[n]
    BY <1>1 DEF Nodes
<1> QED
    BY <1>2, <1>4, <1>5, <1>6, <1>7 DEF d, Nodes

\* What a command reads is a finite graph of typed links between its nodes.
LEMMA SliceIs ==
    ASSUME ReadGraph
    PROVE  Sliced
<1>1. stored \in Stored /\ graph = GraphSlice(stored, withHeld)
    BY DEF ReadGraph
<1>2. /\ IsGraph(stored) /\ IsFiniteSet(Nodes(stored)) /\ IsFiniteSet(stored.links)
    BY <1>1, StoredAssumption
<1> DEFINE kept == Kept(stored)
<1>3. /\ IsGraph(kept) /\ Nodes(kept) = Nodes(stored) /\ kept.links \subseteq stored.links
    BY <1>2, KeptIs DEF Nodes
<1> HIDE DEF kept
<1>4. IsFiniteSet(Nodes(kept)) /\ IsFiniteSet(kept.links)
    BY <1>2, <1>3, FS_Subset
<1>5. /\ IsGraph(DropHeld(kept)) /\ Nodes(DropHeld(kept)) \subseteq Nodes(kept)
      /\ DropHeld(kept).links \subseteq kept.links
    BY <1>3, DropHeldIs
<1>6. IsFiniteSet(Nodes(DropHeld(kept))) /\ IsFiniteSet(DropHeld(kept).links)
    BY <1>4, <1>5, FS_Subset
<1>7. graph = IF withHeld THEN kept ELSE DropHeld(kept)
    BY <1>1 DEF GraphSlice, Kept, kept
<1> QED
    BY <1>3, <1>4, <1>5, <1>6, <1>7 DEF Sliced

\* A node of the slice has finitely many neighbours, each a node of it, with ordered keys.
LEMMA NeighboursAre ==
    ASSUME Sliced, NEW n
    PROVE  /\ IsFiniteSet(Neighbours(graph, n))
           /\ \A a \in Neighbours(graph, n) :
                 a[1] \in Nat /\ a[2] \in {0, 1} /\ a[3] \in Nat /\ a[3] \in Nodes(graph)
<1> DEFINE out == {j \in Followable(graph) : j.source = n}
           in == {j \in Followable(graph) : j.target = n}
           away == [k \in out |-> <<k.type, 0, k.target, k>>]
           back == [k \in in |-> <<k.type, 1, k.source, k>>]
<1>1. IsFiniteSet(out) /\ IsFiniteSet(in)
    <2>1. out \subseteq graph.links /\ in \subseteq graph.links
        BY DEF Followable
    <2> QED
        BY <2>1, FS_Subset DEF Sliced
<1>2. IsFiniteSet({<<k.type, 0, k.target, k>> : k \in out})
    <2>1. away \in Surjection(out, {<<k.type, 0, k.target, k>> : k \in out})
        BY DEF Surjection
    <2> QED
        BY <1>1, <2>1, FS_Surjection
<1>3. IsFiniteSet({<<k.type, 1, k.source, k>> : k \in in})
    <2>1. back \in Surjection(in, {<<k.type, 1, k.source, k>> : k \in in})
        BY DEF Surjection
    <2> QED
        BY <1>1, <2>1, FS_Surjection
<1>4. IsFiniteSet(Neighbours(graph, n))
    BY <1>2, <1>3, FS_Union DEF Neighbours
<1>5. ASSUME NEW a \in Neighbours(graph, n)
      PROVE  a[1] \in Nat /\ a[2] \in {0, 1} /\ a[3] \in Nat /\ a[3] \in Nodes(graph)
    <2>1. a[4] \in Followable(graph) /\ a[1] = a[4].type /\ a[2] \in {0, 1} /\ a[3] \in Ends(a[4])
        BY NeighbourIs DEF Ends
    <2>2. a[4] \in Link /\ Ends(a[4]) \subseteq Nodes(graph) /\ Nodes(graph) \subseteq NodeId
        BY <2>1 DEF Followable, Sliced, IsGraph
    <2>3. a[4].type \in Nat
        BY <2>2, OrderAssumption DEF Link
    <2> QED
        BY <2>1, <2>2, <2>3, OrderAssumption
<1> QED
    BY <1>4, <1>5

\* The pairs of neighbours in the fixed order.
Sooner(S) == {p \in S \X S : Before(p[1], p[2])}

\* The order of neighbours is a strict one.
LEMMA SoonerIsStrict ==
    ASSUME NEW S, \A a \in S : a[1] \in Nat /\ a[2] \in {0, 1} /\ a[3] \in Nat
    PROVE  IsStrict(S, Sooner(S))
<1>1. \A x \in S : <<x, x>> \notin Sooner(S)
    BY DEF Sooner, Before
<1>2. ASSUME NEW x \in S, NEW y \in S, NEW z \in S, Before(x, y), Before(y, z)
      PROVE  Before(x, z)
    <2>1. /\ x[1] \in Nat /\ x[2] \in Nat /\ x[3] \in Nat /\ y[1] \in Nat /\ y[2] \in Nat
          /\ y[3] \in Nat /\ z[1] \in Nat /\ z[2] \in Nat /\ z[3] \in Nat
        OBVIOUS
    <2> QED
        BY <1>2, <2>1 DEF Before
<1>3. \A x, y \in S : <<x, y>> \in Sooner(S) <=> Before(x, y)
    BY DEF Sooner
<1> QED
    BY <1>1, <1>2, <1>3 DEF IsStrict

\* What is fresh is sorted to a list of it, and leads to every neighbour not yet visited.
LEMMA FreshIs ==
    ASSUME Sliced, NEW n
    PROVE  /\ InOrder(Fresh(n), Before) \in Seq(Fresh(n)) /\ Range(InOrder(Fresh(n), Before)) = Fresh(n)
           /\ Fresh(n) \subseteq Neighbours(graph, n)
           /\ \A a \in Fresh(n) : a[3] \notin DOMAIN reached
           /\ \A a \in Neighbours(graph, n) :
                 a[3] \notin DOMAIN reached => \E b \in Fresh(n) : b[3] = a[3]
<1> DEFINE all == {a \in Neighbours(graph, n) : a[3] \notin DOMAIN reached}
<1>1. /\ IsFiniteSet(all) /\ all \subseteq Neighbours(graph, n)
      /\ \A a \in all : a[1] \in Nat /\ a[2] \in {0, 1} /\ a[3] \in Nat
    BY NeighboursAre, FS_Subset
<1>2. Fresh(n) = {a \in all : \A b \in all : b[3] = a[3] => ~Before(b, a)}
    BY DEF Fresh
<1>3. \A a \in all : a[3] \notin DOMAIN reached
    OBVIOUS
<1>4. \A a \in Neighbours(graph, n) : a[3] \notin DOMAIN reached => a \in all
    OBVIOUS
<1> HIDE DEF all
<1>5. IsStrict(all, Sooner(all))
    BY <1>1, SoonerIsStrict
<1>6. ASSUME NEW a \in all
      PROVE  \E b \in Fresh(n) : b[3] = a[3]
    <2> DEFINE same == {b \in all : b[3] = a[3]}
    <2>1. same \in SUBSET all /\ same # {}
        OBVIOUS
    <2>2. PICK b \in same : \A c \in same : <<c, b>> \notin Sooner(all)
        <3> HIDE DEF same
        <3> QED
            BY <1>1, <1>5, <2>1, FirstAndLast
    <2>3. b \in all /\ b[3] = a[3]
        OBVIOUS
    <2>4. ASSUME NEW c \in all, c[3] = b[3] PROVE ~Before(c, b)
        <3>1. c \in same
            BY <2>3, <2>4
        <3> QED
            BY <2>2, <2>3, <3>1 DEF Sooner
    <2> QED
        BY <1>2, <2>3, <2>4
<1>7. Fresh(n) \subseteq all /\ IsFiniteSet(Fresh(n))
    BY <1>1, <1>2, FS_Subset
<1>8. IsStrict(Fresh(n), Sooner(Fresh(n)))
    BY <1>1, <1>7, SoonerIsStrict
<1>9. PICK s \in SetToSeqs(Fresh(n)) : InTurn(s, Sooner(Fresh(n)))
    BY <1>7, <1>8, CanSort
<1>10. \A i, j \in DOMAIN s : i < j => ~Before(s[j], s[i])
    <2>1. \A i \in DOMAIN s : s[i] \in Fresh(n)
        BY <1>9 DEF SetToSeqs
    <2> QED
        BY <1>9, <2>1 DEF InTurn, Sooner
<1>11. InOrder(Fresh(n), Before) \in SetToSeqs(Fresh(n))
    BY <1>9, <1>10 DEF InOrder
<1>12. InOrder(Fresh(n), Before) \in Seq(Fresh(n)) /\ Range(InOrder(Fresh(n), Before)) = Fresh(n)
    <2> DEFINE t == InOrder(Fresh(n), Before)
    <2>1. t \in SetToSeqs(Fresh(n))
        BY <1>11
    <2> HIDE DEF t
    <2>2. t \in Seq(Fresh(n)) /\ Range(t) = Fresh(n)
        BY <1>7, <2>1, SeqsList
    <2> QED
        BY <2>2 DEF t
<1> QED
    BY <1>1, <1>3, <1>4, <1>6, <1>7, <1>12
-----------------------------------------------------------------------------
(* The walk.                                                               *)

\* The queue loses its head and gains what came fresh.
LEMMA QueueMoves ==
    ASSUME NEW S, NEW q \in Seq(S), q # <<>>, NEW T, NEW t \in Seq(T)
    PROVE  LET r == Tail(q) \o t
               kept == Len(q) - 1
           IN  /\ r \in Seq(S \cup T) /\ DOMAIN r = 1 .. kept + Len(t)
               /\ \A i \in DOMAIN r :
                     \/ i <= kept /\ i + 1 \in DOMAIN q /\ r[i] = q[i + 1]
                     \/ i > kept /\ i - kept \in DOMAIN t /\ r[i] = t[i - kept]
               /\ Range(q) \subseteq Range(r) \cup {Head(q)} /\ Range(t) \subseteq Range(r)
<1> DEFINE kept == Len(q) - 1
           r == Tail(q) \o t
<1>1. /\ Len(q) \in Nat /\ Len(q) # 0 /\ Len(t) \in Nat /\ kept \in Nat
      /\ DOMAIN q = 1 .. Len(q) /\ DOMAIN t = 1 .. Len(t)
      /\ \A i \in 1 .. Len(q) : q[i] \in S
      /\ \A i \in 1 .. Len(t) : t[i] \in T
    OBVIOUS
<1>2. /\ Tail(q) \in Seq(S) /\ Len(Tail(q)) = kept /\ DOMAIN Tail(q) = 1 .. kept
      /\ \A i \in 1 .. kept : Tail(q)[i] = q[i + 1]
    BY <1>1
<1>3. /\ r \in Seq(S \cup T) /\ Len(r) = kept + Len(t) /\ DOMAIN r = 1 .. kept + Len(t)
      /\ \A i \in 1 .. kept : r[i] = q[i + 1]
      /\ \A i \in kept + 1 .. kept + Len(t) : r[i] = t[i - kept]
    BY <1>1, <1>2
<1> HIDE DEF r, kept
<1>4. ASSUME NEW i \in DOMAIN r
      PROVE  \/ i <= kept /\ i + 1 \in DOMAIN q /\ r[i] = q[i + 1]
             \/ i > kept /\ i - kept \in DOMAIN t /\ r[i] = t[i - kept]
    <2>1. i \in Nat /\ i >= 1 /\ i <= kept + Len(t) /\ kept = Len(q) - 1
        BY <1>1, <1>3 DEF kept
    <2>2. CASE i <= kept
        <3>1. i \in 1 .. kept /\ i + 1 \in 1 .. Len(q)
            BY <1>1, <2>1, <2>2
        <3> QED
            BY <1>1, <1>3, <2>2, <3>1
    <2>3. CASE i > kept
        <3>1. i \in kept + 1 .. kept + Len(t) /\ i - kept \in 1 .. Len(t)
            BY <1>1, <2>1, <2>3
        <3> QED
            BY <1>1, <1>3, <2>3, <3>1
    <2>4. i <= kept \/ i > kept
        BY <1>1, <2>1
    <2> QED
        BY <2>2, <2>3, <2>4
<1>5. ASSUME NEW j \in DOMAIN q
      PROVE  q[j] \in Range(r) \cup {Head(q)}
    <2>1. CASE j = 1
        BY <2>1
    <2>2. CASE j # 1
        <3>1. j - 1 \in 1 .. kept /\ j - 1 \in DOMAIN r /\ (j - 1) + 1 = j
            BY <1>1, <1>3, <2>2 DEF kept
        <3>2. r[j - 1] = q[j]
            BY <1>3, <3>1
        <3> QED
            BY <3>1, <3>2 DEF Range
    <2> QED
        BY <2>1, <2>2
<1>6. ASSUME NEW j \in DOMAIN t
      PROVE  t[j] \in Range(r)
    <2>1. j + kept \in kept + 1 .. kept + Len(t) /\ j + kept \in DOMAIN r /\ (j + kept) - kept = j
        BY <1>1, <1>3
    <2>2. r[j + kept] = t[j]
        BY <1>3, <2>1
    <2> QED
        BY <2>1, <2>2 DEF Range
<1>7. Range(q) \subseteq Range(r) \cup {Head(q)} /\ Range(t) \subseteq Range(r)
    BY <1>5, <1>6 DEF Range
<1> QED
    BY <1>3, <1>4, <1>7 DEF r, kept

\* How a node was reached from n along a.
StepTo(n, a) == [hop |-> reached[n].hop + 1, via |-> a[4], direction |-> a[2], parent |-> n]

\* What one turn of the loop does: what is new comes by neighbours of the head.
Turn(n, new, news) ==
    /\ n = Head(queue) /\ queue # <<>> /\ start' = start
    /\ new \cap DOMAIN reached = {} /\ DOMAIN reached' = DOMAIN reached \cup new
    /\ \A m \in DOMAIN reached : reached'[m] = reached[m]
    /\ \A m \in new : /\ Expandable(n)
                      /\ \E a \in Neighbours(graph, n) : a[3] = m /\ reached'[m] = StepTo(n, a)
    /\ Expandable(n) => \A a \in Neighbours(graph, n) : a[3] \in DOMAIN reached \cup new
    /\ news \in Seq(new) /\ Range(news) = new /\ queue' = Tail(queue) \o news

\* A step of the walk takes the first of the queue and appends what it newly met.
LEMMA DequeueTurns ==
    ASSUME Sliced, Dequeue
    PROVE  \E new, news : Turn(Head(queue), new, news)
<1> DEFINE n == Head(queue)
           fresh == IF Expandable(n) THEN InOrder(Fresh(n), Before) ELSE <<>>
           news == [i \in DOMAIN fresh |-> fresh[i][3]]
           by(m) == CHOOSE a \in Range(fresh) : a[3] = m
<1>1. /\ queue # <<>> /\ start' = start /\ queue' = Tail(queue) \o news
      /\ reached' = [m \in DOMAIN reached \cup Range(news) |->
                        IF m \in DOMAIN reached THEN reached[m] ELSE StepTo(n, by(m))]
    BY DEF Dequeue, StepTo
<1>2. /\ fresh \in Seq(Neighbours(graph, n)) /\ Range(fresh) \subseteq Neighbours(graph, n)
      /\ \A a \in Range(fresh) : Expandable(n) /\ a[3] \notin DOMAIN reached
      /\ Expandable(n) => \A a \in Neighbours(graph, n) :
                             a[3] \notin DOMAIN reached => \E b \in Range(fresh) : b[3] = a[3]
    <2>1. CASE Expandable(n)
        <3>1. fresh \in Seq(Fresh(n)) /\ Range(fresh) = Fresh(n) /\ Fresh(n) \subseteq Neighbours(graph, n)
            BY <2>1, FreshIs
        <3>2. fresh \in Seq(Neighbours(graph, n))
            <4> HIDE DEF fresh
            <4> QED
                BY <3>1
        <3> QED
            BY <2>1, <3>1, <3>2, FreshIs
    <2>2. CASE ~Expandable(n)
        <3>1. fresh = <<>>
            BY <2>2
        <3>2. Range(fresh) = {}
            BY <3>1 DEF Range
        <3> QED
            BY <2>2, <3>1, <3>2
    <2> QED
        BY <2>1, <2>2
<1> HIDE DEF fresh, n
<1>3. /\ \A i \in DOMAIN news : \E a \in Range(fresh) : a[3] = news[i]
      /\ \A a \in Range(fresh) : \E i \in DOMAIN news : a[3] = news[i]
      /\ news \in Seq(Range(news))
    <2>1. DOMAIN fresh = 1 .. Len(fresh) /\ Len(fresh) \in Nat /\ DOMAIN news = 1 .. Len(fresh)
        BY <1>2
    <2>2. news \in Seq(Range(news))
        BY <2>1 DEF Range
    <2> QED
        BY <2>1, <2>2 DEF Range
<1> HIDE DEF news
<1>4. \A m : m \in Range(news) <=> \E a \in Range(fresh) : a[3] = m
    <2>1. \A m : m \in Range(news) <=> \E i \in DOMAIN news : news[i] = m
        BY DEF Range
    <2>2. ASSUME NEW m \in Range(news) PROVE \E a \in Range(fresh) : a[3] = m
        BY SMTT(60), <1>3, <2>1
    <2>3. ASSUME NEW a \in Range(fresh) PROVE a[3] \in Range(news)
        BY <1>3, <2>1
    <2> QED
        BY <2>2, <2>3
<1>5. \A m \in Range(news) : /\ m \notin DOMAIN reached /\ Expandable(n)
                             /\ by(m) \in Neighbours(graph, n) /\ by(m)[3] = m
    BY <1>2, <1>4
<1> HIDE DEF by
<1>6. /\ DOMAIN reached' = DOMAIN reached \cup Range(news)
      /\ \A m \in DOMAIN reached : reached'[m] = reached[m]
      /\ \A m \in Range(news) : reached'[m] = StepTo(n, by(m))
    BY <1>1, <1>5
<1>7. Expandable(n) => \A a \in Neighbours(graph, n) : a[3] \in DOMAIN reached \cup Range(news)
    BY <1>2, <1>4
<1>8. Turn(n, Range(news), news)
    BY <1>1, <1>3, <1>5, <1>6, <1>7 DEF Turn, n
<1> QED
    BY <1>8 DEF n

\* Who is visited: nodes of the slice, each within the hops it was reached in.
Visits ==
    /\ Sliced
    /\ start \in DOMAIN reached /\ reached[start].hop = 0
    /\ queue \in Seq(DOMAIN reached)
    /\ \A n \in DOMAIN reached :
          /\ n \in Nodes(graph) /\ reached[n].hop \in 0 .. MAX_HOPS
          /\ n \in Within(graph, start, reached[n].hop)

\* The queue is in order of hops, and no node is more than one hop past any in it.
InLine ==
    /\ \A i, j \in DOMAIN queue : i <= j => reached[queue[i]].hop <= reached[queue[j]].hop
    /\ \A m \in DOMAIN reached, i \in DOMAIN queue : reached[m].hop <= reached[queue[i]].hop + 1

\* Who has left the queue has shown its neighbours, none more than one hop past it.
Shown ==
    \A m \in DOMAIN reached \ Range(queue) :
        Expandable(m) => \A a \in Neighbours(graph, m) :
            a[3] \in DOMAIN reached /\ reached[a[3]].hop <= reached[m].hop + 1

Walking == Visits /\ InLine /\ Shown /\ ChainsLeadBack

\* One turn keeps the visits.
LEMMA VisitsStep ==
    ASSUME Visits, NEW n, NEW new, NEW news, Turn(n, new, news), graph' = graph
    PROVE  /\ Visits' /\ n \in DOMAIN reached
           /\ \A m \in new : reached'[m].hop = reached[n].hop + 1
<1>1. /\ start' = start /\ graph' = graph /\ n = Head(queue) /\ queue # <<>>
      /\ DOMAIN reached' = DOMAIN reached \cup new /\ new \cap DOMAIN reached = {}
      /\ \A m \in DOMAIN reached : reached'[m] = reached[m]
      /\ news \in Seq(new) /\ queue' = Tail(queue) \o news
    BY DEF Turn
<1>2. n \in DOMAIN reached
    BY <1>1 DEF Visits
<1>3. queue' \in Seq(DOMAIN reached')
    BY <1>1, QueueMoves DEF Visits
<1>4. MAX_HOPS \in Nat
    BY HopsAssumption
<1>5. ASSUME NEW m \in new
      PROVE  /\ m \in Nodes(graph) /\ reached'[m].hop = reached[n].hop + 1
             /\ reached'[m].hop \in 0 .. MAX_HOPS /\ m \in Within(graph, start, reached'[m].hop)
    <2>1. PICK a \in Neighbours(graph, n) : a[3] = m /\ reached'[m] = StepTo(n, a)
        BY DEF Turn
    <2>2. reached'[m].hop = reached[n].hop + 1
        BY <2>1 DEF StepTo
    <2>3. ~Terminal(graph, n) /\ reached[n].hop < MAX_HOPS
        BY DEF Turn, Expandable
    <2>4. reached[n].hop \in 0 .. MAX_HOPS /\ n \in Within(graph, start, reached[n].hop)
        BY <1>2 DEF Visits
    <2>5. reached'[m].hop \in 0 .. MAX_HOPS
        BY <1>4, <2>2, <2>3, <2>4
    <2>6. m \in Wider(graph, Within(graph, start, reached[n].hop))
        BY <2>1, <2>3, <2>4, WiderMeets
    <2>7. m \in Within(graph, start, reached[n].hop + 1)
        BY <1>4, <2>4, <2>6, WithinIs
    <2>8. m \in Nodes(graph)
        BY <2>1, NeighboursAre DEF Visits
    <2> QED
        BY <2>2, <2>5, <2>7, <2>8
<1>6. Sliced'
    BY <1>1 DEF Visits, Sliced
<1>7. start' \in DOMAIN reached' /\ reached'[start'].hop = 0
    BY <1>1 DEF Visits
<1>8. \A m \in DOMAIN reached' :
          /\ m \in Nodes(graph') /\ reached'[m].hop \in 0 .. MAX_HOPS
          /\ m \in Within(graph', start', reached'[m].hop)
    BY <1>1, <1>5 DEF Visits
<1> QED
    BY <1>2, <1>3, <1>5, <1>6, <1>7, <1>8 DEF Visits

\* One turn keeps the queue in line.
LEMMA InLineStep ==
    ASSUME Visits, InLine, NEW n, NEW new, NEW news, Turn(n, new, news), graph' = graph
    PROVE  InLine'
<1> DEFINE hop(m) == reached[m].hop
           next(m) == reached'[m].hop
<1>1. /\ n = Head(queue) /\ queue # <<>> /\ queue \in Seq(DOMAIN reached)
      /\ DOMAIN reached' = DOMAIN reached \cup new
      /\ news \in Seq(new) /\ queue' = Tail(queue) \o news
    BY DEF Turn, Visits
<1>2. /\ n \in DOMAIN reached /\ \A m \in new : next(m) = hop(n) + 1
      /\ \A m \in DOMAIN reached : next(m) = hop(m) /\ hop(m) \in Nat
    <2>1. \A m \in DOMAIN reached : next(m) = hop(m) /\ hop(m) \in Nat
        BY DEF Turn, Visits
    <2> QED
        BY <2>1, VisitsStep
<1>3. /\ \A i, j \in DOMAIN queue : i <= j => hop(queue[i]) <= hop(queue[j])
      /\ \A m \in DOMAIN reached, i \in DOMAIN queue : hop(m) <= hop(queue[i]) + 1
    BY DEF InLine
<1> DEFINE kept == Len(queue) - 1
<1>4. \A i \in DOMAIN queue' :
          \/ i <= kept /\ i + 1 \in DOMAIN queue /\ queue'[i] = queue[i + 1]
          \/ i > kept /\ i - kept \in DOMAIN news /\ queue'[i] = news[i - kept]
    BY <1>1, QueueMoves
<1>5. kept \in Nat /\ DOMAIN queue = 1 .. Len(queue) /\ 1 \in DOMAIN queue /\ queue[1] = n
    BY <1>1
<1>6. /\ \A i \in DOMAIN queue : queue[i] \in DOMAIN reached
      /\ \A i \in DOMAIN news : news[i] \in new
      /\ \A i \in DOMAIN queue' : i \in Nat
    <2>1. queue' \in Seq(DOMAIN reached \cup new)
        BY <1>1, QueueMoves
    <2>2. DOMAIN queue' \subseteq Nat
        BY <2>1
    <2> QED
        BY <1>1, <2>2
<1> HIDE DEF kept, hop, next
<1>7. ASSUME NEW i \in DOMAIN queue'
      PROVE  /\ next(queue'[i]) \in Nat /\ hop(n) <= next(queue'[i]) /\ next(queue'[i]) <= hop(n) + 1
             /\ i <= kept => next(queue'[i]) = hop(queue[i + 1])
             /\ ~(i <= kept) => next(queue'[i]) = hop(n) + 1
    <2>1. CASE i <= kept
        <3>1. i + 1 \in DOMAIN queue /\ queue'[i] = queue[i + 1] /\ 1 <= i + 1
            BY <1>4, <1>5, <1>6, <2>1
        <3>2. queue[i + 1] \in DOMAIN reached /\ next(queue[i + 1]) = hop(queue[i + 1])
            BY <1>2, <1>6, <3>1
        <3>3. hop(n) <= hop(queue[i + 1]) /\ hop(queue[i + 1]) <= hop(n) + 1
            BY <1>3, <1>5, <3>1, <3>2
        <3> QED
            BY <1>2, <2>1, <3>1, <3>2, <3>3
    <2>2. CASE ~(i <= kept)
        <3>1. i - kept \in DOMAIN news /\ queue'[i] = news[i - kept]
            BY <1>4, <2>2
        <3>2. next(queue'[i]) = hop(n) + 1
            BY <1>2, <1>6, <3>1
        <3> QED
            BY <1>2, <2>2, <3>2
    <2> QED
        BY <2>1, <2>2
<1>8. ASSUME NEW i \in DOMAIN queue', NEW j \in DOMAIN queue', i <= j
      PROVE  next(queue'[i]) <= next(queue'[j])
    <2>1. i \in Nat /\ j \in Nat
        BY <1>6
    <2>2. CASE j <= kept
        <3>1. i <= kept /\ i + 1 \in DOMAIN queue /\ j + 1 \in DOMAIN queue /\ i + 1 <= j + 1
            BY <1>4, <1>5, <1>8, <2>1, <2>2
        <3> QED
            BY <1>3, <1>7, <2>2, <3>1
    <2>3. CASE ~(j <= kept)
        BY <1>7, <2>3
    <2> QED
        BY <2>2, <2>3
<1>9. ASSUME NEW m \in DOMAIN reached', NEW i \in DOMAIN queue'
      PROVE  next(m) <= next(queue'[i]) + 1
    <2>1. next(m) \in Nat /\ next(m) <= hop(n) + 1
        BY <1>1, <1>2, <1>3, <1>5
    <2>2. next(queue'[i]) \in Nat /\ hop(n) <= next(queue'[i]) /\ hop(n) \in Nat
        BY <1>2, <1>7
    <2> QED
        BY <2>1, <2>2
<1> QED
    BY <1>8, <1>9 DEF InLine, next

\* One turn shows the neighbours of the node it takes.
LEMMA ShownStep ==
    ASSUME Visits, InLine, Shown, NEW n, NEW new, NEW news, Turn(n, new, news), graph' = graph
    PROVE  Shown'
<1>1. /\ n = Head(queue) /\ queue # <<>> /\ queue \in Seq(DOMAIN reached)
      /\ DOMAIN reached' = DOMAIN reached \cup new /\ new \cap DOMAIN reached = {}
      /\ news \in Seq(new) /\ Range(news) = new /\ queue' = Tail(queue) \o news
      /\ \A m \in DOMAIN reached : reached'[m] = reached[m]
      /\ Expandable(n) => \A a \in Neighbours(graph, n) : a[3] \in DOMAIN reached \cup new
    BY DEF Turn, Visits
<1>2. n \in DOMAIN reached /\ \A m \in new : reached'[m].hop = reached[n].hop + 1
    BY VisitsStep
<1>3. Range(queue) \subseteq Range(queue') \cup {n} /\ new \subseteq Range(queue')
    BY <1>1, QueueMoves
<1>4. \A m \in DOMAIN reached : reached[m].hop \in Nat /\ reached[m].hop <= reached[n].hop + 1
    <2>1. 1 \in DOMAIN queue /\ queue[1] = n
        BY <1>1
    <2> QED
        BY <2>1 DEF InLine, Visits
<1> SUFFICES ASSUME NEW m \in DOMAIN reached' \ Range(queue'), Expandable(m)',
                    NEW a \in Neighbours(graph, m)
             PROVE  a[3] \in DOMAIN reached' /\ reached'[a[3]].hop <= reached'[m].hop + 1
    BY DEF Shown
<1>5. m \in DOMAIN reached /\ reached'[m] = reached[m] /\ (m = n \/ m \notin Range(queue))
    BY <1>1, <1>3
<1>6. Expandable(m)
    BY <1>5 DEF Expandable
<1>7. CASE m = n
    <2>1. a[3] \in DOMAIN reached \cup new
        BY <1>1, <1>6, <1>7
    <2>2. CASE a[3] \in new
        <3>1. reached'[a[3]].hop = reached[n].hop + 1 /\ reached[n].hop \in Nat
            BY <1>2, <1>4, <2>2
        <3> QED
            BY <1>1, <1>5, <1>7, <2>1, <3>1
    <2>3. CASE a[3] \in DOMAIN reached
        BY <1>1, <1>4, <1>5, <1>7, <2>3
    <2> QED
        BY <2>1, <2>2, <2>3
<1>8. CASE m \notin Range(queue)
    <2>1. a[3] \in DOMAIN reached /\ reached[a[3]].hop <= reached[m].hop + 1
        BY <1>5, <1>6, <1>8 DEF Shown
    <2> QED
        BY <1>1, <1>5, <2>1
<1> QED
    BY <1>5, <1>7, <1>8

\* One turn keeps every chain leading back.
LEMMA ChainsStep ==
    ASSUME Visits, ChainsLeadBack, NEW n, NEW new, NEW news, Turn(n, new, news), graph' = graph
    PROVE  ChainsLeadBack'
<1>1. /\ start' = start /\ DOMAIN reached' = DOMAIN reached \cup new /\ new \cap DOMAIN reached = {}
      /\ \A m \in DOMAIN reached : reached'[m] = reached[m]
    BY DEF Turn
<1>2. n \in DOMAIN reached
    BY VisitsStep
<1>3. ASSUME NEW m \in DOMAIN reached \ {start}
      PROVE  LET s == reached'[m] IN
             /\ s.parent \in DOMAIN reached' /\ ~Terminal(graph, s.parent)
             /\ s.hop = reached'[s.parent].hop + 1
             /\ s.via \in Followable(graph)
             /\ IF s.direction = 0 THEN s.via.source = s.parent /\ s.via.target = m
                                   ELSE s.via.target = s.parent /\ s.via.source = m
    <2>1. reached'[m] = reached[m] /\ reached[m].parent \in DOMAIN reached
        BY <1>1 DEF ChainsLeadBack
    <2>2. reached'[reached[m].parent] = reached[reached[m].parent]
        BY <1>1, <2>1
    <2> QED
        BY <1>1, <2>1, <2>2 DEF ChainsLeadBack
<1>4. ASSUME NEW m \in new
      PROVE  LET s == reached'[m] IN
             /\ s.parent \in DOMAIN reached' /\ ~Terminal(graph, s.parent)
             /\ s.hop = reached'[s.parent].hop + 1
             /\ s.via \in Followable(graph)
             /\ IF s.direction = 0 THEN s.via.source = s.parent /\ s.via.target = m
                                   ELSE s.via.target = s.parent /\ s.via.source = m
    <2>1. PICK a \in Neighbours(graph, n) : a[3] = m /\ reached'[m] = StepTo(n, a)
        BY DEF Turn
    <2>2. ~Terminal(graph, n)
        BY DEF Turn, Expandable
    <2>3. /\ reached'[m].parent = n /\ reached'[m].via = a[4] /\ reached'[m].direction = a[2]
          /\ reached'[m].hop = reached[n].hop + 1
        BY <2>1 DEF StepTo
    <2>4. reached'[n] = reached[n] /\ n \in DOMAIN reached'
        BY <1>1, <1>2
    <2>5. /\ a[4] \in Followable(graph)
          /\ IF a[2] = 0 THEN a[4].source = n /\ a[4].target = m ELSE a[4].target = n /\ a[4].source = m
        BY <2>1, NeighbourIs
    <2> QED
        BY <2>2, <2>3, <2>4, <2>5
<1> QED
    BY <1>1, <1>3, <1>4 DEF ChainsLeadBack

-----------------------------------------------------------------------------
(* The walk, finished.                                                     *)

\* Each number of hops reaches the nodes the walk met by then, and no others.
LEMMA LayersAreMet ==
    ASSUME Walking, queue = <<>>, NEW h \in 0 .. MAX_HOPS
    PROVE  Within(graph, start, h) = {n \in DOMAIN reached : reached[n].hop <= h}
<1>1. /\ MAX_HOPS \in Nat /\ Range(queue) = {} /\ start \in DOMAIN reached /\ reached[start].hop = 0
      /\ \A n \in DOMAIN reached : reached[n].hop \in Nat /\ n \in Within(graph, start, reached[n].hop)
    BY HopsAssumption DEF Walking, Visits, Range
<1>2. \A m \in DOMAIN reached : Expandable(m) => \A a \in Neighbours(graph, m) :
          a[3] \in DOMAIN reached /\ reached[a[3]].hop <= reached[m].hop + 1
    BY <1>1 DEF Walking, Shown
<1> DEFINE met(i) == {n \in DOMAIN reached : reached[n].hop <= i}
           bad == {i \in 0 .. MAX_HOPS : ~(Within(graph, start, i) \subseteq met(i))}
<1>3. bad = {}
    <2>1. SUFFICES ASSUME bad # {} PROVE FALSE
        OBVIOUS
    <2>2. PICK i \in bad : \A y \in bad : ~(y < i)
        <3>1. bad \in SUBSET Nat
            BY <1>1
        <3> HIDE DEF bad
        <3> QED
            BY <2>1, <3>1, LeastNatural
    <2>3. i \in 0 .. MAX_HOPS /\ ~(Within(graph, start, i) \subseteq met(i))
        BY <2>2
    <2>4. i # 0
        <3>1. Within(graph, start, 0) = {start}
            BY <1>1, WithinIs
        <3> QED
            BY <1>1, <2>3, <3>1
    <2> DEFINE j == i - 1
    <2>5. j \in Nat /\ j < MAX_HOPS /\ j \in 0 .. MAX_HOPS /\ j < i /\ i = j + 1
        BY <1>1, <2>3, <2>4
    <2>6. Within(graph, start, j) \subseteq met(j)
        BY <2>2, <2>5
    <2> HIDE DEF j, bad
    <2>7. PICK x \in Within(graph, start, i) : x \notin met(i)
        BY <2>3
    <2>8. x \in Wider(graph, Within(graph, start, j))
        BY <2>5, <2>7, WithinIs
    <2>9. CASE x \in Within(graph, start, j)
        <3>1. x \in DOMAIN reached /\ reached[x].hop <= j
            BY <2>6, <2>9
        <3> QED
            BY <1>1, <2>5, <2>7, <3>1
    <2>10. CASE x \notin Within(graph, start, j)
        <3>1. PICK m \in Within(graph, start, j) :
                  ~Terminal(graph, m) /\ \E a \in Neighbours(graph, m) : a[3] = x
            BY <2>8, <2>10, WiderMeets
        <3>2. m \in DOMAIN reached /\ reached[m].hop <= j /\ reached[m].hop \in Nat
            BY <1>1, <2>6, <3>1
        <3>3. Expandable(m)
            BY <1>1, <2>5, <3>1, <3>2 DEF Expandable
        <3>4. x \in DOMAIN reached /\ reached[x].hop <= reached[m].hop + 1
            BY <1>2, <3>1, <3>2, <3>3
        <3> QED
            BY <1>1, <2>5, <2>7, <3>2, <3>4
    <2> QED
        BY <2>9, <2>10
<1>4. Within(graph, start, h) \subseteq met(h)
    BY <1>3
<1>5. met(h) \subseteq Within(graph, start, h)
    <2> SUFFICES ASSUME NEW n \in met(h) PROVE n \in Within(graph, start, h)
        OBVIOUS
    <2>1. n \in DOMAIN reached /\ reached[n].hop <= h /\ reached[n].hop \in Nat /\ h \in Nat
        BY <1>1
    <2> QED
        BY <1>1, <2>1, WithinGrows
<1> QED
    BY <1>4, <1>5

\* A node's hop is its distance.
LEMMA HopIsDistance ==
    ASSUME Walking, queue = <<>>, NEW n \in DOMAIN reached
    PROVE  reached[n].hop = Distance(graph, n)
<1> DEFINE near(h) == n \in Reach(graph, h) /\ (h > 0 => n \notin Reach(graph, h - 1))
           hop == reached[n].hop
<1>1. MAX_HOPS \in Nat /\ hop \in 0 .. MAX_HOPS
    BY HopsAssumption DEF Walking, Visits
<1>2. \A h \in 0 .. MAX_HOPS : n \in Reach(graph, h) <=> hop <= h
    BY LayersAreMet DEF Reach
<1> HIDE DEF hop
<1>3. near(hop)
    <2>1. n \in Reach(graph, hop)
        BY <1>1, <1>2
    <2>2. ASSUME hop > 0 PROVE n \notin Reach(graph, hop - 1)
        <3>1. hop - 1 \in 0 .. MAX_HOPS /\ ~(hop <= hop - 1)
            BY <1>1, <2>2
        <3> QED
            BY <1>2, <3>1
    <2> QED
        BY <2>1, <2>2
<1>4. ASSUME NEW h \in 0 .. MAX_HOPS, near(h) PROVE h = hop
    <2>1. hop <= h
        BY <1>2, <1>4
    <2>2. CASE h > 0
        <3>1. h - 1 \in 0 .. MAX_HOPS
            BY <1>1, <2>2
        <3>2. ~(hop <= h - 1)
            BY <1>2, <1>4, <2>2, <3>1
        <3> QED
            BY <1>1, <2>1, <3>1, <3>2
    <2>3. CASE ~(h > 0)
        BY <1>1, <2>1, <2>3
    <2> QED
        BY <2>2, <2>3
<1>5. Distance(graph, n) = CHOOSE h \in 0 .. MAX_HOPS : near(h)
    BY DEF Distance
<1> HIDE DEF near
<1>6. Distance(graph, n) = hop
    BY <1>1, <1>3, <1>4, <1>5
<1> QED
    BY <1>6 DEF hop

-----------------------------------------------------------------------------
(* The held view against the accepted graph.                               *)

Clean == GraphSlice(stored, FALSE)

\* The accepted graph is the part of the slice that is not held.
LEMMA CleanIs ==
    ASSUME ReadGraph
    PROVE  /\ IsGraph(Clean) /\ IsGraph(graph) /\ Nodes(Clean) \subseteq Nodes(graph)
           /\ \A n \in Nodes(Clean) : Clean.node[n] = graph.node[n]
           /\ \A n \in Nodes(graph) : ~graph.node[n].held => n \in Nodes(Clean)
           /\ Followable(Clean) \subseteq Followable(graph)
           /\ \A k \in Followable(graph) :
                 ~k.held /\ Ends(k) \subseteq Nodes(Clean) => k \in Followable(Clean)
           /\ ~withHeld => /\ \A n \in Nodes(graph) : ~graph.node[n].held
                           /\ \A k \in Followable(graph) : ~k.held
<1> DEFINE kept == Kept(stored)
           d == DropHeld(kept)
<1>1. stored \in Stored /\ graph = GraphSlice(stored, withHeld) /\ IsGraph(stored)
    BY StoredAssumption DEF ReadGraph
<1>2. Clean = d /\ graph = IF withHeld THEN kept ELSE d
    BY <1>1 DEF Clean, GraphSlice, Kept
<1>3. IsGraph(kept)
    BY <1>1, KeptIs
<1> HIDE DEF kept
<1>4. /\ IsGraph(d) /\ Nodes(d) = {n \in Nodes(kept) : ~kept.node[n].held}
      /\ \A n \in Nodes(d) : d.node[n] = kept.node[n]
      /\ d.links = {k \in kept.links : ~k.held /\ \A n \in Ends(k) \cap Nodes(kept) : ~kept.node[n].held}
    BY <1>3, DropHeldIs
<1> HIDE DEF d
<1>5. /\ Followable(d) \subseteq Followable(kept) /\ \A k \in Followable(d) : ~k.held
      /\ \A k \in Followable(kept) : ~k.held /\ Ends(k) \subseteq Nodes(d) => k \in Followable(d)
    BY <1>4 DEF Followable
<1>6. CASE withHeld
    <2>1. graph = kept
        BY <1>2, <1>6
    <2> QED
        BY <1>2, <1>3, <1>4, <1>5, <1>6, <2>1
<1>7. CASE ~withHeld
    <2>1. graph = d
        BY <1>2, <1>7
    <2>2. \A n \in Nodes(d) : ~d.node[n].held
        BY <1>4
    <2> QED
        BY <1>2, <1>4, <1>5, <2>1, <2>2
<1> QED
    BY <1>6, <1>7

\* What the accepted graph reaches in some hops, the slice reaches in as many.
LEMMA CleanReachesLess ==
    ASSUME ReadGraph, NEW h \in Nat
    PROVE  Within(Clean, start, h) \subseteq Within(graph, start, h)
<1> DEFINE bad == {m \in Nat : ~(Within(Clean, start, m) \subseteq Within(graph, start, m))}
<1>1. SUFFICES ASSUME bad # {} PROVE FALSE
    OBVIOUS
<1>2. PICK m \in bad : \A y \in bad : ~(y < m)
    <2>1. bad \in SUBSET Nat
        OBVIOUS
    <2> HIDE DEF bad
    <2> QED
        BY <1>1, <2>1, LeastNatural
<1>3. m \in Nat /\ ~(Within(Clean, start, m) \subseteq Within(graph, start, m))
    BY <1>2
<1>4. m # 0
    <2>1. 0 \in Nat
        OBVIOUS
    <2>2. Within(Clean, start, 0) = {start} /\ Within(graph, start, 0) = {start}
        BY <2>1, WithinIs
    <2> QED
        BY <1>3, <2>2
<1> DEFINE j == m - 1
<1>5. j \in Nat /\ j < m /\ m = j + 1
    BY <1>3, <1>4
<1>6. Within(Clean, start, j) \subseteq Within(graph, start, j)
    BY <1>2, <1>5
<1> HIDE DEF j, bad
<1>7. /\ Within(Clean, start, m) = Wider(Clean, Within(Clean, start, j))
      /\ Within(graph, start, m) = Wider(graph, Within(graph, start, j))
    BY <1>5, WithinIs
<1>8. ASSUME NEW x \in Wider(Clean, Within(Clean, start, j))
      PROVE  x \in Wider(graph, Within(graph, start, j))
    <2>1. CASE x \in Within(Clean, start, j)
        BY <1>6, <2>1, WiderMeets
    <2>2. CASE x \notin Within(Clean, start, j)
        <3>1. PICK n \in Within(Clean, start, j) :
                  ~Terminal(Clean, n) /\ \E a \in Neighbours(Clean, n) : a[3] = x
            BY <2>2, WiderMeets
        <3>2. PICK a \in Neighbours(Clean, n) : a[3] = x
            BY <3>1
        <3>3. /\ a[4] \in Followable(Clean) /\ a = <<a[4].type, a[2], a[3], a[4]>>
              /\ \/ a[2] = 0 /\ a[4].source = n /\ a[4].target = a[3]
                 \/ a[2] = 1 /\ a[4].target = n /\ a[4].source = a[3]
            BY NeighbourIs
        <3>4. a[4] \in Followable(graph) /\ n \in Nodes(Clean)
            BY <3>3, CleanIs DEF Followable, Ends
        <3>5. ~Terminal(graph, n)
            BY <3>1, <3>4, CleanIs DEF Terminal
        <3>6. \E b \in Neighbours(graph, n) : b[3] = x
            <4>1. PICK k \in Followable(graph) : k = a[4]
                BY <3>4
            <4>2. /\ <<k.type, 0, k.target, k>> \in Neighbours(graph, k.source)
                  /\ <<k.type, 1, k.source, k>> \in Neighbours(graph, k.target)
                BY EndsAreNeighbours
            <4>3. \/ k.source = n /\ k.target = x
                  \/ k.target = n /\ k.source = x
                BY <3>2, <3>3, <4>1
            <4> QED
                BY <4>2, <4>3
        <3> QED
            BY <1>6, <3>1, <3>5, <3>6, WiderMeets
    <2> QED
        BY <2>1, <2>2
<1> QED
    BY <1>3, <1>7, <1>8

\* The path back from n, parent by parent.
IsPath(up, n, h) == up = [k \in 0 .. h |-> IF k = 0 THEN n ELSE reached[up[k - 1]].parent]

\* There is one of every length.
LEMMA PathExists ==
    ASSUME NEW n, NEW h \in Nat
    PROVE  \E up : IsPath(up, n, h)
<1> DEFINE bad == {m \in Nat : ~\E up : IsPath(up, n, m)}
<1>1. SUFFICES ASSUME bad # {} PROVE FALSE
    OBVIOUS
<1>2. PICK m \in bad : \A y \in bad : ~(y < m)
    <2>1. bad \in SUBSET Nat
        OBVIOUS
    <2> HIDE DEF bad
    <2> QED
        BY <1>1, <2>1, LeastNatural
<1>3. m \in Nat /\ ~\E up : IsPath(up, n, m)
    BY <1>2
<1>4. CASE m = 0
    <2> DEFINE f == [k \in 0 .. 0 |-> n]
    <2>1. f = [k \in 0 .. 0 |-> IF k = 0 THEN n ELSE reached[f[k - 1]].parent]
        OBVIOUS
    <2> HIDE DEF f
    <2>2. IsPath(f, n, m)
        BY <1>4, <2>1 DEF IsPath
    <2> QED
        BY <1>3, <2>2
<1>5. CASE m # 0
    <2>1. m - 1 \in Nat /\ m - 1 < m /\ m - 1 \notin bad
        BY <1>2, <1>3, <1>5
    <2>2. PICK e : IsPath(e, n, m - 1)
        BY <2>1
    <2> DEFINE f == [k \in 0 .. m |-> IF k = m THEN reached[e[m - 1]].parent ELSE e[k]]
    <2>3. \A k \in 0 .. m - 1 : e[k] = IF k = 0 THEN n ELSE reached[e[k - 1]].parent
        BY <2>2 DEF IsPath
    <2>4. ASSUME NEW k \in 0 .. m
          PROVE  f[k] = IF k = 0 THEN n ELSE reached[f[k - 1]].parent
        <3>1. CASE k = m
            <4>1. f[k - 1] = e[m - 1] /\ f[k] = reached[e[m - 1]].parent
                BY <1>3, <1>5, <3>1
            <4> HIDE DEF f
            <4> QED
                BY <1>5, <3>1, <4>1
        <3>2. CASE k # m /\ k # 0
            <4>1. k \in 0 .. m - 1 /\ k - 1 \in 0 .. m /\ k - 1 # m
                BY <1>3, <3>2
            <4>2. f[k] = e[k] /\ f[k - 1] = e[k - 1]
                BY <3>2, <4>1
            <4> HIDE DEF f
            <4> QED
                BY <2>3, <3>2, <4>1, <4>2
        <3>3. CASE k = 0
            <4>1. f[k] = e[0] /\ 0 \in 0 .. m - 1
                BY <1>3, <1>5, <3>3
            <4> HIDE DEF f
            <4> QED
                BY <2>3, <3>3, <4>1
        <3> QED
            BY <3>1, <3>2, <3>3
    <2>5. f = [k \in 0 .. m |-> f[k]]
        OBVIOUS
    <2> HIDE DEF f
    <2>6. IsPath(f, n, m)
        BY <2>4, <2>5 DEF IsPath
    <2> QED
        BY <1>3, <2>6
<1> QED
    BY <1>4, <1>5

\* It goes back hop by hop, and ends at the start.
LEMMA PathLeadsBack ==
    ASSUME Walking, NEW n \in DOMAIN reached, NEW up, IsPath(up, n, reached[n].hop)
    PROVE  /\ \A k \in 0 .. reached[n].hop :
                 up[k] \in DOMAIN reached /\ reached[up[k]].hop = reached[n].hop - k
           /\ \A k \in 1 .. reached[n].hop :
                 up[k - 1] # start /\ up[k] = reached[up[k - 1]].parent
           /\ up[reached[n].hop] = start
<1> DEFINE N == reached[n].hop
           good(k) == up[k] \in DOMAIN reached /\ reached[up[k]].hop = N - k
           bad == {k \in 0 .. N : ~good(k)}
<1>1. /\ N \in Nat /\ start \in DOMAIN reached /\ reached[start].hop = 0
      /\ \A m \in DOMAIN reached : reached[m].hop \in Nat
      /\ \A m \in DOMAIN reached \ {start} :
            /\ reached[m].parent \in DOMAIN reached
            /\ reached[m].hop = reached[reached[m].parent].hop + 1
    <2>1. /\ start \in DOMAIN reached /\ reached[start].hop = 0
          /\ \A m \in DOMAIN reached : reached[m].hop \in Nat
        BY DEF Walking, Visits
    <2>2. \A m \in DOMAIN reached \ {start} :
            /\ reached[m].parent \in DOMAIN reached
            /\ reached[m].hop = reached[reached[m].parent].hop + 1
        BY DEF Walking, ChainsLeadBack
    <2> QED
        BY <2>1, <2>2
<1>2. /\ up[0] = n
      /\ \A k \in 1 .. N : up[k] = reached[up[k - 1]].parent
    BY <1>1 DEF IsPath
<1>n. reached[n].hop = N
    OBVIOUS
<1> HIDE DEF N
<1>3. \A k \in 1 .. N : good(k - 1) => up[k - 1] # start /\ good(k)
    <2> SUFFICES ASSUME NEW k \in 1 .. N, good(k - 1) PROVE up[k - 1] # start /\ good(k)
        OBVIOUS
    <2>1. k - 1 \in Nat /\ k \in Nat /\ N - (k - 1) = (N - k) + 1 /\ N - (k - 1) # 0
        BY <1>1
    <2>2. up[k - 1] \in DOMAIN reached /\ reached[up[k - 1]].hop = N - (k - 1)
        OBVIOUS
    <2>3. up[k - 1] # start
        BY <1>1, <2>1, <2>2
    <2>4. /\ up[k] \in DOMAIN reached /\ reached[up[k]].hop \in Nat
          /\ reached[up[k - 1]].hop = reached[up[k]].hop + 1
        BY <1>1, <1>2, <2>2, <2>3
    <2>5. reached[up[k]].hop = N - k
        BY <1>1, <2>1, <2>2, <2>4
    <2> QED
        BY <2>3, <2>4, <2>5
<1>4. bad = {}
    <2>1. SUFFICES ASSUME bad # {} PROVE FALSE
        OBVIOUS
    <2>2. PICK k \in bad : \A y \in bad : ~(y < k)
        <3>1. bad \in SUBSET Nat
            BY <1>1
        <3> HIDE DEF bad
        <3> QED
            BY <2>1, <3>1, LeastNatural
    <2>3. k \in 0 .. N /\ ~good(k)
        BY <2>2
    <2>4. good(0)
        BY <1>1, <1>2, <1>n
    <2>5. k # 0
        BY <2>3, <2>4
    <2>6. k \in 1 .. N /\ k - 1 \in 0 .. N /\ k - 1 < k
        BY <1>1, <2>3, <2>5
    <2>7. good(k - 1)
        BY <2>2, <2>6
    <2> QED
        BY <1>3, <2>3, <2>6, <2>7
<1>5. \A k \in 0 .. N : good(k)
    BY <1>4
<1>6. \A k \in 1 .. N : up[k - 1] # start
    <2> SUFFICES ASSUME NEW k \in 1 .. N PROVE up[k - 1] # start
        OBVIOUS
    <2>1. k - 1 \in 0 .. N
        BY <1>1
    <2> QED
        BY <1>3, <1>5, <2>1
<1>7. up[N] = start
    <2>1. N \in 0 .. N /\ N - N = 0
        BY <1>1
    <2>2. up[N] \in DOMAIN reached /\ reached[up[N]].hop = 0
        BY <1>5, <2>1
    <2>3. ASSUME up[N] # start PROVE FALSE
        <3>1. /\ reached[up[N]].parent \in DOMAIN reached
              /\ reached[up[N]].hop = reached[reached[up[N]].parent].hop + 1
            BY <1>1, <2>2, <2>3
        <3>2. reached[reached[up[N]].parent].hop \in Nat
            BY <1>1, <3>1
        <3> QED
            BY <2>2, <3>1, <3>2
    <2> QED
        BY <2>3
<1> QED
    BY <1>2, <1>5, <1>6, <1>7, <1>n

\* A path with nothing held on it is one of the accepted graph.
LEMMA CleanPath ==
    ASSUME ReadGraph, Walking, NEW n \in DOMAIN reached, HeldParts(n) = {}
    PROVE  start \in Nodes(Clean) /\ n \in Within(Clean, start, reached[n].hop)
<1> DEFINE N == reached[n].hop
           up == CHOOSE u : IsPath(u, n, N)
           good(i) == up[N - i] \in Within(Clean, start, i)
           bad == {i \in 0 .. N : ~good(i)}
<1>1. N \in Nat /\ \A m \in DOMAIN reached : m \in Nodes(graph)
    BY DEF Walking, Visits
<1>2. IsPath(up, n, N)
    <2>1. \E u : IsPath(u, n, N)
        BY <1>1, PathExists
    <2> HIDE DEF N
    <2> QED
        BY <2>1
<1>3. PathTo(n) = Range(up)
    BY DEF PathTo, IsPath
<1> HIDE DEF up
<1>4. /\ \A k \in 0 .. N : up[k] \in DOMAIN reached /\ up[k] \in PathTo(n)
      /\ \A k \in 1 .. N : up[k - 1] # start /\ up[k] = reached[up[k - 1]].parent
      /\ up[N] = start /\ up[0] = n
    <2>1. DOMAIN up = 0 .. N /\ up[0] = n
        BY <1>1, <1>2 DEF IsPath
    <2>2. /\ \A k \in 0 .. N : up[k] \in DOMAIN reached
          /\ \A k \in 1 .. N : up[k - 1] # start /\ up[k] = reached[up[k - 1]].parent
          /\ up[N] = start
        BY <1>2, PathLeadsBack
    <2> QED
        BY <1>3, <2>1, <2>2 DEF Range
<1> HIDE DEF N
<1>5. \A k \in 0 .. N : /\ up[k] \in Nodes(Clean)
                        /\ up[k] # start => ~reached[up[k]].via.held
    <2> SUFFICES ASSUME NEW k \in 0 .. N
                 PROVE  up[k] \in Nodes(Clean) /\ (up[k] # start => ~reached[up[k]].via.held)
        OBVIOUS
    <2>1. up[k] \notin HeldSteps /\ up[k] \notin HeldVias
        BY <1>4 DEF HeldParts
    <2>2. ~graph.node[up[k]].held
        BY <1>4, <2>1 DEF HeldSteps
    <2>3. up[k] \in Nodes(Clean)
        BY <1>1, <1>4, <2>2, CleanIs
    <2> QED
        BY <1>4, <2>1, <2>3 DEF HeldVias
<1>6. \A i \in 0 .. N : i # N /\ good(i) => good(i + 1)
    <2> SUFFICES ASSUME NEW i \in 0 .. N, i # N, good(i) PROVE good(i + 1)
        OBVIOUS
    <2> DEFINE k == N - i
               m == up[k - 1]
               p == up[k]
    <2>1. k \in 1 .. N /\ k \in 0 .. N /\ k - 1 \in 0 .. N /\ i \in Nat /\ N - (i + 1) = k - 1
        BY <1>1
    <2>2. m # start /\ p = reached[m].parent /\ m \in DOMAIN reached /\ p \in Within(Clean, start, i)
        BY <1>4, <2>1
    <2>3. m \in Nodes(Clean) /\ p \in Nodes(Clean) /\ ~reached[m].via.held
        BY <1>5, <2>1, <2>2
    <2> HIDE DEF k, m, p
    <2>4. /\ ~Terminal(graph, p) /\ reached[m].via \in Followable(graph)
          /\ \/ reached[m].via.source = p /\ reached[m].via.target = m
             \/ reached[m].via.target = p /\ reached[m].via.source = m
        BY <2>2 DEF Walking, ChainsLeadBack
    <2>5. PICK v \in Followable(graph) : v = reached[m].via
        BY <2>4
    <2>6. v \in Followable(Clean)
        <3>1. Ends(v) \subseteq Nodes(Clean)
            BY <2>3, <2>4, <2>5 DEF Ends
        <3> QED
            BY <2>3, <2>5, <3>1, CleanIs
    <2>7. /\ <<v.type, 0, v.target, v>> \in Neighbours(Clean, v.source)
          /\ <<v.type, 1, v.source, v>> \in Neighbours(Clean, v.target)
        BY <2>6, EndsAreNeighbours
    <2>8. \E a \in Neighbours(Clean, p) : a[3] = m
        BY <2>4, <2>5, <2>7
    <2>9. ~Terminal(Clean, p)
        BY <2>3, <2>4, CleanIs DEF Terminal
    <2>10. m \in Wider(Clean, Within(Clean, start, i))
        BY <2>2, <2>8, <2>9, WiderMeets
    <2>11. m \in Within(Clean, start, i + 1)
        BY <2>1, <2>10, WithinIs
    <2> QED
        BY <2>1, <2>11 DEF m
<1>7. good(0)
    <2>1. Within(Clean, start, 0) = {start}
        BY <1>1, WithinIs
    <2> QED
        BY <1>1, <1>4, <2>1
<1> HIDE DEF good
<1>8. bad = {}
    <2>1. SUFFICES ASSUME bad # {} PROVE FALSE
        OBVIOUS
    <2>2. PICK i \in bad : \A y \in bad : ~(y < i)
        <3>1. bad \in SUBSET Nat
            BY <1>1
        <3> HIDE DEF bad
        <3> QED
            BY <2>1, <3>1, LeastNatural
    <2>3. i \in 0 .. N /\ ~good(i) /\ i # 0
        BY <1>7, <2>2
    <2>4. i - 1 \in 0 .. N /\ i - 1 < i /\ i - 1 # N /\ (i - 1) + 1 = i
        BY <1>1, <2>3
    <2>5. good(i - 1)
        BY <2>2, <2>4
    <2>6. good((i - 1) + 1)
        BY <1>6, <2>4, <2>5
    <2> QED
        BY <2>3, <2>4, <2>6
<1>9. N \in 0 .. N /\ N - N = 0 /\ good(N)
    BY <1>1, <1>8
<1>10. n \in Within(Clean, start, N)
    BY <1>4, <1>9 DEF good
<1>11. start \in Nodes(Clean)
    BY <1>4, <1>5, <1>9
<1> QED
    BY <1>10, <1>11 DEF N

\* What the accepted graph reaches, the walk reaches no farther out.
LEMMA CleanIsReached ==
    ASSUME ReadGraph, Walking, queue = <<>>, NEW n \in Reach(Clean, MAX_HOPS)
    PROVE  n \in DOMAIN reached /\ reached[n].hop <= Distance(Clean, n)
<1> DEFINE near(h) == n \in Reach(Clean, h) /\ (h > 0 => n \notin Reach(Clean, h - 1))
           some == {h \in 0 .. MAX_HOPS : n \in Reach(Clean, h)}
<1>1. MAX_HOPS \in Nat /\ MAX_HOPS \in some
    BY HopsAssumption
<1>2. PICK h \in some : \A y \in some : ~(y < h)
    <2>1. some \in SUBSET Nat /\ some # {}
        BY <1>1
    <2> HIDE DEF some
    <2> QED
        BY <2>1, LeastNatural
<1>3. h \in 0 .. MAX_HOPS /\ near(h)
    <2>1. h \in 0 .. MAX_HOPS /\ n \in Reach(Clean, h)
        BY <1>2
    <2>2. ASSUME h > 0 PROVE n \notin Reach(Clean, h - 1)
        <3>1. h - 1 \in 0 .. MAX_HOPS /\ h - 1 < h
            BY <1>1, <2>1, <2>2
        <3> QED
            BY <1>2, <3>1
    <2> QED
        BY <2>1, <2>2
<1> DEFINE d == Distance(Clean, n)
<1>4. d = CHOOSE i \in 0 .. MAX_HOPS : near(i)
    BY DEF Distance
<1> HIDE DEF near, d
<1>5. d \in 0 .. MAX_HOPS /\ near(d)
    BY <1>3, <1>4
<1>6. n \in Within(graph, start, d)
    <2>1. n \in Within(Clean, start, d) /\ d \in Nat
        BY <1>1, <1>5 DEF near, Reach
    <2> QED
        BY <2>1, CleanReachesLess
<1>7. n \in DOMAIN reached /\ reached[n].hop <= d
    BY <1>5, <1>6, LayersAreMet
<1> QED
    BY <1>7 DEF d

-----------------------------------------------------------------------------
(* The pack: what is wanted and what is sent.                               *)

\* Everything that replaces an item of S is in S, as far as the graph has it.
Closed(S) == \A n \in S : Replaced(graph, n) \cap Nodes(graph) \subseteq S

\* What is wanted and what is sent, as the order is walked.
Sending ==
    /\ IsGraph(graph) /\ IsFiniteSet(Nodes(graph))
    /\ at \in Nat /\ full \in BOOLEAN
    /\ taken \subseteq wanted /\ wanted \subseteq Nodes(graph)
    /\ Closed(wanted) /\ Closed(taken)
    /\ ~full => taken = wanted

\* The group of an item is what it and the items already wanted need to be closed.
LEMMA GroupCloses ==
    ASSUME NEW n, NEW have, have \subseteq Nodes(graph)
    PROVE  /\ Group(graph, n, have) \subseteq Nodes(graph)
           /\ \A m \in Group(graph, n, have) :
                 (Replaced(graph, m) \cap Nodes(graph)) \subseteq have \cup Group(graph, n, have)
BY DEF Group

\* Adding a group to what is wanted leaves it closed.
LEMMA ClosedGrows ==
    ASSUME NEW n, NEW have, have \subseteq Nodes(graph), Closed(have)
    PROVE  Closed(have \cup Group(graph, n, have))
<1> DEFINE group == Group(graph, n, have)
<1>1. \A m \in have : Replaced(graph, m) \cap Nodes(graph) \subseteq have
    BY DEF Closed
<1>2. \A m \in group : Replaced(graph, m) \cap Nodes(graph) \subseteq have \cup group
    BY GroupCloses
<1> HIDE DEF group
<1>3. \A m \in have \cup group : Replaced(graph, m) \cap Nodes(graph) \subseteq have \cup group
    BY <1>1, <1>2
<1> QED
    BY <1>3 DEF Closed, group

\* One item: its group is wanted, and sent as long as everything fits.
LEMMA SendingStep ==
    ASSUME Sending, Consider, UNCHANGED <<stored, withHeld, graph>>
    PROVE  Sending'
<1> DEFINE n == ordered[at]
           group == Group(graph, n, wanted)
<1>1. graph' = graph
    OBVIOUS
<1>2. /\ at \in Nat /\ at' = at + 1 /\ at' \in Nat
      /\ taken \subseteq wanted /\ wanted \subseteq Nodes(graph)
      /\ Closed(wanted) /\ Closed(taken)
    BY DEF Sending, Consider
<1>3. CASE n \in wanted
    BY <1>1, <1>2, <1>3 DEF Sending, Consider, Closed
<1>4. CASE n \notin wanted
    <2>1. /\ wanted' = wanted \cup group
          /\ full' = (full \/ Cardinality(taken) + Cardinality(group) > ITEM_LIMIT)
          /\ taken' = IF full' THEN taken ELSE taken \cup group
        BY <1>4 DEF Consider
    <2>2. group \subseteq Nodes(graph) /\ Closed(wanted \cup group)
        BY <1>2, GroupCloses, ClosedGrows
    <2>3. full' \in BOOLEAN /\ (~full' => taken = wanted)
        BY <2>1 DEF Sending
    <2> HIDE DEF group
    <2>4. taken' \subseteq wanted' /\ wanted' \subseteq Nodes(graph') /\ (~full' => taken' = wanted')
        BY <1>1, <1>2, <2>1, <2>2, <2>3
    <2>5. \A m \in wanted' : Replaced(graph, m) \cap Nodes(graph) \subseteq wanted'
        BY <2>1, <2>2 DEF Closed
    <2>6. \A m \in taken' : Replaced(graph, m) \cap Nodes(graph) \subseteq taken'
        BY <1>2, <2>1, <2>3, <2>5 DEF Closed
    <2>7. Closed(wanted)' /\ Closed(taken)'
        BY <1>1, <2>5, <2>6 DEF Closed
    <2>8. (IsGraph(graph) /\ IsFiniteSet(Nodes(graph)))'
        BY <1>1 DEF Sending
    <2> QED
        BY <1>2, <2>3, <2>4, <2>7, <2>8 DEF Sending
<1> QED
    BY <1>3, <1>4

-----------------------------------------------------------------------------
(* The marks of a claim.                                                   *)

\* A claim without a failing mark cites something, and only what was sent; one marked `link`
\* joins each of its ids to another by a link that was sent.
LEMMA MarksTell ==
    ASSUME NEW cites, NEW basis \in Basis
    PROVE  LET marks == ClaimMarks(cites, basis) IN
           /\ "INFERRED" \in marks <=> Inferred(cites, basis)
           /\ "CITATION REJECTED" \in marks <=> RejectedIds(cites) # {}
           /\ "UNCITED" \in marks <=> cites = {}
           /\ "HISTORY" \in marks <=> HistoryClaim(cites)
           /\ "link" \in marks => basis = "link" /\ ~Inferred(cites, basis)
BY DEF ClaimMarks, Basis

\* What is joined is joined to another cited id, by a link whose ends were both sent.
LEMMA LinkedJoins ==
    ASSUME NEW cites, Linked(cites), NEW n \in cites
    PROVE  \E m \in cites \cap taken : \E k \in SentLinks : Ends(k) = {n, m} /\ m # n
<1>1. PICK k \in SentLinks : k.source # k.target /\ Ends(k) \subseteq cites /\ n \in Ends(k)
    BY DEF Linked
<1>2. Ends(k) \subseteq taken /\ Ends(k) = {k.source, k.target}
    BY DEF SentLinks, Ends
<1> QED
    BY <1>1, <1>2

-----------------------------------------------------------------------------
(* What the first positions ask for: the least closed set.                 *)

\* The items of S, everything that replaces them, and so on.
Closure(S) ==
    {m \in Nodes(graph) : \A T \in SUBSET Nodes(graph) : S \subseteq T /\ Closed(T) => m \in T}

\* A closure is closed, and any closed set with the same items holds it.
LEMMA ClosureIs ==
    ASSUME NEW S \in SUBSET Nodes(graph)
    PROVE  /\ S \subseteq Closure(S) /\ Closure(S) \subseteq Nodes(graph) /\ Closed(Closure(S))
           /\ \A T \in SUBSET Nodes(graph) : S \subseteq T /\ Closed(T) => Closure(S) \subseteq T
BY DEF Closure, Closed

\* An item that is wanted asks for nothing more; another for its group.
LEMMA ClosureGrows ==
    ASSUME NEW S \in SUBSET Nodes(graph), NEW n \in Nodes(graph)
    PROVE  Closure(S \cup {n})
           = IF n \in Closure(S) THEN Closure(S)
             ELSE Closure(S) \cup Group(graph, n, Closure(S))
<1> DEFINE have == Closure(S)
           new == Closure(S \cup {n})
           group == Group(graph, n, have)
<1>1. /\ S \subseteq have /\ have \subseteq Nodes(graph) /\ Closed(have)
      /\ \A T \in SUBSET Nodes(graph) : S \subseteq T /\ Closed(T) => have \subseteq T
    BY ClosureIs
<1>2. S \cup {n} \in SUBSET Nodes(graph)
    OBVIOUS
<1>3. /\ S \cup {n} \subseteq new /\ new \subseteq Nodes(graph) /\ Closed(new)
      /\ \A T \in SUBSET Nodes(graph) : S \cup {n} \subseteq T /\ Closed(T) => new \subseteq T
    BY <1>2, ClosureIs
<1>4. have \subseteq new
    BY <1>1, <1>3
<1>5. CASE n \in have
    BY <1>1, <1>3, <1>4, <1>5
<1>6. CASE n \notin have
    <2>1. group \subseteq Nodes(graph) /\ Closed(have \cup group)
        BY <1>1, GroupCloses, ClosedGrows
    <2>2. n \in group
        BY DEF Group
    <2>3. new \subseteq have \cup group
        <3> HIDE DEF have, new, group
        <3> QED
            BY <1>1, <1>3, <2>1, <2>2
    <2>4. group \subseteq new
        <3>1. n \in new /\ \A k \in new : (Replaced(graph, k) \cap Nodes(graph)) \ have \subseteq new
            BY <1>3 DEF Closed
        <3> HIDE DEF have, new
        <3> QED
            BY <1>3, <3>1 DEF Group
    <2> HIDE DEF have, new, group
    <2>5. new = have \cup group
        BY <1>4, <2>3, <2>4
    <2> QED
        BY <1>6, <2>5 DEF have, new, group
<1> QED
    BY <1>5, <1>6

\* A group holds nothing that was wanted already.
LEMMA GroupIsNew ==
    ASSUME NEW have \in SUBSET Nodes(graph), NEW n \in Nodes(graph) \ have
    PROVE  Group(graph, n, have) \cap have = {}
<1> DEFINE group == Group(graph, n, have)
           less == group \ have
<1>1. group \subseteq Nodes(graph)
    BY DEF Group
<1>2. n \in less
    BY DEF Group
<1>3. \A k \in group : (Replaced(graph, k) \cap Nodes(graph)) \ have \subseteq group
    BY DEF Group
<1>4. \A k \in less : (Replaced(graph, k) \cap Nodes(graph)) \ have \subseteq less
    BY <1>3
<1>5. less \in SUBSET Nodes(graph)
    BY <1>1
<1> HIDE DEF less
<1>6. group \subseteq less
    BY <1>2, <1>4, <1>5 DEF Group
<1> QED
    BY <1>6 DEF less
-----------------------------------------------------------------------------
(* The prefix that is sent.                                                *)

\* The items at the first c positions.
Firsts(c) == {ordered[i] : i \in 1 .. c}
Wanted(c) == Closure(Firsts(c))

\* What is wanted is what the positions visited ask for; what is sent is what the first of
\* them ask for, and when one position did not fit, those before it.
Prefix ==
    /\ ordered \in Seq(Nodes(graph)) /\ at \in 1 .. Len(ordered) + 1
    /\ wanted = Wanted(at - 1)
    /\ Cardinality(taken) <= ITEM_LIMIT
    /\ full => \E c \in 0 .. at - 2 : taken = Wanted(c) /\ Cardinality(Wanted(c + 1)) > ITEM_LIMIT

\* The positions are items of the graph.
LEMMA FirstsAre ==
    ASSUME ordered \in Seq(Nodes(graph))
    PROVE  /\ Firsts(0) = {}
           /\ \A c \in 0 .. Len(ordered) : Firsts(c) \in SUBSET Nodes(graph)
           /\ \A c \in 1 .. Len(ordered) : Firsts(c) = Firsts(c - 1) \cup {ordered[c]}
<1>1. Len(ordered) \in Nat /\ \A i \in 1 .. Len(ordered) : ordered[i] \in Nodes(graph)
    OBVIOUS
<1>2. \A c \in 0 .. Len(ordered) : Firsts(c) \in SUBSET Nodes(graph)
    BY <1>1 DEF Firsts
<1>3. \A c \in 1 .. Len(ordered) : 1 .. c = (1 .. c - 1) \cup {c}
    BY <1>1
<1>4. \A c \in 1 .. Len(ordered) : Firsts(c) = Firsts(c - 1) \cup {ordered[c]}
    BY <1>3 DEF Firsts
<1> QED
    BY <1>2, <1>4 DEF Firsts

\* One item keeps the prefix: a position that does not fit is where it ends.
LEMMA PrefixStep ==
    ASSUME Sending, Prefix, Consider, UNCHANGED <<stored, withHeld, graph>>
    PROVE  Prefix'
<1> DEFINE n == ordered[at]
           group == Group(graph, n, wanted)
<1>1. /\ graph' = graph /\ ordered' = ordered /\ at \in DOMAIN ordered /\ at' = at + 1
      /\ ordered \in Seq(Nodes(graph))
    BY DEF Consider, Prefix
<1>2. at \in 1 .. Len(ordered) /\ Len(ordered) \in Nat /\ n \in Nodes(graph)
    BY <1>1
<1>3. /\ Firsts(at) = Firsts(at - 1) \cup {n} /\ Firsts(at - 1) \in SUBSET Nodes(graph)
    BY <1>1, <1>2, FirstsAre
<1>4. Wanted(at) = IF n \in wanted THEN wanted ELSE wanted \cup group
    BY <1>2, <1>3, ClosureGrows DEF Prefix, Wanted
<1>5. \A c : Wanted(c)' = Wanted(c)
    BY <1>1 DEF Wanted, Closure, Closed, Firsts
<1>6. /\ IsFiniteSet(Nodes(graph)) /\ taken \subseteq wanted /\ wanted \subseteq Nodes(graph)
      /\ (~full => taken = wanted) /\ full \in BOOLEAN
    BY DEF Sending
<1>7. at' - 1 = at /\ at' \in 1 .. Len(ordered') + 1 /\ 0 .. at - 2 \subseteq 0 .. at' - 2 /\ at - 1 \in 0 .. at' - 2
    BY <1>1, <1>2
<1>8. wanted' = Wanted(at) /\ (full => full')
    <2>1. CASE n \in wanted
        BY <1>4, <2>1 DEF Consider
    <2>2. CASE n \notin wanted
        <3>1. wanted' = wanted \cup group /\ (full => full')
            BY <2>2 DEF Consider
        <3> QED
            BY <1>4, <2>2, <3>1
    <2> QED
        BY <2>1, <2>2
<1>9. Cardinality(taken') <= ITEM_LIMIT /\
      (full' => \E c \in 0 .. at' - 2 : taken' = Wanted(c) /\ Cardinality(Wanted(c + 1)) > ITEM_LIMIT)
    <2>1. CASE n \in wanted
        BY <1>7, <2>1 DEF Consider, Prefix
    <2>2. CASE n \notin wanted
        <3>1. /\ full' = (full \/ Cardinality(taken) + Cardinality(group) > ITEM_LIMIT)
              /\ taken' = IF full' THEN taken ELSE taken \cup group
            BY <2>2 DEF Consider
        <3>2. group \in SUBSET Nodes(graph) /\ group \cap wanted = {}
            BY <1>2, <1>6, <2>2, GroupCloses, GroupIsNew
        <3> HIDE DEF group
        <3>3. IsFiniteSet(group) /\ IsFiniteSet(taken) /\ IsFiniteSet(wanted)
            BY <1>6, <3>2, FS_Subset
        <3>4. Cardinality(taken \cup group) = Cardinality(taken) + Cardinality(group)
            <4>1. taken \cap group = {}
                BY <1>6, <3>2
            <4>2. Cardinality(taken \cap group) = 0
                BY <4>1, FS_EmptySet
            <4>3. Cardinality(taken \cup group)
                    = Cardinality(taken) + Cardinality(group) - Cardinality(taken \cap group)
                BY <3>3, FS_Union
            <4>4. Cardinality(taken) \in Nat /\ Cardinality(group) \in Nat
                BY <3>3, FS_CardinalityType
            <4> QED
                BY <4>2, <4>3, <4>4
        <3>5. CASE ~full'
            <4>1. taken' = taken \cup group /\ ~(Cardinality(taken) + Cardinality(group) > ITEM_LIMIT)
                BY <3>1, <3>5
            <4>2. Cardinality(taken) \in Nat /\ Cardinality(group) \in Nat /\ ITEM_LIMIT \in Nat
                BY <3>3, FS_CardinalityType, PackAssumption
            <4> QED
                BY <3>4, <3>5, <4>1, <4>2
        <3>6. CASE full
            BY <1>7, <1>8, <3>1, <3>6 DEF Prefix
        <3>7. CASE full' /\ ~full
            <4>1. taken' = taken /\ taken = wanted /\ Cardinality(taken) + Cardinality(group) > ITEM_LIMIT
                BY <1>6, <3>1, <3>7
            <4>2. taken' = Wanted(at - 1)
                BY <4>1 DEF Prefix
            <4>3. Wanted(at) = taken \cup group
                BY <1>4, <2>2, <4>1
            <4>4. Cardinality(Wanted(at)) > ITEM_LIMIT
                BY <3>4, <4>1, <4>3
            <4>5. (at - 1) + 1 = at
                BY <1>2
            <4>6. Cardinality(Wanted((at - 1) + 1)) > ITEM_LIMIT
                BY <4>4, <4>5
            <4>7. Cardinality(taken') <= ITEM_LIMIT
                BY <4>1 DEF Prefix
            <4> QED
                BY <1>7, <4>2, <4>6, <4>7
        <3> QED
            BY <3>5, <3>6, <3>7
    <2> QED
        BY <2>1, <2>2
<1>10. \E c : full' => c \in 0 .. at' - 2 /\ taken' = Wanted(c)' /\ Cardinality(Wanted(c + 1)') > ITEM_LIMIT
    BY <1>5, <1>9
<1> QED
    BY <1>1, <1>5, <1>7, <1>8, <1>9, <1>10 DEF Prefix
-----------------------------------------------------------------------------
(* The prefix, against its reference: replacements followed step by step.  *)

\* One step of Asked.
Step(S) == S \cup ((UNION {Replaced(graph, n) : n \in S}) \cap Nodes(graph))
IsGrown(g, F, n) == g = [h \in 0 .. n |-> IF h = 0 THEN F ELSE Step(g[h - 1])]

\* The recursion is one: for every number of steps there is a function that takes them.
LEMMA GrownExists ==
    ASSUME NEW F, NEW n \in Nat
    PROVE  \E g : IsGrown(g, F, n)
<1> DEFINE bad == {m \in Nat : ~\E g : IsGrown(g, F, m)}
<1>1. SUFFICES ASSUME bad # {} PROVE FALSE
    OBVIOUS
<1>2. PICK m \in bad : \A y \in bad : ~(y < m)
    <2>1. bad \in SUBSET Nat
        OBVIOUS
    <2> HIDE DEF bad
    <2> QED
        BY <1>1, <2>1, LeastNatural
<1>3. m \in Nat /\ ~\E g : IsGrown(g, F, m)
    BY <1>2
<1>4. CASE m = 0
    <2> DEFINE g == [h \in 0 .. 0 |-> F]
    <2>1. g = [h \in 0 .. 0 |-> IF h = 0 THEN F ELSE Step(g[h - 1])]
        OBVIOUS
    <2> HIDE DEF g
    <2>2. IsGrown(g, F, m)
        BY <1>4, <2>1 DEF IsGrown
    <2> QED
        BY <1>3, <2>2
<1>5. CASE m # 0
    <2>1. m - 1 \in Nat /\ m - 1 < m /\ m - 1 \notin bad
        BY <1>2, <1>3, <1>5
    <2>2. PICK f : IsGrown(f, F, m - 1)
        BY <2>1
    <2> DEFINE g == [h \in 0 .. m |-> IF h = m THEN Step(f[m - 1]) ELSE f[h]]
    <2>3. \A h \in 0 .. m - 1 : f[h] = IF h = 0 THEN F ELSE Step(f[h - 1])
        BY <2>2 DEF IsGrown
    <2>4. ASSUME NEW h \in 0 .. m
          PROVE  g[h] = IF h = 0 THEN F ELSE Step(g[h - 1])
        <3>1. CASE h = m
            <4>1. g[h - 1] = f[m - 1] /\ g[h] = Step(f[m - 1])
                BY <1>3, <1>5, <3>1
            <4> HIDE DEF g
            <4> QED
                BY <1>5, <3>1, <4>1
        <3>2. CASE h # m /\ h # 0
            <4>1. h \in 0 .. m - 1 /\ h - 1 \in 0 .. m /\ h - 1 # m
                BY <1>3, <3>2
            <4>2. g[h] = f[h] /\ g[h - 1] = f[h - 1]
                BY <3>2, <4>1
            <4> HIDE DEF g
            <4> QED
                BY <2>3, <3>2, <4>1, <4>2
        <3>3. CASE h = 0
            <4>1. g[h] = f[0] /\ 0 \in 0 .. m - 1
                BY <1>3, <1>5, <3>3
            <4> HIDE DEF g
            <4> QED
                BY <2>3, <3>3, <4>1
        <3> QED
            BY <3>1, <3>2, <3>3
    <2>5. g = [h \in 0 .. m |-> g[h]]
        OBVIOUS
    <2> HIDE DEF g
    <2>6. IsGrown(g, F, m)
        BY <2>4, <2>5 DEF IsGrown
    <2> QED
        BY <1>3, <2>6
<1> QED
    BY <1>4, <1>5

\* A step stays in the graph and in any closed set, and stops where nothing is missing.
LEMMA StepIs ==
    ASSUME NEW S \in SUBSET Nodes(graph)
    PROVE  /\ S \subseteq Step(S) /\ Step(S) \subseteq Nodes(graph)
           /\ \A T \in SUBSET Nodes(graph) : S \subseteq T /\ Closed(T) => Step(S) \subseteq T
           /\ Step(S) = S <=> Closed(S)
<1> DEFINE them == {Replaced(graph, n) : n \in S}
           more == (UNION them) \cap Nodes(graph)
<1>1. Step(S) = S \cup more
    BY DEF Step
<1>a. \A R : R \in them <=> \E n \in S : R = Replaced(graph, n)
    OBVIOUS
<1> HIDE DEF them
<1>b. \A k : k \in UNION them <=> \E R \in them : k \in R
    OBVIOUS
<1>2. \A k : k \in more <=> k \in Nodes(graph) /\ \E n \in S : k \in Replaced(graph, n)
    <2>1. \A k : k \in more <=> k \in Nodes(graph) /\ k \in UNION them
        OBVIOUS
    <2> HIDE DEF more
    <2> QED
        BY <2>1, <1>a, <1>b
<1> HIDE DEF more
<1>3. S \subseteq Step(S) /\ Step(S) \subseteq Nodes(graph)
    BY <1>1, <1>2
<1>4. ASSUME NEW T \in SUBSET Nodes(graph), S \subseteq T, Closed(T)
      PROVE  Step(S) \subseteq T
    <2>1. \A n \in T : Replaced(graph, n) \cap Nodes(graph) \subseteq T
        BY <1>4 DEF Closed
    <2> QED
        BY <1>1, <1>2, <1>4, <2>1
<1>5. Closed(S) => Step(S) = S
    BY <1>3, <1>4
<1>6. Step(S) = S => Closed(S)
    BY <1>1, <1>2 DEF Closed
<1> QED
    BY <1>3, <1>4, <1>5, <1>6

\* As many steps as there are nodes reach the closure: each adds an item, or there was
\* nothing to add.
LEMMA GrownCloses ==
    ASSUME IsFiniteSet(Nodes(graph)), NEW F \in SUBSET Nodes(graph),
           NEW g, IsGrown(g, F, Cardinality(Nodes(graph)))
    PROVE  g[Cardinality(Nodes(graph))] = Closure(F)
<1> DEFINE N == Cardinality(Nodes(graph))
<1>1. N \in Nat
    BY FS_CardinalityType
<1>2. \A h \in 0 .. N : g[h] = IF h = 0 THEN F ELSE Step(g[h - 1])
    BY DEF IsGrown
<1> HIDE DEF N
<1> DEFINE good(h) == /\ F \subseteq g[h] /\ g[h] \subseteq Closure(F)
                      /\ Closed(g[h]) \/ Cardinality(g[h]) > h
           bad == {h \in 0 .. N : ~good(h)}
<1>3. /\ F \subseteq Closure(F) /\ Closure(F) \subseteq Nodes(graph) /\ Closed(Closure(F))
      /\ \A T \in SUBSET Nodes(graph) : F \subseteq T /\ Closed(T) => Closure(F) \subseteq T
    BY ClosureIs
<1>4. bad = {}
    <2>1. SUFFICES ASSUME bad # {} PROVE FALSE
        OBVIOUS
    <2>2. PICK m \in bad : \A y \in bad : ~(y < m)
        <3>1. bad \in SUBSET Nat
            BY <1>1
        <3> HIDE DEF bad
        <3> QED
            BY <2>1, <3>1, LeastNatural
    <2>3. m \in 0 .. N /\ ~good(m)
        BY <2>2
    <2>4. CASE m = 0
        <3>1. g[m] = F
            BY <1>2, <2>3, <2>4
        <3>2. Closed(F) \/ Cardinality(F) > 0
            <4>1. CASE F = {}
                BY <4>1 DEF Closed
            <4>2. CASE F # {}
                <5>1. IsFiniteSet(F)
                    BY FS_Subset
                <5>2. Cardinality(F) \in Nat /\ Cardinality(F) # 0
                    BY <4>2, <5>1, FS_CardinalityType, FS_EmptySet
                <5> QED
                    BY <5>2
            <4> QED
                BY <4>1, <4>2
        <3> QED
            BY <1>3, <2>3, <2>4, <3>1, <3>2
    <2>5. CASE m # 0
        <3> DEFINE S == g[m - 1]
        <3>1. m - 1 \in 0 .. N /\ m - 1 < m /\ m - 1 \notin bad
            BY <1>1, <2>2, <2>3, <2>5
        <3>2. good(m - 1)
            BY <3>1
        <3>3. g[m] = Step(S)
            BY <1>2, <2>3, <2>5
        <3> HIDE DEF bad
        <3>4. S \in SUBSET Nodes(graph) /\ S \subseteq Closure(F) /\ F \subseteq S
            BY <1>3, <3>2
        <3>5. Closed(S) \/ Cardinality(S) > m - 1
            BY <3>2
        <3> HIDE DEF S
        <3>6. /\ S \subseteq Step(S) /\ Step(S) \subseteq Closure(F) /\ Step(S) \subseteq Nodes(graph)
              /\ Step(S) = S <=> Closed(S)
            BY <1>3, <3>4, StepIs
        <3>7. Closed(Step(S)) \/ Cardinality(Step(S)) > m
            <4>1. CASE Closed(S)
                BY <3>6, <4>1
            <4>2. CASE ~Closed(S)
                <5>1. Step(S) # S /\ Cardinality(S) > m - 1
                    BY <3>5, <3>6, <4>2
                <5>2. IsFiniteSet(Step(S)) /\ IsFiniteSet(S)
                    BY <3>4, <3>6, FS_Subset
                <5>3. Cardinality(S) <= Cardinality(Step(S)) /\ Cardinality(S) # Cardinality(Step(S))
                    BY <3>6, <5>1, <5>2, FS_Subset
                <5>4. Cardinality(S) \in Nat /\ Cardinality(Step(S)) \in Nat
                    BY <5>2, FS_CardinalityType
                <5> QED
                    BY <1>1, <2>3, <5>1, <5>3, <5>4
            <4> QED
                BY <4>1, <4>2
        <3> QED
            BY <2>3, <3>3, <3>4, <3>6, <3>7
    <2> QED
        BY <2>4, <2>5
<1>5. good(N)
    BY <1>1, <1>4
<1>6. Closed(g[N])
    <2>1. g[N] \in SUBSET Nodes(graph)
        BY <1>3, <1>5
    <2>2. Cardinality(g[N]) \in Nat /\ Cardinality(g[N]) <= N
        BY <2>1, FS_Subset, FS_CardinalityType DEF N
    <2> QED
        BY <1>1, <1>5, <2>2
<1>7. g[N] = Closure(F)
    BY <1>3, <1>5, <1>6
<1> QED
    BY <1>7 DEF N

\* Asked, as the run checks it, is the closure.
LEMMA AskedIsWanted ==
    ASSUME IsFiniteSet(Nodes(graph)), NEW c, Firsts(c) \in SUBSET Nodes(graph)
    PROVE  Asked(c) = Wanted(c)
<1> DEFINE N == Cardinality(Nodes(graph))
           grown == CHOOSE g : IsGrown(g, Firsts(c), N)
<1>1. N \in Nat
    BY FS_CardinalityType
<1>2. IsGrown(grown, Firsts(c), N)
    <2> HIDE DEF N
    <2>1. \E g : IsGrown(g, Firsts(c), N)
        BY <1>1, GrownExists
    <2> QED
        BY <2>1
<1>3. Asked(c) = grown[N]
    BY DEF Asked, IsGrown, Step, Firsts
<1> HIDE DEF grown
<1>4. grown[N] = Closure(Firsts(c))
    BY <1>2, GrownCloses
<1> QED
    BY <1>3, <1>4 DEF Wanted

\* Once the order is walked, what was sent is a prefix of what was asked.
LEMMA PrefixTells ==
    ASSUME Sending, Prefix
    PROVE  SentIsThePrefix
<1>1. /\ ordered \in Seq(Nodes(graph)) /\ at \in 1 .. Len(ordered) + 1 /\ Len(ordered) \in Nat
      /\ wanted = Wanted(at - 1) /\ Cardinality(taken) <= ITEM_LIMIT
      /\ IsFiniteSet(Nodes(graph))
    BY DEF Sending, Prefix
<1>2. ASSUME NEW c \in 0 .. Len(ordered) PROVE Asked(c) = Wanted(c)
    <2>1. Firsts(c) \in SUBSET Nodes(graph)
        BY <1>1 DEF Firsts
    <2> QED
        BY <1>1, <2>1, AskedIsWanted
<1>3. ASSUME PackDone
      PROVE  /\ \E c \in 0 .. Len(ordered) :
                   /\ taken = Asked(c)
                   /\ c < Len(ordered) => Cardinality(Asked(c + 1)) > ITEM_LIMIT
             /\ Cut = Cardinality(Asked(Len(ordered))) - Cardinality(taken)
    <2>1. at = Len(ordered) + 1 /\ at - 1 = Len(ordered) /\ at - 2 = Len(ordered) - 1
        BY <1>1, <1>3 DEF PackDone
    <2>2. wanted = Asked(Len(ordered))
        BY <1>1, <1>2, <2>1
    <2>3. CASE full
        <3>1. PICK c \in 0 .. at - 2 : taken = Wanted(c) /\ Cardinality(Wanted(c + 1)) > ITEM_LIMIT
            BY <2>3 DEF Prefix
        <3>2. c \in 0 .. Len(ordered) /\ c + 1 \in 0 .. Len(ordered)
            BY <1>1, <2>1, <3>1
        <3>3. taken = Asked(c) /\ Cardinality(Asked(c + 1)) > ITEM_LIMIT
            BY <1>2, <3>1, <3>2
        <3> QED
            BY <2>2, <3>2, <3>3 DEF Cut
    <2>4. CASE ~full
        <3>1. taken = wanted
            BY <2>4 DEF Sending
        <3>2. Len(ordered) \in 0 .. Len(ordered) /\ ~(Len(ordered) < Len(ordered))
            BY <1>1
        <3> QED
            BY <2>2, <3>1, <3>2 DEF Cut
    <2> QED
        BY <2>3, <2>4
<1> QED
    BY <1>1, <1>3 DEF SentIsThePrefix

-----------------------------------------------------------------------------
(* The order of the hits and their neighbours.                             *)

\* The hits, each at its first position.
FirstRank(hits) ==
    [n \in ToSet(hits) |-> [hop |-> 0, origin |-> CHOOSE i \in DOMAIN hits : hits[i] = n]]
IsRanking(f, g, hits, h) ==
    f = [k \in 0 .. h |-> IF k = 0 THEN FirstRank(hits) ELSE Farther(g, f[k - 1], k)]

\* Nodes of the graph, each with the hop it was met in and the hit behind it.
Ranked(r, g) ==
    /\ DOMAIN r \subseteq Nodes(g)
    /\ \A n \in DOMAIN r : r[n].hop \in Nat /\ r[n].origin \in Nat

\* The recursion is one: there is a ranking to every number of hops.
LEMMA RankingExists ==
    ASSUME NEW g, NEW hits, NEW h \in Nat
    PROVE  \E f : IsRanking(f, g, hits, h)
<1> DEFINE bad == {m \in Nat : ~\E f : IsRanking(f, g, hits, m)}
<1>1. SUFFICES ASSUME bad # {} PROVE FALSE
    OBVIOUS
<1>2. PICK m \in bad : \A y \in bad : ~(y < m)
    <2>1. bad \in SUBSET Nat
        OBVIOUS
    <2> HIDE DEF bad
    <2> QED
        BY <1>1, <2>1, LeastNatural
<1>3. m \in Nat /\ ~\E f : IsRanking(f, g, hits, m)
    BY <1>2
<1>4. CASE m = 0
    <2> DEFINE f == [k \in 0 .. 0 |-> FirstRank(hits)]
    <2>1. f = [k \in 0 .. 0 |-> IF k = 0 THEN FirstRank(hits) ELSE Farther(g, f[k - 1], k)]
        OBVIOUS
    <2> HIDE DEF f
    <2>2. IsRanking(f, g, hits, m)
        BY <1>4, <2>1 DEF IsRanking
    <2> QED
        BY <1>3, <2>2
<1>5. CASE m # 0
    <2>1. m - 1 \in Nat /\ m - 1 < m /\ m - 1 \notin bad
        BY <1>2, <1>3, <1>5
    <2>2. PICK e : IsRanking(e, g, hits, m - 1)
        BY <2>1
    <2> DEFINE f == [k \in 0 .. m |-> IF k = m THEN Farther(g, e[m - 1], m) ELSE e[k]]
    <2>3. \A k \in 0 .. m - 1 : e[k] = IF k = 0 THEN FirstRank(hits) ELSE Farther(g, e[k - 1], k)
        BY <2>2 DEF IsRanking
    <2>4. ASSUME NEW k \in 0 .. m
          PROVE  f[k] = IF k = 0 THEN FirstRank(hits) ELSE Farther(g, f[k - 1], k)
        <3>1. CASE k = m
            <4>1. f[k - 1] = e[m - 1] /\ f[k] = Farther(g, e[m - 1], m)
                BY <1>3, <1>5, <3>1
            <4> HIDE DEF f
            <4> QED
                BY <1>5, <3>1, <4>1
        <3>2. CASE k # m /\ k # 0
            <4>1. k \in 0 .. m - 1 /\ k - 1 \in 0 .. m /\ k - 1 # m
                BY <1>3, <3>2
            <4>2. f[k] = e[k] /\ f[k - 1] = e[k - 1]
                BY <3>2, <4>1
            <4> HIDE DEF f
            <4> QED
                BY <2>3, <3>2, <4>1, <4>2
        <3>3. CASE k = 0
            <4>1. f[k] = e[0] /\ 0 \in 0 .. m - 1
                BY <1>3, <1>5, <3>3
            <4> HIDE DEF f
            <4> QED
                BY <2>3, <3>3, <4>1
        <3> QED
            BY <3>1, <3>2, <3>3
    <2>5. f = [k \in 0 .. m |-> f[k]]
        OBVIOUS
    <2> HIDE DEF f
    <2>6. IsRanking(f, g, hits, m)
        BY <2>4, <2>5 DEF IsRanking
    <2> QED
        BY <1>3, <2>6
<1> QED
    BY <1>4, <1>5

\* One hop ranks only nodes of the graph: each is met from one in front of it.
LEMMA FartherRanks ==
    ASSUME NEW g, NEW r, Ranked(r, g), NEW h \in Nat
    PROVE  Ranked(Farther(g, r, h), g)
<1> DEFINE frontier == {m \in DOMAIN r : r[m].hop = h - 1}
           beside == UNION {Beside(g, m) : m \in frontier}
           met == beside \ DOMAIN r
           origins(n) == {r[m].origin : m \in {f \in frontier : n \in Beside(g, f)}}
           far == [n \in DOMAIN r \cup met |->
                      IF n \in DOMAIN r THEN r[n] ELSE [hop |-> h, origin |-> Min(origins(n))]]
<1>1. Farther(g, r, h) = far
    BY DEF Farther
<1>2. \A n \in beside : \E m \in frontier : n \in Beside(g, m)
    OBVIOUS
<1>3. \A m : Beside(g, m) \subseteq Nodes(g)
    <2> SUFFICES ASSUME NEW m, NEW x \in Beside(g, m) PROVE x \in Nodes(g)
        OBVIOUS
    <2>1. PICK k \in g.links : Ends(k) \subseteq Nodes(g) /\ x \in Ends(k) \ {m}
        BY DEF Beside
    <2> QED
        BY <2>1
<1>4. \A m \in frontier : m \in DOMAIN r /\ r[m].origin \in Nat
    BY DEF Ranked
<1>5. ASSUME NEW n \in met
      PROVE  n \in Nodes(g) /\ Min(origins(n)) \in Nat
    <2>1. PICK m \in frontier : n \in Beside(g, m)
        BY <1>2
    <2>2. origins(n) \in SUBSET Nat /\ origins(n) # {}
        BY <1>4, <2>1
    <2> HIDE DEF origins
    <2>3. PICK x \in origins(n) : \A y \in origins(n) : ~(y < x)
        BY <2>2, LeastNatural
    <2>4. \E i \in origins(n) : \A y \in origins(n) : i <= y
        BY <2>2, <2>3
    <2>5. Min(origins(n)) \in origins(n)
        BY <2>4 DEF Min
    <2> QED
        BY <1>3, <2>1, <2>2, <2>5
<1> HIDE DEF met, origins
<1>6. /\ DOMAIN far = DOMAIN r \cup met
      /\ \A n \in DOMAIN r : far[n] = r[n]
      /\ \A n \in met : n \notin DOMAIN r => far[n] = [hop |-> h, origin |-> Min(origins(n))]
    OBVIOUS
<1> HIDE DEF far
<1>7. Ranked(far, g)
    BY <1>5, <1>6 DEF Ranked
<1> QED
    BY <1>1, <1>7

\* Every number of hops ranks nodes of the graph.
LEMMA RankIs ==
    ASSUME NEW g, NEW hits \in Seq(NodeId), ToSet(hits) \subseteq Nodes(g), NEW hops \in Nat
    PROVE  Ranked(Rank(g, hits, hops), g)
<1> DEFINE rank == CHOOSE f : IsRanking(f, g, hits, hops)
           bad == {h \in 0 .. hops : ~Ranked(rank[h], g)}
<1>1. IsRanking(rank, g, hits, hops)
    BY RankingExists
<1>2. Rank(g, hits, hops) = rank[hops]
    BY DEF Rank, IsRanking, FirstRank
<1> HIDE DEF rank
<1>3. \A h \in 0 .. hops : rank[h] = IF h = 0 THEN FirstRank(hits) ELSE Farther(g, rank[h - 1], h)
    BY <1>1 DEF IsRanking
<1>4. Ranked(FirstRank(hits), g)
    <2>1. \A n \in ToSet(hits) : \E i \in DOMAIN hits : hits[i] = n
        BY DEF ToSet
    <2>2. \A n \in ToSet(hits) : (CHOOSE i \in DOMAIN hits : hits[i] = n) \in Nat
        BY <2>1
    <2> QED
        BY <2>2 DEF FirstRank, Ranked
<1>5. bad = {}
    <2>1. SUFFICES ASSUME bad # {} PROVE FALSE
        OBVIOUS
    <2>2. PICK m \in bad : \A y \in bad : ~(y < m)
        <3>1. bad \in SUBSET Nat
            OBVIOUS
        <3> HIDE DEF bad
        <3> QED
            BY <2>1, <3>1, LeastNatural
    <2>3. m \in 0 .. hops /\ ~Ranked(rank[m], g)
        BY <2>2
    <2>4. m # 0
        BY <1>3, <1>4, <2>3
    <2>5. m - 1 \in 0 .. hops /\ m - 1 < m /\ m \in Nat
        BY <2>3, <2>4
    <2>6. Ranked(rank[m - 1], g)
        BY <2>2, <2>5
    <2>7. rank[m] = Farther(g, rank[m - 1], m)
        BY <1>3, <2>3, <2>4
    <2> QED
        BY <2>3, <2>5, <2>6, <2>7, FartherRanks
<1> QED
    BY <1>2, <1>5

\* What is considered is a list of nodes of the graph.
LEMMA OrderedIs ==
    ASSUME NEW g, IsGraph(g), IsFiniteSet(Nodes(g)),
           NEW hits \in Seq(NodeId), ToSet(hits) \subseteq Nodes(g), NEW hops \in Nat
    PROVE  Ordered(g, hits, hops) \in Seq(Nodes(g))
<1> DEFINE rank == Rank(g, hits, hops)
           S == DOMAIN rank
           before(a, b) ==
               \/ rank[a].hop < rank[b].hop
               \/ rank[a].hop = rank[b].hop /\ rank[a].origin < rank[b].origin
               \/ rank[a].hop = rank[b].hop /\ rank[a].origin = rank[b].origin /\ a < b
           pairs == {p \in S \X S : before(p[1], p[2])}
<1>1. Ordered(g, hits, hops) = CHOOSE s \in SetToSeqs(S) : \A i, j \in DOMAIN s : i < j => ~before(s[j], s[i])
    BY DEF Ordered, InOrder
<1>2. S \subseteq Nodes(g) /\ \A n \in S : rank[n].hop \in Nat /\ rank[n].origin \in Nat /\ n \in Nat
    BY RankIs, OrderAssumption DEF Ranked, IsGraph
<1>3. IsFiniteSet(S)
    BY <1>2, FS_Subset
<1> HIDE DEF rank
<1>4. \A x, y, z \in S : ~before(x, x) /\ (before(x, y) /\ before(y, z) => before(x, z))
    <2> SUFFICES ASSUME NEW x \in S, NEW y \in S, NEW z \in S
                 PROVE  ~before(x, x) /\ (before(x, y) /\ before(y, z) => before(x, z))
        OBVIOUS
    <2>1. /\ rank[x].hop \in Nat /\ rank[x].origin \in Nat /\ x \in Nat
          /\ rank[y].hop \in Nat /\ rank[y].origin \in Nat /\ y \in Nat
          /\ rank[z].hop \in Nat /\ rank[z].origin \in Nat /\ z \in Nat
        BY <1>2
    <2> QED
        BY <2>1
<1>5. \A x, y \in S : <<x, y>> \in pairs <=> before(x, y)
    OBVIOUS
<1> HIDE DEF before, pairs, S
<1>6. IsStrict(S, pairs)
    BY <1>4, <1>5 DEF IsStrict
<1>7. PICK s \in SetToSeqs(S) : InTurn(s, pairs)
    BY <1>3, <1>6, CanSort
<1>8. s \in Seq(S) /\ Range(s) = S
    BY <1>3, SeqsList
<1>9. \A i, j \in DOMAIN s : i < j => ~before(s[j], s[i])
    <2>1. \A i \in DOMAIN s : s[i] \in S
        BY <1>8
    <2>2. \A i, j \in DOMAIN s : i < j => <<s[j], s[i]>> \notin pairs
        BY <1>7 DEF InTurn
    <2> QED
        BY <1>5, <2>1, <2>2
<1>10. Ordered(g, hits, hops) \in SetToSeqs(S)
    BY <1>1, <1>9
<1> DEFINE t == Ordered(g, hits, hops)
<1> HIDE DEF t
<1>11. t \in Seq(S)
    BY <1>3, <1>10, SeqsList DEF t
<1> QED
    BY <1>2, <1>11 DEF t
-----------------------------------------------------------------------------
(* The command.                                                            *)

\* What the walk holds of each node is of its type.
Typed == \A n \in DOMAIN reached : reached[n] \in Reached

Walks == /\ start = None => queue = <<>>
         /\ start # None => Walking /\ Typed

\* The invariant of a command, whichever it is.
Holds == ReadGraph /\ Walks /\ Sending /\ Prefix

\* A turn brings in steps along a link, one hop past the node looked at.
LEMMA TypedStep ==
    ASSUME Visits, Typed, NEW n, NEW new, NEW news, Turn(n, new, news)
    PROVE  Typed'
<1>1. /\ DOMAIN reached' = DOMAIN reached \cup new
      /\ \A m \in DOMAIN reached : reached'[m] = reached[m]
      /\ \A m \in new : /\ Expandable(n)
                        /\ \E a \in Neighbours(graph, n) : a[3] = m /\ reached'[m] = StepTo(n, a)
    BY DEF Turn
<1>2. n \in DOMAIN reached /\ n \in NodeId /\ reached[n].hop \in 0 .. MAX_HOPS
    <2>1. n = Head(queue) /\ queue # <<>> /\ queue \in Seq(DOMAIN reached)
        BY DEF Turn, Visits
    <2>2. n \in DOMAIN reached
        BY <2>1
    <2> QED
        BY <2>2 DEF Visits, Sliced, IsGraph
<1>3. ASSUME NEW m \in new PROVE reached'[m] \in Reached
    <2>1. PICK a \in Neighbours(graph, n) : a[3] = m /\ reached'[m] = StepTo(n, a)
        BY <1>1
    <2>2. a[4] \in Link /\ a[2] \in {0, 1}
        BY NeighbourIs DEF Followable, Visits, Sliced, IsGraph
    <2>3. reached[n].hop + 1 \in 0 .. MAX_HOPS
        BY <1>1, <1>2, HopsAssumption DEF Expandable
    <2> QED
        BY <1>2, <2>1, <2>2, <2>3 DEF StepTo, Reached
<1>4. \A m \in DOMAIN reached : reached'[m] \in Reached
    BY <1>1 DEF Typed
<1>5. \A m \in DOMAIN reached' : reached'[m] \in Reached
    BY <1>1, <1>3, <1>4
<1> QED
    BY <1>5 DEF Typed, Reached

\* A walk begins at its start, with nothing else visited.
LEMMA WalkBegins ==
    ASSUME ReadGraph, NEW n, WalkInit(n)
    PROVE  start # None /\ Walking /\ Typed
<1>1. /\ Sliced /\ n \in Nodes(graph) /\ start = n /\ queue = <<n>>
      /\ DOMAIN reached = {n} /\ reached[n] = [hop |-> 0, via |-> None, direction |-> None, parent |-> None]
    BY SliceIs DEF WalkInit
<1>2. n \in Within(graph, start, 0) /\ 0 \in 0 .. MAX_HOPS
    BY <1>1, WithinIs, HopsAssumption
<1>3. queue \in Seq(DOMAIN reached)
    BY <1>1
<1>4. Visits
    BY <1>1, <1>2, <1>3 DEF Visits
<1>5. DOMAIN queue = {1} /\ queue[1] = n /\ Range(queue) = {n}
    BY <1>1 DEF Range
<1>6. InLine
    BY <1>1, <1>5 DEF InLine
<1>7. Shown /\ ChainsLeadBack
    BY <1>1, <1>5 DEF Shown, ChainsLeadBack
<1>8. Typed
    BY <1>1, <1>2 DEF Typed, Reached
<1>9. start # None
    BY <1>1, HopsAssumption DEF Sliced, IsGraph
<1> QED
    BY <1>4, <1>6, <1>7, <1>8, <1>9 DEF Walking

\* Where nothing is considered, nothing is sent.
LEMMA PackBegins ==
    ASSUME ReadGraph, ordered \in Seq(Nodes(graph)),
           at = 1, wanted = {}, taken = {}, full = FALSE
    PROVE  Sending /\ Prefix
<1>1. Closed({})
    BY DEF Closed
<1>2. Sending
    BY <1>1, SliceIs DEF Sending, Sliced
<1>3. Firsts(at - 1) = {}
    BY DEF Firsts
<1>4. Closure({}) = {}
    BY <1>1, ClosureIs
<1>5. wanted = Wanted(at - 1)
    BY <1>3, <1>4 DEF Wanted
<1>6. Cardinality(taken) <= ITEM_LIMIT
    BY FS_EmptySet, PackAssumption
<1>7. Len(ordered) \in Nat
    OBVIOUS
<1> QED
    BY <1>2, <1>5, <1>6, <1>7 DEF Prefix

\* Every command begins in the invariant.
LEMMA BeginsWell == ASSUME Init PROVE Holds
<1>1. ReadGraph /\ Sliced
    BY SliceIs DEF Init
<1>2. CASE NoPack /\ \E n \in NodeId, flag \in BOOLEAN \cup {None} : Trace(flag, n)
    <2>1. PICK n \in NodeId : WalkInit(n)
        BY <1>2 DEF Trace
    <2>2. Walks
        BY <1>1, <2>1, WalkBegins DEF Walks
    <2>3. ordered \in Seq(Nodes(graph))
        BY <1>2 DEF NoPack
    <2>4. Sending /\ Prefix
        BY <1>1, <1>2, <2>3, PackBegins DEF NoPack
    <2> QED
        BY <1>1, <2>2, <2>4 DEF Holds
<1>3. CASE NoWalk /\ \E hits \in Hits, hops \in HOP_CHOICES : PackInit(hits, hops)
    <2>1. PICK hits \in Hits, hops \in HOP_CHOICES : PackInit(hits, hops)
        BY <1>3
    <2>2. hits \in Seq(NodeId) /\ ToSet(hits) \subseteq Nodes(graph) /\ hops \in Nat
        BY <2>1, PackAssumption DEF PackInit
    <2>3. ordered = Ordered(graph, hits, hops)
        BY <2>1 DEF PackInit
    <2>4. ordered \in Seq(Nodes(graph))
        BY <1>1, <2>2, <2>3, OrderedIs DEF Sliced
    <2>5. Sending /\ Prefix
        BY <1>1, <2>1, <2>4, PackBegins DEF PackInit
    <2>6. Walks
        BY <1>3 DEF NoWalk, Walks
    <2> QED
        BY <1>1, <2>5, <2>6 DEF Holds
<1> QED
    BY <1>2, <1>3 DEF Init

\* A turn of the walk, or nothing, keeps the walk.
LEMMA WalksStep ==
    ASSUME ReadGraph, Walks, UNCHANGED readVars, Dequeue \/ UNCHANGED walkVars
    PROVE  Walks'
<1>1. graph' = graph
    BY DEF readVars
<1>2. CASE Dequeue
    <2>1. start # None /\ start' = start /\ Walking /\ Typed
        BY <1>2 DEF Walks, Dequeue
    <2>2. Sliced
        BY <2>1 DEF Walking, Visits
    <2>3. PICK new, news : Turn(Head(queue), new, news)
        BY <1>2, <2>2, DequeueTurns
    <2>4. Visits' /\ InLine' /\ Shown' /\ ChainsLeadBack'
        BY <1>1, <2>1, <2>3, VisitsStep, InLineStep, ShownStep, ChainsStep DEF Walking
    <2>5. Typed'
        BY <2>1, <2>3, TypedStep DEF Walking
    <2> QED
        BY <2>1, <2>4, <2>5 DEF Walks, Walking
<1>3. CASE UNCHANGED walkVars
    <2>1. start' = start /\ reached' = reached /\ queue' = queue
        BY <1>3 DEF walkVars
    <2>2. Walking => Visits' /\ InLine'
        BY <1>1, <2>1 DEF Walking, Visits, InLine, Sliced
    <2>3. Walking => Shown' /\ ChainsLeadBack'
        BY <1>1, <2>1 DEF Walking, Shown, Expandable, ChainsLeadBack
    <2>4. Typed => Typed'
        BY <2>1 DEF Typed, Reached
    <2> QED
        BY <2>1, <2>2, <2>3, <2>4 DEF Walks, Walking
<1> QED
    BY <1>2, <1>3

\* An item, or nothing, keeps what is wanted and what is sent.
LEMMA PacksStep ==
    ASSUME Sending, Prefix, UNCHANGED readVars, Consider \/ UNCHANGED packVars
    PROVE  Sending' /\ Prefix'
<1>1. UNCHANGED <<stored, withHeld, graph>>
    BY DEF readVars
<1>2. CASE Consider
    BY <1>1, <1>2, SendingStep, PrefixStep
<1>3. CASE UNCHANGED packVars
    <2>1. /\ graph' = graph /\ ordered' = ordered /\ at' = at
          /\ wanted' = wanted /\ taken' = taken /\ full' = full
        BY <1>1, <1>3 DEF packVars
    <2>2. \A c : Wanted(c)' = Wanted(c)
        BY <2>1 DEF Wanted, Closure, Closed, Firsts
    <2>3. /\ ordered' \in Seq(Nodes(graph')) /\ at' \in 1 .. Len(ordered') + 1
          /\ wanted' = Wanted(at - 1)' /\ Cardinality(taken') <= ITEM_LIMIT
        BY <2>1, <2>2 DEF Prefix
    <2>4. full' => \E c \in 0 .. at' - 2 :
                      taken' = Wanted(c)' /\ Cardinality(Wanted(c + 1)') > ITEM_LIMIT
        BY <2>1, <2>2 DEF Prefix
    <2>5. Sending'
        BY <2>1 DEF Sending, Closed
    <2> QED
        BY <2>1, <2>3, <2>4, <2>5 DEF Prefix
<1> QED
    BY <1>2, <1>3

\* The invariant, of every command over every read.
LEMMA HoldsAlways == Spec => []Holds
<1> DEFINE all == <<readVars, walkVars, packVars>>
<1>1. ASSUME Holds, [Next]_all PROVE Holds'
    <2>1. /\ UNCHANGED readVars
          /\ Dequeue \/ UNCHANGED walkVars
          /\ Consider \/ UNCHANGED packVars
        BY <1>1 DEF Next
    <2>2. ReadGraph'
        BY <1>1, <2>1 DEF Holds, ReadGraph, readVars
    <2>3. Walks'
        BY <1>1, <2>1, WalksStep DEF Holds
    <2>4. Sending' /\ Prefix'
        BY <1>1, <2>1, PacksStep DEF Holds
    <2> QED
        BY <2>2, <2>3, <2>4 DEF Holds
<1> QED
    BY <1>1, BeginsWell, PTL DEF Spec

\* What is read, walked and packed is of its type.
THEOREM TypeInvariant == Spec => []TypeOK
<1>1. ASSUME Holds PROVE TypeOK
    <2>1. ReadTypeOK
        BY <1>1, SliceIs, StoredAssumption DEF Holds, ReadTypeOK, ReadGraph, Sliced
    <2>2. ASSUME start # None
          PROVE  /\ DOMAIN reached \subseteq Nodes(graph)
                 /\ \A n \in DOMAIN reached : reached[n] \in Reached
                 /\ Range(queue) \subseteq DOMAIN reached
        <3>1. Visits /\ Typed
            BY <1>1, <2>2 DEF Holds, Walks, Walking
        <3>2. Range(queue) \subseteq DOMAIN reached
            BY <3>1 DEF Visits, Range
        <3> QED
            BY <3>1, <3>2 DEF Visits, Typed
    <2>3. PackTypeOK
        BY <1>1 DEF Holds, Sending, Prefix, PackTypeOK
    <2> QED
        BY <2>1, <2>2, <2>3 DEF TypeOK, WalkTypeOK
<1> QED
    BY <1>1, HoldsAlways, PTL

\* A finished walk holds what MAX_HOPS hops can reach and nothing else, each node at its
\* shortest distance, and every step can be followed back to the start.
THEOREM WalkFindsShortest == Spec => []WalkIsShortest
<1>1. ASSUME Holds PROVE WalkIsShortest
    <2> SUFFICES ASSUME WalkDone PROVE /\ DOMAIN reached = Reach(graph, MAX_HOPS)
                                       /\ \A n \in DOMAIN reached : reached[n].hop = Distance(graph, n)
                                       /\ ChainsLeadBack
        BY DEF WalkIsShortest
    <2>0. ReadGraph /\ Walking
        BY <1>1 DEF Holds, Walks, WalkDone
    <2>1. queue = <<>> /\ MAX_HOPS \in 0 .. MAX_HOPS
        BY HopsAssumption DEF WalkDone
    <2>2. Reach(graph, MAX_HOPS) = {n \in DOMAIN reached : reached[n].hop <= MAX_HOPS}
        BY <2>0, <2>1, LayersAreMet DEF Reach
    <2>3. \A n \in DOMAIN reached : reached[n].hop <= MAX_HOPS
        BY <2>0 DEF Walking, Visits
    <2>4. DOMAIN reached = Reach(graph, MAX_HOPS)
        BY <2>2, <2>3
    <2> QED
        BY <2>0, <2>1, <2>4, HopIsDistance DEF Walking
<1> QED
    BY <1>1, HoldsAlways, PTL

\* The chain names a depth limit exactly when one hop more would find something.
THEOREM LimitIsTold == Spec => []DepthLimitIsTold
<1>1. ASSUME Holds PROVE DepthLimitIsTold
    <2> SUFFICES ASSUME WalkDone
                 PROVE  (\E n \in DOMAIN reached : Stop(n) = "depth limit")
                            <=> Reach(graph, MAX_HOPS + 1) # Reach(graph, MAX_HOPS)
        BY DEF DepthLimitIsTold
    <2>0. ReadGraph /\ Walking
        BY <1>1 DEF Holds, Walks, WalkDone
    <2>1. /\ queue = <<>> /\ MAX_HOPS \in Nat /\ MAX_HOPS \in 0 .. MAX_HOPS
        BY HopsAssumption DEF WalkDone
    <2>2. \A n \in DOMAIN reached : n \in Nodes(graph) /\ reached[n].hop \in 0 .. MAX_HOPS
        BY <2>0 DEF Walking, Visits
    <2>3. Reach(graph, MAX_HOPS) = DOMAIN reached
        <3>1. Reach(graph, MAX_HOPS) = {n \in DOMAIN reached : reached[n].hop <= MAX_HOPS}
            BY <2>0, <2>1, LayersAreMet DEF Reach
        <3>2. \A n \in DOMAIN reached : reached[n].hop <= MAX_HOPS
            BY <2>2
        <3> QED
            BY <3>1, <3>2
    <2>4. Reach(graph, MAX_HOPS + 1) = Wider(graph, DOMAIN reached)
        BY <2>1, <2>3, WithinIs DEF Reach
    <2>5. \A n \in DOMAIN reached : Stop(n) = "depth limit" <=> Unfollowed(n) # {}
        <3> SUFFICES ASSUME NEW n \in DOMAIN reached
                     PROVE  Stop(n) = "depth limit" <=> Unfollowed(n) # {}
            OBVIOUS
        <3>1. graph.node[n].kind \in NodeKind
            BY <2>0, <2>2 DEF Walking, Visits, Sliced, IsGraph, Nodes, Node
        <3>2. CASE Terminal(graph, n)
            BY <3>1, <3>2 DEF Stop, Unfollowed, NodeKind
        <3>3. CASE ~Terminal(graph, n)
            BY <3>3 DEF Stop
        <3> QED
            BY <3>2, <3>3
    <2>6. ASSUME NEW n \in DOMAIN reached, Unfollowed(n) # {}
          PROVE  Wider(graph, DOMAIN reached) # DOMAIN reached
        <3>1. PICK a \in Neighbours(graph, n) : a[3] \notin DOMAIN reached
            BY <2>6 DEF Unfollowed
        <3>2. ~Terminal(graph, n)
            BY <2>6 DEF Unfollowed
        <3>3. a[3] \in Wider(graph, DOMAIN reached)
            BY <3>2, WiderMeets
        <3> QED
            BY <3>1, <3>3
    <2>7. ASSUME Wider(graph, DOMAIN reached) # DOMAIN reached
          PROVE  \E n \in DOMAIN reached : Unfollowed(n) # {}
        <3>1. PICK x \in Wider(graph, DOMAIN reached) : x \notin DOMAIN reached
            BY <2>7 DEF Wider
        <3>2. PICK n \in DOMAIN reached :
                  ~Terminal(graph, n) /\ \E a \in Neighbours(graph, n) : a[3] = x
            BY <3>1, WiderMeets
        <3>3. ~Expandable(n)
            BY <2>0, <2>1, <3>1, <3>2 DEF Walking, Shown, Range
        <3>4. ~(reached[n].hop < MAX_HOPS)
            BY <3>2, <3>3 DEF Expandable
        <3> QED
            BY <3>1, <3>2, <3>4 DEF Unfollowed
    <2> QED
        BY <2>3, <2>4, <2>5, <2>6, <2>7
<1> QED
    BY <1>1, HoldsAlways, PTL
\* Showing the held items never hides or moves away what the accepted graph reaches, and
\* what they bring in names the held parts of its path; without them nothing held shows.
THEOREM HeldViewOnlyAdds == Spec => []HeldOnlyAdds
<1>1. ASSUME Holds PROVE HeldOnlyAdds
    <2> SUFFICES ASSUME WalkDone
                 PROVE  /\ start \in Nodes(Clean) =>
                             \A n \in Reach(Clean, MAX_HOPS) :
                                 n \in DOMAIN reached /\ reached[n].hop <= Distance(Clean, n)
                        /\ \A n \in DOMAIN reached :
                             (start \notin Nodes(Clean) \/ n \notin Reach(Clean, reached[n].hop))
                                 => HeldParts(n) # {}
                        /\ ~withHeld => HeldSteps = {} /\ HeldVias = {}
        BY DEF HeldOnlyAdds, Clean
    <2>0. ReadGraph /\ Walking
        BY <1>1 DEF Holds, Walks, WalkDone
    <2>1. queue = <<>>
        BY DEF WalkDone
    <2>2. \A n \in Reach(Clean, MAX_HOPS) :
              n \in DOMAIN reached /\ reached[n].hop <= Distance(Clean, n)
        BY <2>0, <2>1, CleanIsReached
    <2>3. \A n \in DOMAIN reached :
              HeldParts(n) = {} => start \in Nodes(Clean) /\ n \in Reach(Clean, reached[n].hop)
        BY <2>0, CleanPath DEF Reach
    <2>4. ASSUME ~withHeld PROVE HeldSteps = {} /\ HeldVias = {}
        <3>1. /\ \A n \in Nodes(graph) : ~graph.node[n].held
              /\ \A k \in Followable(graph) : ~k.held
            BY <2>0, <2>4, CleanIs
        <3>2. \A n \in DOMAIN reached : n \in Nodes(graph)
            BY <2>0 DEF Walking, Visits
        <3>3. \A n \in DOMAIN reached \ {start} : reached[n].via \in Followable(graph)
            BY <2>0 DEF Walking, ChainsLeadBack
        <3> QED
            BY <3>1, <3>2, <3>3 DEF HeldSteps, HeldVias
    <2> QED
        BY <2>2, <2>3, <2>4
<1> QED
    BY <1>1, HoldsAlways, PTL

\* An item that was replaced is never sent without what replaces it.
THEOREM ReplacementsAreSent == Spec => []ReplacementsSent
<1>1. Holds => ReplacementsSent
    BY DEF Holds, Sending, Closed, ReplacementsSent
<1> QED
    BY <1>1, HoldsAlways, PTL

\* What is sent is the longest prefix of the order that fits the limit with its
\* replacements, and the cut is told in full.
THEOREM SentIsAPrefix == Spec => []SentIsThePrefix
<1>1. Holds => SentIsThePrefix
    BY PrefixTells DEF Holds
<1> QED
    BY <1>1, HoldsAlways, PTL

\* Every mark a claim shows is earned.
THEOREM MarksAreTrue == Spec => []MarksAreEarned
<1>1. MarksAreEarned
    <2> SUFFICES ASSUME NEW cites \in SUBSET NodeId, NEW basis \in Basis
                 PROVE  LET marks == ClaimMarks(cites, basis) IN
                        /\ marks \cap {"INFERRED", "CITATION REJECTED", "UNCITED", "unsupported"} = {} =>
                              /\ cites # {} /\ cites \subseteq taken
                              /\ ~FailedClaim(cites, basis)
                        /\ "link" \in marks =>
                              \A n \in cites : \E m \in cites \cap taken :
                                  \E k \in SentLinks : Ends(k) = {n, m} /\ m # n
                        /\ "HISTORY" \notin marks =>
                              \A n \in cites \cap taken : Replaced(graph, n) = {}
        BY DEF MarksAreEarned
    <2> DEFINE marks == ClaimMarks(cites, basis)
    <2>1. /\ "INFERRED" \in marks <=> Inferred(cites, basis)
          /\ "CITATION REJECTED" \in marks <=> RejectedIds(cites) # {}
          /\ "UNCITED" \in marks <=> cites = {}
          /\ "HISTORY" \in marks <=> HistoryClaim(cites)
          /\ "link" \in marks => basis = "link" /\ ~Inferred(cites, basis)
        BY MarksTell
    <2> HIDE DEF marks
    <2>2. ASSUME marks \cap {"INFERRED", "CITATION REJECTED", "UNCITED", "unsupported"} = {}
          PROVE  cites # {} /\ cites \subseteq taken /\ ~FailedClaim(cites, basis)
        BY <2>1, <2>2 DEF RejectedIds, FailedClaim
    <2>3. ASSUME "link" \in marks
          PROVE  \A n \in cites : \E m \in cites \cap taken : \E k \in SentLinks : Ends(k) = {n, m} /\ m # n
        <3>1. Linked(cites)
            BY <2>1, <2>3 DEF Inferred
        <3> QED
            BY <3>1, LinkedJoins
    <2>4. ASSUME "HISTORY" \notin marks
          PROVE  \A n \in cites \cap taken : Replaced(graph, n) = {}
        BY <2>1, <2>4 DEF HistoryClaim, IsHistory
    <2> QED
        BY <2>2, <2>3, <2>4 DEF marks
<1> QED
    BY <1>1, PTL
=============================================================================
