---------------------------- MODULE Corpus_proofs ----------------------------
(***************************************************************************)
(* Proofs about the corpus behind a load (module Corpus), the scoring of a *)
(* question against it (Evaluation) and the four way comparison (FourWay), *)
(* for any number of units and whatever their runs found: both ends of     *)
(* every row a load writes have a node, everything a first run found       *)
(* stands once and every count adds up, a release only adds and is told in *)
(* full, no flag of the comparison makes a step worse, the held view lifts *)
(* no verdict, and an absence that passes is proven.                       *)
(*                                                                         *)
(* The graph of a load is one function of what the units hold, so the      *)
(* invariant is small (Typed, Sourced), and the argument is about the      *)
(* operators: sums and counts, where an end lands, and what a walk over    *)
(* one graph reaches that a walk over a smaller one does not.              *)
(***************************************************************************)
EXTENDS FourWay, FiniteSetTheorems, NaturalsInduction, WellFoundedInduction, TLAPS

\* What every unit found is an artifact, whichever of them are complete.
Typed ==
    /\ \A u \in Unit : IsArtifact(art[u])
    /\ complete \subseteq Unit
    /\ loaded = None \/ loaded \in [units : SUBSET Unit, rule : Rule, held : BOOLEAN]

\* The artifacts never change, and a load reads the units that are complete.
LEMMA TypedAlways == Spec => []Typed
<1>1. Init => Typed
    BY CorpusAssumption DEF Init, Typed
<1>2. Typed /\ [Next]_vars => Typed'
    BY DEF Typed, Next, Extract, Load, vars
<1> QED
    BY <1>1, <1>2, PTL DEF Spec
-----------------------------------------------------------------------------
(* Sums: what SumFunction of the community modules adds up to.             *)

\* The member a fold takes of a set.
Pick(s) == CHOOSE x \in s : TRUE
\* The function a fold of the summands a over the subsets of R is defined to be.
IsFold(g, a, R) ==
    g = [s \in SUBSET R |-> IF s = {} THEN 0 ELSE a[Pick(s)] + g[s \ {Pick(s)}]]

\* A set of subsets of a finite set has a smallest member.
LEMMA SmallestSubset ==
    ASSUME NEW R, IsFiniteSet(R), NEW T, T \subseteq SUBSET R, T # {}
    PROVE  \E x \in T : \A y \in T : ~(y \subseteq x /\ y # x)
<1>1. IsWellFoundedOn(StrictSubsetOrdering(R), SUBSET R)
    BY FS_StrictSubsetOrderingWellFounded, FS_FiniteSubsetsOfFinite
<1>2. PICK x \in T : \A y \in T : <<y, x>> \notin StrictSubsetOrdering(R)
    BY <1>1, WFMin
<1> QED
    BY <1>2 DEF StrictSubsetOrdering

\* What is picked from a set is in it.
LEMMA PickIn ==
    ASSUME NEW s, s # {}
    PROVE  Pick(s) \in s
BY DEF Pick

\* Two folds of the same summands agree wherever both are defined.
LEMMA FoldUnique ==
    ASSUME NEW R, IsFiniteSet(R), NEW a, NEW g, NEW h, NEW S, S \subseteq R,
           IsFold(g, a, R), IsFold(h, a, S)
    PROVE  \A s \in SUBSET S : g[s] = h[s]
<1> DEFINE bad == {s \in SUBSET S : g[s] # h[s]}
<1>1. SUFFICES ASSUME bad # {} PROVE FALSE
    OBVIOUS
<1>2. bad \subseteq SUBSET R
    OBVIOUS
<1>3. PICK x \in bad : \A y \in bad : ~(y \subseteq x /\ y # x)
    <2> HIDE DEF bad
    <2> QED
        BY <1>1, <1>2, SmallestSubset
<1>4. x \in SUBSET S /\ x \in SUBSET R /\ g[x] # h[x]
    BY <1>2, <1>3
<1>5. /\ g[x] = IF x = {} THEN 0 ELSE a[Pick(x)] + g[x \ {Pick(x)}]
      /\ h[x] = IF x = {} THEN 0 ELSE a[Pick(x)] + h[x \ {Pick(x)}]
    BY <1>4 DEF IsFold
<1>6. x # {}
    BY <1>4, <1>5
<1>7. g[x \ {Pick(x)}] = h[x \ {Pick(x)}]
    <2>1. x \ {Pick(x)} \in SUBSET S /\ x \ {Pick(x)} \subseteq x /\ x \ {Pick(x)} # x
        BY <1>4, <1>6, PickIn
    <2> QED
        BY <1>3, <2>1
<1> QED
    BY <1>4, <1>5, <1>6, <1>7

\* Every finite set has a fold.
LEMMA FoldExists ==
    ASSUME NEW R, IsFiniteSet(R), NEW a
    PROVE  \E g : IsFold(g, a, R)
<1> DEFINE bad == {S \in SUBSET R : ~\E g : IsFold(g, a, S)}
<1>1. SUFFICES ASSUME bad # {} PROVE FALSE
    BY DEF IsFold
<1>2. bad \subseteq SUBSET R
    OBVIOUS
<1>3. PICK T \in bad : \A y \in bad : ~(y \subseteq T /\ y # T)
    <2> HIDE DEF bad
    <2> QED
        BY <1>1, <1>2, SmallestSubset
<1>4. T \in SUBSET R /\ ~\E g : IsFold(g, a, T)
    BY <1>3
<1>5. \A S \in SUBSET T : S # T => \E g : IsFold(g, a, S)
    BY <1>3, <1>4
<1> DEFINE fold(S) == CHOOSE g : IsFold(g, a, S)
           at(S) == fold(S)[S]
           next == IF T = {} THEN 0 ELSE a[Pick(T)] + at(T \ {Pick(T)})
           new == [s \in SUBSET T |-> IF s = T THEN next ELSE at(s)]
<1>6. \A S \in SUBSET T : S # T => IsFold(fold(S), a, S)
    <2> TAKE S \in SUBSET T
    <2> HAVE S # T
    <2>1. \E g : IsFold(g, a, S)
        BY <1>5
    <2> QED
        BY <2>1
<1>7. ASSUME NEW s \in SUBSET T
      PROVE  new[s] = IF s = {} THEN 0 ELSE a[Pick(s)] + new[s \ {Pick(s)}]
    <2>1. CASE s = {}
        <3>1. CASE T = {}
            BY <2>1, <3>1
        <3>2. CASE T # {}
            <4>1. new[s] = at({}) /\ IsFold(fold({}), a, {})
                BY <1>6, <2>1, <3>2
            <4> HIDE DEF fold, new
            <4>2. at({}) = 0
                BY <4>1 DEF IsFold
            <4> QED
                BY <2>1, <4>1, <4>2
        <3> QED
            BY <3>1, <3>2
    <2>2. CASE s # {}
        <3> DEFINE less == s \ {Pick(s)}
        <3>1. Pick(s) \in s /\ less \in SUBSET T /\ less # T /\ less # s /\ less \subseteq s
            BY <2>2, PickIn
        <3>2. new[less] = at(less)
            BY <3>1
        <3>3. CASE s = T
            BY <2>2, <3>2, <3>3
        <3>4. CASE s # T
            <4>1. new[s] = at(s)
                BY <3>4
            <4>2. IsFold(fold(s), a, s) /\ IsFold(fold(less), a, less)
                BY <1>6, <3>1, <3>4
            <4>3. IsFiniteSet(s)
                BY <1>4, FS_Subset
            <4> HIDE DEF new, fold, less
            <4>4. fold(s)[s] = a[Pick(s)] + fold(s)[less]
                BY <2>2, <4>2 DEF IsFold, less
            <4>5. \A u \in SUBSET less : fold(s)[u] = fold(less)[u]
                <5> DEFINE g == fold(s)  h == fold(less)
                <5>1. IsFold(g, a, s) /\ IsFold(h, a, less)
                    BY <4>2
                <5> HIDE DEF g, h
                <5>2. \A u \in SUBSET less : g[u] = h[u]
                    BY <3>1, <4>3, <5>1, FoldUnique
                <5> QED
                    BY <5>2 DEF g, h
            <4>6. fold(s)[less] = at(less)
                BY <4>5
            <4> QED
                BY <2>2, <3>2, <4>1, <4>4, <4>6 DEF less
        <3> QED
            BY <3>3, <3>4
    <2> QED
        BY <2>1, <2>2
<1>8. new = [s \in SUBSET T |-> new[s]]
    OBVIOUS
<1>9. IsFold(new, a, T)
    <2> HIDE DEF new
    <2> QED
        BY <1>7, <1>8 DEF IsFold
<1> QED
    BY <1>4, <1>9

\* SumFunction is the fold of its values over its whole domain.
LEMMA SumIsFold ==
    ASSUME NEW a, IsFiniteSet(DOMAIN a)
    PROVE  \E g : IsFold(g, a, DOMAIN a) /\ SumFunction(a) = g[DOMAIN a]
<1> DEFINE it == CHOOSE g : IsFold(g, a, DOMAIN a)
<1>1. IsFold(it, a, DOMAIN a)
    BY FoldExists
<1>2. SumFunction(a) = it[DOMAIN a]
    BY DEF SumFunction, SumFunctionOnSet, FoldFunctionOnSet, MapThenFoldSet, IsFold, Pick
<1> QED
    BY <1>1, <1>2

\* g sums the integers a over the subsets of R, whatever member is taken first.
Sums(g, a, R) ==
    \A s \in SUBSET R : g[s] \in Int /\ \A p \in s : g[s] = a[p] + g[s \ {p}]

\* A fold of integers may take any member first.
LEMMA FoldAnyFirst ==
    ASSUME NEW R, IsFiniteSet(R), NEW a \in [R -> Int], NEW g, IsFold(g, a, R)
    PROVE  Sums(g, a, R)
<1> DEFINE good(s) == g[s] \in Int /\ \A p \in s : g[s] = a[p] + g[s \ {p}]
           bad == {s \in SUBSET R : ~good(s)}
<1>1. SUFFICES ASSUME bad # {} PROVE FALSE
    BY DEF Sums
<1>2. PICK x \in bad : \A y \in bad : ~(y \subseteq x /\ y # x)
    <2>1. bad \subseteq SUBSET R
        OBVIOUS
    <2> HIDE DEF bad
    <2> QED
        BY <1>1, <2>1, SmallestSubset
<1>3. x \in SUBSET R /\ ~good(x)
    BY <1>2
<1>4. \A y \in SUBSET x : y # x => good(y)
    BY <1>2, <1>3
<1>5. g[x] = IF x = {} THEN 0 ELSE a[Pick(x)] + g[x \ {Pick(x)}]
    BY <1>3 DEF IsFold
<1>6. CASE x = {}
    BY <1>3, <1>5, <1>6
<1>7. CASE x # {}
    <2> DEFINE q == Pick(x)
    <2>1. q \in x /\ a[q] \in Int /\ g[x \ {q}] \in Int /\ g[x] = a[q] + g[x \ {q}]
        <3>1. q \in x
            BY <1>7, PickIn
        <3>2. good(x \ {q})
            BY <1>4, <3>1
        <3> QED
            BY <1>3, <1>5, <1>7, <3>1, <3>2
    <2>2. ASSUME NEW p \in x, p # q
          PROVE  g[x] = a[p] + g[x \ {p}]
        <3> HIDE DEF q
        <3>1. good(x \ {q}) /\ good(x \ {p})
            BY <1>4, <2>1, <2>2
        <3>2. g[x \ {q}] = a[p] + g[(x \ {q}) \ {p}]
            BY <3>1, <2>2
        <3>3. g[x \ {p}] = a[q] + g[(x \ {p}) \ {q}]
            BY <3>1, <2>1, <2>2
        <3> DEFINE rest == (x \ {p}) \ {q}
        <3>4. (x \ {q}) \ {p} = rest
            OBVIOUS
        <3>5. a[p] \in Int /\ a[q] \in Int /\ g[rest] \in Int
            <4>1. good(rest)
                BY <1>4, <2>1
            <4> QED
                BY <1>3, <2>1, <2>2, <4>1
        <3>6. g[x \ {q}] = a[p] + g[rest] /\ g[x \ {p}] = a[q] + g[rest]
            BY <3>2, <3>3, <3>4
        <3> HIDE DEF rest, good, bad
        <3> QED
            BY <2>1, <3>5, <3>6
    <2>3. \A p \in x : g[x] = a[p] + g[x \ {p}]
        BY <2>1, <2>2
    <2>4. g[x] \in Int
        BY <2>1
    <2> QED
        BY <1>3, <2>3, <2>4
<1> QED
    BY <1>6, <1>7

\* The sum of nothing is 0, and of integers an integer that counts each member once.
LEMMA SumOf ==
    ASSUME NEW R, IsFiniteSet(R), NEW a \in [R -> Int]
    PROVE  \E g : g[{}] = 0 /\ Sums(g, a, R) /\ SumFunction(a) = g[R]
<1>1. PICK g : IsFold(g, a, R) /\ SumFunction(a) = g[R]
    BY SumIsFold
<1>2. g[{}] = 0
    BY <1>1 DEF IsFold
<1>3. Sums(g, a, R)
    BY <1>1, FoldAnyFirst
<1> QED
    BY <1>1, <1>2, <1>3

\* The two functions agree on S.
Same(a, b, S) == \A u \in S : a[u] = b[u]

\* A sum of integers is one.
LEMMA SumOfIsInt ==
    ASSUME NEW R, IsFiniteSet(R), NEW a \in [R -> Int]
    PROVE  SumFunction(a) \in Int
<1>1. PICK g : g[{}] = 0 /\ Sums(g, a, R) /\ SumFunction(a) = g[R]
    BY SumOf
<1> QED
    BY <1>1 DEF Sums

\* Two sums of the same integers agree.
LEMMA SumsAgree ==
    ASSUME NEW R, IsFiniteSet(R), NEW S \in SUBSET R, NEW a, NEW b, Same(a, b, S),
           NEW g, NEW h, Sums(g, a, R), Sums(h, b, S), g[{}] = 0, h[{}] = 0
    PROVE  g[S] = h[S]
<1> DEFINE bad == {s \in SUBSET S : g[s] # h[s]}
<1>1. SUFFICES ASSUME bad # {} PROVE FALSE
    OBVIOUS
<1>2. PICK x \in bad : \A y \in bad : ~(y \subseteq x /\ y # x)
    <2>1. bad \subseteq SUBSET R
        OBVIOUS
    <2> HIDE DEF bad
    <2> QED
        BY <1>1, <2>1, SmallestSubset
<1>3. x \in SUBSET S /\ x # {} /\ g[x] # h[x]
    BY <1>2
<1>4. PICK p \in x : TRUE
    BY <1>3
<1>5. g[x \ {p}] = h[x \ {p}]
    BY <1>2, <1>3
<1>6. a[p] = b[p]
    BY <1>3 DEF Same
<1>7. g[x] = a[p] + g[x \ {p}] /\ h[x] = b[p] + h[x \ {p}]
    BY <1>3 DEF Sums
<1> QED
    BY <1>3, <1>5, <1>6, <1>7

\* The sum over two sets with nothing in common is the sum of the two.
LEMMA SumsJoin ==
    ASSUME NEW R, IsFiniteSet(R), NEW a \in [R -> Int], NEW g, Sums(g, a, R), g[{}] = 0,
           NEW S \in SUBSET R, NEW T \in SUBSET R, S \cap T = {}
    PROVE  g[S \cup T] = g[S] + g[T]
<1> DEFINE bad == {s \in SUBSET S : g[s \cup T] # g[s] + g[T]}
<1>1. SUFFICES ASSUME bad # {} PROVE FALSE
    OBVIOUS
<1>2. PICK x \in bad : \A y \in bad : ~(y \subseteq x /\ y # x)
    <2>1. bad \subseteq SUBSET R
        OBVIOUS
    <2> HIDE DEF bad
    <2> QED
        BY <1>1, <2>1, SmallestSubset
<1>3. x \in SUBSET S /\ g[x \cup T] # g[x] + g[T]
    BY <1>2
<1>4. g[T] \in Int
    BY DEF Sums
<1>5. x # {}
    <2>1. SUFFICES ASSUME x = {} PROVE FALSE
        OBVIOUS
    <2>2. x \cup T = T
        BY <2>1
    <2> QED
        BY <1>3, <1>4, <2>1, <2>2
<1>6. PICK p \in x : TRUE
    BY <1>5
<1> DEFINE less == x \ {p}
<1>7. g[less \cup T] = g[less] + g[T]
    BY <1>2, <1>3
<1>8. (x \cup T) \ {p} = less \cup T
    BY <1>3
<1>9. x \in SUBSET R /\ x \cup T \in SUBSET R /\ less \in SUBSET R /\ p \in x \cup T /\ p \in R
    BY <1>3
<1>10. /\ g[x] = a[p] + g[less] /\ g[less] \in Int
       /\ g[x \cup T] = a[p] + g[(x \cup T) \ {p}]
    BY <1>9 DEF Sums
<1>11. a[p] \in Int
    BY <1>9
<1>12. g[x \cup T] = a[p] + g[less \cup T]
    BY <1>8, <1>10
<1>13. g[x] \in Int /\ g[x] = a[p] + g[less] /\ g[less] \in Int
    BY <1>10, <1>11
<1> HIDE DEF less, bad
<1>14. g[x \cup T] = a[p] + (g[less] + g[T])
    BY <1>7, <1>12
<1>15. g[x \cup T] = g[x] + g[T]
    BY <1>4, <1>11, <1>13, <1>14
<1> QED
    BY <1>3, <1>15

\* The sum of sums is the sum.
LEMMA SumAdds ==
    ASSUME NEW R, IsFiniteSet(R), NEW a \in [R -> Int], NEW b \in [R -> Int], NEW c \in [R -> Int],
           \A u \in R : c[u] = a[u] + b[u]
    PROVE  /\ SumFunction(c) = SumFunction(a) + SumFunction(b)
           /\ SumFunction(a) \in Int /\ SumFunction(b) \in Int
<1>1. PICK f : f[{}] = 0 /\ Sums(f, a, R) /\ SumFunction(a) = f[R]
    BY SumOf
<1>2. PICK g : g[{}] = 0 /\ Sums(g, b, R) /\ SumFunction(b) = g[R]
    BY SumOf
<1>3. PICK h : h[{}] = 0 /\ Sums(h, c, R) /\ SumFunction(c) = h[R]
    BY SumOf
<1> DEFINE bad == {s \in SUBSET R : h[s] # f[s] + g[s]}
<1>4. bad = {}
    <2>1. SUFFICES ASSUME bad # {} PROVE FALSE
        OBVIOUS
    <2>2. PICK x \in bad : \A y \in bad : ~(y \subseteq x /\ y # x)
        <3>1. bad \subseteq SUBSET R
            OBVIOUS
        <3> HIDE DEF bad
        <3> QED
            BY <2>1, <3>1, SmallestSubset
    <2>3. x \in SUBSET R /\ h[x] # f[x] + g[x]
        BY <2>2
    <2>4. x # {}
        <3>1. SUFFICES ASSUME x = {} PROVE FALSE
            OBVIOUS
        <3>2. f[x] = 0 /\ g[x] = 0 /\ h[x] = 0
            BY <1>1, <1>2, <1>3, <3>1
        <3> QED
            BY <2>3, <3>2
    <2>5. PICK p \in x : TRUE
        BY <2>4
    <2> DEFINE less == x \ {p}
    <2>6. less \in SUBSET R /\ p \in R /\ h[less] = f[less] + g[less]
        BY <2>2, <2>3
    <2>7. /\ f[x] = a[p] + f[less] /\ g[x] = b[p] + g[less] /\ h[x] = c[p] + h[less]
          /\ f[less] \in Int /\ g[less] \in Int
        BY <1>1, <1>2, <1>3, <2>3, <2>6 DEF Sums
    <2>8. a[p] \in Int /\ b[p] \in Int /\ c[p] = a[p] + b[p]
        BY <2>6
    <2> HIDE DEF less, bad
    <2> QED
        BY <2>3, <2>6, <2>7, <2>8
<1>5. h[R] = f[R] + g[R] /\ f[R] \in Int /\ g[R] \in Int
    BY <1>1, <1>2, <1>4 DEF Sums
<1> QED
    BY <1>1, <1>2, <1>3, <1>5

\* The sizes of sets with nothing in common add up to the size of their union.
LEMMA SumCounts ==
    ASSUME NEW R, IsFiniteSet(R), NEW A, \A u \in R : IsFiniteSet(A[u]),
           \A u, v \in R : u # v => A[u] \cap A[v] = {}
    PROVE  /\ IsFiniteSet(UNION {A[u] : u \in R})
           /\ SumFunction([u \in R |-> Cardinality(A[u])]) = Cardinality(UNION {A[u] : u \in R})
<1> DEFINE a == [u \in R |-> Cardinality(A[u])]
           all(s) == UNION {A[u] : u \in s}
<1>1. a \in [R -> Int]
    BY FS_CardinalityType
<1>2. PICK g : g[{}] = 0 /\ Sums(g, a, R) /\ SumFunction(a) = g[R]
    BY <1>1, SumOf
<1> DEFINE bad == {s \in SUBSET R : ~(IsFiniteSet(all(s)) /\ g[s] = Cardinality(all(s)))}
<1>3. bad = {}
    <2>1. SUFFICES ASSUME bad # {} PROVE FALSE
        OBVIOUS
    <2>2. PICK x \in bad : \A y \in bad : ~(y \subseteq x /\ y # x)
        <3>1. bad \subseteq SUBSET R
            OBVIOUS
        <3> HIDE DEF bad
        <3> QED
            BY <2>1, <3>1, SmallestSubset
    <2>3. x \in SUBSET R /\ ~(IsFiniteSet(all(x)) /\ g[x] = Cardinality(all(x)))
        BY <2>2
    <2>4. x # {}
        <3>1. SUFFICES ASSUME x = {} PROVE FALSE
            OBVIOUS
        <3>2. all(x) = {}
            BY <3>1
        <3> QED
            BY <1>2, <2>3, <3>1, <3>2, FS_EmptySet
    <2>5. PICK p \in x : TRUE
        BY <2>4
    <2> DEFINE less == x \ {p}
    <2>6. less \in SUBSET R /\ p \in R /\ IsFiniteSet(all(less)) /\ g[less] = Cardinality(all(less))
        <3>1. less \in SUBSET R /\ p \in R /\ less \subseteq x /\ less # x
            BY <2>3
        <3>2. less \notin bad
            <4> HIDE DEF bad, less
            <4> QED
                BY <2>2, <3>1
        <3> HIDE DEF less, all
        <3> QED
            BY <3>1, <3>2
    <2>7. g[x] = Cardinality(A[p]) + g[less]
        <3>1. g[x] = a[p] + g[less]
            BY <1>2, <2>3 DEF Sums
        <3> QED
            BY <2>6, <3>1
    <2>8. all(x) = A[p] \cup all(less) /\ A[p] \cap all(less) = {}
        BY <2>3
    <2>9. IsFiniteSet(A[p])
        BY <2>6
    <2> HIDE DEF less, bad, all, a
    <2>10. /\ IsFiniteSet(all(x))
           /\ Cardinality(all(x)) = Cardinality(A[p]) + Cardinality(all(less)) - Cardinality(A[p] \cap all(less))
        BY <2>6, <2>8, <2>9, FS_Union
    <2>11. Cardinality(A[p] \cap all(less)) = 0
        BY <2>8, FS_EmptySet
    <2>12. Cardinality(A[p]) \in Nat /\ Cardinality(all(less)) \in Nat
        BY <2>6, <2>9, FS_CardinalityType
    <2> QED
        BY <2>3, <2>6, <2>7, <2>10, <2>11, <2>12
<1> QED
    BY <1>2, <1>3

\* Summed group by group, the sums add up to the sum of all.
LEMMA SumGroups ==
    ASSUME NEW R, IsFiniteSet(R), NEW a \in [R -> Int], NEW kind, NEW t,
           LET kinds == {kind[u] : u \in R} IN
           t = [k \in kinds |-> SumFunction([u \in {v \in R : kind[v] = k} |-> a[u]])]
    PROVE  SumFunction(t) = SumFunction(a)
<1> DEFINE K == {kind[u] : u \in R}
           of(ks) == {u \in R : kind[u] \in ks}
<1>1. IsFiniteSet(K)
    <2> DEFINE f == [u \in R |-> kind[u]]
    <2>1. f \in Surjection(R, K)
        BY DEF Surjection
    <2> QED
        BY <2>1, FS_Surjection
<1>2. PICK g : g[{}] = 0 /\ Sums(g, a, R) /\ SumFunction(a) = g[R]
    BY SumOf
<1>3. ASSUME NEW k \in K
      PROVE  t[k] = g[of({k})] /\ t[k] \in Int
    <2> DEFINE S == {v \in R : kind[v] = k}
               b == [u \in S |-> a[u]]
    <2>1. t[k] = SumFunction(b)
        OBVIOUS
    <2>2. IsFiniteSet(S) /\ S \in SUBSET R /\ b \in [S -> Int] /\ of({k}) = S /\ Same(a, b, S)
        BY FS_Subset DEF Same
    <2> HIDE DEF S, b, of, K
    <2>3. PICK h : h[{}] = 0 /\ Sums(h, b, S) /\ SumFunction(b) = h[S]
        BY <2>2, SumOf
    <2>4. g[S] = h[S]
        BY <1>2, <2>2, <2>3, SumsAgree
    <2>5. g[S] \in Int
        BY <1>2, <2>2 DEF Sums
    <2> QED
        BY <2>1, <2>2, <2>3, <2>4, <2>5
<1>4. t \in [K -> Int]
    <2>1. t = [k \in K |-> t[k]]
        OBVIOUS
    <2> HIDE DEF K
    <2> QED
        BY <1>3, <2>1
<1>5. PICK f : f[{}] = 0 /\ Sums(f, t, K) /\ SumFunction(t) = f[K]
    <2> HIDE DEF K
    <2> QED
        BY <1>1, <1>4, SumOf
<1> DEFINE bad == {s \in SUBSET K : f[s] # g[of(s)]}
<1>6. bad = {}
    <2>1. SUFFICES ASSUME bad # {} PROVE FALSE
        OBVIOUS
    <2>2. PICK x \in bad : \A y \in bad : ~(y \subseteq x /\ y # x)
        <3>1. bad \subseteq SUBSET K
            OBVIOUS
        <3> HIDE DEF bad, K
        <3> QED
            BY <1>1, <2>1, <3>1, SmallestSubset
    <2> HIDE DEF K
    <2>3. x \in SUBSET K /\ f[x] # g[of(x)]
        BY <2>2
    <2>4. x # {}
        <3>1. SUFFICES ASSUME x = {} PROVE FALSE
            OBVIOUS
        <3>2. of(x) = {}
            BY <3>1
        <3> QED
            BY <1>2, <1>5, <2>3, <3>1, <3>2
    <2>5. PICK p \in x : TRUE
        BY <2>4
    <2> DEFINE less == x \ {p}
    <2>6. less \in SUBSET K /\ p \in K /\ f[less] = g[of(less)]
        BY <2>2, <2>3
    <2>7. f[x] = t[p] + f[less] /\ f[less] \in Int
        BY <1>5, <2>3, <2>6 DEF Sums
    <2>8. /\ of(x) = of({p}) \cup of(less) /\ of({p}) \cap of(less) = {}
          /\ of({p}) \in SUBSET R /\ of(less) \in SUBSET R
        BY <2>5
    <2> HIDE DEF of, less, bad
    <2>9. g[of(x)] = g[of({p})] + g[of(less)]
        <3> DEFINE P == of({p})  L == of(less)
        <3>1. P \in SUBSET R /\ L \in SUBSET R /\ P \cap L = {} /\ of(x) = P \cup L
            BY <2>8
        <3> HIDE DEF P, L
        <3>2. g[P \cup L] = g[P] + g[L]
            BY <1>2, <3>1, SumsJoin
        <3>3. g[of(x)] = g[P] + g[L]
            BY <3>1, <3>2
        <3> QED
            BY <3>3 DEF P, L
    <2> QED
        BY <1>3, <2>3, <2>6, <2>7, <2>9
<1>7. of(K) = R
    OBVIOUS
<1>8. f[K] = g[of(K)]
    BY <1>6
<1> QED
    BY <1>2, <1>5, <1>7, <1>8
-----------------------------------------------------------------------------
(* What a set R of units holds.                                            *)

\* Under either rule a unit accepts entities and links of its first run, with their ends.
LEMMA RoutedIs ==
    ASSUME Typed, NEW u \in Unit, NEW rule \in Rule
    PROVE  IsFirst(First(u)) /\ IsRouted(First(u), RoutedUnit(u, rule))
BY DEF Typed, IsArtifact, First, RoutedUnit, Rule

\* Everything known or accepted is an id, and what is accepted is known.
LEMMA AcceptedKnown ==
    ASSUME Typed, NEW R \in SUBSET Unit, NEW rule \in Rule
    PROVE  Accepted(R, rule) \subseteq Known(R) /\ Known(R) \subseteq Id
<1>1. \A u \in R : RoutedUnit(u, rule).entities \subseteq DOMAIN First(u).entity
                   /\ DOMAIN First(u).entity \subseteq Id
    BY RoutedIs DEF IsRouted, IsFirst
<1> QED
    BY <1>1 DEF Accepted, Known

\* A written link is a relationship of its unit, its local ends entities of the unit, and
\* its references in words.
LEMMA SaidIs ==
    ASSUME Typed, NEW R \in SUBSET Unit, NEW p \in Written(R)
    PROVE  /\ p[1] \in R /\ p[1] \in Unit /\ p[2] \in DOMAIN First(p[1]).link
           /\ p = <<p[1], p[2]>>
           /\ Said(p) \in Relationship
           /\ \A e \in Sides(Said(p)) :
                 /\ e \in End
                 /\ e.local => e.id \in Known(R)
                 /\ ~e.local => e.mention \in Mention
<1>0. PICK u \in R : p \in {u} \X DOMAIN First(u).link
    BY DEF Written
<1>1. PICK s \in DOMAIN First(u).link : p = <<u, s>>
    BY <1>0
<1>2. u \in Unit /\ IsFirst(First(u))
    BY RoutedIs DEF Rule
<1>3. Said(p) = First(u).link[s] /\ Said(p) \in Relationship
    BY <1>1, <1>2 DEF Said, IsFirst
<1>4. \A e \in Sides(Said(p)) : e \in End
    BY <1>3 DEF Sides, Relationship
<1>5. \A e \in Sides(Said(p)) :
        IF e.local THEN e.id \in DOMAIN First(u).entity ELSE e.mention # None
    BY <1>1, <1>2, <1>3 DEF IsFirst
<1>6. DOMAIN First(u).entity \subseteq Known(R)
    BY DEF Known
<1>7. \A e \in End : e.mention \in Mention \cup {None}
    BY DEF End
<1> QED
    BY <1>1, <1>2, <1>3, <1>4, <1>5, <1>6, <1>7

\* A local end of an accepted link is accepted with it.
LEMMA LocalAccepted ==
    ASSUME Typed, NEW R \in SUBSET Unit, NEW rule \in Rule, NEW p \in Routed(R, rule),
           NEW e \in Sides(Said(p)), e.local
    PROVE  e.id \in Accepted(R, rule)
<1>1. p[1] \in R /\ p[1] \in Unit /\ p[2] \in RoutedUnit(p[1], rule).links
    BY SaidIs DEF Routed
<1>2. e.id \in RoutedUnit(p[1], rule).entities
    BY <1>1, RoutedIs DEF IsRouted, Said
<1> QED
    BY <1>1, <1>2 DEF Accepted

\* An end lands on an id that may be named, on a record the corpus holds, or on a gap of
\* the record its text is of.
LEMMA EndLands ==
    ASSUME Typed, NEW R \in SUBSET Unit, NEW p \in Written(R), NEW e \in Sides(Said(p)),
           NEW ids, ids \subseteq Id, e.local => e.id \in ids
    PROVE  \/ Land(R, ids, p[1], e) \in ids /\ Land(R, ids, p[1], e) = Named(R, e)
           \/ Land(R, ids, p[1], e) \in KnownRecords(R) /\ ~e.local
           \/ /\ Land(R, ids, p[1], e) \in Record \X Mention
              /\ ~e.local /\ Named(R, e) \notin ids
<1>1. RecordOf[p[1]] \in Record
    BY SaidIs, CorpusAssumption
<1>2. ~e.local => e.mention \in Mention
    BY SaidIs
<1>3. e.local => Named(R, e) \in ids
    BY DEF Named
<1> QED
    BY <1>1, <1>2, <1>3 DEF Land, NamesRecord, Gap
-----------------------------------------------------------------------------
(* Both ends of every row.                                                 *)

\* The ends of the accepted rows have nodes among what is accepted.
LEMMA LinkEnds ==
    ASSUME Typed, NEW R \in SUBSET Unit, NEW rule \in Rule
    PROVE  KeyEnds(LinkKeys(R, rule)) \subseteq
              KnownRecords(R) \cup Accepted(R, rule) \cup Gaps(LinkKeys(R, rule))
<1> DEFINE ids == Accepted(R, rule)
<1>1. ids \subseteq Id
    BY AcceptedKnown
<1>2. ASSUME NEW p \in Resolved(R, rule), NEW e \in Sides(Said(p))
      PROVE  Land(R, ids, p[1], e) \in ids \cup KnownRecords(R) \cup (Record \X Mention)
    <2>1. p \in Routed(R, rule) /\ p \in Written(R)
        BY DEF Resolved, Routed
    <2>2. e.local => e.id \in ids
        BY <2>1, LocalAccepted
    <2> HIDE DEF ids
    <2> QED
        BY <1>1, <2>1, <2>2, EndLands
<1>3. \A key \in LinkKeys(R, rule) :
        /\ key[2] \in ids \cup KnownRecords(R) \cup (Record \X Mention)
        /\ key[3] \in ids \cup KnownRecords(R) \cup (Record \X Mention)
    BY <1>2 DEF LinkKeys, Key, Sides
<1> QED
    BY <1>3 DEF KeyEnds, Gaps

\* The ends of the held rows have nodes among what is accepted or held.
LEMMA HeldEnds ==
    ASSUME Typed, NEW R \in SUBSET Unit, NEW rule \in Rule
    PROVE  KeyEnds(HeldKeys(R, rule)) \subseteq
              KnownRecords(R) \cup Accepted(R, rule) \cup Gaps(LinkKeys(R, rule))
              \cup HeldIds(R, rule) \cup HeldGaps(R, rule)
<1> DEFINE ids == Known(R)
<1>1. ids \subseteq Id /\ ids \subseteq Accepted(R, rule) \cup HeldIds(R, rule)
    BY AcceptedKnown DEF HeldIds
<1>2. ASSUME NEW p \in HeldPairs(R, rule), NEW e \in Sides(Said(p))
      PROVE  Land(R, ids, p[1], e) \in ids \cup KnownRecords(R) \cup (Record \X Mention)
    <2>1. p \in Written(R)
        BY DEF HeldPairs, HeldAcross, Routed
    <2>2. e.local => e.id \in ids
        BY <2>1, SaidIs
    <2> HIDE DEF ids
    <2> QED
        BY <1>1, <2>1, <2>2, EndLands
<1>3. \A key \in HeldKeys(R, rule) :
        /\ key[2] \in ids \cup KnownRecords(R) \cup (Record \X Mention)
        /\ key[3] \in ids \cup KnownRecords(R) \cup (Record \X Mention)
    BY <1>2 DEF HeldKeys, Key, Sides
<1>4. KeyEnds(HeldKeys(R, rule)) \subseteq ids \cup KnownRecords(R) \cup Gaps(HeldKeys(R, rule))
    BY <1>3 DEF KeyEnds, Gaps
<1> HIDE DEF ids
<1> QED
    BY <1>1, <1>4 DEF HeldGaps

\* A link that is not held waits on nothing, so an end that is no accepted item names none
\* the corpus knows.
LEMMA GapUnknown ==
    ASSUME Typed, NEW R \in SUBSET Unit, NEW rule \in Rule, NEW p \in Resolved(R, rule),
           NEW e \in Sides(Said(p)),
           Land(R, Accepted(R, rule), p[1], e) \in Record \X Mention
    PROVE  Named(R, e) \notin Known(R)
<1> DEFINE ids == Accepted(R, rule)
<1>1. ids \subseteq Id /\ KnownRecords(R) \subseteq Record
    BY ZenonT(60), AcceptedKnown, CorpusAssumption DEF KnownRecords
<1>2. p \in Routed(R, rule) /\ p \in Written(R) /\ ~Waits(R, rule, p)
    BY DEF Resolved, HeldAcross, Routed
<1>3. e.local => e.id \in ids
    BY <1>2, LocalAccepted
<1>4. \A gap \in Record \X Mention : gap \notin Id \cup Record
    BY CorpusAssumption
<1>5. Named(R, e) \notin ids
    <2> HIDE DEF ids
    <2>1. Land(R, ids, p[1], e) \notin Id \cup Record
        BY <1>4 DEF ids
    <2> QED
        BY <1>1, <1>2, <1>3, <2>1, EndLands
<1> QED
    BY <1>2, <1>5 DEF Waits

\* Whichever units are complete and whatever rule a load applies, both ends of each row have
\* a node, and a gap never stands for an item in the graph or in review.
THEOREM BothEndsLand == Spec => []LinksLand
<1>1. Typed => LinksLand
    <2> SUFFICES ASSUME Typed PROVE LinksLand
        OBVIOUS
    <2>1. complete \in SUBSET Unit
        BY DEF Typed
    <2>2. EndsAreNodes
        BY <2>1, LinkEnds, HeldEnds DEF EndsAreNodes
    <2>3. GapsAreUnknown
        BY <2>1, GapUnknown DEF GapsAreUnknown
    <2> QED
        BY <2>2, <2>3 DEF LinksLand
<1> QED
    BY <1>1, TypedAlways, PTL
-----------------------------------------------------------------------------
(* What a release moves.                                                   *)

\* Releasing accepts more, inside every unit and so in the corpus.
LEMMA ReleaseGrows ==
    ASSUME Typed, NEW R \in SUBSET Unit
    PROVE  /\ Accepted(R, "before") \subseteq Accepted(R, "after")
           /\ Routed(R, "before") \subseteq Routed(R, "after")
<1>1. \A u \in R : /\ RoutedUnit(u, "before").entities \subseteq RoutedUnit(u, "after").entities
                   /\ RoutedUnit(u, "before").links \subseteq RoutedUnit(u, "after").links
    BY DEF Typed, IsArtifact, RoutedUnit
<1>2. \A p \in Written(R) : p[1] \in R
    BY SaidIs
<1> QED
    BY <1>1, <1>2 DEF Accepted, Routed

\* A resolved link stays resolved: it waited on nothing, and nothing is held anew.
LEMMA ResolvedStays ==
    ASSUME Typed, NEW R \in SUBSET Unit, NEW p \in Resolved(R, "before")
    PROVE  /\ p \in Resolved(R, "after")
           /\ Key(R, Accepted(R, "after"), p) = Key(R, Accepted(R, "before"), p)
<1>1. p \in Routed(R, "before") /\ p \in Routed(R, "after") /\ p \in Written(R)
    BY ReleaseGrows DEF Resolved, Routed
<1>2. \A e \in Sides(Said(p)) : Named(R, e) \notin Known(R) \ Accepted(R, "before")
    BY <1>1 DEF Resolved, HeldAcross, Waits
<1>3. p \in Resolved(R, "after")
    BY <1>1, <1>2, ReleaseGrows DEF Resolved, HeldAcross, Waits
<1>4. \A e \in Sides(Said(p)) : Named(R, e) \in Accepted(R, "after") <=> Named(R, e) \in Accepted(R, "before")
    BY <1>2, ReleaseGrows, AcceptedKnown DEF Rule
<1>5. \A e \in Sides(Said(p)) :
        Land(R, Accepted(R, "after"), p[1], e) = Land(R, Accepted(R, "before"), p[1], e)
    BY <1>4 DEF Land
<1> QED
    BY <1>3, <1>5 DEF Key, Sides

\* What is accepted without the rule is accepted with it, where it was (AC-19b).
LEMMA NothingIsLost ==
    ASSUME Typed
    PROVE  ReleaseMovesNothing
<1>1. complete \in SUBSET Unit
    BY DEF Typed
<1>2. LostLinks(complete) = {}
    BY <1>1, ResolvedStays DEF LostLinks
<1>3. \A u \in complete : art[u].before.entities \ art[u].after.entities = {}
    BY DEF Typed, IsArtifact
<1>4. LostEntities(complete) = {}
    BY <1>3 DEF LostEntities
<1> QED
    BY <1>2, <1>4 DEF ReleaseMovesNothing

\* What the rule stamps is exactly the relationships the graph gained.
LEMMA StampsAreTheGain ==
    ASSUME Typed, NEW R \in SUBSET Unit
    PROVE  StampedKeys(R) = LinkKeys(R, "after") \ LinkKeys(R, "before")
<1>1. \A p \in Resolved(R, "before") :
        /\ p \in Resolved(R, "after")
        /\ Key(R, Accepted(R, "after"), p) = Key(R, Accepted(R, "before"), p)
    BY ResolvedStays
<1> QED
    BY <1>1 DEF StampedKeys, ReleasedLinks, LinkKeys

\* There are finitely many units, and so are any of them.
LEMMA UnitsFinite == IsFiniteSet(Unit) /\ \A R \in SUBSET Unit : IsFiniteSet(R)
<1>1. 1 \in Int /\ Units \in Int
    BY CorpusAssumption
<1>2. IsFiniteSet(Unit)
    BY <1>1, FS_Interval DEF Unit
<1> QED
    BY <1>2, FS_Subset

\* A corpus has finitely many links.
LEMMA WrittenFinite ==
    ASSUME Typed, NEW R \in SUBSET Unit
    PROVE  IsFiniteSet(Written(R))
<1>1. IsFiniteSet(Unit \X Slot)
    <2>1. IsFiniteSet(Unit)
        BY UnitsFinite
    <2>2. IsFiniteSet(Slot)
        BY FiniteAssumption
    <2> QED
        BY <2>1, <2>2, FS_Product
<1>2. \A u \in R : DOMAIN First(u).link \subseteq Slot
    BY RoutedIs DEF IsFirst, Rule
<1>3. Written(R) \in SUBSET (Unit \X Slot)
    BY <1>2 DEF Written
<1> QED
    BY <1>1, <1>3, FS_Subset

\* The links the tally counts, inside units and across them, are the ones gained.
LEMMA TallyIsTheLinks ==
    ASSUME Typed, NEW R \in SUBSET Unit
    PROVE  TallyLinks(R) = Cardinality(Resolved(R, "after")) - Cardinality(Resolved(R, "before"))
<1> DEFINE inside == (Routed(R, "after") \ Routed(R, "before")) \ HeldAcross(R, "after")
           across == HeldAcross(R, "before") \ HeldAcross(R, "after")
           was == Resolved(R, "before")
           now == Resolved(R, "after")
<1>1. /\ inside \subseteq Written(R) /\ across \subseteq Written(R)
      /\ was \subseteq Written(R) /\ now \subseteq Written(R)
    BY DEF Resolved, HeldAcross, Routed
<1>2. /\ IsFiniteSet(inside) /\ IsFiniteSet(across) /\ IsFiniteSet(was) /\ IsFiniteSet(now)
    BY <1>1, WrittenFinite, FS_Subset
<1>3. inside \cap across = {} /\ was \subseteq now /\ now \ was = inside \cup across
    BY ReleaseGrows, ResolvedStays DEF Resolved, HeldAcross
<1>4. TallyLinks(R) = Cardinality(inside) + Cardinality(across)
    BY DEF TallyLinks
<1> HIDE DEF inside, across, was, now
<1>5. Cardinality(now \ was) = Cardinality(now) - Cardinality(was)
    <2>1. now \cap was = was
        BY <1>3
    <2>2. Cardinality(now \ was) = Cardinality(now) - Cardinality(now \cap was)
        BY <1>2, FS_Difference
    <2> QED
        BY <2>1, <2>2
<1>6. Cardinality(inside \cup across) = Cardinality(inside) + Cardinality(across)
    <2>1. Cardinality(inside \cup across)
              = Cardinality(inside) + Cardinality(across) - Cardinality(inside \cap across)
        BY <1>2, FS_Union
    <2>2. Cardinality(inside \cap across) = 0
        BY <1>3, FS_EmptySet
    <2>3. Cardinality(inside) \in Nat /\ Cardinality(across) \in Nat
        BY <1>2, FS_CardinalityType
    <2> QED
        BY <2>1, <2>2, <2>3
<1> QED
    BY <1>3, <1>4, <1>5, <1>6 DEF was, now

\* The entities the tally counts are the ones the units accept now and did not before.
LEMMA TallyIsTheEntities ==
    ASSUME Typed, NEW R \in SUBSET Unit
    PROVE  TallyEntities(R) = SumFunction([u \in R |-> Cardinality(RoutedUnit(u, "after").entities)])
                              - SumFunction([u \in R |-> Cardinality(RoutedUnit(u, "before").entities)])
<1> DEFINE was == [u \in R |-> Cardinality(RoutedUnit(u, "before").entities)]
           now == [u \in R |-> Cardinality(RoutedUnit(u, "after").entities)]
           gain == [u \in R |-> Cardinality(art[u].after.entities \ art[u].before.entities)]
<1>1. IsFiniteSet(R)
    BY UnitsFinite
<1>2. ASSUME NEW u \in R
      PROVE  was[u] \in Int /\ now[u] \in Int /\ gain[u] \in Int /\ now[u] = gain[u] + was[u]
    <2> DEFINE b == art[u].before.entities
               a == art[u].after.entities
    <2>1. b \subseteq a /\ a \subseteq Id
        BY DEF Typed, IsArtifact, IsRouted, IsFirst
    <2>2. was[u] = Cardinality(b) /\ now[u] = Cardinality(a) /\ gain[u] = Cardinality(a \ b)
        BY DEF RoutedUnit
    <2> HIDE DEF a, b, was, now, gain
    <2>3. IsFiniteSet(a) /\ IsFiniteSet(b)
        BY <2>1, FiniteAssumption, FS_Subset
    <2>4. Cardinality(a) \in Nat /\ Cardinality(b) \in Nat
        BY <2>3, FS_CardinalityType
    <2>5. Cardinality(a \ b) = Cardinality(a) - Cardinality(b)
        <3>1. a \cap b = b
            BY <2>1
        <3>2. Cardinality(a \ b) = Cardinality(a) - Cardinality(a \cap b)
            BY <2>3, FS_Difference
        <3> QED
            BY <3>1, <3>2
    <2> QED
        BY <2>2, <2>4, <2>5
<1>3. was \in [R -> Int] /\ now \in [R -> Int] /\ gain \in [R -> Int]
    <2>1. was = [u \in R |-> was[u]] /\ now = [u \in R |-> now[u]] /\ gain = [u \in R |-> gain[u]]
        OBVIOUS
    <2> HIDE DEF was, now, gain
    <2> QED
        BY <1>2, <2>1
<1>4. TallyEntities(R) = SumFunction(gain)
    BY DEF TallyEntities
<1> HIDE DEF was, now, gain
<1>5. \A u \in R : now[u] = gain[u] + was[u]
    BY <1>2
<1>6. /\ SumFunction(now) = SumFunction(gain) + SumFunction(was)
      /\ SumFunction(gain) \in Int /\ SumFunction(was) \in Int
    BY <1>1, <1>3, <1>5, SumAdds
<1> QED
    BY <1>4, <1>6 DEF was, now

\* What `load --narrow-hold` prints and stamps as released is what the graph gained, and
\* nothing accepted before it moved, for any corpus.
THEOREM TallyIsTold == Spec => []ReleaseIsTheGain
<1>1. Typed => ReleaseIsTheGain
    <2> SUFFICES ASSUME Typed PROVE ReleaseIsTheGain
        OBVIOUS
    <2>1. complete \in SUBSET Unit
        BY DEF Typed
    <2>2. ReleaseMovesNothing
        BY NothingIsLost
    <2>3. TallyIsTheGain
        BY <2>1, TallyIsTheLinks, TallyIsTheEntities, StampsAreTheGain DEF TallyIsTheGain
    <2> QED
        BY <2>2, <2>3 DEF ReleaseIsTheGain
<1> QED
    BY <1>1, TypedAlways, PTL
-----------------------------------------------------------------------------
(* The graph a load leaves.                                                *)

\* Some units have a first and a last.
LEMMA FirstAndLast ==
    ASSUME NEW S \in SUBSET Unit, S # {}
    PROVE  Min(S) \in S /\ Max(S) \in S /\ \A u \in S : Min(S) =< u
<1>1. Units \in Nat /\ S \subseteq Nat /\ \A u \in S : u <= Units
    BY CorpusAssumption DEF Unit
<1>2. \A T \in SUBSET Nat : T # {} => \E x \in T : \A y \in T : ~(y < x)
    <2> TAKE T \in SUBSET Nat
    <2> HAVE T # {}
    <2> DEFINE less == OpToRel(<, Nat)
    <2>1. IsWellFoundedOn(less, Nat)
        BY NatLessThanWellFounded
    <2>2. \A x, y \in Nat : y < x => <<y, x>> \in less
        BY DEF OpToRel
    <2> HIDE DEF less
    <2>3. PICK x \in T : \A y \in T : <<y, x>> \notin less
        BY <2>1, WFMin
    <2> QED
        BY <2>2, <2>3
<1>3. Min(S) \in S /\ \A u \in S : Min(S) =< u
    <2>1. PICK x \in S : \A y \in S : ~(y < x)
        BY <1>1, <1>2
    <2>2. \E m \in S : \A y \in S : m =< y
        BY <1>1, <2>1
    <2> QED
        BY <2>2 DEF Min
<1>4. Max(S) \in S
    <2> DEFINE T == {Units - u : u \in S}
    <2>1. T \in SUBSET Nat /\ T # {}
        <3>1. \A u \in S : Units - u \in Nat
            BY <1>1
        <3> QED
            BY <3>1
    <2>2. PICK x \in T : \A y \in T : ~(y < x)
        BY <1>2, <2>1
    <2>3. PICK m \in S : x = Units - m
        BY <2>2
    <2>4. ASSUME NEW y \in S
          PROVE  m >= y
        <3>1. Units - y \in T
            OBVIOUS
        <3>2. ~(Units - y < Units - m)
            BY <2>2, <2>3, <3>1
        <3> QED
            BY <1>1, <2>3, <3>2
    <2>5. \E n \in S : \A y \in S : n >= y
        BY <2>4
    <2> QED
        BY <2>5 DEF Max
<1> QED
    BY <1>3, <1>4

\* The unit whose properties a node carries found the item.
LEMMA WriterFound ==
    ASSUME Typed, NEW R \in SUBSET Unit, NEW rule \in Rule, NEW i \in Known(R)
    PROVE  /\ Writer(R, rule, i) \in R
           /\ i \in DOMAIN First(Writer(R, rule, i)).entity
           /\ First(Writer(R, rule, i)).entity[i] \in Entity
<1> DEFINE w == Writer(R, rule, i)
<1>1. \A u \in R : RoutedUnit(u, rule).entities \subseteq DOMAIN First(u).entity
    BY RoutedIs DEF IsRouted
<1>2. w \in R /\ i \in DOMAIN First(w).entity
    <2>1. CASE i \in Accepted(R, rule)
        <3> DEFINE S == {u \in R : i \in RoutedUnit(u, rule).entities}
        <3>1. S \in SUBSET Unit /\ S # {}
            BY <2>1 DEF Accepted
        <3>2. w = Max(S)
            BY <2>1 DEF Writer
        <3>3. Max(S) \in S
            <4> HIDE DEF S
            <4> QED
                BY <3>1, FirstAndLast
        <3> QED
            BY <1>1, <3>2, <3>3
    <2>2. CASE i \notin Accepted(R, rule)
        <3> DEFINE S == {u \in R : i \in DOMAIN First(u).entity}
        <3>1. S \in SUBSET Unit /\ S # {}
            BY DEF Known
        <3>2. w = Min(S)
            BY <2>2 DEF Writer
        <3>3. Min(S) \in S
            <4> HIDE DEF S
            <4> QED
                BY <3>1, FirstAndLast
        <3> QED
            BY <3>2, <3>3
    <2> QED
        BY <2>1, <2>2
<1> HIDE DEF w
<1>3. First(w).entity[i] \in Entity
    BY <1>2, RoutedIs DEF IsFirst
<1> QED
    BY <1>2, <1>3 DEF w

\* The key of a row: a link type between items, records and gaps.
LEMMA KeyIs ==
    ASSUME Typed, NEW R \in SUBSET Unit, NEW p \in Written(R), NEW ids, ids \subseteq Id,
           \A e \in Sides(Said(p)) : e.local => e.id \in ids
    PROVE  Key(R, ids, p) \in LinkType \X NodeId \X NodeId
<1> DEFINE land(e) == Land(R, ids, p[1], e)
<1>1. \A e \in Sides(Said(p)) : land(e) \in NodeId
    <2> TAKE e \in Sides(Said(p))
    <2>1. e.local => e.id \in ids
        OBVIOUS
    <2>2. land(e) \in ids \/ land(e) \in KnownRecords(R) \/ land(e) \in Record \X Mention
        BY <2>1, EndLands
    <2>3. KnownRecords(R) \subseteq Record
        BY CorpusAssumption DEF KnownRecords
    <2> QED
        BY <2>2, <2>3, NodeAssumption
<1>2. Said(p).type \in LinkType
    BY SaidIs DEF Relationship
<1> QED
    BY <1>1, <1>2 DEF Key, Sides

\* The accepted rows and the held ones.
LEMMA RowsAre ==
    ASSUME Typed, NEW R \in SUBSET Unit, NEW rule \in Rule
    PROVE  LinkKeys(R, rule) \cup HeldKeys(R, rule) \subseteq LinkType \X NodeId \X NodeId
<1>1. ASSUME NEW p \in Resolved(R, rule)
      PROVE  Key(R, Accepted(R, rule), p) \in LinkType \X NodeId \X NodeId
    <2>1. p \in Routed(R, rule) /\ p \in Written(R)
        BY DEF Resolved, Routed
    <2>2. \A e \in Sides(Said(p)) : e.local => e.id \in Accepted(R, rule)
        BY <2>1, LocalAccepted
    <2>3. Accepted(R, rule) \subseteq Id
        BY AcceptedKnown
    <2> QED
        BY <2>1, <2>2, <2>3, KeyIs
<1>2. ASSUME NEW p \in HeldPairs(R, rule)
      PROVE  Key(R, Known(R), p) \in LinkType \X NodeId \X NodeId
    <2>1. p \in Written(R)
        BY DEF HeldPairs, HeldAcross, Routed
    <2>2. \A e \in Sides(Said(p)) : e.local => e.id \in Known(R)
        BY <2>1, SaidIs
    <2>3. Known(R) \subseteq Id
        BY AcceptedKnown
    <2> QED
        BY <2>1, <2>2, <2>3, KeyIs
<1> QED
    BY <1>1, <1>2 DEF LinkKeys, HeldKeys

\* A load leaves a graph.
LEMMA LoadIsGraph ==
    ASSUME Typed, NEW R \in SUBSET Unit, NEW rule \in Rule, NEW with_held \in BOOLEAN
    PROVE  IsGraph(LoadedGraph(R, rule, with_held))
<1> DEFINE g == LoadedGraph(R, rule, with_held)
           heldIds == IF with_held THEN HeldIds(R, rule) ELSE {}
           heldKeys == IF with_held THEN HeldKeys(R, rule) ELSE {}
           heldGaps == IF with_held THEN HeldGaps(R, rule) ELSE {}
           entities == Accepted(R, rule) \cup heldIds
           nodes == KnownRecords(R) \cup entities \cup Gaps(LinkKeys(R, rule)) \cup heldGaps
           struck(n) == n \in entities /\ First(Writer(R, rule, n)).entity[n].struck
           node(n) == [kind |-> IF n \in entities THEN "Entity"
                                ELSE IF n \in Record THEN "Record" ELSE "Unresolved",
                       held |-> n \in heldIds \cup heldGaps, struck |-> struck(n)]
           link(key, held) == [type |-> key[1], source |-> key[2], target |-> key[3], held |-> held]
           links == {link(key, FALSE) : key \in LinkKeys(R, rule)} \cup {link(key, TRUE) : key \in heldKeys}
<1>1. g = [node |-> [n \in nodes |-> node(n)], links |-> links]
    BY DEF LoadedGraph
<1>2. entities \subseteq Known(R) /\ Known(R) \subseteq Id
    BY AcceptedKnown DEF HeldIds
<1>3. nodes \subseteq NodeId
    <2>1. KnownRecords(R) \subseteq Record
        BY CorpusAssumption DEF KnownRecords
    <2>2. Gaps(LinkKeys(R, rule)) \subseteq Record \X Mention /\ heldGaps \subseteq Record \X Mention
        BY DEF Gaps, HeldGaps
    <2> HIDE DEF entities, heldGaps
    <2> QED
        BY <1>2, <2>1, <2>2, NodeAssumption
<1>4. ASSUME NEW n \in nodes
      PROVE  node(n) \in Node
    <2>1. struck(n) \in BOOLEAN
        <3>1. CASE n \in entities
            <4>1. First(Writer(R, rule, n)).entity[n] \in Entity
                BY <1>2, <3>1, WriterFound
            <4> QED
                BY <3>1, <4>1 DEF Entity
        <3>2. CASE n \notin entities
            BY <3>2
        <3> QED
            BY <3>1, <3>2
    <2> HIDE DEF struck, entities, heldIds, heldGaps
    <2> QED
        BY <2>1 DEF Node, NodeKind
<1>5. links \subseteq Link
    <2>1. \A key \in LinkKeys(R, rule) \cup heldKeys :
            key[1] \in LinkType /\ key[2] \in NodeId /\ key[3] \in NodeId
        BY RowsAre
    <2>2. \A key \in LinkKeys(R, rule) \cup heldKeys : link(key, FALSE) \in Link /\ link(key, TRUE) \in Link
        BY <2>1 DEF Link
    <2> HIDE DEF heldKeys, link
    <2> QED
        BY <2>2
<1> HIDE DEF g, nodes, node, links
<1>6. g.node = [n \in nodes |-> node(n)] /\ g.links = links /\ Nodes(g) = nodes
    BY <1>1 DEF Nodes
<1>7. g = [node |-> g.node, links |-> g.links]
    BY <1>1, <1>6
<1>8. g.node \in [Nodes(g) -> Node]
    BY <1>4, <1>6
<1>9. IsGraph(g)
    BY <1>3, <1>5, <1>6, <1>7, <1>8 DEF IsGraph
<1> QED
    BY <1>9 DEF g

\* What the units hold, which are complete, and the graph of the last load are well formed.
THEOREM TypeInvariant == Spec => []TypeOK
<1>1. Typed => TypeOK
    <2> SUFFICES ASSUME Typed PROVE TypeOK
        OBVIOUS
    <2>1. ASSUME loaded # None
          PROVE  IsGraph(LoadedGraph(loaded.units, loaded.rule, loaded.held))
        <3>1. loaded.units \in SUBSET Unit /\ loaded.rule \in Rule /\ loaded.held \in BOOLEAN
            BY <2>1 DEF Typed
        <3> QED
            BY <3>1, LoadIsGraph
    <2> QED
        BY <2>1 DEF Typed, TypeOK
<1> QED
    BY <1>1, TypedAlways, PTL
-----------------------------------------------------------------------------
(* What one unit puts in the graph and in the review queue.                *)

\* What one unit found is finite, and so are its links that are resolved or held.
LEMMA UnitFinite ==
    ASSUME Typed, NEW R \in SUBSET Unit, NEW rule \in Rule, NEW u \in R
    PROVE  /\ IsFiniteSet(DOMAIN First(u).entity) /\ IsFiniteSet(DOMAIN First(u).link)
           /\ IsFiniteSet(RoutedUnit(u, rule).entities) /\ IsFiniteSet(RoutedUnit(u, rule).links)
           /\ IsFiniteSet(HeldEntities(u, rule)) /\ IsFiniteSet(HeldInside(u, rule))
           /\ IsFiniteSet(SkippedEntities(R, u, rule))
           /\ IsFiniteSet({p \in Resolved(R, rule) : p[1] = u})
           /\ IsFiniteSet({p \in HeldAcross(R, rule) : p[1] = u})
           /\ LaterEntities(u) \in Nat /\ LaterLinks(u) \in Nat
<1>1. /\ DOMAIN First(u).entity \subseteq Id /\ DOMAIN First(u).link \subseteq Slot
      /\ RoutedUnit(u, rule).entities \subseteq Id /\ RoutedUnit(u, rule).links \subseteq Slot
    BY RoutedIs DEF IsFirst, IsRouted
<1>2. /\ HeldEntities(u, rule) \subseteq Id /\ HeldInside(u, rule) \subseteq Slot
      /\ SkippedEntities(R, u, rule) \subseteq Id
    BY <1>1 DEF HeldEntities, HeldInside, SkippedEntities
<1>3. /\ {p \in Resolved(R, rule) : p[1] = u} \subseteq Written(R)
      /\ {p \in HeldAcross(R, rule) : p[1] = u} \subseteq Written(R)
    BY DEF Resolved, HeldAcross, Routed
<1>4. LaterEntities(u) \in Nat /\ LaterLinks(u) \in Nat
    <2>1. art[u].later \in [entities : Later, links : Later] /\ Later \subseteq Nat
        BY CorpusAssumption DEF Typed, IsArtifact
    <2> QED
        BY <2>1 DEF LaterEntities, LaterLinks
<1>5. IsFiniteSet(Id) /\ IsFiniteSet(Slot) /\ IsFiniteSet(Written(R))
    BY FiniteAssumption, WrittenFinite
<1>6. /\ \A S \in SUBSET Id : IsFiniteSet(S)
      /\ \A S \in SUBSET Slot : IsFiniteSet(S)
      /\ \A S \in SUBSET Written(R) : IsFiniteSet(S)
    BY <1>5, FS_Subset
<1> QED
    BY <1>1, <1>2, <1>3, <1>4, <1>6

\* Of the links a unit accepts some are resolved and the others held across units.
LEMMA UnitLinks ==
    ASSUME Typed, NEW R \in SUBSET Unit, NEW rule \in Rule, NEW u \in R
    PROVE  Cardinality({p \in Resolved(R, rule) : p[1] = u})
           + Cardinality({p \in HeldAcross(R, rule) : p[1] = u})
           = Cardinality(RoutedUnit(u, rule).links)
<1> DEFINE resolved == {p \in Resolved(R, rule) : p[1] = u}
           across == {p \in HeldAcross(R, rule) : p[1] = u}
           in == RoutedUnit(u, rule).links
<1>1. in \subseteq DOMAIN First(u).link
    BY RoutedIs DEF IsRouted
<1>2. resolved \cap across = {} /\ resolved \cup across = {p \in Routed(R, rule) : p[1] = u}
    BY DEF Resolved, HeldAcross
<1>3. {p \in Routed(R, rule) : p[1] = u} = {u} \X in
    <2>1. ASSUME NEW p \in Routed(R, rule), p[1] = u
          PROVE  p \in {u} \X in
        <3>1. p \in Written(R) /\ p[2] \in in
            BY <2>1 DEF Routed
        <3>2. p = <<p[1], p[2]>>
            BY <3>1, SaidIs
        <3> HIDE DEF in
        <3> QED
            BY <2>1, <3>1, <3>2
    <2>2. ASSUME NEW p \in {u} \X in
          PROVE  p \in Routed(R, rule) /\ p[1] = u
        <3>1. p \in {u} \X DOMAIN First(u).link /\ p[1] = u /\ p[2] \in in
            BY <1>1
        <3>2. p \in Written(R)
            BY <3>1 DEF Written
        <3> QED
            BY <3>1, <3>2 DEF Routed
    <2> QED
        BY <2>1, <2>2
<1>4. IsFiniteSet(resolved) /\ IsFiniteSet(across) /\ IsFiniteSet(in)
    BY UnitFinite
<1> HIDE DEF resolved, across, in
<1>5. Cardinality({u} \X in) = Cardinality(in)
    <2>1. IsFiniteSet({u}) /\ Cardinality({u}) = 1
        BY FS_Singleton
    <2>2. Cardinality({u} \X in) = Cardinality({u}) * Cardinality(in)
        BY <1>4, <2>1, FS_Product
    <2>3. Cardinality(in) \in Nat
        BY <1>4, FS_CardinalityType
    <2> QED
        BY <2>1, <2>2, <2>3
<1>6. Cardinality(resolved \cup across)
        = Cardinality(resolved) + Cardinality(across) - Cardinality(resolved \cap across)
    BY <1>4, FS_Union
<1>7. Cardinality(resolved \cap across) = 0
    BY <1>2, FS_EmptySet
<1>8. Cardinality(resolved) \in Nat /\ Cardinality(across) \in Nat
    BY <1>4, FS_CardinalityType
<1>9. Cardinality(resolved) + Cardinality(across) = Cardinality(in)
    <2>1. resolved \cup across = {u} \X in
        BY <1>2, <1>3
    <2>2. Cardinality(resolved \cup across) = Cardinality(in)
        BY <1>5, <2>1
    <2> QED
        BY <1>6, <1>7, <1>8, <2>2
<1> QED
    BY <1>9 DEF resolved, across, in

\* What is left of a finite set without a part of it.
LEMMA LessPart ==
    ASSUME NEW S, NEW T, IsFiniteSet(S), T \subseteq S
    PROVE  Cardinality(S \ T) = Cardinality(S) - Cardinality(T)
<1>1. S \cap T = T
    OBVIOUS
<1>2. Cardinality(S \ T) = Cardinality(S) - Cardinality(S \cap T)
    BY FS_Difference
<1> QED
    BY <1>1, <1>2

\* The counts of a unit in the manifest and its rows in the queue account for each item once.
LEMMA UnitAddsUp ==
    ASSUME Typed, NEW R \in SUBSET Unit, NEW rule \in Rule, NEW u \in R
    PROVE  LET c == UnitCounts(R, rule, u) IN
           /\ c.accepted_links + c.held_links = Cardinality(DOMAIN First(u).link) + LaterLinks(u)
           /\ QueueRows(R, rule, u) + c.accepted_links + c.accepted_entities
               = Cardinality(DOMAIN First(u).link) + Cardinality(DOMAIN First(u).entity)
                 + LaterLinks(u) + LaterEntities(u)
<1> DEFINE resolved == Cardinality({p \in Resolved(R, rule) : p[1] = u})
           across == Cardinality({p \in HeldAcross(R, rule) : p[1] = u})
           inLinks == Cardinality(RoutedUnit(u, rule).links)
           inEntities == Cardinality(RoutedUnit(u, rule).entities)
           links == Cardinality(DOMAIN First(u).link)
           entities == Cardinality(DOMAIN First(u).entity)
           heldLinks == Cardinality(HeldInside(u, rule))
           heldEntities == Cardinality(HeldEntities(u, rule))
           laterLinks == LaterLinks(u)
           laterEntities == LaterEntities(u)
<1>1. /\ resolved \in Nat /\ across \in Nat /\ inLinks \in Nat /\ inEntities \in Nat
      /\ links \in Nat /\ entities \in Nat /\ laterEntities \in Nat /\ laterLinks \in Nat
    BY UnitFinite, FS_CardinalityType
<1>2. resolved + across = inLinks
    BY UnitLinks
<1>3. heldLinks = links - inLinks
    <2>1. RoutedUnit(u, rule).links \subseteq DOMAIN First(u).link
        BY RoutedIs DEF IsRouted
    <2>2. IsFiniteSet(DOMAIN First(u).link)
        BY UnitFinite
    <2>3. Cardinality(DOMAIN First(u).link \ RoutedUnit(u, rule).links) = links - inLinks
        BY <2>1, <2>2, LessPart
    <2> QED
        BY <2>3 DEF HeldInside
<1>4. heldEntities = entities - inEntities
    <2>1. RoutedUnit(u, rule).entities \subseteq DOMAIN First(u).entity
        BY RoutedIs DEF IsRouted
    <2>2. IsFiniteSet(DOMAIN First(u).entity)
        BY UnitFinite
    <2>3. Cardinality(DOMAIN First(u).entity \ RoutedUnit(u, rule).entities) = entities - inEntities
        BY <2>1, <2>2, LessPart
    <2> QED
        BY <2>3 DEF HeldEntities
<1>5. /\ UnitCounts(R, rule, u).accepted_links = resolved
      /\ UnitCounts(R, rule, u).held_links = heldLinks + laterLinks + across
      /\ UnitCounts(R, rule, u).accepted_entities = inEntities
      /\ QueueRows(R, rule, u) = heldEntities + heldLinks + laterEntities + laterLinks + across
    BY DEF UnitCounts, QueueRows
<1> HIDE DEF resolved, across, inLinks, inEntities, links, entities, heldLinks, heldEntities,
             laterLinks, laterEntities
<1>6. /\ resolved + (heldLinks + laterLinks + across) = links + laterLinks
      /\ (heldEntities + heldLinks + laterEntities + laterLinks + across) + resolved + inEntities
         = links + entities + laterLinks + laterEntities
    BY <1>1, <1>2, <1>3, <1>4
<1>7. /\ UnitCounts(R, rule, u).accepted_links + UnitCounts(R, rule, u).held_links = links + laterLinks
      /\ QueueRows(R, rule, u) + UnitCounts(R, rule, u).accepted_links + UnitCounts(R, rule, u).accepted_entities
         = links + entities + laterLinks + laterEntities
    BY <1>5, <1>6
<1> QED
    BY <1>7 DEF links, entities, laterLinks, laterEntities

\* A held entity is written from the first unit that holds it and skipped everywhere else.
LEMMA HeldAddsUp ==
    ASSUME Typed, NEW R \in SUBSET Unit, NEW rule \in Rule
    PROVE  Cardinality(HeldIds(R, rule))
           + SumFunction([u \in R |-> Cardinality(SkippedEntities(R, u, rule))])
           = SumFunction([u \in R |-> Cardinality(HeldEntities(u, rule))])
<1> DEFINE fresh == [u \in R |-> HeldEntities(u, rule) \ SkippedEntities(R, u, rule)]
           new == [u \in R |-> Cardinality(fresh[u])]
           skipped == [u \in R |-> Cardinality(SkippedEntities(R, u, rule))]
           held == [u \in R |-> Cardinality(HeldEntities(u, rule))]
<1>1. ASSUME NEW u \in R
      PROVE  /\ IsFiniteSet(fresh[u]) /\ held[u] = skipped[u] + new[u]
             /\ held[u] \in Int /\ skipped[u] \in Int /\ new[u] \in Int
    <2> DEFINE h == HeldEntities(u, rule)
               s == SkippedEntities(R, u, rule)
    <2>1. fresh[u] = h \ s /\ new[u] = Cardinality(h \ s) /\ skipped[u] = Cardinality(s) /\ held[u] = Cardinality(h)
        OBVIOUS
    <2>2. IsFiniteSet(h) /\ IsFiniteSet(s)
        BY UnitFinite
    <2>3. h \cap s = s
        BY DEF SkippedEntities
    <2> HIDE DEF h, s, fresh, new, skipped, held
    <2>4. IsFiniteSet(h \ s) /\ Cardinality(h \ s) = Cardinality(h) - Cardinality(h \cap s)
        BY <2>2, FS_Difference
    <2>5. Cardinality(h \ s) = Cardinality(h) - Cardinality(s)
        BY <2>3, <2>4
    <2>6. Cardinality(h) \in Nat /\ Cardinality(s) \in Nat
        BY <2>2, FS_CardinalityType
    <2> QED
        BY <2>1, <2>4, <2>5, <2>6
<1>2. new \in [R -> Int] /\ skipped \in [R -> Int] /\ held \in [R -> Int]
    <2>1. new = [u \in R |-> new[u]] /\ skipped = [u \in R |-> skipped[u]] /\ held = [u \in R |-> held[u]]
        OBVIOUS
    <2> HIDE DEF new, skipped, held
    <2> QED
        BY <1>1, <2>1
<1>3. IsFiniteSet(R)
    BY UnitsFinite
<1>4. SumFunction(held) = SumFunction(skipped) + SumFunction(new) /\ SumFunction(skipped) \in Int
    <2>1. \A u \in R : held[u] = skipped[u] + new[u]
        BY <1>1
    <2> HIDE DEF new, skipped, held, fresh
    <2> QED
        BY <1>2, <1>3, <2>1, SumAdds
<1>5. UNION {fresh[u] : u \in R} = HeldIds(R, rule)
    <2>1. ASSUME NEW u \in R, NEW i \in fresh[u]
          PROVE  i \in HeldIds(R, rule)
        <3>1. i \in DOMAIN First(u).entity /\ i \notin Accepted(R, rule)
            BY <2>1 DEF HeldEntities, SkippedEntities
        <3> QED
            BY <3>1 DEF HeldIds, Known
    <2>2. ASSUME NEW i \in HeldIds(R, rule)
          PROVE  \E u \in R : i \in fresh[u]
        <3> DEFINE S == {u \in R : i \in HeldEntities(u, rule)}
        <3>1. i \notin Accepted(R, rule) /\ \E u \in R : i \in DOMAIN First(u).entity
            BY DEF HeldIds, Known
        <3>2. \A u \in R : i \notin RoutedUnit(u, rule).entities
            BY <3>1 DEF Accepted
        <3>3. S \in SUBSET Unit /\ S # {}
            BY <3>1, <3>2 DEF HeldEntities
        <3> DEFINE m == Min(S)
        <3>4. m \in S /\ \A u \in S : m =< u
            <4> HIDE DEF S
            <4> QED
                BY <3>3, FirstAndLast
        <3>5. \A v \in R : v < m => i \notin HeldEntities(v, rule)
            <4>1. \A u \in Unit : u \in Int
                BY DEF Unit
            <4> HIDE DEF m
            <4> QED
                BY <3>3, <3>4, <4>1
        <3> HIDE DEF m
        <3>6. i \notin SkippedEntities(R, m, rule)
            BY <3>1, <3>5 DEF SkippedEntities
        <3> QED
            BY <3>4, <3>6
    <2> HIDE DEF fresh
    <2> QED
        BY <2>1, <2>2
<1>6. \A u, v \in R : u # v => fresh[u] \cap fresh[v] = {}
    <2>1. ASSUME NEW u \in R, NEW v \in R, u < v
          PROVE  fresh[u] \cap fresh[v] = {}
        BY <2>1 DEF SkippedEntities
    <2>2. \A u \in Unit : u \in Int
        BY DEF Unit
    <2> HIDE DEF fresh
    <2>3. \A u, v \in R : u # v => u < v \/ v < u
        BY <2>2
    <2> QED
        BY <2>1, <2>3
<1>7. SumFunction(new) = Cardinality(HeldIds(R, rule))
    <2>1. \A u \in R : IsFiniteSet(fresh[u])
        BY <1>1
    <2> HIDE DEF fresh
    <2>2. SumFunction(new) = Cardinality(UNION {fresh[u] : u \in R})
        BY <1>3, <1>6, <2>1, SumCounts
    <2> QED
        BY <1>5, <2>2
<1>8. SumFunction(new) \in Int
    <2> HIDE DEF new
    <2> QED
        BY <1>2, <1>3, SumOfIsInt
<1> HIDE DEF new, skipped, held
<1>9. Cardinality(HeldIds(R, rule)) + SumFunction(skipped) = SumFunction(held)
    BY <1>4, <1>7, <1>8
<1> QED
    BY <1>9 DEF skipped, held

\* The rows the hold ratio counts kind by kind are the rows of the queue.
LEMMA KindsAddUp ==
    ASSUME Typed, NEW R \in SUBSET Unit, NEW rule \in Rule
    PROVE  SumFunction([kind \in {KindOf[u] : u \in R} |-> HeldRows(KindHold(R, rule, kind))])
           = SumFunction([u \in R |-> QueueRows(R, rule, u)])
<1> DEFINE rows == [u \in R |-> QueueRows(R, rule, u)]
           kinds == {KindOf[u] : u \in R}
           t == [kind \in kinds |-> HeldRows(KindHold(R, rule, kind))]
           of(kind) == {v \in R : KindOf[v] = kind}
<1>1. IsFiniteSet(R)
    BY UnitsFinite
<1>2. ASSUME NEW u \in R
      PROVE  LET hold == UnitHold(R, rule, u) IN
             /\ hold.held_entities \in Int /\ hold.held_links \in Int
             /\ QueueRows(R, rule, u) = hold.held_entities + hold.held_links
             /\ QueueRows(R, rule, u) \in Int
    <2> DEFINE across == Cardinality({p \in HeldAcross(R, rule) : p[1] = u})
               heldLinks == Cardinality(HeldInside(u, rule))
               heldEntities == Cardinality(HeldEntities(u, rule))
               laterLinks == LaterLinks(u)
               laterEntities == LaterEntities(u)
    <2>1. /\ across \in Nat /\ heldLinks \in Nat /\ heldEntities \in Nat
          /\ laterLinks \in Nat /\ laterEntities \in Nat
        BY UnitFinite, FS_CardinalityType
    <2>2. /\ UnitHold(R, rule, u).held_entities = heldEntities + laterEntities
          /\ UnitHold(R, rule, u).held_links = heldLinks + laterLinks + across
          /\ QueueRows(R, rule, u) = heldEntities + heldLinks + laterEntities + laterLinks + across
        BY DEF UnitHold, QueueRows
    <2> HIDE DEF across, heldLinks, heldEntities, laterLinks, laterEntities
    <2> QED
        BY <2>1, <2>2
<1>3. rows \in [R -> Int]
    BY <1>2
<1>4. ASSUME NEW kind \in kinds
      PROVE  t[kind] = SumFunction([u \in of(kind) |-> rows[u]])
    <2> DEFINE S == of(kind)
               ents == [u \in S |-> UnitHold(R, rule, u).held_entities]
               lnks == [u \in S |-> UnitHold(R, rule, u).held_links]
               both == [u \in S |-> rows[u]]
    <2>1. IsFiniteSet(S)
        BY <1>1, FS_Subset
    <2>2. ents \in [S -> Int] /\ lnks \in [S -> Int] /\ both \in [S -> Int]
        BY <1>2
    <2>3. \A u \in S : both[u] = ents[u] + lnks[u]
        BY <1>2
    <2>4. SumFunction(both) = SumFunction(ents) + SumFunction(lnks)
        <3> HIDE DEF S, ents, lnks, both
        <3> QED
            BY <2>1, <2>2, <2>3, SumAdds
    <2>5. t[kind] = HeldRows(KindHold(R, rule, kind))
        OBVIOUS
    <2>6. HeldRows(KindHold(R, rule, kind)) = SumFunction(ents) + SumFunction(lnks)
        <3> DEFINE holds == [u \in S |-> UnitHold(R, rule, u)]
                   ents2 == [u \in DOMAIN holds |-> holds[u]["held_entities"]]
                   lnks2 == [u \in DOMAIN holds |-> holds[u]["held_links"]]
        <3>1. ents2 = ents /\ lnks2 = lnks
            OBVIOUS
        <3>2. /\ KindHold(R, rule, kind).held_entities = SumFunction(ents2)
              /\ KindHold(R, rule, kind).held_links = SumFunction(lnks2)
            BY DEF KindHold
        <3> HIDE DEF ents, lnks, ents2, lnks2
        <3> QED
            BY <3>1, <3>2 DEF HeldRows
    <2> HIDE DEF t, ents, lnks
    <2> QED
        BY <2>4, <2>5, <2>6
<1>5. t = [kind \in kinds |-> SumFunction([u \in of(kind) |-> rows[u]])]
    <2>1. t = [kind \in kinds |-> t[kind]]
        OBVIOUS
    <2> HIDE DEF t, kinds, of, rows
    <2> QED
        BY <1>4, <2>1
<1>6. SumFunction(t) = SumFunction(rows)
    <2> HIDE DEF t, rows
    <2> QED
        BY <1>1, <1>3, <1>5, SumGroups
<1> QED
    BY <1>6
-----------------------------------------------------------------------------
(* Everything a first run found stands once in the graph of a full load.   *)

\* The rows of a load with the held view.
RowOf(key, held) == [type |-> key[1], source |-> key[2], target |-> key[3], held |-> held]

\* A resolved link has one key, whichever ids it is read against.
LEMMA ResolvedKey ==
    ASSUME Typed, NEW R \in SUBSET Unit, NEW rule \in Rule, NEW p \in Resolved(R, rule)
    PROVE  Key(R, Known(R), p) = Key(R, Accepted(R, rule), p)
<1>1. \A e \in Sides(Said(p)) : Named(R, e) \notin Known(R) \ Accepted(R, rule)
    BY DEF Resolved, HeldAcross, Waits, Routed
<1>2. \A e \in Sides(Said(p)) : Named(R, e) \in Known(R) <=> Named(R, e) \in Accepted(R, rule)
    BY <1>1, AcceptedKnown
<1>3. \A e \in Sides(Said(p)) : Land(R, Known(R), p[1], e) = Land(R, Accepted(R, rule), p[1], e)
    BY <1>2 DEF Land
<1> QED
    BY <1>3 DEF Key, Sides

\* In a load with the held view, every known id is a node, every written link has a row, and
\* no two rows have one key.
LEMMA LoadHoldsAll ==
    ASSUME Typed, NEW R \in SUBSET Unit, NEW rule \in Rule
    PROVE  LET g == LoadedGraph(R, rule, TRUE)
               key(k) == <<k.type, k.source, k.target>>
           IN  /\ Known(R) \subseteq Nodes(g)
               /\ \A p \in Written(R) : \E k \in g.links : key(k) = Key(R, Known(R), p)
               /\ \A j, k \in g.links : key(j) = key(k) => j = k
<1> DEFINE g == LoadedGraph(R, rule, TRUE)
           key(k) == <<k.type, k.source, k.target>>
           accepted == LinkKeys(R, rule)
           held == HeldKeys(R, rule)
<1>1. /\ g.links = {RowOf(k, FALSE) : k \in accepted} \cup {RowOf(k, TRUE) : k \in held}
      /\ Nodes(g) = KnownRecords(R) \cup (Accepted(R, rule) \cup HeldIds(R, rule))
                    \cup Gaps(LinkKeys(R, rule)) \cup HeldGaps(R, rule)
    BY DEF LoadedGraph, RowOf, Nodes
<1>2. Known(R) \subseteq Nodes(g)
    BY <1>1 DEF HeldIds
<1>3. accepted \cap held = {}
    BY DEF HeldKeys
<1>4. \A k \in accepted \cup held, h \in BOOLEAN : key(RowOf(k, h)) = k
    <2>1. accepted \cup held \subseteq LinkType \X NodeId \X NodeId
        BY RowsAre
    <2> HIDE DEF accepted, held
    <2> QED
        BY <2>1 DEF RowOf
<1>5. ASSUME NEW p \in Written(R)
      PROVE  Key(R, Known(R), p) \in accepted \cup held
    <2>1. CASE p \in Resolved(R, rule)
        BY <2>1, ResolvedKey DEF LinkKeys
    <2>2. CASE p \notin Resolved(R, rule)
        <3>1. p \in HeldPairs(R, rule)
            BY <2>2 DEF HeldPairs, Resolved
        <3> QED
            BY <3>1 DEF HeldKeys
    <2> QED
        BY <2>1, <2>2
<1> HIDE DEF g, accepted, held
<1>6. \A p \in Written(R) : \E k \in g.links : key(k) = Key(R, Known(R), p)
    <2> TAKE p \in Written(R)
    <2>1. CASE Key(R, Known(R), p) \in accepted
        BY <1>1, <1>4, <2>1
    <2>2. CASE Key(R, Known(R), p) \in held
        BY <1>1, <1>4, <2>2
    <2> QED
        BY <1>5, <2>1, <2>2
<1>7. ASSUME NEW j \in g.links, NEW k \in g.links, key(j) = key(k)
      PROVE  j = k
    <2>1. \/ key(j) \in accepted /\ j = RowOf(key(j), FALSE)
          \/ key(j) \in held /\ j = RowOf(key(j), TRUE)
        BY <1>1, <1>4
    <2>2. \/ key(k) \in accepted /\ k = RowOf(key(k), FALSE)
          \/ key(k) \in held /\ k = RowOf(key(k), TRUE)
        BY <1>1, <1>4
    <2> HIDE DEF key
    <2> QED
        BY <1>3, <1>7, <2>1, <2>2
<1> QED
    BY <1>2, <1>6, <1>7 DEF g

\* With the held view nothing of a first run is lost and nothing stands twice, and every
\* count the manifest and the hold ratio make of it adds up, for any number of units.
THEOREM NothingLostOrDoubled == Spec => []EverythingStandsOnce
<1>1. Typed => EverythingStandsOnce
    <2> SUFFICES ASSUME Typed PROVE EverythingStandsOnce
        OBVIOUS
    <2>1. complete \in SUBSET Unit
        BY DEF Typed
    <2>2. ASSUME NEW rule \in Rule
          PROVE  LET c == HeldCounts(complete, rule) IN
                 c.entities + c.skipped_entities
                     = SumFunction([u \in complete |-> Cardinality(HeldEntities(u, rule))])
        BY <2>1, HeldAddsUp DEF HeldCounts
    <2>3. ASSUME NEW rule \in Rule
          PROVE  \A u \in complete :
                    LET c == UnitCounts(complete, rule, u) IN
                    /\ c.accepted_links + c.held_links = Cardinality(DOMAIN First(u).link) + LaterLinks(u)
                    /\ QueueRows(complete, rule, u) + c.accepted_links + c.accepted_entities
                        = Cardinality(DOMAIN First(u).link) + Cardinality(DOMAIN First(u).entity)
                          + LaterLinks(u) + LaterEntities(u)
        BY <2>1, UnitAddsUp
    <2>4. ASSUME NEW rule \in Rule
          PROVE  LET g == LoadedGraph(complete, rule, TRUE)
                     key(k) == <<k.type, k.source, k.target>>
                 IN  /\ Known(complete) \subseteq Nodes(g)
                     /\ \A p \in Written(complete) : \E k \in g.links : key(k) = Key(complete, Known(complete), p)
                     /\ \A j, k \in g.links : key(j) = key(k) => j = k
        BY <2>1, LoadHoldsAll
    <2>5. ASSUME NEW rule \in Rule
          PROVE  SumFunction([kind \in {KindOf[u] : u \in complete} |-> HeldRows(KindHold(complete, rule, kind))])
                 = SumFunction([u \in complete |-> QueueRows(complete, rule, u)])
        BY <2>1, KindsAddUp
    <2> QED
        BY <2>2, <2>3, <2>4, <2>5 DEF EverythingStandsOnce
<1> QED
    BY <1>1, TypedAlways, PTL
-----------------------------------------------------------------------------
(* The layers of Within.                                                   *)

\* A set of naturals has a least one.
LEMMA LeastNatural ==
    ASSUME NEW T \in SUBSET Nat, T # {}
    PROVE  \E x \in T : \A y \in T : ~(y < x)
<1> DEFINE less == OpToRel(<, Nat)
<1>1. IsWellFoundedOn(less, Nat)
    BY NatLessThanWellFounded
<1>2. \A x, y \in Nat : y < x => <<y, x>> \in less
    BY DEF OpToRel
<1> HIDE DEF less
<1>3. PICK x \in T : \A y \in T : <<y, x>> \notin less
    BY <1>1, WFMin
<1> QED
    BY <1>2, <1>3

IsLayers(f, g, n, h) == f = [k \in 0 .. h |-> IF k = 0 THEN {n} ELSE Wider(g, f[k - 1])]

\* The recursion is one: there are layers to every number of hops.
LEMMA LayersExist ==
    ASSUME NEW g, NEW n, NEW h \in Nat
    PROVE  \E f : IsLayers(f, g, n, h)
<1> DEFINE bad == {m \in Nat : ~\E f : IsLayers(f, g, n, m)}
<1>1. SUFFICES ASSUME bad # {} PROVE FALSE
    OBVIOUS
<1>2. PICK m \in bad : \A y \in bad : ~(y < m)
    <2>1. bad \in SUBSET Nat
        OBVIOUS
    <2> HIDE DEF bad
    <2> QED
        BY <1>1, <2>1, LeastNatural
<1>3. m \in Nat /\ ~\E f : IsLayers(f, g, n, m)
    BY <1>2
<1>4. CASE m = 0
    <2> DEFINE f == [k \in 0 .. 0 |-> {n}]
    <2>1. f = [k \in 0 .. 0 |-> IF k = 0 THEN {n} ELSE Wider(g, f[k - 1])]
        OBVIOUS
    <2> HIDE DEF f
    <2>2. IsLayers(f, g, n, m)
        BY <1>4, <2>1 DEF IsLayers
    <2> QED
        BY <1>3, <2>2
<1>5. CASE m # 0
    <2>1. m - 1 \in Nat /\ m - 1 < m /\ m - 1 \notin bad
        BY <1>2, <1>3, <1>5
    <2>2. PICK e : IsLayers(e, g, n, m - 1)
        BY <2>1
    <2> DEFINE f == [k \in 0 .. m |-> IF k = m THEN Wider(g, e[m - 1]) ELSE e[k]]
    <2>3. \A k \in 0 .. m - 1 : e[k] = IF k = 0 THEN {n} ELSE Wider(g, e[k - 1])
        BY <2>2 DEF IsLayers
    <2>4. ASSUME NEW k \in 0 .. m
          PROVE  f[k] = IF k = 0 THEN {n} ELSE Wider(g, f[k - 1])
        <3>1. CASE k = m
            <4>1. f[k - 1] = e[m - 1] /\ f[k] = Wider(g, e[m - 1])
                BY <1>3, <1>5, <3>1
            <4> HIDE DEF f
            <4> QED
                BY <1>5, <3>1, <4>1
        <3>2. CASE k # m /\ k # 0
            <4>1. k \in 0 .. m - 1 /\ k - 1 \in 0 .. m /\ k - 1 # m
                BY <1>3, <3>2
            <4>2. f[k] = e[k] /\ f[k - 1] = e[k - 1]
                BY <3>2, <4>1
            <4> HIDE DEF f
            <4> QED
                BY <2>3, <3>2, <4>1, <4>2
        <3>3. CASE k = 0
            <4>1. f[k] = e[0] /\ 0 \in 0 .. m - 1
                BY <1>3, <1>5, <3>3
            <4> HIDE DEF f
            <4> QED
                BY <2>3, <3>3, <4>1
        <3> QED
            BY <3>1, <3>2, <3>3
    <2>5. f = [k \in 0 .. m |-> f[k]]
        OBVIOUS
    <2> HIDE DEF f
    <2>6. IsLayers(f, g, n, m)
        BY <2>4, <2>5 DEF IsLayers
    <2> QED
        BY <1>3, <2>6
<1> QED
    BY <1>4, <1>5

\* Layers to different numbers of hops agree where both go.
LEMMA LayersAgree ==
    ASSUME NEW g, NEW n, NEW h \in Nat, NEW i \in Nat,
           NEW e, IsLayers(e, g, n, h), NEW f, IsLayers(f, g, n, i),
           NEW k \in Nat, k <= h, k <= i
    PROVE  e[k] = f[k]
<1> DEFINE bad == {m \in Nat : m <= h /\ m <= i /\ e[m] # f[m]}
<1>1. SUFFICES ASSUME bad # {} PROVE FALSE
    OBVIOUS
<1>2. PICK m \in bad : \A y \in bad : ~(y < m)
    <2>1. bad \in SUBSET Nat
        OBVIOUS
    <2> HIDE DEF bad
    <2> QED
        BY <1>1, <2>1, LeastNatural
<1>a. /\ \A j \in 0 .. h : e[j] = IF j = 0 THEN {n} ELSE Wider(g, e[j - 1])
      /\ \A j \in 0 .. i : f[j] = IF j = 0 THEN {n} ELSE Wider(g, f[j - 1])
    BY DEF IsLayers
<1>b. m \in 0 .. h /\ m \in 0 .. i /\ e[m] # f[m]
    BY <1>2
<1> HIDE DEF bad
<1>3. /\ m \in 0 .. h /\ m \in 0 .. i /\ e[m] # f[m]
      /\ e[m] = (IF m = 0 THEN {n} ELSE Wider(g, e[m - 1]))
      /\ f[m] = (IF m = 0 THEN {n} ELSE Wider(g, f[m - 1]))
    BY <1>a, <1>b
<1>4. m # 0
    BY <1>3
<1>5. m - 1 \in Nat /\ m - 1 < m /\ m - 1 <= h /\ m - 1 <= i
    BY <1>3, <1>4
<1>6. e[m - 1] = f[m - 1]
    BY <1>2, <1>5 DEF bad
<1> QED
    BY <1>3, <1>4, <1>6

\* What no hop reaches, and what one hop more does.
LEMMA WithinIs ==
    ASSUME NEW g, NEW n, NEW h \in Nat
    PROVE  /\ Within(g, n, 0) = {n}
           /\ Within(g, n, h + 1) = Wider(g, Within(g, n, h))
<1> DEFINE f(i) == CHOOSE f : IsLayers(f, g, n, i)
<1>1. \A i \in Nat : Within(g, n, i) = f(i)[i]
    BY DEF Within, IsLayers
<1>2. \A i \in Nat : IsLayers(f(i), g, n, i)
    BY LayersExist
<1> HIDE DEF f
<1>3. f(0)[0] = {n}
    BY <1>2 DEF IsLayers
<1>4. h + 1 \in Nat /\ IsLayers(f(h + 1), g, n, h + 1) /\ IsLayers(f(h), g, n, h)
    BY <1>2
<1>5. f(h + 1)[h + 1] = Wider(g, f(h + 1)[h])
    BY <1>4 DEF IsLayers
<1>6. f(h + 1)[h] = f(h)[h]
    BY <1>4, LayersAgree
<1> QED
    BY <1>1, <1>3, <1>4, <1>5, <1>6

\* More hops reach no less.
LEMMA WithinGrows ==
    ASSUME NEW g, NEW n, NEW h \in Nat, NEW i \in Nat, h <= i
    PROVE  Within(g, n, h) \subseteq Within(g, n, i)
<1> DEFINE bad == {m \in Nat : h <= m /\ ~(Within(g, n, h) \subseteq Within(g, n, m))}
<1>1. SUFFICES ASSUME bad # {} PROVE FALSE
    OBVIOUS
<1>2. PICK m \in bad : \A y \in bad : ~(y < m)
    <2>1. bad \in SUBSET Nat
        OBVIOUS
    <2> HIDE DEF bad
    <2> QED
        BY <1>1, <2>1, LeastNatural
<1>3. m \in Nat /\ h <= m /\ m # h /\ ~(Within(g, n, h) \subseteq Within(g, n, m))
    BY <1>2
<1>4. m - 1 \in Nat /\ m - 1 < m /\ h <= m - 1 /\ (m - 1) + 1 = m
    BY <1>3
<1>5. Within(g, n, h) \subseteq Within(g, n, m - 1)
    BY <1>2, <1>4
<1>6. Within(g, n, m) = Wider(g, Within(g, n, m - 1))
    BY <1>4, WithinIs
<1>7. Within(g, n, m - 1) \subseteq Within(g, n, m)
    BY <1>6 DEF Wider
<1> QED
    BY <1>3, <1>5, <1>7

\* A graph that keeps every node of another, in its kind, and every step that can be followed.
Below(g, f) ==
    /\ Nodes(g) \subseteq Nodes(f)
    /\ \A n \in Nodes(g) : f.node[n].kind = g.node[n].kind
    /\ \A k \in Followable(g) : \E j \in Followable(f) : Ends(j) = Ends(k)

\* In such a graph a walk reaches no less.
LEMMA BelowReaches ==
    ASSUME NEW g, NEW f, Below(g, f), NEW n, NEW h \in Nat
    PROVE  Within(g, n, h) \subseteq Within(f, n, h)
<1> DEFINE bad == {m \in Nat : ~(Within(g, n, m) \subseteq Within(f, n, m))}
<1>1. SUFFICES ASSUME bad # {} PROVE FALSE
    OBVIOUS
<1>2. PICK m \in bad : \A y \in bad : ~(y < m)
    <2>1. bad \in SUBSET Nat
        OBVIOUS
    <2> HIDE DEF bad
    <2> QED
        BY <1>1, <2>1, LeastNatural
<1>3. m \in Nat /\ ~(Within(g, n, m) \subseteq Within(f, n, m))
    BY <1>2
<1>4. m # 0
    BY <1>3, WithinIs
<1>5. m - 1 \in Nat /\ m - 1 < m /\ (m - 1) + 1 = m
    BY <1>3, <1>4
<1>6. Within(g, n, m - 1) \subseteq Within(f, n, m - 1)
    BY <1>2, <1>5
<1>7. /\ Within(g, n, m) = Wider(g, Within(g, n, m - 1))
      /\ Within(f, n, m) = Wider(f, Within(f, n, m - 1))
    BY <1>5, WithinIs
<1>8. ASSUME NEW x \in Wider(g, Within(g, n, m - 1))
      PROVE  x \in Wider(f, Within(f, n, m - 1))
    <2>1. CASE x \in Within(g, n, m - 1)
        BY <1>6, <2>1 DEF Wider
    <2>2. CASE x \notin Within(g, n, m - 1)
        <3>1. PICK k \in Followable(g) :
                /\ x \in Ends(k)
                /\ \E y \in Ends(k) \cap Within(g, n, m - 1) : ~Terminal(g, y)
            BY <2>2 DEF Wider
        <3>2. PICK y \in Ends(k) \cap Within(g, n, m - 1) : ~Terminal(g, y)
            BY <3>1
        <3>3. PICK j \in Followable(f) : Ends(j) = Ends(k)
            BY DEF Below
        <3>4. y \in Nodes(g)
            BY <3>2 DEF Followable
        <3>5. ~Terminal(f, y)
            BY <3>2, <3>4 DEF Below, Terminal
        <3> QED
            BY <1>6, <3>1, <3>2, <3>3, <3>5 DEF Wider
    <2> QED
        BY <2>1, <2>2
<1> QED
    BY <1>3, <1>7, <1>8

\* A walk stays among the nodes, and holds its start.
LEMMA WithinNodes ==
    ASSUME NEW g, NEW n \in Nodes(g), NEW h \in Nat
    PROVE  Within(g, n, h) \subseteq Nodes(g) /\ n \in Within(g, n, h)
<1> DEFINE bad == {m \in Nat : ~(Within(g, n, m) \subseteq Nodes(g) /\ n \in Within(g, n, m))}
<1>1. SUFFICES ASSUME bad # {} PROVE FALSE
    OBVIOUS
<1>2. PICK m \in bad : \A y \in bad : ~(y < m)
    <2>1. bad \in SUBSET Nat
        OBVIOUS
    <2> HIDE DEF bad
    <2> QED
        BY <1>1, <2>1, LeastNatural
<1>3. m \in Nat /\ ~(Within(g, n, m) \subseteq Nodes(g) /\ n \in Within(g, n, m))
    BY <1>2
<1>4. m # 0
    BY <1>3, WithinIs
<1>5. m - 1 \in Nat /\ m - 1 < m /\ (m - 1) + 1 = m
    BY <1>3, <1>4
<1>6. Within(g, n, m - 1) \subseteq Nodes(g) /\ n \in Within(g, n, m - 1)
    BY <1>2, <1>5
<1>7. Within(g, n, m) = Wider(g, Within(g, n, m - 1))
    BY <1>5, WithinIs
<1> QED
    BY <1>3, <1>6, <1>7 DEF Wider, Followable

\* What one more link k lets a walk reach for the first time, if k ends there, is reached
\* over k itself, from a node the walk reached and expanded without it.
LEMMA ReleasedFrom ==
    ASSUME NEW g, NEW f, f.node = g.node, NEW k, f.links \subseteq g.links \cup {k},
           NEW start, NEW H \in Nat, NEW i \in Ends(k),
           i \in Within(f, start, H), i \notin Within(g, start, H)
    PROVE  \E m \in Within(g, start, H) : m # i /\ Ends(k) = {m, i} /\ m \in Nodes(g) /\ ~Terminal(g, m)
<1> DEFINE late == {h \in Nat : i \in Within(f, start, h)}
<1>1. PICK h \in late : \A y \in late : ~(y < h)
    <2>1. late \in SUBSET Nat /\ late # {}
        OBVIOUS
    <2> HIDE DEF late
    <2> QED
        BY <2>1, LeastNatural
<1>2. h \in Nat /\ i \in Within(f, start, h) /\ h <= H
    <2>1. H \in late /\ h \in Nat
        BY <1>1
    <2>2. ~(H < h)
        BY <1>1, <2>1
    <2> QED
        BY <1>1, <2>1, <2>2
<1>3. \A y \in Nat : y < h => i \notin Within(f, start, y)
    BY <1>1
<1> HIDE DEF late
<1>4. Nodes(f) = Nodes(g) /\ \A n : Terminal(f, n) = Terminal(g, n)
    BY DEF Nodes, Terminal
<1>5. \A j \in Followable(f) : j = k \/ j \in Followable(g)
    BY <1>4 DEF Followable
<1>6. \A y \in Nat : y < h => Within(f, start, y) \subseteq Within(g, start, y)
    <2> DEFINE bad == {y \in Nat : y < h /\ ~(Within(f, start, y) \subseteq Within(g, start, y))}
    <2>1. SUFFICES ASSUME bad # {} PROVE FALSE
        OBVIOUS
    <2>2. PICK m \in bad : \A y \in bad : ~(y < m)
        <3>1. bad \in SUBSET Nat
            OBVIOUS
        <3> HIDE DEF bad
        <3> QED
            BY <2>1, <3>1, LeastNatural
    <2>3. m \in Nat /\ m < h /\ ~(Within(f, start, m) \subseteq Within(g, start, m))
        BY <2>2
    <2>4. m # 0
        BY <2>3, WithinIs
    <2>5. m - 1 \in Nat /\ m - 1 < m /\ (m - 1) + 1 = m /\ m - 1 < h
        BY <1>2, <2>3, <2>4
    <2>6. Within(f, start, m - 1) \subseteq Within(g, start, m - 1)
        BY <2>2, <2>5
    <2>7. /\ Within(f, start, m) = Wider(f, Within(f, start, m - 1))
          /\ Within(g, start, m) = Wider(g, Within(g, start, m - 1))
        BY <2>5, WithinIs
    <2>8. PICK x \in Wider(f, Within(f, start, m - 1)) : x \notin Wider(g, Within(g, start, m - 1))
        BY <2>3, <2>7
    <2>9. x \notin Within(f, start, m - 1)
        BY <2>6, <2>8 DEF Wider
    <2>10. PICK j \in Followable(f) :
            /\ x \in Ends(j)
            /\ \E y \in Ends(j) \cap Within(f, start, m - 1) : ~Terminal(f, y)
        BY <2>8, <2>9 DEF Wider
    <2>11. j # k
        <3>1. SUFFICES ASSUME j = k PROVE FALSE
            OBVIOUS
        <3>2. i \in Wider(f, Within(f, start, m - 1))
            BY <2>10, <3>1 DEF Wider
        <3> QED
            BY <1>3, <2>3, <2>7, <3>2
    <2>12. j \in Followable(g)
        BY <1>5, <2>11
    <2> QED
        BY <1>4, <2>6, <2>8, <2>10, <2>12 DEF Wider
<1>7. h # 0
    <2>1. Within(f, start, 0) = {start} /\ Within(g, start, 0) = {start}
        BY WithinIs
    <2>2. Within(g, start, 0) \subseteq Within(g, start, H)
        BY WithinGrows
    <2> QED
        BY <1>2, <2>1, <2>2
<1>8. h - 1 \in Nat /\ h - 1 < h /\ (h - 1) + 1 = h /\ h - 1 <= H
    BY <1>2, <1>7
<1>9. /\ Within(f, start, h) = Wider(f, Within(f, start, h - 1))
      /\ Within(g, start, h) = Wider(g, Within(g, start, h - 1))
    BY <1>8, WithinIs
<1>10. /\ i \notin Within(f, start, h - 1)
       /\ Within(f, start, h - 1) \subseteq Within(g, start, h - 1)
    BY <1>3, <1>6, <1>8
<1>11. PICK j \in Followable(f) :
        /\ i \in Ends(j)
        /\ \E y \in Ends(j) \cap Within(f, start, h - 1) : ~Terminal(f, y)
    BY <1>2, <1>9, <1>10 DEF Wider
<1>12. PICK m \in Ends(j) \cap Within(f, start, h - 1) : ~Terminal(f, m)
    BY <1>11
<1>13. Within(g, start, h) \subseteq Within(g, start, H) /\ Within(g, start, h - 1) \subseteq Within(g, start, H)
    BY <1>2, <1>8, WithinGrows
<1>14. j = k
    <2>1. SUFFICES ASSUME j \in Followable(g) PROVE FALSE
        BY <1>5
    <2>2. i \in Wider(g, Within(g, start, h - 1))
        BY <1>4, <1>10, <1>11, <2>1 DEF Wider
    <2> QED
        BY <1>9, <1>13, <2>2
<1>15. m # i
    BY <1>10, <1>12
<1>16. Ends(k) = {m, i}
    BY <1>11, <1>12, <1>14, <1>15 DEF Ends
<1>17. m \in Nodes(g)
    BY <1>4, <1>12 DEF Followable
<1> QED
    BY <1>4, <1>10, <1>12, <1>13, <1>15, <1>16, <1>17
-----------------------------------------------------------------------------
(* What a score reads of a load.                                           *)

\* The kind of a node follows from what it is, whichever load wrote it.
KindIs(n) == IF n \in Id THEN "Entity" ELSE IF n \in Record THEN "Record" ELSE "Unresolved"
TypedRows(keys, held) == {RowOf(key, held) : key \in {one \in keys : one[1] \in TYPED_LINKS}}

\* The accepted graph of the units R under a rule, and the same with everything held in it.
AcceptedNodes(R, rule) == KnownRecords(R) \cup Accepted(R, rule) \cup Gaps(LinkKeys(R, rule))
IsAccepted(c, R, rule) ==
    /\ Nodes(c) = AcceptedNodes(R, rule)
    /\ \A n \in Nodes(c) : c.node[n].kind = KindIs(n) /\ ~c.node[n].held
    /\ c.links = TypedRows(LinkKeys(R, rule), FALSE)
IsWhole(s, R, rule) ==
    /\ Nodes(s) = AcceptedNodes(R, rule) \cup HeldIds(R, rule) \cup HeldGaps(R, rule)
    /\ \A n \in Nodes(s) : /\ s.node[n].kind = KindIs(n)
                           /\ s.node[n].held = (n \in HeldIds(R, rule) \cup HeldGaps(R, rule))
    /\ s.links = TypedRows(LinkKeys(R, rule), FALSE) \cup TypedRows(HeldKeys(R, rule), TRUE)

\* Entities are ids, and neither records nor gaps are.
LEMMA NodesApart ==
    ASSUME Typed, NEW R \in SUBSET Unit, NEW rule \in Rule
    PROVE  /\ KnownRecords(R) \cap Id = {} /\ KnownRecords(R) \subseteq Record
           /\ Gaps(LinkKeys(R, rule)) \cap (Id \cup Record) = {}
           /\ HeldGaps(R, rule) \cap (Id \cup Record) = {}
           /\ AcceptedNodes(R, rule) \cap (HeldIds(R, rule) \cup HeldGaps(R, rule)) = {}
           /\ AcceptedNodes(R, rule) \cap Id = Accepted(R, rule)
<1>1. KnownRecords(R) \subseteq Record
    BY CorpusAssumption DEF KnownRecords
<1>2. Gaps(LinkKeys(R, rule)) \subseteq Record \X Mention /\ HeldGaps(R, rule) \subseteq Record \X Mention
    BY DEF Gaps, HeldGaps
<1>3. HeldGaps(R, rule) \cap Gaps(LinkKeys(R, rule)) = {}
    BY DEF HeldGaps
<1>4. /\ Accepted(R, rule) \subseteq Id /\ HeldIds(R, rule) \subseteq Id
      /\ HeldIds(R, rule) \cap Accepted(R, rule) = {}
    BY AcceptedKnown DEF HeldIds
<1>5. Id \cap Record = {} /\ \A gap \in Record \X Mention : gap \notin Id \cup Record
    BY CorpusAssumption
<1> QED
    BY <1>1, <1>2, <1>3, <1>4, <1>5 DEF AcceptedNodes

\* The parts of what a load leaves.
LEMMA LoadParts ==
    ASSUME Typed, NEW R \in SUBSET Unit, NEW rule \in Rule, NEW with_held \in BOOLEAN
    PROVE  LET g == LoadedGraph(R, rule, with_held)
               ids == IF with_held THEN HeldIds(R, rule) ELSE {}
               keys == IF with_held THEN HeldKeys(R, rule) ELSE {}
               gaps == IF with_held THEN HeldGaps(R, rule) ELSE {}
           IN  /\ Nodes(g) = AcceptedNodes(R, rule) \cup ids \cup gaps
               /\ \A n \in Nodes(g) : g.node[n].kind = KindIs(n) /\ g.node[n].held = (n \in ids \cup gaps)
               /\ g.links = {RowOf(key, FALSE) : key \in LinkKeys(R, rule)} \cup {RowOf(key, TRUE) : key \in keys}
<1> DEFINE g == LoadedGraph(R, rule, with_held)
           ids == IF with_held THEN HeldIds(R, rule) ELSE {}
           keys == IF with_held THEN HeldKeys(R, rule) ELSE {}
           gaps == IF with_held THEN HeldGaps(R, rule) ELSE {}
           entities == Accepted(R, rule) \cup ids
           nodes == KnownRecords(R) \cup entities \cup Gaps(LinkKeys(R, rule)) \cup gaps
           struck(n) == n \in entities /\ First(Writer(R, rule, n)).entity[n].struck
           node(n) == [kind |-> IF n \in entities THEN "Entity"
                                ELSE IF n \in Record THEN "Record" ELSE "Unresolved",
                       held |-> n \in ids \cup gaps, struck |-> struck(n)]
           links == {RowOf(key, FALSE) : key \in LinkKeys(R, rule)} \cup {RowOf(key, TRUE) : key \in keys}
<1>1. g = [node |-> [n \in nodes |-> node(n)], links |-> links]
    BY DEF LoadedGraph, RowOf
<1>2. /\ entities \subseteq Id /\ nodes = AcceptedNodes(R, rule) \cup ids \cup gaps
      /\ \A n \in nodes : n \in entities <=> n \in Id
    <2>1. entities \subseteq Id
        BY AcceptedKnown DEF HeldIds
    <2>2. nodes = AcceptedNodes(R, rule) \cup ids \cup gaps
        BY DEF AcceptedNodes
    <2>3. gaps \cap Id = {} /\ Gaps(LinkKeys(R, rule)) \cap Id = {} /\ KnownRecords(R) \cap Id = {}
        BY NodesApart
    <2> HIDE DEF ids, gaps
    <2> QED
        BY <2>1, <2>2, <2>3
<1>3. /\ DOMAIN g.node = nodes /\ g.links = links
      /\ \A n \in nodes : g.node[n].kind = (IF n \in entities THEN "Entity"
                                            ELSE IF n \in Record THEN "Record" ELSE "Unresolved")
      /\ \A n \in nodes : g.node[n].held = (n \in ids \cup gaps)
    <2> HIDE DEF g, nodes, links, struck, entities, ids, gaps
    <2> QED
        BY <1>1
<1>4. \A n \in nodes : g.node[n].kind = KindIs(n)
    <2> HIDE DEF g, nodes, entities
    <2> QED
        BY <1>2, <1>3 DEF KindIs
<1>5. Nodes(g) = nodes
    BY <1>3 DEF Nodes
<1> HIDE DEF g, nodes, entities, ids, gaps, keys
<1>6. /\ Nodes(g) = AcceptedNodes(R, rule) \cup ids \cup gaps
      /\ \A n \in Nodes(g) : g.node[n].kind = KindIs(n) /\ g.node[n].held = (n \in ids \cup gaps)
      /\ g.links = links
    BY <1>2, <1>3, <1>4, <1>5
<1> QED
    BY <1>6 DEF g, ids, gaps, keys

\* Rows keep their key's type and ends.
LEMMA RowIs ==
    ASSUME NEW key, NEW held
    PROVE  /\ RowOf(key, held).type = key[1] /\ RowOf(key, held).held = held
           /\ Ends(RowOf(key, held)) = {key[2], key[3]}
BY DEF RowOf, Ends

\* Of its links a slice keeps the typed ones.
LEMMA TypedIs ==
    ASSUME NEW keys, NEW held
    PROVE  {k \in {RowOf(key, held) : key \in keys} : k.type \in TYPED_LINKS} = TypedRows(keys, held)
<1>1. \A key \in keys : RowOf(key, held).type = key[1]
    BY RowIs
<1> QED
    BY <1>1 DEF TypedRows

\* Read with its held items, a load with the held view is the whole graph.
LEMMA WholeIs ==
    ASSUME Typed, NEW R \in SUBSET Unit, NEW rule \in Rule
    PROVE  IsWhole(GraphSlice(LoadedGraph(R, rule, TRUE), TRUE), R, rule)
<1> DEFINE g == LoadedGraph(R, rule, TRUE)
           s == GraphSlice(g, TRUE)
<1>a. LET ids == IF TRUE THEN HeldIds(R, rule) ELSE {}
          keys == IF TRUE THEN HeldKeys(R, rule) ELSE {}
          gaps == IF TRUE THEN HeldGaps(R, rule) ELSE {}
      IN  /\ Nodes(g) = AcceptedNodes(R, rule) \cup ids \cup gaps
          /\ \A n \in Nodes(g) : g.node[n].kind = KindIs(n) /\ g.node[n].held = (n \in ids \cup gaps)
          /\ g.links = {RowOf(key, FALSE) : key \in LinkKeys(R, rule)} \cup {RowOf(key, TRUE) : key \in keys}
    BY LoadParts
<1>1. /\ Nodes(g) = AcceptedNodes(R, rule) \cup HeldIds(R, rule) \cup HeldGaps(R, rule)
      /\ \A n \in Nodes(g) : /\ g.node[n].kind = KindIs(n)
                             /\ g.node[n].held = (n \in HeldIds(R, rule) \cup HeldGaps(R, rule))
      /\ g.links = {RowOf(key, FALSE) : key \in LinkKeys(R, rule)}
                   \cup {RowOf(key, TRUE) : key \in HeldKeys(R, rule)}
    <2> HIDE DEF g
    <2> QED
        BY <1>a
<1>2. IsGraph(g)
    BY LoadIsGraph
<1> HIDE DEF g
<1>3. s.node = g.node /\ s.links = {k \in g.links : k.type \in TYPED_LINKS}
    BY <1>2 DEF GraphSlice, IsGraph
<1>4. Nodes(s) = Nodes(g)
    BY <1>3 DEF Nodes
<1>5. s.links = TypedRows(LinkKeys(R, rule), FALSE) \cup TypedRows(HeldKeys(R, rule), TRUE)
    <2>1. s.links = {k \in {RowOf(key, FALSE) : key \in LinkKeys(R, rule)} : k.type \in TYPED_LINKS}
                    \cup {k \in {RowOf(key, TRUE) : key \in HeldKeys(R, rule)} : k.type \in TYPED_LINKS}
        BY <1>1, <1>3
    <2> QED
        BY <2>1, TypedIs
<1> HIDE DEF s
<1>6. IsWhole(s, R, rule)
    BY <1>1, <1>3, <1>4, <1>5 DEF IsWhole
<1> QED
    BY <1>6 DEF s, g

\* A load without the held view leaves the accepted graph, before its held items are dropped.
LEMMA PlainIs ==
    ASSUME Typed, NEW R \in SUBSET Unit, NEW rule \in Rule
    PROVE  IsAccepted(GraphSlice(LoadedGraph(R, rule, FALSE), TRUE), R, rule)
<1> DEFINE g == LoadedGraph(R, rule, FALSE)
           s == GraphSlice(g, TRUE)
<1>a. LET ids == IF FALSE THEN HeldIds(R, rule) ELSE {}
          keys == IF FALSE THEN HeldKeys(R, rule) ELSE {}
          gaps == IF FALSE THEN HeldGaps(R, rule) ELSE {}
      IN  /\ Nodes(g) = AcceptedNodes(R, rule) \cup ids \cup gaps
          /\ \A n \in Nodes(g) : g.node[n].kind = KindIs(n) /\ g.node[n].held = (n \in ids \cup gaps)
          /\ g.links = {RowOf(key, FALSE) : key \in LinkKeys(R, rule)} \cup {RowOf(key, TRUE) : key \in keys}
    BY LoadParts
<1>1. /\ Nodes(g) = AcceptedNodes(R, rule)
      /\ \A n \in Nodes(g) : g.node[n].kind = KindIs(n) /\ ~g.node[n].held
      /\ g.links = {RowOf(key, FALSE) : key \in LinkKeys(R, rule)}
    <2> HIDE DEF g
    <2> QED
        BY <1>a
<1>2. IsGraph(g)
    BY LoadIsGraph
<1> HIDE DEF g
<1>3. s.node = g.node /\ s.links = {k \in g.links : k.type \in TYPED_LINKS}
    BY <1>2 DEF GraphSlice, IsGraph
<1>4. Nodes(s) = Nodes(g)
    BY <1>3 DEF Nodes
<1>5. s.links = TypedRows(LinkKeys(R, rule), FALSE)
    BY <1>1, <1>3, TypedIs
<1> HIDE DEF s
<1>6. IsAccepted(s, R, rule)
    BY <1>1, <1>3, <1>4, <1>5 DEF IsAccepted
<1> QED
    BY <1>6 DEF s, g

\* Dropping what is held leaves the accepted graph, of the whole graph and of itself.
LEMMA DropLeaves ==
    ASSUME Typed, NEW R \in SUBSET Unit, NEW rule \in Rule, NEW s,
           IsWhole(s, R, rule) \/ IsAccepted(s, R, rule)
    PROVE  IsAccepted(DropHeld(s), R, rule)
<1> DEFINE c == DropHeld(s)
           dropped == {n \in Nodes(s) : s.node[n].held}
           kept == Nodes(s) \ dropped
<1>1. /\ DOMAIN c.node = kept
      /\ \A n \in kept : c.node[n] = s.node[n]
      /\ c.links = {k \in s.links : ~k.held /\ Ends(k) \cap dropped = {}}
    BY DEF DropHeld
<1>2. kept = AcceptedNodes(R, rule)
    BY NodesApart DEF IsWhole, IsAccepted
<1>3. \A k \in TypedRows(LinkKeys(R, rule), FALSE) : ~k.held /\ Ends(k) \cap dropped = {}
    <2> TAKE k \in TypedRows(LinkKeys(R, rule), FALSE)
    <2>1. PICK key \in LinkKeys(R, rule) : k = RowOf(key, FALSE)
        BY DEF TypedRows
    <2>2. key[2] \in AcceptedNodes(R, rule) /\ key[3] \in AcceptedNodes(R, rule)
        BY LinkEnds DEF KeyEnds, AcceptedNodes
    <2>3. Ends(k) = {key[2], key[3]} /\ ~k.held
        BY <2>1, RowIs
    <2>4. dropped \cap AcceptedNodes(R, rule) = {}
        BY <1>2
    <2> HIDE DEF dropped
    <2> QED
        BY <2>2, <2>3, <2>4
<1>4. \A k \in TypedRows(HeldKeys(R, rule), TRUE) : k.held
    BY RowIs DEF TypedRows
<1>5. c.links = TypedRows(LinkKeys(R, rule), FALSE)
    <2> HIDE DEF c, dropped
    <2>1. \/ s.links = TypedRows(LinkKeys(R, rule), FALSE)
          \/ s.links = TypedRows(LinkKeys(R, rule), FALSE) \cup TypedRows(HeldKeys(R, rule), TRUE)
        BY DEF IsWhole, IsAccepted
    <2> QED
        BY <1>1, <1>3, <1>4, <2>1
<1>6. \A n \in kept : c.node[n].kind = KindIs(n) /\ ~c.node[n].held
    <2>1. \A n \in kept : n \in Nodes(s) /\ ~s.node[n].held /\ s.node[n].kind = KindIs(n)
        BY DEF IsWhole, IsAccepted
    <2> HIDE DEF c, kept
    <2> QED
        BY <1>1, <2>1
<1>7. Nodes(c) = kept
    BY <1>1 DEF Nodes
<1> HIDE DEF c, kept
<1> QED
    BY <1>2, <1>5, <1>6, <1>7 DEF IsAccepted, c

\* Without its held items any load reads as the accepted graph.
LEMMA AcceptedIs ==
    ASSUME Typed, NEW R \in SUBSET Unit, NEW rule \in Rule, NEW held \in BOOLEAN
    PROVE  IsAccepted(GraphSlice(LoadedGraph(R, rule, held), FALSE), R, rule)
<1> DEFINE g == LoadedGraph(R, rule, held)
<1>1. GraphSlice(g, FALSE) = DropHeld(GraphSlice(g, TRUE))
    BY DEF GraphSlice
<1>2. IsWhole(GraphSlice(g, TRUE), R, rule) \/ IsAccepted(GraphSlice(g, TRUE), R, rule)
    BY WholeIs, PlainIs
<1> HIDE DEF g
<1>3. IsAccepted(DropHeld(GraphSlice(g, TRUE)), R, rule)
    BY <1>2, DropLeaves
<1> QED
    BY <1>1, <1>3 DEF g

\* A graph is below another that has its nodes and, for each of its links, one of the same
\* type between the same ends.
LEMMA IsBelow ==
    ASSUME NEW c, NEW d, Nodes(c) \subseteq Nodes(d),
           \A n \in Nodes(c) : c.node[n].kind = KindIs(n),
           \A n \in Nodes(d) : d.node[n].kind = KindIs(n),
           \A k \in c.links : \E j \in d.links : j.type = k.type /\ Ends(j) = Ends(k)
    PROVE  Below(c, d)
<1>1. \A k \in Followable(c) : \E j \in Followable(d) : Ends(j) = Ends(k)
    <2> TAKE k \in Followable(c)
    <2>1. k \in c.links /\ k.type \in TYPED_LINKS /\ Ends(k) \subseteq Nodes(c)
        BY DEF Followable
    <2>2. PICK j \in d.links : j.type = k.type /\ Ends(j) = Ends(k)
        BY <2>1
    <2>3. j \in Followable(d)
        BY <2>1, <2>2 DEF Followable
    <2> QED
        BY <2>2, <2>3
<1>2. \A n \in Nodes(c) : d.node[n].kind = c.node[n].kind
    OBVIOUS
<1> QED
    BY <1>1, <1>2 DEF Below

\* What a unit links under the first rule it links under the second.
LEMMA KeysGrow ==
    ASSUME Typed, NEW R \in SUBSET Unit
    PROVE  LinkKeys(R, "before") \subseteq LinkKeys(R, "after")
BY ResolvedStays DEF LinkKeys

\* Every written link has one key over what is known, whichever rule accepts it.
LEMMA KeysTogether ==
    ASSUME Typed, NEW R \in SUBSET Unit, NEW rule \in Rule
    PROVE  LinkKeys(R, rule) \cup HeldKeys(R, rule) = {Key(R, Known(R), p) : p \in Written(R)}
<1>1. LinkKeys(R, rule) = {Key(R, Known(R), p) : p \in Resolved(R, rule)}
    BY ResolvedKey DEF LinkKeys
<1>2. Written(R) = Resolved(R, rule) \cup HeldPairs(R, rule)
    BY DEF Resolved, HeldPairs, HeldAcross, Routed
<1> QED
    BY <1>1, <1>2 DEF HeldKeys

\* One accepted graph: two that are it are below each other, and the first rule's is below
\* the second's.
LEMMA AcceptedBelow ==
    ASSUME Typed, NEW R \in SUBSET Unit, NEW rule \in Rule, NEW other \in Rule,
           rule = other \/ (rule = "before" /\ other = "after"),
           NEW c, NEW d, IsAccepted(c, R, rule), IsAccepted(d, R, other)
    PROVE  Below(c, d)
<1>1. Accepted(R, rule) \subseteq Accepted(R, other) /\ LinkKeys(R, rule) \subseteq LinkKeys(R, other)
    BY ReleaseGrows, KeysGrow
<1>2. Gaps(LinkKeys(R, rule)) \subseteq Gaps(LinkKeys(R, other))
    BY <1>1 DEF Gaps, KeyEnds
<1>3. Nodes(c) \subseteq Nodes(d)
    BY <1>1, <1>2 DEF IsAccepted, AcceptedNodes
<1>4. \A k \in c.links : \E j \in d.links : j.type = k.type /\ Ends(j) = Ends(k)
    <2>1. c.links = TypedRows(LinkKeys(R, rule), FALSE) /\ d.links = TypedRows(LinkKeys(R, other), FALSE)
        BY DEF IsAccepted
    <2>2. ASSUME NEW k \in TypedRows(LinkKeys(R, rule), FALSE)
          PROVE  \E j \in TypedRows(LinkKeys(R, other), FALSE) : j.type = k.type /\ Ends(j) = Ends(k)
        <3>1. PICK key \in LinkKeys(R, rule) : key[1] \in TYPED_LINKS /\ k = RowOf(key, FALSE)
            BY DEF TypedRows
        <3>2. k \in TypedRows(LinkKeys(R, other), FALSE)
            BY <1>1, <3>1 DEF TypedRows
        <3> QED
            BY <3>2
    <2> QED
        BY <2>1, <2>2
<1> QED
    BY <1>3, <1>4, IsBelow DEF IsAccepted

\* The accepted graph is below the whole one.
LEMMA AcceptedInWhole ==
    ASSUME Typed, NEW R \in SUBSET Unit, NEW rule \in Rule,
           NEW c, NEW s, IsAccepted(c, R, rule), IsWhole(s, R, rule)
    PROVE  Below(c, s)
<1>1. Nodes(c) \subseteq Nodes(s)
    BY DEF IsAccepted, IsWhole
<1>2. \A k \in c.links : \E j \in s.links : j.type = k.type /\ Ends(j) = Ends(k)
    BY DEF IsAccepted, IsWhole
<1>3. /\ \A n \in Nodes(c) : c.node[n].kind = KindIs(n)
      /\ \A n \in Nodes(s) : s.node[n].kind = KindIs(n)
    BY DEF IsAccepted, IsWhole
<1> QED
    BY <1>1, <1>2, <1>3, IsBelow

\* The whole graph is one under either rule, but for what is held in it.
LEMMA WholeBelow ==
    ASSUME Typed, NEW R \in SUBSET Unit, NEW rule \in Rule, NEW other \in Rule,
           NEW s, NEW t, IsWhole(s, R, rule), IsWhole(t, R, other)
    PROVE  Below(s, t)
<1> DEFINE all == {Key(R, Known(R), p) : p \in Written(R)}
<1>1. ASSUME NEW one \in Rule
      PROVE  /\ LinkKeys(R, one) \cup HeldKeys(R, one) = all
             /\ AcceptedNodes(R, one) \cup HeldIds(R, one) \cup HeldGaps(R, one)
                  = KnownRecords(R) \cup Known(R) \cup Gaps(all)
    <2>1. LinkKeys(R, one) \cup HeldKeys(R, one) = all
        BY KeysTogether
    <2>2. Accepted(R, one) \cup HeldIds(R, one) = Known(R)
        BY AcceptedKnown DEF HeldIds
    <2> HIDE DEF all
    <2>3. Gaps(LinkKeys(R, one)) \cup HeldGaps(R, one) = Gaps(all)
        BY <2>1 DEF HeldGaps, Gaps, KeyEnds
    <2> QED
        BY <2>1, <2>2, <2>3 DEF AcceptedNodes
<1> HIDE DEF all
<1>2. Nodes(s) = Nodes(t)
    BY <1>1 DEF IsWhole
<1>3. LinkKeys(R, rule) \subseteq LinkKeys(R, other) \cup HeldKeys(R, other)
      /\ HeldKeys(R, rule) \subseteq LinkKeys(R, other) \cup HeldKeys(R, other)
    BY <1>1
<1>4. ASSUME NEW k \in s.links
      PROVE  \E j \in t.links : j.type = k.type /\ Ends(j) = Ends(k)
    <2>1. PICK key \in LinkKeys(R, rule) \cup HeldKeys(R, rule), held \in BOOLEAN :
            key[1] \in TYPED_LINKS /\ k = RowOf(key, held)
        BY DEF IsWhole, TypedRows
    <2>2. PICK other_held \in BOOLEAN : RowOf(key, other_held) \in t.links
        BY <1>3, <2>1 DEF IsWhole, TypedRows
    <2> QED
        BY <2>1, <2>2, RowIs
<1>5. /\ \A n \in Nodes(s) : s.node[n].kind = KindIs(n)
      /\ \A n \in Nodes(t) : t.node[n].kind = KindIs(n)
    BY DEF IsWhole
<1> QED
    BY <1>2, <1>4, <1>5, IsBelow

\* A walk over a graph below another visits no more.
LEMMA BelowVisits ==
    ASSUME NEW c, NEW d, Below(c, d), NEW start
    PROVE  Visited(c, start) \subseteq Visited(d, start)
BY BelowReaches, EvaluationAssumption DEF Visited, Below

\* A walk visits nodes, its start among them.
LEMMA VisitsNodes ==
    ASSUME NEW g, NEW start
    PROVE  /\ Visited(g, start) \subseteq Nodes(g)
           /\ start \in Nodes(g) <=> start \in Visited(g, start)
BY WithinNodes, EvaluationAssumption DEF Visited

\* What a score works on.
Loads == [units : SUBSET Unit, rule : Rule, held : BOOLEAN]

\* The slices a score works on: the clean one is what is accepted, and the shown one is
\* that or, with held items, all that was loaded.
LEMMA ViewIs ==
    ASSUME Typed, NEW l \in Loads, NEW with_held \in BOOLEAN, with_held => l.held
    PROVE  LET v == View(l, with_held) IN
           /\ IsAccepted(v.clean, l.units, l.rule)
           /\ with_held => IsWhole(v.shown, l.units, l.rule)
           /\ ~with_held => IsAccepted(v.shown, l.units, l.rule)
           /\ v.load = l /\ v.withHeld = with_held /\ v.held = HeldLinks(l.rule)
<1> DEFINE shown == Shown(l, with_held)
<1>1. l.units \in SUBSET Unit /\ l.rule \in Rule /\ l.held \in BOOLEAN
    BY DEF Loads
<1>2. with_held => IsWhole(shown, l.units, l.rule)
    BY <1>1, WholeIs DEF Shown
<1>3. ~with_held => IsAccepted(shown, l.units, l.rule)
    BY <1>1, AcceptedIs DEF Shown
<1> HIDE DEF shown
<1>4. IsAccepted(DropHeld(shown), l.units, l.rule)
    BY <1>1, <1>2, <1>3, DropLeaves
<1>5. /\ View(l, with_held).shown = shown /\ View(l, with_held).clean = DropHeld(shown)
      /\ View(l, with_held).load = l /\ View(l, with_held).withHeld = with_held
      /\ View(l, with_held).held = HeldLinks(l.rule)
    BY DEF View, shown
<1> QED
    BY <1>2, <1>3, <1>4, <1>5

\* The entities on a line, in a graph whose kinds are right.
LEMMA AtLineIs ==
    ASSUME NEW v, NEW g, \A n \in Nodes(g) : g.node[n].kind = KindIs(n), NEW line
    PROVE  AtLine(v, g, line)
           = {n \in Nodes(g) \cap Id : FileLine(v.load.units, v.load.rule, n) = line}
BY DEF AtLine, Entities, KindIs
-----------------------------------------------------------------------------
(* The four way comparison.                                                *)

\* A walk from the start meets an entity on the line.
HitOn(g, rule, start, line) ==
    \E n \in Visited(g, start) \cap Id : FileLine(complete, rule, n) = line

RuleOf(config) == IF config.narrow_hold THEN "after" ELSE "before"

\* The graphs a configuration is scored on.
LEMMA ConfigIs ==
    ASSUME Typed, NEW config \in CONFIGS
    PROVE  LET v == ScoreConfig(config) IN
           /\ config.with_held \in BOOLEAN /\ config.narrow_hold \in BOOLEAN /\ RuleOf(config) \in Rule
           /\ IsAccepted(v.clean, complete, RuleOf(config))
           /\ config.with_held => IsWhole(v.shown, complete, RuleOf(config))
           /\ ~config.with_held => IsAccepted(v.shown, complete, RuleOf(config))
           /\ v.load.units = complete /\ v.load.rule = RuleOf(config)
           /\ v.withHeld = config.with_held
<1> DEFINE l == [units |-> complete, rule |-> RuleOf(config), held |-> config.with_held]
<1>1. config.with_held \in BOOLEAN /\ config.narrow_hold \in BOOLEAN
    <2>1. \/ config = Config(FALSE, FALSE) \/ config = Config(TRUE, FALSE)
          \/ config = Config(FALSE, TRUE) \/ config = Config(TRUE, TRUE)
        BY DEF CONFIGS, BASELINE, WITH_HELD, NARROW_HOLD, BOTH
    <2>2. \A a, b \in BOOLEAN : Config(a, b).with_held \in BOOLEAN /\ Config(a, b).narrow_hold \in BOOLEAN
        BY DEF Config
    <2> QED
        BY <2>1, <2>2, Zenon
<1>2. RuleOf(config) \in Rule
    BY DEF RuleOf, Rule
<1>3. l \in Loads
    BY <1>1, <1>2 DEF Loads, Typed
<1>4. ScoreConfig(config) = View(l, config.with_held)
    BY DEF ScoreConfig, RuleOf
<1>5. l.units = complete /\ l.rule = RuleOf(config) /\ l.held = config.with_held
    OBVIOUS
<1> HIDE DEF l
<1> DEFINE v == View(l, config.with_held)
<1>6. /\ IsAccepted(v.clean, l.units, l.rule)
      /\ config.with_held => IsWhole(v.shown, l.units, l.rule)
      /\ ~config.with_held => IsAccepted(v.shown, l.units, l.rule)
      /\ v.load = l /\ v.withHeld = config.with_held
    BY <1>1, <1>3, <1>5, ViewIs
<1> HIDE DEF v
<1>7. ScoreConfig(config) = v
    BY <1>4 DEF v
<1> QED
    BY <1>1, <1>2, <1>5, <1>6, <1>7

\* A cell says whether the accepted graph, or else the held one, is walked to the line.
LEMMA CellIs ==
    ASSUME Typed, NEW config \in CONFIGS, NEW start, NEW item
    PROVE  LET v == ScoreConfig(config)
               line == Quoted(item).line
           IN
           CellOf(v, start, item)
             = IF HitOn(v.clean, RuleOf(config), start, line) THEN ACCEPTED
               ELSE IF config.with_held /\ HitOn(v.shown, RuleOf(config), start, line)
                    THEN HELD_ONLY ELSE NOT_REACHED
<1> DEFINE line == Quoted(item).line
<1> HIDE DEF line
<1>1. PICK v : v = ScoreConfig(config)
    OBVIOUS
<1>2. /\ IsAccepted(v.clean, complete, RuleOf(config)) /\ config.with_held \in BOOLEAN
      /\ config.with_held => IsWhole(v.shown, complete, RuleOf(config))
      /\ ~config.with_held => IsAccepted(v.shown, complete, RuleOf(config))
      /\ v.load.units = complete /\ v.load.rule = RuleOf(config) /\ v.withHeld = config.with_held
    BY <1>1, ConfigIs
<1>3. /\ \A n \in Nodes(v.shown) : v.shown.node[n].kind = KindIs(n)
      /\ Nodes(v.clean) \subseteq Nodes(v.shown)
    BY <1>2 DEF IsAccepted, IsWhole
<1> DEFINE here == AtLine(v, v.shown, line)
<1>4. here = {n \in Nodes(v.shown) \cap Id : FileLine(complete, RuleOf(config), n) = line}
    BY <1>2, <1>3, AtLineIs
<1> HIDE DEF here
<1>5. here \cap CleanWalk(v, start) # {} <=> HitOn(v.clean, RuleOf(config), start, line)
    <2>1. Visited(v.clean, start) \subseteq Nodes(v.clean)
        BY VisitsNodes
    <2> QED
        BY <1>3, <1>4, <2>1 DEF CleanWalk, HitOn
<1>6. here \cap Visited(v.shown, start) # {} <=> HitOn(v.shown, RuleOf(config), start, line)
    <2>1. Visited(v.shown, start) \subseteq Nodes(v.shown)
        BY VisitsNodes
    <2> QED
        BY <1>4, <2>1 DEF HitOn
<1>7. CellOf(v, start, item) = IF here \cap CleanWalk(v, start) # {} THEN ACCEPTED
        ELSE IF v.withHeld /\ here \cap Visited(v.shown, start) # {} THEN HELD_ONLY ELSE NOT_REACHED
    BY DEF CellOf, here, line
<1>8. CellOf(v, start, item)
        = IF HitOn(v.clean, RuleOf(config), start, line) THEN ACCEPTED
          ELSE IF config.with_held /\ HitOn(v.shown, RuleOf(config), start, line)
               THEN HELD_ONLY ELSE NOT_REACHED
    BY <1>2, <1>5, <1>6, <1>7
<1> QED
    BY <1>1, <1>8 DEF line

\* No value is a node.
LEMMA NoneIsNoNode ==
    ASSUME Typed, NEW R \in SUBSET Unit, NEW rule \in Rule, NEW g, IsAccepted(g, R, rule)
    PROVE  None \notin Nodes(g)
<1>1. None \notin Id \cup Record /\ None \notin Record \X Mention
    BY CorpusAssumption, NothingAssumption
<1>2. KnownRecords(R) \subseteq Record /\ Accepted(R, rule) \subseteq Id
    BY NodesApart, AcceptedKnown
<1>3. Gaps(LinkKeys(R, rule)) \subseteq Record \X Mention
    BY DEF Gaps
<1> QED
    BY <1>1, <1>2, <1>3 DEF IsAccepted, AcceptedNodes

\* The lowest of some ids is one of them, and none is lower.
LEMMA LowestIn ==
    ASSUME NEW ids, ids \subseteq Id, ids # {}
    PROVE  Lowest(ids) \in ids /\ \A j \in ids : IdRank[Lowest(ids)] <= IdRank[j]
<1> DEFINE ranks == {IdRank[i] : i \in ids}
<1>1. IdRank \in [Id -> Nat]
    BY EvaluationAssumption
<1>2. PICK r \in ranks : \A q \in ranks : ~(q < r)
    <2>1. ranks \in SUBSET Nat /\ ranks # {}
        BY <1>1
    <2> HIDE DEF ranks
    <2> QED
        BY <2>1, LeastNatural
<1>3. PICK i \in ids : IdRank[i] = r
    BY <1>2
<1>4. \A j \in ids : IdRank[j] \in Nat /\ IdRank[i] \in Nat /\ ~(IdRank[j] < IdRank[i])
    BY <1>1, <1>2, <1>3
<1>5. \A j \in ids : IdRank[i] <= IdRank[j]
    BY <1>4
<1> QED
    BY <1>3, <1>5 DEF Lowest

\* Among more ids the lowest is the one it was, or is one of those that came.
LEMMA LowestOfMore ==
    ASSUME NEW ids, NEW more, ids \subseteq more, more \subseteq Id, ids # {}
    PROVE  Lowest(more) = Lowest(ids) \/ Lowest(more) \in more \ ids
<1>1. Lowest(ids) \in ids /\ \A j \in ids : IdRank[Lowest(ids)] <= IdRank[j]
    BY LowestIn
<1>2. Lowest(more) \in more /\ \A j \in more : IdRank[Lowest(more)] <= IdRank[j]
    BY LowestIn
<1>3. SUFFICES ASSUME Lowest(more) \in ids PROVE Lowest(more) = Lowest(ids)
    BY <1>2
<1>4. PICK i, j \in Id : i = Lowest(ids) /\ j = Lowest(more)
    BY <1>1, <1>2
<1>5. IdRank[i] <= IdRank[j] /\ IdRank[j] <= IdRank[i] /\ IdRank[i] \in Nat /\ IdRank[j] \in Nat
    BY <1>1, <1>2, <1>3, <1>4, EvaluationAssumption
<1>6. IdRank[i] = IdRank[j]
    BY <1>5
<1> QED
    BY <1>4, <1>6, EvaluationAssumption

\* The four configurations differ from each other.
LEMMA ConfigsAre ==
    /\ CONFIGS = {BASELINE, WITH_HELD, NARROW_HOLD, BOTH}
    /\ BASELINE.with_held = FALSE /\ RuleOf(BASELINE) = "before"
    /\ WITH_HELD.with_held = TRUE /\ RuleOf(WITH_HELD) = "before"
    /\ NARROW_HOLD.with_held = FALSE /\ RuleOf(NARROW_HOLD) = "after"
    /\ BOTH.with_held = TRUE /\ RuleOf(BOTH) = "after"
BY DEF CONFIGS, BASELINE, WITH_HELD, NARROW_HOLD, BOTH, Config, RuleOf

\* Where a configuration starts a question that names a line: at the lowest accepted item
\* there, or with the held view at the lowest item there when none is accepted.
LEMMA StartIs ==
    ASSUME Typed, NEW config \in CONFIGS, NEW line
    PROVE  LET here == {i \in Known(complete) : FileLine(complete, RuleOf(config), i) = line}
               accepted == here \cap Accepted(complete, RuleOf(config))
           IN  StartAt(ScoreConfig(config), line)
                 = IF accepted # {} THEN Lowest(accepted)
                   ELSE IF config.with_held /\ here # {} THEN Lowest(here) ELSE None
<1> DEFINE rule == RuleOf(config)
           here == {i \in Known(complete) : FileLine(complete, rule, i) = line}
           accepted == here \cap Accepted(complete, rule)
<1>1. PICK v : v = ScoreConfig(config)
    OBVIOUS
<1>2. /\ config.with_held \in BOOLEAN /\ rule \in Rule
      /\ config.with_held => IsWhole(v.shown, complete, rule)
      /\ ~config.with_held => IsAccepted(v.shown, complete, rule)
      /\ v.load.units = complete /\ v.load.rule = rule
    BY <1>1, ConfigIs
<1>3. complete \in SUBSET Unit
    BY DEF Typed
<1> HIDE DEF rule
<1>4. /\ AcceptedNodes(complete, rule) \cap Id = Accepted(complete, rule)
      /\ HeldGaps(complete, rule) \cap Id = {}
      /\ Accepted(complete, rule) \subseteq Known(complete) /\ Known(complete) \subseteq Id
      /\ HeldIds(complete, rule) = Known(complete) \ Accepted(complete, rule)
    BY <1>2, <1>3, NodesApart, AcceptedKnown DEF HeldIds
<1> DEFINE at == AtLine(v, v.shown, line)
           free == {n \in at : ~v.shown.node[n].held}
<1>5. at = {n \in Nodes(v.shown) \cap Id : FileLine(complete, rule, n) = line}
    <2>1. \A n \in Nodes(v.shown) : v.shown.node[n].kind = KindIs(n)
        BY <1>2 DEF IsAccepted, IsWhole
    <2> QED
        BY <1>2, <2>1, AtLineIs
<1>6. StartAt(v, line) = IF at = {} THEN None ELSE Lowest(IF free # {} THEN free ELSE at)
    BY DEF StartAt
<1> HIDE DEF at
<1>7. CASE config.with_held
    <2>1. Nodes(v.shown) \cap Id = Known(complete)
        BY <1>2, <1>4, <1>7 DEF IsWhole
    <2>2. at = here
        BY <1>4, <1>5, <2>1
    <2>3. \A n \in here : v.shown.node[n].held = (n \notin Accepted(complete, rule))
        <3> TAKE n \in here
        <3>1. n \in Nodes(v.shown) /\ n \in Id /\ n \in Known(complete)
            BY <1>4, <2>1
        <3>2. v.shown.node[n].held = (n \in HeldIds(complete, rule) \cup HeldGaps(complete, rule))
            BY <1>2, <1>7, <3>1 DEF IsWhole
        <3> QED
            BY <1>4, <3>1, <3>2
    <2>4. free = accepted
        BY <2>2, <2>3
    <2> QED
        BY <1>1, <1>6, <1>7, <2>2, <2>4 DEF rule
<1>8. CASE ~config.with_held
    <2>1. Nodes(v.shown) \cap Id = Accepted(complete, rule)
        BY <1>2, <1>4, <1>8 DEF IsAccepted
    <2>2. at = accepted
        BY <1>4, <1>5, <2>1
    <2>3. free = at
        BY <1>2, <1>5, <1>8 DEF IsAccepted
    <2> QED
        BY <1>1, <1>6, <1>8, <2>2, <2>3 DEF rule
<1> QED
    BY <1>2, <1>7, <1>8

\* What the comparison scores each question on.
Scored == [config \in CONFIGS |-> ScoreConfig(config)]

\* Where the four configurations start a question: where review starts it without the held view
\* it does with it, and under the second rule at the same item or at one the rule released.
LEMMA StartsMove ==
    ASSUME Typed, NothingMoves, NEW start \in Starts(Scored)
    PROVE  /\ start[BASELINE] = None \/ start[WITH_HELD] = start[BASELINE]
           /\ start[NARROW_HOLD] = None \/ start[BOTH] = start[NARROW_HOLD]
           /\ start[BASELINE] # None /\ StartStays(start) => start[NARROW_HOLD] = start[BASELINE]
           /\ StartStays(start) \/ start[BOTH] \in Released
           /\ start[NARROW_HOLD] \in {start[BASELINE]} \cup Released
<1>1. \/ \E i \in Id : start = [config \in CONFIGS |-> i]
      \/ \E line \in Line : start = [config \in CONFIGS |-> StartAt(Scored[config], line)]
    BY DEF Starts
<1>2. CASE \E i \in Id : start = [config \in CONFIGS |-> i]
    BY <1>2, ConfigsAre DEF StartStays
<1>3. ASSUME NEW line \in Line, start = [config \in CONFIGS |-> StartAt(Scored[config], line)]
      PROVE  /\ start[BASELINE] = None \/ start[WITH_HELD] = start[BASELINE]
             /\ start[NARROW_HOLD] = None \/ start[BOTH] = start[NARROW_HOLD]
             /\ start[BASELINE] # None /\ StartStays(start) => start[NARROW_HOLD] = start[BASELINE]
             /\ StartStays(start) \/ start[BOTH] \in Released
             /\ start[NARROW_HOLD] \in {start[BASELINE]} \cup Released
    <2> DEFINE here == {i \in Known(complete) : FileLine(complete, "before", i) = line}
               plain == here \cap Accepted(complete, "before")
               narrow == here \cap Accepted(complete, "after")
    <2>1. {i \in Known(complete) : FileLine(complete, "after", i) = line} = here
        BY DEF NothingMoves
    <2>2. \A config \in CONFIGS : start[config] = StartAt(ScoreConfig(config), line)
        BY <1>3 DEF Scored
    <2> DEFINE on(rule) == {i \in Known(complete) : FileLine(complete, rule, i) = line}
               among(rule) == on(rule) \cap Accepted(complete, rule)
    <2>i. \A config \in CONFIGS :
            start[config] = IF among(RuleOf(config)) # {} THEN Lowest(among(RuleOf(config)))
                            ELSE IF config.with_held /\ on(RuleOf(config)) # {}
                                 THEN Lowest(on(RuleOf(config))) ELSE None
        BY <2>2, StartIs
    <2>a. /\ on("before") = here /\ on("after") = here
          /\ among("before") = plain /\ among("after") = narrow
        BY <2>1
    <2> HIDE DEF on, among, here, plain, narrow
    <2>3. /\ start[BASELINE] = IF plain # {} THEN Lowest(plain) ELSE None
          /\ start[WITH_HELD] = IF plain # {} THEN Lowest(plain)
                                ELSE IF here # {} THEN Lowest(here) ELSE None
        BY <2>i, <2>a, ConfigsAre
    <2>4. /\ start[NARROW_HOLD] = IF narrow # {} THEN Lowest(narrow) ELSE None
          /\ start[BOTH] = IF narrow # {} THEN Lowest(narrow)
                           ELSE IF here # {} THEN Lowest(here) ELSE None
        BY <2>i, <2>a, ConfigsAre
    <2>5. complete \in SUBSET Unit /\ "after" \in Rule
        BY DEF Typed, Rule
    <2>6. /\ Accepted(complete, "before") \subseteq Accepted(complete, "after")
          /\ Accepted(complete, "after") \subseteq Id
        BY <2>5, ReleaseGrows, AcceptedKnown
    <2>7. plain \subseteq narrow /\ narrow \subseteq Id /\ narrow \ plain \subseteq Released
        BY <2>6 DEF Released, here, plain, narrow
    <2>8. plain # {} => Lowest(narrow) = Lowest(plain) \/ Lowest(narrow) \in Released
        BY <2>7, LowestOfMore
    <2>9. plain = {} /\ narrow # {} => Lowest(narrow) \in Released
        BY <2>7, LowestIn
    <2>10. plain # {} => Lowest(plain) \in Id
        BY <2>7, LowestIn
    <2>11. None \notin Id
        BY CorpusAssumption
    <2> QED
        BY <2>3, <2>4, <2>7, <2>8, <2>9, <2>10, <2>11 DEF StartStays
<1> QED
    BY <1>1, <1>2, <1>3

\* What a smaller graph is walked to a larger one is too, as long as nothing moves.
LEMMA HitsGrow ==
    ASSUME NEW c, NEW d, Below(c, d), NEW rule \in Rule, NEW other \in Rule,
           Nodes(c) \cap Id \subseteq Known(complete), rule = other \/ NothingMoves,
           NEW start, NEW line, HitOn(c, rule, start, line)
    PROVE  HitOn(d, other, start, line)
<1>1. PICK n \in Visited(c, start) \cap Id : FileLine(complete, rule, n) = line
    BY DEF HitOn
<1>2. n \in Visited(d, start) /\ n \in Nodes(c)
    BY <1>1, BelowVisits, VisitsNodes
<1>3. n \in Known(complete)
    BY <1>1, <1>2
<1>4. FileLine(complete, other, n) = line
    BY <1>1, <1>3 DEF NothingMoves, Rule
<1> QED
    BY <1>1, <1>2, <1>4 DEF HitOn

\* Both graphs know only what the units found.
LEMMA NodesKnown ==
    ASSUME Typed, NEW R \in SUBSET Unit, NEW rule \in Rule, NEW g,
           IsAccepted(g, R, rule) \/ IsWhole(g, R, rule)
    PROVE  Nodes(g) \cap Id \subseteq Known(R)
<1>1. /\ AcceptedNodes(R, rule) \cap Id = Accepted(R, rule)
      /\ HeldGaps(R, rule) \cap Id = {} /\ HeldIds(R, rule) \subseteq Known(R)
      /\ Accepted(R, rule) \subseteq Known(R)
    BY NodesApart, AcceptedKnown DEF HeldIds
<1> QED
    BY <1>1 DEF IsAccepted, IsWhole

\* A sum of naturals is no less than any of them.
LEMMA SumCovers ==
    ASSUME NEW R, IsFiniteSet(R), NEW a \in [R -> Nat], NEW p \in R
    PROVE  SumFunction(a) \in Int /\ a[p] <= SumFunction(a)
<1>1. a \in [R -> Int]
    OBVIOUS
<1>2. PICK g : g[{}] = 0 /\ Sums(g, a, R) /\ SumFunction(a) = g[R]
    BY <1>1, SumOf
<1>3. \A s \in SUBSET R : g[s] \in Int /\ \A q \in s : g[s] = a[q] + g[s \ {q}]
    BY <1>2 DEF Sums
<1>4. \A s \in SUBSET R : 0 <= g[s]
    <2> DEFINE bad == {s \in SUBSET R : ~(0 <= g[s])}
    <2>1. SUFFICES ASSUME bad # {} PROVE FALSE
        OBVIOUS
    <2>2. PICK s \in bad : \A t \in bad : ~(t \subseteq s /\ t # s)
        <3>1. bad \subseteq SUBSET R
            OBVIOUS
        <3> HIDE DEF bad
        <3> QED
            BY <2>1, <3>1, SmallestSubset
    <2>3. s \in SUBSET R /\ ~(0 <= g[s])
        BY <2>2
    <2>4. s # {}
        BY <1>2, <2>3
    <2>5. PICK q \in s : TRUE
        BY <2>4
    <2>6. s \ {q} \in SUBSET R /\ s \ {q} \notin bad
        BY <2>2, <2>3, <2>5
    <2>7. 0 <= g[s \ {q}] /\ g[s \ {q}] \in Int /\ g[s] \in Int /\ a[q] \in Nat /\ g[s] = a[q] + g[s \ {q}]
        BY <1>3, <2>3, <2>5, <2>6
    <2> DEFINE x == g[s]  y == g[s \ {q}]  z == a[q]
    <2>8. 0 <= y /\ y \in Int /\ x \in Int /\ z \in Nat /\ x = z + y
        BY <2>7
    <2> HIDE DEF x, y, z
    <2>9. 0 <= x
        BY <2>8
    <2> QED
        BY <2>3, <2>9 DEF x
<1>5. R \ {p} \in SUBSET R /\ R \in SUBSET R
    OBVIOUS
<1> DEFINE x == g[R]  y == g[R \ {p}]  z == a[p]
<1>6. x = z + y /\ 0 <= y /\ y \in Int /\ x \in Int /\ z \in Nat
    BY <1>3, <1>4, <1>5
<1> HIDE DEF x, y, z
<1>7. z <= x /\ x \in Int
    BY <1>6
<1> QED
    BY <1>2, <1>7 DEF x, z

\* When the release adds nothing, the second rule accepts what the first did.
LEMMA NothingReleased ==
    ASSUME Typed, ~(TallyLinks(complete) + TallyEntities(complete) > 0)
    PROVE  /\ Accepted(complete, "after") = Accepted(complete, "before")
           /\ LinkKeys(complete, "after") = LinkKeys(complete, "before")
<1> DEFINE R == complete
           gain(u) == art[u].after.entities \ art[u].before.entities
           a == [u \in R |-> Cardinality(gain(u))]
           was == Cardinality(Resolved(R, "before"))
           now == Cardinality(Resolved(R, "after"))
<1>1. R \in SUBSET Unit /\ IsFiniteSet(R)
    BY UnitsFinite DEF Typed
<1>2. \A u \in R : IsFiniteSet(gain(u))
    <2> TAKE u \in R
    <2>1. IsFiniteSet(RoutedUnit(u, "after").entities)
        BY <1>1, UnitFinite DEF Rule
    <2>2. gain(u) \in SUBSET RoutedUnit(u, "after").entities
        BY DEF RoutedUnit
    <2> QED
        BY <2>1, <2>2, FS_Subset
<1>3. a \in [R -> Nat]
    BY <1>2, FS_CardinalityType
<1>4. TallyEntities(R) = SumFunction(a)
    BY DEF TallyEntities
<1>5. /\ Resolved(R, "before") \subseteq Resolved(R, "after")
      /\ IsFiniteSet(Resolved(R, "after")) /\ IsFiniteSet(Resolved(R, "before"))
    <2>1. Resolved(R, "before") \subseteq Resolved(R, "after")
        BY <1>1, ResolvedStays
    <2>2. IsFiniteSet(Written(R))
        BY <1>1, WrittenFinite
    <2>3. \A rule \in Rule : Resolved(R, rule) \in SUBSET Written(R)
        BY DEF Resolved, Routed
    <2> QED
        BY <2>1, <2>2, <2>3, FS_Subset DEF Rule
<1>6. was \in Nat /\ now \in Nat /\ was <= now /\ TallyLinks(R) = now - was
    BY <1>1, <1>5, FS_Subset, FS_CardinalityType, TallyIsTheLinks
<1>7. \A u \in R : a[u] \in Nat /\ SumFunction(a) \in Int /\ a[u] <= SumFunction(a)
    <2> HIDE DEF a
    <2> QED
        BY <1>1, <1>3, SumCovers
<1>8. R # {} => 0 <= SumFunction(a) /\ SumFunction(a) \in Int
    <2> HIDE DEF a, R
    <2> QED
        BY <1>7
<1>9. CASE R = {}
    BY <1>9 DEF Accepted, LinkKeys, Resolved, Routed, Written
<1>10. CASE R # {}
    <2> DEFINE sum == SumFunction(a)
    <2>1. sum \in Int /\ 0 <= sum /\ ~((now - was) + sum > 0)
        BY <1>4, <1>6, <1>8, <1>10
    <2> HIDE DEF sum, was, now
    <2>2. sum = 0 /\ was = now
        BY <1>6, <2>1
    <2>3. Resolved(R, "after") = Resolved(R, "before")
        BY <1>5, <2>2, FS_Subset DEF was, now
    <2>4. \A u \in R : a[u] = 0
        <3> TAKE u \in R
        <3> DEFINE x == a[u]
        <3>1. x \in Nat /\ x <= sum
            BY <1>7 DEF sum
        <3> HIDE DEF x
        <3>2. x = 0
            BY <2>2, <3>1
        <3> QED
            BY <3>2 DEF x
    <2>5. \A u \in R : gain(u) = {}
        <3> TAKE u \in R
        <3>1. Cardinality(gain(u)) = 0
            BY <2>4
        <3> QED
            BY <1>2, <3>1, FS_EmptySet
    <2>6. \A u \in R : RoutedUnit(u, "after").entities = RoutedUnit(u, "before").entities
        BY <1>1, <2>5 DEF RoutedUnit, Typed, IsArtifact
    <2>7. Accepted(R, "after") = Accepted(R, "before")
        BY <2>6 DEF Accepted
    <2> QED
        BY <2>3, <2>7 DEF LinkKeys
<1> QED
    BY <1>9, <1>10

\* When review holds nothing of any first run, the whole graph is the accepted one.
LEMMA NothingHeld ==
    ASSUME Typed, NEW rule \in Rule,
           ~\E u \in complete : QueueRows(complete, rule, u) > LaterEntities(u) + LaterLinks(u),
           NEW s, NEW c, IsWhole(s, complete, rule), IsAccepted(c, complete, rule)
    PROVE  Below(s, c)
<1> DEFINE R == complete
<1>1. R \in SUBSET Unit
    BY DEF Typed
<1>2. ASSUME NEW u \in R
      PROVE  /\ HeldEntities(u, rule) = {} /\ HeldInside(u, rule) = {}
             /\ {p \in HeldAcross(R, rule) : p[1] = u} = {}
    <2> DEFINE x == Cardinality(HeldEntities(u, rule))
               y == Cardinality(HeldInside(u, rule))
               z == Cardinality({p \in HeldAcross(R, rule) : p[1] = u})
               m == LaterEntities(u)
               n == LaterLinks(u)
    <2>1. /\ IsFiniteSet(HeldEntities(u, rule)) /\ IsFiniteSet(HeldInside(u, rule))
          /\ IsFiniteSet({p \in HeldAcross(R, rule) : p[1] = u})
          /\ m \in Nat /\ n \in Nat
        BY <1>1, UnitFinite
    <2>2. x \in Nat /\ y \in Nat /\ z \in Nat
        BY <2>1, FS_CardinalityType
    <2>3. QueueRows(R, rule, u) = x + y + m + n + z
        BY DEF QueueRows
    <2>4. ~(QueueRows(R, rule, u) > m + n)
        OBVIOUS
    <2> HIDE DEF x, y, z, m, n
    <2>5. x = 0 /\ y = 0 /\ z = 0
        BY <2>1, <2>2, <2>3, <2>4
    <2> QED
        BY <2>1, <2>5, FS_EmptySet DEF x, y, z
<1>3. HeldIds(R, rule) = {}
    <2>1. \A u \in R : DOMAIN First(u).entity \subseteq RoutedUnit(u, rule).entities
        BY <1>2 DEF HeldEntities
    <2> QED
        BY <2>1 DEF HeldIds, Known, Accepted
<1>4. HeldAcross(R, rule) = {}
    <2>1. \A p \in HeldAcross(R, rule) : p[1] \in R
        BY <1>1, SaidIs DEF HeldAcross, Routed
    <2> QED
        BY <1>2, <2>1
<1>5. ASSUME NEW p \in Written(R)
      PROVE  p \in Routed(R, rule)
    <2>1. p[1] \in R /\ p[2] \in DOMAIN First(p[1]).link
        BY <1>1, SaidIs
    <2>2. p[2] \in RoutedUnit(p[1], rule).links
        BY <1>2, <2>1 DEF HeldInside
    <2> QED
        BY <2>2 DEF Routed
<1>6. HeldKeys(R, rule) = {}
    BY <1>4, <1>5 DEF HeldKeys, HeldPairs
<1>7. HeldGaps(R, rule) = {}
    BY <1>6 DEF HeldGaps, Gaps, KeyEnds
<1>8. Nodes(s) \subseteq Nodes(c)
    BY <1>3, <1>7 DEF IsWhole, IsAccepted
<1>9. TypedRows(HeldKeys(R, rule), TRUE) = {}
    BY <1>6 DEF TypedRows
<1>10. \A k \in s.links : \E j \in c.links : j.type = k.type /\ Ends(j) = Ends(k)
    BY <1>9 DEF IsWhole, IsAccepted
<1>11. /\ \A n \in Nodes(s) : s.node[n].kind = KindIs(n)
       /\ \A n \in Nodes(c) : c.node[n].kind = KindIs(n)
    BY DEF IsWhole, IsAccepted
<1> QED
    BY <1>8, <1>10, <1>11, IsBelow

\* The states of a step, best last.
LEMMA RanksAre == NOT_REACHED = 0 /\ HELD_ONLY = 1 /\ ACCEPTED = 2
BY DEF NOT_REACHED, HELD_ONLY, ACCEPTED

\* One row of the table, by where its question started and what the graphs reach from there.
LEMMA RowCells ==
    ASSUME Typed, NEW row \in Rows(Scored)
    PROVE  /\ row.start \in Starts(Scored)
           /\ \E item :
                 \A config \in CONFIGS :
                    row.cell[config] = CellOf(ScoreConfig(config), row.start[config], item)
<1>1. PICK start \in Starts(Scored), item \in [line : Line, token : {None}] :
        row = [start |-> start,
               cell |-> [config \in CONFIGS |-> CellOf(Scored[config], start[config], item)]]
    BY DEF Rows
<1>2. \A config \in CONFIGS : Scored[config] = ScoreConfig(config)
    BY DEF Scored
<1> QED
    BY <1>1, <1>2

\* The comparison's checks hold of every row whose start stays: no flag and no pair of flags
\* leaves such a step worse.  A start that moves moves to something released, and of every row a
\* step newly reached comes with something released, and one newly shown with something held.
THEOREM FlagsAreSafe == Spec => []FlagsNeverHurt
<1>1. Typed => FlagsNeverHurt
    <2> DEFINE rows == Rows(Scored)
               stay == {row \in rows : StartStays(row.start)}
               somethingReleased == TallyLinks(complete) + TallyEntities(complete) > 0
               somethingHeld == \E u \in complete :
                   QueueRows(complete, "before", u) > LaterEntities(u) + LaterLinks(u)
    <2> SUFFICES ASSUME Typed, NothingMoves
                 PROVE  /\ WorseUnderBoth(stay) = {} /\ Regressed(stay) = {}
                        /\ \A start \in Starts(Scored) :
                              /\ StartStays(start) \/ start[BOTH] \in Released
                              /\ start[NARROW_HOLD] \in {start[BASELINE]} \cup Released
                        /\ NewlyAccepted(rows) # {} => somethingReleased
                        /\ NewlyHeldOnly(rows) # {} => somethingHeld
        BY DEF FlagsNeverHurt, Scored
    <2>r. complete \in SUBSET Unit /\ "before" \in Rule /\ "after" \in Rule
        BY DEF Typed, Rule
    <2> DEFINE clean(config) == ScoreConfig(config).clean
               shown(config) == ScoreConfig(config).shown
    <2>g. /\ IsAccepted(clean(BASELINE), complete, "before") /\ IsAccepted(clean(WITH_HELD), complete, "before")
          /\ IsAccepted(clean(NARROW_HOLD), complete, "after") /\ IsAccepted(clean(BOTH), complete, "after")
          /\ IsWhole(shown(WITH_HELD), complete, "before") /\ IsWhole(shown(BOTH), complete, "after")
        BY ConfigIs, ConfigsAre
    <2> HIDE DEF clean, shown, somethingReleased, somethingHeld
    <2>1. ASSUME NEW row \in rows
          PROVE  /\ StartStays(row.start) =>
                       /\ row.cell[WITH_HELD] <= row.cell[BOTH] /\ row.cell[NARROW_HOLD] <= row.cell[BOTH]
                       /\ row.cell[BASELINE] = ACCEPTED => row.cell[NARROW_HOLD] = ACCEPTED
                 /\ row.cell[WITH_HELD] \in Int /\ row.cell[NARROW_HOLD] \in Int /\ row.cell[BOTH] \in Int
                 /\ row.cell[BASELINE] # ACCEPTED /\ row.cell[NARROW_HOLD] = ACCEPTED => somethingReleased
                 /\ row.cell[BASELINE] = NOT_REACHED /\ row.cell[WITH_HELD] = HELD_ONLY => somethingHeld
        <3>1. PICK item : \A config \in CONFIGS :
                row.cell[config] = CellOf(ScoreConfig(config), row.start[config], item)
            BY RowCells
        <3> DEFINE line == Quoted(item).line
                   at(config) == row.start[config]
                   cell(config) == IF HitOn(clean(config), RuleOf(config), at(config), line) THEN ACCEPTED
                                   ELSE IF config.with_held /\ HitOn(shown(config), RuleOf(config), at(config), line)
                                        THEN HELD_ONLY ELSE NOT_REACHED
        <3>2. \A config \in CONFIGS : row.cell[config] = cell(config)
            BY <3>1, CellIs DEF clean, shown
        <3> HIDE DEF line
        <3>s. /\ at(BASELINE) = None \/ at(WITH_HELD) = at(BASELINE)
              /\ at(NARROW_HOLD) = None \/ at(BOTH) = at(NARROW_HOLD)
              /\ at(BASELINE) # None /\ StartStays(row.start) => at(NARROW_HOLD) = at(BASELINE)
              /\ at(NARROW_HOLD) \in {at(BASELINE)} \cup Released
              /\ StartStays(row.start) => at(WITH_HELD) = at(BOTH)
            BY RowCells, StartsMove DEF StartStays
        <3> HIDE DEF at
        <3> DEFINE baseline == HitOn(clean(BASELINE), "before", at(BASELINE), line)
                   held == HitOn(clean(WITH_HELD), "before", at(WITH_HELD), line)
                   heldShown == HitOn(shown(WITH_HELD), "before", at(WITH_HELD), line)
                   narrow == HitOn(clean(NARROW_HOLD), "after", at(NARROW_HOLD), line)
                   both == HitOn(clean(BOTH), "after", at(BOTH), line)
                   bothShown == HitOn(shown(BOTH), "after", at(BOTH), line)
        <3>3. /\ row.cell[BASELINE] = (IF baseline THEN ACCEPTED ELSE NOT_REACHED)
              /\ row.cell[WITH_HELD] = (IF held THEN ACCEPTED ELSE IF heldShown THEN HELD_ONLY ELSE NOT_REACHED)
              /\ row.cell[NARROW_HOLD] = (IF narrow THEN ACCEPTED ELSE NOT_REACHED)
              /\ row.cell[BOTH] = (IF both THEN ACCEPTED ELSE IF bothShown THEN HELD_ONLY ELSE NOT_REACHED)
            BY <3>2, ConfigsAre
        <3>4. Nodes(clean(BASELINE)) \cap Id \subseteq Known(complete)
              /\ Nodes(clean(WITH_HELD)) \cap Id \subseteq Known(complete)
              /\ Nodes(clean(NARROW_HOLD)) \cap Id \subseteq Known(complete)
              /\ Nodes(clean(BOTH)) \cap Id \subseteq Known(complete)
              /\ Nodes(shown(WITH_HELD)) \cap Id \subseteq Known(complete)
            BY <2>g, <2>r, NodesKnown
        <3>5. /\ Below(clean(BASELINE), clean(NARROW_HOLD))
              /\ Below(clean(WITH_HELD), clean(BOTH))
              /\ Below(clean(NARROW_HOLD), clean(BOTH))
            BY <2>g, <2>r, AcceptedBelow
        <3>6. Below(shown(WITH_HELD), shown(BOTH))
            BY <2>g, <2>r, WholeBelow
        <3>n. (baseline => at(BASELINE) # None) /\ (narrow => at(NARROW_HOLD) # None)
            <4>1. None \notin Nodes(clean(BASELINE)) /\ None \notin Nodes(clean(NARROW_HOLD))
                BY <2>g, <2>r, NoneIsNoNode
            <4> QED
                BY <4>1 DEF HitOn, Visited
        <3>7. StartStays(row.start) /\ baseline => narrow
            BY <2>r, <3>4, <3>5, <3>n, <3>s, HitsGrow
        <3>8. StartStays(row.start) /\ held => both
            BY <2>r, <3>4, <3>5, <3>s, HitsGrow
        <3>9. narrow => both
            BY <2>r, <3>4, <3>5, <3>n, <3>s, HitsGrow
        <3>10. StartStays(row.start) /\ heldShown => bothShown
            BY <2>r, <3>4, <3>6, <3>s, HitsGrow
        <3>12. narrow /\ ~baseline => somethingReleased
            <4> SUFFICES ASSUME narrow, ~somethingReleased
                         PROVE  baseline
                OBVIOUS
            <4>1. /\ Accepted(complete, "after") = Accepted(complete, "before")
                  /\ LinkKeys(complete, "after") = LinkKeys(complete, "before")
                BY NothingReleased DEF somethingReleased
            <4>2. IsAccepted(clean(NARROW_HOLD), complete, "before")
                BY <2>g, <4>1 DEF IsAccepted, AcceptedNodes
            <4>3. Below(clean(NARROW_HOLD), clean(BASELINE))
                BY <2>g, <2>r, <4>2, AcceptedBelow
            <4>4. at(NARROW_HOLD) = at(BASELINE)
                BY <3>s, <4>1 DEF Released
            <4> QED
                BY <2>r, <3>4, <4>3, <4>4, HitsGrow
        <3>13. heldShown /\ ~held => somethingHeld
            <4> SUFFICES ASSUME heldShown, ~somethingHeld
                         PROVE  held
                OBVIOUS
            <4>1. Below(shown(WITH_HELD), clean(WITH_HELD))
                BY <2>g, <2>r, NothingHeld DEF somethingHeld
            <4> QED
                BY <2>r, <3>4, <4>1, HitsGrow
        <3> HIDE DEF baseline, held, heldShown, narrow, both, bothShown
        <3> QED
            BY <3>3, <3>7, <3>8, <3>9, <3>10, <3>12, <3>13, RanksAre
    <2>2. WorseUnderBoth(stay) = {}
        <3>1. ASSUME NEW row \in stay
              PROVE  ~(row.cell[BOTH] < Better(row.cell[WITH_HELD], row.cell[NARROW_HOLD]))
            <4> DEFINE x == row.cell[WITH_HELD]  y == row.cell[NARROW_HOLD]  z == row.cell[BOTH]
            <4>1. x \in Int /\ y \in Int /\ z \in Int /\ x <= z /\ y <= z
                BY <2>1
            <4> HIDE DEF x, y, z
            <4>2. ~(z < Better(x, y))
                BY <4>1 DEF Better
            <4> QED
                BY <4>2 DEF x, y, z
        <3> QED
            BY <3>1 DEF WorseUnderBoth
    <2>3. Regressed(stay) = {}
        BY <2>1 DEF Regressed
    <2>4. NewlyAccepted(rows) # {} => somethingReleased
        BY <2>1 DEF NewlyAccepted
    <2>5. NewlyHeldOnly(rows) # {} => somethingHeld
        BY <2>1 DEF NewlyHeldOnly
    <2>6. \A start \in Starts(Scored) :
            /\ StartStays(start) \/ start[BOTH] \in Released
            /\ start[NARROW_HOLD] \in {start[BASELINE]} \cup Released
        BY StartsMove
    <2> QED
        BY <2>2, <2>3, <2>4, <2>5, <2>6
<1> QED
    BY <1>1, TypedAlways, PTL
-----------------------------------------------------------------------------
(* What reading the held view does to a verdict.                           *)

\* Two graphs below each other are walked alike.
LEMMA SameVisits ==
    ASSUME NEW c, NEW d, Below(c, d), Below(d, c), NEW start
    PROVE  Visited(c, start) = Visited(d, start) /\ Nodes(c) = Nodes(d)
BY BelowVisits DEF Below

\* What the two views of one load agree on: the held one shows the accepted nodes as they are.
Agree(v, plain) ==
    /\ Nodes(v.clean) = Nodes(plain.clean) /\ Nodes(v.clean) = Nodes(plain.shown)
    /\ Nodes(v.clean) \subseteq Nodes(v.shown)
    /\ \A start : CleanWalk(v, start) = CleanWalk(plain, start)
    /\ \A start : CleanWalk(v, start) \subseteq Nodes(v.clean)
    /\ \A line : AtLine(plain, plain.shown, line) = AtLine(v, v.shown, line) \cap Nodes(v.clean)
    /\ \A line : AtLine(v, v.shown, line) \subseteq Nodes(v.shown) \cap Id
    /\ \A n \in Nodes(v.clean) : /\ v.shown.node[n].kind = plain.shown.node[n].kind
                                 /\ ~v.shown.node[n].held /\ ~plain.shown.node[n].held
    /\ \A n \in Nodes(v.shown) \cap Id : v.shown.node[n].held <=> n \notin Nodes(v.clean)
    /\ v.held = plain.held /\ v.withHeld = TRUE /\ plain.withHeld = FALSE
    /\ None \notin Nodes(v.clean)

\* The view with held items and the view without agree on everything but what is held.
LEMMA ViewsAgree ==
    ASSUME Typed, NEW l \in Loads, l.held
    PROVE  Agree(View(l, TRUE), View(l, FALSE))
<1> DEFINE R == l.units
           rule == l.rule
<1>v. PICK v : v = View(l, TRUE)
    OBVIOUS
<1>p. PICK plain : plain = View(l, FALSE)
    OBVIOUS
<1>0. R \in SUBSET Unit /\ rule \in Rule /\ l.held \in BOOLEAN
    BY DEF Loads
<1>1. /\ IsAccepted(v.clean, R, rule) /\ IsWhole(v.shown, R, rule)
      /\ v.load = l /\ v.withHeld = TRUE /\ v.held = HeldLinks(rule)
    BY <1>v, ViewIs
<1>2. /\ IsAccepted(plain.clean, R, rule) /\ IsAccepted(plain.shown, R, rule)
      /\ plain.load = l /\ plain.withHeld = FALSE /\ plain.held = HeldLinks(rule)
    BY <1>p, ViewIs
<1> HIDE DEF R, rule
<1>3. Below(v.clean, plain.clean) /\ Below(plain.clean, v.clean)
    BY <1>0, <1>1, <1>2, AcceptedBelow
<1>4. \A start : CleanWalk(v, start) = CleanWalk(plain, start)
    BY <1>3, SameVisits DEF CleanWalk
<1>5. \A start : CleanWalk(v, start) \subseteq Nodes(v.clean)
    BY VisitsNodes DEF CleanWalk
<1>6. /\ Nodes(v.clean) = AcceptedNodes(R, rule) /\ Nodes(plain.clean) = AcceptedNodes(R, rule)
      /\ Nodes(plain.shown) = AcceptedNodes(R, rule)
      /\ Nodes(v.shown) = AcceptedNodes(R, rule) \cup HeldIds(R, rule) \cup HeldGaps(R, rule)
    BY <1>1, <1>2 DEF IsAccepted, IsWhole
<1>7. ASSUME NEW line
      PROVE  /\ AtLine(plain, plain.shown, line)
                  = {n \in Nodes(plain.shown) \cap Id : FileLine(l.units, l.rule, n) = line}
             /\ AtLine(v, v.shown, line)
                  = {n \in Nodes(v.shown) \cap Id : FileLine(l.units, l.rule, n) = line}
    <2>1. \A n \in Nodes(plain.shown) : plain.shown.node[n].kind = KindIs(n)
        BY <1>2 DEF IsAccepted
    <2>2. \A n \in Nodes(v.shown) : v.shown.node[n].kind = KindIs(n)
        BY <1>1 DEF IsWhole
    <2>3. AtLine(plain, plain.shown, line)
            = {n \in Nodes(plain.shown) \cap Id : FileLine(plain.load.units, plain.load.rule, n) = line}
        BY <2>1 DEF AtLine, Entities, KindIs
    <2>4. AtLine(v, v.shown, line)
            = {n \in Nodes(v.shown) \cap Id : FileLine(v.load.units, v.load.rule, n) = line}
        BY <2>2 DEF AtLine, Entities, KindIs
    <2> QED
        BY <1>1, <1>2, <2>3, <2>4
<1>8. ASSUME NEW line
      PROVE  /\ AtLine(plain, plain.shown, line) = AtLine(v, v.shown, line) \cap Nodes(v.clean)
             /\ AtLine(v, v.shown, line) \subseteq Nodes(v.shown) \cap Id
    <2>1. /\ AtLine(plain, plain.shown, line)
                = {n \in Nodes(plain.shown) \cap Id : FileLine(l.units, l.rule, n) = line}
          /\ AtLine(v, v.shown, line)
                = {n \in Nodes(v.shown) \cap Id : FileLine(l.units, l.rule, n) = line}
        BY <1>7
    <2>2. Nodes(plain.shown) = Nodes(v.clean) /\ Nodes(v.clean) \subseteq Nodes(v.shown)
        BY <1>6
    <2> QED
        BY <2>1, <2>2
<1>9. AcceptedNodes(R, rule) \cap (HeldIds(R, rule) \cup HeldGaps(R, rule)) = {}
    BY <1>0, NodesApart
<1>10. ASSUME NEW n \in Nodes(v.clean)
       PROVE  /\ v.shown.node[n].kind = plain.shown.node[n].kind
              /\ ~v.shown.node[n].held /\ ~plain.shown.node[n].held
    <2>1. n \in Nodes(v.shown) /\ n \in Nodes(plain.shown) /\ n \notin HeldIds(R, rule) \cup HeldGaps(R, rule)
        BY <1>6, <1>9
    <2>2. plain.shown.node[n].kind = KindIs(n) /\ ~plain.shown.node[n].held
        BY <1>2, <2>1 DEF IsAccepted
    <2>3. v.shown.node[n].kind = KindIs(n) /\ ~v.shown.node[n].held
        BY <1>1, <2>1 DEF IsWhole
    <2> QED
        BY <2>2, <2>3
<1>11. \A n \in Nodes(v.shown) \cap Id : v.shown.node[n].held <=> n \notin Nodes(v.clean)
    BY <1>1, <1>6, <1>9 DEF IsWhole
<1>12. None \notin Nodes(v.clean)
    BY <1>0, <1>1, NoneIsNoNode
<1>13. Agree(v, plain)
    BY <1>1, <1>2, <1>4, <1>5, <1>6, <1>8, <1>10, <1>11, <1>12 DEF Agree
<1> QED
    BY <1>v, <1>p, <1>13

\* A finding f of the held view beside the finding p of the plain one.
Alike(f, p) ==
    /\ f.reached <=> p.reached
    /\ f.acceptedHere <=> p.acceptedHere
    /\ ~p.heldOnly /\ (~f.heldOnly => f.reason = p.reason)

\* Whatever the view, the same items are reached, for the same reasons when nothing held shows.
LEMMA FindingsAgree ==
    ASSUME NEW v, NEW plain, Agree(v, plain), NEW start, NEW item, NEW absence
    PROVE  Alike(Finding(v, start, item, absence), Finding(plain, start, item, absence))
<1> DEFINE f == Finding(v, start, item, absence)
           p == Finding(plain, start, item, absence)
           quoted == Quoted(item)
           u == LineUnit[quoted.line]
           visited == CleanWalk(v, start)
<1>1. visited = CleanWalk(plain, start) /\ visited \subseteq Nodes(v.clean)
    BY DEF Agree
<1>2. ReachedAt(v, visited, quoted) = ReachedAt(plain, visited, quoted)
    <2>1. AtLine(plain, plain.shown, quoted.line) = AtLine(v, v.shown, quoted.line) \cap Nodes(v.clean)
        BY DEF Agree
    <2> HIDE DEF visited, quoted
    <2> QED
        BY <1>1, <2>1 DEF ReachedAt
<1>3. \A token : GapAt(v.shown, visited, u, token) = GapAt(plain.shown, visited, u, token)
    <2>1. \A n \in visited : v.shown.node[n].kind = plain.shown.node[n].kind
        BY <1>1 DEF Agree
    <2> HIDE DEF visited, u
    <2> QED
        BY <2>1 DEF GapAt
<1>4. \A w, line : LinkHeld(v, w, line, visited, absence) = LinkHeld(plain, w, line, visited, absence)
    BY DEF Agree, LinkHeld
<1>5. Reason(v, visited, quoted, absence) = Reason(plain, visited, quoted, absence)
    <2> HIDE DEF visited, quoted
    <2> QED
        BY <1>3, <1>4 DEF Reason, u
<1>6. ~plain.withHeld
    BY DEF Agree
<1> DEFINE reached == ReachedAt(v, visited, quoted) # {}
           heldOnly == v.withHeld /\ ~reached /\ ReachedAt(v, Visited(v.shown, start), quoted) # {}
           here == u \in complete /\ AcceptedAt(u, quoted.line) # {}
<1>7. /\ f.reached = reached /\ f.heldOnly = heldOnly /\ f.acceptedHere = here
      /\ f.reason = IF reached \/ heldOnly THEN None ELSE Reason(v, visited, quoted, absence)
    BY DEF Finding
<1>8. /\ p.reached = reached /\ p.heldOnly = FALSE /\ p.acceptedHere = here
      /\ p.reason = IF reached THEN None ELSE Reason(v, visited, quoted, absence)
    <2> HIDE DEF visited, quoted, heldOnly, here
    <2> QED
        BY <1>1, <1>2, <1>5, <1>6 DEF Finding, here, quoted, u
<1> HIDE DEF f, p, reached, heldOnly, here
<1>9. Alike(f, p)
    BY <1>7, <1>8 DEF Alike
<1> QED
    BY <1>9 DEF f, p

\* The verdict of a question with one item, by that item's finding.
LEMMA VerdictIs ==
    ASSUME NEW v, NEW start, NEW item, NEW absence \in BOOLEAN
    PROVE  LET f == Finding(v, start, item, absence)
               passed == IF absence THEN AbsenceHolds(v, start, f)
                         ELSE start \in Nodes(v.clean) /\ f.reached
           IN  Verdict(v, start, {item}, absence)
                 = IF absence /\ f.reached THEN "FAIL"
                   ELSE IF passed THEN "PASS" ELSE IF absence THEN "INCONCLUSIVE" ELSE "FAIL"
<1> DEFINE f == Finding(v, start, item, absence)
<1>1. Findings(v, start, {item}, absence) = {f}
    BY DEF Findings
<1> HIDE DEF f
<1>2. (\E g \in Findings(v, start, {item}, absence) : g.reached) <=> f.reached
    BY <1>1
<1>3. (\A g \in Findings(v, start, {item}, absence) : g.reached) <=> f.reached
    BY <1>1
<1>4. (\A g \in Findings(v, start, {item}, absence) : AbsenceHolds(v, start, g)) <=> AbsenceHolds(v, start, f)
    BY <1>1
<1> QED
    BY <1>2, <1>3, <1>4 DEF Verdict, f

\* The same for a question with a trace list.
LEMMA TraceVerdictIs ==
    ASSUME NEW v, NEW start, NEW item
    PROVE  Verdict(v, start, {item}, FALSE)
             = IF start \in Nodes(v.clean) /\ Finding(v, start, item, FALSE).reached
               THEN "PASS" ELSE "FAIL"
<1> DEFINE f == Finding(v, start, item, FALSE)
<1>1. Findings(v, start, {item}, FALSE) = {f}
    BY DEF Findings
<1> HIDE DEF f
<1>2. (\A g \in Findings(v, start, {item}, FALSE) : g.reached) <=> f.reached
    BY <1>1
<1> QED
    BY <1>2 DEF Verdict, f

\* Held items shown beside it change no verdict of a question with a trace list.
LEMMA TraceVerdict ==
    ASSUME NEW v, NEW plain, Agree(v, plain), NEW start, NEW item
    PROVE  Verdict(v, start, {item}, FALSE) \in {Verdict(plain, start, {item}, FALSE)}
<1> DEFINE f == Finding(v, start, item, FALSE)
           p == Finding(plain, start, item, FALSE)
<1>1. f.reached <=> p.reached
    BY FindingsAgree DEF Alike
<1>2. Nodes(v.clean) = Nodes(plain.clean)
    BY DEF Agree
<1>3. /\ Verdict(v, start, {item}, FALSE) = IF start \in Nodes(v.clean) /\ f.reached THEN "PASS" ELSE "FAIL"
      /\ Verdict(plain, start, {item}, FALSE) = IF start \in Nodes(plain.clean) /\ p.reached THEN "PASS" ELSE "FAIL"
    BY VerdictIs
<1> DEFINE x == Verdict(v, start, {item}, FALSE)
           y == Verdict(plain, start, {item}, FALSE)
<1>4. /\ x = IF start \in Nodes(v.clean) /\ f.reached THEN "PASS" ELSE "FAIL"
      /\ y = IF start \in Nodes(plain.clean) /\ p.reached THEN "PASS" ELSE "FAIL"
    BY <1>3
<1> HIDE DEF f, p, x, y
<1>5. x = y
    BY <1>1, <1>2, <1>4
<1> QED
    BY <1>5 DEF x, y

\* An absence keeps its verdict or is no longer provable.
LEMMA AbsenceVerdict ==
    ASSUME NEW v, NEW plain, Agree(v, plain), NEW start, NEW item
    PROVE  Verdict(v, start, {item}, TRUE) \in {Verdict(plain, start, {item}, TRUE), "INCONCLUSIVE"}
<1> DEFINE f == Finding(v, start, item, TRUE)
           p == Finding(plain, start, item, TRUE)
<1>1. Alike(f, p)
    BY FindingsAgree
<1>2. Nodes(v.clean) = Nodes(plain.clean)
    BY DEF Agree
<1>3. /\ Verdict(v, start, {item}, TRUE)
           = IF f.reached THEN "FAIL" ELSE IF AbsenceHolds(v, start, f) THEN "PASS" ELSE "INCONCLUSIVE"
      /\ Verdict(plain, start, {item}, TRUE)
           = IF p.reached THEN "FAIL" ELSE IF AbsenceHolds(plain, start, p) THEN "PASS" ELSE "INCONCLUSIVE"
    BY VerdictIs
<1> HIDE DEF f, p
<1>4. AbsenceHolds(v, start, f) => AbsenceHolds(plain, start, p)
    BY <1>1, <1>2 DEF AbsenceHolds, Alike
<1> QED
    BY <1>1, <1>3, <1>4 DEF Alike

\* Both views start a question that cites a line at one node, or at none of the accepted ones.
LEMMA StartsAgree ==
    ASSUME NEW v, NEW plain, Agree(v, plain), NEW line
    PROVE  \/ StartAt(v, line) = StartAt(plain, line)
           \/ StartAt(v, line) \notin Nodes(v.clean) /\ StartAt(plain, line) \notin Nodes(v.clean)
<1> DEFINE here == AtLine(v, v.shown, line)
           there == AtLine(plain, plain.shown, line)
<1>1. there = here \cap Nodes(v.clean) /\ here \subseteq Nodes(v.shown) \cap Id
    BY DEF Agree
<1>2. /\ \A n \in here : v.shown.node[n].held <=> n \notin Nodes(v.clean)
      /\ \A n \in there : ~plain.shown.node[n].held
    <2> HIDE DEF here, there
    <2> QED
        BY <1>1 DEF Agree
<1>3. StartAt(v, line) = IF here = {} THEN None
        ELSE Lowest(IF {n \in here : ~v.shown.node[n].held} # {}
                    THEN {n \in here : ~v.shown.node[n].held} ELSE here)
    BY DEF StartAt
<1>4. StartAt(plain, line) = IF there = {} THEN None
        ELSE Lowest(IF {n \in there : ~plain.shown.node[n].held} # {}
                    THEN {n \in there : ~plain.shown.node[n].held} ELSE there)
    BY DEF StartAt
<1> HIDE DEF here, there
<1>5. {n \in here : ~v.shown.node[n].held} = there /\ {n \in there : ~plain.shown.node[n].held} = there
    BY <1>1, <1>2
<1>6. CASE there # {}
    BY <1>1, <1>3, <1>4, <1>5, <1>6
<1>7. CASE there = {} /\ here = {}
    BY <1>3, <1>4, <1>7
<1>8. CASE there = {} /\ here # {}
    <2>1. StartAt(v, line) = Lowest(here) /\ StartAt(plain, line) = None
        BY <1>3, <1>4, <1>5, <1>8
    <2>2. Lowest(here) \in here
        BY <1>1, <1>8, LowestIn
    <2>3. None \notin Nodes(v.clean)
        BY DEF Agree
    <2> QED
        BY <1>1, <1>8, <2>1, <2>2, <2>3
<1> QED
    BY <1>6, <1>7, <1>8

\* A question that starts at no accepted node passes in no view.
LEMMA NoStartFails ==
    ASSUME NEW v, NEW start, start \notin Nodes(v.clean), NEW item
    PROVE  Verdict(v, start, {item}, FALSE) = "FAIL"
BY VerdictIs

\* What a unit found is one of the things its run files may say.
Sourced == \A u \in Unit : art[u] \in Artifacts[u]

\* Extraction only ever writes what a unit may be found to say.
LEMMA SourcedAlways == Spec => []Sourced
<1>1. Init => Sourced
    BY DEF Init, Sourced
<1>2. Sourced /\ [Next]_vars => Sourced'
    BY DEF Sourced, Next, Extract, Load, vars
<1> QED
    BY <1>1, <1>2, PTL DEF Spec

\* An item on the line of the start is reached once the walk has a start.
LEMMA CountsAlways ==
    ASSUME Typed, Sourced, NEW l \in Loads, NEW with_held \in BOOLEAN, with_held => l.held,
           NEW v, v = View(l, with_held), NEW start, NEW line, NEW token
    PROVE  CountsBearOut(v, start, {[line |-> line, token |-> token]})
<1> DEFINE item == [line |-> line, token |-> token]
           f == Finding(v, start, item, FALSE)
<1>1. SUFFICES ASSUME start \in Nodes(v.clean)
               PROVE  Verdict(v, start, {item}, FALSE) = "PASS"
                        <=> \A g \in BesidesStart(v, start, {item}) : g.reached
    BY DEF CountsBearOut
<1>2. Verdict(v, start, {item}, FALSE) = "PASS" <=> f.reached
    <2> DEFINE x == Verdict(v, start, {item}, FALSE)
    <2> HIDE DEF item
    <2>1. x = IF start \in Nodes(v.clean) /\ f.reached THEN "PASS" ELSE "FAIL"
        BY TraceVerdictIs
    <2> HIDE DEF f, x
    <2>2. x = "PASS" <=> f.reached
        BY <1>1, <2>1
    <2> QED
        BY <2>2 DEF x
<1>3. f.item = item /\ (f.reached <=> ReachedAt(v, CleanWalk(v, start), Quoted(item)) # {})
    BY DEF Finding
<1>4. BesidesStart(v, start, {item}) = {g \in {f} : start \notin AtLine(v, v.shown, g.item.line)}
    BY DEF BesidesStart, Findings
<1>5. ASSUME start \in AtLine(v, v.shown, line)
      PROVE  f.reached
    <2>1. PICK R \in SUBSET Unit, rule \in Rule : R = l.units /\ rule = l.rule
        BY DEF Loads
    <2>2. /\ IsAccepted(v.shown, R, rule) \/ IsWhole(v.shown, R, rule)
          /\ v.load = l
        BY <2>1, ViewIs
    <2>3. \A n \in Nodes(v.shown) : v.shown.node[n].kind = KindIs(n)
        BY <2>2 DEF IsAccepted, IsWhole
    <2>4. start \in Nodes(v.shown) \cap Id /\ FileLine(R, rule, start) = line
        BY <1>5, <2>1, <2>2, <2>3 DEF AtLine, Entities, KindIs
    <2>5. start \in Known(R)
        BY <2>2, <2>4, NodesKnown
    <2> DEFINE w == Writer(R, rule, start)
    <2>6. w \in R /\ start \in DOMAIN First(w).entity
        BY <2>5, WriterFound
    <2>7. First(w).entity[start].line = line
        BY <2>4 DEF FileLine
    <2> HIDE DEF w
    <2>8. line \notin DOMAIN QuoteBelow
        BY <2>6, <2>7, BlankAssumption DEF Sourced, First
    <2>9. Quoted(item) = item /\ item.line = line
        BY <2>8 DEF Quoted
    <2>10. start \in CleanWalk(v, start)
        BY <1>1, VisitsNodes DEF CleanWalk
    <2> HIDE DEF item
    <2>11. ReachedAt(v, CleanWalk(v, start), Quoted(item)) # {}
        BY <1>5, <2>9, <2>10 DEF ReachedAt
    <2> QED
        BY <1>3, <2>11
<1>6. item.line = line
    OBVIOUS
<1> HIDE DEF f, item
<1>7. (\A g \in BesidesStart(v, start, {item}) : g.reached) <=> f.reached
    <2>1. CASE start \in AtLine(v, v.shown, line)
        BY <1>3, <1>4, <1>5, <1>6, <2>1
    <2>2. CASE start \notin AtLine(v, v.shown, line)
        BY <1>3, <1>4, <1>6, <2>2
    <2> QED
        BY <2>1, <2>2
<1> QED
    BY <1>2, <1>7

\* Showing what review holds lifts no verdict and moves none of a trace question, and in either
\* view the counts bear their verdict out, over any corpus: what is held shows beside the
\* accepted graph, and never in it.
THEOREM HeldLiftsNothing == Spec => []HeldNeverLifts
<1>1. Typed /\ Sourced => HeldNeverLifts
    <2> SUFFICES ASSUME Typed, Sourced, loaded # None PROVE HeldNeverLifts
        BY DEF HeldNeverLifts
    <2>1. loaded \in Loads /\ loaded.held \in BOOLEAN
        BY DEF Typed, Loads
    <2> DEFINE cited == [line : Line, token : {None}]
    <2>2. ASSUME NEW with_held \in Views
          PROVE  LET v == View(loaded, with_held)
                     plain == View(loaded, FALSE)
                 IN
                 /\ \A l \in Line, item \in cited : CountsBearOut(v, StartAt(v, l), {item})
                 /\ with_held =>
                     /\ \A s \in Id, item \in cited :
                           Verdict(v, s, {item}, FALSE) = Verdict(plain, s, {item}, FALSE)
                     /\ \A s \in Id, item \in Item :
                           Verdict(v, s, {item}, TRUE) \in {Verdict(plain, s, {item}, TRUE), "INCONCLUSIVE"}
                     /\ \A l \in Line, item \in cited :
                           Verdict(v, StartAt(v, l), {item}, FALSE)
                               = Verdict(plain, StartAt(plain, l), {item}, FALSE)
        <3>1. with_held \in BOOLEAN /\ (with_held => loaded.held)
            BY <2>1 DEF Views
        <3>2. PICK v : v = View(loaded, with_held)
            OBVIOUS
        <3>3. PICK plain : plain = View(loaded, FALSE)
            OBVIOUS
        <3>4. with_held => Agree(v, plain)
            BY <2>1, <3>1, <3>2, <3>3, ViewsAgree
        <3>5. ASSUME NEW start, NEW item \in cited
              PROVE  CountsBearOut(v, start, {item})
            <4>1. item = [line |-> item.line, token |-> item.token]
                OBVIOUS
            <4>2. CountsBearOut(v, start, {[line |-> item.line, token |-> item.token]})
                BY <2>1, <3>1, <3>2, CountsAlways
            <4> QED
                BY <4>1, <4>2
        <3>6. ASSUME with_held, NEW l, NEW item
              PROVE  Verdict(v, StartAt(v, l), {item}, FALSE) = Verdict(plain, StartAt(plain, l), {item}, FALSE)
            <4>1. Agree(v, plain) /\ Nodes(v.clean) = Nodes(plain.clean)
                BY <3>4, <3>6 DEF Agree
            <4>2. CASE StartAt(v, l) = StartAt(plain, l)
                <5> DEFINE x == Verdict(v, StartAt(v, l), {item}, FALSE)
                           y == Verdict(plain, StartAt(v, l), {item}, FALSE)
                <5>1. x \in {y}
                    BY <4>1, TraceVerdict
                <5> HIDE DEF x, y
                <5>2. x = y
                    BY <5>1
                <5>3. Verdict(v, StartAt(v, l), {item}, FALSE) = Verdict(plain, StartAt(v, l), {item}, FALSE)
                    BY <5>2 DEF x, y
                <5> QED
                    BY <4>2, <5>3
            <4>3. CASE StartAt(v, l) \notin Nodes(v.clean) /\ StartAt(plain, l) \notin Nodes(v.clean)
                BY <4>1, <4>3, NoStartFails
            <4> QED
                BY <4>1, <4>2, <4>3, StartsAgree
        <3>7. with_held => \A s \in Id, item \in cited :
                              Verdict(v, s, {item}, FALSE) = Verdict(plain, s, {item}, FALSE)
            <4> SUFFICES ASSUME with_held, NEW s \in Id, NEW item \in cited
                         PROVE  Verdict(v, s, {item}, FALSE) = Verdict(plain, s, {item}, FALSE)
                OBVIOUS
            <4> DEFINE x == Verdict(v, s, {item}, FALSE)
                       y == Verdict(plain, s, {item}, FALSE)
            <4>1. x \in {y}
                BY <3>4, TraceVerdict
            <4> HIDE DEF x, y
            <4>2. x = y
                BY <4>1
            <4> QED
                BY <4>2 DEF x, y
        <3>8. with_held => \A s \in Id, item \in Item :
                  Verdict(v, s, {item}, TRUE) \in {Verdict(plain, s, {item}, TRUE), "INCONCLUSIVE"}
            BY <3>4, AbsenceVerdict
        <3> HIDE DEF cited
        <3> QED
            BY <3>2, <3>3, <3>5, <3>6, <3>7, <3>8
    <2> QED
        BY <2>2 DEF HeldNeverLifts
<1> QED
    BY <1>1, TypedAlways, SourcedAlways, PTL
-----------------------------------------------------------------------------
(* A proven absence.                                                       *)

\* An end that lands on an id, of everything the units found, names it.
LEMMA LandsOnId ==
    ASSUME Typed, NEW R \in SUBSET Unit, NEW p \in Written(R), NEW e \in Sides(Said(p)),
           NEW i \in Id, Land(R, Known(R), p[1], e) = i
    PROVE  i \in Known(R) /\ Named(R, e) = i
<1>1. e.local => e.id \in Known(R)
    BY SaidIs DEF Known
<1>2. Known(R) \subseteq Id
    BY AcceptedKnown DEF Rule
<1>3. KnownRecords(R) \subseteq Record /\ Id \cap Record = {}
      /\ \A gap \in Record \X Mention : gap \notin Id \cup Record
    BY CorpusAssumption DEF KnownRecords
<1>4. \/ Land(R, Known(R), p[1], e) \in Known(R) /\ Land(R, Known(R), p[1], e) = Named(R, e)
      \/ Land(R, Known(R), p[1], e) \in KnownRecords(R)
      \/ Land(R, Known(R), p[1], e) \in Record \X Mention
    BY <1>1, <1>2, EndLands
<1> QED
    BY <1>3, <1>4

\* When no id is found twice, an end that lands on an id names the entity as its unit found it.
LEMMA LandsThenNames ==
    ASSUME Typed, FoundOnce, NEW p \in Written(complete), NEW e \in Sides(Said(p)),
           NEW i \in Id, Land(complete, Known(complete), p[1], e) = i,
           NEW u \in complete, i \in DOMAIN First(u).entity
    PROVE  Names(e, i, u)
<1>1. complete \in SUBSET Unit
    BY DEF Typed
<1>2. i \in Known(complete) /\ Named(complete, e) = i
    BY <1>1, LandsOnId
<1>3. i # None
    BY CorpusAssumption
<1>4. CASE e.local
    BY <1>2, <1>4 DEF Named, Names
<1>5. CASE ~e.local /\ e.id # None
    BY <1>2, <1>3, <1>5 DEF Named, Names
<1>6. CASE ~e.local /\ e.id = None
    <2>1. e.record # None /\ e.label # None /\ LabelMatch(complete, e.record, e.label) = i
        BY <1>2, <1>3, <1>6 DEF Named
    <2> DEFINE ids == Carriers(complete, e.record, e.label)
    <2>2. Cardinality(ids) = 1 /\ i = CHOOSE j \in ids : TRUE
        BY <1>3, <2>1 DEF LabelMatch
    <2>3. ids # {}
        BY <2>2, FS_EmptySet
    <2>4. i \in ids
        <3> HIDE DEF ids
        <3> QED
            BY <2>2, <2>3
    <2>5. IdRecord[i] = e.record
          /\ \E w \in complete : i \in DOMAIN First(w).entity /\ First(w).entity[i].label = e.label
        BY <2>4 DEF Carriers
    <2>6. First(u).entity[i].label = e.label
        BY <2>5 DEF FoundOnce
    <2> QED
        BY <1>6, <2>1, <2>5, <2>6 DEF Names
<1> QED
    BY <1>4, <1>5, <1>6

\* The unit an id is read from is the one that found it.
LEMMA WriterIs ==
    ASSUME Typed, FoundOnce, NEW rule \in Rule, NEW u \in complete, NEW i \in DOMAIN First(u).entity
    PROVE  Writer(complete, rule, i) = u /\ i \in Id
<1>1. complete \in SUBSET Unit /\ i \in Known(complete)
    BY DEF Typed, Known
<1>2. Writer(complete, rule, i) \in complete /\ i \in DOMAIN First(Writer(complete, rule, i)).entity
    BY <1>1, WriterFound
<1>3. Known(complete) \subseteq Id
    BY <1>1, AcceptedKnown
<1> QED
    BY <1>1, <1>2, <1>3 DEF FoundOnce

\* A held link with one end at an accepted item of the line and the other at an entity the walk
\* visited is a held link the report finds.
LEMMA HeldLinkIsFound ==
    ASSUME Typed, FoundOnce, loaded \in Loads, loaded.units = complete,
           NEW v, v.held = HeldLinks(loaded.rule),
           NEW u \in complete, NEW line, NEW i \in AcceptedAt(u, line),
           NEW visited, NEW m \in visited, m \in Accepted(complete, loaded.rule), m # i,
           NEW p \in HeldLinks(loaded.rule),
           LET key == Key(complete, Known(complete), p) IN {key[2], key[3]} = {m, i}
    PROVE  LinkHeld(v, u, line, visited, TRUE)
<1> DEFINE key == Key(complete, Known(complete), p)
           e == Said(p).source
           f == Said(p).target
           landed(x) == Land(complete, Known(complete), p[1], x)
<1>1. complete \in SUBSET Unit /\ loaded.rule \in Rule
    BY DEF Typed, Loads
<1>2. p \in Written(complete)
    BY DEF HeldLinks, HeldPairs, HeldAcross, Routed
<1>3. i \in DOMAIN First(u).entity /\ i \in EntitiesAt(u, line)
    BY DEF AcceptedAt, EntitiesAt
<1>4. i \in Id
    BY <1>1, <1>3, WriterIs
<1>5. PICK w \in complete : m \in DOMAIN First(w).entity
    <2>1. m \in Known(complete)
        BY <1>1, AcceptedKnown
    <2> QED
        BY <2>1 DEF Known
<1>6. m \in Id /\ Indexed(m) = w
    BY <1>1, <1>5, WriterIs DEF Indexed
<1>7. e \in Sides(Said(p)) /\ f \in Sides(Said(p))
    BY DEF Sides
<1>8. key[2] = landed(e) /\ key[3] = landed(f)
    BY DEF Key
<1>9. ASSUME NEW x \in Sides(Said(p)), landed(x) = i
      PROVE  Names(x, i, u)
    BY <1>2, <1>3, <1>4, <1>9, LandsThenNames
<1>10. ASSUME NEW x \in Sides(Said(p)), landed(x) = m
       PROVE  NamesVisited(x, visited)
    <2>1. Names(x, m, w)
        BY <1>2, <1>5, <1>6, <1>10, LandsThenNames
    <2> QED
        BY <1>6, <2>1 DEF NamesVisited
<1>11. \/ landed(e) = i /\ landed(f) = m
       \/ landed(e) = m /\ landed(f) = i
    <2> HIDE DEF key, landed
    <2>1. {landed(e), landed(f)} = {m, i}
        BY <1>8 DEF key
    <2> QED
        BY <2>1
<1> HIDE DEF landed
<1> QED
    BY <1>3, <1>7, <1>9, <1>10, <1>11 DEF LinkHeld

\* What a passed absence says of its one item.
LEMMA PassSays ==
    ASSUME NEW v, NEW start, NEW item, Verdict(v, start, {item}, TRUE) = "PASS"
    PROVE  LET quoted == Quoted(item)
               u == LineUnit[quoted.line]
               visited == CleanWalk(v, start)
           IN  /\ start \in Nodes(v.clean)
               /\ u \in complete /\ AcceptedAt(u, quoted.line) # {}
               /\ ReachedAt(v, visited, quoted) = {}
               /\ ~LinkHeld(v, u, quoted.line, visited, TRUE)
<1> DEFINE f == Finding(v, start, item, TRUE)
           quoted == Quoted(item)
           u == LineUnit[quoted.line]
           visited == CleanWalk(v, start)
           reason == Reason(v, visited, quoted, TRUE)
           reached == ReachedAt(v, visited, quoted) # {}
           heldOnly == v.withHeld /\ ~reached /\ ReachedAt(v, Visited(v.shown, start), quoted) # {}
           here == u \in complete /\ AcceptedAt(u, quoted.line) # {}
<1>1. /\ f.reached = reached /\ f.heldOnly = heldOnly /\ f.acceptedHere = here
      /\ f.reason = IF reached \/ heldOnly THEN None ELSE reason
    BY DEF Finding
<1>2. reason \in {"section_not_extracted", "held_for_review", "unresolved_endpoint",
                  "record_not_expanded", "link_held", "no_link"}
      /\ (reason = "no_link" => ~LinkHeld(v, u, quoted.line, visited, TRUE))
    <2> HIDE DEF visited, quoted
    <2> QED
        BY DEF Reason, u
<1>3. ~f.reached /\ AbsenceHolds(v, start, f)
    <2> DEFINE x == Verdict(v, start, {item}, TRUE)
    <2>1. x = IF f.reached THEN "FAIL" ELSE IF AbsenceHolds(v, start, f) THEN "PASS" ELSE "INCONCLUSIVE"
        BY VerdictIs
    <2>2. x = "PASS"
        OBVIOUS
    <2> HIDE DEF f, x
    <2> QED
        BY <2>1, <2>2
<1> HIDE DEF f, reason, heldOnly, here, reached
<1>4. ~reached /\ ~heldOnly /\ here /\ start \in Nodes(v.clean) /\ reason \in {None, "no_link"}
    BY <1>1, <1>3 DEF AbsenceHolds
<1>5. reason = "no_link"
    BY <1>2, <1>4, NothingAssumption
<1> QED
    BY <1>2, <1>4, <1>5 DEF here, reached, quoted, u, visited

\* An absence that passes is proven: for every corpus, walk length and held link, over a graph
\* that holds what the run files say.
THEOREM AbsencesAreProven == Spec => []AbsenceProven
<1>1. Typed => AbsenceProven
    <2> SUFFICES ASSUME Typed, loaded # None, Current, FoundOnce, NEW with_held \in Views,
                        NEW start \in Id, NEW item \in Item,
                        Verdict(View(loaded, with_held), start, {item}, TRUE) = "PASS"
                 PROVE  Proven(GraphNow, start, item)
        BY DEF AbsenceProven, AbsenceAlwaysProven
    <2>1. loaded \in Loads /\ loaded.units = complete /\ loaded.rule \in Rule
          /\ complete \in SUBSET Unit /\ loaded.held \in BOOLEAN
        BY DEF Typed, Loads, Current
    <2>2. with_held \in BOOLEAN /\ (with_held => loaded.held)
        BY <2>1 DEF Views
    <2>3. PICK v : v = View(loaded, with_held)
        OBVIOUS
    <2>4. /\ IsAccepted(v.clean, complete, loaded.rule)
          /\ IsWhole(v.shown, complete, loaded.rule) \/ IsAccepted(v.shown, complete, loaded.rule)
          /\ v.load = loaded /\ v.held = HeldLinks(loaded.rule)
        BY <2>1, <2>2, <2>3, ViewIs
    <2>5. PICK g : g = GraphNow
        OBVIOUS
    <2>6. IsAccepted(g, complete, loaded.rule)
        <3>1. g = GraphSlice(LoadedGraph(complete, loaded.rule, FALSE), FALSE)
            BY <2>5 DEF GraphNow, Shown
        <3> QED
            BY <2>1, <3>1, AcceptedIs
    <2>7. CleanWalk(v, start) = Visited(g, start)
        <3>1. Below(v.clean, g) /\ Below(g, v.clean)
            BY <2>1, <2>4, <2>6, AcceptedBelow
        <3> QED
            BY <3>1, SameVisits DEF CleanWalk
    <2> DEFINE quoted == Quoted(item)
               u == LineUnit[quoted.line]
    <2>8. u = LineUnit[item.line]
        BY EvaluationAssumption DEF Quoted, Item
    <2>9. /\ start \in Nodes(v.clean) /\ u \in complete /\ AcceptedAt(u, quoted.line) # {}
          /\ ReachedAt(v, Visited(g, start), quoted) = {}
          /\ ~LinkHeld(v, u, quoted.line, Visited(g, start), TRUE)
        BY <2>3, <2>7, PassSays
    <2> HIDE DEF u, quoted
    <2>10. PICK i \in AcceptedAt(u, quoted.line) : TRUE
        BY <2>9
    <2>11. i \in DOMAIN First(u).entity /\ First(u).entity[i].line = quoted.line
        BY DEF AcceptedAt, EntitiesAt
    <2>12. i \in Id /\ FileLine(complete, loaded.rule, i) = quoted.line
        BY <2>1, <2>9, <2>11, WriterIs DEF FileLine
    <2>13. i \notin Visited(g, start)
        <3>1. SUFFICES ASSUME i \in Visited(g, start) PROVE FALSE
            OBVIOUS
        <3>2. i \in Nodes(v.shown) /\ v.shown.node[i].kind = "Entity"
            <4>1. i \in Nodes(g)
                BY <3>1, VisitsNodes
            <4>2. i \in Nodes(v.shown)
                BY <2>4, <2>6, <4>1 DEF IsAccepted, IsWhole
            <4> QED
                BY <2>4, <2>12, <4>2 DEF IsAccepted, IsWhole, KindIs
        <3>3. i \in AtLine(v, v.shown, quoted.line)
            BY <2>1, <2>4, <2>12, <3>2 DEF AtLine, Entities
        <3> QED
            BY <2>9, <3>1, <3>3 DEF ReachedAt
    <2>14. ASSUME NEW p \in HeldLinks(loaded.rule), i \in Visited(WithReleased(g, p), start)
           PROVE  ~Joins(p, i)
        <3> DEFINE key == Key(complete, Known(complete), p)
                   k == [type |-> key[1], source |-> key[2], target |-> key[3], held |-> FALSE]
                   f == WithReleased(g, p)
        <3>1. SUFFICES ASSUME Joins(p, i) PROVE FALSE
            OBVIOUS
        <3>2. f.node = g.node /\ f.links \subseteq g.links \cup {k}
            BY DEF WithReleased
        <3>3. Ends(k) = {key[2], key[3]}
            BY DEF Ends
        <3>4. i \in Ends(k)
            <4>1. \/ Land(complete, Known(complete), p[1], Said(p).source) = i
                  \/ Land(complete, Known(complete), p[1], Said(p).target) = i
                BY <3>1 DEF Joins, Sides
            <4>2. key[2] = Land(complete, Known(complete), p[1], Said(p).source)
                  /\ key[3] = Land(complete, Known(complete), p[1], Said(p).target)
                BY DEF Key
            <4> HIDE DEF key, k
            <4> QED
                BY <3>3, <4>1, <4>2
        <3> HIDE DEF k, f
        <3>5. /\ Visited(g, start) = Within(g, start, MAX_HOPS)
              /\ Visited(f, start) = Within(f, start, MAX_HOPS)
              /\ MAX_HOPS \in Nat
            <4>1. start \in Nodes(g)
                BY <2>4, <2>6, <2>9 DEF IsAccepted
            <4> QED
                BY <3>2, <4>1, EvaluationAssumption DEF Visited, Nodes
        <3>6. PICK m \in Visited(g, start) : m # i /\ Ends(k) = {m, i} /\ m \in Nodes(g) /\ ~Terminal(g, m)
            BY <2>13, <2>14, <3>2, <3>4, <3>5, ReleasedFrom DEF f
        <3>7. m \in Accepted(complete, loaded.rule)
            <4>1. m \in Id
                BY <2>6, <3>6 DEF IsAccepted, KindIs, Terminal
            <4>2. m \in AcceptedNodes(complete, loaded.rule)
                BY <2>6, <3>6 DEF IsAccepted
            <4>3. AcceptedNodes(complete, loaded.rule) \cap Id = Accepted(complete, loaded.rule)
                BY <2>1, NodesApart
            <4> QED
                BY <4>1, <4>2, <4>3
        <3> HIDE DEF key
        <3>8. {key[2], key[3]} = {m, i}
            BY <3>3, <3>6
        <3>9. LinkHeld(v, u, quoted.line, Visited(g, start), TRUE)
            BY <2>1, <2>4, <2>9, <3>6, <3>7, <3>8, HeldLinkIsFound DEF key
        <3> QED
            BY <2>9, <3>9
    <2>15. i \in AcceptedAt(LineUnit[item.line], Quoted(item).line)
        BY <2>8, <2>10 DEF quoted
    <2>16. Proven(g, start, item)
        BY <2>13, <2>14, <2>15 DEF Proven
    <2> QED
        BY <2>5, <2>16
<1> QED
    BY <1>1, TypedAlways, PTL
=============================================================================
