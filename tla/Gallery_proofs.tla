---------------------------- MODULE Gallery_proofs ----------------------------
(***************************************************************************)
(* Theorems about Gallery, over any answers, marks files, articles and     *)
(* file snapshots.  First what the operators do to sequences: Only keeps   *)
(* members in order, the sections partition the entries, the page order is *)
(* their concatenation, and the places of a citation are counted.  Then    *)
(* the page: it names only files written before it (GalleryInv).  Then the *)
(* graphs: one article agrees with its graph by the definitions of both    *)
(* modules (EntryAgrees), and what is on disk once a build ended is what   *)
(* it planned (Standing).                                                  *)
(***************************************************************************)
EXTENDS Gallery, AskGuard_proofs

\* A set of naturals has a least one.
LEMMA LeastNatural ==
    ASSUME NEW T \in SUBSET Nat, T # {}
    PROVE  \E x \in T : \A y \in T : ~(y < x)
<1> DEFINE less == OpToRel(<, Nat)
<1>1. IsWellFoundedOn(less, Nat)
    BY NatLessThanWellFounded
<1>2. \A x, y \in Nat : y < x => <<y, x>> \in less
    BY DEF OpToRel
<1> HIDE DEF less
<1>3. PICK x \in T : \A y \in T : <<y, x>> \notin less
    BY <1>1, WFMin
<1> QED
    BY <1>2, <1>3
-----------------------------------------------------------------------------
(* Sequences cut and joined.                                               *)

\* One step of Only, and its recursion.
More(s, S, k, r) == IF s[k] \in S THEN Append(r, s[k]) ELSE r
IsOnly(f, s, S, h) == f = [k \in 0 .. h |-> IF k = 0 THEN <<>> ELSE More(s, S, k, f[k - 1])]

\* The recursion is one: there is a function for every length.
LEMMA OnlyExists ==
    ASSUME NEW s, NEW S, NEW h \in Nat
    PROVE  \E f : IsOnly(f, s, S, h)
<1> DEFINE bad == {m \in Nat : ~\E f : IsOnly(f, s, S, m)}
<1>1. SUFFICES ASSUME bad # {} PROVE FALSE
    OBVIOUS
<1>2. PICK m \in bad : \A y \in bad : ~(y < m)
    <2>1. bad \in SUBSET Nat
        OBVIOUS
    <2> HIDE DEF bad
    <2> QED
        BY <1>1, <2>1, LeastNatural
<1>3. m \in Nat /\ ~\E f : IsOnly(f, s, S, m)
    BY <1>2
<1>4. CASE m = 0
    <2> DEFINE f == [k \in 0 .. 0 |-> <<>>]
    <2>1. f = [k \in 0 .. 0 |-> IF k = 0 THEN <<>> ELSE More(s, S, k, f[k - 1])]
        OBVIOUS
    <2> HIDE DEF f
    <2>2. IsOnly(f, s, S, m)
        BY <1>4, <2>1 DEF IsOnly
    <2> QED
        BY <1>3, <2>2
<1>5. CASE m # 0
    <2>1. m - 1 \in Nat /\ m - 1 < m /\ m - 1 \notin bad
        BY <1>2, <1>3, <1>5
    <2>2. PICK e : IsOnly(e, s, S, m - 1)
        BY <2>1
    <2> DEFINE f == [k \in 0 .. m |-> IF k = m THEN More(s, S, m, e[m - 1]) ELSE e[k]]
    <2>3. \A k \in 0 .. m - 1 : e[k] = IF k = 0 THEN <<>> ELSE More(s, S, k, e[k - 1])
        BY <2>2 DEF IsOnly
    <2>4. ASSUME NEW k \in 0 .. m
          PROVE  f[k] = IF k = 0 THEN <<>> ELSE More(s, S, k, f[k - 1])
        <3>1. CASE k = m
            <4>1. f[k - 1] = e[m - 1] /\ f[k] = More(s, S, m, e[m - 1])
                BY <1>3, <1>5, <3>1
            <4> HIDE DEF f
            <4> QED
                BY <1>5, <3>1, <4>1
        <3>2. CASE k # m /\ k # 0
            <4>1. k \in 0 .. m - 1 /\ k - 1 \in 0 .. m /\ k - 1 # m
                BY <1>3, <3>2
            <4>2. f[k] = e[k] /\ f[k - 1] = e[k - 1]
                BY <3>2, <4>1
            <4> HIDE DEF f
            <4> QED
                BY <2>3, <3>2, <4>1, <4>2
        <3>3. CASE k = 0
            <4>1. f[k] = e[0] /\ 0 \in 0 .. m - 1
                BY <1>3, <1>5, <3>3
            <4> HIDE DEF f
            <4> QED
                BY <2>3, <3>3, <4>1
        <3> QED
            BY <3>1, <3>2, <3>3
    <2>5. f = [k \in 0 .. m |-> f[k]]
        OBVIOUS
    <2> HIDE DEF f
    <2>6. IsOnly(f, s, S, m)
        BY <2>4, <2>5 DEF IsOnly
    <2> QED
        BY <1>3, <2>6
<1> QED
    BY <1>4, <1>5

\* What such a function holds: at each length, the members of S met so far.
Keeping(f, s, S, T) ==
    /\ f[0] = <<>> /\ f[Len(s)] = Only(s, S)
    /\ \A k \in 1 .. Len(s) : f[k] = More(s, S, k, f[k - 1])
    /\ \A k \in 0 .. Len(s) :
          /\ f[k] \in Seq(T \cap S)
          /\ \A x : x \in Range(f[k]) <=> x \in S /\ \E j \in 1 .. k : s[j] = x

\* Only keeps the members of a set, in order, and nothing else.
LEMMA OnlyIs ==
    ASSUME NEW T, NEW s \in Seq(T), NEW S
    PROVE  \E f : Keeping(f, s, S, T)
<1> DEFINE f == CHOOSE f : IsOnly(f, s, S, Len(s))
<1>1. Len(s) \in Nat /\ \A k \in 1 .. Len(s) : s[k] \in T
    OBVIOUS
<1>2. IsOnly(f, s, S, Len(s))
    BY <1>1, OnlyExists
<1>3. Only(s, S) = f[Len(s)]
    BY DEF Only, IsOnly, More
<1> HIDE DEF f
<1>4. \A k \in 0 .. Len(s) : f[k] = IF k = 0 THEN <<>> ELSE More(s, S, k, f[k - 1])
    BY <1>2 DEF IsOnly
<1> DEFINE good(k) == /\ f[k] \in Seq(T \cap S)
                      /\ \A x : x \in Range(f[k]) <=> x \in S /\ \E j \in 1 .. k : s[j] = x
           bad == {k \in 0 .. Len(s) : ~good(k)}
<1>5. bad = {}
    <2>1. SUFFICES ASSUME bad # {} PROVE FALSE
        OBVIOUS
    <2>2. PICK m \in bad : \A y \in bad : ~(y < m)
        <3>1. bad \in SUBSET Nat
            OBVIOUS
        <3> HIDE DEF bad
        <3> QED
            BY <2>1, <3>1, LeastNatural
    <2>3. m \in 0 .. Len(s) /\ ~good(m)
        BY <2>2
    <2>4. CASE m = 0
        <3>1. f[m] = <<>> /\ 1 .. m = {} /\ Range(<<>>) = {}
            BY <1>4, <2>3, <2>4 DEF Range
        <3> QED
            BY <2>3, <3>1
    <2>5. CASE m # 0
        <3>1. m - 1 \in 0 .. Len(s) /\ m - 1 < m /\ m \in 1 .. Len(s)
            BY <1>1, <2>3, <2>5
        <3>2. good(m - 1)
            BY <2>2, <3>1
        <3> DEFINE r == f[m - 1]
        <3>3. f[m] = More(s, S, m, r)
            BY <1>4, <2>3, <2>5
        <3>4. /\ r \in Seq(T \cap S)
              /\ \A x : x \in Range(r) <=> x \in S /\ \E j \in 1 .. m - 1 : s[j] = x
            BY <3>2
        <3>5. \A j : j \in 1 .. m <=> j \in 1 .. m - 1 \/ j = m
            BY <3>1
        <3> HIDE DEF bad, r
        <3>6. CASE s[m] \in S
            <4>1. f[m] = Append(r, s[m]) /\ s[m] \in T \cap S
                BY <1>1, <3>1, <3>3, <3>6 DEF More
            <4>2. Append(r, s[m]) \in Seq(T \cap S)
                BY <3>4, <4>1
            <4>3. \A x : x \in Range(Append(r, s[m])) <=> x \in Range(r) \/ x = s[m]
                <5>1. /\ Len(r) \in Nat /\ DOMAIN r = 1 .. Len(r)
                      /\ DOMAIN Append(r, s[m]) = 1 .. Len(r) + 1
                      /\ Append(r, s[m])[Len(r) + 1] = s[m]
                      /\ \A j \in 1 .. Len(r) : Append(r, s[m])[j] = r[j]
                    BY <3>4
                <5>2. \A j : j \in 1 .. Len(r) + 1 <=> j \in 1 .. Len(r) \/ j = Len(r) + 1
                    BY <5>1
                <5> QED
                    BY <5>1, <5>2 DEF Range
            <4> QED
                BY <2>3, <3>4, <3>5, <3>6, <4>1, <4>2, <4>3
        <3>7. CASE s[m] \notin S
            <4>1. f[m] = r
                BY <3>3, <3>7 DEF More
            <4> QED
                BY <2>3, <3>4, <3>5, <3>7, <4>1
        <3> QED
            BY <3>6, <3>7
    <2> QED
        BY <2>4, <2>5
<1>6. \A k \in 0 .. Len(s) : good(k)
    BY <1>5
<1>7. \A k \in 1 .. Len(s) : f[k] = More(s, S, k, f[k - 1])
    BY <1>1, <1>4
<1>8. f[0] = <<>>
    BY <1>1, <1>4
<1> QED
    BY <1>3, <1>6, <1>7, <1>8 DEF Keeping

\* What is left is what the sequence has of the set.
LEMMA OnlyHolds ==
    ASSUME NEW T, NEW s \in Seq(T), NEW S
    PROVE  Only(s, S) \in Seq(T \cap S) /\ Range(Only(s, S)) = Range(s) \cap S
<1>a. PICK f : Keeping(f, s, S, T)
    BY OnlyIs
<1>1. /\ f[Len(s)] = Only(s, S)
      /\ \A k \in 0 .. Len(s) :
            /\ f[k] \in Seq(T \cap S)
            /\ \A x : x \in Range(f[k]) <=> x \in S /\ \E j \in 1 .. k : s[j] = x
    BY <1>a DEF Keeping
<1>2. Len(s) \in 0 .. Len(s) /\ DOMAIN s = 1 .. Len(s)
    OBVIOUS
<1>3. \A x : x \in Range(s) <=> \E j \in 1 .. Len(s) : s[j] = x
    BY <1>2 DEF Range
<1> QED
    BY <1>1, <1>2, <1>3

\* Three sets that share out the members share out the length.
LEMMA OnlyShares ==
    ASSUME NEW T, NEW s \in Seq(T), NEW A, NEW B, NEW C,
           \A x \in Range(s) : \/ x \in A /\ x \notin B /\ x \notin C
                               \/ x \in B /\ x \notin A /\ x \notin C
                               \/ x \in C /\ x \notin A /\ x \notin B
    PROVE  Len(Only(s, A)) + Len(Only(s, B)) + Len(Only(s, C)) = Len(s)
<1>a. PICK a : Keeping(a, s, A, T)
    BY OnlyIs
<1>1. /\ a[0] = <<>> /\ a[Len(s)] = Only(s, A)
      /\ \A k \in 1 .. Len(s) : a[k] = More(s, A, k, a[k - 1])
      /\ \A k \in 0 .. Len(s) : a[k] \in Seq(T \cap A)
    BY <1>a DEF Keeping
<1>b. PICK b : Keeping(b, s, B, T)
    BY OnlyIs
<1>2. /\ b[0] = <<>> /\ b[Len(s)] = Only(s, B)
      /\ \A k \in 1 .. Len(s) : b[k] = More(s, B, k, b[k - 1])
      /\ \A k \in 0 .. Len(s) : b[k] \in Seq(T \cap B)
    BY <1>b DEF Keeping
<1>c. PICK c : Keeping(c, s, C, T)
    BY OnlyIs
<1>3. /\ c[0] = <<>> /\ c[Len(s)] = Only(s, C)
      /\ \A k \in 1 .. Len(s) : c[k] = More(s, C, k, c[k - 1])
      /\ \A k \in 0 .. Len(s) : c[k] \in Seq(T \cap C)
    BY <1>c DEF Keeping
<1>4. Len(s) \in Nat /\ \A k \in 1 .. Len(s) : s[k] \in Range(s)
    BY DEF Range
<1> DEFINE bad == {k \in 0 .. Len(s) : Len(a[k]) + Len(b[k]) + Len(c[k]) # k}
<1>5. bad = {}
    <2>1. SUFFICES ASSUME bad # {} PROVE FALSE
        OBVIOUS
    <2>2. PICK m \in bad : \A y \in bad : ~(y < m)
        <3>0. 0 .. Len(s) \subseteq Nat
            BY <1>4
        <3>1. bad \in SUBSET Nat
            BY <3>0
        <3> HIDE DEF bad
        <3> QED
            BY <2>1, <3>1, LeastNatural
    <2>3. m \in 0 .. Len(s) /\ Len(a[m]) + Len(b[m]) + Len(c[m]) # m
        BY <2>2
    <2>4. m # 0
        <3>1. Len(a[0]) + Len(b[0]) + Len(c[0]) = 0
            BY <1>1, <1>2, <1>3
        <3> QED
            BY <2>3, <3>1
    <2>5. m - 1 \in 0 .. Len(s) /\ m - 1 < m /\ m \in 1 .. Len(s)
        BY <1>4, <2>3, <2>4
    <2>6. Len(a[m - 1]) + Len(b[m - 1]) + Len(c[m - 1]) = m - 1
        BY <2>2, <2>5
    <2>7. a[m - 1] \in Seq(T \cap A) /\ b[m - 1] \in Seq(T \cap B) /\ c[m - 1] \in Seq(T \cap C)
        BY <1>1, <1>2, <1>3, <2>5
    <2>8. s[m] \in T
        BY <2>5
    <2>9. /\ Len(a[m]) = IF s[m] \in A THEN Len(a[m - 1]) + 1 ELSE Len(a[m - 1])
          /\ Len(b[m]) = IF s[m] \in B THEN Len(b[m - 1]) + 1 ELSE Len(b[m - 1])
          /\ Len(c[m]) = IF s[m] \in C THEN Len(c[m - 1]) + 1 ELSE Len(c[m - 1])
        <3>1. /\ a[m] = More(s, A, m, a[m - 1]) /\ b[m] = More(s, B, m, b[m - 1])
              /\ c[m] = More(s, C, m, c[m - 1])
            BY <1>1, <1>2, <1>3, <2>5
        <3>2. /\ Len(Append(a[m - 1], s[m])) = Len(a[m - 1]) + 1
              /\ Len(Append(b[m - 1], s[m])) = Len(b[m - 1]) + 1
              /\ Len(Append(c[m - 1], s[m])) = Len(c[m - 1]) + 1
            BY <2>7, <2>8
        <3> QED
            BY <3>1, <3>2 DEF More
    <2>10. Len(a[m - 1]) \in Nat /\ Len(b[m - 1]) \in Nat /\ Len(c[m - 1]) \in Nat
        BY <2>7
    <2>11. \/ s[m] \in A /\ s[m] \notin B /\ s[m] \notin C
           \/ s[m] \in B /\ s[m] \notin A /\ s[m] \notin C
           \/ s[m] \in C /\ s[m] \notin A /\ s[m] \notin B
        BY <1>4, <2>5
    <2>12. Len(a[m]) + Len(b[m]) + Len(c[m]) = m
        <3> DEFINE x == Len(a[m - 1])
                   y == Len(b[m - 1])
                   z == Len(c[m - 1])
        <3>a. m \in Nat
            BY <1>4, <2>5
        <3>1. x \in Nat /\ y \in Nat /\ z \in Nat /\ x + y + z = m - 1 /\ m \in Nat
            BY <2>6, <2>10, <3>a
        <3>2. \/ Len(a[m]) = x + 1 /\ Len(b[m]) = y /\ Len(c[m]) = z
              \/ Len(a[m]) = x /\ Len(b[m]) = y + 1 /\ Len(c[m]) = z
              \/ Len(a[m]) = x /\ Len(b[m]) = y /\ Len(c[m]) = z + 1
            BY <2>9, <2>11
        <3> DEFINE p == Len(a[m])
                   q == Len(b[m])
                   r == Len(c[m])
        <3>3. \/ p = x + 1 /\ q = y /\ r = z
              \/ p = x /\ q = y + 1 /\ r = z
              \/ p = x /\ q = y /\ r = z + 1
            BY <3>2
        <3> HIDE DEF x, y, z, p, q, r
        <3>4. p + q + r = m
            BY <3>1, <3>3
        <3> QED
            BY <3>4 DEF p, q, r
    <2> QED
        BY <2>3, <2>12
<1>6. Len(s) \in 0 .. Len(s)
    BY <1>4
<1>7. Len(a[Len(s)]) + Len(b[Len(s)]) + Len(c[Len(s)]) = Len(s)
    BY <1>5, <1>6
<1> QED
    BY <1>1, <1>2, <1>3, <1>7

\* The recursion of FlattenSeq.
IsFlat(f, seqs, h) == f = [i \in 1 .. h |-> IF i = 1 THEN seqs[i] ELSE f[i - 1] \o seqs[i]]

\* The recursion is one: there is a function for every length.
LEMMA FlatExists ==
    ASSUME NEW seqs, NEW h \in Nat
    PROVE  \E f : IsFlat(f, seqs, h)
<1> DEFINE bad == {m \in Nat : ~\E f : IsFlat(f, seqs, m)}
<1>1. SUFFICES ASSUME bad # {} PROVE FALSE
    OBVIOUS
<1>2. PICK m \in bad : \A y \in bad : ~(y < m)
    <2>1. bad \in SUBSET Nat
        OBVIOUS
    <2> HIDE DEF bad
    <2> QED
        BY <1>1, <2>1, LeastNatural
<1>3. m \in Nat /\ ~\E f : IsFlat(f, seqs, m)
    BY <1>2
<1>4. CASE m = 0
    <2> DEFINE f == [i \in 1 .. 0 |-> <<>>]
    <2>1. f = [i \in 1 .. 0 |-> IF i = 1 THEN seqs[i] ELSE f[i - 1] \o seqs[i]]
        OBVIOUS
    <2> HIDE DEF f
    <2>2. IsFlat(f, seqs, m)
        BY <1>4, <2>1 DEF IsFlat
    <2> QED
        BY <1>3, <2>2
<1>5. CASE m # 0
    <2>1. m - 1 \in Nat /\ m - 1 < m /\ m - 1 \notin bad
        BY <1>2, <1>3, <1>5
    <2>2. PICK e : IsFlat(e, seqs, m - 1)
        BY <2>1
    <2> DEFINE last == IF m = 1 THEN seqs[m] ELSE e[m - 1] \o seqs[m]
               f == [i \in 1 .. m |-> IF i = m THEN last ELSE e[i]]
    <2>3. \A i \in 1 .. m - 1 : e[i] = IF i = 1 THEN seqs[i] ELSE e[i - 1] \o seqs[i]
        BY <2>2 DEF IsFlat
    <2>4. ASSUME NEW i \in 1 .. m
          PROVE  f[i] = IF i = 1 THEN seqs[i] ELSE f[i - 1] \o seqs[i]
        <3>1. CASE i = m /\ i # 1
            <4>0. i - 1 \in 1 .. m /\ i - 1 # m /\ m # 1
                BY <1>3, <1>5, <3>1
            <4>1. f[i - 1] = e[m - 1] /\ f[i] = e[m - 1] \o seqs[m]
                BY <3>1, <4>0
            <4> HIDE DEF f
            <4> QED
                BY <3>1, <4>1
        <3>2. CASE i = m /\ i = 1
            <4>1. f[i] = seqs[m]
                BY <3>2
            <4> HIDE DEF f
            <4> QED
                BY <3>2, <4>1
        <3>3. CASE i # m /\ i # 1
            <4>1. i \in 1 .. m - 1 /\ i - 1 \in 1 .. m /\ i - 1 # m
                BY <1>3, <3>3
            <4>2. f[i] = e[i] /\ f[i - 1] = e[i - 1]
                BY <3>3, <4>1
            <4> HIDE DEF f
            <4> QED
                BY <2>3, <3>3, <4>1, <4>2
        <3>4. CASE i # m /\ i = 1
            <4>1. f[i] = e[1] /\ 1 \in 1 .. m - 1
                BY <1>3, <3>4
            <4> HIDE DEF f
            <4> QED
                BY <2>3, <3>4, <4>1
        <3> QED
            BY <3>1, <3>2, <3>3, <3>4
    <2>5. f = [i \in 1 .. m |-> f[i]]
        OBVIOUS
    <2> HIDE DEF f
    <2>6. IsFlat(f, seqs, m)
        BY <2>4, <2>5 DEF IsFlat
    <2> QED
        BY <1>3, <2>6
<1> QED
    BY <1>4, <1>5

\* Joined sequences hold what each holds.
LEMMA JoinHolds ==
    ASSUME NEW T, NEW s \in Seq(T), NEW t \in Seq(T)
    PROVE  s \o t \in Seq(T) /\ Range(s \o t) = Range(s) \cup Range(t)
<1>1. /\ Len(s) \in Nat /\ Len(t) \in Nat /\ DOMAIN s = 1 .. Len(s) /\ DOMAIN t = 1 .. Len(t)
      /\ s \o t \in Seq(T) /\ DOMAIN (s \o t) = 1 .. Len(s) + Len(t)
      /\ \A i \in 1 .. Len(s) : (s \o t)[i] = s[i]
      /\ \A i \in Len(s) + 1 .. Len(s) + Len(t) : (s \o t)[i] = t[i - Len(s)]
    OBVIOUS
<1> DEFINE r == s \o t
<1> HIDE DEF r
<1>2. ASSUME NEW i \in DOMAIN r PROVE r[i] \in Range(s) \cup Range(t)
    <2>1. CASE i <= Len(s)
        <3>1. i \in 1 .. Len(s)
            BY <1>1, <2>1 DEF r
        <3> QED
            BY <1>1, <3>1 DEF Range, r
    <2>2. CASE i > Len(s)
        <3>1. i \in Len(s) + 1 .. Len(s) + Len(t) /\ i - Len(s) \in 1 .. Len(t)
            BY <1>1, <2>2 DEF r
        <3> QED
            BY <1>1, <3>1 DEF Range, r
    <2>3. i <= Len(s) \/ i > Len(s)
        BY <1>1 DEF r
    <2> QED
        BY <2>1, <2>2, <2>3
<1>3. ASSUME NEW i \in DOMAIN s PROVE s[i] \in Range(r)
    <2>1. i \in DOMAIN r /\ r[i] = s[i]
        BY <1>1 DEF r
    <2> QED
        BY <2>1 DEF Range
<1>4. ASSUME NEW i \in DOMAIN t PROVE t[i] \in Range(r)
    <2>1. i + Len(s) \in Len(s) + 1 .. Len(s) + Len(t) /\ (i + Len(s)) - Len(s) = i
        BY <1>1
    <2>2. i + Len(s) \in DOMAIN r /\ r[i + Len(s)] = t[i]
        BY <1>1, <2>1 DEF r
    <2> QED
        BY <2>2 DEF Range
<1>5. Range(r) = Range(s) \cup Range(t)
    BY <1>2, <1>3, <1>4 DEF Range
<1> QED
    BY <1>1, <1>5 DEF r

\* Joined sequences are as long as both.
LEMMA JoinAdds ==
    ASSUME NEW T, NEW s \in Seq(T), NEW t \in Seq(T)
    PROVE  s \o t \in Seq(T) /\ Len(s \o t) = Len(s) + Len(t)
    OBVIOUS

\* A flattened sequence holds what its parts hold.
LEMMA FlattenHolds ==
    ASSUME NEW T, NEW seqs \in Seq(Seq(T))
    PROVE  /\ FlattenSeq(seqs) \in Seq(T)
           /\ \A x : x \in Range(FlattenSeq(seqs)) <=> \E i \in DOMAIN seqs : x \in Range(seqs[i])
<1>1. Len(seqs) \in Nat /\ DOMAIN seqs = 1 .. Len(seqs) /\ \A i \in 1 .. Len(seqs) : seqs[i] \in Seq(T)
    OBVIOUS
<1>2. CASE Len(seqs) = 0
    <2>1. seqs = <<>> /\ FlattenSeq(seqs) = <<>> /\ DOMAIN seqs = {}
        BY <1>1, <1>2 DEF FlattenSeq
    <2>2. <<>> \in Seq(T) /\ Range(<<>>) = {}
        BY DEF Range
    <2> QED
        BY <2>1, <2>2
<1>3. CASE Len(seqs) # 0
    <2> DEFINE f == CHOOSE f : IsFlat(f, seqs, Len(seqs))
    <2>1. IsFlat(f, seqs, Len(seqs))
        BY <1>1, FlatExists
    <2>2. FlattenSeq(seqs) = f[Len(seqs)]
        BY <1>3 DEF FlattenSeq, IsFlat
    <2> HIDE DEF f
    <2>3. \A i \in 1 .. Len(seqs) : f[i] = IF i = 1 THEN seqs[i] ELSE f[i - 1] \o seqs[i]
        BY <2>1 DEF IsFlat
    <2> DEFINE good(k) == /\ f[k] \in Seq(T)
                          /\ \A x : x \in Range(f[k]) <=> \E i \in 1 .. k : x \in Range(seqs[i])
               bad == {k \in 1 .. Len(seqs) : ~good(k)}
    <2>4. bad = {}
        <3>1. SUFFICES ASSUME bad # {} PROVE FALSE
            OBVIOUS
        <3>2. PICK m \in bad : \A y \in bad : ~(y < m)
            <4>0. 1 .. Len(seqs) \subseteq Nat
                BY <1>1
            <4>1. bad \in SUBSET Nat
                BY <4>0
            <4> HIDE DEF bad
            <4> QED
                BY <3>1, <4>1, LeastNatural
        <3>3. m \in 1 .. Len(seqs) /\ ~good(m)
            BY <3>2
        <3>4. CASE m = 1
            <4>1. f[m] = seqs[1] /\ \A i : i \in 1 .. 1 <=> i = 1
                BY <2>3, <3>3, <3>4
            <4> QED
                BY <1>1, <3>3, <3>4, <4>1
        <3>5. CASE m # 1
            <4>1. m - 1 \in 1 .. Len(seqs) /\ m - 1 < m
                BY <1>1, <3>3, <3>5
            <4>2. good(m - 1)
                BY <3>2, <4>1
            <4>3. f[m] = f[m - 1] \o seqs[m]
                BY <2>3, <3>3, <3>5
            <4>4. \A i : i \in 1 .. m <=> i \in 1 .. m - 1 \/ i = m
                BY <1>1, <3>3
            <4> DEFINE s == f[m - 1]
                       t == seqs[m]
            <4>5. s \in Seq(T) /\ t \in Seq(T)
                BY <1>1, <3>3, <4>2
            <4>6. \A x : x \in Range(s) <=> \E i \in 1 .. m - 1 : x \in Range(seqs[i])
                BY <4>2
            <4>7. s \o t \in Seq(T) /\ Range(s \o t) = Range(s) \cup Range(t)
                <5> HIDE DEF s, t
                <5> QED
                    BY <4>5, JoinHolds
            <4>8. f[m] \in Seq(T)
                BY <4>3, <4>7
            <4>9. \A x : x \in Range(f[m]) <=> \E i \in 1 .. m : x \in Range(seqs[i])
                BY <4>3, <4>4, <4>6, <4>7
            <4> QED
                BY <3>3, <4>8, <4>9
        <3> QED
            BY <3>4, <3>5
    <2>5. Len(seqs) \in 1 .. Len(seqs)
        BY <1>1, <1>3
    <2>6. good(Len(seqs))
        BY <2>4, <2>5
    <2> QED
        BY <1>1, <2>2, <2>6
<1> QED
    BY <1>2, <1>3

\* Three parts flatten to the one after the other.
LEMMA FlattenThree ==
    ASSUME NEW seqs, DOMAIN seqs = 1 .. 3, Len(seqs) = 3
    PROVE  FlattenSeq(seqs) = (seqs[1] \o seqs[2]) \o seqs[3]
<1> DEFINE f == CHOOSE f : IsFlat(f, seqs, 3)
<1>1. IsFlat(f, seqs, 3)
    BY FlatExists
<1>2. FlattenSeq(seqs) = f[3]
    BY DEF FlattenSeq, IsFlat
<1> HIDE DEF f
<1>a. \A i \in 1 .. 3 : f[i] = IF i = 1 THEN seqs[i] ELSE f[i - 1] \o seqs[i]
    BY <1>1 DEF IsFlat
<1>3. f[1] = seqs[1] /\ f[2] = f[1] \o seqs[2] /\ f[3] = f[2] \o seqs[3]
    BY <1>a
<1> QED
    BY <1>2, <1>3
-----------------------------------------------------------------------------
(* The page and the files of a build, from its entries.                    *)

\* The sections share out the entries.
LEMMA SectionsAre ==
    ASSUME NEW entries \in Seq(MarksEntry)
    PROVE  /\ Len(SectionOrder) = 3 /\ DOMAIN SectionOrder = 1 .. 3
           /\ \A i \in 1 .. 3 : /\ InSection(entries, SectionOrder[i]) \in Seq(Range(entries))
                                /\ InSection(entries, SectionOrder[i]) \in Seq(MarksEntry)
           /\ \A e : e \in Range(entries)
                        <=> \E i \in 1 .. 3 : e \in Range(InSection(entries, SectionOrder[i]))
           /\ Len(InSection(entries, SectionOrder[1])) + Len(InSection(entries, SectionOrder[2]))
                 + Len(InSection(entries, SectionOrder[3])) = Len(entries)
<1> DEFINE In(i) == {e \in Range(entries) : e.section = SectionOrder[i]}
<1>1. /\ Len(SectionOrder) = 3 /\ DOMAIN SectionOrder = 1 .. 3
      /\ SectionOrder[1] # SectionOrder[2] /\ SectionOrder[1] # SectionOrder[3]
      /\ SectionOrder[2] # SectionOrder[3]
      /\ \A x : x \in Range(SectionOrder) <=> \E i \in 1 .. 3 : x = SectionOrder[i]
    <2>1. /\ Len(SectionOrder) = 3 /\ DOMAIN SectionOrder = 1 .. 3
          /\ SectionOrder[1] = "development" /\ SectionOrder[2] = "held out"
          /\ SectionOrder[3] = "realistic"
        BY DEF SectionOrder
    <2>2. \A x : x \in Range(SectionOrder) <=> \E i \in DOMAIN SectionOrder : x = SectionOrder[i]
        BY DEF Range
    <2>3. "development" # "held out" /\ "development" # "realistic" /\ "held out" # "realistic"
        OBVIOUS
    <2> QED
        BY <2>1, <2>2, <2>3
<1>2. entries \in Seq(Range(entries)) /\ Range(entries) \subseteq MarksEntry
    BY DEF Range
<1>3. \A e \in Range(entries) : \E i \in 1 .. 3 : e.section = SectionOrder[i]
    BY <1>1, <1>2 DEF MarksEntry
<1>4. \A i : InSection(entries, SectionOrder[i]) = Only(entries, In(i))
    BY DEF InSection
<1>5. \A i \in 1 .. 3 : /\ Only(entries, In(i)) \in Seq(Range(entries) \cap In(i))
                        /\ Range(Only(entries, In(i))) = Range(entries) \cap In(i)
    <2> HIDE DEF In
    <2> QED
        BY <1>2, OnlyHolds
<1>6. \A i \in 1 .. 3 : /\ Only(entries, In(i)) \in Seq(Range(entries))
                        /\ Only(entries, In(i)) \in Seq(MarksEntry)
    <2> HIDE DEF In
    <2>1. \A i : Seq(Range(entries) \cap In(i)) \subseteq Seq(Range(entries))
        OBVIOUS
    <2>2. Seq(Range(entries)) \subseteq Seq(MarksEntry)
        BY <1>2
    <2> QED
        BY <1>5, <2>1, <2>2
<1>7. Len(Only(entries, In(1))) + Len(Only(entries, In(2))) + Len(Only(entries, In(3))) = Len(entries)
    <2>1. \A x \in Range(entries) : \/ x \in In(1) /\ x \notin In(2) /\ x \notin In(3)
                                    \/ x \in In(2) /\ x \notin In(1) /\ x \notin In(3)
                                    \/ x \in In(3) /\ x \notin In(1) /\ x \notin In(2)
        BY <1>1, <1>3
    <2> HIDE DEF In
    <2> QED
        BY <2>1, OnlyShares
<1>8. \A e : e \in Range(entries) <=> \E i \in 1 .. 3 : e \in Range(entries) \cap In(i)
    BY <1>3
<1> HIDE DEF In
<1>9. \A i \in 1 .. 3 : /\ InSection(entries, SectionOrder[i]) \in Seq(Range(entries))
                        /\ InSection(entries, SectionOrder[i]) \in Seq(MarksEntry)
    BY <1>4, <1>6
<1>10. \A e : e \in Range(entries)
                <=> \E i \in 1 .. 3 : e \in Range(InSection(entries, SectionOrder[i]))
    BY <1>4, <1>5, <1>8
<1>11. Len(InSection(entries, SectionOrder[1])) + Len(InSection(entries, SectionOrder[2]))
          + Len(InSection(entries, SectionOrder[3])) = Len(entries)
    BY <1>4, <1>7
<1> QED
    BY <1>1, <1>9, <1>10, <1>11

\* The page shows the entries, each once.
LEMMA OrderHolds ==
    ASSUME NEW entries \in Seq(MarksEntry)
    PROVE  PageOrder(entries) \in Seq(MarksEntry) /\ Range(PageOrder(entries)) = Range(entries)
<1> DEFINE seqs == [s \in DOMAIN SectionOrder |-> InSection(entries, SectionOrder[s])]
<1>1. /\ DOMAIN SectionOrder = 1 .. 3
      /\ \A i \in 1 .. 3 : InSection(entries, SectionOrder[i]) \in Seq(MarksEntry)
      /\ \A e : e \in Range(entries)
                   <=> \E i \in 1 .. 3 : e \in Range(InSection(entries, SectionOrder[i]))
    BY SectionsAre
<1>2. seqs \in Seq(Seq(MarksEntry)) /\ DOMAIN seqs = 1 .. 3
      /\ \A i \in 1 .. 3 : seqs[i] = InSection(entries, SectionOrder[i])
    BY <1>1
<1>3. PageOrder(entries) = FlattenSeq(seqs)
    BY DEF PageOrder
<1> HIDE DEF seqs
<1>4. /\ FlattenSeq(seqs) \in Seq(MarksEntry)
      /\ \A x : x \in Range(FlattenSeq(seqs)) <=> \E i \in DOMAIN seqs : x \in Range(seqs[i])
    BY <1>2, FlattenHolds
<1> QED
    BY <1>1, <1>2, <1>3, <1>4

Shown(entries) == {Article(e) : e \in Range(entries)}

\* The page shows one article of each entry.
LEMMA PageHolds ==
    ASSUME NEW entries \in Seq(MarksEntry)
    PROVE  /\ RenderPage(entries).articles \in Seq(Shown(entries))
           /\ Len(RenderPage(entries).articles) = Len(entries)
           /\ RenderPage(entries).shown = Len(entries)
           /\ RenderPage(entries).records = CountRecords
<1> DEFINE part(i) == InSection(entries, SectionOrder[i])
           made(i) == SectionArticles(entries, SectionOrder[i])
           seqs == [s \in DOMAIN SectionOrder |-> SectionArticles(entries, SectionOrder[s])]
<1>1. /\ Len(SectionOrder) = 3 /\ DOMAIN SectionOrder = 1 .. 3
      /\ \A i \in 1 .. 3 : part(i) \in Seq(Range(entries))
      /\ Len(part(1)) + Len(part(2)) + Len(part(3)) = Len(entries)
    BY SectionsAre
<1>2. \A i : made(i) = [k \in DOMAIN part(i) |-> Article(part(i)[k])]
    BY DEF SectionArticles
<1>3. \A i \in 1 .. 3 : made(i) \in Seq(Shown(entries)) /\ Len(made(i)) = Len(part(i))
    <2> SUFFICES ASSUME NEW i \in 1 .. 3
                 PROVE  made(i) \in Seq(Shown(entries)) /\ Len(made(i)) = Len(part(i))
        OBVIOUS
    <2> DEFINE p == part(i)
               m == made(i)
    <2>1. p \in Seq(Range(entries))
        BY <1>1
    <2>2. m = [k \in DOMAIN p |-> Article(p[k])]
        BY <1>2
    <2> HIDE DEF p, m
    <2>3. Len(p) \in Nat /\ DOMAIN p = 1 .. Len(p) /\ \A k \in 1 .. Len(p) : p[k] \in Range(entries)
        BY <2>1
    <2>4. \A k \in 1 .. Len(p) : Article(p[k]) \in Shown(entries)
        BY <2>3 DEF Shown
    <2>5. m \in [1 .. Len(p) -> Shown(entries)]
        BY <2>2, <2>3, <2>4
    <2>6. m \in Seq(Shown(entries)) /\ Len(m) = Len(p)
        BY <2>3, <2>5
    <2> QED
        BY <2>6 DEF p, m
<1>4. seqs \in Seq(Seq(Shown(entries))) /\ DOMAIN seqs = 1 .. 3 /\ Len(seqs) = 3
      /\ seqs[1] = made(1) /\ seqs[2] = made(2) /\ seqs[3] = made(3)
    BY <1>1, <1>3
<1>5. RenderPage(entries) = [articles |-> FlattenSeq(seqs), shown |-> Len(entries), records |-> CountRecords]
    BY DEF RenderPage
<1> HIDE DEF seqs, part, made
<1>6. FlattenSeq(seqs) \in Seq(Shown(entries))
    BY <1>4, FlattenHolds
<1>7. FlattenSeq(seqs) = (made(1) \o made(2)) \o made(3)
    BY <1>4, FlattenThree
<1>8. Len((made(1) \o made(2)) \o made(3)) = Len(made(1)) + Len(made(2)) + Len(made(3))
    <2>1. made(1) \in Seq(Shown(entries)) /\ made(2) \in Seq(Shown(entries)) /\ made(3) \in Seq(Shown(entries))
        BY <1>3
    <2> DEFINE x == made(1)
               y == made(2)
               z == made(3)
               xy == x \o y
    <2> HIDE DEF x, y, z
    <2>2. x \in Seq(Shown(entries)) /\ y \in Seq(Shown(entries)) /\ z \in Seq(Shown(entries))
        BY <2>1 DEF x, y, z
    <2>3. xy \in Seq(Shown(entries)) /\ Len(xy) = Len(x) + Len(y)
        BY <2>2, JoinAdds
    <2> HIDE DEF xy
    <2>4. Len(xy \o z) = Len(xy) + Len(z)
        BY <2>2, <2>3, JoinAdds
    <2>5. Len(xy \o z) = Len(x) + Len(y) + Len(z)
        BY <2>3, <2>4
    <2> QED
        BY <2>5 DEF x, y, z, xy
<1>9. Len(FlattenSeq(seqs)) = Len(entries)
    BY <1>1, <1>3, <1>7, <1>8
<1> QED
    BY <1>5, <1>6, <1>9

\* The files of a build: the graph files, each slug among them, and the page last.
LEMMA FilesAre ==
    ASSUME NEW entries \in Seq(MarksEntry), \A e \in Range(entries) : SlugOf[e.label] \in Slugs
    PROVE  LET files == FilesInOrder(PageOrder(entries)) IN
           /\ files \in Seq(File)
           /\ \A j \in DOMAIN files : files[j] = "index" => j = Len(files)
           /\ \A e \in Range(entries) : SlugOf[e.label] \in Range(files)
<1> DEFINE ordered == PageOrder(entries)
           graphs == [k \in DOMAIN ordered |-> SlugOf[ordered[k].label]]
           files == graphs \o <<"preview", "index">>
<1>1. ordered \in Seq(MarksEntry) /\ Range(ordered) = Range(entries)
    BY OrderHolds
<1> HIDE DEF ordered
<1>2. /\ Len(ordered) \in Nat /\ DOMAIN ordered = 1 .. Len(ordered)
      /\ \A k \in 1 .. Len(ordered) : ordered[k] \in Range(entries)
    BY <1>1 DEF Range
<1>3. graphs \in Seq(Slugs) /\ Len(graphs) = Len(ordered)
    <2>1. graphs \in [1 .. Len(ordered) -> Slugs]
        BY <1>2
    <2> HIDE DEF graphs
    <2> QED
        BY <1>2, <2>1
<1>4. \A e \in Range(entries) : SlugOf[e.label] \in Range(graphs)
    <2>1. \A e \in Range(entries) : \E k \in DOMAIN ordered : ordered[k] = e
        BY <1>1 DEF Range
    <2> QED
        BY <2>1 DEF Range
<1>5. graphs \in Seq(File) /\ <<"preview", "index">> \in Seq(File)
    <2>1. Slugs \subseteq File
        BY DEF File
    <2>2. "preview" \in File /\ "index" \in File
        BY DEF File
    <2> HIDE DEF graphs
    <2> QED
        BY <1>3, <2>1, <2>2
<1> DEFINE n == Len(graphs)
<1>6. /\ n \in Nat /\ files \in Seq(File) /\ Len(files) = n + 2 /\ DOMAIN files = 1 .. n + 2
      /\ \A k \in 1 .. n : files[k] = graphs[k] /\ graphs[k] \in Slugs
      /\ files[n + 1] = "preview" /\ files[n + 2] = "index"
    <2> HIDE DEF graphs
    <2> QED
        BY <1>3, <1>5
<1>7. \A j \in DOMAIN files : files[j] = "index" => j = Len(files)
    <2>1. \A j \in 1 .. n + 2 : j \in 1 .. n \/ j = n + 1 \/ j = n + 2
        <3>1. \A m \in Nat : \A j \in 1 .. m + 2 : j \in 1 .. m \/ j = m + 1 \/ j = m + 2
            OBVIOUS
        <3>2. n \in Nat
            BY <1>6
        <3> HIDE DEF n
        <3> QED
            BY <3>1, <3>2
    <2>2. "index" \notin Slugs
        BY SlugAssumption
    <2> HIDE DEF files, n, graphs
    <2> QED
        BY <1>6, <2>1, <2>2
<1>8. Range(graphs) \subseteq Range(files)
    <2>1. DOMAIN graphs = 1 .. n /\ \A k \in 1 .. n : k \in 1 .. n + 2
        BY <1>2, <1>3, <1>6
    <2> HIDE DEF files, n, graphs
    <2> QED
        BY <1>6, <2>1 DEF Range
<1>9. FilesInOrder(PageOrder(entries)) = files
    BY DEF FilesInOrder, ordered
<1> QED
    BY <1>4, <1>6, <1>7, <1>8, <1>9
-----------------------------------------------------------------------------
(* A build beside the ask commands.                                        *)

\* A build's steps leave the asks' variables alone.
LEMMA GalleryKeepsAsk == GallerySpec => Spec
<1>1. GalleryInit => Init
    BY DEF GalleryInit
<1>2. [GalleryNext]_allVars => [Next]_vars
    BY DEF GalleryNext, Build, OpenFile, FillFile, BuildStops, allVars, vars
<1> QED
    BY <1>1, <1>2, PTL DEF GallerySpec, Spec

WrittenNames == {n \in Name : Written(n)}

\* An ask step leaves the records that settled, and starts at most one.
LEMMA AskGrows ==
    ASSUME Typed, FreeInv, [Next]_vars
    PROVE  /\ \A n \in Name : records[n] = "settled" => records'[n] = "settled"
           /\ \E n : WrittenNames' \subseteq WrittenNames \cup {n}
<1>1. \A n \in Name : records[n] = "settled" => records'[n] = "settled"
    <2>1. "settled" \in RecordKind
        BY DEF RecordKind
    <2> QED
        BY <2>1, RecordStands
<1>2. CASE records' = records
    <2>1. WrittenNames' = WrittenNames
        BY <1>2 DEF WrittenNames, Written
    <2> QED
        BY <1>1, <2>1
<1>3. ASSUME NEW c \in Asker, NEW x, records' = [records EXCEPT ![NameOf(c)] = x]
      PROVE  WrittenNames' \subseteq WrittenNames \cup {NameOf(c)}
    <2>1. \A n \in Name : n # NameOf(c) => records'[n] = records[n]
        BY <1>3 DEF Typed, TypeOK
    <2> QED
        BY <2>1 DEF WrittenNames, Written
<1>4. ASSUME NEW c \in Asker, Write(c)
      PROVE  \/ records' = records
             \/ \E n : WrittenNames' \subseteq WrittenNames \cup {n}
    BY <1>3, <1>4 DEF Write, WriteExists, WriteOpen, WriteText
<1>5. CASE Next
    <2>1. CASE Tick
        BY <1>2, <2>1 DEF Tick
    <2>2. ASSUME NEW c \in Asker, Ask(c) \/ Step(c) \/ WriteFails(c) \/ Crash(c)
          PROVE  \E n : WrittenNames' \subseteq WrittenNames \cup {n}
        <3>1. CASE Write(c)
            BY <1>2, <1>4, <3>1
        <3>2. CASE ~Write(c)
            BY <1>2, <2>2, <3>2 DEF Step, Ask, FindItems, NoMatch, Guard, Call, ReportLost,
                                    WriteFails, Crash
        <3> QED
            BY <3>1, <3>2
    <2> QED
        BY <1>1, <1>5, <2>1, <2>2 DEF Next
<1>6. CASE UNCHANGED vars
    BY <1>2, <1>6 DEF vars
<1> QED
    BY <1>5, <1>6

\* What a page says of the records and of itself, and that every file it names is there.
GoodPage(page) ==
    /\ page.shown = Len(page.articles)
    /\ page.shown <= page.records
    /\ \A article \in ArticlesOf(page) :
          /\ article.slug \in Slugs
          /\ article.record \in Name /\ records[article.record] = "settled"
          /\ article.section = SectionFits(article.record)

Present(f) == site[f].is # "absent"
NamesWhatIsThere(page) == \A article \in ArticlesOf(page) : Present(article.slug)

SiteTyped ==
    /\ DOMAIN site = File
    /\ \A f \in File : site[f].is = "whole" \/ site[f] = NoFile \/ site[f] = Torn
    /\ build = [entries |-> build.entries, left |-> build.left, text |-> build.text,
                clean |-> build.clean]
    /\ IsFiniteSet(WrittenNames)

\* The entries of the build were read and checked.
Checked ==
    /\ build.entries \in Seq(MarksEntry)
    /\ Cardinality(Column("record", build.entries)) = Len(build.entries)
    /\ \A e \in Range(build.entries) :
          /\ e.record \in Name /\ records[e.record] = "settled"
          /\ e.section = SectionFits(e.record)
          /\ SlugOf[e.label] \in Slugs

\* The page is the last file, and each graph file is there or still to write.
Queued ==
    /\ build.left \in Seq(File)
    /\ \A j \in DOMAIN build.left : build.left[j] = "index" => j = Len(build.left)
    /\ \A e \in Range(build.entries) :
          SlugOf[e.label] \in Range(build.left) \/ Present(SlugOf[e.label])

\* What is about to be written as the page is a page of the entries.
PageReady ==
    build.text # None /\ Head(build.left) = "index" =>
        /\ GoodPage(build.text)
        /\ ArticlesOf(build.text) \subseteq Shown(build.entries)

GalleryInv ==
    /\ SiteTyped
    /\ ~Idling => Checked /\ Queued /\ PageReady
    /\ PageStands => GoodPage(Page) /\ NamesWhatIsThere(Page)

\* Before any build nothing is planned and no page stands.
LEMMA GalleryStarts == GalleryInit => GalleryInv
<1> SUFFICES ASSUME GalleryInit PROVE GalleryInv
    OBVIOUS
<1>1. \A f \in File : site[f] = NoFile
    BY DEF GalleryInit
<1>2. WrittenNames = {}
    BY DEF WrittenNames, Written, GalleryInit, Init
<1>3. SiteTyped
    BY <1>1, <1>2, FS_EmptySet DEF SiteTyped, GalleryInit, NoBuild
<1>4. Idling
    BY DEF GalleryInit, NoBuild, Idling
<1>5. ~PageStands
    BY <1>1 DEF PageStands, File, NoFile
<1> QED
    BY <1>3, <1>4, <1>5 DEF GalleryInv

\* The command of `ask`: the records grow, the site and the build are as they were.
LEMMA AskStep ==
    ASSUME Typed, FreeInv, GalleryInv, [Next]_vars, UNCHANGED galleryVars
    PROVE  GalleryInv'
<1>1. site' = site /\ build' = build
    BY DEF galleryVars
<1>2. /\ \A n \in Name : records[n] = "settled" => records'[n] = "settled"
      /\ \E n : WrittenNames' \subseteq WrittenNames \cup {n}
    BY AskGrows
<1>3. SiteTyped'
    <2>1. PICK n : WrittenNames' \subseteq WrittenNames \cup {n}
        BY <1>2
    <2>2. IsFiniteSet(WrittenNames \cup {n})
        BY FS_AddElement DEF GalleryInv, SiteTyped
    <2>3. IsFiniteSet(WrittenNames')
        BY <2>1, <2>2, FS_Subset
    <2> QED
        BY <1>1, <2>3 DEF GalleryInv, SiteTyped
<1>4. \A page : GoodPage(page) => GoodPage(page)'
    BY <1>2 DEF GoodPage, ArticlesOf, SectionFits
<1>5. Checked => Checked'
    BY <1>1, <1>2 DEF Checked, SectionFits, Column
<1>6. Queued => Queued'
    BY <1>1 DEF Queued, Present
<1>7. PageReady => PageReady'
    BY <1>1, <1>4 DEF PageReady, ArticlesOf, Shown, Article, Strip, Cited, ItemsSent
<1>8. NamesWhatIsThere(Page) => NamesWhatIsThere(Page)'
    BY <1>1 DEF NamesWhatIsThere, Present, Page, ArticlesOf
<1>9. (PageStands <=> PageStands') /\ Page' = Page /\ (Idling <=> Idling')
    BY <1>1 DEF PageStands, Page, Idling
<1> QED
    BY <1>3, <1>4, <1>5, <1>6, <1>7, <1>8, <1>9 DEF GalleryInv

\* The build starts: the entries are checked, and every file is still to write.
LEMMA BuildStep ==
    ASSUME Typed, GalleryInv, Build
    PROVE  GalleryInv'
<1>1. site' = site /\ records' = records
    BY DEF Build, vars
<1>2. PICK marks \in MarksFiles :
         /\ Loads(marks) /\ SlugsTellApart(marks)
         /\ build' = [entries |-> marks, left |-> FilesInOrder(PageOrder(marks)), text |-> None,
                      clean |-> FALSE]
    BY DEF Build
<1>3. /\ build'.entries = marks /\ build'.left = FilesInOrder(PageOrder(marks))
      /\ build'.text = None /\ build'.clean = FALSE
    BY <1>2
<1>4. marks \in Seq(MarksEntry)
    BY MarksAssumption
<1>5. \A e \in Range(marks) : e.record \in Name /\ e.label \in DOMAIN SlugOf
    <2>1. \A e \in Range(marks) : e \in MarksEntry
        BY <1>4 DEF Range
    <2>2. \A e \in MarksEntry : e.record \in Name /\ e.label \in DOMAIN SlugOf
        BY DEF MarksEntry
    <2> QED
        BY <2>1, <2>2
<1>6. \A e \in Range(marks) : records[e.record] = "settled" /\ e.section = SectionFits(e.record)
    BY <1>2 DEF Loads, Readable
<1>7. \A e \in Range(marks) : SlugOf[e.label] \in Slugs
    <2>1. None \notin {SlugOf[e.label] : e \in Range(marks)}
        BY <1>2 DEF SlugsTellApart
    <2> QED
        BY <1>5, <2>1 DEF Slugs
<1>8. Cardinality(Column("record", marks)) = Len(marks)
    BY <1>2 DEF Loads
<1>9. Checked'
    <2>1. \A e \in Range(marks) : SectionFits(e.record)' = SectionFits(e.record)
        BY DEF SectionFits
    <2>2. Cardinality(Column("record", build'.entries)) = Len(build'.entries)
        BY <1>3, <1>8
    <2> QED
        BY <1>1, <1>3, <1>4, <1>5, <1>6, <1>7, <2>2 DEF Checked, Column, SectionFits
<1>10. Queued'
    <2> DEFINE files == FilesInOrder(PageOrder(marks))
    <2>1. /\ files \in Seq(File)
          /\ \A j \in DOMAIN files : files[j] = "index" => j = Len(files)
          /\ \A e \in Range(marks) : SlugOf[e.label] \in Range(files)
        BY <1>4, <1>7, FilesAre
    <2> HIDE DEF files
    <2>2. build'.left = files
        BY <1>3 DEF files
    <2> QED
        BY <1>3, <2>1, <2>2 DEF Queued
<1>11. PageReady'
    BY <1>3 DEF PageReady
<1>12. SiteTyped'
    <2>1. WrittenNames' = WrittenNames
        BY <1>1 DEF WrittenNames, Written
    <2>2. build' = [entries |-> build'.entries, left |-> build'.left, text |-> build'.text,
                    clean |-> build'.clean]
        BY <1>2, <1>3
    <2> QED
        BY <1>1, <2>1, <2>2 DEF GalleryInv, SiteTyped
<1>13. PageStands' => GoodPage(Page)' /\ NamesWhatIsThere(Page)'
    BY <1>1 DEF GalleryInv, PageStands, Page, GoodPage, NamesWhatIsThere, Present, ArticlesOf,
                SectionFits
<1> QED
    BY <1>9, <1>10, <1>11, <1>12, <1>13 DEF GalleryInv

\* A page of checked entries, as rendered, is a good page: each entry has a record of its
\* own, so there are at least as many records as entries.
LEMMA RenderedIsGood ==
    ASSUME Checked, IsFiniteSet(WrittenNames)
    PROVE  /\ GoodPage(RenderPage(build.entries))
           /\ ArticlesOf(RenderPage(build.entries)) \subseteq Shown(build.entries)
<1> DEFINE entries == build.entries
           page == RenderPage(entries)
<1>1. /\ entries \in Seq(MarksEntry)
      /\ Cardinality(Column("record", entries)) = Len(entries)
      /\ \A e \in Range(entries) :
            /\ e.record \in Name /\ records[e.record] = "settled"
            /\ e.section = SectionFits(e.record) /\ SlugOf[e.label] \in Slugs
    BY DEF Checked
<1> HIDE DEF entries
<1>2. /\ page.articles \in Seq(Shown(entries)) /\ Len(page.articles) = Len(entries)
      /\ page.shown = Len(entries) /\ page.records = CountRecords
    BY <1>1, PageHolds
<1>3. Range(page.articles) \subseteq Shown(entries)
    <2> DEFINE s == page.articles
    <2>1. s \in Seq(Shown(entries))
        BY <1>2
    <2> HIDE DEF s
    <2>2. \A k \in DOMAIN s : s[k] \in Shown(entries)
        BY <2>1
    <2>3. Range(s) \subseteq Shown(entries)
        BY <2>2 DEF Range
    <2> QED
        BY <2>3 DEF s
<1>4. Len(entries) <= CountRecords
    <2>1. Column("record", entries) \subseteq WrittenNames
        <3>1. \A k \in DOMAIN entries : entries[k]["record"] = entries[k].record
            BY <1>1 DEF MarksEntry
        <3>2. \A k \in DOMAIN entries : entries[k] \in Range(entries)
            BY DEF Range
        <3> QED
            BY <1>1, <3>1, <3>2 DEF Column, WrittenNames, Written
    <2>2. Cardinality(Column("record", entries)) <= Cardinality(WrittenNames)
        BY <2>1, FS_Subset
    <2> QED
        BY <1>1, <2>2 DEF CountRecords, WrittenNames
<1>5. \A a \in Shown(entries) :
         \E e \in Range(entries) : a.slug = SlugOf[e.label] /\ a.record = e.record /\ a.section = e.section
    BY DEF Shown, Article
<1> HIDE DEF page
<1>6. \A a \in ArticlesOf(page) :
         /\ a.slug \in Slugs /\ a.record \in Name /\ records[a.record] = "settled"
         /\ a.section = SectionFits(a.record)
    BY <1>1, <1>3, <1>5 DEF ArticlesOf
<1>7. GoodPage(page) /\ ArticlesOf(page) \subseteq Shown(entries)
    BY <1>2, <1>3, <1>4, <1>6 DEF GoodPage, ArticlesOf
<1> QED
    BY <1>7 DEF page, entries

\* A file is emptied: it is there, whatever it held; the text is the page's if it is the last.
LEMMA OpenStep ==
    ASSUME Typed, GalleryInv, OpenFile
    PROVE  GalleryInv'
<1> DEFINE file == Head(build.left)
<1>1. /\ ~Idling /\ build.text = None /\ records' = records
      /\ build' = [build EXCEPT !.text = TextOf(file)]
      /\ site' = [site EXCEPT ![file] = Torn]
    BY DEF OpenFile, vars
<1>2. SiteTyped /\ Checked /\ Queued
    BY <1>1 DEF GalleryInv
<1>3. file \in File
    BY <1>1, <1>2 DEF Queued, Idling
<1>4. build' = [entries |-> build.entries, left |-> build.left, text |-> TextOf(file),
                clean |-> build.clean]
    BY <1>1, <1>2 DEF SiteTyped
<1>5. /\ build'.entries = build.entries /\ build'.left = build.left
      /\ build'.text = TextOf(file)
    BY <1>4
<1> HIDE DEF file
<1>6. /\ DOMAIN site' = File /\ site'[file] = Torn
      /\ \A f \in File : f # file => site'[f] = site[f]
    BY <1>1, <1>2, <1>3 DEF SiteTyped
<1>7. \A f \in File : Present(f) => Present(f)'
    BY <1>6 DEF Present, Torn
<1>8. SiteTyped'
    <2>1. WrittenNames' = WrittenNames
        BY <1>1 DEF WrittenNames, Written
    <2>2. build' = [entries |-> build'.entries, left |-> build'.left, text |-> build'.text,
                    clean |-> build'.clean]
        BY <1>4
    <2> QED
        BY <1>2, <1>6, <2>1, <2>2 DEF SiteTyped
<1>9. Checked'
    BY <1>1, <1>2, <1>5 DEF Checked, SectionFits, Column
<1>10. Queued'
    BY <1>2, <1>5, <1>7 DEF Queued, Checked, File
<1>11. PageReady'
    <2>1. SUFFICES ASSUME file = "index" PROVE PageReady'
        BY <1>5 DEF PageReady, file
    <2>2. PICK page : page = RenderPage(build.entries)
        OBVIOUS
    <2>3. build'.text = page
        BY <1>5, <2>1, <2>2 DEF TextOf
    <2>4. GoodPage(page) /\ ArticlesOf(page) \subseteq Shown(build.entries)
        BY <1>2, <2>2, RenderedIsGood DEF SiteTyped
    <2>5. Shown(build.entries)' = Shown(build.entries)
        BY <1>5 DEF Shown
    <2> QED
        BY <1>1, <2>3, <2>4, <2>5 DEF PageReady, GoodPage, ArticlesOf, SectionFits
<1>12. PageStands' => GoodPage(Page)' /\ NamesWhatIsThere(Page)'
    <2> SUFFICES ASSUME PageStands' PROVE GoodPage(Page)' /\ NamesWhatIsThere(Page)'
        OBVIOUS
    <2>1. "index" \in File
        BY DEF File
    <2>2. file # "index"
        BY <1>6, <2>1 DEF PageStands, Torn
    <2>3. site'["index"] = site["index"]
        BY <1>6, <2>1, <2>2
    <2>4. GoodPage(Page) /\ NamesWhatIsThere(Page) /\ Page' = Page
        BY <2>3 DEF GalleryInv, PageStands, Page
    <2>5. GoodPage(Page)'
        BY <1>1, <2>4 DEF GoodPage, ArticlesOf, SectionFits
    <2>6. NamesWhatIsThere(Page)'
        BY <1>7, <2>4 DEF NamesWhatIsThere, GoodPage, ArticlesOf, File
    <2> QED
        BY <2>5, <2>6
<1> QED
    BY <1>8, <1>9, <1>10, <1>11, <1>12 DEF GalleryInv

\* The head of a queue and what is behind it.
LEMMA QueueTurns ==
    ASSUME NEW T, NEW s \in Seq(T), s # <<>>
    PROVE  /\ Head(s) \in T /\ Head(s) = s[1] /\ 1 \in DOMAIN s
           /\ Tail(s) \in Seq(T) /\ Len(s) \in Nat \ {0} /\ Len(Tail(s)) = Len(s) - 1
           /\ Range(s) = {Head(s)} \cup Range(Tail(s))
           /\ \A j \in DOMAIN Tail(s) : j + 1 \in DOMAIN s /\ Tail(s)[j] = s[j + 1] /\ j \in Nat
<1>1. /\ Len(s) \in Nat \ {0} /\ DOMAIN s = 1 .. Len(s) /\ Head(s) = s[1] /\ s[1] \in T
      /\ Tail(s) \in Seq(T) /\ DOMAIN Tail(s) = 1 .. Len(s) - 1 /\ Len(Tail(s)) = Len(s) - 1
      /\ \A j \in 1 .. Len(s) - 1 : Tail(s)[j] = s[j + 1]
    OBVIOUS
<1> DEFINE n == Len(s)
           t == Tail(s)
<1>2. \A j \in 1 .. n - 1 : j + 1 \in 1 .. n /\ j \in Nat
    BY <1>1
<1>3. \A j \in 1 .. n : j = 1 \/ (j - 1 \in 1 .. n - 1 /\ (j - 1) + 1 = j)
    BY <1>1
<1> HIDE DEF n, t
<1>4. \A j \in 1 .. n : s[j] = s[1] \/ \E i \in DOMAIN t : s[j] = t[i]
    BY <1>1, <1>3 DEF n, t
<1>5. \A i \in DOMAIN t : \E j \in DOMAIN s : s[j] = t[i]
    BY <1>1, <1>2 DEF n, t
<1>6. Range(s) = {s[1]} \cup Range(t)
    BY <1>1, <1>4, <1>5 DEF Range, n
<1> QED
    BY <1>1, <1>2, <1>6 DEF n, t

\* A file is written whole: when it is the page, every graph file is there.
LEMMA FillStep ==
    ASSUME Typed, GalleryInv, FillFile
    PROVE  GalleryInv'
<1>0. PICK file : file = Head(build.left)
    OBVIOUS
<1>1. /\ ~Idling /\ build.text # None /\ records' = records
      /\ site' = [site EXCEPT ![file] = Whole(build.text)]
      /\ build' = [build EXCEPT !.left = Tail(@), !.text = None, !.clean = Len(build.left) = 1]
    BY <1>0 DEF FillFile, vars
<1>2. SiteTyped /\ Checked /\ Queued /\ PageReady
    BY <1>1 DEF GalleryInv
<1>3. /\ file \in File /\ Tail(build.left) \in Seq(File)
      /\ file = build.left[1] /\ 1 \in DOMAIN build.left
      /\ Range(build.left) = {file} \cup Range(Tail(build.left))
      /\ Len(build.left) \in Nat /\ Len(Tail(build.left)) = Len(build.left) - 1
      /\ \A j \in DOMAIN Tail(build.left) : j + 1 \in DOMAIN build.left
            /\ Tail(build.left)[j] = build.left[j + 1] /\ j \in Nat
    <2>1. build.left \in Seq(File) /\ build.left # <<>>
        BY <1>1, <1>2 DEF Queued, Idling
    <2> QED
        BY <1>0, <2>1, QueueTurns
<1>4. build' = [entries |-> build.entries, left |-> Tail(build.left), text |-> None,
                clean |-> Len(build.left) = 1]
    BY <1>1, <1>2 DEF SiteTyped
<1>5. /\ build'.entries = build.entries /\ build'.left = Tail(build.left)
      /\ build'.text = None
    BY <1>4
<1>6. /\ DOMAIN site' = File /\ site'[file] = Whole(build.text)
      /\ \A f \in File : f # file => site'[f] = site[f]
    BY <1>1, <1>2, <1>3 DEF SiteTyped
<1>7. Present(file)' /\ \A f \in File : Present(f) => Present(f)'
    BY <1>6 DEF Present, Whole
<1>8. SiteTyped'
    <2>1. WrittenNames' = WrittenNames
        BY <1>1 DEF WrittenNames, Written
    <2>2. build' = [entries |-> build'.entries, left |-> build'.left, text |-> build'.text,
                    clean |-> build'.clean]
        BY <1>4
    <2>3. site'[file].is = "whole"
        BY <1>6 DEF Whole
    <2> QED
        BY <1>2, <1>6, <2>1, <2>2, <2>3 DEF SiteTyped
<1>9. Checked'
    BY <1>1, <1>2, <1>5 DEF Checked, SectionFits, Column
<1>10. Queued'
    <2>1. \A j \in DOMAIN Tail(build.left) : Tail(build.left)[j] = "index" => j = Len(Tail(build.left))
        <3> SUFFICES ASSUME NEW j \in DOMAIN Tail(build.left), Tail(build.left)[j] = "index"
                     PROVE  j = Len(Tail(build.left))
            OBVIOUS
        <3>1. j + 1 = Len(build.left)
            BY <1>2, <1>3 DEF Queued
        <3> QED
            BY <1>3, <3>1
    <2>2. \A e \in Range(build.entries) :
             SlugOf[e.label] \in Range(Tail(build.left)) \/ Present(SlugOf[e.label])'
        <3> SUFFICES ASSUME NEW e \in Range(build.entries), SlugOf[e.label] \notin Range(Tail(build.left))
                     PROVE  Present(SlugOf[e.label])'
            OBVIOUS
        <3>1. SlugOf[e.label] \in File
            BY <1>2 DEF Checked, File
        <3>2. SlugOf[e.label] = file \/ Present(SlugOf[e.label])
            BY <1>2, <1>3 DEF Queued
        <3> QED
            BY <1>7, <3>1, <3>2
    <2> QED
        BY <1>3, <1>5, <2>1, <2>2 DEF Queued
<1>11. PageReady'
    BY <1>5 DEF PageReady
<1>12. PageStands' => GoodPage(Page)' /\ NamesWhatIsThere(Page)'
    <2> SUFFICES ASSUME PageStands' PROVE GoodPage(Page)' /\ NamesWhatIsThere(Page)'
        OBVIOUS
    <2>1. "index" \in File
        BY DEF File
    <2>2. CASE file # "index"
        <3>1. site'["index"] = site["index"]
            BY <1>6, <2>1, <2>2
        <3>2. GoodPage(Page) /\ NamesWhatIsThere(Page) /\ Page' = Page
            BY <3>1 DEF GalleryInv, PageStands, Page
        <3>3. GoodPage(Page)'
            BY <1>1, <3>2 DEF GoodPage, ArticlesOf, SectionFits
        <3>4. NamesWhatIsThere(Page)'
            BY <1>7, <3>2 DEF NamesWhatIsThere, GoodPage, ArticlesOf, File
        <3> QED
            BY <3>3, <3>4
    <2>3. CASE file = "index"
        <3>1. Page' = build.text
            BY <1>6, <2>1, <2>3 DEF Page, Whole
        <3>2. GoodPage(build.text) /\ ArticlesOf(build.text) \subseteq Shown(build.entries)
            BY <1>0, <1>1, <1>2, <2>3 DEF PageReady
        <3>3. GoodPage(Page)'
            BY <1>1, <3>1, <3>2 DEF GoodPage, ArticlesOf, SectionFits
        <3>4. Range(Tail(build.left)) = {}
            <4>1. Len(build.left) = 1
                BY <1>2, <1>3, <2>3 DEF Queued
            <4>2. Len(Tail(build.left)) = 0
                BY <1>3, <4>1
            <4>3. DOMAIN Tail(build.left) = {}
                <5> DEFINE t == Tail(build.left)
                <5>1. t \in Seq(File) /\ Len(t) = 0
                    BY <1>3, <4>2
                <5> HIDE DEF t
                <5>2. DOMAIN t = {}
                    BY <5>1
                <5> QED
                    BY <5>2 DEF t
            <4> QED
                BY <4>3 DEF Range
        <3>5. \A e \in Range(build.entries) : Present(SlugOf[e.label])'
            BY <1>5, <1>10, <3>4 DEF Queued
        <3>6. \A a \in Shown(build.entries) : Present(a.slug)'
            BY <3>5 DEF Shown, Article
        <3>7. NamesWhatIsThere(Page)'
            BY <3>1, <3>2, <3>6 DEF NamesWhatIsThere, ArticlesOf
        <3> QED
            BY <3>3, <3>7
    <2> QED
        BY <2>2, <2>3
<1> QED
    BY <1>8, <1>9, <1>10, <1>11, <1>12 DEF GalleryInv

\* A build that stops leaves the site as it stands.
LEMMA StopStep ==
    ASSUME Typed, GalleryInv, BuildStops
    PROVE  GalleryInv'
<1>1. site' = site /\ records' = records /\ build' = NoBuild
    BY DEF BuildStops, vars
<1>2. SiteTyped'
    <2>1. WrittenNames' = WrittenNames
        BY <1>1 DEF WrittenNames, Written
    <2> QED
        BY <1>1, <2>1 DEF GalleryInv, SiteTyped, NoBuild
<1>3. Idling'
    BY <1>1 DEF Idling, NoBuild
<1>4. PageStands' => GoodPage(Page)' /\ NamesWhatIsThere(Page)'
    BY <1>1 DEF GalleryInv, PageStands, Page, GoodPage, NamesWhatIsThere, Present, ArticlesOf,
                SectionFits
<1> QED
    BY <1>2, <1>3, <1>4 DEF GalleryInv

\* Whatever build stopped where, over whatever page and beside whatever asks, one command
\* at a time: a page that can be read names no file that is not there, and shows settled
\* answers alone, each in its section, no more of them than the records it counts.
THEOREM PageNamesWhatIsThere == ASSUME OneAtATime PROVE GallerySpec => []NoMissingFile
<1>1. GalleryInit => GalleryInv
    BY GalleryStarts
<1>2. Typed /\ FreeInv /\ [Next]_vars /\ GalleryInv /\ [GalleryNext]_allVars => GalleryInv'
    <2> SUFFICES ASSUME Typed, FreeInv, [Next]_vars, GalleryInv, [GalleryNext]_allVars
                 PROVE  GalleryInv'
        OBVIOUS
    <2>1. CASE UNCHANGED galleryVars
        BY <2>1, AskStep
    <2>2. CASE Build
        BY <2>2, BuildStep
    <2>3. CASE OpenFile
        BY <2>3, OpenStep
    <2>4. CASE FillFile
        BY <2>4, FillStep
    <2>5. CASE BuildStops
        BY <2>5, StopStep
    <2> QED
        BY <2>1, <2>2, <2>3, <2>4, <2>5 DEF GalleryNext, allVars
<1>3. GalleryInv => NoMissingFile
    BY DEF GalleryInv, NoMissingFile, GoodPage, NamesWhatIsThere, Present
<1>4. GallerySpec => []GalleryInv
    BY <1>1, <1>2, GalleryKeepsAsk, TypedAlways, FreeAlways, PTL DEF GallerySpec, Spec
<1> QED
    BY <1>3, <1>4, PTL
-----------------------------------------------------------------------------
(* Counting: the slugs of the entries and the order of the citations.      *)

\* The places of a sequence map onto its members.
LEMMA PlacesCover ==
    ASSUME NEW T, NEW s \in Seq(T)
    PROVE  /\ s \in Surjection(1 .. Len(s), Range(s)) /\ DOMAIN s = 1 .. Len(s)
           /\ IsFiniteSet(1 .. Len(s)) /\ Cardinality(1 .. Len(s)) = Len(s)
<1>1. Len(s) \in Nat /\ DOMAIN s = 1 .. Len(s)
    OBVIOUS
<1>2. IsFiniteSet(1 .. Len(s)) /\ Cardinality(1 .. Len(s)) = Len(s)
    BY <1>1, FS_Interval
<1>3. s \in Surjection(1 .. Len(s), Range(s))
    BY <1>1 DEF Surjection, Range
<1> QED
    BY <1>1, <1>2, <1>3

\* A sequence whose members are as many as its places repeats none.
LEMMA NoneTwice ==
    ASSUME NEW T, NEW s \in Seq(T), Cardinality(Range(s)) = Len(s)
    PROVE  \A i, j \in DOMAIN s : s[i] = s[j] => i = j
<1>1. /\ s \in Surjection(1 .. Len(s), Range(s)) /\ DOMAIN s = 1 .. Len(s)
      /\ IsFiniteSet(1 .. Len(s)) /\ Cardinality(1 .. Len(s)) = Len(s)
    BY PlacesCover
<1>2. s \in Injection(1 .. Len(s), Range(s))
    BY <1>1, FS_Surjection
<1> QED
    BY <1>1, <1>2 DEF Injection, IsInjective

\* What a sequence holds in its first places.
Met(s, j) == {s[i] : i \in 1 .. j}

\* The range of a prefix is what it met.
LEMMA MetIs ==
    ASSUME NEW T, NEW s \in Seq(T), NEW j \in 0 .. Len(s)
    PROVE  Range(SubSeq(s, 1, j)) = Met(s, j)
<1>1. Len(s) \in Nat /\ j \in Nat /\ j <= Len(s) /\ \A i \in 1 .. j : i \in 1 .. Len(s)
    OBVIOUS
<1> DEFINE r == SubSeq(s, 1, j)
<1>2. DOMAIN r = 1 .. j /\ \A i \in 1 .. j : r[i] = s[i]
    BY <1>1
<1> HIDE DEF r
<1>3. Range(r) = Met(s, j)
    BY <1>2 DEF Range, Met
<1> QED
    BY <1>3 DEF r

\* The first place of a member.
IsFirst(s, x, j) == j \in DOMAIN s /\ s[j] = x /\ x \notin Met(s, j - 1)

\* Every member of a sequence has exactly one first place.
LEMMA FirstIs ==
    ASSUME NEW T, NEW s \in Seq(T), NEW x \in Range(s)
    PROVE  (\E j : IsFirst(s, x, j)) /\ (\A i, j : IsFirst(s, x, i) /\ IsFirst(s, x, j) => i = j)
<1>1. Len(s) \in Nat /\ DOMAIN s = 1 .. Len(s)
    OBVIOUS
<1> DEFINE at == {j \in DOMAIN s : s[j] = x}
<1>2. PICK j \in at : \A y \in at : ~(y < j)
    <2>0. 1 .. Len(s) \subseteq Nat
        BY <1>1
    <2>1. at \in SUBSET Nat /\ at # {}
        BY <1>1, <2>0 DEF Range
    <2> HIDE DEF at
    <2> QED
        BY <2>1, LeastNatural
<1>3. IsFirst(s, x, j)
    <2>1. \A i \in 1 .. j - 1 : i \in DOMAIN s /\ i < j
        BY <1>1, <1>2
    <2> QED
        BY <1>2, <2>1 DEF IsFirst, Met
<1>4. ASSUME NEW i, NEW k, IsFirst(s, x, i), IsFirst(s, x, k) PROVE ~(i < k)
    <2>1. i < k => i \in 1 .. k - 1
        BY <1>1, <1>4 DEF IsFirst
    <2> QED
        BY <1>4, <2>1 DEF IsFirst, Met
<1>5. ASSUME NEW i, NEW k, IsFirst(s, x, i), IsFirst(s, x, k) PROVE i = k
    <2>1. i \in 1 .. Len(s) /\ k \in 1 .. Len(s) /\ ~(i < k) /\ ~(k < i)
        BY <1>1, <1>4, <1>5 DEF IsFirst
    <2> QED
        BY <1>1, <2>1
<1> QED
    BY <1>3, <1>5

\* How many had been met when each member was first met: every number up to the count, and
\* no other.
LEMMA FirstsCount ==
    ASSUME NEW T, NEW s \in Seq(T), NEW first,
           \A x \in Range(s) : IsFirst(s, x, first[x])
    PROVE  {Cardinality(Met(s, first[x])) : x \in Range(s)} = 1 .. Cardinality(Range(s))
<1>1. Len(s) \in Nat /\ DOMAIN s = 1 .. Len(s) /\ \A j \in 1 .. Len(s) : s[j] \in Range(s)
    BY DEF Range
<1> DEFINE c(j) == Cardinality(Met(s, j))
           counts(j) == {c(first[x]) : x \in Met(s, j)}
           good(j) == IsFiniteSet(Met(s, j)) /\ counts(j) = 1 .. c(j)
           bad == {j \in 0 .. Len(s) : ~good(j)}
<1>2. bad = {}
    <2>1. SUFFICES ASSUME bad # {} PROVE FALSE
        OBVIOUS
    <2>2. PICK m \in bad : \A y \in bad : ~(y < m)
        <3>0. 0 .. Len(s) \subseteq Nat
            BY <1>1
        <3>1. bad \in SUBSET Nat
            BY <3>0
        <3> HIDE DEF bad
        <3> QED
            BY <2>1, <3>1, LeastNatural
    <2>3. m \in 0 .. Len(s) /\ ~good(m)
        BY <2>2
    <2>4. m # 0
        <3>1. Met(s, 0) = {}
            BY DEF Met
        <3>2. IsFiniteSet(Met(s, 0)) /\ c(0) = 0 /\ counts(0) = {}
            BY <3>1, FS_EmptySet
        <3>3. counts(0) = 1 .. c(0)
            BY <3>2
        <3> QED
            BY <2>3, <3>2, <3>3
    <2>5. m - 1 \in 0 .. Len(s) /\ m - 1 < m /\ m \in 1 .. Len(s)
        BY <1>1, <2>3, <2>4
    <2>6. IsFiniteSet(Met(s, m - 1)) /\ counts(m - 1) = 1 .. c(m - 1)
        BY <2>2, <2>5
    <2>7. Met(s, m) = Met(s, m - 1) \cup {s[m]}
        <3>1. \A i : i \in 1 .. m <=> i \in 1 .. m - 1 \/ i = m
            BY <2>5
        <3> QED
            BY <3>1 DEF Met
    <2>8. IsFiniteSet(Met(s, m))
          /\ c(m) = IF s[m] \in Met(s, m - 1) THEN c(m - 1) ELSE c(m - 1) + 1
        <3> DEFINE M == Met(s, m - 1)
                   y == s[m]
        <3>1. IsFiniteSet(M) /\ Met(s, m) = M \cup {y}
            BY <2>6, <2>7
        <3> HIDE DEF M, y
        <3>2. IsFiniteSet(M \cup {y})
              /\ Cardinality(M \cup {y}) = IF y \in M THEN Cardinality(M) ELSE Cardinality(M) + 1
            BY <3>1, FS_AddElement
        <3> QED
            BY <3>1, <3>2 DEF M, y
    <2>9. CASE s[m] \in Met(s, m - 1)
        <3>1. Met(s, m) = Met(s, m - 1)
            BY <2>7, <2>9
        <3> QED
            BY <2>3, <2>6, <3>1
    <2>10. CASE s[m] \notin Met(s, m - 1)
        <3>1. IsFirst(s, s[m], m)
            BY <1>1, <2>5, <2>10 DEF IsFirst
        <3>2. first[s[m]] = m
            BY <1>1, <2>5, <3>1, FirstIs
        <3>3. counts(m) = counts(m - 1) \cup {c(m)}
            BY <2>7, <3>2
        <3>4. c(m - 1) \in Nat /\ c(m) = c(m - 1) + 1
            BY <2>6, <2>8, <2>10, FS_CardinalityType
        <3>5. 1 .. c(m) = (1 .. c(m - 1)) \cup {c(m)}
            <4> DEFINE p == c(m - 1)
                       q == c(m)
            <4>1. p \in Nat /\ q = p + 1
                BY <3>4
            <4> HIDE DEF p, q
            <4>2. 1 .. q = (1 .. p) \cup {q}
                BY <4>1
            <4> QED
                BY <4>2 DEF p, q
        <3> QED
            BY <2>3, <2>6, <2>8, <3>3, <3>5
    <2> QED
        BY <2>9, <2>10
<1>3. Met(s, Len(s)) = Range(s)
    BY <1>1 DEF Met, Range
<1>4. Len(s) \in 0 .. Len(s)
    BY <1>1
<1>5. good(Len(s))
    BY <1>2, <1>4
<1> QED
    BY <1>3, <1>5
-----------------------------------------------------------------------------
(* One answer: what its strip, its list and its graph count.               *)

WellFormed(answer) ==
    /\ answer.items \in Seq(Range(answer.items))
    /\ answer.claims \in Seq(Range(answer.claims))
    /\ \A claim \in Range(answer.claims) : claim.cites \in Seq(Range(claim.cites))

\* The citations in reading order hold the cited ids, and no other.
LEMMA CitationsHold ==
    ASSUME NEW answer, WellFormed(answer)
    PROVE  Citations(answer) \in Seq(Cited(answer)) /\ Range(Citations(answer)) = Cited(answer)
<1> DEFINE claims == answer.claims
           part(k) == Only(claims[k].cites, Uses(claims[k]))
           seqs == [k \in DOMAIN claims |-> part(k)]
<1>1. claims \in Seq(Range(claims)) /\ \A k \in DOMAIN claims : claims[k] \in Range(claims)
    BY DEF WellFormed, Range
<1>2. ASSUME NEW k \in DOMAIN claims
      PROVE  part(k) \in Seq(Cited(answer)) /\ Range(part(k)) = Uses(claims[k])
    <2>1. claims[k].cites \in Seq(Range(claims[k].cites))
        BY <1>1 DEF WellFormed
    <2>2. /\ part(k) \in Seq(Range(claims[k].cites) \cap Uses(claims[k]))
          /\ Range(part(k)) = Range(claims[k].cites) \cap Uses(claims[k])
        BY <2>1, OnlyHolds
    <2>3. Range(claims[k].cites) \cap Uses(claims[k]) = Uses(claims[k])
        BY DEF Uses
    <2>4. Uses(claims[k]) \subseteq Cited(answer)
        BY <1>1 DEF Cited
    <2> HIDE DEF part
    <2> QED
        BY <2>2, <2>3, <2>4
<1>3. /\ seqs \in Seq(Seq(Cited(answer))) /\ DOMAIN seqs = DOMAIN claims
      /\ \A k \in DOMAIN claims : seqs[k] = part(k)
    <2> HIDE DEF part
    <2>1. Len(claims) \in Nat /\ DOMAIN claims = 1 .. Len(claims)
        BY <1>1
    <2>2. seqs \in [1 .. Len(claims) -> Seq(Cited(answer))]
        BY <1>2, <2>1
    <2> QED
        BY <2>1, <2>2
<1>4. Citations(answer) = FlattenSeq(seqs)
    BY DEF Citations
<1> HIDE DEF seqs, part
<1>5. /\ FlattenSeq(seqs) \in Seq(Cited(answer))
      /\ \A x : x \in Range(FlattenSeq(seqs)) <=> \E k \in DOMAIN seqs : x \in Range(seqs[k])
    BY <1>3, FlattenHolds
<1>6. \A x : x \in Cited(answer) <=> \E k \in DOMAIN claims : x \in Uses(claims[k])
    BY DEF Cited, Range
<1>7. \A x : x \in Range(FlattenSeq(seqs)) <=> x \in Cited(answer)
    BY <1>2, <1>3, <1>5, <1>6
<1> QED
    BY <1>4, <1>5, <1>7

\* The numbers of the cited items: from one up to their count, with no gap.
LEMMA OrdersHaveNoGap ==
    ASSUME NEW answer, WellFormed(answer)
    PROVE  {CiteOrder(answer, id) : id \in Cited(answer)} = 1 .. Cardinality(Cited(answer))
<1> DEFINE cited == Citations(answer)
           first == [id \in Cited(answer) |-> CHOOSE j : IsFirst(cited, id, j)]
<1>1. cited \in Seq(Cited(answer)) /\ Range(cited) = Cited(answer)
    BY CitationsHold
<1> HIDE DEF cited
<1>2. \A id \in Cited(answer) : IsFirst(cited, id, first[id])
    BY <1>1, FirstIs
<1> HIDE DEF first
<1>3. ASSUME NEW id \in Cited(answer)
      PROVE  CiteOrder(answer, id) = Cardinality(Met(cited, first[id]))
    <2> DEFINE Fits(j) == cited[j] = id /\ id \notin Range(SubSeq(cited, 1, j - 1))
               f == CHOOSE j \in DOMAIN cited : Fits(j)
    <2>1. Len(cited) \in Nat /\ DOMAIN cited = 1 .. Len(cited)
        BY <1>1
    <2>2. \A j \in DOMAIN cited : j - 1 \in 0 .. Len(cited) /\ j \in 0 .. Len(cited)
        BY <2>1
    <2>3. \A j \in DOMAIN cited : Fits(j) <=> IsFirst(cited, id, j)
        <3>1. \A j \in DOMAIN cited : Range(SubSeq(cited, 1, j - 1)) = Met(cited, j - 1)
            BY <1>1, <2>2, MetIs
        <3> QED
            BY <3>1 DEF IsFirst
    <2>4. first[id] \in DOMAIN cited /\ Fits(first[id])
        BY <1>2, <2>3 DEF IsFirst
    <2> HIDE DEF Fits
    <2>5. f \in DOMAIN cited /\ Fits(f)
        BY <2>4
    <2> HIDE DEF f
    <2>6. f = first[id]
        BY <1>1, <1>2, <2>3, <2>5, FirstIs
    <2>7. Range(SubSeq(cited, 1, f)) = Met(cited, f)
        BY <1>1, <2>2, <2>5, MetIs
    <2>8. CiteOrder(answer, id) = Cardinality(Range(SubSeq(cited, 1, f)))
        BY DEF CiteOrder, f, Fits, cited
    <2> QED
        BY <2>6, <2>7, <2>8
<1>4. {Cardinality(Met(cited, first[id])) : id \in Cited(answer)} = 1 .. Cardinality(Cited(answer))
    BY <1>1, <1>2, FirstsCount
<1> QED
    BY <1>3, <1>4

\* What is read off one checked answer: every count is of the cited items, which are among
\* the items sent, and every citation opens a place the snapshot has.
LEMMA AnswerAgrees ==
    ASSUME NEW answer, WellFormed(answer), CheckedItems(answer)
    PROVE  /\ Len(answer.items) = Cardinality(IdsOf(answer))
           /\ Cited(answer) \subseteq IdsOf(answer)
           /\ \A id : CitedBy(answer, id) # {} <=> id \in Cited(answer)
           /\ \A k \in DOMAIN answer.claims :
                 /\ Uses(answer.claims[k]) \subseteq IdsOf(answer)
                 /\ \A id \in Uses(answer.claims[k]) : Opens(ItemLink(ItemOf(answer, id)))
<1>1. Len(answer.items) = Cardinality(IdsOf(answer))
    BY DEF CheckedItems
<1>2. \A k \in DOMAIN answer.claims : answer.claims[k] \in Range(answer.claims)
    BY DEF Range
<1>3. \A claim \in Range(answer.claims) : \A id \in Uses(claim) :
         id \in IdsOf(answer) /\ ItemOf(answer, id).file # None
    BY DEF CheckedItems
<1>4. Cited(answer) \subseteq IdsOf(answer)
    BY <1>3 DEF Cited
<1>5. \A id : CitedBy(answer, id) # {} <=> id \in Cited(answer)
    BY DEF CitedBy, Cited, Range
<1>6. ASSUME NEW id \in IdsOf(answer), ItemOf(answer, id).file # None
      PROVE  Opens(ItemLink(ItemOf(answer, id)))
    <2>1. \E item \in Range(answer.items) : item.id = id
        BY DEF IdsOf, Range
    <2>2. ItemOf(answer, id) \in Range(answer.items)
        BY <2>1 DEF ItemOf
    <2> DEFINE item == ItemOf(answer, id)
    <2>3. InSnapshot(item)
        BY <2>2 DEF CheckedItems
    <2>4. item.file # None
        BY <1>6
    <2> HIDE DEF item
    <2>5. /\ item.file \in DOMAIN Lines
          /\ item.line = None \/ item.line \in 1 .. Lines[item.file]
        BY <2>3, <2>4 DEF InSnapshot
    <2>6. item.line \in Nat \cup {None}
        BY <2>5, PlaceAssumption
    <2>7. <<item.file, item.line>> # None
        BY <2>5, <2>6, PlaceAssumption
    <2>8. ItemLink(item) = <<item.file, item.line>>
        BY <2>4 DEF ItemLink
    <2>9. Opens(<<item.file, item.line>>)
        BY <2>5, <2>7 DEF Opens
    <2> QED
        BY <2>8, <2>9 DEF item
<1>7. \A k \in DOMAIN answer.claims :
         /\ Uses(answer.claims[k]) \subseteq IdsOf(answer)
         /\ \A id \in Uses(answer.claims[k]) : Opens(ItemLink(ItemOf(answer, id)))
    BY <1>2, <1>3, <1>6
<1> QED
    BY <1>1, <1>4, <1>5, <1>7
-----------------------------------------------------------------------------
(* The page and the graphs of a build, side by side.                       *)

Articles(s) == [k \in DOMAIN s |-> Article(s[k])]

\* A function on the first numbers is a sequence.
LEMMA ListIs ==
    ASSUME NEW T, NEW n \in Nat, NEW f \in [1 .. n -> T]
    PROVE  f \in Seq(T) /\ Len(f) = n /\ DOMAIN f = 1 .. n
    OBVIOUS

\* A joined sequence, place by place.
IsJoin(r, s, t) ==
    /\ DOMAIN r = 1 .. Len(s) + Len(t) /\ r = [i \in DOMAIN r |-> r[i]]
    /\ \A i \in 1 .. Len(s) : r[i] = s[i]
    /\ \A i \in Len(s) + 1 .. Len(s) + Len(t) : r[i] = t[i - Len(s)]

\* Concatenation is a join.
LEMMA JoinIs ==
    ASSUME NEW T, NEW s \in Seq(T), NEW t \in Seq(T)
    PROVE  IsJoin(s \o t, s, t)
<1> DEFINE r == s \o t
<1>1. /\ r \in Seq(T) /\ DOMAIN r = 1 .. Len(s) + Len(t)
      /\ \A i \in 1 .. Len(s) : r[i] = s[i]
      /\ \A i \in Len(s) + 1 .. Len(s) + Len(t) : r[i] = t[i - Len(s)]
    OBVIOUS
<1> HIDE DEF r
<1>2. r = [i \in DOMAIN r |-> r[i]]
    BY <1>1
<1>3. IsJoin(r, s, t)
    BY <1>1, <1>2 DEF IsJoin
<1> QED
    BY <1>3 DEF r

\* The articles of a joined sequence are the joined articles.
LEMMA ArticlesJoin ==
    ASSUME NEW T, NEW s \in Seq(T), NEW t \in Seq(T)
    PROVE  Articles(s \o t) = Articles(s) \o Articles(t)
<1> DEFINE r == s \o t
           a == Articles(s)
           b == Articles(t)
           S == {Article(x) : x \in T}
<1>1. /\ Len(s) \in Nat /\ Len(t) \in Nat /\ DOMAIN s = 1 .. Len(s) /\ DOMAIN t = 1 .. Len(t)
      /\ r \in Seq(T) /\ DOMAIN r = 1 .. Len(s) + Len(t)
      /\ \A i \in 1 .. Len(s) : r[i] = s[i] /\ s[i] \in T
      /\ \A i \in Len(s) + 1 .. Len(s) + Len(t) : r[i] = t[i - Len(s)] /\ t[i - Len(s)] \in T
      /\ \A i \in 1 .. Len(t) : t[i] \in T
    OBVIOUS
<1>2. /\ a \in [1 .. Len(s) -> S] /\ b \in [1 .. Len(t) -> S]
      /\ \A i \in 1 .. Len(s) : a[i] = Article(s[i])
      /\ \A i \in 1 .. Len(t) : b[i] = Article(t[i])
    BY <1>1 DEF Articles
<1> HIDE DEF a, b, S
<1>3. a \in Seq(S) /\ Len(a) = Len(s) /\ b \in Seq(S) /\ Len(b) = Len(t)
    BY <1>1, <1>2, ListIs
<1> DEFINE ab == a \o b
<1>4. IsJoin(ab, a, b)
    BY <1>3, JoinIs
<1> HIDE DEF ab
<1>5. \A i \in Len(s) + 1 .. Len(s) + Len(t) : i - Len(s) \in 1 .. Len(t)
    BY <1>1
<1>6. \A i \in 1 .. Len(s) + Len(t) : i \in 1 .. Len(s) \/ i \in Len(s) + 1 .. Len(s) + Len(t)
    BY <1>1
<1> DEFINE n == Len(s) + Len(t)
<1> HIDE DEF r
<1>7. \A i \in 1 .. n : ab[i] = Article(r[i])
    BY <1>1, <1>2, <1>3, <1>4, <1>5, <1>6 DEF IsJoin
<1>8. ab = [i \in 1 .. n |-> ab[i]]
    BY <1>3, <1>4 DEF IsJoin
<1>9. Articles(r) = [i \in 1 .. n |-> Article(r[i])]
    BY <1>1 DEF Articles
<1> HIDE DEF n
<1>10. Articles(r) = ab
    BY <1>7, <1>8, <1>9
<1> QED
    BY <1>10 DEF ab, a, b, r

\* The page's articles are those of the entries in page order, and as many.
LEMMA PageFollows ==
    ASSUME NEW entries \in Seq(MarksEntry)
    PROVE  /\ RenderPage(entries).articles = Articles(PageOrder(entries))
           /\ Len(PageOrder(entries)) = Len(entries)
<1> DEFINE part(i) == InSection(entries, SectionOrder[i])
           seqs == [s \in DOMAIN SectionOrder |-> InSection(entries, SectionOrder[s])]
           made == [s \in DOMAIN SectionOrder |-> SectionArticles(entries, SectionOrder[s])]
           p == part(1)
           q == part(2)
           r == part(3)
<1>1. /\ Len(SectionOrder) = 3 /\ DOMAIN SectionOrder = 1 .. 3
      /\ \A i \in 1 .. 3 : part(i) \in Seq(MarksEntry)
      /\ Len(part(1)) + Len(part(2)) + Len(part(3)) = Len(entries)
    BY SectionsAre
<1>2. \A i : SectionArticles(entries, SectionOrder[i]) = Articles(part(i))
    BY DEF SectionArticles, Articles
<1>3. /\ DOMAIN seqs = 1 .. 3 /\ Len(seqs) = 3 /\ seqs[1] = p /\ seqs[2] = q /\ seqs[3] = r
      /\ DOMAIN made = 1 .. 3 /\ Len(made) = 3
      /\ made[1] = Articles(p) /\ made[2] = Articles(q) /\ made[3] = Articles(r)
    BY <1>1, <1>2
<1>4. PageOrder(entries) = FlattenSeq(seqs) /\ RenderPage(entries).articles = FlattenSeq(made)
    BY DEF PageOrder, RenderPage
<1>5. p \in Seq(MarksEntry) /\ q \in Seq(MarksEntry) /\ r \in Seq(MarksEntry)
      /\ Len(p) + Len(q) + Len(r) = Len(entries)
    BY <1>1
<1> HIDE DEF seqs, made, p, q, r
<1>6. FlattenSeq(seqs) = (p \o q) \o r /\ FlattenSeq(made) = (Articles(p) \o Articles(q)) \o Articles(r)
    BY <1>3, FlattenThree
<1>7. p \o q \in Seq(MarksEntry) /\ Len(p \o q) = Len(p) + Len(q)
      /\ Articles(p \o q) = Articles(p) \o Articles(q)
    BY <1>5, ArticlesJoin, JoinAdds
<1>8. Articles((p \o q) \o r) = Articles(p \o q) \o Articles(r)
      /\ Len((p \o q) \o r) = Len(p \o q) + Len(r)
    <2> DEFINE pq == p \o q
    <2>1. pq \in Seq(MarksEntry)
        BY <1>7
    <2> HIDE DEF pq
    <2>2. Articles(pq \o r) = Articles(pq) \o Articles(r) /\ Len(pq \o r) = Len(pq) + Len(r)
        BY <1>5, <2>1, ArticlesJoin, JoinAdds
    <2> QED
        BY <2>2 DEF pq
<1>9. RenderPage(entries).articles = Articles(PageOrder(entries))
    BY <1>4, <1>6, <1>7, <1>8
<1>10. Len((p \o q) \o r) = Len(entries)
    <2> DEFINE x == Len(p)
               y == Len(q)
               z == Len(r)
               pq == Len(p \o q)
               all == Len((p \o q) \o r)
    <2>1. x + y + z = Len(entries) /\ pq = x + y /\ all = pq + z
        BY <1>5, <1>7, <1>8
    <2> HIDE DEF x, y, z, pq, all
    <2>2. all = Len(entries)
        BY <2>1
    <2> QED
        BY <2>2 DEF all
<1> QED
    BY <1>4, <1>6, <1>9, <1>10

\* Entries a build goes on with: each a settled record that was checked, each slug its own.
SlugAt(entries, k) == SlugOf[PageOrder(entries)[k].label]
Ready(entries) ==
    /\ entries \in Seq(MarksEntry)
    /\ \A e \in Range(entries) : e.record \in Name /\ CheckedItems(Answered[e.record])
    /\ \A k \in DOMAIN PageOrder(entries) : SlugAt(entries, k) \in Slugs
    /\ \A j, k \in DOMAIN PageOrder(entries) : SlugAt(entries, j) = SlugAt(entries, k) => j = k

\* What a marks file passes before anything is written.
LEMMA LoadedIsReady ==
    ASSUME NEW marks \in MarksFiles, Loads(marks), SlugsTellApart(marks)
    PROVE  Ready(marks)
<1> DEFINE ordered == PageOrder(marks)
           slugs == [k \in DOMAIN ordered |-> SlugAt(marks, k)]
<1>1. marks \in Seq(MarksEntry)
    BY MarksAssumption
<1>2. \A e \in Range(marks) : e \in MarksEntry
    BY <1>1 DEF Range
<1>3. \A e \in MarksEntry : e.record \in Name /\ e.label \in DOMAIN SlugOf
    BY DEF MarksEntry
<1>4. \A e \in Range(marks) : CheckedItems(Answered[e.record])
    BY DEF Loads
<1>5. /\ None \notin {SlugOf[e.label] : e \in Range(marks)}
      /\ Cardinality({SlugOf[e.label] : e \in Range(marks)}) = Len(marks)
    BY DEF SlugsTellApart
<1>6. \A e \in Range(marks) : SlugOf[e.label] \in Slugs
    BY <1>2, <1>3, <1>5 DEF Slugs
<1>7. ordered \in Seq(MarksEntry) /\ Range(ordered) = Range(marks) /\ Len(ordered) = Len(marks)
    BY <1>1, OrderHolds, PageFollows
<1>8. \A k \in DOMAIN ordered : ordered[k] \in Range(marks) /\ SlugAt(marks, k) = SlugOf[ordered[k].label]
    BY <1>7 DEF Range, SlugAt
<1> HIDE DEF ordered
<1>9. \A k \in DOMAIN ordered : SlugAt(marks, k) \in Slugs
    BY <1>6, <1>8
<1>10. Range(slugs) = {SlugOf[e.label] : e \in Range(marks)}
    <2>1. \A e \in Range(marks) : \E k \in DOMAIN ordered : ordered[k] = e
        BY <1>7 DEF Range
    <2>2. Range(slugs) = {SlugAt(marks, k) : k \in DOMAIN ordered}
        BY DEF Range
    <2> QED
        BY <1>8, <2>1, <2>2
<1>11. slugs \in Seq(Slugs) /\ Len(slugs) = Len(marks) /\ DOMAIN slugs = DOMAIN ordered
       /\ \A k \in DOMAIN ordered : slugs[k] = SlugAt(marks, k)
    <2>1. Len(ordered) \in Nat /\ DOMAIN ordered = 1 .. Len(ordered)
        BY <1>7
    <2>2. slugs \in [1 .. Len(ordered) -> Slugs]
        BY <1>9, <2>1
    <2> QED
        BY <1>7, <2>1, <2>2
<1> HIDE DEF slugs
<1>12. \A j, k \in DOMAIN slugs : slugs[j] = slugs[k] => j = k
    BY <1>5, <1>10, <1>11, NoneTwice
<1> QED
    BY <1>1, <1>2, <1>3, <1>4, <1>9, <1>11, <1>12 DEF Ready, ordered

\* Each graph carries the slug of its entry, so one file has one graph.
LEMMA GraphOfFile ==
    ASSUME Ready(build.entries), NEW k \in DOMAIN PageOrder(build.entries)
    PROVE  TextOf(SlugAt(build.entries, k)) = EntryGraphs(build.entries)[k]
<1> DEFINE entries == build.entries
           graphs == EntryGraphs(entries)
           file == SlugAt(entries, k)
<1>1. DOMAIN graphs = DOMAIN PageOrder(entries)
      /\ \A j \in DOMAIN PageOrder(entries) : graphs[j].slug = SlugAt(entries, j)
    BY DEF EntryGraphs, EntryGraph, SlugAt
<1>2. file \notin {"preview", "index"}
    <2>1. file \in Slugs
        BY DEF Ready
    <2> HIDE DEF file
    <2> QED
        BY <2>1, SlugAssumption
<1>3. TextOf(file) = CHOOSE graph \in Range(graphs) : graph.slug = file
    <2> HIDE DEF file
    <2> QED
        BY <1>2 DEF TextOf
<1>4. \A j \in DOMAIN PageOrder(entries) : SlugAt(entries, j) = SlugAt(entries, k) => j = k
    BY DEF Ready
<1> HIDE DEF graphs
<1>5. \A graph \in Range(graphs) : graph.slug = file <=> graph = graphs[k]
    BY <1>1, <1>4 DEF Range
<1>6. graphs[k] \in Range(graphs)
    BY <1>1 DEF Range
<1> QED
    BY <1>3, <1>5, <1>6 DEF graphs

\* The files of the site and the queue, whatever the records do.
Shaped ==
    /\ DOMAIN site = File
    /\ build = [entries |-> build.entries, left |-> build.left, text |-> build.text,
                clean |-> build.clean]
    /\ build.left \in Seq(File)

\* Before any build the state has its shape.
LEMMA ShapedStarts == GalleryInit => Shaped
    BY DEF GalleryInit, Shaped, NoBuild

\* Every step keeps the shape of the state.
LEMMA ShapedStep ==
    ASSUME Shaped, [GalleryNext]_allVars
    PROVE  Shaped'
<1>1. CASE UNCHANGED galleryVars
    BY <1>1 DEF galleryVars, Shaped
<1>2. CASE Build
    <2>1. PICK marks \in MarksFiles :
             /\ Loads(marks) /\ SlugsTellApart(marks)
             /\ build' = [entries |-> marks, left |-> FilesInOrder(PageOrder(marks)), text |-> None,
                          clean |-> FALSE]
             /\ site' = site
        BY <1>2 DEF Build
    <2>2. Ready(marks)
        BY <2>1, LoadedIsReady
    <2>3. /\ marks \in Seq(MarksEntry) /\ Range(PageOrder(marks)) = Range(marks)
          /\ \A k \in DOMAIN PageOrder(marks) : SlugOf[PageOrder(marks)[k].label] \in Slugs
        BY <2>2, OrderHolds DEF Ready, SlugAt
    <2>4. \A e \in Range(marks) : SlugOf[e.label] \in Slugs
        BY <2>3 DEF Range
    <2>5. FilesInOrder(PageOrder(marks)) \in Seq(File)
        BY <2>3, <2>4, FilesAre
    <2> QED
        BY <2>1, <2>5 DEF Shaped
<1>3. CASE OpenFile
    <2>1. build' = [build EXCEPT !.text = TextOf(Head(build.left))]
          /\ site' = [site EXCEPT ![Head(build.left)] = Torn]
        BY <1>3 DEF OpenFile
    <2>2. build' = [entries |-> build.entries, left |-> build.left,
                    text |-> TextOf(Head(build.left)), clean |-> build.clean]
        BY <2>1 DEF Shaped
    <2> QED
        BY <2>1, <2>2 DEF Shaped
<1>4. CASE FillFile
    <2>1. /\ build' = [build EXCEPT !.left = Tail(@), !.text = None, !.clean = Len(build.left) = 1]
          /\ site' = [site EXCEPT ![Head(build.left)] = Whole(build.text)]
          /\ build.left # <<>>
        BY <1>4 DEF FillFile, Idling
    <2>2. build' = [entries |-> build.entries, left |-> Tail(build.left), text |-> None,
                    clean |-> Len(build.left) = 1]
        BY <2>1 DEF Shaped
    <2>3. Tail(build.left) \in Seq(File)
        BY <2>1, QueueTurns DEF Shaped
    <2> QED
        BY <2>1, <2>2, <2>3 DEF Shaped
<1>5. CASE BuildStops
    BY <1>5 DEF BuildStops, Shaped, NoBuild
<1> QED
    BY <1>1, <1>2, <1>3, <1>4, <1>5 DEF GalleryNext, allVars

IsPageOf(page, entries) ==
    page.articles = Articles(PageOrder(entries)) /\ page.shown = Len(entries)

\* How the files of a build stand to its entries: a graph file is still to write or is the
\* graph, whole; what is about to be written is the graph of its entry, or the page; and
\* when the build ended, so does the page.
Stands(entries, left, text, clean, files) ==
    /\ clean => left = <<>>
    /\ left # <<>> => left[Len(left)] = "index"
    /\ left # <<>> \/ clean =>
          /\ Ready(entries)
          /\ \A k \in DOMAIN PageOrder(entries) :
                \/ SlugAt(entries, k) \in Range(left)
                \/ files[SlugAt(entries, k)] = Whole(EntryGraphs(entries)[k])
    /\ left # <<>> /\ text # None =>
          /\ \A k \in DOMAIN PageOrder(entries) :
                Head(left) = SlugAt(entries, k) => text = EntryGraphs(entries)[k]
          /\ Head(left) = "index" => IsPageOf(text, entries)
    /\ clean => files["index"].is = "whole" /\ IsPageOf(files["index"].holds, entries)

Standing == Stands(build.entries, build.left, build.text, build.clean, site)

\* Before any build nothing is on disk and nothing is planned.
LEMMA StandingStarts == GalleryInit => Standing
    BY DEF GalleryInit, Standing, Stands, NoBuild

\* A build that starts has every file still to write.
LEMMA StandingBuild ==
    ASSUME Build
    PROVE  Standing'
<1>1. PICK marks \in MarksFiles :
         /\ Loads(marks) /\ SlugsTellApart(marks)
         /\ build' = [entries |-> marks, left |-> FilesInOrder(PageOrder(marks)), text |-> None,
                      clean |-> FALSE]
    BY DEF Build
<1>2. Ready(marks)
    BY <1>1, LoadedIsReady
<1> DEFINE ordered == PageOrder(marks)
           files == FilesInOrder(ordered)
           graphs == [k \in DOMAIN ordered |-> SlugAt(marks, k)]
<1>3. ordered \in Seq(MarksEntry) /\ \A k \in DOMAIN ordered : SlugAt(marks, k) \in Slugs
    BY <1>2, OrderHolds DEF Ready
<1>4. files = graphs \o <<"preview", "index">>
    BY DEF FilesInOrder, SlugAt
<1> HIDE DEF ordered
<1> DEFINE n == Len(ordered)
<1>5. n \in Nat /\ DOMAIN ordered = 1 .. n
    BY <1>3
<1>6. graphs \in Seq(File) /\ Len(graphs) = n /\ <<"preview", "index">> \in Seq(File)
    <2>1. \A k \in 1 .. n : SlugAt(marks, k) \in File
        BY <1>3, <1>5 DEF File
    <2>2. graphs \in [1 .. n -> File]
        BY <1>5, <2>1
    <2>3. "preview" \in File /\ "index" \in File
        BY DEF File
    <2> HIDE DEF graphs, n
    <2> QED
        BY <1>5, <2>2, <2>3, ListIs
<1>7. /\ Len(files) = n + 2 /\ files[n + 2] = "index" /\ files # <<>>
      /\ \A k \in 1 .. n : k \in DOMAIN files /\ files[k] = graphs[k]
    <2> HIDE DEF files, graphs, n
    <2>1. \A k \in 1 .. n : k \in 1 .. n + 2
        BY <1>5
    <2>2. /\ Len(files) = n + 2 /\ DOMAIN files = 1 .. n + 2 /\ files[n + 2] = "index"
          /\ \A k \in 1 .. n : files[k] = graphs[k]
        BY <1>4, <1>5, <1>6
    <2>3. files # <<>>
        BY <1>5, <2>2
    <2> QED
        BY <2>1, <2>2, <2>3
<1>8. \A k \in DOMAIN ordered : SlugAt(marks, k) \in Range(files)
    <2> HIDE DEF files
    <2> QED
        BY <1>5, <1>7 DEF Range
<1> HIDE DEF files, n
<1>9. Stands(marks, files, None, FALSE, site')
    BY <1>2, <1>7, <1>8 DEF Stands, ordered
<1>10. /\ build'.entries = marks /\ build'.left = files /\ build'.text = None
       /\ build'.clean = FALSE
    BY <1>1 DEF files, ordered
<1> QED
    BY <1>9, <1>10 DEF Standing

\* A file is emptied and its text made: no other file changes.
LEMMA StandingOpen ==
    ASSUME Shaped, Standing, OpenFile
    PROVE  Standing'
<1>0. PICK file : file = Head(build.left)
    OBVIOUS
<1>1. /\ ~Idling /\ build.text = None
      /\ build' = [build EXCEPT !.text = TextOf(file)]
      /\ site' = [site EXCEPT ![file] = Torn]
    BY <1>0 DEF OpenFile
<1>3. build' = [entries |-> build.entries, left |-> build.left, text |-> TextOf(file),
                clean |-> build.clean]
    BY <1>1 DEF Shaped
<1> DEFINE entries == build.entries
           left == build.left
           text == TextOf(file)
           clean == build.clean
<1>4. left \in Seq(File) /\ left # <<>>
    BY <1>1 DEF Idling, Shaped
<1>5. file \in Range(left) /\ file \in File
    BY <1>0, <1>4, QueueTurns
<1>6. Stands(entries, left, build.text, clean, site)
    BY DEF Standing
<1>7. Ready(entries) /\ clean # TRUE
    BY <1>4, <1>6 DEF Stands
<1>8. \A f : f \in File /\ f # file => site'[f] = site[f]
    BY <1>1, <1>5 DEF Shaped
<1>9. \A k \in DOMAIN PageOrder(entries) : file = SlugAt(entries, k) => text = EntryGraphs(entries)[k]
    BY <1>7, GraphOfFile
<1>10. file = "index" => IsPageOf(text, entries)
    <2> SUFFICES ASSUME file = "index" PROVE IsPageOf(text, entries)
        OBVIOUS
    <2>1. text = RenderPage(entries)
        BY DEF TextOf
    <2>2. entries \in Seq(MarksEntry)
        BY <1>7 DEF Ready
    <2> HIDE DEF entries
    <2>3. RenderPage(entries).shown = Len(entries)
        BY DEF RenderPage
    <2>4. RenderPage(entries).articles = Articles(PageOrder(entries))
        BY <2>2, PageFollows
    <2> QED
        BY <2>1, <2>3, <2>4 DEF IsPageOf
<1>11. \A k \in DOMAIN PageOrder(entries) : SlugAt(entries, k) \in File
    BY <1>7 DEF Ready, File
<1> HIDE DEF entries, left, text, clean
<1>12. Stands(entries, left, text, clean, site')
    <2>1. \A k \in DOMAIN PageOrder(entries) :
             \/ SlugAt(entries, k) \in Range(left)
             \/ site'[SlugAt(entries, k)] = Whole(EntryGraphs(entries)[k])
        BY <1>4, <1>5, <1>6, <1>8, <1>11 DEF Stands
    <2>2. left # <<>> => left[Len(left)] = "index"
        BY <1>6 DEF Stands
    <2>3. ~clean
        BY <1>4, <1>6 DEF Stands
    <2>4. Head(left) = file
        BY <1>0 DEF left
    <2> QED
        BY <1>7, <1>9, <1>10, <2>1, <2>2, <2>3, <2>4 DEF Stands
<1>13. build'.entries = entries /\ build'.left = left /\ build'.text = text /\ build'.clean = clean
    BY <1>3 DEF entries, left, text, clean
<1> QED
    BY <1>12, <1>13 DEF Standing

\* A file is written whole: the graph of its entry, or the page, which is the last.
LEMMA StandingFill ==
    ASSUME Shaped, Standing, FillFile
    PROVE  Standing'
<1>0. PICK file : file = Head(build.left)
    OBVIOUS
<1>1. /\ ~Idling /\ build.text # None
      /\ site' = [site EXCEPT ![file] = Whole(build.text)]
      /\ build' = [build EXCEPT !.left = Tail(@), !.text = None, !.clean = Len(build.left) = 1]
    BY <1>0 DEF FillFile
<1>3. build' = [entries |-> build.entries, left |-> Tail(build.left), text |-> None,
                clean |-> Len(build.left) = 1]
    BY <1>1 DEF Shaped
<1> DEFINE entries == build.entries
           left == build.left
           text == build.text
           behind == Tail(left)
<1>4. left \in Seq(File) /\ left # <<>>
    BY <1>1 DEF Idling, Shaped
<1>5. /\ file \in File /\ file = left[1] /\ behind \in Seq(File)
      /\ Len(left) \in Nat \ {0} /\ Len(behind) = Len(left) - 1
      /\ Range(left) = {file} \cup Range(behind)
      /\ \A j \in DOMAIN behind : j + 1 \in DOMAIN left /\ behind[j] = left[j + 1] /\ j \in Nat
    BY <1>0, <1>4, QueueTurns
<1>6. Stands(entries, left, text, build.clean, site)
    BY DEF Standing
<1>7. /\ Ready(entries) /\ left[Len(left)] = "index"
      /\ \A k \in DOMAIN PageOrder(entries) : file = SlugAt(entries, k) => text = EntryGraphs(entries)[k]
      /\ file = "index" => IsPageOf(text, entries)
    BY <1>0, <1>1, <1>4, <1>6 DEF Stands
<1>8. site'[file] = Whole(text) /\ \A f : f \in File /\ f # file => site'[f] = site[f]
    BY <1>1, <1>5 DEF Shaped
<1>9. \A k \in DOMAIN PageOrder(entries) : SlugAt(entries, k) \in File
    BY <1>7 DEF Ready, File
<1>10. \A k \in DOMAIN PageOrder(entries) :
          \/ SlugAt(entries, k) \in Range(behind)
          \/ site'[SlugAt(entries, k)] = Whole(EntryGraphs(entries)[k])
    <2> SUFFICES ASSUME NEW k \in DOMAIN PageOrder(entries), SlugAt(entries, k) \notin Range(behind)
                 PROVE  site'[SlugAt(entries, k)] = Whole(EntryGraphs(entries)[k])
        OBVIOUS
    <2> HIDE DEF entries, left, text, behind
    <2>1. CASE SlugAt(entries, k) = file
        BY <1>7, <1>8, <2>1
    <2>2. CASE SlugAt(entries, k) # file
        <3>1. SlugAt(entries, k) \notin Range(left)
            BY <1>5, <2>2
        <3>2. site[SlugAt(entries, k)] = Whole(EntryGraphs(entries)[k])
            BY <1>4, <1>6, <3>1 DEF Stands
        <3> QED
            BY <1>8, <1>9, <2>2, <3>2
    <2> QED
        BY <2>1, <2>2
<1>11. behind # <<>> => behind[Len(behind)] = "index"
    <2> SUFFICES ASSUME behind # <<>> PROVE behind[Len(behind)] = "index"
        OBVIOUS
    <2> HIDE DEF entries, left, text, behind
    <2>1. Len(behind) \in DOMAIN behind
        BY <1>5
    <2>2. behind[Len(behind)] = left[Len(behind) + 1] /\ Len(behind) + 1 = Len(left)
        BY <1>5, <2>1
    <2> QED
        BY <1>7, <2>2
<1>12. Len(left) = 1 => behind = <<>> /\ file = "index"
    <2> SUFFICES ASSUME Len(left) = 1 PROVE behind = <<>> /\ file = "index"
        OBVIOUS
    <2> HIDE DEF entries, left, text, behind
    <2>1. Len(behind) = 0
        BY <1>5
    <2>2. behind = <<>>
        BY <1>5, <2>1
    <2> QED
        BY <1>5, <1>7, <2>2
<1>13. Len(left) = 1 => site'["index"].is = "whole" /\ IsPageOf(site'["index"].holds, entries)
    BY <1>7, <1>8, <1>12 DEF Whole
<1> HIDE DEF entries, left, text, behind
<1>14. Stands(entries, behind, None, Len(left) = 1, site')
    BY <1>7, <1>10, <1>11, <1>12, <1>13 DEF Stands
<1>15. /\ build'.entries = entries /\ build'.left = behind /\ build'.text = None
       /\ build'.clean = (Len(left) = 1)
    BY <1>3 DEF entries, left, behind
<1> QED
    BY <1>14, <1>15 DEF Standing

\* A build that stops leaves the files as they are and the plan empty.
LEMMA StandingStops ==
    ASSUME BuildStops
    PROVE  Standing'
    BY DEF BuildStops, Standing, Stands, NoBuild

\* One article and its graph, of one checked record.
LEMMA EntryAgrees ==
    ASSUME NEW entry, NEW slug, NEW position, NEW total, NEW previous, NEW next,
           WellFormed(Answered[entry.record]), CheckedItems(Answered[entry.record])
    PROVE  LET article == Article(entry)
               graph == EntryGraph(entry, slug, position, total, previous, next)
               ids == DOMAIN graph.items
           IN  /\ graph.record = article.record
               /\ article.strip.sent = Cardinality(ids)
               /\ article.strip.cited = graph.count
               /\ article.items.full = {id \in ids : graph.items[id].cited}
               /\ article.items.rows = {id \in ids : ~graph.items[id].cited}
               /\ {graph.items[id].order : id \in article.items.full} = 1 .. graph.count
               /\ \A c \in DOMAIN article.claims :
                     LET links == article.claims[c] IN
                     /\ DOMAIN links = {id \in ids : c \in graph.items[id].citedBy}
                     /\ \A id \in DOMAIN links : links[id] = graph.items[id].source
                                               /\ Opens(links[id])
               /\ graph.position = position /\ graph.total = total
               /\ graph.previous = previous /\ graph.next = next
<1> DEFINE answer == Answered[entry.record]
           article == Article(entry)
           graph == EntryGraph(entry, slug, position, total, previous, next)
           items == [id \in IdsOf(answer) |-> GraphItem(answer, id)]
           cited == Cited(answer)
<1>1. /\ Len(answer.items) = Cardinality(IdsOf(answer))
      /\ cited \subseteq IdsOf(answer)
      /\ \A id : CitedBy(answer, id) # {} <=> id \in cited
      /\ \A k \in DOMAIN answer.claims :
            /\ Uses(answer.claims[k]) \subseteq IdsOf(answer)
            /\ \A id \in Uses(answer.claims[k]) : Opens(ItemLink(ItemOf(answer, id)))
    BY AnswerAgrees
<1>2. {CiteOrder(answer, id) : id \in cited} = 1 .. Cardinality(cited)
    BY OrdersHaveNoGap
<1>3. /\ graph.record = entry.record /\ graph.items = items
      /\ graph.position = position /\ graph.total = total
      /\ graph.previous = previous /\ graph.next = next
      /\ graph.count = Cardinality({id \in IdsOf(answer) : items[id].cited})
    BY DEF EntryGraph
<1>4. /\ article.record = entry.record
      /\ article.strip.sent = Len(answer.items) /\ article.strip.cited = Cardinality(cited)
      /\ article.items.full = IdsOf(answer) \cap cited /\ article.items.rows = IdsOf(answer) \ cited
      /\ article.claims = [k \in DOMAIN answer.claims |-> CitationLinks(answer, answer.claims[k])]
    BY DEF Article, Strip, ItemsSent
<1>5. {i \in IdsOf(answer) : CitedBy(answer, i) # {}} = cited
    BY <1>1
<1>6. ASSUME NEW id \in IdsOf(answer)
      PROVE  /\ items[id].cited <=> id \in cited
             /\ items[id].citedBy = CitedBy(answer, id)
             /\ id \in cited => items[id].order = CiteOrder(answer, id)
             /\ items[id].source = ItemLink(ItemOf(answer, id))
    <2>1. items[id] = GraphItem(answer, id)
        OBVIOUS
    <2> HIDE DEF items, cited, answer
    <2> DEFINE met == {i \in IdsOf(answer) : CitedBy(answer, i) # {}}
    <2>2. met = cited
        BY <1>5
    <2>3. GraphItem(answer, id) =
            [cited |-> id \in met, citedBy |-> CitedBy(answer, id),
             order |-> IF id \in met THEN CiteOrder(answer, id) ELSE None,
             neighbours |-> Neighbours(answer, id),
             nearCited |-> id \in met \/ Neighbours(answer, id) \cap met # {},
             links |-> LinksAt(answer, id), source |-> ItemLink(ItemOf(answer, id))]
        BY DEF GraphItem
    <2> HIDE DEF met
    <2>4. /\ items[id].cited = (id \in met) /\ items[id].citedBy = CitedBy(answer, id)
          /\ items[id].order = IF id \in met THEN CiteOrder(answer, id) ELSE None
          /\ items[id].source = ItemLink(ItemOf(answer, id))
        BY <2>1, <2>3
    <2> QED
        BY <2>2, <2>4
<1>7. DOMAIN items = IdsOf(answer)
    OBVIOUS
<1> HIDE DEF items, cited, answer, article, graph
<1>8. {id \in IdsOf(answer) : items[id].cited} = cited
    BY <1>1, <1>6
<1>9. /\ article.strip.sent = Cardinality(IdsOf(answer)) /\ article.strip.cited = graph.count
      /\ graph.count = Cardinality(cited)
    BY <1>1, <1>3, <1>4, <1>8
<1>10. /\ article.items.full = {id \in IdsOf(answer) : items[id].cited}
       /\ article.items.rows = {id \in IdsOf(answer) : ~items[id].cited}
       /\ article.items.full = cited
    BY <1>1, <1>4, <1>6
<1>11. {items[id].order : id \in cited} = 1 .. graph.count
    <2>1. \A id \in cited : items[id].order = CiteOrder(answer, id)
        BY <1>1, <1>6
    <2> QED
        BY <1>2, <1>9, <2>1
<1>12. ASSUME NEW c \in DOMAIN article.claims
       PROVE  LET links == article.claims[c] IN
              /\ DOMAIN links = {id \in IdsOf(answer) : c \in items[id].citedBy}
              /\ \A id \in DOMAIN links : links[id] = items[id].source /\ Opens(links[id])
    <2> DEFINE claim == answer.claims[c]
               links == article.claims[c]
    <2>1. c \in DOMAIN answer.claims /\ links = CitationLinks(answer, claim)
        BY <1>4
    <2>2. Uses(claim) \subseteq IdsOf(answer) /\ \A id \in Uses(claim) : Opens(ItemLink(ItemOf(answer, id)))
        BY <1>1, <2>1
    <2>3. \A id : c \in CitedBy(answer, id) <=> id \in Uses(claim)
        BY <2>1 DEF CitedBy
    <2> HIDE DEF links, claim
    <2>4. DOMAIN links = Uses(claim) /\ \A id \in Uses(claim) : links[id] = ItemLink(ItemOf(answer, id))
        BY <2>1 DEF CitationLinks, Uses
    <2>5. {id \in IdsOf(answer) : c \in items[id].citedBy} = Uses(claim)
        BY <1>6, <2>2, <2>3
    <2>6. \A id \in Uses(claim) : links[id] = items[id].source /\ Opens(links[id])
        BY <1>6, <2>2, <2>4
    <2> QED
        BY <2>4, <2>5, <2>6 DEF links
<1>13. DOMAIN graph.items = IdsOf(answer) /\ \A id : graph.items[id] = items[id]
    BY <1>3, <1>7
<1>14. /\ graph.record = article.record
       /\ article.strip.sent = Cardinality(DOMAIN graph.items)
       /\ article.strip.cited = graph.count
       /\ article.items.full = {id \in DOMAIN graph.items : graph.items[id].cited}
       /\ article.items.rows = {id \in DOMAIN graph.items : ~graph.items[id].cited}
    BY <1>3, <1>4, <1>9, <1>10, <1>13
<1>15. {graph.items[id].order : id \in article.items.full} = 1 .. graph.count
    BY <1>10, <1>11, <1>13
<1>16. ASSUME NEW c \in DOMAIN article.claims
       PROVE  /\ DOMAIN article.claims[c] = {id \in DOMAIN graph.items : c \in graph.items[id].citedBy}
              /\ \A id \in DOMAIN article.claims[c] :
                    /\ article.claims[c][id] = graph.items[id].source
                    /\ Opens(article.claims[c][id])
    BY <1>12, <1>13
<1>17. /\ graph.position = position /\ graph.total = total
       /\ graph.previous = previous /\ graph.next = next
    BY <1>3
<1> QED
    BY <1>14, <1>15, <1>16, <1>17 DEF article, graph

\* A site whose build ended: the page opens the graph of each of its articles.
LEMMA StandingAgrees == Standing => GraphsAgree
<1> SUFFICES ASSUME Standing, build.clean PROVE GraphsAgree
    BY DEF GraphsAgree
<1> DEFINE entries == build.entries
           ordered == PageOrder(entries)
           graphs == EntryGraphs(entries)
           slug(j) == IF j \in DOMAIN ordered THEN SlugOf[ordered[j].label] ELSE None
<1>1. /\ Ready(entries) /\ build.left = <<>> /\ Page.articles = Articles(ordered)
      /\ Page.shown = Len(entries)
      /\ \A k \in DOMAIN ordered :
            \/ SlugAt(entries, k) \in Range(build.left)
            \/ site[SlugAt(entries, k)] = Whole(graphs[k])
    BY DEF Standing, Stands, Page, IsPageOf
<1>2. Range(build.left) = {}
    BY <1>1 DEF Range
<1>3. /\ ordered \in Seq(MarksEntry) /\ Range(ordered) = Range(entries)
      /\ Len(ordered) = Len(entries)
    BY <1>1, OrderHolds, PageFollows DEF Ready
<1>4. \A k \in DOMAIN ordered :
         graphs[k] = EntryGraph(ordered[k], slug(k), k, Len(ordered), slug(k - 1), slug(k + 1))
    BY DEF EntryGraphs
<1>5. DOMAIN Page.articles = DOMAIN ordered /\ \A k \in DOMAIN ordered : Page.articles[k] = Article(ordered[k])
    BY <1>1 DEF Articles
<1>6. ASSUME NEW j PROVE slug(j) = IF j \in DOMAIN Page.articles THEN Page.articles[j].slug ELSE None
    <2>1. \A e : Article(e).slug = SlugOf[e.label]
        BY DEF Article
    <2> QED
        BY <1>5, <2>1
<1>7. ASSUME NEW k \in DOMAIN ordered
      PROVE  /\ WellFormed(Answered[ordered[k].record]) /\ CheckedItems(Answered[ordered[k].record])
             /\ site[Article(ordered[k]).slug] = Whole(graphs[k])
    <2>1. ordered[k] \in Range(entries)
        BY <1>3 DEF Range
    <2>2. ordered[k].record \in Name /\ CheckedItems(Answered[ordered[k].record])
        BY <1>1, <2>1 DEF Ready
    <2>3. Answered[ordered[k].record] \in Range(Answered)
        BY <2>2, AnsweredAssumption DEF Range
    <2>4. WellFormed(Answered[ordered[k].record])
        BY <2>3, AnsweredAssumption DEF WellFormed
    <2>5. Article(ordered[k]).slug = SlugAt(entries, k)
        BY DEF Article, SlugAt
    <2> QED
        BY <1>1, <1>2, <2>2, <2>4, <2>5
<1> HIDE DEF entries, ordered, graphs, slug
<1>8. ASSUME NEW k \in DOMAIN Page.articles
      PROVE  LET article == Page.articles[k]
                 graph == GraphAt(article.slug)
                 ids == DOMAIN graph.items
                 beside(j) == IF j \in DOMAIN Page.articles THEN Page.articles[j].slug ELSE None
             IN  /\ site[article.slug].is = "whole"
                 /\ graph.record = article.record
                 /\ article.strip.sent = Cardinality(ids)
                 /\ article.strip.cited = graph.count
                 /\ article.items.full = {id \in ids : graph.items[id].cited}
                 /\ article.items.rows = {id \in ids : ~graph.items[id].cited}
                 /\ {graph.items[id].order : id \in article.items.full} = 1 .. graph.count
                 /\ \A c \in DOMAIN article.claims :
                       LET links == article.claims[c] IN
                       /\ DOMAIN links = {id \in ids : c \in graph.items[id].citedBy}
                       /\ \A id \in DOMAIN links : links[id] = graph.items[id].source
                                                 /\ Opens(links[id])
                 /\ graph.position = k /\ graph.total = Page.shown
                 /\ graph.previous = beside(k - 1) /\ graph.next = beside(k + 1)
    <2> DEFINE article == Page.articles[k]
               graph == GraphAt(article.slug)
    <2>1. article = Article(ordered[k]) /\ k \in DOMAIN ordered
        BY <1>5, <1>8
    <2>2. site[article.slug] = Whole(graphs[k])
        BY <1>7, <2>1
    <2>3. site[article.slug].is = "whole" /\ graph = graphs[k]
        BY <2>2 DEF Whole, GraphAt
    <2>4. graph = EntryGraph(ordered[k], slug(k), k, Page.shown, slug(k - 1), slug(k + 1))
        BY <1>1, <1>3, <1>4, <2>1, <2>3
    <2>5. WellFormed(Answered[ordered[k].record]) /\ CheckedItems(Answered[ordered[k].record])
        BY <1>7, <2>1
    <2> DEFINE a == Article(ordered[k])
               g == EntryGraph(ordered[k], slug(k), k, Page.shown, slug(k - 1), slug(k + 1))
               agree(x, y) ==
                   /\ y.record = x.record
                   /\ x.strip.sent = Cardinality(DOMAIN y.items)
                   /\ x.strip.cited = y.count
                   /\ x.items.full = {id \in DOMAIN y.items : y.items[id].cited}
                   /\ x.items.rows = {id \in DOMAIN y.items : ~y.items[id].cited}
                   /\ {y.items[id].order : id \in x.items.full} = 1 .. y.count
                   /\ \A c \in DOMAIN x.claims :
                         LET links == x.claims[c] IN
                         /\ DOMAIN links = {id \in DOMAIN y.items : c \in y.items[id].citedBy}
                         /\ \A id \in DOMAIN links : links[id] = y.items[id].source
                                                   /\ Opens(links[id])
    <2>6. agree(a, g)
        BY <2>5, EntryAgrees
    <2>7. /\ g.position = k /\ g.total = Page.shown
          /\ g.previous = slug(k - 1) /\ g.next = slug(k + 1)
        BY <2>5, EntryAgrees
    <2>8. a = article /\ g = graph
        BY <2>1, <2>4
    <2>9. agree(article, graph)
        <3> HIDE DEF agree, a, g, article, graph
        <3> QED
            BY <2>6, <2>8
    <2>10. /\ graph.position = k /\ graph.total = Page.shown
           /\ graph.previous = slug(k - 1) /\ graph.next = slug(k + 1)
        <3> HIDE DEF a, g, article, graph
        <3> QED
            BY <2>7, <2>8
    <2> HIDE DEF a, g
    <2> QED
        BY <1>6, <2>3, <2>9, <2>10
<1> QED
    BY <1>8 DEF GraphsAgree

\* However many asks run beside it: when the last build ended, every graph the page opens is
\* the one of the record beside it, its counts are the strip's, its cited items the ones
\* listed in full and numbered with no gap, each citation opens the place the graph gives,
\* and the arrows walk the articles in page order.
THEOREM GraphsMatchThePage == GallerySpec => []GraphsAgree
<1>1. GalleryInit => Shaped /\ Standing
    BY ShapedStarts, StandingStarts
<1>2. Shaped /\ Standing /\ [GalleryNext]_allVars => (Shaped /\ Standing)'
    <2> SUFFICES ASSUME Shaped, Standing, [GalleryNext]_allVars PROVE (Shaped /\ Standing)'
        OBVIOUS
    <2>1. CASE UNCHANGED galleryVars
        BY <2>1, ShapedStep DEF galleryVars, Standing
    <2>2. CASE Build
        BY <2>2, ShapedStep, StandingBuild
    <2>3. CASE OpenFile
        BY <2>3, ShapedStep, StandingOpen
    <2>4. CASE FillFile
        BY <2>4, ShapedStep, StandingFill
    <2>5. CASE BuildStops
        BY <2>5, ShapedStep, StandingStops
    <2> QED
        BY <2>1, <2>2, <2>3, <2>4, <2>5 DEF GalleryNext, allVars
<1> QED
    BY <1>1, <1>2, StandingAgrees, PTL DEF GallerySpec
=============================================================================
