---------------------------- MODULE NfdCsProofs ----------------------------
(***************************************************************************)
(* Proofs about the Content Store: its queues, its limit and its lookup,   *)
(* for every set of names, every set of Interests and every limit.         *)
(***************************************************************************)
EXTENDS NfdCs, FiniteSetTheorems, TLAPS

(* Induction over the natural numbers, and sequences without duplicates *)

Distinct(q) == \A j, k \in DOMAIN q : q[j] = q[k] => j = k

\* Every set of natural numbers that is not empty has a least element.
LEMMA LeastElement ==
    ASSUME NEW T \in SUBSET Nat, T # {}
    PROVE  \E m \in T : \A k \in T : m <= k
<1> DEFINE R == {ss \in Nat \X Nat : ss[1] < ss[2]}
<1>1. IsWellFoundedOn(R, Nat)
  BY NatLessThanWellFounded DEF OpToRel
<1>2. PICK m \in T : \A k \in T : ~(<<k, m>> \in R)
  <2> HIDE DEF R
  <2> QED BY <1>1, WFMin, Zenon
<1>3. ASSUME NEW k \in T PROVE m <= k
  <2>1. <<k, m>> \in Nat \X Nat /\ <<k, m>>[1] = k /\ <<k, m>>[2] = m
    OBVIOUS
  <2>2. ~(k < m)
    BY <1>2, <2>1
  <2> QED BY <2>2
<1> QED BY <1>3

\* Induction: a set that holds 0, and the successor of what it holds, holds
\* every natural number.
LEMMA SetInduction ==
    ASSUME NEW S, 0 \in S, \A k \in Nat : k \in S => k + 1 \in S
    PROVE  Nat \subseteq S
<1> SUFFICES ASSUME Nat \ S # {} PROVE FALSE
  OBVIOUS
<1>1. PICK m \in Nat \ S : \A k \in Nat \ S : m <= k
  BY LeastElement, Zenon
<1>2. m # 0 /\ m - 1 \in Nat
  BY <1>1
<1>3. m - 1 \in S
  BY <1>1, <1>2
<1> QED BY <1>1, <1>2, <1>3

\* A bounded set of natural numbers that is not empty has a greatest element.
LEMMA GreatestElement ==
    ASSUME NEW N \in Nat, NEW T \in SUBSET (0..N), T # {}
    PROVE  \E m \in T : \A k \in T : k <= m
<1> DEFINE U == {N - k : k \in T}
<1>1. U \in SUBSET Nat /\ U # {}
  <2>1. PICK k \in T : TRUE
    BY Zenon
  <2>2. N - k \in U
    OBVIOUS
  <2>3. \A j \in T : N - j \in Nat
    OBVIOUS
  <2> QED BY <2>2, <2>3
<1>2. PICK u \in U : \A v \in U : u <= v
  <2> HIDE DEF U
  <2> QED BY <1>1, LeastElement
<1>3. PICK m \in T : u = N - m
  OBVIOUS
<1>4. \A k \in T : N - m <= N - k
  BY <1>2, <1>3
<1> QED BY <1>3, <1>4

\* A sequence is one over the set of its elements' type.
LEMMA SeqOfElements ==
    ASSUME NEW S, NEW T, NEW q \in Seq(T), \A k \in DOMAIN q : q[k] \in S
    PROVE  q \in Seq(S)
    OBVIOUS

\* Appending a new element keeps the elements distinct.
LEMMA AppendDistinct ==
    ASSUME NEW S, NEW q \in Seq(S), NEW e \in S, Distinct(q), e \notin Range(q)
    PROVE  /\ Append(q, e) \in Seq(S)
           /\ Distinct(Append(q, e))
           /\ Len(Append(q, e)) = Len(q) + 1
           /\ Range(Append(q, e)) = Range(q) \cup {e}
<1> DEFINE r == Append(q, e)
<1>1. DOMAIN q = 1..Len(q) /\ Len(q) \in Nat
  OBVIOUS
<1>2. /\ r \in Seq(S) /\ Len(r) = Len(q) + 1 /\ DOMAIN r = 1..(Len(q) + 1)
      /\ \A j \in DOMAIN q : r[j] = q[j]
      /\ r[Len(q) + 1] = e
  OBVIOUS
<1> HIDE DEF r
<1>3. /\ \A j \in DOMAIN r : j \in DOMAIN q \/ j = Len(q) + 1
      /\ \A j \in DOMAIN q : j \in DOMAIN r
      /\ Len(q) + 1 \in DOMAIN r
  BY <1>1, <1>2
<1>4. \A j \in DOMAIN q : q[j] # e
  BY DEF Range
<1>5. Distinct(r)
  BY <1>2, <1>3, <1>4 DEF Distinct
<1>6. Range(r) = Range(q) \cup {e}
  BY <1>2, <1>3 DEF Range
<1> QED BY <1>2, <1>5, <1>6 DEF r

\* Cutting a sequence of distinct elements after the k-th one splits its
\* elements.
LEMMA SplitDistinct ==
    ASSUME NEW S, NEW q \in Seq(S), NEW k \in 1..Len(q), Distinct(q)
    PROVE  /\ SubSeq(q, k + 1, Len(q)) \in Seq(S)
           /\ Distinct(SubSeq(q, k + 1, Len(q)))
           /\ Len(SubSeq(q, k + 1, Len(q))) = Len(q) - k
           /\ Range(SubSeq(q, 1, k)) \cap Range(SubSeq(q, k + 1, Len(q))) = {}
           /\ Range(SubSeq(q, 1, k)) \cup Range(SubSeq(q, k + 1, Len(q))) = Range(q)
<1> DEFINE a == SubSeq(q, 1, k)
           b == SubSeq(q, k + 1, Len(q))
<1>1. DOMAIN q = 1..Len(q) /\ Len(q) \in Nat /\ k \in Nat /\ 1 <= k /\ k <= Len(q)
  OBVIOUS
<1>2. a \in Seq(S) /\ DOMAIN a = 1..k /\ \A j \in 1..k : a[j] = q[j]
  <2>1. /\ a \in Seq(S) /\ Len(a) = (IF 1 <= k THEN k - 1 + 1 ELSE 0)
        /\ \A i \in 1..(k - 1 + 1) : a[i] = q[1 + i - 1]
    <3>1. \A i \in 1..k : q[i] \in S
      BY <1>1
    <3> QED BY <1>1, <3>1
  <2> HIDE DEF a
  <2>2. k - 1 + 1 = k /\ \A i \in 1..k : 1 + i - 1 = i
    BY <1>1
  <2>3. Len(a) = k
    BY <1>1, <2>1, <2>2
  <2> QED BY <2>1, <2>2, <2>3
<1>3. /\ b \in Seq(S) /\ Len(b) = Len(q) - k /\ DOMAIN b = 1..(Len(q) - k)
      /\ \A j \in 1..(Len(q) - k) : b[j] = q[k + j]
  <2>1. \A i \in (k + 1)..Len(q) : q[i] \in S
    BY <1>1
  <2>2. k + 1 \in Int /\ Len(q) \in Int
    BY <1>1
  <2>3. /\ b \in Seq(S)
        /\ Len(b) = IF k + 1 <= Len(q) THEN Len(q) - (k + 1) + 1 ELSE 0
        /\ \A i \in 1..(Len(q) - (k + 1) + 1) : b[i] = q[(k + 1) + i - 1]
    BY <2>1, <2>2
  <2> HIDE DEF b
  <2>4. Len(q) - (k + 1) + 1 = Len(q) - k
    BY <1>1
  <2>7. \A j \in 1..(Len(q) - k) : (k + 1) + j - 1 = k + j
    BY <1>1
  <2>8. Len(b) = IF k + 1 <= Len(q) THEN Len(q) - (k + 1) + 1 ELSE 0
    BY <2>3
  <2>5. Len(b) = Len(q) - k
    <3>1. CASE k + 1 <= Len(q)
      BY <2>4, <2>8, <3>1
    <3>2. CASE k = Len(q)
      BY <1>1, <2>8, <3>2
    <3>3. \A i, n \in Nat : i <= n => i + 1 <= n \/ i = n
      BY SMTT(30)
    <3>4. k + 1 <= Len(q) \/ k = Len(q)
      BY <1>1, <3>3, Zenon
    <3> QED BY <3>1, <3>2, <3>4
  <2>6. \A j \in 1..(Len(q) - k) : b[j] = q[k + j]
    BY <2>3, <2>4, <2>7, Zenon
  <2> QED BY <2>3, <2>5, <2>6
<1> HIDE DEF a, b
<1>4. \A j \in DOMAIN b : k + j \in DOMAIN q /\ k + j > k
  BY <1>1, <1>3
<1>5. \A j \in DOMAIN a : j \in DOMAIN q /\ j <= k
  BY <1>1, <1>2
<1>6. \A h \in DOMAIN q : h \in DOMAIN a \/ (h - k \in DOMAIN b /\ k + (h - k) = h)
  BY <1>1, <1>2, <1>3
<1>7. Distinct(b)
  <2> SUFFICES ASSUME NEW i \in DOMAIN b, NEW j \in DOMAIN b, b[i] = b[j] PROVE i = j
    BY DEF Distinct
  <2>1. k + i = k + j
    BY <1>3, <1>4, Zenon DEF Distinct
  <2> QED BY <1>1, <1>3, <2>1
<1>8. Range(a) \cap Range(b) = {}
  <2> SUFFICES ASSUME NEW i \in DOMAIN a, NEW j \in DOMAIN b, a[i] = b[j] PROVE FALSE
    BY DEF Range
  <2>1. i = k + j
    BY <1>2, <1>3, <1>4, <1>5 DEF Distinct
  <2> QED BY <1>1, <1>2, <1>3, <2>1
<1>9. Range(a) \cup Range(b) = Range(q)
  <2>1. ASSUME NEW h \in DOMAIN q PROVE q[h] \in Range(a) \/ q[h] \in Range(b)
    <3>1. CASE h \in DOMAIN a
      BY <1>2, <3>1 DEF Range
    <3>2. CASE h - k \in DOMAIN b /\ k + (h - k) = h
      <4>1. b[h - k] = q[h]
        BY <1>3, <3>2
      <4> QED BY <3>2, <4>1 DEF Range
    <3> QED BY <1>6, <3>1, <3>2
  <2>2. Range(a) \subseteq Range(q) /\ Range(b) \subseteq Range(q)
    BY <1>2, <1>3, <1>4, <1>5 DEF Range
  <2>3. Range(q) \subseteq Range(a) \cup Range(b)
    BY <2>1 DEF Range
  <2> QED BY <2>2, <2>3
<1> QED BY <1>3, <1>7, <1>8, <1>9 DEF a, b

\* Two sequences of distinct elements that share none.
LEMMA ConcatDistinct ==
    ASSUME NEW S, NEW a \in Seq(S), NEW b \in Seq(S), Distinct(a), Distinct(b),
           Range(a) \cap Range(b) = {}
    PROVE  /\ a \o b \in Seq(S)
           /\ Distinct(a \o b)
           /\ Range(a \o b) = Range(a) \cup Range(b)
           /\ Len(a \o b) = Len(a) + Len(b)
<1> DEFINE c == a \o b
<1>1. /\ DOMAIN a = 1..Len(a) /\ Len(a) \in Nat
      /\ DOMAIN b = 1..Len(b) /\ Len(b) \in Nat
      /\ c \in Seq(S) /\ Len(c) = Len(a) + Len(b) /\ DOMAIN c = 1..(Len(a) + Len(b))
      /\ \A i \in 1..(Len(a) + Len(b)) : c[i] = IF i <= Len(a) THEN a[i] ELSE b[i - Len(a)]
  OBVIOUS
<1> HIDE DEF c
<1>2. ASSUME NEW i \in DOMAIN c
      PROVE  \/ i \in DOMAIN a /\ c[i] = a[i] /\ c[i] \in Range(a)
             \/ i - Len(a) \in DOMAIN b /\ c[i] = b[i - Len(a)] /\ c[i] \in Range(b)
  <2>1. CASE i <= Len(a)
    BY <1>1, <2>1 DEF Range
  <2>2. CASE ~(i <= Len(a))
    <3>1. i - Len(a) \in DOMAIN b /\ c[i] = b[i - Len(a)]
      BY <1>1, <2>2
    <3> QED BY <3>1 DEF Range
  <2> QED BY <2>1, <2>2
<1>3. Distinct(c)
  <2> SUFFICES ASSUME NEW i \in DOMAIN c, NEW j \in DOMAIN c, c[i] = c[j] PROVE i = j
    BY DEF Distinct
  <2>1. CASE i \in DOMAIN a /\ c[i] = a[i] /\ j \in DOMAIN a /\ c[j] = a[j]
    BY <2>1, Zenon DEF Distinct
  <2>2. CASE /\ i - Len(a) \in DOMAIN b /\ c[i] = b[i - Len(a)]
             /\ j - Len(a) \in DOMAIN b /\ c[j] = b[j - Len(a)]
    <3>1. i - Len(a) = j - Len(a)
      BY <2>2, Zenon DEF Distinct
    <3> QED BY <1>1, <3>1
  <2> QED BY <1>2, <2>1, <2>2
<1>4. Range(c) \subseteq Range(a) \cup Range(b)
  BY <1>2 DEF Range
<1>5. ASSUME NEW i \in DOMAIN a PROVE a[i] \in Range(c)
  <2>1. i \in DOMAIN c /\ c[i] = a[i]
    BY <1>1
  <2> QED BY <2>1 DEF Range
<1>6. ASSUME NEW i \in DOMAIN b PROVE b[i] \in Range(c)
  <2>1. /\ i + Len(a) \in DOMAIN c /\ ~(i + Len(a) <= Len(a)) /\ (i + Len(a)) - Len(a) = i
    BY <1>1
  <2>2. c[i + Len(a)] = b[i]
    BY <1>1, <2>1
  <2> QED BY <2>1, <2>2 DEF Range
<1>7. Range(c) = Range(a) \cup Range(b)
  <2>1. Range(a) \subseteq Range(c) /\ Range(b) \subseteq Range(c)
    BY <1>5, <1>6 DEF Range
  <2> QED BY <1>4, <2>1
<1> QED BY <1>1, <1>3, <1>7 DEF c

\* A sequence of distinct elements is as long as the set of its elements is large.
LEMMA DistinctCardinality ==
    ASSUME NEW S, NEW q \in Seq(S), Distinct(q)
    PROVE  IsFiniteSet(Range(q)) /\ Cardinality(Range(q)) = Len(q)
<1>1. DOMAIN q = 1..Len(q) /\ Len(q) \in Nat
  OBVIOUS
<1>2. q \in Bijection(1..Len(q), Range(q))
  <2>1. q \in [1..Len(q) -> Range(q)]
    BY <1>1 DEF Range
  <2> QED BY <1>1, <2>1 DEF Distinct, Range, Bijection, Injection, IsInjective, Surjection
<1>3. IsFiniteSet(1..Len(q)) /\ Cardinality(1..Len(q)) = Len(q)
  BY <1>1, FS_Interval, SMTT(30)
<1>4. ExistsBijection(1..Len(q), Range(q))
  BY <1>2 DEF ExistsBijection
<1> QED BY <1>3, <1>4, FS_Bijection
-----------------------------------------------------------------------------

-----------------------------------------------------------------------------
(* Selections of a sequence *)

\* What Only keeps of s: elements of S, and any two of them in the order they
\* have in s.
Selection(r, s, S) ==
    /\ r \in Seq(S)
    /\ \A a \in DOMAIN r : \E j \in 1..Len(s) : r[a] = s[j]
    /\ \A a, b \in DOMAIN r : a < b =>
           \E j, k \in 1..Len(s) : j < k /\ r[a] = s[j] /\ r[b] = s[k]
    /\ \A j \in 1..Len(s) : s[j] \in S => s[j] \in Range(r)

\* The recursive definition of Only has a solution.
LEMMA OnlyDef ==
    ASSUME NEW T, NEW s \in Seq(T), NEW S
    PROVE  \E kept : /\ kept[0] = <<>>
                     /\ \A k \in 1..Len(s) :
                            kept[k] = IF s[k] \in S THEN Append(kept[k - 1], s[k])
                                      ELSE kept[k - 1]
                     /\ Only(s, S) = kept[Len(s)]
<1> DEFINE Step(a, k) == IF s[k] \in S THEN Append(a, s[k]) ELSE a
           Upto(f, j) == f = [k \in 0..j |-> IF k = 0 THEN <<>> ELSE Step(f[k - 1], k)]
           Good == {j \in Nat : \E f : Upto(f, j)}
<1>1. 0 \in Good
  <2> DEFINE f == [k \in 0..0 |-> <<>>]
  <2>1. Upto(f, 0)
    OBVIOUS
  <2> QED BY <2>1, Zenon
<1>2. ASSUME NEW j \in Nat, j \in Good PROVE j + 1 \in Good
  <2>1. PICK f : Upto(f, j)
    BY <1>2
  <2> HIDE DEF Step
  <2> DEFINE g == [k \in 0..(j + 1) |-> IF k = 0 THEN <<>> ELSE Step(f[k - 1], k)]
  <2>2. \A k \in 1..(j + 1) : g[k - 1] = f[k - 1]
    BY <2>1
  <2>3. \A k \in 0..(j + 1) : (IF k = 0 THEN <<>> ELSE Step(f[k - 1], k))
                                = IF k = 0 THEN <<>> ELSE Step(g[k - 1], k)
    <3> HIDE DEF g
    <3> QED BY <2>2
  <2>4. Upto(g, j + 1)
    BY <2>3
  <2> HIDE DEF g, Upto
  <2> QED BY <2>4
<1>3. Len(s) \in Good
  <2> HIDE DEF Good
  <2>1. Nat \subseteq Good
    BY <1>1, <1>2, SetInduction
  <2> QED BY <2>1
<1>4. \E f : Upto(f, Len(s))
  BY <1>3
<1> DEFINE kept == CHOOSE f : f = [k \in 0..Len(s) |->
                       IF k = 0 THEN <<>>
                       ELSE IF s[k] \in S THEN Append(f[k - 1], s[k]) ELSE f[k - 1]]
<1>5. Upto(kept, Len(s))
  BY <1>4, Zenon
<1>6. Only(s, S) = kept[Len(s)]
  BY DEF Only
<1>7. Len(s) \in Nat
  OBVIOUS
<1> HIDE DEF kept, Step
<1>8. /\ kept[0] = <<>>
      /\ \A k \in 1..Len(s) : kept[k] = Step(kept[k - 1], k)
  BY <1>5, <1>7
<1> QED BY <1>6, <1>8 DEF Step

\* What is kept of the first k elements.
LEMMA OnlySelects ==
    ASSUME NEW T, NEW s \in Seq(T), NEW S
    PROVE  Selection(Only(s, S), s, S)
<1>1. PICK kept : /\ kept[0] = <<>>
                  /\ \A k \in 1..Len(s) :
                         kept[k] = IF s[k] \in S THEN Append(kept[k - 1], s[k])
                                   ELSE kept[k - 1]
                  /\ Only(s, S) = kept[Len(s)]
  BY OnlyDef
<1>2. Len(s) \in Nat /\ DOMAIN s = 1..Len(s)
  OBVIOUS
<1> DEFINE Sel(r, n) ==
               /\ r \in Seq(S)
               /\ \A a \in DOMAIN r : \E j \in 1..n : r[a] = s[j]
               /\ \A a, b \in DOMAIN r : a < b =>
                      \E j, k \in 1..n : j < k /\ r[a] = s[j] /\ r[b] = s[k]
               /\ \A j \in 1..n : s[j] \in S => s[j] \in Range(r)
           Good == {n \in Nat : n <= Len(s) => Sel(kept[n], n)}
<1>3. 0 \in Good
  <2>1. Sel(<<>>, 0)
    OBVIOUS
  <2> HIDE DEF Sel
  <2> QED BY <1>1, <2>1
<1>4. ASSUME NEW n \in Nat, n \in Good PROVE n + 1 \in Good
  <2> SUFFICES ASSUME n + 1 <= Len(s) PROVE Sel(kept[n + 1], n + 1)
    OBVIOUS
  <2> DEFINE r == kept[n]
             e == s[n + 1]
  <2>1. Sel(r, n) /\ n + 1 \in 1..Len(s) /\ (n + 1) - 1 = n
    BY <1>2, <1>4
  <2>2. kept[n + 1] = IF e \in S THEN Append(r, e) ELSE r
    BY <1>1, <2>1
  <2> HIDE DEF r
  <2>3. CASE e \notin S
    <3>1. Sel(r, n + 1)
      <4>1. \A j \in 1..(n + 1) : j \in 1..n \/ j = n + 1
        OBVIOUS
      <4>2. \A j \in 1..n : j \in 1..(n + 1)
        OBVIOUS
      <4> QED BY <2>1, <2>3, <4>1, <4>2
    <3> QED BY <2>2, <2>3, <3>1
  <2>4. CASE e \in S
    <3> DEFINE q == Append(r, e)
    <3>1. /\ q \in Seq(S) /\ Len(r) \in Nat /\ DOMAIN r = 1..Len(r)
          /\ DOMAIN q = 1..(Len(r) + 1)
          /\ \A a \in DOMAIN r : q[a] = r[a]
          /\ q[Len(r) + 1] = e
      BY <2>1, <2>4
    <3> HIDE DEF q
    <3>2. \A a \in DOMAIN q : (a \in DOMAIN r /\ q[a] = r[a]) \/ (a = Len(r) + 1 /\ q[a] = e)
      BY <3>1
    <3>3. \A j \in 1..n : j \in 1..(n + 1) /\ j < n + 1
      OBVIOUS
    <3>4. n + 1 \in 1..(n + 1) /\ e = s[n + 1]
      OBVIOUS
    <3> HIDE DEF e
    <3>5. \A a \in DOMAIN q : \E j \in 1..(n + 1) : q[a] = s[j]
      BY <2>1, <3>2, <3>3, <3>4
    <3>6. ASSUME NEW a \in DOMAIN q, NEW b \in DOMAIN q, a < b
          PROVE  \E j, k \in 1..(n + 1) : j < k /\ q[a] = s[j] /\ q[b] = s[k]
      <4>1. a \in DOMAIN r /\ q[a] = r[a]
        BY <3>1, <3>2, <3>6
      <4>2. CASE b \in DOMAIN r /\ q[b] = r[b]
        BY <2>1, <3>3, <3>6, <4>1, <4>2, SMTT(30)
      <4>3. CASE b = Len(r) + 1 /\ q[b] = e
        <5>1. PICK j \in 1..n : r[a] = s[j]
          BY <2>1, <4>1
        <5> QED BY <3>3, <3>4, <4>1, <4>3, <5>1
      <4> QED BY <3>2, <4>2, <4>3
    <3>7. Range(r) \subseteq Range(q) /\ e \in Range(q)
      BY <3>1 DEF Range
    <3>8. \A j \in 1..(n + 1) : s[j] \in S => s[j] \in Range(q)
      <4>1. \A j \in 1..(n + 1) : j \in 1..n \/ j = n + 1
        OBVIOUS
      <4> QED BY <2>1, <3>4, <3>7, <4>1
    <3>9. Sel(q, n + 1)
      BY <3>1, <3>5, <3>6, <3>8
    <3> HIDE DEF Sel
    <3> QED BY <2>2, <2>4, <3>9 DEF q
  <2> QED BY <2>3, <2>4
<1>5. Len(s) \in Good
  <2> HIDE DEF Good
  <2>1. Nat \subseteq Good
    BY <1>3, <1>4, SetInduction
  <2> QED BY <1>2, <2>1
<1>6. Sel(Only(s, S), Len(s))
  <2> HIDE DEF Sel
  <2> QED BY <1>1, <1>2, <1>5
<1> QED BY <1>6, Zenon DEF Selection

\* Only keeps a sequence of distinct elements distinct.
LEMMA OnlyDistinct ==
    ASSUME NEW T, NEW s \in Seq(T), NEW S, Distinct(s)
    PROVE  /\ Only(s, S) \in Seq(S \cap T)
           /\ Distinct(Only(s, S))
           /\ Range(Only(s, S)) = Range(s) \cap S
<1> DEFINE r == Only(s, S)
<1>1. Selection(r, s, S)
  BY OnlySelects
<1> HIDE DEF r
<1>2. DOMAIN s = 1..Len(s) /\ \A j \in 1..Len(s) : s[j] \in T
  OBVIOUS
<1>3. r \in Seq(S) /\ \A a \in DOMAIN r : r[a] \in S \cap T
  BY <1>1, <1>2 DEF Selection
<1>4. r \in Seq(S \cap T)
  BY <1>3, SeqOfElements
<1>5. Distinct(r)
  <2> SUFFICES ASSUME NEW a \in DOMAIN r, NEW b \in DOMAIN r, a < b PROVE r[a] # r[b]
    <3>1. \A a, b \in DOMAIN r : a \in Int /\ b \in Int
      BY <1>3
    <3> QED BY <3>1 DEF Distinct
  <2>1. PICK j \in 1..Len(s), k \in 1..Len(s) : j < k /\ r[a] = s[j] /\ r[b] = s[k]
    BY <1>1 DEF Selection
  <2> QED BY <1>2, <2>1 DEF Distinct
<1>6. Range(r) = Range(s) \cap S
  <2>1. Range(r) \subseteq Range(s) \cap S
    BY <1>1, <1>2, <1>3 DEF Selection, Range
  <2>2. Range(s) \cap S \subseteq Range(r)
    BY <1>1, <1>2 DEF Selection, Range
  <2> QED BY <2>1, <2>2
<1> QED BY <1>4, <1>5, <1>6 DEF r

-----------------------------------------------------------------------------
(* Canonical order *)

Names == Seq(Nat)

\* A name is a finite sequence of components.
LEMMA NameFacts ==
    ASSUME NEW e \in Names
    PROVE  Len(e) \in Nat /\ DOMAIN e = 1..Len(e) /\ \A k \in 1..Len(e) : e[k] \in Nat
  BY DEF Names

\* No name comes before itself in the order of the Content Store's table.
LEMMA LessIrreflexive ==
    ASSUME NEW a \in Names
    PROVE  ~Less(a, a)
  BY DEF Less, Names

\* The order of the Content Store's table is transitive.
LEMMA LessTransitive ==
    ASSUME NEW a \in Names, NEW b \in Names, NEW c \in Names, Less(a, b), Less(b, c)
    PROVE  Less(a, c)
<1>1. /\ DOMAIN a = 1..Len(a) /\ Len(a) \in Nat /\ \A k \in 1..Len(a) : a[k] \in Nat
      /\ DOMAIN b = 1..Len(b) /\ Len(b) \in Nat /\ \A k \in 1..Len(b) : b[k] \in Nat
      /\ DOMAIN c = 1..Len(c) /\ Len(c) \in Nat /\ \A k \in 1..Len(c) : c[k] \in Nat
  BY DEF Names
<1>2. PICK k \in DOMAIN b : /\ k <= Len(a) + 1
                            /\ \A j \in 1..(k - 1) : a[j] = b[j]
                            /\ k = Len(a) + 1 \/ a[k] < b[k]
  BY DEF Less
<1>3. PICK m \in DOMAIN c : /\ m <= Len(b) + 1
                            /\ \A j \in 1..(m - 1) : b[j] = c[j]
                            /\ m = Len(b) + 1 \/ b[m] < c[m]
  BY DEF Less
<1>4. CASE k < m
  <2>1. k \in DOMAIN c /\ b[k] = c[k]
    BY <1>1, <1>2, <1>3, <1>4
  <2>2. \A j \in 1..(k - 1) : a[j] = c[j]
    BY <1>1, <1>2, <1>3, <1>4
  <2> QED BY <1>2, <2>1, <2>2 DEF Less
<1>5. CASE m <= k
  <2>1. m <= Len(a) + 1 /\ b[m] < c[m] /\ m <= Len(b)
    BY <1>1, <1>2, <1>3, <1>5
  <2>2. \A j \in 1..(m - 1) : a[j] = c[j]
    BY <1>1, <1>2, <1>3, <1>5
  <2>3. m = Len(a) + 1 \/ a[m] < c[m]
    <3>1. CASE m = k
      BY <1>1, <1>2, <1>3, <2>1, <3>1
    <3>2. CASE m < k
      <4>1. m \in 1..(k - 1)
        BY <1>1, <1>2, <1>3, <3>2
      <4>2. a[m] = b[m]
        BY <1>2, <4>1
      <4> QED BY <2>1, <4>2
    <3> QED BY <1>1, <1>2, <1>3, <1>5, <3>1, <3>2
  <2> QED BY <1>3, <2>1, <2>2, <2>3 DEF Less
<1> QED BY <1>1, <1>2, <1>3, <1>4, <1>5

\* e goes on from the prefix p.
Begins(e, p) == Len(p) <= Len(e) /\ \A j \in 1..Len(p) : e[j] = p[j]

\* No name comes before one of its own prefixes, so a match never sorts before the prefix.
LEMMA NotLessThanPrefix ==
    ASSUME NEW e \in Names, NEW p \in Names, Begins(e, p)
    PROVE  ~Less(e, p)
  BY SMTT(30) DEF Begins, Less, Names

\* What is less than a prefix of p is less than p.
LEMMA LessThanLonger ==
    ASSUME NEW e \in Names, NEW p \in Names, NEW q \in Names, Begins(q, p), Less(e, p)
    PROVE  Less(e, q)
<1>1. /\ DOMAIN p = 1..Len(p) /\ Len(p) \in Nat
      /\ DOMAIN q = 1..Len(q) /\ Len(q) \in Nat
  BY DEF Names
<1>2. PICK k \in DOMAIN p : /\ k <= Len(e) + 1
                            /\ \A j \in 1..(k - 1) : e[j] = p[j]
                            /\ k = Len(e) + 1 \/ e[k] < p[k]
  BY DEF Less
<1>3. k \in DOMAIN q /\ q[k] = p[k] /\ \A j \in 1..(k - 1) : e[j] = q[j]
  BY <1>1, <1>2 DEF Begins
<1> QED BY <1>2, <1>3 DEF Less

\* Names between a prefix and a name that begins with it begin with it.
LEMMA Between ==
    ASSUME NEW x \in Names, NEW e \in Names, NEW p \in Names, Begins(e, p),
           ~Less(x, p), Less(x, e)
    PROVE  Begins(x, p)
<1>1. /\ DOMAIN p = 1..Len(p) /\ Len(p) \in Nat /\ \A k \in 1..Len(p) : p[k] \in Nat
      /\ DOMAIN e = 1..Len(e) /\ Len(e) \in Nat /\ \A k \in 1..Len(e) : e[k] \in Nat
      /\ DOMAIN x = 1..Len(x) /\ Len(x) \in Nat /\ \A k \in 1..Len(x) : x[k] \in Nat
  BY DEF Names
<1>2. PICK k \in DOMAIN e : /\ k <= Len(x) + 1
                            /\ \A j \in 1..(k - 1) : x[j] = e[j]
                            /\ k = Len(x) + 1 \/ x[k] < e[k]
  BY DEF Less
<1>3. CASE k <= Len(p)
  <2>1. k \in DOMAIN p /\ e[k] = p[k] /\ \A j \in 1..(k - 1) : x[j] = p[j]
    BY <1>1, <1>2, <1>3 DEF Begins
  <2>2. Less(x, p)
    BY <1>2, <2>1 DEF Less
  <2> QED BY <2>2
<1>4. CASE k > Len(p)
  <2>1. Len(p) <= Len(x) /\ \A j \in 1..Len(p) : j \in 1..(k - 1)
    BY <1>1, <1>2, <1>4
  <2> QED BY <1>2, <2>1 DEF Begins
<1> QED BY <1>1, <1>2, <1>3, <1>4

\* Nothing lies between the names that begin with p and the successor of p.
LEMMA LessThanSuccessor ==
    ASSUME NEW e \in Names, NEW p \in Names, p # <<>>
    PROVE  /\ Successor(p) \in Names
           /\ Less(e, Successor(p)) <=> Less(e, p) \/ Begins(e, p)
<1> DEFINE q == Successor(p)
           n == Len(p)
<1>1. /\ DOMAIN p = 1..n /\ n \in Nat /\ \A k \in 1..n : p[k] \in Nat
      /\ DOMAIN e = 1..Len(e) /\ Len(e) \in Nat /\ \A k \in 1..Len(e) : e[k] \in Nat
      /\ n \in 1..n
  BY DEF Names
<1>2. /\ q \in Names /\ DOMAIN q = 1..n
      /\ q[n] = p[n] + 1
      /\ \A k \in 1..(n - 1) : q[k] = p[k]
  <2>1. q = [k \in 1..n |-> IF k = n THEN p[k] + 1 ELSE p[k]]
    BY <1>1, Zenon DEF Successor
  <2> HIDE DEF q, n
  <2>2. q \in [1..n -> Nat]
    BY <1>1, <2>1
  <2> QED BY <1>1, <2>1, <2>2, SMTT(30) DEF Names
<1> HIDE DEF q, n
<1>3. ASSUME Less(e, p) PROVE Less(e, q)
  <2>1. PICK k \in DOMAIN p : /\ k <= Len(e) + 1
                              /\ \A j \in 1..(k - 1) : e[j] = p[j]
                              /\ k = Len(e) + 1 \/ e[k] < p[k]
    BY <1>3 DEF Less
  <2>2. \A j \in 1..(k - 1) : e[j] = q[j]
    BY <1>1, <1>2, <2>1
  <2>3. k = Len(e) + 1 \/ e[k] < q[k]
    <3>1. CASE k = n
      BY <1>1, <1>2, <2>1, <3>1
    <3>2. CASE k \in 1..(n - 1)
      BY <1>2, <2>1, <3>2
    <3> QED BY <1>1, <2>1, <3>1, <3>2
  <2> QED BY <1>1, <1>2, <2>1, <2>2, <2>3 DEF Less
<1>4. ASSUME Begins(e, p) PROVE Less(e, q)
  <2>1. n <= Len(e) /\ e[n] = p[n] /\ \A j \in 1..(n - 1) : e[j] = q[j]
    BY <1>1, <1>2, <1>4 DEF Begins, n
  <2>2. n <= Len(e) + 1 /\ e[n] < q[n]
    BY <1>1, <1>2, <2>1
  <2> QED BY <1>1, <1>2, <2>1, <2>2 DEF Less
<1>5. ASSUME Less(e, q) PROVE Less(e, p) \/ Begins(e, p)
  <2>1. PICK k \in DOMAIN q : /\ k <= Len(e) + 1
                              /\ \A j \in 1..(k - 1) : e[j] = q[j]
                              /\ k = Len(e) + 1 \/ e[k] < q[k]
    BY <1>5 DEF Less
  <2>2. \A j \in 1..(k - 1) : e[j] = p[j]
    BY <1>1, <1>2, <2>1
  <2>3. CASE k = Len(e) + 1 \/ e[k] < p[k]
    BY <1>1, <1>2, <2>1, <2>2, <2>3 DEF Less
  <2>4. CASE k # Len(e) + 1 /\ ~(e[k] < p[k])
    <3>1. k = n
      BY <1>1, <1>2, <2>1, <2>4
    <3>2. n <= Len(e) /\ e[n] = p[n]
      BY <1>1, <1>2, <2>1, <2>4, <3>1
    <3> QED BY <1>1, <2>2, <3>1, <3>2, SMTT(30) DEF Begins, n
  <2> QED BY <2>3, <2>4
<1> QED BY <1>2, <1>3, <1>4, <1>5 DEF q
-----------------------------------------------------------------------------
(* The sorted table *)

Ascending(t) ==
    /\ t \in Seq(Names)
    /\ \A j, k \in DOMAIN t : j < k => Less(t[j], t[k])

\* std::set::lower_bound: before it are exactly the names less than the given one.
LEMMA LowerBoundFacts ==
    ASSUME NEW t, Ascending(t), NEW name \in Names
    PROVE  /\ LowerBound(t, name) \in 1..(Len(t) + 1)
           /\ \A k \in DOMAIN t : k < LowerBound(t, name) <=> Less(t[k], name)
<1> DEFINE B == {k \in DOMAIN t : Less(t[k], name)}
           C == {k \in 1..(Len(t) + 1) : k \notin B}
<1>1. DOMAIN t = 1..Len(t) /\ Len(t) \in Nat /\ \A k \in 1..Len(t) : t[k] \in Names
  BY DEF Ascending
<1>2. Len(t) + 1 \in C /\ C \in SUBSET Nat
  BY <1>1
<1>3. PICK m \in C : \A k \in C : m <= k
  <2> HIDE DEF C
  <2> QED BY <1>2, LeastElement
<1>4. ASSUME NEW j \in DOMAIN t, NEW k \in B, j < k PROVE j \in B
  BY <1>1, <1>4, LessTransitive DEF Ascending
<1>5. B = 1..(m - 1)
  <2>1. ASSUME NEW k \in 1..(m - 1) PROVE k \in B
    <3>1. k \in 1..(Len(t) + 1) /\ ~(m <= k)
      BY <1>1, <1>3
    <3> QED BY <1>3, <3>1
  <2>2. ASSUME NEW k \in B PROVE k \in 1..(m - 1)
    <3>1. k \in 1..Len(t)
      BY <1>1
    <3>2. k # m
      BY <1>3
    <3>3. ~(m < k)
      <4> SUFFICES ASSUME m < k PROVE FALSE
        OBVIOUS
      <4>1. m \in DOMAIN t
        BY <1>1, <1>3, <3>1
      <4>2. m \in B
        BY <1>4, <4>1
      <4> QED BY <1>3, <4>2
    <3> QED BY <1>1, <1>3, <3>1, <3>2, <3>3
  <2> QED BY <2>1, <2>2
<1>6. m \in 1..(Len(t) + 1)
  BY <1>3
<1>7. Cardinality(1..(m - 1)) = m - 1
  BY <1>1, <1>6, FS_Interval
<1>8. LowerBound(t, name) = m
  <2>1. LowerBound(t, name) = 1 + Cardinality(B)
    BY DEF LowerBound
  <2> HIDE DEF B
  <2> QED BY <1>1, <1>5, <1>6, <1>7, <2>1
<1>9. \A k \in DOMAIN t : k < m <=> k \in B
  BY <1>1, <1>5, <1>6
<1> QED BY <1>6, <1>8, <1>9

\* The table as the iterators see it is the table, in canonical order.
LEMMA SortedFacts ==
    ASSUME table \subseteq Entry
    PROVE  /\ Ascending(Sorted)
           /\ Range(Sorted) = table
           /\ \A k \in DOMAIN Sorted : Sorted[k] \in Entry /\ Len(Sorted[k]) > 0
<1> DEFINE t == Sorted
           N == Names \ {<<>>}
<1>1. /\ Universe \in Seq(N) /\ DOMAIN Universe = 1..Len(Universe)
      /\ \A j, k \in 1..Len(Universe) : j < k => Less(Universe[j], Universe[k])
  BY UniverseAssumption, SMTT(30) DEF Names
<1>2. Selection(t, Universe, table)
  BY <1>1, OnlySelects DEF Sorted
<1> HIDE DEF t
<1>3. \A e \in Entry : e \in Names /\ Len(e) > 0
  BY <1>1 DEF Entry, Range, Names
<1>4. t \in Seq(table) /\ \A k \in DOMAIN t : t[k] \in table
  BY <1>2 DEF Selection
<1>5. t \in Seq(Names)
  BY <1>3, <1>4, SeqOfElements
<1>6. \A j, k \in DOMAIN t : j < k => Less(t[j], t[k])
  BY <1>1, <1>2, Zenon DEF Selection
<1>7. Range(t) = table
  <2>1. Range(t) \subseteq table
    BY <1>4 DEF Range
  <2>2. ASSUME NEW e \in table PROVE e \in Range(t)
    <3>1. PICK j \in 1..Len(Universe) : e = Universe[j]
      BY <1>1 DEF Entry, Range
    <3> QED BY <1>2, <3>1 DEF Selection
  <2> QED BY <2>1, <2>2
<1> QED BY <1>3, <1>4, <1>5, <1>6, <1>7 DEF Ascending, t

\* The entries from FirstOf to EndOf are those that begin with the prefix.
LEMMA PrefixRange ==
    ASSUME NEW t, Ascending(t), NEW p \in Names
    PROVE  LET first == FirstOf(t, p)
               last == EndOf(t, p)
           IN /\ first \in 1..(Len(t) + 1) /\ last \in 1..(Len(t) + 1) /\ first <= last
              /\ \A k \in DOMAIN t : k < first <=> Less(t[k], p)
              /\ \A k \in DOMAIN t : k \in first..(last - 1) <=> Begins(t[k], p)
<1> DEFINE first == FirstOf(t, p)
           last == EndOf(t, p)
<1>1. DOMAIN t = 1..Len(t) /\ Len(t) \in Nat /\ \A k \in 1..Len(t) : t[k] \in Names
  BY DEF Ascending
<1>2. /\ first \in 1..(Len(t) + 1)
      /\ \A k \in DOMAIN t : k < first <=> Less(t[k], p)
  BY LowerBoundFacts DEF FirstOf
<1>3. /\ last \in 1..(Len(t) + 1)
      /\ \A k \in DOMAIN t : k < last <=> Less(t[k], p) \/ Begins(t[k], p)
  <2>1. CASE p = <<>>
    <3>1. last = Len(t) + 1
      BY <2>1 DEF EndOf
    <3>2. \A k \in DOMAIN t : Begins(t[k], p)
      BY <1>1, <2>1 DEF Begins, Names
    <3> QED BY <1>1, <3>1, <3>2
  <2>2. CASE p # <<>>
    <3>1. last = LowerBound(t, Successor(p))
      BY <2>2 DEF EndOf
    <3>2. Successor(p) \in Names
      BY <2>2, LessThanSuccessor
    <3>3. \A k \in DOMAIN t : Less(t[k], Successor(p)) <=> Less(t[k], p) \/ Begins(t[k], p)
      BY <1>1, <2>2, LessThanSuccessor
    <3>4. /\ LowerBound(t, Successor(p)) \in 1..(Len(t) + 1)
          /\ \A k \in DOMAIN t : k < LowerBound(t, Successor(p)) <=> Less(t[k], Successor(p))
      BY <3>2, LowerBoundFacts
    <3> QED BY <3>1, <3>3, <3>4
  <2> QED BY <2>1, <2>2
<1> HIDE DEF first, last
<1>4. first <= last
  <2> SUFFICES ASSUME last < first PROVE FALSE
    BY <1>1, <1>2, <1>3
  <2>1. last \in DOMAIN t /\ ~(last < last)
    BY <1>1, <1>2, <1>3
  <2> QED BY <1>2, <1>3, <2>1
<1>5. ASSUME NEW k \in DOMAIN t PROVE k \in first..(last - 1) <=> Begins(t[k], p)
  <2>1. k \in first..(last - 1) <=> ~(k < first) /\ k < last
    BY <1>1, <1>2, <1>3
  <2>2. Begins(t[k], p) => ~Less(t[k], p)
    BY <1>1, NotLessThanPrefix
  <2> QED BY <1>2, <1>3, <2>1, <2>2
<1> QED BY <1>2, <1>3, <1>4, <1>5 DEF first, last

\* The least and the greatest of names t[k], k \in K.
LEMMA LeastName ==
    ASSUME NEW t, Ascending(t), NEW K \in SUBSET DOMAIN t, NEW r \in K,
           NEW S, S = {t[k] : k \in K}
    PROVE  /\ (\A j \in K : r <= j) => Leftmost(S) = {t[r]}
           /\ (\A j \in K : j <= r) => Rightmost(S) = {t[r]}
<1>1. /\ DOMAIN t = 1..Len(t) /\ Len(t) \in Nat /\ \A k \in K : k \in Nat
      /\ \A k \in DOMAIN t : t[k] \in Names
  BY DEF Ascending
<1>2. \A j, k \in K : j < k => Less(t[j], t[k])
  BY DEF Ascending
<1>3. \A j, k \in K : j < k => ~Less(t[k], t[j])
  <2> SUFFICES ASSUME NEW j \in K, NEW k \in K, j < k, Less(t[k], t[j]) PROVE FALSE
    OBVIOUS
  <2>1. Less(t[j], t[k]) /\ t[j] \in Names /\ t[k] \in Names
    BY <1>1, <1>2
  <2>2. Less(t[j], t[j])
    BY <2>1, LessTransitive
  <2> QED BY <2>1, <2>2, LessIrreflexive
<1>4. \A j, k \in K : t[j] = t[k] => j = k
  BY <1>1, <1>2, LessIrreflexive
<1>5. ASSUME \A j \in K : r <= j PROVE Leftmost(S) = {t[r]}
  <2>1. \A x \in S \ {t[r]} : Less(t[r], x)
    BY <1>1, <1>2, <1>5
  <2>2. ASSUME NEW e \in S, e # t[r], \A x \in S \ {e} : Less(e, x) PROVE FALSE
    <3>1. PICK j \in K : e = t[j]
      OBVIOUS
    <3>2. r < j /\ t[r] \in S \ {e}
      BY <1>1, <1>5, <2>2, <3>1
    <3> QED BY <1>3, <2>2, <3>1, <3>2
  <2> QED BY <2>1, <2>2 DEF Leftmost
<1>6. ASSUME \A j \in K : j <= r PROVE Rightmost(S) = {t[r]}
  <2>1. \A x \in S \ {t[r]} : Less(x, t[r])
    BY <1>1, <1>2, <1>6
  <2>2. ASSUME NEW e \in S, e # t[r], \A x \in S \ {e} : Less(x, e) PROVE FALSE
    <3>1. PICK j \in K : e = t[j]
      OBVIOUS
    <3>2. j < r /\ t[r] \in S \ {e}
      BY <1>1, <1>6, <2>2, <3>1
    <3> QED BY <1>3, <2>2, <3>1, <3>2
  <2> QED BY <2>1, <2>2 DEF Rightmost
<1> QED BY <1>5, <1>6

\* The two searches among the entries from left to right.
LEMMA SearchFacts ==
    ASSUME NEW t, NEW i, NEW left \in Nat, NEW right \in Nat
    PROVE  LET m == Matches(t, i, left, right)
               a == FindLeftmost(t, i, left, right)
               b == FindRightmostAmongExact(t, i, left, right)
           IN /\ m = {} => a = right /\ b = right
              /\ m # {} => a \in m /\ b \in m
              /\ \A j \in m : a <= j /\ j <= b
              /\ m \subseteq left..(right - 1)
<1> DEFINE m == Matches(t, i, left, right)
<1>1. m \subseteq left..(right - 1) /\ m \subseteq Nat /\ m \subseteq 0..right
  BY DEF Matches
<1>2. ASSUME m # {}
      PROVE  (\E k \in m : \A j \in m : k <= j) /\ \E k \in m : \A j \in m : j <= k
  <2> HIDE DEF m
  <2>1. \E k \in m : \A j \in m : k <= j
    BY <1>1, <1>2, LeastElement
  <2>2. \E k \in m : \A j \in m : j <= k
    BY <1>1, <1>2, GreatestElement, Zenon
  <2> QED BY <2>1, <2>2
<1>3. FindLeftmost(t, i, left, right)
        = IF m = {} THEN right ELSE CHOOSE k \in m : \A j \in m : k <= j
  BY DEF FindLeftmost
<1>4. FindRightmostAmongExact(t, i, left, right)
        = IF m = {} THEN right ELSE CHOOSE k \in m : \A j \in m : j <= k
  BY DEF FindRightmostAmongExact
<1> HIDE DEF m
<1>5. m # {} => /\ FindLeftmost(t, i, left, right) \in m
                /\ \A j \in m : FindLeftmost(t, i, left, right) <= j
  BY <1>2, <1>3
<1>6. m # {} => /\ FindRightmostAmongExact(t, i, left, right) \in m
                /\ \A j \in m : j <= FindRightmostAmongExact(t, i, left, right)
  BY <1>2, <1>4
<1> QED BY <1>1, <1>3, <1>4, <1>5, <1>6, Zenon DEF m

-----------------------------------------------------------------------------
(* Lookup *)

\* What the searches of Interest i are told: t is the table in order, and the
\* entries from first to last are those below the Interest's name.
Looking(t, i, first, last) ==
    /\ Ascending(t)
    /\ i.name \in Names
    /\ first \in 1..(Len(t) + 1) /\ last \in 1..(Len(t) + 1) /\ first <= last
    /\ \A k \in DOMAIN t : k < first <=> Less(t[k], i.name)
    /\ \A k \in DOMAIN t : k \in first..(last - 1) <=> Begins(t[k], i.name)
    /\ \A k \in DOMAIN t : t[k] \in Entry
    /\ \A k \in first..(last - 1) : k \in DOMAIN t /\ t[k] \in Names /\ Len(t[k]) > Len(i.name)

\* The range that find scans is exactly the entries whose names begin with the Interest's name.
LEMMA SortedLooking ==
    ASSUME table \subseteq Entry, NEW i \in Interest
    PROVE  Looking(Sorted, i, FirstOf(Sorted, i.name), EndOf(Sorted, i.name))
<1> DEFINE t == Sorted
           first == FirstOf(t, i.name)
           last == EndOf(t, i.name)
<1>1. i.name \in Names
  BY InterestAssumption DEF Names
<1>2. Ascending(t) /\ \A k \in DOMAIN t : t[k] \in Entry /\ Len(t[k]) > 0
  BY SortedFacts
<1> HIDE DEF t
<1>3. /\ first \in 1..(Len(t) + 1) /\ last \in 1..(Len(t) + 1) /\ first <= last
      /\ \A k \in DOMAIN t : k < first <=> Less(t[k], i.name)
      /\ \A k \in DOMAIN t : k \in first..(last - 1) <=> Begins(t[k], i.name)
  BY <1>1, <1>2, PrefixRange
<1> HIDE DEF first, last
<1>4. ASSUME NEW k \in first..(last - 1)
      PROVE  k \in DOMAIN t /\ t[k] \in Names /\ Len(t[k]) > Len(i.name)
  <2>1. k \in DOMAIN t /\ t[k] \in Names /\ t[k] \in Entry /\ Begins(t[k], i.name)
    BY <1>2, <1>3 DEF Ascending
  <2> DEFINE e == t[k]
  <2>2. Len(e) \in Nat /\ Len(i.name) \in Nat /\ DOMAIN i.name = 1..Len(i.name) /\ Len(e) > 0
    BY <1>1, <1>2, <2>1 DEF Names
  <2>3. ASSUME Len(e) = Len(i.name) PROVE FALSE
    <3>1. Len(e) \in DOMAIN i.name /\ e[Len(e)] = i.name[Len(e)]
      BY <2>1, <2>2, <2>3 DEF Begins
    <3>2. e[Len(e)] < i.name[Len(e)] /\ i.name[Len(e)] \in Nat
      BY <1>1, <2>1, <3>1, DigestAssumption DEF Names
    <3> QED BY <3>1, <3>2
  <2> QED BY <2>1, <2>2, <2>3 DEF Begins
<1> QED BY <1>1, <1>2, <1>3, <1>4 DEF Looking, t, first, last

\* One turn of findRightmost's loop: [left, right) are the entries that share the
\* first component after the Interest's name with the last of them, and those
\* before left have a smaller one.
LEMMA TurnFacts ==
    ASSUME NEW t, NEW i, NEW first, NEW last, Looking(t, i, first, last),
           NEW right \in (first + 1)..last
    PROVE  LET n == Len(i.name)
               prev == t[right - 1]
               left == LowerBound(t, SubSeq(prev, 1, n + 1))
           IN /\ left \in first..(right - 1)
              /\ \A k \in left..(right - 1) : t[k][n + 1] = prev[n + 1]
              /\ \A k \in first..(left - 1) : t[k][n + 1] < prev[n + 1]
<1> DEFINE n == Len(i.name)
           prev == t[right - 1]
           p == SubSeq(prev, 1, n + 1)
           left == LowerBound(t, p)
<1>1. /\ DOMAIN t = 1..Len(t) /\ Len(t) \in Nat /\ n \in Nat
      /\ first \in Nat /\ last \in Nat /\ right \in Nat
      /\ first <= right - 1 /\ right - 1 < last /\ 1 <= first /\ last <= Len(t) + 1
      /\ right - 1 \in first..(last - 1) /\ right - 1 \in DOMAIN t
  BY DEF Looking, Ascending, Names
<1>2. /\ prev \in Names /\ Len(prev) >= n + 1 /\ Len(prev) \in Nat
      /\ Begins(prev, i.name) /\ i.name \in Names
  <2>1. prev \in Names /\ Len(prev) > n /\ Begins(prev, i.name) /\ i.name \in Names
    BY <1>1, Zenon DEF Looking
  <2>2. Len(prev) \in Nat
    BY <2>1, NameFacts
  <2> HIDE DEF prev
  <2> QED BY <1>1, <2>1, <2>2
<1>3. /\ p \in Names /\ Len(p) = n + 1
      /\ \A j \in 1..(n + 1) : p[j] = prev[j]
  <2>1. p = [j \in 1..(n + 1) |-> prev[j]]
    BY <1>1, <1>2 DEF Names
  <2>2. \A j \in 1..(n + 1) : prev[j] \in Nat
    BY <1>1, <1>2, SMTT(30) DEF Names
  <2> HIDE DEF p
  <2> QED BY <1>1, <2>1, <2>2 DEF Names
<1> HIDE DEF p
<1>4. Begins(prev, p) /\ Begins(p, i.name)
  BY <1>1, <1>2, <1>3, SMTT(30) DEF Begins
<1>9. n + 1 \in 1..(n + 1) /\ DOMAIN p = 1..(n + 1) /\ p[n + 1] = prev[n + 1]
  <2>1. DOMAIN p = 1..Len(p)
    BY <1>3, NameFacts
  <2>2. n + 1 \in 1..(n + 1)
    BY <1>1
  <2> HIDE DEF n, prev
  <2> QED BY <1>3, <2>1, <2>2
<1>5. /\ left \in 1..(Len(t) + 1)
      /\ \A k \in DOMAIN t : k < left <=> Less(t[k], p)
  BY <1>3, LowerBoundFacts DEF Looking
<1> HIDE DEF left
<1>6. left \in first..(right - 1)
  <2>1. ~(right - 1 < left)
    <3>1. ~Less(prev, p)
      BY <1>2, <1>3, <1>4, NotLessThanPrefix
    <3> QED BY <1>1, <1>5, <3>1
  <2>2. ~(left < first)
    <3> SUFFICES ASSUME left < first PROVE FALSE
      OBVIOUS
    <3>1. left \in DOMAIN t /\ t[left] \in Names
      BY <1>1, <1>5 DEF Looking, Ascending
    <3>2. Less(t[left], i.name)
      BY <3>1 DEF Looking
    <3>3. Less(t[left], p)
      BY <1>2, <1>3, <1>4, <3>1, <3>2, LessThanLonger
    <3> QED BY <1>5, <3>1, <3>3
  <2> QED BY <1>1, <1>5, <2>1, <2>2
<1>7. ASSUME NEW k \in left..(right - 1) PROVE t[k][n + 1] = prev[n + 1]
  <2>1. /\ k \in DOMAIN t /\ ~(k < left) /\ (k < right - 1 \/ k = right - 1)
        /\ k \in first..(last - 1)
    BY <1>1, <1>6
  <2>2. t[k] \in Names /\ ~Less(t[k], p)
    BY <1>5, <2>1 DEF Looking
  <2>3. CASE k < right - 1
    <3>1. Less(t[k], prev)
      BY <1>1, <2>1, <2>3, Zenon DEF Looking, Ascending
    <3>2. Begins(t[k], p)
      BY <1>2, <1>3, <1>4, <2>2, <3>1, Between
    <3>3. t[k][n + 1] = p[n + 1]
      BY <1>3, <1>9, <3>2 DEF Begins
    <3> QED BY <1>9, <3>3
  <2> QED BY <2>1, <2>3
<1>8. ASSUME NEW k \in first..(left - 1) PROVE t[k][n + 1] < prev[n + 1]
  <2>1. k \in DOMAIN t /\ k < left /\ k \in first..(last - 1)
    BY <1>1, <1>6
  <2> DEFINE e == t[k]
  <2>2. Less(e, p) /\ e \in Names /\ Len(e) > n /\ Begins(e, i.name)
    BY <1>5, <2>1 DEF Looking
  <2> HIDE DEF e
  <2>3. PICK h \in DOMAIN p : /\ h <= Len(e) + 1
                              /\ \A j \in 1..(h - 1) : e[j] = p[j]
                              /\ h = Len(e) + 1 \/ e[h] < p[h]
    BY <2>2 DEF Less
  <2>4. h \in 1..(n + 1) /\ Len(e) \in Nat
    BY <1>9, <2>2, <2>3, NameFacts
  <2>5. h # Len(e) + 1 /\ e[h] < p[h]
    BY <1>1, <2>2, <2>3, <2>4
  <2>6. h = n + 1
    <3> SUFFICES ASSUME h \in 1..n PROVE FALSE
      BY <1>1, <2>4
    <3>1. e[h] = i.name[h] /\ p[h] = i.name[h]
      BY <1>4, <2>2 DEF Begins
    <3>2. i.name[h] \in Nat
      BY <1>2, NameFacts
    <3> QED BY <2>5, <3>1, <3>2
  <2>7. e[n + 1] < prev[n + 1]
    BY <1>9, <2>5, <2>6
  <2> QED BY <2>7 DEF e
<1> QED BY <1>6, <1>7, <1>8 DEF left, p

\* The result of a search from first up to right: the best match, if there is one.
GoodMatch(t, i, first, last, r) ==
    IF Matches(t, i, first, last) = {} THEN r = last
    ELSE r \in Matches(t, i, first, last) /\ BestMatch(i) = {t[r]}

\* The matches of Interest i are where the search looks for them.
LEMMA MatchFacts ==
    ASSUME table \subseteq Entry, NEW t, NEW i, NEW first, NEW last,
           Looking(t, i, first, last), Range(t) = table
    PROVE  LET M == Matches(t, i, first, last)
           IN /\ M \subseteq DOMAIN t /\ M \subseteq first..(last - 1)
              /\ {e \in table : CanSatisfy(e, i)} = {t[k] : k \in M}
<1> DEFINE M == Matches(t, i, first, last)
<1>1. M \subseteq first..(last - 1) /\ M \subseteq DOMAIN t
  BY DEF Matches, Looking
<1>2. ASSUME NEW e \in table, CanSatisfy(e, i) PROVE e \in {t[k] : k \in M}
  <2>1. PICK k \in DOMAIN t : e = t[k]
    BY DEF Range
  <2>2. e \in Names /\ i.name \in Names
    BY <2>1 DEF Looking, Ascending
  <2>3. /\ Len(i.name) \in Nat /\ Len(e) \in Nat /\ Len(i.name) < Len(e)
        /\ SubSeq(e, 1, Len(i.name)) = i.name
    BY <1>2, <2>2, NameFacts DEF CanSatisfy
  <2>4. \A j \in 1..Len(i.name) : SubSeq(e, 1, Len(i.name))[j] = e[j]
    BY <2>2, <2>3 DEF Names
  <2>5. Begins(e, i.name)
    BY <2>3, <2>4 DEF Begins
  <2>6. k \in M
    BY <1>2, <2>1, <2>5 DEF Looking, Matches
  <2> QED BY <2>1, <2>6
<1>3. ASSUME NEW k \in M PROVE t[k] \in table /\ CanSatisfy(t[k], i)
  BY <1>1 DEF Matches, Range
<1> HIDE DEF M
<1>4. {e \in table : CanSatisfy(e, i)} = {t[k] : k \in M}
  BY <1>2, <1>3
<1> QED BY <1>1, <1>4 DEF M

\* findLeftmost among the entries below the Interest's name.
LEMMA LeftmostIsBest ==
    ASSUME table \subseteq Entry, NEW t, NEW i, NEW first, NEW last,
           Looking(t, i, first, last), Range(t) = table, ~i.rightmost
    PROVE  GoodMatch(t, i, first, last, FindLeftmost(t, i, first, last))
<1> DEFINE M == Matches(t, i, first, last)
           r == FindLeftmost(t, i, first, last)
           S == {e \in table : CanSatisfy(e, i)}
<1>1. first \in Nat /\ last \in Nat
  BY DEF Looking, Ascending
<1>2. /\ M = {} => r = last
      /\ M # {} => r \in M
      /\ \A j \in M : r <= j
  BY <1>1, SearchFacts
<1>3. M \subseteq DOMAIN t /\ S = {t[k] : k \in M}
  BY MatchFacts
<1>4. BestMatch(i) = Leftmost(S)
  BY DEF BestMatch
<1>5. Ascending(t)
  BY DEF Looking
<1> HIDE DEF M, r, S
<1>6. CASE M # {}
  <2>1. r \in M /\ M \in SUBSET DOMAIN t
    BY <1>2, <1>3, <1>6
  <2>2. Leftmost(S) = {t[r]}
    BY <1>2, <1>3, <1>5, <2>1, LeastName, Zenon
  <2> QED BY <1>4, <1>6, <2>1, <2>2 DEF GoodMatch, M, r
<1>7. CASE M = {}
  BY <1>2, <1>7 DEF GoodMatch, M, r
<1> QED BY <1>6, <1>7

\* A match is longer than the Interest's name, and by more than a digest unless
\* it has the name itself.
LEMMA ExactOrLonger ==
    ASSUME NEW t, NEW i, NEW first, NEW last, Looking(t, i, first, last),
           NEW j \in first..(last - 1), NEW k \in first..(last - 1)
    PROVE  LET n == Len(i.name)
           IN /\ Len(t[k]) = n + 1 \/ Len(t[k]) > n + 1
              /\ t[k][n + 1] \in Nat
              /\ Len(t[j]) = n + 1 /\ Len(t[k]) > n + 1 => t[j][n + 1] < t[k][n + 1]
<1> DEFINE n == Len(i.name)
           a == t[j]
           b == t[k]
<1>1. /\ a \in Names /\ a \in Entry /\ Len(a) > n
      /\ b \in Names /\ b \in Entry /\ Len(b) > n
      /\ i.name \in Names
  BY DEF Looking
<1> HIDE DEF a, b
<1>2. n \in Nat /\ Len(a) \in Nat /\ Len(b) \in Nat /\ \A h \in 1..Len(b) : b[h] \in Nat
  BY <1>1, NameFacts
<1>3. n + 1 \in 1..Len(b) /\ (Len(b) > n + 1 => n + 1 \in 1..(Len(b) - 1))
  BY <1>1, <1>2
<1>4. Len(b) > n + 1 => a[Len(a)] < b[n + 1]
  BY <1>1, <1>3, DigestAssumption
<1>5. Len(b) = n + 1 \/ Len(b) > n + 1
  BY <1>1, <1>2
<1>6. b[n + 1] \in Nat
  BY <1>2, <1>3
<1> HIDE DEF n
<1> QED BY <1>4, <1>5, <1>6 DEF a, b, n

\* findRightmost, when only Data with the Interest's own name is left.
LEMMA ExactIsBest ==
    ASSUME table \subseteq Entry, NEW t, NEW i, NEW first, NEW last,
           Looking(t, i, first, last), Range(t) = table, i.rightmost,
           NEW right \in (first + 1)..last, Matches(t, i, right, last) = {},
           Len(t[right - 1]) = Len(i.name) + 1
    PROVE  LET exact == FindRightmostAmongExact(t, i, first, right)
           IN GoodMatch(t, i, first, last, IF exact = right THEN last ELSE exact)
<1> DEFINE n == Len(i.name)
           M == Matches(t, i, first, last)
           r == FindRightmostAmongExact(t, i, first, right)
           S == {e \in table : CanSatisfy(e, i)}
           longer == {e \in S : Len(e) > n + 1}
<1>1. /\ first \in Nat /\ last \in Nat /\ right \in Nat
      /\ right - 1 \in first..(last - 1) /\ Ascending(t) /\ n \in Nat
  BY NameFacts, SMTT(30) DEF Looking, Ascending
<1>2. M = Matches(t, i, first, right)
  BY <1>1 DEF Matches
<1>3. /\ M = {} => r = right
      /\ M # {} => r \in M
      /\ \A j \in M : j <= r
      /\ M \subseteq first..(right - 1)
  BY <1>1, <1>2, SearchFacts
<1>4. M \subseteq DOMAIN t /\ M \subseteq first..(last - 1) /\ S = {t[k] : k \in M}
  BY MatchFacts
<1> HIDE DEF M, r, S
<1>5. ASSUME NEW k \in M PROVE ~(Len(t[k]) > n + 1)
  <2> SUFFICES ASSUME Len(t[k]) > n + 1 PROVE FALSE
    OBVIOUS
  <2> DEFINE left == LowerBound(t, SubSeq(t[right - 1], 1, n + 1))
  <2>1. /\ left \in first..(right - 1)
        /\ \A h \in left..(right - 1) : t[h][n + 1] = t[right - 1][n + 1]
        /\ \A h \in first..(left - 1) : t[h][n + 1] < t[right - 1][n + 1]
    BY TurnFacts
  <2>2. /\ t[right - 1][n + 1] < t[k][n + 1]
        /\ t[right - 1][n + 1] \in Nat /\ t[k][n + 1] \in Nat
    BY <1>1, <1>4, ExactOrLonger, Zenon
  <2> HIDE DEF left
  <2>3. k \in left..(right - 1) \/ k \in first..(left - 1)
    BY <1>1, <1>3, <2>1
  <2>4. t[k][n + 1] = t[right - 1][n + 1] \/ t[k][n + 1] < t[right - 1][n + 1]
    BY <2>1, <2>3
  <2> QED BY <2>2, <2>4, SMTT(30)
<1>6. longer = {}
  BY <1>4, <1>5
<1>7. BestMatch(i) = Rightmost(S)
  BY <1>6, Zenon DEF BestMatch, S, longer, n
<1>8. CASE M # {}
  <2>1. r \in M /\ r # right /\ M \in SUBSET DOMAIN t
    BY <1>1, <1>3, <1>4, <1>8
  <2>2. Rightmost(S) = {t[r]}
    BY <1>1, <1>3, <1>4, <2>1, LeastName, Zenon
  <2> QED BY <1>7, <1>8, <2>1, <2>2 DEF GoodMatch, M, r
<1>9. CASE M = {}
  BY <1>3, <1>9 DEF GoodMatch, M, r
<1> QED BY <1>8, <1>9

\* findRightmost, when a match is among the names that go on with the rightmost
\* component that is left.
LEMMA GroupIsBest ==
    ASSUME table \subseteq Entry, NEW t, NEW i, NEW first, NEW last,
           Looking(t, i, first, last), Range(t) = table, i.rightmost,
           NEW right \in (first + 1)..last, Matches(t, i, right, last) = {},
           Len(t[right - 1]) # Len(i.name) + 1
    PROVE  LET left == LowerBound(t, SubSeq(t[right - 1], 1, Len(i.name) + 1))
               r == FindLeftmost(t, i, left, right)
           IN IF r = right THEN Matches(t, i, left, last) = {}
              ELSE GoodMatch(t, i, first, last, r)
<1> DEFINE n == Len(i.name)
           left == LowerBound(t, SubSeq(t[right - 1], 1, n + 1))
           M == Matches(t, i, first, last)
           K == Matches(t, i, left, right)
           r == FindLeftmost(t, i, left, right)
           c == t[right - 1][n + 1]
           S == {e \in table : CanSatisfy(e, i)}
           longer == {e \in S : Len(e) > n + 1}
           best == {e \in longer : \A x \in longer : x[n + 1] <= e[n + 1]}
<1>1. /\ first \in Nat /\ last \in Nat /\ right \in Nat
      /\ right - 1 \in first..(last - 1) /\ Ascending(t) /\ n \in Nat
  <2>1. i.name \in Names /\ Ascending(t)
    BY DEF Looking
  <2>2. n \in Nat
    BY <2>1, NameFacts
  <2>3. first \in Nat /\ last \in Nat /\ first <= last
    BY <2>1, SMTT(30) DEF Looking, Ascending
  <2> QED BY <2>1, <2>2, <2>3
<1>2. /\ left \in first..(right - 1)
      /\ \A h \in left..(right - 1) : t[h][n + 1] = c
      /\ \A h \in first..(left - 1) : t[h][n + 1] < c
  BY TurnFacts
<1> HIDE DEF left
<1>3. left \in Nat /\ K \subseteq M /\ \A h \in M : h \in K \/ h \in first..(left - 1)
  BY <1>1, <1>2 DEF Matches
<1>4. /\ K = {} => r = right
      /\ K # {} => r \in K
      /\ \A j \in K : r <= j
      /\ K \subseteq left..(right - 1)
  BY <1>1, <1>3, SearchFacts, Zenon
<1>5. M \subseteq DOMAIN t /\ M \subseteq first..(last - 1) /\ S = {t[k] : k \in M}
  BY MatchFacts
<1>6. K = {} => Matches(t, i, left, last) = {}
  BY <1>1, <1>2 DEF Matches
<1> HIDE DEF M, K, r, S
<1>7. Len(t[right - 1]) > n + 1 /\ c \in Nat
  BY <1>1, ExactOrLonger
<1>8. ASSUME NEW k \in K PROVE t[k] \in longer /\ t[k][n + 1] = c
  <2>1. t[k] \in S /\ k \in first..(last - 1) /\ t[k][n + 1] = c
    BY <1>2, <1>3, <1>4, <1>5
  <2>2. Len(t[k]) > n + 1
    <3>1. /\ Len(t[k]) = n + 1 \/ Len(t[k]) > n + 1
      BY <1>1, <2>1, ExactOrLonger, Zenon
    <3>2. Len(t[k]) = n + 1 => t[k][n + 1] < c
      BY <1>1, <1>7, <2>1, ExactOrLonger, Zenon
    <3> QED BY <1>7, <2>1, <3>1, <3>2
  <2> QED BY <2>1, <2>2
<1>9. ASSUME K # {} PROVE GoodMatch(t, i, first, last, r)
  <2>1. r \in K /\ r \in M /\ t[r] \in longer /\ t[r][n + 1] = c
    BY <1>3, <1>4, <1>8, <1>9, Zenon
  <2>2. ASSUME NEW k \in K PROVE t[k] \in best
    <3>1. t[k] \in longer /\ t[k][n + 1] = c
      BY <1>8
    <3>2. ASSUME NEW x \in longer PROVE x[n + 1] <= c
      <4>1. PICK h \in M : x = t[h]
        BY <1>5
      <4>2. h \in K \/ h \in first..(left - 1)
        BY <1>3
      <4>3. h \in first..(last - 1) /\ x[n + 1] \in Nat
        BY <1>1, <1>5, <4>1, ExactOrLonger, Zenon
      <4> QED BY <1>2, <1>7, <1>8, <4>1, <4>2, <4>3, SMTT(30)
    <3> QED BY <3>1, <3>2
  <2>3. ASSUME NEW e \in best PROVE e \in {t[k] : k \in K}
    <3>1. e \in longer /\ t[r][n + 1] <= e[n + 1]
      BY <2>1
    <3>2. PICK h \in M : e = t[h]
      BY <1>5, <3>1
    <3>3. h \notin first..(left - 1)
      <4>1. h \in first..(last - 1) /\ e[n + 1] \in Nat
        BY <1>1, <1>5, <3>2, ExactOrLonger, Zenon
      <4>2. ~(e[n + 1] < c)
        BY <1>7, <2>1, <3>1, <4>1, SMTT(30)
      <4> QED BY <1>2, <3>2, <4>2, Zenon
    <3> QED BY <1>3, <3>2, <3>3
  <2> HIDE DEF longer, best
  <2>4. best = {t[k] : k \in K}
    BY <2>2, <2>3
  <2>5. K \in SUBSET DOMAIN t
    BY <1>3, <1>5, Zenon
  <2>6. Leftmost(best) = {t[r]}
    <3> HIDE DEF n, c
    <3> QED BY <1>1, <1>4, <2>1, <2>4, <2>5, LeastName, Zenon
  <2>7. BestMatch(i) = IF longer # {} THEN Leftmost(best) ELSE Rightmost(S)
    BY Zenon DEF BestMatch, S, longer, best, n
  <2>8. BestMatch(i) = {t[r]}
    BY <2>1, <2>6, <2>7
  <2> QED BY <2>1, <2>8 DEF GoodMatch, M
<1>10. K # {} => r # right
  BY <1>1, <1>2, <1>4
<1> QED BY <1>4, <1>6, <1>9, <1>10 DEF r, left, n, K

\* The recursive definition of findRightmost's loop has a solution: every turn
\* goes on to the left of where it began.
LEMMA LoopDef ==
    ASSUME NEW t, NEW i, NEW first, NEW last, Looking(t, i, first, last)
    PROVE  \E loop :
             /\ loop[first] = last
             /\ \A right \in (first + 1)..last :
                    loop[right] =
                        LET prev == t[right - 1]
                            left == LowerBound(t, SubSeq(prev, 1, Len(i.name) + 1))
                            exact == FindRightmostAmongExact(t, i, first, right)
                            match == FindLeftmost(t, i, left, right)
                        IN CASE Len(prev) - 1 = Len(i.name) ->
                                    IF exact = right THEN last ELSE exact
                             [] Len(prev) - 1 # Len(i.name) /\ match # right -> match
                             [] OTHER -> loop[left]
             /\ FindRightmost(t, i, first, last) = loop[last]
<1> DEFINE Left(right) == LowerBound(t, SubSeq(t[right - 1], 1, Len(i.name) + 1))
           Exact(right) == FindRightmostAmongExact(t, i, first, right)
           Match(right) == FindLeftmost(t, i, Left(right), right)
           Turn(a, right) ==
               IF right = first THEN last
               ELSE CASE Len(t[right - 1]) - 1 = Len(i.name) ->
                             IF Exact(right) = right THEN last ELSE Exact(right)
                      [] Len(t[right - 1]) - 1 # Len(i.name) /\ Match(right) # right ->
                             Match(right)
                      [] OTHER -> a
           Upto(f, j) == f = [right \in first..j |-> Turn(f[Left(right)], right)]
           Good == {d \in Nat : first + d <= last => \E f : Upto(f, first + d)}
<1>1. first \in Nat /\ last \in Nat /\ first <= last
  BY DEF Looking, Ascending
<1>2. \A right \in (first + 1)..last : Left(right) \in first..(right - 1)
  BY TurnFacts
<1>3. \A a : Turn(a, first) = last
  OBVIOUS
<1>4. \E f : f = [right \in first..last |->
                     IF right = first THEN last
                     ELSE LET prev == t[right - 1]
                              left == LowerBound(t, SubSeq(prev, 1, Len(i.name) + 1))
                              exact == FindRightmostAmongExact(t, i, first, right)
                              match == FindLeftmost(t, i, left, right)
                          IN CASE Len(prev) - 1 = Len(i.name) ->
                                      IF exact = right THEN last ELSE exact
                               [] Len(prev) - 1 # Len(i.name) /\ match # right -> match
                               [] OTHER -> f[left]]
  <2> SUFFICES \E f : Upto(f, last)
    BY Zenon
  <2> HIDE DEF Turn, Left
  <2>1. 0 \in Good
    <3> DEFINE f == [right \in first..first |-> last]
    <3>1. Upto(f, first)
      BY <1>1, <1>3
    <3> QED BY <1>1, <3>1
  <2>2. ASSUME NEW d \in Nat, d \in Good PROVE d + 1 \in Good
    <3> SUFFICES ASSUME first + (d + 1) <= last PROVE \E f : Upto(f, first + (d + 1))
      OBVIOUS
    <3> DEFINE j == first + d
    <3>1. PICK f : Upto(f, j)
      BY <1>1, <2>2
    <3> DEFINE g == [right \in first..(j + 1) |-> Turn(f[Left(right)], right)]
    <3>2. \A right \in first..j : g[right] = f[right]
      BY <1>1, <3>1, SMTT(30)
    <3>3. ASSUME NEW right \in first..(j + 1)
          PROVE  Turn(f[Left(right)], right) = Turn(g[Left(right)], right)
      <4> HIDE DEF g
      <4>1. CASE right = first
        BY <1>3, <4>1
      <4>2. CASE right # first
        <5>1. right \in (first + 1)..last /\ \A h \in first..(right - 1) : h \in first..j
          BY <1>1, <4>2
        <5>2. Left(right) \in first..j
          BY <1>2, <5>1
        <5> QED BY <3>2, <5>2
      <4> QED BY <4>1, <4>2
    <3>4. Upto(g, j + 1)
      BY <3>3, Zenon
    <3>5. j + 1 = first + (d + 1)
      BY <1>1
    <3> HIDE DEF g, Upto, j
    <3> QED BY <3>4, <3>5
  <2>3. last - first \in Good
    <3> HIDE DEF Good
    <3>1. Nat \subseteq Good
      BY <2>1, <2>2, SetInduction
    <3> QED BY <1>1, <3>1
  <2>4. first + (last - first) = last
    BY <1>1
  <2> HIDE DEF Upto
  <2>5. first + (last - first) <= last => \E f : Upto(f, first + (last - first))
    BY <2>3
  <2>6. \E f : Upto(f, first + (last - first))
    BY <1>1, <2>4, <2>5, SMTT(30)
  <2> QED BY <2>4, <2>6, Zenon
<1> DEFINE loop == CHOOSE f : f = [right \in first..last |->
                     IF right = first THEN last
                     ELSE LET prev == t[right - 1]
                              left == LowerBound(t, SubSeq(prev, 1, Len(i.name) + 1))
                              exact == FindRightmostAmongExact(t, i, first, right)
                              match == FindLeftmost(t, i, left, right)
                          IN CASE Len(prev) - 1 = Len(i.name) ->
                                      IF exact = right THEN last ELSE exact
                               [] Len(prev) - 1 # Len(i.name) /\ match # right -> match
                               [] OTHER -> f[left]]
<1>5. Upto(loop, last)
  BY <1>4, Zenon
<1>6. FindRightmost(t, i, first, last) = loop[last]
  BY DEF FindRightmost
<1> HIDE DEF loop
<1>7. \A right \in first..last : loop[right] = Turn(loop[Left(right)], right)
  <2> HIDE DEF Turn, Left
  <2> QED BY <1>5, Zenon
<1>8. loop[first] = last
  <2> HIDE DEF Turn
  <2> QED BY <1>1, <1>3, <1>7
<1>9. \A right \in (first + 1)..last :
          right \in first..last /\ right # first
  BY <1>1
<1> WITNESS loop
<1>10. ASSUME NEW right \in (first + 1)..last
       PROVE  loop[right] =
                CASE Len(t[right - 1]) - 1 = Len(i.name) ->
                         IF Exact(right) = right THEN last ELSE Exact(right)
                  [] Len(t[right - 1]) - 1 # Len(i.name) /\ Match(right) # right ->
                         Match(right)
                  [] OTHER -> loop[Left(right)]
  <2>1. loop[right] = Turn(loop[Left(right)], right) /\ right # first
    BY <1>7, <1>9
  <2> HIDE DEF Exact, Match, Left
  <2> QED BY <2>1
<1> QED BY <1>6, <1>8, <1>10

\* findRightmost finds the best match: when the search has come to right without
\* a match, the rest of the loop finds it.
LEMMA RightmostIsBest ==
    ASSUME table \subseteq Entry, NEW t, NEW i, NEW first, NEW last,
           Looking(t, i, first, last), Range(t) = table, i.rightmost
    PROVE  GoodMatch(t, i, first, last, FindRightmost(t, i, first, last))
<1> DEFINE n == Len(i.name)
           Left(right) == LowerBound(t, SubSeq(t[right - 1], 1, n + 1))
           Exact(right) == FindRightmostAmongExact(t, i, first, right)
           Match(right) == FindLeftmost(t, i, Left(right), right)
<1>1. PICK loop :
             /\ loop[first] = last
             /\ \A right \in (first + 1)..last :
                    loop[right] =
                        CASE Len(t[right - 1]) - 1 = n ->
                                 IF Exact(right) = right THEN last ELSE Exact(right)
                          [] Len(t[right - 1]) - 1 # n /\ Match(right) # right ->
                                 Match(right)
                          [] OTHER -> loop[Left(right)]
             /\ FindRightmost(t, i, first, last) = loop[last]
  BY LoopDef
<1>2. first \in Nat /\ last \in Nat /\ first <= last /\ n \in Nat
  <2>1. i.name \in Names /\ Ascending(t)
    BY DEF Looking
  <2>2. n \in Nat
    BY <2>1, NameFacts
  <2> QED BY <2>1, <2>2 DEF Looking, Ascending
<1> DEFINE Done(right) == GoodMatch(t, i, first, last, loop[right])
           Bad == {right \in first..last : Matches(t, i, right, last) = {} /\ ~Done(right)}
<1>3. Matches(t, i, last, last) = {}
  BY <1>2 DEF Matches
<1> SUFFICES ASSUME Bad # {} PROVE FALSE
  BY <1>1, <1>2, <1>3
<1>4. PICK right \in Bad : \A k \in Bad : right <= k
  <2>1. Bad \in SUBSET Nat
    BY <1>2
  <2> HIDE DEF Bad
  <2> QED BY <2>1, LeastElement
<1>5. right \in first..last /\ Matches(t, i, right, last) = {} /\ ~Done(right)
  BY <1>4
<1>6. right # first
  BY <1>1, <1>5 DEF GoodMatch
<1>7. right \in (first + 1)..last
  BY <1>2, <1>5, <1>6, SMTT(30)
<1>8. Left(right) \in first..(right - 1)
  BY <1>7, TurnFacts
<1>9. Len(t[right - 1]) - 1 = n <=> Len(t[right - 1]) = n + 1
  <2>1. t[right - 1] \in Names
    BY <1>2, <1>7, SMTT(30) DEF Looking
  <2>2. Len(t[right - 1]) \in Nat
    BY <2>1, NameFacts
  <2> QED BY <1>2, <2>2, SMTT(30)
<1>10. CASE Len(t[right - 1]) - 1 = n
  <2>1. loop[right] = IF Exact(right) = right THEN last ELSE Exact(right)
    <3> HIDE DEF Exact, Match, Left, n
    <3> QED BY <1>1, <1>7, <1>10
  <2>2. GoodMatch(t, i, first, last, IF Exact(right) = right THEN last ELSE Exact(right))
    BY <1>5, <1>7, <1>9, <1>10, ExactIsBest
  <2> QED BY <1>5, <2>1, <2>2
<1>11. CASE Len(t[right - 1]) - 1 # n
  <2>1. IF Match(right) = right THEN Matches(t, i, Left(right), last) = {}
        ELSE GoodMatch(t, i, first, last, Match(right))
    BY <1>5, <1>7, <1>9, <1>11, GroupIsBest, Zenon
  <2>2. loop[right] = IF Match(right) # right THEN Match(right) ELSE loop[Left(right)]
    <3> HIDE DEF Exact, Match, Left, n
    <3> QED BY <1>1, <1>7, <1>11
  <2> HIDE DEF Match, Left
  <2>3. Match(right) = right
    BY <1>5, <2>1, <2>2
  <2>4. Left(right) \in Bad
    <3>1. Left(right) \in first..last /\ ~Done(Left(right))
      BY <1>2, <1>5, <1>8, <2>2, <2>3
    <3> QED BY <2>1, <2>3, <3>1
  <2>5. right <= Left(right)
    BY <1>4, <2>4
  <2> QED BY <1>2, <1>7, <1>8, <2>5, SMTT(30)
<1> QED BY <1>10, <1>11

\* Cs::find finds the best match of the table.
LEMMA FoundIsBest ==
    ASSUME table \subseteq Entry, NEW i \in Interest
    PROVE  Found(i) = BestMatch(i) /\ Found(i) \subseteq table
<1> DEFINE t == Sorted
           first == FirstOf(t, i.name)
           last == EndOf(t, i.name)
           M == Matches(t, i, first, last)
           r == IF i.rightmost THEN FindRightmost(t, i, first, last)
                ELSE FindLeftmost(t, i, first, last)
           S == {e \in table : CanSatisfy(e, i)}
<1>1. Looking(t, i, first, last) /\ Range(t) = table
  BY SortedLooking, SortedFacts
<1>2. Found(i) = IF r = last THEN {} ELSE {t[r]}
  BY DEF Found
<1> HIDE DEF t, first, last
<1>3. GoodMatch(t, i, first, last, r)
  <2>1. CASE i.rightmost
    BY <1>1, <2>1, RightmostIsBest
  <2>2. CASE ~i.rightmost
    BY <1>1, <2>2, LeftmostIsBest, Zenon
  <2> QED BY <2>1, <2>2
<1>4. M \subseteq DOMAIN t /\ M \subseteq first..(last - 1) /\ S = {t[k] : k \in M}
  BY <1>1, MatchFacts, Zenon
<1>5. last \in Nat
  BY <1>1 DEF Looking, Ascending
<1> HIDE DEF r
<1>6. CASE M = {}
  <2>1. r = last /\ Found(i) = {}
    BY <1>2, <1>3, <1>6 DEF GoodMatch
  <2>2. S = {}
    BY <1>4, <1>6
  <2>3. BestMatch(i) = {}
    BY <2>2 DEF BestMatch, Leftmost, Rightmost
  <2> QED BY <2>1, <2>3
<1>7. CASE M # {}
  <2>1. r \in M /\ BestMatch(i) = {t[r]}
    BY <1>3, <1>7 DEF GoodMatch
  <2> HIDE DEF M
  <2>2. r # last /\ r \in DOMAIN t
    BY <1>4, <1>5, <2>1
  <2>3. t[r] \in table
    BY <1>1, <2>2 DEF Range
  <2> QED BY <1>2, <2>1, <2>2, <2>3
<1> QED BY <1>6, <1>7

-----------------------------------------------------------------------------
(* The queues *)

\* Queues q hold each entry of S once, and nothing else.
Holds(q, S) ==
    /\ q \in [QueueTypes -> Seq(Entry)]
    /\ \A t \in QueueTypes : Distinct(q[t])
    /\ \A t, u \in QueueTypes : t # u => Range(q[t]) \cap Range(q[u]) = {}
    /\ S = UNION {Range(q[t]) : t \in QueueTypes}

\* The entries of G have left.
LEMMA WithoutHolds ==
    ASSUME NEW q, NEW S, Holds(q, S), NEW G
    PROVE  /\ Holds(Without(q, G), S \ G)
           /\ \A t \in QueueTypes : Range(Without(q, G)[t]) = Range(q[t]) \ G
<1> DEFINE w == Without(q, G)
<1>1. ASSUME NEW t \in QueueTypes
      PROVE  /\ w[t] \in Seq(Entry) /\ Distinct(w[t])
             /\ Range(w[t]) = Range(q[t]) \ G
  <2>1. q[t] \in Seq(Entry) /\ Distinct(q[t])
    BY DEF Holds
  <2> DEFINE o == Only(q[t], Entry \ G)
  <2>2. /\ o \in Seq((Entry \ G) \cap Entry) /\ Distinct(o)
        /\ Range(o) = Range(q[t]) \cap (Entry \ G)
    BY <2>1, OnlyDistinct, Zenon
  <2>3. w[t] = o
    BY DEF Without
  <2> HIDE DEF o
  <2>4. o \in Seq(Entry)
    BY <2>2
  <2>5. Range(q[t]) \subseteq Entry
    BY <2>1 DEF Range
  <2> QED BY <2>2, <2>3, <2>4, <2>5
<1>2. w = [t \in QueueTypes |-> w[t]]
  BY DEF Without
<1> HIDE DEF w
<1>3. w \in [QueueTypes -> Seq(Entry)]
  BY <1>1, <1>2
<1>4. \A t, u \in QueueTypes : t # u => Range(w[t]) \cap Range(w[u]) = {}
  BY <1>1, Zenon DEF Holds
<1>5. S \ G = UNION {Range(w[t]) : t \in QueueTypes}
  BY <1>1 DEF Holds
<1> QED BY <1>1, <1>3, <1>4, <1>5, Zenon DEF Holds, w

\* Queues q with entry e at the back of queue u.
MovedTo(q, e, u) == [Without(q, {e}) EXCEPT ![u] = Append(@, e)]

Moved(q, S, e, u, m) ==
    /\ Holds(m, S \cup {e})
    /\ \A t \in QueueTypes :
           Range(m[t]) = (Range(q[t]) \ {e}) \cup (IF t = u THEN {e} ELSE {})

\* Moving an entry to another queue of the policy leaves every entry in one queue, once.
LEMMA MovedHolds ==
    ASSUME NEW q, NEW S, Holds(q, S), NEW e \in Entry, NEW u \in QueueTypes
    PROVE  Moved(q, S, e, u, MovedTo(q, e, u))
<1> DEFINE w == Without(q, {e})
           m == MovedTo(q, e, u)
<1>1. /\ Holds(w, S \ {e})
      /\ \A t \in QueueTypes : Range(w[t]) = Range(q[t]) \ {e}
  BY WithoutHolds
<1>2. m = [w EXCEPT ![u] = Append(w[u], e)]
  BY DEF MovedTo
<1> HIDE DEF w, m
<1>3. w \in [QueueTypes -> Seq(Entry)] /\ w[u] \in Seq(Entry) /\ Distinct(w[u])
  BY <1>1 DEF Holds
<1> DEFINE a == Append(w[u], e)
<1>4. a \in Seq(Entry) /\ Distinct(a) /\ Range(a) = Range(w[u]) \cup {e}
  <2>1. e \notin Range(w[u])
    BY <1>1
  <2> QED BY <1>3, <2>1, AppendDistinct
<1> HIDE DEF a
<1>5. m \in [QueueTypes -> Seq(Entry)] /\ \A t \in QueueTypes : m[t] = IF t = u THEN a ELSE w[t]
  BY <1>2, <1>3, <1>4 DEF a
<1>6. \A t \in QueueTypes : Range(m[t]) = (Range(q[t]) \ {e}) \cup (IF t = u THEN {e} ELSE {})
  BY <1>1, <1>4, <1>5, Zenon
<1>7. \A t \in QueueTypes : Distinct(m[t])
  BY <1>1, <1>4, <1>5, Zenon DEF Holds
<1>8. \A t, v \in QueueTypes : t # v => Range(m[t]) \cap Range(m[v]) = {}
  BY <1>6, Zenon DEF Holds
<1>9. S \cup {e} = UNION {Range(m[t]) : t \in QueueTypes}
  BY <1>6 DEF Holds
<1> QED BY <1>5, <1>6, <1>7, <1>8, <1>9 DEF Holds, Moved, m

\* The order of eviction lists the entries once each.
LEMMA OrderLists ==
    ASSUME NEW q, NEW S, Holds(q, S)
    PROVE  LET order == EvictionOrder(q)
           IN /\ order \in Seq(Entry) /\ Distinct(order) /\ Range(order) = S
              /\ IsFiniteSet(S) /\ Len(order) = Cardinality(S)
<1> DEFINE a == q["unsolicited"]
           b == q["stale"]
           c == q["fifo"]
           d == q["lru"]
<1>1. /\ a \in Seq(Entry) /\ b \in Seq(Entry) /\ c \in Seq(Entry) /\ d \in Seq(Entry)
      /\ Distinct(a) /\ Distinct(b) /\ Distinct(c) /\ Distinct(d)
  BY DEF Holds, QueueTypes
<1>2. /\ Range(a) \cap Range(b) = {} /\ Range(a) \cap Range(c) = {}
      /\ Range(a) \cap Range(d) = {} /\ Range(b) \cap Range(c) = {}
      /\ Range(b) \cap Range(d) = {} /\ Range(c) \cap Range(d) = {}
  BY DEF Holds, QueueTypes
<1>3. S = Range(a) \cup Range(b) \cup Range(c) \cup Range(d)
  BY DEF Holds, QueueTypes
<1>4. EvictionOrder(q) = a \o b \o c \o d
  BY DEF EvictionOrder
<1> HIDE DEF a, b, c, d
<1>5. /\ a \o b \in Seq(Entry) /\ Distinct(a \o b)
      /\ Range(a \o b) = Range(a) \cup Range(b)
  BY <1>1, <1>2, ConcatDistinct
<1> DEFINE ab == a \o b
<1> HIDE DEF ab
<1>6. /\ ab \o c \in Seq(Entry) /\ Distinct(ab \o c)
      /\ Range(ab \o c) = Range(a) \cup Range(b) \cup Range(c)
  <2>1. Range(ab) \cap Range(c) = {}
    BY <1>2, <1>5 DEF ab
  <2>2. ab \in Seq(Entry) /\ Distinct(ab)
    BY <1>5 DEF ab
  <2>3. /\ ab \o c \in Seq(Entry) /\ Distinct(ab \o c)
        /\ Range(ab \o c) = Range(ab) \cup Range(c)
    BY <1>1, <2>1, <2>2, ConcatDistinct
  <2> QED BY <1>5, <2>3 DEF ab
<1> DEFINE abc == ab \o c
<1> HIDE DEF abc
<1>7. /\ abc \o d \in Seq(Entry) /\ Distinct(abc \o d)
      /\ Range(abc \o d) = S
  <2>1. Range(abc) \cap Range(d) = {}
    BY <1>2, <1>6 DEF abc
  <2>2. abc \in Seq(Entry) /\ Distinct(abc)
    BY <1>6 DEF abc
  <2>3. /\ abc \o d \in Seq(Entry) /\ Distinct(abc \o d)
        /\ Range(abc \o d) = Range(abc) \cup Range(d)
    BY <1>1, <2>1, <2>2, ConcatDistinct
  <2> QED BY <1>3, <1>6, <2>3 DEF abc
<1>8. EvictionOrder(q) = abc \o d
  BY <1>4 DEF abc, ab
<1> DEFINE order == EvictionOrder(q)
<1>9. order \in Seq(Entry) /\ Distinct(order) /\ Range(order) = S
  BY <1>7, <1>8
<1> HIDE DEF order
<1>10. IsFiniteSet(Range(order)) /\ Cardinality(Range(order)) = Len(order)
  BY <1>9, DistinctCardinality, Zenon
<1> QED BY <1>9, <1>10 DEF order

\* evictEntries takes as many entries as are too many, from the front of the order.
LEMMA EvictedFacts ==
    ASSUME NEW q, NEW S, Holds(q, S), NEW max \in Nat
    PROVE  LET gone == Evicted(q, Cardinality(S), max)
               order == EvictionOrder(q)
               k == IF Cardinality(S) > max THEN Cardinality(S) - max ELSE 0
           IN /\ k \in 0..Len(order)
              /\ gone = {order[j] : j \in 1..k}
              /\ Cardinality(S \ gone) <= max
<1> DEFINE n == Cardinality(S)
           order == EvictionOrder(q)
           k == IF n > max THEN n - max ELSE 0
           gone == Evicted(q, n, max)
           front == SubSeq(order, 1, k)
           rest == SubSeq(order, k + 1, Len(order))
<1>1. /\ order \in Seq(Entry) /\ Distinct(order) /\ Range(order) = S
      /\ IsFiniteSet(S) /\ Len(order) = n /\ n \in Nat
  BY OrderLists, FS_CardinalityType
<1>2. gone = Range(front)
  BY DEF Evicted
<1> HIDE DEF n, order, gone
<1>3. k \in Nat /\ k <= Len(order)
  BY <1>1
<1> HIDE DEF k
<1>4. gone = {order[j] : j \in 1..k}
  <2>1. DOMAIN front = 1..k /\ \A j \in 1..k : front[j] = order[j]
    BY <1>1, <1>3
  <2> HIDE DEF front
  <2> QED BY <1>2, <2>1 DEF Range
<1>5. Cardinality(S \ gone) <= max
  <2>1. CASE k = 0
    <3>1. gone = {} /\ n <= max
      BY <1>1, <1>4, <2>1 DEF k
    <3> QED BY <3>1 DEF n
  <2>2. CASE k # 0
    <3>1. k \in 1..Len(order) /\ order \in Seq(Entry) /\ Distinct(order)
      BY <1>1, <1>3, <2>2
    <3>2. /\ rest \in Seq(Entry) /\ Distinct(rest) /\ Len(rest) = Len(order) - k
          /\ Range(front) \cap Range(rest) = {}
          /\ Range(front) \cup Range(rest) = Range(order)
      BY <3>1, SplitDistinct
    <3> HIDE DEF front, rest
    <3>3. Cardinality(Range(rest)) = Len(rest)
      BY <3>2, DistinctCardinality
    <3>4. S \ gone = Range(rest)
      BY <1>1, <1>2, <3>2
    <3>5. k = n - max
      BY <1>1, <2>2 DEF k
    <3>6. Len(rest) = max
      BY <1>1, <1>3, <3>2, <3>5
    <3>7. Cardinality(S \ gone) = max
      BY <3>3, <3>4, <3>6, Zenon
    <3> QED BY <3>7
  <2> QED BY <2>1, <2>2
<1> QED BY <1>3, <1>4, <1>5 DEF gone, order, n, k
-----------------------------------------------------------------------------
(* The inductive invariant *)

\* The queue in which each entry of table s is, with unsolicited entries u, stale
\* ones v, events x, under policy p.
Placed(p, q, s, u, v, x) ==
    /\ Holds(q, s)
    /\ u \subseteq s /\ v \subseteq s
    /\ x = Range(q["fifo"])
    /\ p = "lru" => s = Range(q["lru"])
    /\ p # "lru" => /\ Range(q["lru"]) = {}
                    /\ Range(q["unsolicited"]) = u
                    /\ Range(q["fifo"]) \cap v = {}

CsInv ==
    /\ table \subseteq Entry
    /\ Placed(policy, queues, table, unsolicited, stale, events)
    /\ Cardinality(table) <= limit
    /\ policy \in {"lru", "priority_fifo"}
    /\ limit \in 0..MaxLimit
    /\ shouldAdmit \in BOOLEAN /\ shouldServe \in BOOLEAN

\* The parts of the invariant that are properties by themselves.
LEMMA InvFacts ==
    ASSUME CsInv
    PROVE  CsTypeOK /\ QueuesHoldTable /\ TimersOfFifo /\ WithinLimit /\ FindIsBest
<1>1. Holds(queues, table) /\ table \subseteq Entry
  BY DEF CsInv, Placed
<1>2. CsTypeOK
  <2>1. queues \in [QueueTypes -> Seq(Entry)]
    BY <1>1 DEF Holds
  <2>2. \A t \in QueueTypes : Range(queues[t]) \subseteq Entry
    BY <2>1 DEF Range
  <2> QED BY <2>1, <2>2 DEF CsInv, Placed, CsTypeOK
<1>3. QueuesHoldTable
  <2>1. Range(EvictionOrder(queues)) = table /\ Len(EvictionOrder(queues)) = Cardinality(table)
    BY <1>1, OrderLists
  <2>2. ASSUME NEW e \in table, policy = "lru" PROVE e \in Range(queues["lru"])
    BY <2>2 DEF CsInv, Placed
  <2>3. ASSUME NEW e \in table, policy # "lru"
        PROVE  /\ e \in Range(queues["unsolicited"]) <=> e \in unsolicited
               /\ e \in Range(queues["fifo"]) => e \notin stale
    BY <2>3 DEF CsInv, Placed
  <2> QED BY <2>1, <2>2, <2>3 DEF QueuesHoldTable
<1>4. TimersOfFifo
  BY DEF CsInv, Placed, TimersOfFifo
<1>5. WithinLimit
  BY DEF CsInv, WithinLimit
<1>6. FindIsBest
  BY <1>1, FoundIsBest DEF FindIsBest
<1> QED BY <1>2, <1>3, <1>4, <1>5, <1>6

\* Entries leave the store: erase, setLimit, eviction.
LEMMA LeavingKeepsPlaced ==
    ASSUME NEW p, NEW q, NEW s, NEW u, NEW v, NEW x, Placed(p, q, s, u, v, x), NEW G
    PROVE  Placed(p, Without(q, G), s \ G, u \ G, v \ G, x \ G)
<1>1. /\ Holds(Without(q, G), s \ G)
      /\ \A t \in QueueTypes : Range(Without(q, G)[t]) = Range(q[t]) \ G
  BY WithoutHolds, Zenon DEF Placed
<1>2. /\ Range(Without(q, G)["fifo"]) = Range(q["fifo"]) \ G
      /\ Range(Without(q, G)["lru"]) = Range(q["lru"]) \ G
      /\ Range(Without(q, G)["unsolicited"]) = Range(q["unsolicited"]) \ G
  BY <1>1 DEF QueueTypes
<1> DEFINE w == Without(q, G)
<1> HIDE DEF w
<1>3. Placed(p, w, s \ G, u \ G, v \ G, x \ G)
  BY <1>1, <1>2 DEF Placed, w
<1> QED BY <1>3 DEF w

\* Only the number of entries can grow with an insertion.
LEMMA FiniteTable ==
    ASSUME NEW q, NEW s, Holds(q, s), NEW e
    PROVE  IsFiniteSet(s) /\ Cardinality(s) \in Nat
           /\ (e \notin s => Cardinality(s \cup {e}) = Cardinality(s) + 1)
  BY OrderLists, FS_CardinalityType, FS_AddElement, Zenon

\* What Cs::insert makes of the store before it evicts anything.
Flagged(e, u) == IF u THEN unsolicited \cup {e} ELSE unsolicited \ {e}
Timed(e, u) == IF QueueFor(e, u) = "fifo" THEN Cancelled({e}) \cup {e} ELSE Cancelled({e})

\* attachQueue puts an entry in the queue that its flags call for.
LEMMA AttachedPlaced ==
    ASSUME CsInv, NEW e \in Entry, NEW u \in BOOLEAN
    PROVE  Placed(policy, Attached(e, u), table \cup {e}, Flagged(e, u), stale \ {e}, Timed(e, u))
<1> DEFINE a == QueueFor(e, u)
           q == Attached(e, u)
<1>1. a \in QueueTypes /\ (a = "lru" <=> policy = "lru")
      /\ (policy # "lru" => (a = "unsolicited" <=> u) /\ (a = "fifo" <=> ~u))
  BY DEF QueueFor, UpdateStaleTime, QueueTypes
<1>2. q = MovedTo(queues, e, a)
  BY DEF Attached, MovedTo
<1>3. Holds(queues, table)
  BY DEF CsInv, Placed
<1> HIDE DEF a
<1>4. /\ Holds(q, table \cup {e})
      /\ \A t \in QueueTypes :
             Range(q[t]) = (Range(queues[t]) \ {e}) \cup (IF t = a THEN {e} ELSE {})
  <2>1. a \in QueueTypes
    BY <1>1
  <2> HIDE DEF q
  <2>2. Moved(queues, table, e, a, MovedTo(queues, e, a))
    BY <1>3, <2>1, MovedHolds
  <2> QED BY <1>2, <2>2 DEF Moved
<1> HIDE DEF q
<1>5. /\ Range(q["fifo"]) = (Range(queues["fifo"]) \ {e}) \cup (IF "fifo" = a THEN {e} ELSE {})
      /\ Range(q["lru"]) = (Range(queues["lru"]) \ {e}) \cup (IF "lru" = a THEN {e} ELSE {})
      /\ Range(q["unsolicited"])
           = (Range(queues["unsolicited"]) \ {e}) \cup (IF "unsolicited" = a THEN {e} ELSE {})
  BY <1>4, Zenon DEF QueueTypes
<1>6. Timed(e, u) = Range(q["fifo"])
  BY <1>5 DEF Timed, Cancelled, CsInv, Placed, a
<1>7. Flagged(e, u) \subseteq table \cup {e} /\ stale \ {e} \subseteq table \cup {e}
  BY Zenon DEF Flagged, CsInv, Placed
<1>8. policy = "lru" => table \cup {e} = Range(q["lru"])
  BY <1>1, <1>5, Zenon DEF CsInv, Placed
<1>9. ASSUME policy # "lru"
      PROVE  /\ Range(q["lru"]) = {}
             /\ Range(q["unsolicited"]) = Flagged(e, u)
             /\ Range(q["fifo"]) \cap (stale \ {e}) = {}
  BY <1>1, <1>5, <1>9, Zenon DEF CsInv, Placed, Flagged
<1> QED BY <1>4, <1>6, <1>7, <1>8, <1>9 DEF Placed, q

\* Cs::insert in these terms.
LEMMA InsertEffect ==
    ASSUME CsInv, NEW e \in Entry, NEW b \in BOOLEAN, Insert(e, b)
    PROVE  \E u \in BOOLEAN, gone \in SUBSET Entry :
             /\ table' = (table \cup {e}) \ gone
             /\ unsolicited' = Flagged(e, u) \ gone
             /\ stale' = (stale \ {e}) \ gone
             /\ queues' = Without(Attached(e, u), gone)
             /\ events' = Timed(e, u) \ gone
             /\ IF e \in table THEN gone = {}
                ELSE gone = Evicted(Attached(e, u), Cardinality(table \cup {e}), limit)
             /\ UNCHANGED <<policy, limit, shouldAdmit, shouldServe>>
<1> DEFINE u == IF e \in table THEN e \in unsolicited /\ b ELSE b
           q == Attached(e, u)
           gone == IF e \in table THEN {} ELSE Evicted(q, Cardinality(table) + 1, limit)
<1>1. u \in BOOLEAN
  BY Zenon
<1>2. /\ table' = (table \cup {e}) \ gone
      /\ unsolicited' = Flagged(e, u) \ gone
      /\ stale' = (stale \ {e}) \ gone
      /\ queues' = Without(q, gone)
      /\ events' = Timed(e, u) \ gone
      /\ UNCHANGED <<policy, limit, shouldAdmit, shouldServe>>
  BY Zenon DEF Insert, Flagged, Timed, UpdateStaleTime
<1>3. Holds(queues, table) /\ limit \in Nat
  BY LimitAssumption DEF CsInv, Placed
<1>4. e \notin table => Cardinality(table \cup {e}) = Cardinality(table) + 1
  BY <1>3, FiniteTable
<1> HIDE DEF u
<1>5. Holds(q, table \cup {e})
  BY <1>1, AttachedPlaced, Zenon DEF Placed
<1> HIDE DEF q
<1>6. gone \in SUBSET Entry
  <2>1. CASE e \notin table
    <3> DEFINE order == EvictionOrder(q)
               n == Cardinality(table \cup {e})
               k == IF n > limit THEN n - limit ELSE 0
    <3>1. order \in Seq(Entry)
      BY <1>5, OrderLists
    <3>2. k \in 0..Len(order) /\ Evicted(q, n, limit) = {order[j] : j \in 1..k}
      BY <1>3, <1>5, EvictedFacts, Zenon
    <3> HIDE DEF order, k, n
    <3>3. \A j \in 1..k : order[j] \in Entry
      BY <3>1, <3>2
    <3>4. Evicted(q, n, limit) \subseteq Entry
      BY <3>2, <3>3
    <3> QED BY <1>4, <2>1, <3>4 DEF n
  <2> QED BY <2>1
<1>7. IF e \in table THEN gone = {}
      ELSE gone = Evicted(q, Cardinality(table \cup {e}), limit)
  BY <1>4
<1> HIDE DEF gone
<1> QED BY <1>1, <1>2, <1>6, <1>7 DEF q

\* Cs::insert, with the policy's eviction, keeps the invariant.
LEMMA InsertKeepsInv ==
    ASSUME CsInv, NEW e \in Entry, NEW b \in BOOLEAN, Insert(e, b)
    PROVE  CsInv'
<1>1. PICK u \in BOOLEAN, gone \in SUBSET Entry :
             /\ table' = (table \cup {e}) \ gone
             /\ unsolicited' = Flagged(e, u) \ gone
             /\ stale' = (stale \ {e}) \ gone
             /\ queues' = Without(Attached(e, u), gone)
             /\ events' = Timed(e, u) \ gone
             /\ IF e \in table THEN gone = {}
                ELSE gone = Evicted(Attached(e, u), Cardinality(table \cup {e}), limit)
             /\ UNCHANGED <<policy, limit, shouldAdmit, shouldServe>>
  BY InsertEffect
<1> DEFINE q == Attached(e, u)
<1>2. Placed(policy, q, table \cup {e}, Flagged(e, u), stale \ {e}, Timed(e, u))
  BY AttachedPlaced
<1> HIDE DEF q
<1>3. Placed(policy', queues', table', unsolicited', stale', events')
  <2>1. Placed(policy, Without(q, gone), (table \cup {e}) \ gone, Flagged(e, u) \ gone,
               (stale \ {e}) \ gone, Timed(e, u) \ gone)
    BY <1>2, LeavingKeepsPlaced
  <2> QED BY <1>1, <2>1 DEF q
<1>4. Cardinality(table') <= limit
  <2>1. CASE e \in table
    <3>1. table' = table
      BY <1>1, <2>1
    <3> QED BY <3>1 DEF CsInv
  <2>2. CASE e \notin table
    <3>1. Holds(q, table \cup {e}) /\ limit \in Nat
      BY <1>2, LimitAssumption, SMTT(30) DEF Placed, CsInv
    <3>2. Cardinality((table \cup {e}) \ Evicted(q, Cardinality(table \cup {e}), limit)) <= limit
      BY <3>1, EvictedFacts, Zenon
    <3> QED BY <1>1, <2>2, <3>2, Zenon DEF q
  <2> QED BY <2>1, <2>2
<1> QED BY <1>1, <1>3, <1>4 DEF CsInv

\* Entries that erase, setLimit or the policy take out.
LEMMA TakeOutKeeps ==
    ASSUME CsInv, NEW G, TakeOut(G), policy' = policy
    PROVE  /\ Placed(policy', queues', table', unsolicited', stale', events')
           /\ table' = table \ G /\ table' \subseteq Entry
           /\ Cardinality(table') <= Cardinality(table)
<1>1. Placed(policy, queues, table, unsolicited, stale, events)
  BY DEF CsInv
<1>2. Placed(policy, Without(queues, G), table \ G, unsolicited \ G, stale \ G, events \ G)
  BY <1>1, LeavingKeepsPlaced
<1>3. IsFiniteSet(table)
  BY <1>1, FiniteTable, Zenon DEF Placed
<1>4. Cardinality(table \ G) <= Cardinality(table)
  BY <1>3, FS_Subset
<1> QED BY <1>2, <1>4 DEF TakeOut, Cancelled, CsInv

\* The empty queues of a new policy hold the empty table.
LEMMA NothingHeld == Holds(NoQueues, {}) /\ \A t \in QueueTypes : Range(NoQueues[t]) = {}
<1>1. \A t \in QueueTypes : NoQueues[t] = <<>> /\ Range(NoQueues[t]) = {}
  BY DEF NoQueues, Range
<1>2. NoQueues \in [QueueTypes -> Seq(Entry)]
  BY DEF NoQueues
<1>3. \A t \in QueueTypes : Distinct(NoQueues[t])
  BY <1>1 DEF Distinct
<1> QED BY <1>1, <1>2, <1>3 DEF Holds

\* A hit moves the entry to the back of the lru queue (beforeUse).
LEMMA FindKeepsInv ==
    ASSUME CsInv, NEW i \in Interest, Find(i)
    PROVE  CsInv'
<1>1. PICK e \in Found(i) :
          queues' = IF policy = "lru" THEN MovedTo(queues, e, "lru") ELSE queues
  BY Zenon DEF Find, MovedTo
<1>2. UNCHANGED <<table, unsolicited, stale, policy, events, limit, shouldAdmit, shouldServe>>
  BY DEF Find
<1>3. e \in table /\ e \in Entry
  BY FoundIsBest DEF CsInv
<1>4. CASE policy = "lru"
  <2> DEFINE q == MovedTo(queues, e, "lru")
  <2>1. Holds(queues, table) /\ "lru" \in QueueTypes /\ table \cup {e} = table
    BY <1>3 DEF CsInv, Placed, QueueTypes
  <2>2. /\ Holds(q, table \cup {e})
        /\ \A t \in QueueTypes :
               Range(q[t]) = (Range(queues[t]) \ {e}) \cup (IF t = "lru" THEN {e} ELSE {})
    <3>1. Moved(queues, table, e, "lru", q)
      BY <1>3, <2>1, MovedHolds, Zenon
    <3> QED BY <3>1 DEF Moved
  <2> HIDE DEF q
  <2>3. /\ Range(q["fifo"]) = Range(queues["fifo"]) \ {e}
        /\ Range(q["lru"]) = (Range(queues["lru"]) \ {e}) \cup {e}
    BY <2>2, Zenon DEF QueueTypes
  <2>4. table = Range(queues["lru"]) /\ Range(queues["fifo"]) \cap Range(queues["lru"]) = {}
    BY <1>4, Zenon DEF CsInv, Placed, Holds, QueueTypes
  <2>5. Range(q["fifo"]) = Range(queues["fifo"]) /\ Range(q["lru"]) = table
    BY <1>3, <2>3, <2>4, Zenon
  <2>6. Placed(policy, q, table, unsolicited, stale, events)
    BY <1>4, <2>1, <2>2, <2>5 DEF CsInv, Placed
  <2>7. queues' = q
    BY <1>1, <1>4 DEF q
  <2> QED BY <1>2, <2>6, <2>7 DEF CsInv
<1>5. CASE policy # "lru"
  BY <1>1, <1>2, <1>5, Zenon DEF CsInv
<1> QED BY <1>4, <1>5

\* moveToStaleQueue.
LEMMA MoveKeepsInv ==
    ASSUME CsInv, NEW e \in Entry, MoveToStaleQueue(e)
    PROVE  CsInv'
<1> DEFINE q == MovedTo(queues, e, "stale")
<1>1. e \in Range(queues["fifo"]) /\ queues' = q /\ events' = events \ {e}
  BY DEF MoveToStaleQueue, MovedTo, CsInv, Placed
<1>2. Holds(queues, table) /\ "stale" \in QueueTypes
  BY DEF CsInv, Placed, QueueTypes
<1>3. /\ Range(queues["fifo"]) \subseteq table
      /\ Range(queues["fifo"]) \cap Range(queues["lru"]) = {}
      /\ Range(queues["fifo"]) \cap Range(queues["unsolicited"]) = {}
  BY <1>2 DEF Holds, QueueTypes
<1>4. policy # "lru" /\ e \in table /\ table \cup {e} = table
  BY <1>1, <1>3 DEF CsInv, Placed
<1>5. /\ Holds(q, table \cup {e})
      /\ \A t \in QueueTypes :
             Range(q[t]) = (Range(queues[t]) \ {e}) \cup (IF t = "stale" THEN {e} ELSE {})
  <2>1. Moved(queues, table, e, "stale", q)
    BY <1>2, MovedHolds, Zenon
  <2> QED BY <2>1 DEF Moved
<1> HIDE DEF q
<1>6. /\ Range(q["fifo"]) = Range(queues["fifo"]) \ {e}
      /\ Range(q["lru"]) = Range(queues["lru"]) \ {e}
      /\ Range(q["unsolicited"]) = Range(queues["unsolicited"]) \ {e}
  BY <1>5 DEF QueueTypes
<1>7. Placed(policy, q, table, unsolicited, stale, events \ {e})
  BY <1>1, <1>3, <1>4, <1>5, <1>6 DEF CsInv, Placed
<1> QED BY <1>1, <1>7, Zenon DEF MoveToStaleQueue, CsInv

\* The invariant of the Content Store holds when it is constructed.
LEMMA InitCsInv == Init => CsInv
<1> SUFFICES ASSUME Init PROVE CsInv
  OBVIOUS
<1>1. /\ table = {} /\ unsolicited = {} /\ stale = {} /\ events = {} /\ queues = NoQueues
      /\ policy = "lru" /\ limit = MaxLimit /\ shouldAdmit = TRUE /\ shouldServe = TRUE
  BY DEF Init
<1>2. Range(queues["fifo"]) = {} /\ Range(queues["lru"]) = {} /\ Holds(queues, {})
  BY <1>1, NothingHeld DEF QueueTypes
<1>3. Placed(policy, queues, table, unsolicited, stale, events)
  BY <1>1, <1>2 DEF Placed
<1>4. Cardinality(table) <= limit
  BY <1>1, FS_EmptySet, LimitAssumption
<1> QED BY <1>1, <1>3, <1>4, LimitAssumption DEF CsInv

\* Every operation of the Content Store keeps the invariant.
LEMMA StepCsInv == CsInv /\ [Next]_vars => CsInv'
<1> SUFFICES ASSUME CsInv, [Next]_vars PROVE CsInv'
  OBVIOUS
<1>1. CASE UNCHANGED vars
  BY <1>1 DEF vars, CsInv
<1>2. ASSUME NEW e \in Entry, NEW u \in BOOLEAN, Insert(e, u) PROVE CsInv'
  BY <1>2, InsertKeepsInv
<1>3. ASSUME NEW p \in Prefix, NEW n \in {1, Cardinality(Entry)}, Erase(p, n) PROVE CsInv'
  <2>1. PICK G : TakeOut(G)
    BY <1>3 DEF Erase
  <2>2. UNCHANGED <<policy, limit, shouldAdmit, shouldServe>>
    BY <1>3 DEF Erase
  <2>3. /\ Placed(policy', queues', table', unsolicited', stale', events')
        /\ table' \subseteq Entry
        /\ Cardinality(table') <= Cardinality(table)
    BY <2>1, <2>2, TakeOutKeeps
  <2>4. Cardinality(table) \in Nat /\ Cardinality(table') \in Nat /\ limit \in Nat
    <3>1. Holds(queues, table) /\ Holds(queues', table')
      BY <2>3 DEF Placed, CsInv
    <3>2. IsFiniteSet(table) /\ IsFiniteSet(table')
      BY <3>1, OrderLists
    <3> QED BY <3>2, FS_CardinalityType, LimitAssumption, SMTT(30) DEF CsInv
  <2> QED BY <2>2, <2>3, <2>4, SMTT(30) DEF CsInv
<1>4. ASSUME NEW max \in 0..MaxLimit, SetLimit(max) PROVE CsInv'
  <2> DEFINE G == Evicted(queues, Cardinality(table), max)
  <2>1. TakeOut(G) /\ limit' = max /\ UNCHANGED <<policy, shouldAdmit, shouldServe>>
    BY <1>4 DEF SetLimit
  <2>2. max \in Nat /\ Holds(queues, table)
    BY LimitAssumption, SMTT(30) DEF CsInv, Placed
  <2>3. Cardinality(table \ G) <= max
    BY <2>2, EvictedFacts
  <2> HIDE DEF G
  <2>4. /\ Placed(policy', queues', table', unsolicited', stale', events')
        /\ table' = table \ G /\ table' \subseteq Entry
    BY <2>1, TakeOutKeeps
  <2> QED BY <2>1, <2>3, <2>4 DEF CsInv
<1>5. ASSUME NEW p \in {"lru", "priority_fifo"}, SetPolicy(p) PROVE CsInv'
  <2>1. /\ table = {} /\ table' = {} /\ queues' = NoQueues /\ events' = {} /\ policy' = p
        /\ UNCHANGED <<table, unsolicited, stale, limit, shouldAdmit, shouldServe>>
    BY <1>5 DEF SetPolicy
  <2>2. unsolicited = {} /\ stale = {}
    BY <2>1 DEF CsInv, Placed
  <2>3. /\ Holds(NoQueues, {})
        /\ Range(NoQueues["fifo"]) = {} /\ Range(NoQueues["lru"]) = {}
        /\ Range(NoQueues["unsolicited"]) = {}
    BY NothingHeld, Zenon DEF QueueTypes
  <2>4. Placed(policy', queues', table', unsolicited', stale', events')
    BY <2>1, <2>2, <2>3, Zenon DEF Placed
  <2> QED BY <2>1, <2>4 DEF CsInv
<1>6. ASSUME NEW b \in BOOLEAN, EnableAdmit(b) \/ EnableServe(b) PROVE CsInv'
  BY <1>6 DEF EnableAdmit, EnableServe, CsInv
<1>7. ASSUME NEW i \in Interest, Find(i) PROVE CsInv'
  BY <1>7, FindKeepsInv
<1>8. ASSUME NEW e \in Entry, MoveToStaleQueue(e) PROVE CsInv'
  BY <1>8, MoveKeepsInv
<1>9. ASSUME NEW e \in Entry, BecomeStale(e) PROVE CsInv'
  <2>1. /\ e \in table \ events /\ stale' = stale \cup {e}
        /\ UNCHANGED <<table, unsolicited, policy, queues, events, limit, shouldAdmit, shouldServe>>
    BY <1>9, Zenon DEF BecomeStale
  <2>2. Placed(policy, queues, table, unsolicited, stale \cup {e}, events)
    BY <2>1, Zenon DEF CsInv, Placed
  <2> QED BY <2>1, <2>2 DEF CsInv
<1> QED BY <1>1, <1>2, <1>3, <1>4, <1>5, <1>6, <1>7, <1>8, <1>9, Zenon DEF Next

\* The front of the order of eviction is the unsolicited and the stale queue.
LEMMA OrderFront ==
    ASSUME NEW q, NEW S, Holds(q, S), NEW k \in 0..Len(EvictionOrder(q))
    PROVE  LET order == EvictionOrder(q)
               front == Range(q["unsolicited"]) \cup Range(q["stale"])
               gone == {order[j] : j \in 1..k}
           IN gone \subseteq front \/ front \subseteq gone
<1> DEFINE a == q["unsolicited"]
           b == q["stale"]
           f == q["fifo"]
           l == q["lru"]
           c == f \o l
           ab == a \o b
           order == EvictionOrder(q)
           front == Range(a) \cup Range(b)
           gone == {order[j] : j \in 1..k}
<1>1. /\ a \in Seq(Entry) /\ b \in Seq(Entry)
      /\ f \in Seq(Entry) /\ l \in Seq(Entry)
      /\ Distinct(a) /\ Distinct(b) /\ Range(a) \cap Range(b) = {}
  BY DEF Holds, QueueTypes
<1>2. /\ ab \in Seq(Entry) /\ Range(ab) = front
  BY <1>1, ConcatDistinct
<1>3. order = (ab \o f) \o l
  BY DEF EvictionOrder
<1>4. c \in Seq(Entry)
  BY <1>1
<1>5. order = ab \o c
  <2> HIDE DEF a, b, f, l, ab, order
  <2>1. ab \in Seq(Entry) /\ f \in Seq(Entry) /\ l \in Seq(Entry)
    BY <1>1, <1>2
  <2>2. (ab \o f) \o l = ab \o (f \o l)
    BY <2>1, SMTT(30)
  <2> QED BY <1>3, <2>2
<1> HIDE DEF a, b, c, ab, order
<1>6. /\ Len(ab) \in Nat /\ DOMAIN ab = 1..Len(ab) /\ k \in Nat
      /\ \A j \in 1..Len(ab) : order[j] = ab[j]
  BY <1>2, <1>4, <1>5
<1>7. CASE k <= Len(ab)
  <2>1. \A j \in 1..k : j \in DOMAIN ab /\ order[j] = ab[j]
    BY <1>6, <1>7
  <2>2. gone \subseteq Range(ab)
    BY <2>1, Zenon DEF Range
  <2> QED BY <1>2, <2>2 DEF a, b, order
<1>8. CASE Len(ab) <= k
  <2>1. \A j \in DOMAIN ab : j \in 1..k /\ order[j] = ab[j]
    BY <1>6, <1>8
  <2>2. Range(ab) \subseteq gone
    BY <2>1 DEF Range
  <2> QED BY <1>2, <2>2, Zenon DEF a, b, order
<1> QED BY <1>6, <1>7, <1>8, SMTT(30)

\* priority_fifo evicts from the unsolicited and the stale queue as long as there
\* is something in them.
LEMMA EvictsFreshLast ==
    ASSUME NEW p, NEW q, NEW s, NEW u, NEW v, NEW x, Placed(p, q, s, u, v, x), p # "lru",
           NEW max \in Nat
    PROVE  LET gone == Evicted(q, Cardinality(s), max)
           IN gone \subseteq u \cup Range(q["stale"]) \/ (u \cup v) \ gone = {}
<1> DEFINE gone == Evicted(q, Cardinality(s), max)
           order == EvictionOrder(q)
           k == IF Cardinality(s) > max THEN Cardinality(s) - max ELSE 0
           front == Range(q["unsolicited"]) \cup Range(q["stale"])
<1>1. Holds(q, s)
  BY Zenon DEF Placed
<1>2. k \in 0..Len(order) /\ gone = {order[j] : j \in 1..k}
  BY <1>1, EvictedFacts, Zenon
<1> HIDE DEF k, gone
<1>3. gone \subseteq front \/ front \subseteq gone
  BY <1>1, <1>2, OrderFront, Zenon
<1>4. s = front \cup Range(q["fifo"]) \cup Range(q["lru"])
  BY <1>1 DEF Holds, QueueTypes
<1>5. u \subseteq front /\ v \subseteq front /\ Range(q["unsolicited"]) = u
  BY <1>4 DEF Placed
<1> HIDE DEF front
<1>6. gone \subseteq front => gone \subseteq u \cup Range(q["stale"])
  BY <1>5 DEF front
<1>7. front \subseteq gone => (u \cup v) \ gone = {}
  BY <1>5
<1> QED BY <1>3, <1>6, <1>7 DEF gone

\* Under priority FIFO a step that inserts or changes the limit evicts unsolicited and stale
\* entries only, or leaves none of them.
LEMMA FreshStep ==
    ASSUME CsInv, [Next]_vars,
           policy = "priority_fifo", limit' # limit \/ ~(table' \subseteq table)
    PROVE  \/ table \ table' \subseteq unsolicited \cup stale \cup Range(queues["stale"])
           \/ unsolicited' \cup stale' = {}
<1> DEFINE Goal == \/ table \ table' \subseteq unsolicited \cup stale \cup Range(queues["stale"])
                   \/ unsolicited' \cup stale' = {}
<1>0. limit \in Nat
  BY LimitAssumption, SMTT(30) DEF CsInv
<1>1. ASSUME NEW e \in Entry, NEW b \in BOOLEAN, Insert(e, b) PROVE Goal
  <2>1. PICK u \in BOOLEAN, gone \in SUBSET Entry :
             /\ table' = (table \cup {e}) \ gone
             /\ unsolicited' = Flagged(e, u) \ gone
             /\ stale' = (stale \ {e}) \ gone
             /\ queues' = Without(Attached(e, u), gone)
             /\ events' = Timed(e, u) \ gone
             /\ IF e \in table THEN gone = {}
                ELSE gone = Evicted(Attached(e, u), Cardinality(table \cup {e}), limit)
             /\ UNCHANGED <<policy, limit, shouldAdmit, shouldServe>>
    BY <1>1, InsertEffect, SMTT(30)
  <2>2. e \notin table
    BY <2>1
  <2> DEFINE q == Attached(e, u)
  <2>3. Placed(policy, q, table \cup {e}, Flagged(e, u), stale \ {e}, Timed(e, u))
    BY AttachedPlaced
  <2>4. gone = Evicted(q, Cardinality(table \cup {e}), limit)
    BY <2>1, <2>2, Zenon
  <2>5. Range(q["stale"]) \subseteq Range(queues["stale"])
    <3> DEFINE a == QueueFor(e, u)
    <3>1. a \in QueueTypes /\ a # "stale" /\ "stale" \in QueueTypes
      BY DEF QueueFor, UpdateStaleTime, QueueTypes
    <3>2. Holds(queues, table) /\ q = MovedTo(queues, e, a)
      BY DEF CsInv, Placed, Attached, MovedTo
    <3> HIDE DEF a, q
    <3>3. Moved(queues, table, e, a, q)
      BY <3>1, <3>2, MovedHolds, Zenon
    <3>4. Range(q["stale"]) = (Range(queues["stale"]) \ {e}) \cup {}
      BY <3>1, <3>3, Zenon DEF Moved
    <3> QED BY <3>4
  <2> HIDE DEF q
  <2>6. \/ gone \subseteq Flagged(e, u) \cup Range(q["stale"])
        \/ (Flagged(e, u) \cup (stale \ {e})) \ gone = {}
    BY <1>0, <2>3, <2>4, EvictsFreshLast, Zenon
  <2>7. CASE gone \subseteq Flagged(e, u) \cup Range(q["stale"])
    BY <2>1, <2>2, <2>5, <2>7, Zenon DEF Flagged
  <2>8. CASE (Flagged(e, u) \cup (stale \ {e})) \ gone = {}
    BY <2>1, <2>8
  <2> QED BY <2>6, <2>7, <2>8, Zenon
<1>2. ASSUME NEW max \in 0..MaxLimit, SetLimit(max) PROVE Goal
  <2> DEFINE G == Evicted(queues, Cardinality(table), max)
  <2>1. table' = table \ G /\ unsolicited' = unsolicited \ G /\ stale' = stale \ G
    BY <1>2 DEF SetLimit, TakeOut
  <2>2. max \in Nat /\ Placed(policy, queues, table, unsolicited, stale, events)
    BY LimitAssumption DEF CsInv
  <2>3. G \subseteq unsolicited \cup Range(queues["stale"]) \/ (unsolicited \cup stale) \ G = {}
    BY <2>2, EvictsFreshLast
  <2> HIDE DEF G
  <2> QED BY <2>1, <2>3, Zenon
<1>3. ASSUME table' \subseteq table, limit' = limit PROVE Goal
  BY <1>3, Zenon
<1>4. \/ \E e \in Entry, b \in BOOLEAN : Insert(e, b)
      \/ \E max \in 0..MaxLimit : SetLimit(max)
      \/ table' \subseteq table /\ limit' = limit
  BY Zenon DEF Next, vars, Erase, TakeOut, SetPolicy, EnableAdmit, EnableServe, Find,
         MoveToStaleQueue, BecomeStale
<1> QED BY <1>1, <1>2, <1>3, <1>4, Zenon
-----------------------------------------------------------------------------
(* Theorems *)

\* The invariant of the Content Store and its policies holds in every reachable state: after
\* any inserts, finds, timer expiries and changes of limit or policy.
THEOREM CsInductive == Spec => []CsInv
  BY InitCsInv, StepCsInv, PTL DEF Spec

\* Only entries of the table are marked unsolicited or stale: the beforeEvict
\* handler and erase leave nothing behind.
THEOREM CsTypeCorrect == Spec => []CsTypeOK
<1>1. CsInv => CsTypeOK
  BY InvFacts
<1> QED BY <1>1, CsInductive, PTL

\* Whatever is inserted, refreshed, erased, used, evicted or becomes stale, the
\* queues of the policy hold each entry of m_table once, in the queue of its state.
THEOREM QueuesAreExact == Spec => []QueuesHoldTable
<1>1. CsInv => QueuesHoldTable
  BY InvFacts
<1> QED BY <1>1, CsInductive, PTL

\* The moveStale event of priority_fifo is scheduled for the entries of the FIFO
\* queue and no others: moveToStaleQueue's assertion never fails.
THEOREM TimersAreOfFifo == Spec => []TimersOfFifo
<1>1. CsInv => TimersOfFifo
  BY InvFacts
<1> QED BY <1>1, CsInductive, PTL

\* evictEntries leaves the store within its limit, also after setLimit.
THEOREM StaysWithinLimit == Spec => []WithinLimit
<1>1. CsInv => WithinLimit
  BY InvFacts
<1> QED BY <1>1, CsInductive, PTL

\* Cs::find returns what it should for every Interest: the searches of findLeftmost
\* and findRightmost with iterators come to the best match of the whole table.
THEOREM FindsBest == Spec => []FindIsBest
<1>1. CsInv => FindIsBest
  BY InvFacts
<1> QED BY <1>1, CsInductive, PTL

\* priority_fifo's evictOne takes unsolicited and stale Data first.
THEOREM EvictsInPriority == Spec => FreshGoesLast
<1>1. CsInv /\ [Next]_vars =>
        [policy = "priority_fifo" /\ (limit' # limit \/ ~(table' \subseteq table)) =>
           \/ table \ table' \subseteq unsolicited \cup stale \cup Range(queues["stale"])
           \/ unsolicited' \cup stale' = {}]_vars
  BY FreshStep
<1> QED BY <1>1, CsInductive, PTL DEF Spec, FreshGoesLast
=============================================================================
