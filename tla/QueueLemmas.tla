---------------------------- MODULE QueueLemmas ----------------------------
(***************************************************************************)
(* Facts about queues, and about the operators with which the models look  *)
(* for an element of a queue and take it out: the first of a set of        *)
(* places, a queue without one of its elements, and how often something is *)
(* in a queue.                                                             *)
(***************************************************************************)
EXTENDS Queues, FiniteSetsExt, FiniteSetTheorems, TLAPS

\* A queue is a function from its places.
LEMMA LenProperties ==
    ASSUME NEW S, NEW q \in Seq(S)
    PROVE  Len(q) \in Nat /\ q \in [1 .. Len(q) -> S] /\ DOMAIN q = 1 .. Len(q)
OBVIOUS

LEMMA ElementOfSeq ==
    ASSUME NEW S, NEW q \in Seq(S), NEW k \in 1 .. Len(q) PROVE q[k] \in S
OBVIOUS

\* The empty queue, and the others.
LEMMA EmptySeq ==
    ASSUME NEW S
    PROVE  <<>> \in Seq(S) /\ Len(<<>>) = 0 /\ \A q \in Seq(S) : q # <<>> => Len(q) \in Nat \ {0}
OBVIOUS

\* Queues that hold the same at every place are the same.
LEMMA SeqEqual ==
    ASSUME NEW S, NEW p \in Seq(S), NEW q \in Seq(S), Len(p) = Len(q),
           \A k \in 1 .. Len(p) : p[k] = q[k]
    PROVE  p = q
OBVIOUS

\* What an element added at the end, or another queue, makes of a queue.
LEMMA AppendProperties ==
    ASSUME NEW S, NEW q \in Seq(S), NEW e \in S
    PROVE  /\ Append(q, e) \in Seq(S) /\ Len(Append(q, e)) = Len(q) + 1
           /\ \A k \in 1 .. Len(q) : Append(q, e)[k] = q[k]
           /\ Append(q, e)[Len(q) + 1] = e
OBVIOUS

LEMMA ConcatProperties ==
    ASSUME NEW S, NEW p \in Seq(S), NEW q \in Seq(S)
    PROVE  /\ p \o q \in Seq(S) /\ Len(p \o q) = Len(p) + Len(q)
           /\ \A k \in 1 .. Len(p) + Len(q) :
                 (p \o q)[k] = IF k <= Len(p) THEN p[k] ELSE q[k - Len(p)]
OBVIOUS

LEMMA AppendIsConcat ==
    ASSUME NEW S, NEW q \in Seq(S), NEW e \in S PROVE Append(q, e) = q \o <<e>>
OBVIOUS

LEMMA ConcatEmptySeq ==
    ASSUME NEW S, NEW q \in Seq(S) PROVE q \o <<>> = q
OBVIOUS

\* What is left without the first element.
LEMMA HeadTailProperties ==
    ASSUME NEW S, NEW q \in Seq(S), q # <<>>
    PROVE  /\ Head(q) \in S /\ Tail(q) \in Seq(S) /\ Len(Tail(q)) = Len(q) - 1
           /\ \A k \in 1 .. Len(Tail(q)) : Tail(q)[k] = q[k + 1]
OBVIOUS

\* A function from 1 .. n is a queue.
LEMMA SeqDef == \A S, n : n \in Nat => [1 .. n -> S] \subseteq Seq(S)
OBVIOUS

\* Min, by which the model finds the first of several as the source's loops
\* do, is in its set and the least there.
LEMMA MinProperties ==
    ASSUME NEW S \in SUBSET Nat, S # {}
    PROVE  Min(S) \in S /\ \A y \in S : Min(S) <= y
<1> DEFINE T == {0 .. s : s \in S}
           R == StrictSubsetOrdering(Nat)
<1>1. T \subseteq FiniteSubsetsOf(Nat)
  <2> SUFFICES ASSUME NEW s \in S PROVE 0 .. s \in FiniteSubsetsOf(Nat)
    OBVIOUS
  <2>1. IsFiniteSet(0 .. s)
    BY FS_Interval
  <2>2. 0 .. s \in SUBSET Nat
    OBVIOUS
  <2> QED
    BY <2>1, <2>2 DEF FiniteSubsetsOf
<1>2. T # {}
  BY Zenon
<1>3. PICK x \in T : \A y \in T : ~ (<<y, x>> \in R)
  <2>1. IsWellFoundedOn(R, FiniteSubsetsOf(Nat))
    BY FS_StrictSubsetOrderingWellFounded
  <2> HIDE DEF T, R
  <2> QED
    BY <1>1, <1>2, <2>1, WFMin
<1>4. PICK m \in S : x = 0 .. m
  OBVIOUS
<1>5. ASSUME NEW y \in S PROVE m <= y
  <2> SUFFICES ASSUME y < m PROVE FALSE
    OBVIOUS
  <2>1. /\ 0 .. y \in SUBSET Nat /\ 0 .. m \in SUBSET Nat
        /\ 0 .. y \subseteq 0 .. m /\ m \in 0 .. m /\ m \notin 0 .. y
    OBVIOUS
  <2>2. <<0 .. y, 0 .. m>> \in R
    BY <2>1 DEF StrictSubsetOrdering
  <2> QED
    BY <1>3, <1>4, <2>2, Zenon
<1> HIDE DEF T, R
<1> QED
  BY <1>5, Zenon DEF Min

\* What is left when an element is taken out of a queue.
LEMMA EraseProperties ==
    ASSUME NEW S, NEW s \in Seq(S), NEW i \in 1 .. Len(s)
    PROVE  /\ Erase(s, i) \in Seq(S)
           /\ Len(Erase(s, i)) = Len(s) - 1
           /\ \A j \in 1 .. Len(s) - 1 :
                Erase(s, i)[j] = IF j < i THEN s[j] ELSE s[j + 1]
<1> DEFINE u == SubSeq(s, 1, i - 1)
           v == SubSeq(s, i + 1, Len(s))
<1>1. Len(s) \in Nat /\ i \in Nat
  OBVIOUS
<1>2. /\ u \in Seq(S) /\ Len(u) = i - 1
      /\ \A j \in 1 .. i - 1 : u[j] = s[j]
  OBVIOUS
<1>3. /\ v \in Seq(S) /\ Len(v) = Len(s) - i
      /\ \A j \in 1 .. Len(s) - i : v[j] = s[i + j]
  OBVIOUS
<1>4. Erase(s, i) = u \o v
  BY DEF Erase
<1> HIDE DEF u, v
<1>5. /\ u \o v \in Seq(S)
      /\ Len(u \o v) = Len(u) + Len(v)
      /\ \A j \in 1 .. Len(u) + Len(v) : (u \o v)[j] = IF j <= Len(u) THEN u[j] ELSE v[j - Len(u)]
  BY <1>2, <1>3, ConcatProperties, Zenon
<1> QED
  BY <1>1, <1>2, <1>3, <1>4, <1>5

-----------------------------------------------------------------------------
(* Induction over the natural numbers, and functions defined by it. *)

\* A set that holds 0, and with every number the next one, holds them all.
LEMMA NatSetInduction ==
    ASSUME NEW S, 0 \in S, \A n \in Nat : n \in S => n + 1 \in S
    PROVE  Nat \subseteq S
<1> DEFINE T == Nat \ S
<1> SUFFICES ASSUME T # {} PROVE FALSE
  OBVIOUS
<1>1. T \in SUBSET Nat
  OBVIOUS
<1>2. PICK m \in T : \A y \in T : m <= y
  <2> HIDE DEF T
  <2> QED
    BY <1>1, MinProperties
<1>3. m \in Nat /\ m \notin S /\ m # 0
  OBVIOUS
<1>4. m - 1 \in Nat /\ m - 1 \notin T
  BY <1>2, <1>3
<1> QED
  BY <1>3, <1>4

\* g goes from base to g[m] by m applications of H.
Iterates(g, m, V, base, H) ==
    /\ g \in [0 .. m -> V]
    /\ \A k \in 0 .. m : g[k] = IF k = 0 THEN base ELSE H[<<k, g[k - 1]>>]

\* There is a function that a recursion over 0 .. n defines.
LEMMA RecursionExists ==
    ASSUME NEW V, NEW base \in V, NEW n \in Nat, NEW H \in [(1 .. n) \X V -> V]
    PROVE  \E g : Iterates(g, n, V, base, H)
<1> DEFINE Solves(g, m) == Iterates(g, m, V, base, H)
           S == {m \in Nat : m <= n => \E g : Solves(g, m)}
<1>1. 0 \in S
  <2>1. Solves([k \in 0 .. 0 |-> base], 0)
    BY DEF Iterates
  <2> QED
    BY <2>1
<1>2. ASSUME NEW m \in Nat, m \in S PROVE m + 1 \in S
  <2> SUFFICES ASSUME m + 1 <= n PROVE \E g : Solves(g, m + 1)
    OBVIOUS
  <2>1. PICK g : Solves(g, m)
    BY <1>2
  <2> DEFINE v == H[<<m + 1, g[m]>>]
             h == [k \in 0 .. m + 1 |-> IF k = m + 1 THEN v ELSE g[k]]
  <2>2. g[m] \in V
    BY <2>1 DEF Iterates
  <2>3. v \in V
    BY <2>2
  <2>4. h \in [0 .. m + 1 -> V]
    BY <2>1, <2>3 DEF Iterates
  <2>5. ASSUME NEW k \in 0 .. m + 1
        PROVE  h[k] = IF k = 0 THEN base ELSE H[<<k, h[k - 1]>>]
    <3>1. CASE k = m + 1
      <4>1. h[k] = v /\ h[k - 1] = g[m] /\ k # 0
        BY <3>1
      <4>2. v = H[<<k, h[k - 1]>>]
        BY <3>1, <4>1
      <4> HIDE DEF h, v
      <4> QED
        BY <4>1, <4>2
    <3>2. CASE k # m + 1
      <4>1. k \in 0 .. m /\ h[k] = g[k]
        BY <3>2
      <4>2. k # 0 => h[k - 1] = g[k - 1]
        BY <4>1
      <4> QED
        BY <2>1, <4>1, <4>2 DEF Iterates
    <3> QED
      BY <3>1, <3>2
  <2>6. Solves(h, m + 1)
    <3> HIDE DEF h
    <3> QED
      BY <2>4, <2>5 DEF Iterates
  <2> QED
    BY <2>6
<1>3. n \in S
  <2> HIDE DEF S
  <2>1. Nat \subseteq S
    BY <1>1, <1>2, NatSetInduction
  <2> QED
    BY <2>1
<1>4. PICK g : Solves(g, n)
  BY <1>3
<1> QED
  BY <1>4

-----------------------------------------------------------------------------
(* How many elements of a queue are in a set. *)

Places(q, S) == {k \in DOMAIN q : q[k] \in S}

\* They are finitely many.
LEMMA PlacesFinite ==
    ASSUME NEW T, NEW q \in Seq(T), NEW S
    PROVE  IsFiniteSet(Places(q, S)) /\ Cardinality(Places(q, S)) \in Nat
<1>1. Len(q) \in Nat /\ DOMAIN q = 1 .. Len(q)
  OBVIOUS
<1>2. IsFiniteSet(1 .. Len(q))
  BY <1>1, FS_Interval
<1>3. Places(q, S) \in SUBSET (1 .. Len(q))
  BY <1>1 DEF Places
<1>4. IsFiniteSet(Places(q, S))
  BY <1>2, <1>3, FS_Subset
<1> QED
  BY <1>4, FS_CardinalityType

\* Two queues one after the other.
LEMMA PlacesConcat ==
    ASSUME NEW T, NEW p \in Seq(T), NEW q \in Seq(T), NEW S
    PROVE  Cardinality(Places(p \o q, S)) = Cardinality(Places(p, S)) + Cardinality(Places(q, S))
<1> DEFINE A == Places(p, S)
           B == Places(q, S)
           n == Len(p)
           f == [k \in B |-> k + n]
           C == {k + n : k \in B}
<1>1. /\ n \in Nat /\ Len(q) \in Nat /\ DOMAIN p = 1 .. n /\ DOMAIN q = 1 .. Len(q)
      /\ DOMAIN (p \o q) = 1 .. n + Len(q)
      /\ \A k \in 1 .. n : (p \o q)[k] = p[k]
      /\ \A k \in 1 .. Len(q) : (p \o q)[k + n] = q[k]
  OBVIOUS
<1>2. /\ IsFiniteSet(A) /\ Cardinality(A) \in Nat
      /\ IsFiniteSet(B) /\ Cardinality(B) \in Nat
  BY PlacesFinite
<1>3. A \subseteq 1 .. n /\ B \subseteq 1 .. Len(q)
  BY <1>1 DEF Places
<1>4. Places(p \o q, S) = A \cup C
  <2>1. ASSUME NEW k \in Places(p \o q, S) PROVE k \in A \cup C
    <3>1. k \in 1 .. n + Len(q) /\ (p \o q)[k] \in S
      BY <1>1 DEF Places
    <3>2. CASE k <= n
      BY <1>1, <3>1, <3>2 DEF Places
    <3>3. CASE k > n
      <4>1. k - n \in 1 .. Len(q) /\ k = (k - n) + n
        BY <1>1, <3>1, <3>3
      <4>2. q[k - n] \in S
        BY <1>1, <3>1, <4>1
      <4>3. k - n \in B
        BY <1>1, <4>1, <4>2 DEF Places
      <4> QED
        BY <4>1, <4>3
    <3> QED
      BY <1>1, <3>1, <3>2, <3>3
  <2>2. ASSUME NEW k \in A PROVE k \in Places(p \o q, S)
    BY <1>1, <2>2 DEF Places
  <2>3. ASSUME NEW k \in B PROVE k + n \in Places(p \o q, S)
    <3>1. k \in 1 .. Len(q) /\ q[k] \in S
      BY <1>1 DEF Places
    <3>2. k + n \in 1 .. n + Len(q) /\ (p \o q)[k + n] \in S
      BY <1>1, <3>1
    <3> QED
      BY <1>1, <3>2 DEF Places
  <2> QED
    BY <2>1, <2>2, <2>3
<1>5. A \cap C = {}
  BY <1>1, <1>3
<1>6. f \in Bijection(B, C)
  <2> HIDE DEF A, B
  <2>1. B \subseteq Int /\ n \in Int
    BY <1>1, <1>3
  <2>2. f \in [B -> C] /\ \A t \in C : \E s \in B : f[s] = t
    OBVIOUS
  <2>3. \A a, b \in B : f[a] = f[b] => a = b
    BY <2>1
  <2> QED
    BY <2>2, <2>3 DEF Bijection, Injection, IsInjective, Surjection
<1>7. IsFiniteSet(C) /\ Cardinality(C) = Cardinality(B)
  <2> HIDE DEF f, B, C
  <2> QED
    BY <1>2, <1>6, FS_Bijection DEF ExistsBijection
<1> HIDE DEF A, B, C
<1>8. Cardinality(A \cap C) = 0
  BY <1>5, FS_EmptySet
<1>9. Cardinality(A \cup C) = Cardinality(A) + Cardinality(C) - Cardinality(A \cap C)
  BY <1>2, <1>7, FS_Union
<1> QED
  BY <1>2, <1>4, <1>7, <1>8, <1>9 DEF A, B

\* A queue of one element.
LEMMA PlacesOne ==
    ASSUME NEW T, NEW e \in T, NEW S
    PROVE  Cardinality(Places(<<e>>, S)) = IF e \in S THEN 1 ELSE 0
<1>1. DOMAIN <<e>> = {1} /\ <<e>>[1] = e
  OBVIOUS
<1>2. CASE e \in S
  <2>1. Places(<<e>>, S) = {1}
    BY <1>1, <1>2 DEF Places
  <2> QED
    BY <1>2, <2>1, FS_Singleton
<1>3. CASE e \notin S
  <2>1. Places(<<e>>, S) = {}
    BY <1>1, <1>3 DEF Places
  <2> QED
    BY <1>3, <2>1, FS_EmptySet
<1> QED
  BY <1>2, <1>3

\* A queue is what comes before a place and what comes after it.
LEMMA SplitAt ==
    ASSUME NEW T, NEW q \in Seq(T), NEW k \in 0 .. Len(q)
    PROVE  /\ SubSeq(q, 1, k) \in Seq(T) /\ SubSeq(q, k + 1, Len(q)) \in Seq(T)
           /\ Len(SubSeq(q, 1, k)) = k /\ Len(SubSeq(q, k + 1, Len(q))) = Len(q) - k
           /\ \A j \in 1 .. k : SubSeq(q, 1, k)[j] = q[j]
           /\ \A j \in 1 .. Len(q) - k : SubSeq(q, k + 1, Len(q))[j] = q[k + j]
           /\ q = SubSeq(q, 1, k) \o SubSeq(q, k + 1, Len(q))
<1> DEFINE u == SubSeq(q, 1, k)
           v == SubSeq(q, k + 1, Len(q))
<1>1. Len(q) \in Nat /\ k \in Nat /\ k <= Len(q)
  OBVIOUS
<1>2. u \in Seq(T) /\ Len(u) = k /\ \A j \in 1 .. k : u[j] = q[j]
  BY <1>1
<1>3. v \in Seq(T) /\ Len(v) = Len(q) - k /\ \A j \in 1 .. Len(q) - k : v[j] = q[k + j]
  BY <1>1
<1>4. q = u \o v
  <2> HIDE DEF u, v
  <2> DEFINE w == u \o v
  <2>1. /\ w \in Seq(T) /\ Len(w) = Len(u) + Len(v)
        /\ \A j \in 1 .. Len(u) + Len(v) : w[j] = IF j <= Len(u) THEN u[j] ELSE v[j - Len(u)]
    BY <1>2, <1>3, ConcatProperties, Zenon
  <2> HIDE DEF w
  <2>2. \A j \in 1 .. Len(q) : w[j] = q[j]
    <3> SUFFICES ASSUME NEW j \in 1 .. Len(q) PROVE w[j] = q[j]
      OBVIOUS
    <3>1. CASE j <= k
      BY <1>1, <1>2, <1>3, <2>1, <3>1
    <3>2. CASE j > k
      <4>1. j - k \in 1 .. Len(q) - k /\ k + (j - k) = j
        BY <1>1, <3>2
      <4>2. w[j] = v[j - k]
        BY <1>1, <1>2, <1>3, <2>1, <3>2
      <4> QED
        BY <1>3, <4>1, <4>2
    <3> QED
      BY <1>1, <3>1, <3>2
  <2>3. q = w
    BY <1>1, <1>2, <1>3, <2>1, <2>2, SeqEqual
  <2> QED
    BY <2>3 DEF w
<1> QED
  BY <1>2, <1>3, <1>4

\* How often an element is in a queue.
LEMMA OccurrencesPlaces ==
    ASSUME NEW q, NEW x PROVE Occurrences(q, x) = Cardinality(Places(q, {x}))
<1>1. Places(q, {x}) = {k \in DOMAIN q : q[k] = x}
  BY DEF Places
<1> QED
  BY <1>1 DEF Occurrences

LEMMA OccurrencesNat ==
    ASSUME NEW T, NEW q \in Seq(T), NEW x PROVE Occurrences(q, x) \in Nat
BY OccurrencesPlaces, PlacesFinite

LEMMA OccurrencesNone ==
    ASSUME NEW x PROVE Occurrences(<<>>, x) = 0
<1>1. Places(<<>>, {x}) = {}
  BY DEF Places
<1> QED
  BY <1>1, OccurrencesPlaces, FS_EmptySet

LEMMA OccurrencesConcat ==
    ASSUME NEW T, NEW p \in Seq(T), NEW q \in Seq(T), NEW x
    PROVE  Occurrences(p \o q, x) = Occurrences(p, x) + Occurrences(q, x)
BY OccurrencesPlaces, PlacesConcat

LEMMA OccurrencesAppend ==
    ASSUME NEW T, NEW q \in Seq(T), NEW e \in T, NEW x
    PROVE  Occurrences(Append(q, e), x) = Occurrences(q, x) + IF e = x THEN 1 ELSE 0
<1>1. Append(q, e) = q \o <<e>> /\ <<e>> \in Seq(T)
  OBVIOUS
<1>2. Occurrences(<<e>>, x) = IF e = x THEN 1 ELSE 0
  BY OccurrencesPlaces, PlacesOne
<1>3. Occurrences(q \o <<e>>, x) = Occurrences(q, x) + Occurrences(<<e>>, x)
  BY <1>1, OccurrencesConcat
<1> QED
  BY <1>1, <1>2, <1>3

LEMMA OccurrencesSplit ==
    ASSUME NEW T, NEW q \in Seq(T), NEW k \in 0 .. Len(q), NEW x
    PROVE  Occurrences(q, x) = Occurrences(SubSeq(q, 1, k), x)
                                   + Occurrences(SubSeq(q, k + 1, Len(q)), x)
<1> DEFINE u == SubSeq(q, 1, k)
           v == SubSeq(q, k + 1, Len(q))
<1>1. u \in Seq(T) /\ v \in Seq(T) /\ q = u \o v
  BY SplitAt
<1> HIDE DEF u, v
<1>2. Occurrences(u \o v, x) = Occurrences(u, x) + Occurrences(v, x)
  BY <1>1, OccurrencesConcat
<1> QED
  BY <1>1, <1>2 DEF u, v

\* An element is in a queue if it occurs there ...
LEMMA OccurrencesPositive ==
    ASSUME NEW T, NEW q \in Seq(T), NEW x
    PROVE  x \in Range(q) <=> Occurrences(q, x) > 0
<1> DEFINE S == Places(q, {x})
<1>1. IsFiniteSet(S) /\ Cardinality(S) \in Nat
  BY PlacesFinite
<1>2. Cardinality(S) = 0 <=> S = {}
  BY <1>1, FS_EmptySet
<1>3. x \in Range(q) <=> S # {}
  BY DEF Range, Places
<1>4. Occurrences(q, x) = Cardinality(S)
  BY OccurrencesPlaces
<1> HIDE DEF S
<1> QED
  BY <1>1, <1>2, <1>3, <1>4

\* ... and in one place only if it does not occur twice.
LEMMA OccurrencesOnce ==
    ASSUME NEW T, NEW q \in Seq(T), NEW j \in DOMAIN q, NEW k \in DOMAIN q, q[j] = q[k],
           Occurrences(q, q[k]) <= 1
    PROVE  j = k
<1> DEFINE S == Places(q, {q[k]})
<1>1. IsFiniteSet(S) /\ Cardinality(S) \in Nat
  BY PlacesFinite
<1>2. j \in S /\ k \in S
  BY DEF Places
<1>3. Cardinality(S) <= 1
  BY OccurrencesPlaces
<1> HIDE DEF S
<1>4. Cardinality(S \ {k}) = Cardinality(S) - 1 /\ IsFiniteSet(S \ {k})
  BY <1>1, <1>2, FS_RemoveElement
<1>5. Cardinality(S \ {k}) \in Nat
  BY <1>4, FS_CardinalityType
<1>6. Cardinality(S \ {k}) = 0
  BY <1>1, <1>3, <1>4, <1>5
<1>7. S \ {k} = {}
  BY <1>4, <1>6, FS_EmptySet
<1> QED
  BY <1>2, <1>7

=============================================================================
