---------------------------- MODULE FeatureProofs ---------------------------
(***************************************************************************)
(* What the cache, the memory, the feature reader and the SIMD units do to *)
(* their sets and queues.                                                  *)
(***************************************************************************)
EXTENDS Simd, QueueLemmas

-----------------------------------------------------------------------------
(* The cache. *)

\* Caches the program can have: every line is in its own set.
Caches == {c \in [0 .. cache_set - 1 -> Seq(Lines)] :
              \A s \in 0 .. cache_set - 1 : \A k \in DOMAIN c[s] : FindSet(c[s][k]) = s}

\* The lines a cache holds.
Held(c) == UNION {Range(c[s]) : s \in 0 .. cache_set - 1}

\* Every set is within its ways and holds no line twice.
Orderly(c) == \A s \in 0 .. cache_set - 1 : Len(c[s]) <= cache_way /\ IsInjective(c[s])

\* An element taken to the front of a queue.
LEMMA MovedToFront ==
    ASSUME NEW T, NEW q \in Seq(T), NEW m \in 1 .. Len(q)
    PROVE  LET r == <<q[m]>> \o Erase(q, m)
           IN  /\ r \in Seq(T) /\ Len(r) = Len(q) /\ Range(r) = Range(q)
               /\ IsInjective(q) => IsInjective(r)
<1> DEFINE e == Erase(q, m)
           r == <<q[m]>> \o e
           old(j) == IF j = 1 THEN m ELSE IF j - 1 < m THEN j - 1 ELSE j
<1>1. Len(q) \in Nat /\ DOMAIN q = 1 .. Len(q) /\ q[m] \in T /\ m \in Nat
  OBVIOUS
<1>2. /\ e \in Seq(T) /\ Len(e) = Len(q) - 1
      /\ \A j \in 1 .. Len(q) - 1 : e[j] = IF j < m THEN q[j] ELSE q[j + 1]
  BY EraseProperties, Zenon
<1> HIDE DEF e
<1>3. r \in Seq(T) /\ Len(r) = Len(q) /\ r[1] = q[m] /\ DOMAIN r = 1 .. Len(q)
  <2>1. r \in Seq(T) /\ r[1] = q[m]
    BY <1>1, <1>2
  <2>2. Len(r) = Len(<<q[m]>>) + Len(e)
    BY <1>1, <1>2, ConcatProperties
  <2>3. Len(<<q[m]>>) = 1
    BY Zenon
  <2> HIDE DEF r
  <2> QED
    BY <1>1, <1>2, <2>1, <2>2, <2>3
<1>4. ASSUME NEW j \in 2 .. Len(q) PROVE r[j] = e[j - 1] /\ j - 1 \in 1 .. Len(q) - 1
  BY <1>1, <1>2
<1> HIDE DEF r
<1>5. ASSUME NEW j \in 1 .. Len(q) PROVE r[j] = q[old(j)] /\ old(j) \in 1 .. Len(q)
  <2>1. CASE j = 1
    BY <1>1, <1>3, <2>1, Zenon
  <2>2. CASE j # 1
    <3>1. j \in 2 .. Len(q) /\ (j - 1) + 1 = j
      BY <1>1, <2>2
    <3>2. r[j] = IF j - 1 < m THEN q[j - 1] ELSE q[(j - 1) + 1]
      BY <1>2, <1>4, <3>1, Zenon
    <3> QED
      BY <1>1, <2>2, <3>1, <3>2
  <2> QED
    BY <2>1, <2>2, Zenon
<1>6. ASSUME NEW k \in 1 .. Len(q)
      PROVE  \E j \in 1 .. Len(q) : old(j) = k
  <2>1. CASE k = m
    BY <1>1, <2>1
  <2>2. CASE k < m
    <3>1. k + 1 \in 1 .. Len(q) /\ old(k + 1) = k
      BY <1>1, <2>2
    <3> QED
      BY <3>1, Zenon
  <2>3. CASE k > m
    <3>1. old(k) = k
      BY <1>1, <2>3
    <3> QED
      BY <3>1, Zenon
  <2> QED
    BY <1>1, <2>1, <2>2, <2>3
<1>7. ASSUME NEW j \in 1 .. Len(q), NEW k \in 1 .. Len(q), old(j) = old(k) PROVE j = k
  BY <1>1, <1>7
<1> HIDE DEF old
<1>8. Range(r) = Range(q)
  <2>1. ASSUME NEW x \in Range(r) PROVE x \in Range(q)
    <3>1. PICK j \in 1 .. Len(q) : x = r[j]
      BY <1>3, Zenon DEF Range
    <3> QED
      BY <1>1, <1>5, <3>1, Zenon DEF Range
  <2>2. ASSUME NEW x \in Range(q) PROVE x \in Range(r)
    <3>1. PICK k \in 1 .. Len(q) : x = q[k]
      BY <1>1, Zenon DEF Range
    <3>2. PICK j \in 1 .. Len(q) : old(j) = k
      BY <1>6, Zenon
    <3> QED
      BY <1>3, <1>5, <3>1, <3>2, Zenon DEF Range
  <2> QED
    BY <2>1, <2>2, Zenon
<1>9. ASSUME IsInjective(q) PROVE IsInjective(r)
  BY <1>1, <1>3, <1>5, <1>7, <1>9 DEF IsInjective
<1> QED
  BY <1>3, <1>8, <1>9, Zenon DEF r, e

\* An element put in front of a queue.
LEMMA PutInFront ==
    ASSUME NEW T, NEW q \in Seq(T), NEW a \in T
    PROVE  LET r == <<a>> \o q
           IN  /\ r \in Seq(T) /\ Len(r) = Len(q) + 1 /\ Range(r) = Range(q) \cup {a}
               /\ IsInjective(q) /\ a \notin Range(q) => IsInjective(r)
<1> DEFINE r == <<a>> \o q
<1>1. Len(q) \in Nat /\ DOMAIN q = 1 .. Len(q)
  OBVIOUS
<1>2. r \in Seq(T) /\ Len(r) = Len(q) + 1 /\ r[1] = a /\ DOMAIN r = 1 .. Len(q) + 1
  BY <1>1
<1>3. ASSUME NEW j \in 2 .. Len(q) + 1 PROVE r[j] = q[j - 1] /\ j - 1 \in 1 .. Len(q)
  BY <1>1
<1> HIDE DEF r
<1>4. ASSUME NEW k \in 1 .. Len(q) PROVE r[k + 1] = q[k]
  <2>1. k + 1 \in 2 .. Len(q) + 1 /\ (k + 1) - 1 = k
    BY <1>1
  <2> QED
    BY <1>3, <2>1, Zenon
<1>5. 1 .. Len(q) + 1 = {1} \cup (2 .. Len(q) + 1)
  BY <1>1
<1>6. Range(r) = Range(q) \cup {a}
  <2>1. ASSUME NEW x \in Range(r) PROVE x \in Range(q) \cup {a}
    <3>1. PICK j \in 1 .. Len(q) + 1 : x = r[j]
      BY <1>2, Zenon DEF Range
    <3>2. CASE j = 1
      BY <1>2, <3>1, <3>2, Zenon
    <3>3. CASE j \in 2 .. Len(q) + 1
      BY <1>1, <1>3, <3>1, <3>3, Zenon DEF Range
    <3> QED
      BY <1>5, <3>2, <3>3, Zenon
  <2>2. ASSUME NEW k \in 1 .. Len(q) PROVE q[k] \in Range(r)
    <3>1. k + 1 \in 1 .. Len(q) + 1
      BY <1>1
    <3> QED
      BY <1>2, <1>4, <3>1, Zenon DEF Range
  <2>3. a \in Range(r)
    BY <1>1, <1>2 DEF Range
  <2> QED
    BY <1>1, <2>1, <2>2, <2>3, Zenon DEF Range
<1>7. ASSUME IsInjective(q), a \notin Range(q) PROVE IsInjective(r)
  <2>1. ASSUME NEW j \in 1 .. Len(q) + 1, NEW k \in 1 .. Len(q) + 1, r[j] = r[k], j < k
        PROVE  FALSE
    <3>1. k \in 2 .. Len(q) + 1 /\ r[k] = q[k - 1] /\ k - 1 \in 1 .. Len(q)
      BY <1>1, <1>3, <2>1
    <3>2. CASE j = 1
      BY <1>1, <1>2, <1>7, <2>1, <3>1, <3>2, Zenon DEF Range
    <3>3. CASE j # 1
      <4>1. j \in 2 .. Len(q) + 1 /\ r[j] = q[j - 1] /\ j - 1 \in 1 .. Len(q)
        BY <1>1, <1>3, <3>3
      <4>2. j - 1 = k - 1
        BY <1>1, <1>7, <2>1, <3>1, <4>1, Zenon DEF IsInjective
      <4> QED
        BY <1>1, <2>1, <4>2
    <3> QED
      BY <3>2, <3>3, Zenon
  <2> QED
    BY <1>1, <1>2, <2>1 DEF IsInjective
<1> QED
  BY <1>2, <1>6, <1>7, Zenon DEF r

\* Every line has a set.
LEMMA FindSetRange ==
    ASSUME NEW a \in Lines
    PROVE  a \in Nat /\ a > 0 /\ FindSet(a) \in 0 .. cache_set - 1
<1>1. xw_ele_addr_start \in Nat /\ axw_addr_start \in Nat
  BY LayoutAssumption, Zenon
<1>2. xw_ele_addr_start > 0
  BY FeatureAssumption, Zenon
<1>3. a \in Nat /\ a >= xw_ele_addr_start
  BY <1>1 DEF Lines
<1> DEFINE n == a - xw_ele_addr_start
<1>4. n \in Nat
  BY <1>1, <1>3
<1> HIDE DEF n
<1>5. n % cache_set \in 0 .. cache_set - 1
  BY <1>4, CacheAssumption
<1> QED
  BY <1>1, <1>2, <1>3, <1>5 DEF FindSet, n

\* Access finds a line wherever it is (cache.cc:43-50).
LEMMA HitIffHeld ==
    ASSUME NEW c \in Caches, NEW a \in Lines
    PROVE  Hit(c, a) <=> a \in Held(c)
<1>1. FindSet(a) \in 0 .. cache_set - 1
  BY FindSetRange, Zenon
<1>2. ASSUME Hit(c, a) PROVE a \in Held(c)
  BY <1>1, <1>2 DEF Hit, Held, Range
<1>3. ASSUME a \in Held(c) PROVE Hit(c, a)
  <2>1. PICK s \in 0 .. cache_set - 1 : a \in Range(c[s])
    BY <1>3, Zenon DEF Held
  <2>2. PICK k \in DOMAIN c[s] : c[s][k] = a
    BY <2>1, Zenon DEF Range
  <2>3. FindSet(a) = s
    BY <2>2, Zenon DEF Caches
  <2> QED
    BY <2>2, <2>3, Zenon DEF Hit
<1> QED
  BY <1>2, <1>3, Zenon

\* A cache of which one set is replaced.
LEMMA SetReplaced ==
    ASSUME NEW c \in Caches, NEW s \in 0 .. cache_set - 1, NEW r \in Seq(Lines),
           \A x \in Range(r) : FindSet(x) = s,
           NEW d \in [0 .. cache_set - 1 -> Seq(Lines)], d[s] = r,
           \A u \in 0 .. cache_set - 1 : u # s => d[u] = c[u]
    PROVE  /\ d \in Caches
           /\ Orderly(c) /\ Len(r) <= cache_way /\ IsInjective(r) => Orderly(d)
<1>2. d[s] = r /\ \A u \in 0 .. cache_set - 1 : u # s => d[u] = c[u]
  BY Zenon
<1>3. ASSUME NEW u \in 0 .. cache_set - 1, NEW k \in DOMAIN d[u] PROVE FindSet(d[u][k]) = u
  <2>1. CASE u = s
    BY <1>2, <1>3, <2>1, Zenon DEF Range
  <2>2. CASE u # s
    BY <1>2, <1>3, <2>2, Zenon DEF Caches
  <2> QED
    BY <2>1, <2>2, Zenon
<1>4. d \in Caches
  BY <1>3, Zenon DEF Caches
<1>5. ASSUME Orderly(c), Len(r) <= cache_way, IsInjective(r) PROVE Orderly(d)
  <2> SUFFICES ASSUME NEW u \in 0 .. cache_set - 1
               PROVE  Len(d[u]) <= cache_way /\ IsInjective(d[u])
    BY Zenon DEF Orderly
  <2>1. CASE u = s
    BY <1>2, <1>5, <2>1, Zenon
  <2>2. CASE u # s
    BY <1>2, <1>5, <2>2, Zenon DEF Orderly
  <2> QED
    BY <2>1, <2>2, Zenon
<1> QED
  BY <1>4, <1>5, Zenon

\* The lines of a set of a cache.
LEMMA SetLines ==
    ASSUME NEW c \in Caches, NEW s \in 0 .. cache_set - 1
    PROVE  /\ c[s] \in Seq(Lines) /\ Len(c[s]) \in Nat
           /\ \A x \in Range(c[s]) : x \in Lines /\ FindSet(x) = s
<1>1. c[s] \in Seq(Lines)
  BY Zenon DEF Caches
<1> QED
  BY <1>1 DEF Caches, Range

\* Access (cache.cc:25-40) moves a line within its set, and loses none.
LEMMA AccessedKeeps ==
    ASSUME NEW c \in Caches, NEW a \in Lines
    PROVE  /\ Accessed(c, a) \in Caches
           /\ Held(Accessed(c, a)) = Held(c)
           /\ Orderly(c) => Orderly(Accessed(c, a))
<1> DEFINE s == FindSet(a)
           q == c[s]
           W == {w \in DOMAIN q : q[w] = a}
           m == Min(W)
           r == <<q[m]>> \o Erase(q, m)
           d == Accessed(c, a)
<1>1. CASE ~Hit(c, a)
  BY <1>1, Zenon DEF Accessed
<1>2. CASE Hit(c, a)
  <2>1. s \in 0 .. cache_set - 1 /\ q \in Seq(Lines) /\ \A x \in Range(q) : FindSet(x) = s
    BY FindSetRange, SetLines, Zenon
  <2>2. W \in SUBSET Nat /\ W # {}
    BY <1>2, <2>1 DEF Hit
  <2>3. m \in DOMAIN q /\ q[m] = a
    <3> HIDE DEF W
    <3>1. m \in W
      BY <2>2, MinProperties, Zenon
    <3> QED
      BY <3>1, Zenon DEF W
  <2>4. d = [c EXCEPT ![s] = r]
    BY <1>2, <2>3, Zenon DEF Accessed, FindWay
  <2> HIDE DEF m, q, d, s
  <2>5. m \in 1 .. Len(q)
    BY <2>1, <2>3
  <2>6. /\ r \in Seq(Lines) /\ Len(r) = Len(q) /\ Range(r) = Range(q)
        /\ IsInjective(q) => IsInjective(r)
    BY <2>1, <2>5, MovedToFront, Zenon
  <2> HIDE DEF r
  <2>7. /\ d \in Caches /\ d[s] = r
        /\ \A u \in 0 .. cache_set - 1 : u # s => d[u] = c[u]
        /\ Orderly(c) /\ Len(r) <= cache_way /\ IsInjective(r) => Orderly(d)
    <3>1. \A x \in Range(r) : FindSet(x) = s
      BY <2>1, <2>6, Zenon
    <3>2. /\ d \in [0 .. cache_set - 1 -> Seq(Lines)] /\ d[s] = r
          /\ \A u \in 0 .. cache_set - 1 : u # s => d[u] = c[u]
      BY <2>1, <2>4, <2>6, Zenon DEF Caches
    <3> QED
      BY <2>1, <2>6, <3>1, <3>2, SetReplaced, Zenon
  <2>8. \A u \in 0 .. cache_set - 1 : Range(d[u]) = Range(c[u])
    BY <2>6, <2>7, Zenon DEF q
  <2>9. Held(d) = Held(c)
    BY <2>8, Zenon DEF Held
  <2>10. Orderly(c) => Orderly(d)
    BY <2>1, <2>6, <2>7, Zenon DEF Orderly, q
  <2> QED
    BY <2>7, <2>9, <2>10, Zenon DEF d
<1> QED
  BY <1>1, <1>2, Zenon

\* Insert (cache.cc:14-21) adds a line to its set and may drop the last one.
LEMMA InsertedKeeps ==
    ASSUME NEW c \in Caches, NEW a \in Lines
    PROVE  /\ Inserted(c, a) \in Caches
           /\ Held(Inserted(c, a)) \subseteq Held(c) \cup {a}
           /\ Orderly(c) /\ a \notin Held(c) => Orderly(Inserted(c, a))
<1> DEFINE s == FindSet(a)
           q == c[s]
           p == IF Len(q) = cache_way THEN SubSeq(q, 1, cache_way - 1) ELSE q
           r == <<a>> \o p
           d == Inserted(c, a)
<1>1. s \in 0 .. cache_set - 1 /\ q \in Seq(Lines) /\ \A x \in Range(q) : FindSet(x) = s
  BY FindSetRange, SetLines, Zenon
<1>2. d = [c EXCEPT ![s] = r]
  BY Zenon DEF Inserted
<1> HIDE DEF s, q, d
<1>3. /\ p \in Seq(Lines) /\ Range(p) \subseteq Range(q)
      /\ IsInjective(q) => IsInjective(p)
      /\ Len(q) <= cache_way => Len(p) + 1 <= cache_way
  <2>1. CASE Len(q) # cache_way
    BY <1>1, <2>1, CacheAssumption
  <2>2. CASE Len(q) = cache_way
    <3>1. cache_way - 1 \in 0 .. Len(q) /\ p = SubSeq(q, 1, cache_way - 1)
      BY <2>2, CacheAssumption
    <3> DEFINE n == cache_way - 1
    <3> HIDE DEF n, p
    <3>2. /\ p \in Seq(Lines) /\ Len(p) = n /\ n + 1 = cache_way /\ n \in Nat /\ n <= Len(q)
          /\ \A j \in 1 .. n : p[j] = q[j]
      <4>1. n \in 0 .. Len(q) /\ p = SubSeq(q, 1, n) /\ n + 1 = cache_way
        BY <3>1, CacheAssumption DEF n
      <4> QED
        BY <1>1, <4>1, SplitAt
    <3>3. DOMAIN p = 1 .. n /\ DOMAIN q = 1 .. Len(q) /\ Len(q) \in Nat
      BY <1>1, <3>2
    <3>4. \A j \in 1 .. n : j \in 1 .. Len(q)
      BY <3>2, <3>3
    <3>5. Range(p) \subseteq Range(q)
      BY <3>2, <3>3, <3>4, Zenon DEF Range
    <3>6. IsInjective(q) => IsInjective(p)
      BY <3>2, <3>3, <3>4, Zenon DEF IsInjective
    <3> QED
      BY <2>2, <3>2, <3>5, <3>6, Zenon
  <2> QED
    BY <2>1, <2>2, Zenon
<1> HIDE DEF p
<1>4. /\ r \in Seq(Lines) /\ Len(r) = Len(p) + 1 /\ Range(r) = Range(p) \cup {a}
      /\ IsInjective(p) /\ a \notin Range(p) => IsInjective(r)
  BY <1>3, PutInFront, Zenon
<1> HIDE DEF r
<1>5. \A x \in Range(r) : FindSet(x) = s
  BY <1>1, <1>3, <1>4, Zenon DEF s
<1>6. /\ d \in Caches /\ d[s] = r
      /\ \A u \in 0 .. cache_set - 1 : u # s => d[u] = c[u]
      /\ Orderly(c) /\ Len(r) <= cache_way /\ IsInjective(r) => Orderly(d)
  <2>1. /\ d \in [0 .. cache_set - 1 -> Seq(Lines)] /\ d[s] = r
        /\ \A u \in 0 .. cache_set - 1 : u # s => d[u] = c[u]
    BY <1>1, <1>2, <1>4, Zenon DEF Caches
  <2> QED
    BY <1>1, <1>4, <1>5, <2>1, SetReplaced, Zenon
<1>7. \A u \in 0 .. cache_set - 1 : Range(d[u]) \subseteq Range(c[u]) \cup {a}
  BY <1>3, <1>4, <1>6, Zenon DEF q
<1>8. Held(d) \subseteq Held(c) \cup {a}
  BY <1>7, Zenon DEF Held
<1>9. ASSUME Orderly(c), a \notin Held(c) PROVE Orderly(d)
  <2>1. Len(q) <= cache_way /\ IsInjective(q)
    BY <1>1, <1>9, Zenon DEF Orderly, q
  <2>2. a \notin Range(q)
    BY <1>1, <1>9, Zenon DEF Held, q
  <2> QED
    BY <1>3, <1>4, <1>6, <1>9, <2>1, <2>2, Zenon
<1> QED
  BY <1>6, <1>8, <1>9, Zenon DEF d

\* FeatureReceive (f_reader.cc:222-235) inserts the received lines one by one;
\* a cache without any of them stays orderly if none has been received twice.
LEMMA InsertedAllKeeps ==
    ASSUME NEW c \in Caches, NEW q \in Seq(Lines)
    PROVE  /\ InsertedAll(c, q) \in Caches
           /\ Held(InsertedAll(c, q)) \subseteq Held(c) \cup Range(q)
           /\ Orderly(c) /\ IsInjective(q) /\ Held(c) \cap Range(q) = {}
                  => Orderly(InsertedAll(c, q))
<1> DEFINE n == Len(q)
           Solves(g) == g = [k \in 0 .. n |-> IF k = 0 THEN c ELSE Inserted(g[k - 1], q[k])]
           f == CHOOSE g : Solves(g)
           H == [p \in (1 .. n) \X Caches |-> Inserted(p[2], q[p[1]])]
<1>1. n \in Nat /\ DOMAIN q = 1 .. n /\ \A k \in 1 .. n : q[k] \in Lines
  OBVIOUS
<1>2. InsertedAll(c, q) = f[n]
  BY Zenon DEF InsertedAll
<1> HIDE DEF n
<1>3. ASSUME NEW k \in 1 .. n, NEW d \in Caches
      PROVE  Inserted(d, q[k]) \in Caches /\ H[<<k, d>>] = Inserted(d, q[k])
  BY <1>1, <1>3, InsertedKeeps, Zenon
<1>4. H \in [(1 .. n) \X Caches -> Caches]
  BY <1>3, Zenon
<1>5. PICK g : Iterates(g, n, Caches, c, H)
  <2> HIDE DEF H
  <2> QED
    BY <1>1, <1>4, RecursionExists, Zenon
<1>6. ASSUME NEW k \in 0 .. n
      PROVE  g[k] = IF k = 0 THEN c ELSE Inserted(g[k - 1], q[k])
  <2> HIDE DEF H
  <2>1. CASE k = 0
    BY <1>5, <2>1, Zenon DEF Iterates
  <2>2. CASE k # 0
    <3>1. k \in 1 .. n /\ g[k - 1] \in Caches
      BY <1>1, <1>5, <2>2 DEF Iterates
    <3> QED
      BY <1>3, <1>5, <2>2, <3>1, Zenon DEF Iterates
  <2> QED
    BY <2>1, <2>2, Zenon
<1>7. Solves(g)
  <2> HIDE DEF H
  <2>1. g = [k \in 0 .. n |-> g[k]]
    BY <1>5, Zenon DEF Iterates
  <2> QED
    BY <1>6, <2>1, Zenon
<1>8. Solves(f)
  BY <1>7, Zenon
<1>9. \A k \in 0 .. n : f[k] = IF k = 0 THEN c ELSE Inserted(f[k - 1], q[k])
  <2> HIDE DEF f
  <2> QED
    BY <1>8, Zenon
<1> HIDE DEF f, H, Solves
<1> DEFINE Fine == Orderly(c) /\ IsInjective(q) /\ Held(c) \cap Range(q) = {}
           First(k) == {q[j] : j \in 1 .. k}
           Kept(d, k) == /\ d \in Caches
                         /\ Held(d) \subseteq Held(c) \cup First(k)
                         /\ Fine => Orderly(d)
           S == {k \in Nat : k <= n => Kept(f[k], k)}
<1>10. 0 \in S
  BY <1>1, <1>9
<1>11. ASSUME NEW k \in Nat, k \in S PROVE k + 1 \in S
  <2> SUFFICES ASSUME k + 1 <= n PROVE Kept(f[k + 1], k + 1)
    OBVIOUS
  <2>1. k + 1 \in 1 .. n /\ k + 1 \in 0 .. n /\ (k + 1) - 1 = k /\ k + 1 # 0 /\ k <= n
    BY <1>1
  <2>2. Kept(f[k], k)
    BY <1>11, <2>1, Zenon
  <2>3. f[k + 1] = Inserted(f[k], q[k + 1]) /\ q[k + 1] \in Lines
    BY <1>1, <1>9, <2>1, Zenon
  <2>4. /\ f[k + 1] \in Caches
        /\ Held(f[k + 1]) \subseteq Held(f[k]) \cup {q[k + 1]}
        /\ Orderly(f[k]) /\ q[k + 1] \notin Held(f[k]) => Orderly(f[k + 1])
    BY <2>2, <2>3, InsertedKeeps
  <2>5. First(k + 1) = First(k) \cup {q[k + 1]}
    <3>1. 1 .. k + 1 = (1 .. k) \cup {k + 1}
      OBVIOUS
    <3> QED
      BY <3>1, Zenon
  <2>6. ASSUME Fine PROVE q[k + 1] \notin Held(f[k])
    <3>1. q[k + 1] \in Range(q)
      BY <1>1, <2>1, Zenon DEF Range
    <3>2. q[k + 1] \notin Held(c)
      BY <2>6, <3>1, Zenon
    <3>3. ASSUME NEW j \in 1 .. k PROVE q[j] # q[k + 1]
      <4>1. j \in DOMAIN q /\ k + 1 \in DOMAIN q /\ j # k + 1
        BY <1>1, <2>1
      <4> QED
        BY <2>6, <4>1, Zenon DEF IsInjective
    <3> QED
      BY <2>2, <3>2, <3>3, Zenon
  <2> HIDE DEF Fine
  <2> QED
    BY <2>2, <2>4, <2>5, <2>6, Zenon
<1>12. Kept(f[n], n)
  <2>1. n \in S
    <3> HIDE DEF S
    <3>1. Nat \subseteq S
      BY <1>10, <1>11, NatSetInduction, Zenon
    <3> QED
      BY <1>1, <3>1, Zenon
  <2> QED
    BY <1>1, <2>1
<1>13. First(n) = Range(q)
  BY <1>1, Zenon DEF Range
<1> QED
  BY <1>2, <1>12, <1>13, Zenon

-----------------------------------------------------------------------------
(* The memory. *)

\* What the controller reads and writes: the lines of the graph (those of the
\* values only in GCN), feature lines and results.
GraphLines == (IF gnn_mode = "GCN" THEN 0 ELSE a_row_addr_start) .. xw_ele_addr_start - 1

Transactions == {READ(a) : a \in GraphLines \cup Lines} \cup {WRITE(a) : a \in Nat}

\* The DRAM holds transactions, each of them at least once.
DramSound ==
    /\ DOMAIN dram \subseteq Transactions
    /\ \A t \in DOMAIN dram : dram[t] \in Nat \ {0}

LEMMA CopiesNat == ASSUME DramSound, NEW t PROVE Copies(t) \in Nat
BY Zenon DEF DramSound, Copies

\* The DRAM accepts what is in a queue (memory.cc:39-53).
LEMMA AcceptCopies ==
    ASSUME DramSound, NEW q \in Seq(Transactions), Accept(Counts(q))
    PROVE  DramSound' /\ \A t : Copies(t)' = Copies(t) + Occurrences(q, t)
<1> DEFINE R == Range(q)
           more == Counts(q)
<1>1. DOMAIN more = R /\ \A t \in R : more[t] = Occurrences(q, t)
  BY Zenon DEF Counts
<1>2. R \subseteq Transactions
  BY DEF Range
<1>3. \A t : Occurrences(q, t) \in Nat /\ (t \in R <=> Occurrences(q, t) > 0)
  BY OccurrencesNat, OccurrencesPositive, Zenon
<1>4. dram' = [t \in DOMAIN dram \cup R |->
                  Copies(t) + IF t \in R THEN more[t] ELSE 0]
  BY <1>1, Zenon DEF Accept
<1>5. \A t : Copies(t) \in Nat /\ (t \in DOMAIN dram => Copies(t) > 0)
                               /\ (t \notin DOMAIN dram => Copies(t) = 0)
  BY DEF Copies, DramSound
<1> HIDE DEF R, more
<1>6. DOMAIN dram' = DOMAIN dram \cup R
  BY <1>4, Zenon
<1>7. ASSUME NEW t \in DOMAIN dram' PROVE dram'[t] = Copies(t) + Occurrences(q, t)
  BY <1>1, <1>3, <1>4, <1>5, <1>6
<1>8. ASSUME NEW t PROVE Copies(t)' = Copies(t) + Occurrences(q, t)
  <2>1. CASE t \in DOMAIN dram'
    BY <1>7, <2>1, Zenon DEF Copies
  <2>2. CASE t \notin DOMAIN dram'
    <3>1. Copies(t)' = 0
      BY <2>2, Zenon DEF Copies
    <3>2. Copies(t) = 0 /\ Occurrences(q, t) = 0
      BY <1>3, <1>5, <1>6, <2>2
    <3> QED
      BY <3>1, <3>2
  <2> QED
    BY <2>1, <2>2, Zenon
<1>9. DramSound'
  <2>1. DOMAIN dram' \subseteq Transactions
    BY <1>2, <1>6, Zenon DEF DramSound
  <2>2. \A t \in DOMAIN dram' : dram'[t] \in Nat \ {0}
    BY <1>3, <1>5, <1>6, <1>7
  <2> QED
    BY <2>1, <2>2, Zenon DEF DramSound
<1> QED
  BY <1>8, <1>9, Zenon

\* The DRAM reports a transaction (memory.cc:55-144).
LEMMA ReportCopies ==
    ASSUME DramSound, NEW t, Report(t)
    PROVE  /\ DramSound' /\ t \in Transactions /\ Copies(t) > 0
           /\ \A u : Copies(u)' = IF u = t THEN Copies(u) - 1 ELSE Copies(u)
<1> DEFINE D == {v \in DOMAIN dram : v # t \/ dram[v] > 1}
<1>1. t \in DOMAIN dram /\ dram' = [u \in D |-> IF u = t THEN dram[u] - 1 ELSE dram[u]]
  BY Zenon DEF Report
<1>2. DOMAIN dram' = D /\ \A u \in D : dram'[u] = IF u = t THEN dram[u] - 1 ELSE dram[u]
  BY <1>1, Zenon
<1>3. \A u \in DOMAIN dram : dram[u] \in Nat /\ dram[u] > 0
  BY DEF DramSound
<1>4. DramSound'
  BY <1>2, <1>3 DEF DramSound
<1>5. ASSUME NEW u PROVE Copies(u)' = IF u = t THEN Copies(u) - 1 ELSE Copies(u)
  <2>1. CASE u \in D
    BY <1>2, <2>1, Zenon DEF Copies
  <2>2. CASE u \notin DOMAIN dram
    BY <1>1, <1>2, <2>2, Zenon DEF Copies
  <2>3. CASE u = t /\ u \notin D
    <3>1. dram[t] = 1
      BY <1>1, <1>3, <2>3
    <3> QED
      BY <1>1, <1>2, <2>3, <3>1 DEF Copies
  <2> QED
    BY <2>1, <2>2, <2>3, Zenon
<1> QED
  BY <1>1, <1>3, <1>4, <1>5, Zenon DEF DramSound, Copies

\* ConsumeTransaction (memory.cc:39-53) moves transactions from the front of
\* the queue into the DRAM.
LEMMA ConsumeKeeps ==
    ASSUME DramSound, NEW q \in Seq(Transactions), ConsumeTransaction(q)
    PROVE  /\ DramSound' /\ tq' \in Seq(Transactions)
           /\ UNCHANGED <<rq, mem_fq, total_write>>
           /\ \A t : Occurrences(tq', t) + Copies(t)' = Occurrences(q, t) + Copies(t)
           /\ \E k \in 0 .. Len(q) :
                 Len(tq') = Len(q) - k /\ \A j \in 1 .. Len(q) - k : tq'[j] = q[k + j]
<1>1. PICK k \in 0 .. Len(q) :
          /\ tq' = SubSeq(q, k + 1, Len(q))
          /\ Accept(Counts(SubSeq(q, 1, k)))
          /\ UNCHANGED <<rq, mem_fq, total_write>>
  BY Zenon DEF ConsumeTransaction
<1> DEFINE p == SubSeq(q, 1, k)
<1>2. /\ p \in Seq(Transactions) /\ tq' \in Seq(Transactions)
      /\ Len(tq') = Len(q) - k /\ \A j \in 1 .. Len(q) - k : tq'[j] = q[k + j]
  BY <1>1, SplitAt, Zenon
<1>3. \A t : Occurrences(q, t) = Occurrences(p, t) + Occurrences(tq', t)
  BY <1>1, OccurrencesSplit, Zenon
<1> HIDE DEF p
<1>4. DramSound' /\ \A t : Copies(t)' = Copies(t) + Occurrences(p, t)
  BY <1>1, <1>2, AcceptCopies, Zenon DEF p
<1>5. ASSUME NEW t PROVE Occurrences(tq', t) + Copies(t)' = Occurrences(q, t) + Copies(t)
  <2>1. Occurrences(p, t) \in Nat /\ Occurrences(tq', t) \in Nat /\ Copies(t) \in Nat
    BY <1>2, OccurrencesNat, CopiesNat, Zenon
  <2> QED
    BY <1>3, <1>4, <2>1
<1> QED
  BY <1>1, <1>2, <1>4, <1>5, Zenon

\* AddTransaction (memory.cc:18-27) of reads of the given addresses.
LEMMA WithReadsKeeps ==
    ASSUME tq \in Seq(Transactions), NEW ls \in Seq(GraphLines \cup Lines)
    PROVE  /\ WithReads(ls) \in Seq(Transactions)
           /\ Len(WithReads(ls)) = Len(tq) + Len(ls)
           /\ \A a : a \notin Range(ls) =>
                 Occurrences(WithReads(ls), READ(a)) = Occurrences(tq, READ(a))
<1> DEFINE r == [k \in DOMAIN ls |-> READ(ls[k])]
<1>1. DOMAIN ls = 1 .. Len(ls) /\ Len(ls) \in Nat
  BY LenProperties, Zenon
<1>2. \A k \in 1 .. Len(ls) : ls[k] \in GraphLines \cup Lines
  BY <1>1, ElementOfSeq, Zenon
<1>3. r \in [1 .. Len(ls) -> Transactions]
  BY <1>1, <1>2, Zenon DEF Transactions
<1>4. r \in Seq(Transactions)
  <2> HIDE DEF r
  <2> QED
    BY <1>1, <1>3, SeqDef, Zenon
<1>5. Len(r) = Len(ls) /\ DOMAIN r = DOMAIN ls /\ \A k \in DOMAIN ls : r[k] = READ(ls[k])
  <2>1. DOMAIN r = DOMAIN ls /\ \A k \in DOMAIN ls : r[k] = READ(ls[k])
    BY Zenon
  <2> HIDE DEF r
  <2>2. DOMAIN r = 1 .. Len(r) /\ Len(r) \in Nat
    BY <1>4, LenProperties, Zenon
  <2>3. Len(r) = Len(ls)
    BY <1>1, <2>1, <2>2
  <2> QED
    BY <2>1, <2>3, Zenon
<1>6. WithReads(ls) = tq \o r
  BY Zenon DEF WithReads
<1> HIDE DEF r
<1>7. WithReads(ls) \in Seq(Transactions) /\ Len(WithReads(ls)) = Len(tq) + Len(ls)
  <2>1. tq \o r \in Seq(Transactions) /\ Len(tq \o r) = Len(tq) + Len(r)
    BY <1>4, ConcatProperties, Zenon
  <2> QED
    BY <1>5, <1>6, <2>1, Zenon
<1>8. ASSUME NEW a, a \notin Range(ls)
      PROVE  Occurrences(WithReads(ls), READ(a)) = Occurrences(tq, READ(a))
  <2>1. READ(a) \notin Range(r)
    BY <1>5, <1>8 DEF Range, READ
  <2>2. Occurrences(r, READ(a)) \in Nat /\ Occurrences(tq, READ(a)) \in Nat
    BY <1>4, OccurrencesNat, Zenon
  <2>3. Occurrences(r, READ(a)) = 0
    BY <1>4, <2>1, <2>2, OccurrencesPositive
  <2>4. Occurrences(WithReads(ls), READ(a)) = Occurrences(tq, READ(a)) + Occurrences(r, READ(a))
    BY <1>4, <1>6, OccurrencesConcat
  <2> QED
    BY <2>2, <2>3, <2>4
<1> QED
  BY <1>7, <1>8, Zenon

\* Values are read only in GCN.
Kinds == IF gnn_mode = "GCN" THEN {"Row", "Column", "Value"} ELSE {"Row", "Column"}

\* The callbacks (memory.cc:55-144): an answer goes from the DRAM to one of
\* the queues of the memory.
LEMMA CompleteKeeps ==
    ASSUME DramSound, mem_fq \in Seq(Lines), rq \in [Engine -> Seq(Kinds)], Complete
    PROVE  /\ DramSound' /\ mem_fq' \in Seq(Lines) /\ rq' \in [Engine -> Seq(Kinds)]
           /\ tq' = tq
           /\ \A a \in Lines : Copies(READ(a))' + Occurrences(mem_fq', a)
                                   = Copies(READ(a)) + Occurrences(mem_fq, a)
<1>1. PICK t \in DOMAIN dram : Report(t) /\ (ReadComplete(t) \/ WriteComplete(t)) /\ tq' = tq
  BY Zenon DEF Complete
<1>2. /\ DramSound' /\ t \in Transactions /\ Copies(t) > 0
      /\ \A u : Copies(u)' = IF u = t THEN Copies(u) - 1 ELSE Copies(u)
  BY <1>1, ReportCopies, Zenon
<1>3. \A u : Copies(u) \in Nat
  BY CopiesNat, Zenon
<1>4. \A a : Occurrences(mem_fq, a) \in Nat
  BY OccurrencesNat, Zenon
<1>5. CASE mem_fq' = mem_fq /\ \A a \in Lines : t # READ(a)
  <2>1. \A a \in Lines : Copies(READ(a))' = Copies(READ(a))
    BY <1>2, <1>5, Zenon
  <2> HIDE DEF READ
  <2>2. rq' \in [Engine -> Seq(Kinds)]
    <3>1. CASE rq' = rq
      BY <3>1, Zenon
    <3>2. CASE rq' # rq
      <4>1. /\ ~t.is_write /\ t.address < xw_ele_addr_start
            /\ \E i \in Receiver(t.address) :
                  rq' = [rq EXCEPT ![i] = Append(@, R_TYPE(t.address))]
        BY <1>1, <3>2, Zenon DEF ReadComplete, WriteComplete
      <4>2. t.address \in GraphLines
        <5>1. PICK a \in GraphLines \cup Lines : t = READ(a)
          BY <1>2, <4>1 DEF Transactions, WRITE
        <5> QED
          BY <1>5, <5>1, Zenon DEF READ
      <4>3. R_TYPE(t.address) \in Kinds
        BY <4>2, LayoutAssumption, SMTT(20) DEF GraphLines, R_TYPE, Kinds
      <4>4. Receiver(t.address) \subseteq Engine
        <5> DEFINE O == {i \in Engine : InRegion(i, R_TYPE(t.address), t.address)}
        <5>1. O \in SUBSET Nat
          BY LayoutAssumption
        <5>2. O # {} => Min(O) \in O
          <6> HIDE DEF O
          <6> QED
            BY <5>1, MinProperties, Zenon
        <5> QED
          BY <5>2, Zenon DEF Receiver
      <4> QED
        BY <4>1, <4>3, <4>4
    <3> QED
      BY <3>1, <3>2, Zenon
  <2> QED
    BY <1>1, <1>2, <1>5, <2>1, <2>2, Zenon
<1>6. CASE \E a \in Lines : t = READ(a)
  <2>1. PICK l \in Lines : t = READ(l)
    BY <1>6, Zenon
  <2>2. ~t.is_write /\ t.address = l /\ ~(l < xw_ele_addr_start)
    BY <2>1, LayoutAssumption DEF READ, Lines
  <2>3. mem_fq' = Append(mem_fq, l) /\ rq' = rq
    BY <1>1, <2>2, Zenon DEF ReadComplete, WriteComplete
  <2>4. ASSUME NEW a \in Lines
        PROVE  Copies(READ(a))' + Occurrences(mem_fq', a)
                   = Copies(READ(a)) + Occurrences(mem_fq, a)
    <3>1. Occurrences(mem_fq', a) = Occurrences(mem_fq, a) + IF l = a THEN 1 ELSE 0
      BY <2>3, OccurrencesAppend
    <3>2. Copies(READ(a))' = IF a = l THEN Copies(READ(a)) - 1 ELSE Copies(READ(a))
      BY <1>2, <2>1, Zenon DEF READ
    <3>3. a = l => Copies(READ(a)) > 0
      BY <1>2, <2>1, Zenon
    <3> HIDE DEF READ
    <3> QED
      BY <1>3, <1>4, <3>1, <3>2, <3>3
  <2> QED
    BY <1>1, <1>2, <2>3, <2>4
<1>7. mem_fq' = mem_fq \/ \E a \in Lines : t = READ(a)
  <2>1. CASE t.is_write
    BY <1>1, <2>1, Zenon DEF ReadComplete, WriteComplete
  <2>2. CASE ~t.is_write
    <3>1. PICK a \in GraphLines \cup Lines : t = READ(a)
      BY <1>2, <2>2 DEF Transactions, WRITE
    <3>2. CASE a \in GraphLines
      <4>1. t.address < xw_ele_addr_start
        BY <3>1, <3>2, LayoutAssumption DEF READ, GraphLines
      <4> QED
        BY <1>1, <2>2, <4>1, Zenon DEF ReadComplete, WriteComplete
    <3> QED
      BY <3>1, <3>2, Zenon
  <2> QED
    BY <2>1, <2>2, Zenon
<1> QED
  BY <1>5, <1>6, <1>7, Zenon

-----------------------------------------------------------------------------
(* The feature reader. *)

\* The vertices whose features engine i aggregates.
Vertices(i) == Range(col_idx[i])

Dense == mode \in {"X_CMP", "MAT"}

EdgeRecord == [id : Engine, is_last : BOOLEAN, dst : Nat, v_fold : Nat]

ReadRecord == [is_last : BOOLEAN, dst : Int, v_fold : Nat, cur_col_idx : Nat,
               pq_read_need : BOOLEAN]

\* An edge of engine i that waits to be read.
PendingSound(i, e) == e.id = i /\ e.dst \in Vertices(i) /\ e.v_fold \in 0 .. bf - 1

\* An edge of engine i of which the line at cur_col_idx is read next.
ReadSound(i, f) ==
    /\ f.dst \in Vertices(i)
    /\ f.v_fold \in 0 .. bf - 1
    /\ Dense => /\ f.cur_col_idx < urb
                /\ f.v_fold * urb + f.cur_col_idx < total_urb
                /\ ReturnAddress(f.dst, f.cur_col_idx, f.v_fold) # 0
    /\ ~Dense => f.cur_col_idx < Len(x_to_addr[f.dst])

Entries == Lines \cup {ROW_END} \cup {InCache(l) : l \in Lines}

\* Every row end follows an entry that is none.
RowEndsFollow(q) == \A k \in DOMAIN q : q[k] = ROW_END => k > 1 /\ q[k - 1] # ROW_END

FeaturesSound ==
    /\ pq \in [Engine -> Seq(EdgeRecord)]
    /\ frs \in [Engine -> ReadRecord]
    /\ fq \in [Engine -> Seq(Entries)]
    /\ \A i \in Engine :
        /\ \A k \in DOMAIN pq[i] : PendingSound(i, pq[i][k])
        /\ ~frs[i].pq_read_need => /\ ReadSound(i, frs[i])
                                   /\ Dense => frs[i].cur_col_idx > 0
        /\ RowEndsFollow(fq[i])

\* A pass starts before the end of the feature.
LEMMA PassStart ==
    ASSUME NEW p \in 0 .. bf - 1
    PROVE  p * urb \in Nat /\ p * urb < total_urb
<1>1. bf \in Nat /\ urb \in Nat /\ total_urb \in Nat /\ p \in Nat /\ urb * (bf - 1) < total_urb
  BY BfAssumption, PassAssumption
<1>2. PICK k \in Nat : bf - 1 = p + k
  BY <1>1, bf - 1 - p \in Nat
<1>3. urb * (bf - 1) = p * urb + k * urb
  BY <1>1, <1>2
<1>4. p * urb \in Nat /\ k * urb \in Nat
  BY <1>1
<1> DEFINE a == p * urb
           b == k * urb
           c == urb * (bf - 1)
<1>5. a \in Nat /\ b \in Nat /\ c = a + b /\ c < total_urb
  BY <1>1, <1>3, <1>4, Zenon
<1> HIDE DEF a, b, c
<1>6. a < total_urb
  BY <1>1, <1>5
<1> QED
  BY <1>4, <1>6, Zenon DEF a

\* The lines of a vertex, as the preprocessor leaves them
\* (preprocessor.cc:340-474).
LEMMA VertexLinesFacts ==
    ASSUME NEW i \in Engine, NEW v \in Vertices(i)
    PROVE  /\ x_to_addr[v] \in Seq({0} \cup Lines) /\ v \in Nat
           /\ Dense => /\ Len(x_to_addr[v]) = total_urb
                       /\ \A p \in 0 .. bf - 1 : ReturnAddress(v, 0, p) # 0
           /\ mode = "MAT" => \A n \in DOMAIN x_to_addr[v] : x_to_addr[v][n] # 0
           /\ ~Dense => /\ Len(x_to_addr[v]) >= 2
                        /\ \A n \in DOMAIN x_to_addr[v] : x_to_addr[v][n] # 0
<1> DEFINE x == x_to_addr[v]
<1>1. PICK k \in DOMAIN col_idx[i] : v = col_idx[i][k]
  BY Zenon DEF Vertices, Range
<1>2. x \in Seq({0} \cup Lines) /\ v \in Nat
  BY <1>1, FeatureAssumption, CsrAssumption, SMTT(20)
<1>3. mode = "X_CMP" => Len(x) = total_urb /\ \A p \in 0 .. bf - 1 : x[p * urb + 1] # 0
  BY <1>1, LineCountAssumption, Zenon
<1>4. mode = "MAT" => Len(x) = total_urb /\ \A n \in DOMAIN x : x[n] # 0
  BY <1>1, LineCountAssumption, Zenon
<1>5. mode \in {"CSR", "X_FULL_CMP"} => Len(x) >= 2 /\ \A n \in DOMAIN x : x[n] # 0
  BY <1>1, LineCountAssumption, Zenon
<1> HIDE DEF x
<1>6. ASSUME Dense, NEW p \in 0 .. bf - 1 PROVE ReturnAddress(v, 0, p) # 0
  <2>1. p * urb \in Nat /\ p * urb < total_urb /\ total_urb \in Nat
    BY PassStart, PassAssumption, Zenon
  <2> DEFINE n == p * urb
  <2> HIDE DEF n
  <2>2. n \in Nat /\ n + 0 + 1 = n + 1 /\ (Len(x) = total_urb => n + 1 \in DOMAIN x)
    BY <1>2, <2>1 DEF n
  <2>3. x[n + 1] # 0
    <3>1. CASE mode = "X_CMP"
      BY <1>3, <3>1, Zenon DEF n
    <3>2. CASE mode = "MAT"
      BY <1>4, <2>2, <3>2, Zenon
    <3> QED
      BY <1>6, <3>1, <3>2, Zenon DEF Dense
  <2> QED
    BY <2>2, <2>3, Zenon DEF ReturnAddress, n, x
<1> QED
  BY <1>2, <1>3, <1>4, <1>5, <1>6, LineCountAssumption, Zenon DEF x, Dense

\* No line is at once in the cache and requested.
CacheSound ==
    /\ requested \subseteq Lines
    /\ sa_cache \in Caches
    /\ Held(sa_cache) \cap requested = {}

\* What Fetch of address a does, in terms of lines.
Fetched(a) ==
    /\ sa_cache' \in Caches
    /\ Held(sa_cache') = Held(sa_cache)
    /\ Orderly(sa_cache) => Orderly(sa_cache')
    /\ \/ /\ a \in Held(sa_cache) \cup requested
          /\ requested' = requested /\ tq' = tq
       \/ /\ a \notin Held(sa_cache) \cup requested
          /\ requested' = requested \cup {a} /\ tq' = Append(tq, READ(a))

\* Access and request (f_reader.cc:103-117, 250-254).
LEMMA FetchDoes ==
    ASSUME NEW c \in Caches, Held(c) = Held(sa_cache),
           Orderly(sa_cache) => Orderly(c),
           NEW a \in Lines, Fetch(c, a)
    PROVE  Fetched(a)
<1>1. /\ Accessed(c, a) \in Caches /\ Held(Accessed(c, a)) = Held(c)
      /\ Orderly(c) => Orderly(Accessed(c, a))
  BY AccessedKeeps, Zenon
<1>2. Hit(c, a) <=> a \in Held(sa_cache)
  BY HitIffHeld, Zenon
<1> QED
  BY <1>1, <1>2, Zenon DEF Fetch, Fetched

\* Fetching keeps CacheSound and asks for lines only.
LEMMA FetchedSound ==
    ASSUME CacheSound, tq \in Seq(Transactions), NEW a \in Lines, Fetched(a)
    PROVE  CacheSound' /\ tq' \in Seq(Transactions)
<1>1. READ(a) \in Transactions
  BY Zenon DEF Transactions
<1>2. Append(tq, READ(a)) \in Seq(Transactions)
  BY <1>1
<1>3. CacheSound'
  BY Zenon DEF CacheSound, Fetched
<1> QED
  BY <1>2, <1>3, Zenon DEF Fetched

\* What may follow the last line of an edge in fq.
EndMarks == {<<>>, <<ROW_END>>}

\* fq after an entry, and possibly the end of a row, has been put there.
Extended(q, e, ends) == q \o <<e>> \o ends

\* A row end is put into fq only after a line (f_reader.cc:134-141).
LEMMA RowEndsAppended ==
    ASSUME NEW q \in Seq(Entries), RowEndsFollow(q), NEW e \in Entries, e # ROW_END,
           NEW ends \in EndMarks,
           NEW r, r = Extended(q, e, ends)
    PROVE  /\ r \in Seq(Entries) /\ RowEndsFollow(r)
           /\ Len(r) = Len(q) + 1 + Len(ends)
           /\ \A k \in 1 .. Len(q) : r[k] = q[k]
           /\ r[Len(q) + 1] = e
<1>1. /\ Len(q) \in Nat /\ DOMAIN q = 1 .. Len(q) /\ ROW_END \in Entries
      /\ \A k \in 1 .. Len(q) : q[k] \in Entries
  BY DEF Entries
<1> DEFINE p == q \o <<e>>
<1>2. p \in Seq(Entries) /\ Len(p) = Len(q) + 1 /\ p[Len(q) + 1] = e
  BY <1>1
<1>3. \A k \in 1 .. Len(q) : p[k] = q[k]
  BY <1>1
<1>4. DOMAIN p = 1 .. Len(q) + 1
  BY <1>1, <1>2
<1> HIDE DEF p
<1>5. RowEndsFollow(p)
  <2> SUFFICES ASSUME NEW k \in 1 .. Len(q) + 1, p[k] = ROW_END
               PROVE  k > 1 /\ p[k - 1] # ROW_END
    BY <1>4, Zenon DEF RowEndsFollow
  <2>1. k # Len(q) + 1
    BY <1>2, Zenon
  <2>2. k \in 1 .. Len(q) /\ q[k] = ROW_END
    BY <1>1, <1>3, <2>1
  <2>3. k > 1 /\ q[k - 1] # ROW_END
    BY <1>1, <2>2, Zenon DEF RowEndsFollow
  <2>4. k - 1 \in 1 .. Len(q)
    BY <1>1, <2>2, <2>3
  <2> QED
    BY <1>3, <2>3, <2>4, Zenon
<1>6. CASE ends = <<>>
  <2>1. r = p \o <<>>
    BY <1>6, Zenon DEF p, Extended
  <2>2. r = p
    BY <1>2, <2>1, ConcatEmptySeq, Zenon
  <2>3. Len(ends) = 0
    BY <1>6, Zenon
  <2> QED
    <3>1. r \in Seq(Entries) /\ RowEndsFollow(r)
      BY <1>2, <1>5, <2>2, Zenon
    <3>2. /\ Len(r) = Len(q) + 1 + Len(ends) /\ r[Len(q) + 1] = e
          /\ \A k \in 1 .. Len(q) : r[k] = q[k]
      BY <1>1, <1>2, <1>3, <2>2, <2>3
    <3> QED
      BY <3>1, <3>2, Zenon
<1>7. CASE ends = <<ROW_END>>
  <2>1. r = p \o <<ROW_END>>
    BY <1>7, Zenon DEF p, Extended
  <2>2. /\ r \in Seq(Entries) /\ Len(r) = Len(p) + 1
        /\ r[Len(p) + 1] = ROW_END
        /\ \A k \in 1 .. Len(p) : r[k] = p[k]
    BY <1>1, <1>2, <2>1
  <2>3. RowEndsFollow(r)
    <3> SUFFICES ASSUME NEW k \in 1 .. Len(q) + 2, r[k] = ROW_END
                 PROVE  k > 1 /\ r[k - 1] # ROW_END
      BY <1>1, <1>2, <2>2 DEF RowEndsFollow
    <3>1. CASE k = Len(q) + 2
      BY <1>1, <1>2, <2>2, <3>1
    <3>2. CASE k # Len(q) + 2
      <4>1. k \in 1 .. Len(q) + 1 /\ p[k] = ROW_END
        BY <1>1, <1>2, <2>2, <3>2
      <4>2. k > 1 /\ p[k - 1] # ROW_END
        BY <1>4, <1>5, <4>1, Zenon DEF RowEndsFollow
      <4>3. k - 1 \in 1 .. Len(p)
        BY <1>1, <1>2, <4>1, <4>2
      <4> QED
        BY <2>2, <4>2, <4>3, Zenon
    <3> QED
      BY <3>1, <3>2, Zenon
  <2>4. Len(ends) = 1
    BY <1>7, Zenon
  <2>5. \A k \in 1 .. Len(q) + 1 : k \in 1 .. Len(p)
    BY <1>1, <1>2, Zenon
  <2> QED
    BY <1>1, <1>2, <1>3, <2>2, <2>3, <2>4, <2>5, SMTT(20)
<1> QED
  BY <1>6, <1>7, Zenon DEF EndMarks

\* What is left of a queue when its first m entries are taken.
LEMMA TailIsRest ==
    ASSUME NEW S, NEW q \in Seq(S), q # <<>>
    PROVE  /\ Tail(q) \in Seq(S) /\ Len(Tail(q)) = Len(q) - 1
           /\ Len(q) \in Nat \ {0}
           /\ \A k \in 1 .. Len(q) - 1 : Tail(q)[k] = q[k + 1]
<1>1. Tail(q) \in Seq(S) /\ Len(Tail(q)) = Len(q) - 1
  BY HeadTailProperties, Zenon
<1>2. Len(q) \in Nat \ {0}
  BY EmptySeq, LenProperties, Zenon
<1>3. \A k \in 1 .. Len(q) - 1 : Tail(q)[k] = q[k + 1]
  BY HeadTailProperties, Zenon
<1> QED
  BY <1>1, <1>2, <1>3, Zenon

\* A row end leaves fq together with the line before it (f_reader.cc:258-261).
LEMMA RowEndsTaken ==
    ASSUME NEW q \in Seq(Entries), RowEndsFollow(q), q # <<>>, NEW r,
           Len(q) > 1 /\ q[2] = ROW_END => r = Tail(Tail(q)),
           ~(Len(q) > 1 /\ q[2] = ROW_END) => r = Tail(q)
    PROVE  /\ r \in Seq(Entries) /\ RowEndsFollow(r) /\ Len(r) < Len(q)
           /\ \A k \in DOMAIN q : k # 1 /\ q[k] # ROW_END => q[k] \in Range(r)
<1> DEFINE n == Len(q)
           t == Tail(q)
           u == Tail(t)
           Rest(m) == /\ r \in Seq(Entries) /\ Len(r) = n - m
                      /\ \A k \in 1 .. n - m : r[k] = q[k + m]
<1>1. n \in Nat \ {0} /\ DOMAIN q = 1 .. n
  BY TailIsRest, LenProperties, Zenon
<1>2. /\ t \in Seq(Entries) /\ Len(t) = n - 1
      /\ \A k \in 1 .. n - 1 : t[k] = q[k + 1]
  BY TailIsRest, Zenon
<1>3. n > 1 => /\ u \in Seq(Entries) /\ Len(u) = n - 2
               /\ \A k \in 1 .. n - 2 : u[k] = t[k + 1]
  <2> HAVE n > 1
  <2>1. Len(t) # 0 /\ Len(t) - 1 = n - 2
    BY <1>1, <1>2
  <2> HIDE DEF t
  <2>2. t # <<>>
    BY <2>1, <1>2, EmptySeq, Zenon
  <2>3. /\ u \in Seq(Entries) /\ Len(u) = Len(t) - 1
        /\ \A k \in 1 .. Len(t) - 1 : u[k] = t[k + 1]
    BY <1>2, <2>2, TailIsRest, Zenon
  <2> QED
    BY <2>1, <2>3, Zenon
<1>4. /\ n > 1 /\ q[2] = ROW_END => r = u
      /\ ~(n > 1 /\ q[2] = ROW_END) => r = t
  BY Zenon
<1>5. \A k \in 1 .. n : q[k] = ROW_END => k > 1 /\ q[k - 1] # ROW_END
  BY <1>1, Zenon DEF RowEndsFollow
<1> HIDE DEF n, t, u
<1>6. PICK m \in 1 .. 2 : /\ m <= n /\ Rest(m) /\ ~(m + 1 <= n /\ q[m + 1] = ROW_END)
                          /\ m = 2 => q[2] = ROW_END
  <2>1. CASE n > 1 /\ q[2] = ROW_END
    <3>1. \A k \in 1 .. n - 2 : k + 1 \in 1 .. n - 1 /\ (k + 1) + 1 = k + 2
      BY <1>1
    <3>2. \A k \in 1 .. n - 2 : u[k] = q[k + 2]
      BY <1>2, <1>3, <2>1, <3>1, Zenon
    <3>3. Rest(2)
      BY <1>3, <1>4, <2>1, <3>2, Zenon
    <3>4. ~(3 <= n /\ q[3] = ROW_END)
      BY <1>1, <1>5, <2>1
    <3> HIDE DEF Rest
    <3> QED
      BY <1>1, <2>1, <3>3, <3>4, SMTT(20)
  <2>2. CASE ~(n > 1 /\ q[2] = ROW_END)
    <3>1. Rest(1)
      BY <1>2, <1>4, <2>2, Zenon
    <3> HIDE DEF Rest
    <3> QED
      BY <1>1, <2>2, <3>1
  <2> QED
    BY <2>1, <2>2, Zenon
<1>7. r \in Seq(Entries) /\ Len(r) = n - m /\ DOMAIN r = 1 .. n - m
  BY <1>6, LenProperties, Zenon
<1>8. RowEndsFollow(r)
  <2> SUFFICES ASSUME NEW k \in 1 .. n - m, r[k] = ROW_END
               PROVE  k > 1 /\ r[k - 1] # ROW_END
    BY <1>7, Zenon DEF RowEndsFollow
  <2>1. k + m \in 1 .. n /\ q[k + m] = ROW_END
    BY <1>1, <1>6
  <2>2. k # 1
    BY <1>1, <1>6, <2>1
  <2>3. q[(k + m) - 1] # ROW_END
    BY <1>5, <2>1, Zenon
  <2>4. k - 1 \in 1 .. n - m /\ (k - 1) + m = (k + m) - 1 /\ k > 1
    BY <1>1, <1>6, <2>2
  <2> QED
    BY <1>6, <2>3, <2>4, Zenon
<1>9. ASSUME NEW k \in DOMAIN q, k # 1, q[k] # ROW_END PROVE q[k] \in Range(r)
  <2>1. k - m \in 1 .. n - m /\ (k - m) + m = k
    <3>1. k \in 1 .. n
      BY <1>1, Zenon
    <3>2. k > m
      <4>1. CASE m = 1
        BY <1>9, <3>1, <4>1
      <4>2. CASE m = 2
        BY <1>6, <1>9, <3>1, <4>2
      <4> QED
        BY <4>1, <4>2
    <3> QED
      BY <1>1, <3>1, <3>2
  <2>2. r[k - m] = q[k] /\ k - m \in DOMAIN r
    BY <1>6, <1>7, <2>1, Zenon
  <2> QED
    BY <2>2, Zenon DEF Range
<1> QED
  BY <1>1, <1>6, <1>7, <1>8, <1>9 DEF n

\* Function g is f except that it maps i to v.
Changed(f, g, i, v) == g = [f EXCEPT ![i] = v]

\* The edge ReadNext works on is one of the engine's (f_reader.cc:60-70).
LEMMA CurrentSound ==
    ASSUME FeaturesSound, NEW i \in Engine, CanRead(i)
    PROVE  /\ CurrentEdge(i) \in ReadRecord
           /\ CurrentEdge(i).pq_read_need = FALSE
           /\ ReadSound(i, CurrentEdge(i))
           /\ ~frs[i].pq_read_need => CurrentEdge(i) = frs[i]
<1>1. /\ pq[i] \in Seq(EdgeRecord) /\ frs[i] \in ReadRecord
      /\ \A k \in DOMAIN pq[i] : PendingSound(i, pq[i][k])
      /\ ~frs[i].pq_read_need => ReadSound(i, frs[i])
  BY Zenon DEF FeaturesSound
<1>2. CASE ~frs[i].pq_read_need
  BY <1>1, <1>2, Zenon DEF CurrentEdge, ReadRecord
<1>3. CASE frs[i].pq_read_need
  <2> DEFINE e == Head(pq[i])
             c == ConsumePendingQ(i)
  <2>1. pq[i] # <<>>
    BY <1>3, Zenon DEF CanRead
  <2>2. 1 \in DOMAIN pq[i] /\ e = pq[i][1]
    BY <1>1, <2>1
  <2>3. e \in EdgeRecord /\ PendingSound(i, e)
    BY <1>1, <2>2
  <2>4. CurrentEdge(i) = c
    BY <1>3, Zenon DEF CurrentEdge
  <2>5. /\ c \in ReadRecord /\ c.pq_read_need = FALSE /\ c.cur_col_idx = 0
        /\ c.dst = e.dst /\ c.v_fold = e.v_fold
    BY <2>3 DEF ConsumePendingQ, ReadRecord, EdgeRecord
  <2>6. e.dst \in Vertices(i) /\ e.v_fold \in 0 .. bf - 1
    BY <2>3, Zenon DEF PendingSound
  <2> HIDE DEF c, e
  <2>7. /\ x_to_addr[e.dst] \in Seq({0} \cup Lines)
        /\ Dense => ReturnAddress(e.dst, 0, e.v_fold) # 0
        /\ ~Dense => Len(x_to_addr[e.dst]) >= 2
    BY <2>6, VertexLinesFacts, Zenon
  <2>8. e.v_fold * urb \in Nat /\ e.v_fold * urb < total_urb /\ urb \in Nat \ {0}
    BY <2>6, PassStart, PassAssumption, Zenon
  <2>9. ReadSound(i, c)
    <3> DEFINE m == e.v_fold * urb
    <3>1. m + 0 < total_urb /\ 0 < urb
      <4>1. m \in Nat /\ m < total_urb
        BY <2>8, Zenon
      <4> HIDE DEF m
      <4> QED
        BY <2>8, <4>1
    <3>2. Len(x_to_addr[e.dst]) \in Nat
      BY <2>7
    <3>3. ~Dense => 0 < Len(x_to_addr[e.dst])
      BY <2>7, <3>2
    <3> QED
      BY <2>5, <2>6, <2>7, <3>1, <3>3, Zenon DEF ReadSound
  <2> QED
    BY <1>3, <2>4, <2>5, <2>9, Zenon
<1> QED
  BY <1>2, <1>3, Zenon

\* What ReadNext does for engine i, whose line a it accesses.
ReadEffect(i, a) ==
    /\ Fetched(a)
    /\ Len(fq[i]) < FQ_LIMIT /\ Len(fq'[i]) <= FQ_LIMIT + 1
    /\ fq[i] # <<>> => fq'[i] # <<>> /\ Head(fq'[i]) = Head(fq[i])
    /\ \A j \in Engine \ {i} : fq'[j] = fq[j] /\ frs'[j] = frs[j]
    /\ \A line \in requested : Waits(i, line) => Waits(i, line)'
    /\ a \in requested' => Waits(i, a)'

\* The edge that ReadNext takes leaves pq (f_reader.cc:60-70).
LEMMA PendingTaken ==
    ASSUME FeaturesSound, NEW i \in Engine, CanRead(i),
           Changed(pq, pq', i, IF frs[i].pq_read_need THEN Tail(pq[i]) ELSE pq[i])
    PROVE  /\ pq' \in [Engine -> Seq(EdgeRecord)]
           /\ \A j \in Engine : \A k \in DOMAIN pq'[j] : PendingSound(j, pq'[j][k])
<1> DEFINE q == IF frs[i].pq_read_need THEN Tail(pq[i]) ELSE pq[i]
<1>1. /\ pq \in [Engine -> Seq(EdgeRecord)] /\ pq[i] \in Seq(EdgeRecord)
      /\ \A j \in Engine : \A k \in DOMAIN pq[j] : PendingSound(j, pq[j][k])
  BY Zenon DEF FeaturesSound
<1>2. /\ q \in Seq(EdgeRecord)
      /\ \A k \in DOMAIN q : \E l \in DOMAIN pq[i] : q[k] = pq[i][l]
  <2>1. CASE ~frs[i].pq_read_need
    BY <1>1, <2>1, Zenon
  <2>2. CASE frs[i].pq_read_need
    <3> DEFINE s == pq[i]
               t == Tail(pq[i])
    <3>1. s # <<>>
      BY <2>2, Zenon DEF CanRead
    <3>2. /\ t \in Seq(EdgeRecord) /\ Len(t) = Len(s) - 1
          /\ Len(s) \in Nat \ {0}
          /\ \A k \in 1 .. Len(s) - 1 : t[k] = s[k + 1]
      BY <1>1, <3>1, TailIsRest, Zenon
    <3>3. DOMAIN t = 1 .. Len(s) - 1 /\ DOMAIN s = 1 .. Len(s)
      BY <1>1, <3>2, LenProperties, Zenon
    <3> HIDE DEF s, t
    <3>4. \A k \in 1 .. Len(s) - 1 : k + 1 \in 1 .. Len(s)
      BY <3>2
    <3>5. \A k \in DOMAIN t : \E l \in DOMAIN s : t[k] = s[l]
      BY <3>2, <3>3, <3>4, Zenon
    <3> QED
      BY <2>2, <3>2, <3>5, Zenon DEF s, t
  <2> QED
    BY <2>1, <2>2, Zenon
<1> HIDE DEF q
<1>3. /\ pq' \in [Engine -> Seq(EdgeRecord)] /\ pq'[i] = q
      /\ \A j \in Engine \ {i} : pq'[j] = pq[j]
  <2>1. Changed(pq, pq', i, q)
    BY Zenon DEF q
  <2> QED
    BY <1>1, <1>2, <2>1, Zenon DEF Changed
<1>4. \A k \in DOMAIN q : PendingSound(i, q[k])
  BY <1>1, <1>2, Zenon
<1> QED
  BY <1>1, <1>3, <1>4, Zenon

\* ReadNext puts the line it has accessed into fq (f_reader.cc:103-147,
\* 160-217).
LEMMA LineRead ==
    ASSUME FeaturesSound, CacheSound, NEW i \in Engine, CanRead(i),
           Changed(pq, pq', i, IF frs[i].pq_read_need THEN Tail(pq[i]) ELSE pq[i]),
           NEW a \in Lines, Fetched(a),
           NEW e, e = a \/ (e = InCache(a) /\ a \in Held(sa_cache)),
           NEW ends \in EndMarks,
           Changed(fq, fq', i, Extended(fq[i], e, ends)),
           NEW f \in ReadRecord, Changed(frs, frs', i, f),
           ~f.pq_read_need => ReadSound(i, f) /\ (Dense => f.cur_col_idx > 0),
           ~frs[i].pq_read_need /\ frs[i].cur_col_idx = 0
              => x_to_addr[frs[i].dst][1] \in Held(sa_cache)
    PROVE  FeaturesSound' /\ ReadEffect(i, a)
<1> DEFINE q == fq[i]
           r == Extended(fq[i], e, ends)
<1>1. /\ fq \in [Engine -> Seq(Entries)] /\ q \in Seq(Entries)
      /\ \A j \in Engine : RowEndsFollow(fq[j])
      /\ frs \in [Engine -> ReadRecord]
      /\ \A j \in Engine : ~frs[j].pq_read_need =>
              ReadSound(j, frs[j]) /\ (Dense => frs[j].cur_col_idx > 0)
  BY Zenon DEF FeaturesSound
<1>2. e \in Entries /\ e # ROW_END
  <2>1. a > 0 /\ a \in Int
    BY LayoutAssumption, FeatureAssumption, SMTT(20) DEF Lines
  <2>2. InCache(a) # 0 /\ a # 0
    BY <2>1, SMTT(20) DEF InCache
  <2> QED
    BY <2>2, Zenon DEF Entries, ROW_END
<1>3. /\ r \in Seq(Entries) /\ RowEndsFollow(r)
      /\ Len(r) = Len(q) + 1 + Len(ends)
      /\ \A k \in 1 .. Len(q) : r[k] = q[k]
      /\ r[Len(q) + 1] = e
  <2>1. q \in Seq(Entries) /\ RowEndsFollow(q) /\ r = Extended(q, e, ends)
    BY <1>1, Zenon
  <2> HIDE DEF q, r
  <2> QED
    BY <1>2, <2>1, RowEndsAppended, SMTT(30)
<1>4. Changed(fq, fq', i, r)
  BY Zenon DEF r
<1>5. Len(q) \in Nat /\ DOMAIN q = 1 .. Len(q) /\ Len(ends) \in {0, 1}
  BY <1>1 DEF EndMarks
<1> HIDE DEF q, r
<1>6. DOMAIN r = 1 .. Len(r) /\ Len(r) \in Nat
  BY <1>3, LenProperties, Zenon
<1>7. /\ fq' \in [Engine -> Seq(Entries)] /\ fq'[i] = r
      /\ \A j \in Engine \ {i} : fq'[j] = fq[j]
  BY <1>1, <1>3, <1>4, Zenon DEF Changed
<1>8. /\ frs' \in [Engine -> ReadRecord] /\ frs'[i] = f
      /\ \A j \in Engine \ {i} : frs'[j] = frs[j]
  BY <1>1, Zenon DEF Changed
<1>9. FeaturesSound'
  <2>1. /\ pq' \in [Engine -> Seq(EdgeRecord)]
        /\ \A j \in Engine : \A k \in DOMAIN pq'[j] : PendingSound(j, pq'[j][k])
    BY PendingTaken, Zenon
  <2>2. \A j \in Engine : RowEndsFollow(fq'[j])
    BY <1>1, <1>3, <1>7, Zenon
  <2>3. \A j \in Engine : ~frs'[j].pq_read_need =>
              ReadSound(j, frs'[j]) /\ (Dense => frs'[j].cur_col_idx > 0)
    BY <1>1, <1>8, Zenon
  <2> QED
    BY <1>7, <1>8, <2>1, <2>2, <2>3, Zenon DEF FeaturesSound
<1>10. Range(q) \cup {e} \subseteq Range(r)
  <2>1. Len(q) + 1 \in DOMAIN r /\ \A k \in DOMAIN q : k \in DOMAIN r
    BY <1>3, <1>5, <1>6
  <2> QED
    BY <1>3, <1>5, <2>1, Zenon DEF Range
<1>11. ASSUME NEW line \in requested, Waits(i, line) PROVE Waits(i, line)'
  <2>1. line \notin Held(sa_cache)
    BY Zenon DEF CacheSound
  <2>2. line \in Range(q)
    BY <1>11, <2>1, Zenon DEF Waits, q
  <2> QED
    BY <1>7, <1>10, <2>2, Zenon DEF Waits
<1>12. a \in requested' => Waits(i, a)'
  <2> SUFFICES ASSUME a \in requested' PROVE Waits(i, a)'
    BY Zenon
  <2>1. a \notin Held(sa_cache)
    BY Zenon DEF CacheSound, Fetched
  <2>2. a \in Range(r)
    BY <1>10, <2>1, Zenon
  <2> QED
    BY <1>7, <2>2, Zenon DEF Waits
<1>13. q # <<>> => r # <<>> /\ Head(r) = Head(q)
  <2> HAVE q # <<>>
  <2>1. Len(q) \in Nat \ {0}
    BY <1>1, EmptySeq, Zenon
  <2>2. r[1] = q[1] /\ Len(r) > 0
    BY <1>3, <1>5, <1>6, <2>1, SMTT(20)
  <2>3. Head(r) = r[1] /\ Head(q) = q[1]
    OBVIOUS
  <2>4. r # <<>>
    BY <2>2
  <2> QED
    BY <2>2, <2>3, <2>4, Zenon
<1>14. Len(q) < FQ_LIMIT /\ Len(r) <= FQ_LIMIT + 1
  <2>1. Len(q) < FQ_LIMIT
    BY Zenon DEF CanRead, q
  <2>2. ASSUME NEW l \in Nat, NEW m \in {0, 1}, l < FQ_LIMIT PROVE l + 1 + m <= FQ_LIMIT + 1
    BY <2>2, LimitAssumption
  <2>3. Len(q) + 1 + Len(ends) <= FQ_LIMIT + 1
    BY <1>5, <2>1, <2>2, Zenon
  <2> QED
    BY <1>3, <2>1, <2>3, Zenon
<1> QED
  BY <1>7, <1>8, <1>9, <1>11, <1>12, <1>13, <1>14, Zenon DEF ReadEffect, q

\* A line per call, until the end of the pass's share (f_reader.cc:72-147).
LEMMA DenseRead ==
    ASSUME FeaturesSound, CacheSound, NEW i \in Engine, CanRead(i), Dense,
           Changed(pq, pq', i, IF frs[i].pq_read_need THEN Tail(pq[i]) ELSE pq[i]),
           ReadDense(i)
    PROVE  FeaturesSound' /\ \E a \in Lines : ReadEffect(i, a)
<1> DEFINE cur   == CurrentEdge(i)
           v     == cur.dst
           p     == cur.v_fold
           col   == cur.cur_col_idx
           b     == cur.v_fold * urb
           line  == ReturnAddress(v, col, p)
           entry == IF mode = "X_CMP" /\ Hit(sa_cache, line) THEN InCache(line) ELSE line
           atEnd == b + col = total_urb - 1 \/ col = urb - 1
           short == /\ mode = "X_CMP" /\ ~atEnd
                    /\ ReturnAddress(v, col + 1, p) = 0
           f     == [cur EXCEPT !.pq_read_need = atEnd \/ short,
                                !.cur_col_idx  = IF atEnd THEN @
                                                 ELSE IF short THEN urb - 1
                                                 ELSE @ + 1]
           ends  == RowEnd(cur, atEnd \/ short)
<1>1. cur \in ReadRecord /\ ReadSound(i, cur) /\ (~frs[i].pq_read_need => cur = frs[i])
  BY CurrentSound, Zenon
<1>2. /\ Fetch(sa_cache, line)
      /\ Changed(fq, fq', i, Extended(fq[i], entry, ends))
      /\ Changed(frs, frs', i, f)
  BY Zenon DEF ReadDense, Changed, Extended
<1>3. /\ urb \in Nat \ {0} /\ total_urb \in Nat /\ b \in Nat /\ b < total_urb
      /\ col \in Nat /\ p \in Nat
  BY <1>1, PassStart, PassAssumption, Zenon DEF ReadSound, ReadRecord
<1>4. v \in Vertices(i) /\ col < urb /\ b + col < total_urb /\ line # 0
  BY <1>1, Zenon DEF ReadSound
<1>5. /\ x_to_addr[v] \in Seq({0} \cup Lines) /\ Len(x_to_addr[v]) = total_urb
      /\ mode = "MAT" => \A n \in DOMAIN x_to_addr[v] : x_to_addr[v][n] # 0
  BY <1>4, VertexLinesFacts, Zenon
<1>6. \A c : ReturnAddress(v, c, p) = x_to_addr[v][b + c + 1]
  BY Zenon DEF ReturnAddress
<1>7. f.pq_read_need = (atEnd \/ short) /\ f.dst = v /\ f.v_fold = p
  BY <1>1, Zenon DEF ReadRecord
<1>8. f.cur_col_idx = IF atEnd THEN col ELSE IF short THEN urb - 1 ELSE col + 1
  BY <1>1, Zenon DEF ReadRecord
<1>9. f \in ReadRecord
  <2>1. urb - 1 \in Nat
    BY <1>3
  <2>2. (atEnd \/ short) \in BOOLEAN
    BY Zenon
  <2>3. (IF atEnd THEN col ELSE IF short THEN urb - 1 ELSE col + 1) \in Nat
    <3> HIDE DEF col, atEnd, short
    <3> QED
      BY <1>3, <2>1
  <2> HIDE DEF cur
  <2> QED
    BY <1>1, <2>2, <2>3, Zenon DEF ReadRecord
<1>10. ends \in EndMarks
  BY Zenon DEF RowEnd, EndMarks
<1>11. \/ entry = line
       \/ entry = InCache(line) /\ Hit(sa_cache, line)
  BY Zenon
<1>12. frs[i] \in ReadRecord /\ ~frs[i].pq_read_need => frs[i].cur_col_idx > 0
  BY Zenon DEF FeaturesSound
<1> DEFINE over == atEnd \/ short
<1>13. atEnd <=> (b + col = total_urb - 1 \/ col = urb - 1)
  BY Zenon
<1>14. mode = "X_CMP" /\ ReturnAddress(v, col + 1, p) = 0 => over
  BY Zenon
<1>15. atEnd => over
  BY Zenon
<1>16. f.pq_read_need <=> over
  BY <1>7, Zenon
<1>17. ~over => f.cur_col_idx = col + 1
  BY <1>8, Zenon
<1> HIDE DEF cur, v, p, col, b, line, entry, atEnd, short, f, ends, over
<1>18. line \in Lines
  <2>1. b + col + 1 \in 1 .. total_urb
    BY <1>3, <1>4
  <2>2. b + col + 1 \in DOMAIN x_to_addr[v]
    BY <1>5, <2>1, LenProperties, Zenon
  <2>3. x_to_addr[v][b + col + 1] \in {0} \cup Lines
    BY <1>5, <2>2, ElementOfSeq
  <2>4. line = x_to_addr[v][b + col + 1]
    BY <1>6, Zenon DEF line
  <2> QED
    BY <1>4, <2>3, <2>4, Zenon
<1>19. ~over => ReadSound(i, f) /\ f.cur_col_idx > 0
  <2> SUFFICES ASSUME ~over PROVE ReadSound(i, f) /\ f.cur_col_idx > 0
    BY Zenon
  <2>1. f.cur_col_idx = col + 1 /\ f.dst = v /\ f.v_fold = p
    BY <1>7, <1>17, Zenon
  <2>2. col + 1 < urb /\ b + (col + 1) < total_urb /\ col + 1 > 0
    BY <1>3, <1>4, <1>13, <1>15, SMTT(20)
  <2>3. ReturnAddress(v, col + 1, p) # 0
    <3>1. CASE mode = "X_CMP"
      BY <1>14, <3>1, Zenon
    <3>2. CASE mode = "MAT"
      <4>1. b + (col + 1) + 1 \in 1 .. total_urb
        BY <1>3, <2>2
      <4>2. b + (col + 1) + 1 \in DOMAIN x_to_addr[v]
        BY <1>5, <4>1, LenProperties, Zenon
      <4> QED
        BY <1>5, <1>6, <3>2, <4>2, Zenon
    <3> QED
      BY <3>1, <3>2, Zenon DEF Dense
  <2>4. p \in 0 .. bf - 1
    BY <1>1, Zenon DEF ReadSound, p
  <2>5. f.v_fold * urb + f.cur_col_idx < total_urb
    BY <2>1, <2>2, Zenon DEF b, p
  <2> QED
    BY <1>4, <2>1, <2>2, <2>3, <2>4, <2>5, Zenon DEF ReadSound
<1>20. Fetched(line)
  BY <1>2, <1>18, FetchDoes, Zenon DEF CacheSound
<1>21. Hit(sa_cache, line) <=> line \in Held(sa_cache)
  BY <1>18, HitIffHeld, Zenon DEF CacheSound
<1>22. frs[i].cur_col_idx # 0 \/ frs[i].pq_read_need
  <2>1. frs[i].cur_col_idx \in Nat
    BY <1>12, Zenon DEF ReadRecord, FeaturesSound
  <2> QED
    BY <1>12, <2>1 DEF FeaturesSound
<1>23. FeaturesSound' /\ ReadEffect(i, line)
  BY <1>2, <1>9, <1>10, <1>11, <1>16, <1>18, <1>19, <1>20, <1>21, <1>22, LineRead, Zenon
<1> QED
  BY <1>18, <1>23, Zenon

\* The first line of a vertex is not in the cache: it is requested, and waited
\* for (f_reader.cc:149-176).
LEMMA FirstLineMissed ==
    ASSUME FeaturesSound, CacheSound, NEW i \in Engine, CanRead(i), ~Dense,
           Changed(pq, pq', i, IF frs[i].pq_read_need THEN Tail(pq[i]) ELSE pq[i]),
           NEW a \in Lines, Fetched(a),
           a = x_to_addr[CurrentEdge(i).dst][1],
           CurrentEdge(i).cur_col_idx = 0,
           Changed(frs, frs', i, CurrentEdge(i)), fq' = fq
    PROVE  FeaturesSound' /\ ReadEffect(i, a)
<1> DEFINE cur == CurrentEdge(i)
<1>1. /\ cur \in ReadRecord /\ cur.pq_read_need = FALSE /\ ReadSound(i, cur)
      /\ ~frs[i].pq_read_need => cur = frs[i]
  BY CurrentSound, Zenon
<1>2. Changed(frs, frs', i, cur) /\ cur.cur_col_idx = 0 /\ a = x_to_addr[cur.dst][1]
  BY Zenon
<1> HIDE DEF cur
<1>3. /\ frs' \in [Engine -> ReadRecord] /\ frs'[i] = cur
      /\ \A j \in Engine \ {i} : frs'[j] = frs[j]
  BY <1>1, <1>2, Zenon DEF FeaturesSound, Changed
<1>4. FeaturesSound'
  <2>1. /\ pq' \in [Engine -> Seq(EdgeRecord)]
        /\ \A j \in Engine : \A k \in DOMAIN pq'[j] : PendingSound(j, pq'[j][k])
    BY PendingTaken, Zenon
  <2>2. \A j \in Engine : ~frs'[j].pq_read_need => ReadSound(j, frs'[j])
    BY <1>1, <1>3, Zenon DEF FeaturesSound
  <2> QED
    BY <1>3, <2>1, <2>2, Zenon DEF FeaturesSound
<1>5. Waits(i, a)'
  BY <1>1, <1>2, <1>3, Zenon DEF Waits
<1>6. \A line \in requested : Waits(i, line) => Waits(i, line)'
  BY <1>1, <1>3, Zenon DEF Waits
<1>7. Len(fq[i]) < FQ_LIMIT /\ Len(fq'[i]) <= FQ_LIMIT + 1
  <2>1. Len(fq[i]) \in Nat
    BY DEF FeaturesSound
  <2>2. Len(fq[i]) < FQ_LIMIT
    BY Zenon DEF CanRead
  <2> QED
    BY <2>1, <2>2, LimitAssumption, SMTT(20)
<1> QED
  BY <1>3, <1>4, <1>5, <1>6, <1>7, Zenon DEF ReadEffect

\* The lines of a vertex after its first one (f_reader.cc:149-219).
LEMMA SparseRead ==
    ASSUME FeaturesSound, CacheSound, NEW i \in Engine, CanRead(i), ~Dense,
           Changed(pq, pq', i, IF frs[i].pq_read_need THEN Tail(pq[i]) ELSE pq[i]),
           ReadSparse(i)
    PROVE  FeaturesSound' /\ \E a \in Lines : ReadEffect(i, a)
<1> DEFINE cur   == CurrentEdge(i)
           x     == x_to_addr[cur.dst]
           at0   == cur.cur_col_idx
           col   == IF cur.cur_col_idx = 0 THEN 1 ELSE cur.cur_col_idx
           c     == IF cur.cur_col_idx = 0 THEN Accessed(sa_cache, x[1]) ELSE sa_cache
           done  == col = Len(x) - 1
           f     == [cur EXCEPT !.pq_read_need = done,
                                !.cur_col_idx  = IF done THEN col ELSE col + 1]
           ends  == RowEnd(cur, done)
<1>1. /\ cur \in ReadRecord /\ ReadSound(i, cur)
      /\ ~frs[i].pq_read_need => cur = frs[i]
  BY CurrentSound, Zenon
<1>2. /\ at0 = 0 /\ ~Hit(sa_cache, x[1]) =>
            Fetch(sa_cache, x[1]) /\ Changed(frs, frs', i, cur) /\ fq' = fq
      /\ ~(at0 = 0 /\ ~Hit(sa_cache, x[1])) =>
            /\ Fetch(c, x[col + 1])
            /\ Changed(fq, fq', i, Extended(fq[i], x[col + 1], ends))
            /\ Changed(frs, frs', i, f)
  BY Zenon DEF ReadSparse, Changed, Extended
<1>3. /\ cur.dst \in Vertices(i) /\ cur.v_fold \in 0 .. bf - 1 /\ at0 \in Nat
      /\ at0 < Len(x)
  BY <1>1, Zenon DEF ReadSound, ReadRecord
<1>4. /\ x \in Seq({0} \cup Lines) /\ Len(x) >= 2 /\ \A n \in DOMAIN x : x[n] # 0
  BY <1>3, VertexLinesFacts, Zenon
<1>5. f.pq_read_need = done /\ f.dst = cur.dst /\ f.v_fold = cur.v_fold
  BY <1>1, Zenon DEF ReadRecord
<1>6. f.cur_col_idx = IF done THEN col ELSE col + 1
  BY <1>1, Zenon DEF ReadRecord
<1>7. done <=> col = Len(x) - 1
  BY Zenon
<1>8. col = IF at0 = 0 THEN 1 ELSE at0
  BY Zenon
<1>9. ends \in EndMarks
  BY Zenon DEF RowEnd, EndMarks
<1>10. f \in ReadRecord
  <2>1. done \in BOOLEAN
    BY Zenon
  <2>2. (IF done THEN col ELSE col + 1) \in Nat
    <3> HIDE DEF at0, col, done
    <3> QED
      BY <1>3, <1>8
  <2> HIDE DEF cur, col, done
  <2> QED
    BY <1>1, <2>1, <2>2, Zenon DEF ReadRecord
<1>11. at0 = 0 => c = Accessed(sa_cache, x[1])
  BY Zenon
<1>12. at0 # 0 => c = sa_cache
  BY Zenon
<1>13. \A n \in 1 .. Len(x) : x[n] \in Lines
  <2> HIDE DEF x
  <2> QED
    BY <1>4
<1> HIDE DEF x, col, c, done, f, ends
<1>14. Len(x) \in Nat
  BY <1>4
<1>15. x[1] \in Lines /\ (Hit(sa_cache, x[1]) <=> x[1] \in Held(sa_cache))
  BY <1>4, <1>13, <1>14, HitIffHeld DEF CacheSound
<1>16. CASE at0 = 0 /\ ~Hit(sa_cache, x[1])
  <2>1. Fetched(x[1])
    BY <1>2, <1>15, <1>16, FetchDoes, Zenon DEF CacheSound
  <2>2. /\ x[1] = x_to_addr[CurrentEdge(i).dst][1]
        /\ Changed(frs, frs', i, CurrentEdge(i)) /\ fq' = fq
        /\ CurrentEdge(i).cur_col_idx = 0
    BY <1>2, <1>16, Zenon DEF x
  <2> HIDE DEF cur
  <2>3. FeaturesSound' /\ ReadEffect(i, x[1])
    BY <1>15, <2>1, <2>2, FirstLineMissed, Zenon
  <2> QED
    BY <1>15, <2>3, Zenon
<1>17. CASE ~(at0 = 0 /\ ~Hit(sa_cache, x[1]))
  <2> HIDE DEF at0
  <2> DEFINE a == x[col + 1]
  <2>1. col \in Nat \ {0} /\ col + 1 \in 1 .. Len(x)
    BY <1>3, <1>4, <1>8, <1>14
  <2>2. a \in Lines
    BY <1>13, <2>1, Zenon
  <2>3. /\ c \in Caches /\ Held(c) = Held(sa_cache)
        /\ Orderly(sa_cache) => Orderly(c)
    BY <1>11, <1>12, <1>15, AccessedKeeps, Zenon DEF CacheSound
  <2>4. Fetched(a)
    BY <1>2, <1>17, <2>2, <2>3, FetchDoes, Zenon
  <2>5. ~f.pq_read_need => ReadSound(i, f)
    <3> SUFFICES ASSUME ~done PROVE ReadSound(i, f)
      BY <1>5, Zenon
    <3>1. f.cur_col_idx = col + 1 /\ f.dst = cur.dst /\ f.v_fold = cur.v_fold
      BY <1>5, <1>6, Zenon
    <3>2. col + 1 < Len(x)
      BY <1>7, <1>14, <2>1
    <3> HIDE DEF cur
    <3> QED
      BY <1>3, <3>1, <3>2, Zenon DEF ReadSound, x
  <2>6. ~frs[i].pq_read_need /\ frs[i].cur_col_idx = 0
            => x_to_addr[frs[i].dst][1] \in Held(sa_cache)
    BY <1>1, <1>15, <1>17, Zenon DEF x, at0
  <2> HIDE DEF cur
  <2>7. FeaturesSound' /\ ReadEffect(i, a)
    BY <1>2, <1>9, <1>10, <1>17, <2>2, <2>4, <2>5, <2>6, LineRead, Zenon
  <2> QED
    BY <2>2, <2>7, Zenon
<1> QED
  BY <1>16, <1>17, Zenon

\* ReadNext (f_reader.cc:72-219) reads one line of the engine's edges, or none.
LEMMA ReadNextDoes ==
    ASSUME FeaturesSound, CacheSound, NEW i \in Engine, ReadNext(i)
    PROVE  /\ FeaturesSound'
           /\ \/ UNCHANGED <<frVars, tq>>
              \/ WillAcceptTransaction /\ \E a \in Lines : ReadEffect(i, a)
<1>1. CASE ~CanRead(i)
  <2>1. UNCHANGED <<frVars, tq>>
    BY <1>1, Zenon DEF ReadNext
  <2>2. FeaturesSound'
    BY <2>1, Zenon DEF frVars, FeaturesSound
  <2> QED
    BY <2>1, <2>2, Zenon
<1>2. CASE CanRead(i)
  <2>1. Changed(pq, pq', i, IF frs[i].pq_read_need THEN Tail(pq[i]) ELSE pq[i])
    BY <1>2, Zenon DEF ReadNext, Changed
  <2>2. CASE Dense
    BY <1>2, <2>1, <2>2, DenseRead, Zenon DEF ReadNext, Dense, CanRead
  <2>3. CASE ~Dense
    BY <1>2, <2>1, <2>3, SparseRead, Zenon DEF ReadNext, Dense, CanRead
  <2> QED
    BY <2>2, <2>3, Zenon
<1> QED
  BY <1>1, <1>2, Zenon

\* A new edge goes to the end of pq (EnterFtoList, f_reader.cc:54-58).
LEMMA EnterSound ==
    ASSUME FeaturesSound, NEW i \in Engine, NEW e \in EdgeRecord, PendingSound(i, e),
           EnterFtoList(e), UNCHANGED <<frs, fq>>
    PROVE  FeaturesSound'
<1>1. /\ pq \in [Engine -> Seq(EdgeRecord)]
      /\ \A j \in Engine : \A k \in DOMAIN pq[j] : PendingSound(j, pq[j][k])
  BY Zenon DEF FeaturesSound
<1>2. e.id = i
  BY Zenon DEF PendingSound
<1>3. /\ pq' \in [Engine -> Seq(EdgeRecord)] /\ pq'[i] = Append(pq[i], e)
      /\ \A j \in Engine \ {i} : pq'[j] = pq[j]
  BY <1>1, <1>2 DEF EnterFtoList
<1>4. ASSUME NEW k \in DOMAIN pq'[i] PROVE PendingSound(i, pq'[i][k])
  <2>1. pq[i] \in Seq(EdgeRecord)
    BY <1>1, Zenon
  <2>2. pq'[i][k] = e \/ (k \in DOMAIN pq[i] /\ pq'[i][k] = pq[i][k])
    BY <1>3, <2>1
  <2> QED
    BY <1>1, <2>2, Zenon
<1> QED
  BY <1>1, <1>3, <1>4, Zenon DEF FeaturesSound

\* What PassFtoSIMD does when it passes a line of engine i.
PassEffect(i) ==
    /\ sa_cache' \in Caches /\ Held(sa_cache') = Held(sa_cache)
    /\ Orderly(sa_cache) => Orderly(sa_cache')
    /\ UNCHANGED <<frs, pq, requested, tq>>
    /\ Head(fq[i]) \notin requested
    /\ Len(fq'[i]) < Len(fq[i])
    /\ \A j \in Engine \ {i} : fq'[j] = fq[j]
    /\ \A line \in requested : Waits(i, line) => Waits(i, line)'

\* What it does when it requests a line again.
AgainEffect(i) ==
    /\ fq[i] # <<>> /\ Head(fq[i]) \in Lines /\ Fetched(Head(fq[i]))
    /\ UNCHANGED <<frs, pq, fq>>

\* A row end is never the next entry.
LEMMA NextEntry ==
    ASSUME FeaturesSound, NEW i \in Engine, fq[i] # <<>>
    PROVE  /\ 1 \in DOMAIN fq[i] /\ Head(fq[i]) = fq[i][1] /\ Head(fq[i]) # ROW_END
           /\ Head(fq[i]) \in Lines \/ Head(fq[i]) < 0
<1>1. fq[i] \in Seq(Entries) /\ RowEndsFollow(fq[i])
  BY Zenon DEF FeaturesSound
<1>2. 1 \in DOMAIN fq[i] /\ Head(fq[i]) = fq[i][1]
  BY <1>1
<1>3. Head(fq[i]) # ROW_END /\ Head(fq[i]) \in Entries
  BY <1>1, <1>2, SMTT(20) DEF RowEndsFollow
<1>4. \A a \in Lines : InCache(a) < 0
  BY LayoutAssumption, FeatureAssumption DEF InCache, Lines
<1> QED
  BY <1>2, <1>3, <1>4, Zenon DEF Entries

\* PassFtoSIMD (f_reader.cc:238-265).
LEMMA PassDoes ==
    ASSUME FeaturesSound, CacheSound, NEW i \in Engine, PassFtoSIMD(i)
    PROVE  /\ FeaturesSound'
           /\ UNCHANGED <<frVars, tq>> \/ PassEffect(i) \/ AgainEffect(i)
<1>1. CASE fq[i] = <<>> /\ UNCHANGED <<frVars, tq>>
  BY <1>1, Zenon DEF FeaturesSound, frVars
<1>2. CASE /\ ~CanPass(i) /\ fq[i] # <<>> /\ Fetch(sa_cache, Head(fq[i]))
           /\ UNCHANGED <<frs, pq, fq>>
  <2>1. Head(fq[i]) \in Lines
    BY <1>2, NextEntry, Zenon DEF CanPass
  <2>2. Fetched(Head(fq[i]))
    BY <1>2, <2>1, FetchDoes, Zenon DEF CacheSound
  <2>3. FeaturesSound'
    BY <1>2, Zenon DEF FeaturesSound
  <2> QED
    BY <1>2, <2>1, <2>2, <2>3, Zenon DEF AgainEffect
<1>3. CASE /\ CanPass(i)
           /\ sa_cache' = IF Head(fq[i]) < 0 THEN sa_cache
                          ELSE Accessed(sa_cache, Head(fq[i]))
           /\ fq' = [fq EXCEPT ![i] = IF PassEndsRow(i) THEN Tail(Tail(@)) ELSE Tail(@)]
           /\ UNCHANGED <<frs, pq, requested, tq>>
  <2> DEFINE q == fq[i]
             r == IF PassEndsRow(i) THEN Tail(Tail(q)) ELSE Tail(q)
             h == Head(q)
  <2>1. q # <<>> /\ (h < 0 \/ Hit(sa_cache, h))
    BY <1>3, Zenon DEF CanPass
  <2>2. 1 \in DOMAIN q /\ h = q[1] /\ (h \in Lines \/ h < 0)
    BY <2>1, NextEntry, Zenon
  <2>3. \A a \in Lines : a > 0 /\ ~(a < 0)
    BY LayoutAssumption, FeatureAssumption DEF Lines
  <2>4. h \notin requested
    <3>1. CASE h < 0
      BY <2>3, <3>1, Zenon DEF CacheSound
    <3>2. CASE h \in Lines /\ Hit(sa_cache, h)
      <4> HIDE DEF h
      <4>1. h \in Held(sa_cache)
        BY <3>2, HitIffHeld, Zenon DEF CacheSound
      <4> QED
        BY <4>1, Zenon DEF CacheSound
    <3> QED
      BY <2>1, <2>2, <3>1, <3>2, Zenon
  <2>5. /\ sa_cache' \in Caches /\ Held(sa_cache') = Held(sa_cache)
        /\ Orderly(sa_cache) => Orderly(sa_cache')
    <3>1. CASE h < 0
      BY <1>3, <3>1, Zenon DEF CacheSound
    <3>2. CASE ~(h < 0)
      <4>1. h \in Lines /\ sa_cache' = Accessed(sa_cache, h)
        BY <1>3, <2>2, <3>2, Zenon
      <4> HIDE DEF h
      <4> QED
        BY <4>1, AccessedKeeps, Zenon DEF CacheSound
    <3> QED
      BY <3>1, <3>2, Zenon
  <2>6. q \in Seq(Entries) /\ RowEndsFollow(q)
    BY Zenon DEF FeaturesSound
  <2>7. /\ Len(q) > 1 /\ q[2] = ROW_END => r = Tail(Tail(q))
        /\ ~(Len(q) > 1 /\ q[2] = ROW_END) => r = Tail(q)
    BY Zenon DEF PassEndsRow
  <2>8. fq' = [fq EXCEPT ![i] = r]
    BY <1>3, Zenon
  <2> HIDE DEF q, r
  <2>9. /\ r \in Seq(Entries) /\ RowEndsFollow(r) /\ Len(r) < Len(q)
        /\ \A k \in DOMAIN q : k # 1 /\ q[k] # ROW_END => q[k] \in Range(r)
    BY <2>1, <2>6, <2>7, RowEndsTaken, Zenon
  <2>10. /\ fq' \in [Engine -> Seq(Entries)] /\ fq'[i] = r
         /\ \A j \in Engine \ {i} : fq'[j] = fq[j]
    BY <2>8, <2>9, Zenon DEF FeaturesSound
  <2>11. FeaturesSound'
    BY <1>3, <2>9, <2>10, Zenon DEF FeaturesSound
  <2>12. ASSUME NEW line \in requested, Waits(i, line) PROVE Waits(i, line)'
    <3>1. line > 0
      BY <2>3, Zenon DEF CacheSound
    <3>2. CASE line \in Range(q)
      <4>1. PICK k \in DOMAIN q : q[k] = line
        BY <3>2, Zenon DEF Range
      <4>2. k # 1 /\ q[k] # ROW_END
        BY <2>2, <2>3, <2>4, <3>1, <4>1, Zenon DEF ROW_END, CacheSound
      <4>3. line \in Range(r)
        BY <2>9, <4>1, <4>2, Zenon
      <4> QED
        BY <2>10, <4>3, Zenon DEF Waits
    <3>3. CASE line \notin Range(q)
      BY <1>3, <2>12, <3>3, Zenon DEF Waits, q
    <3> QED
      BY <3>2, <3>3, Zenon
  <2>13. PassEffect(i)
    BY <1>3, <2>4, <2>5, <2>9, <2>10, <2>12, Zenon DEF PassEffect, q
  <2> QED
    BY <2>11, <2>13, Zenon
<1> QED
  BY <1>1, <1>2, <1>3, Zenon DEF PassFtoSIMD

\* FeatureReceive (f_reader.cc:222-235).
LEMMA ReceiveKeeps ==
    ASSUME CacheSound, mem_fq \in Seq(Lines), FeatureReceive
    PROVE  /\ CacheSound' /\ mem_fq' = <<>>
           /\ Orderly(sa_cache) /\ IsInjective(mem_fq) /\ Held(sa_cache) \cap Range(mem_fq) = {}
                  => Orderly(sa_cache')
BY InsertedAllKeeps, Zenon DEF CacheSound, FeatureReceive

-----------------------------------------------------------------------------
(* The SIMD units. *)

WritesSound ==
    /\ wq \in [Engine -> Seq(Nat)]
    /\ ss \in [Engine -> [cur_row_idx : Nat, cur_bf : Nat, write_urb : Nat, cnt : Nat]]

\* GetFeature (simd.cc:29-57) produces addresses.
LEMMA GetFeatureSound ==
    ASSUME WritesSound, NEW i \in Engine, NEW f, GetFeature(i, f)
    PROVE  WritesSound'
<1>1. CASE f # 0
  BY <1>1, Zenon DEF GetFeature, simdVars, WritesSound
<1>2. CASE f = 0
  <2> DEFINE s == ss[i]
             n == Max({s.write_urb, 0})
             wrap == s.cur_row_idx + 1 = nonzero_row(i)
             start == AxwStart(i) + s.cnt
             new == [k \in 1 .. n |-> AxwStart(i) + s.cnt + k - 1]
             last == total_urb - urb * (bf - 1)
             t == [cur_row_idx |-> IF wrap THEN 0 ELSE s.cur_row_idx + 1,
                   cur_bf      |-> IF wrap THEN s.cur_bf + 1 ELSE s.cur_bf,
                   write_urb   |-> IF wrap /\ s.cur_bf + 1 = bf THEN last ELSE s.write_urb,
                   cnt         |-> s.cnt + n]
  <2>1. wq' = [wq EXCEPT ![i] = @ \o new] /\ ss' = [ss EXCEPT ![i] = t]
    BY <1>2, Zenon DEF GetFeature
  <2>2. s \in [cur_row_idx : Nat, cur_bf : Nat, write_urb : Nat, cnt : Nat]
    BY Zenon DEF WritesSound
  <2>3. n \in Nat
    <3>1. \A m \in Nat : Max({m, 0}) \in Nat
      <4> SUFFICES ASSUME NEW m \in Nat PROVE Max({m, 0}) \in Nat
        BY Zenon
      <4>1. \E x \in {m, 0} : \A y \in {m, 0} : x >= y
        OBVIOUS
      <4> QED
        BY <4>1 DEF Max
    <3> QED
      BY <2>2, <3>1, Zenon
  <2>4. last \in Nat
    <3> DEFINE m == urb * (bf - 1)
    <3>1. m \in Nat /\ m < total_urb /\ total_urb \in Nat
      BY PassAssumption, BfAssumption
    <3> HIDE DEF m
    <3>2. total_urb - m \in Nat
      BY <3>1
    <3> QED
      BY <3>2, Zenon DEF m
  <2>5. start \in Nat
    <3> DEFINE d == (a_h + n_of_engine - 1) \div n_of_engine
    <3>1. n_of_engine \in Nat \ {0} /\ a_h \in Nat /\ axw_addr_start \in Nat /\ i \in Nat
          /\ bf \in Nat /\ urb \in Nat
      BY LayoutAssumption, RowAssumption, BfAssumption, PassAssumption
    <3>2. d \in Nat
      BY <3>1
    <3> HIDE DEF d
    <3>3. d * i \in Nat
      BY <3>1, <3>2
    <3>4. d * i * bf \in Nat
      BY <3>1, <3>3
    <3>5. d * i * bf * urb \in Nat
      BY <3>1, <3>4
    <3>6. AxwStart(i) \in Nat
      BY <3>1, <3>5 DEF AxwStart, d
    <3> QED
      BY <2>2, <3>6
  <2>6. t \in [cur_row_idx : Nat, cur_bf : Nat, write_urb : Nat, cnt : Nat]
    <3> HIDE DEF wrap, last, n
    <3> QED
      BY <2>2, <2>3, <2>4
  <2>7. new \in Seq(Nat)
    <3>1. \A k \in 1 .. n : start + k - 1 \in Nat
      <4> HIDE DEF start, n
      <4> QED
        BY <2>3, <2>5
    <3>2. new \in [1 .. n -> Nat]
      BY <3>1, Zenon
    <3> HIDE DEF new, n
    <3> QED
      BY <2>3, <3>2, SeqDef, Zenon
  <2> HIDE DEF new, t
  <2>8. wq[i] \o new \in Seq(Nat)
    BY <2>7 DEF WritesSound
  <2> QED
    BY <2>1, <2>6, <2>8, Zenon DEF WritesSound
<1> QED
  BY <1>1, <1>2, Zenon

\* Write (simd.cc:59-72) moves an address to tq.
LEMMA WriteSound ==
    ASSUME WritesSound, NEW i \in Engine, Write(i), tq \in Seq(Transactions)
    PROVE  /\ WritesSound'
           /\ \/ tq' = tq
              \/ WillAcceptTransaction /\ \E a \in Nat : tq' = Append(tq, WRITE(a))
<1>1. CASE wq[i] # <<>> /\ WillAcceptTransaction
  <2>1. wq[i] \in Seq(Nat)
    BY Zenon DEF WritesSound
  <2>2. Head(wq[i]) \in Nat /\ Tail(wq[i]) \in Seq(Nat)
    BY <1>1, <2>1
  <2>3. /\ tq' = Append(tq, WRITE(Head(wq[i]))) /\ wq' = [wq EXCEPT ![i] = Tail(@)]
        /\ ss' = ss
    BY <1>1, Zenon DEF Write
  <2> QED
    BY <1>1, <2>2, <2>3, Zenon DEF WritesSound
<1>2. CASE ~(wq[i] # <<>> /\ WillAcceptTransaction)
  BY <1>2, Zenon DEF Write, WritesSound
<1> QED
  BY <1>1, <1>2, Zenon

=============================================================================
