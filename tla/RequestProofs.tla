---------------------------- MODULE RequestProofs --------------------------
(***************************************************************************)
(* Proofs about the Accelerator when no vertices are preloaded: one        *)
(* request per line, a cache without doubles, and bounded queues.          *)
(***************************************************************************)
EXTENDS AcceleratorProofs

-----------------------------------------------------------------------------
(* One request per line, without preloading. *)

\* DAVCRead is not called: it asks for one address again and again, and leaves
\* what it does not take to the first FeatureReceive.
NoPreload == davc_reads = 0 /\ at \notin {"DAVCRead", "DAVC UpdateCycle"}

LEMMA NoPreloadStep ==
    ASSUME NoPreload, [Next]_vars
    PROVE  NoPreload' /\ ~DAVCRequest /\ ~DAVCComplete /\ ~DAVCGetFeature
<1>1. ~DAVCRequest /\ ~DAVCComplete /\ ~DAVCGetFeature
  BY DEF NoPreload, DAVCRequest, DAVCComplete, DAVCGetFeature
<1>2. at' = at \/ at' \notin {"DAVCRead", "DAVC UpdateCycle"}
  <2>1. CASE EngineStep
    BY <2>1, Zenon
       DEF EngineStep, VertexRequest, EdgeRequest, GraphReceive, NextFeatureOver,
                NextFeatureRow, NextFeatureReturn, ReadNextCall, PassCall, WriteCall, Call
  <2>2. CASE FeatureReceiveCall \/ ConsumeCall \/ CompleteCall \/ CycleEnd
    BY <2>2, Zenon DEF FeatureReceiveCall, ConsumeCall, CompleteCall, CycleEnd, Call
  <2>3. CASE UNCHANGED vars
    BY <2>3, Zenon DEF vars
  <2> QED
    BY <1>1, <2>1, <2>2, <2>3, Zenon DEF Next, MemoryStep, Consuming, Completing, Exited
<1> QED
  BY <1>1, <1>2, Zenon DEF NoPreload

\* What a call does to the requests that are on their way.
LEMMA RequestCalls ==
    ASSUME Sound, NoPreload, [Next]_vars
    PROVE  \/ AsMany /\ CacheUntouched
           \/ AsMany /\ PassesLine
           \/ OneMore /\ \E a \in Lines : Fetched(a)
           \/ FeatureReceive /\ UNCHANGED <<tq, dram>>
<1>1. EveryEngineHasEdges /\ ReadersSound /\ MemorySound /\ FeaturesSound /\ WritesSound
  BY DEF Sound
<1>2. CASE CacheUntouched /\ UNCHANGED <<tq, rq, mem_fq, dram>>
  BY <1>1, <1>2, MemorySame, Zenon
<1>3. CASE ReadNextCall /\ ReadsLine
  <2>1. UNCHANGED <<rq, mem_fq, dram>>
    BY <1>3, Zenon DEF ReadNextCall
  <2>2. PICK a \in Lines : Fetched(a)
    BY <1>3, Zenon DEF ReadsLine, ReadEffect
  <2> QED
    BY <1>1, <2>1, <2>2, FetchedCounts, Zenon
<1>4. CASE PassCall /\ AsksAgain
  <2>1. UNCHANGED <<rq, mem_fq, dram>>
    BY <1>4, Zenon DEF PassCall
  <2>2. PICK a \in Lines : Fetched(a)
    BY <1>4, Zenon DEF AsksAgain, AgainEffect
  <2> QED
    BY <1>1, <2>1, <2>2, FetchedCounts
<1>5. CASE PassCall /\ PassesLine
  <2>1. UNCHANGED <<tq, rq, mem_fq, dram>>
    BY <1>5, Zenon DEF PassCall, PassesLine, PassEffect
  <2> QED
    BY <1>1, <1>5, <2>1, MemorySame, Zenon
<1>6. CASE FeatureReceiveCall
  BY <1>6, Zenon DEF FeatureReceiveCall
<1>7. CASE CacheUntouched /\ ~ReadNextCall /\ ~PassCall /\ ~FeatureReceiveCall
  <2>1. CASE VertexRequest \/ EdgeRequest
    BY <1>1, <1>7, <2>1, RequestDoes, Zenon
  <2>2. CASE GraphReceive
    BY <1>7, <2>2, Zenon DEF GraphReceive, AsMany, Outstanding, Copies
  <2>3. CASE WriteCall
    BY <1>1, <1>7, <2>3, WriteDoes, Zenon
  <2>4. CASE ConsumeCall
    BY <1>1, <1>7, <2>4, ConsumeDoes, Zenon DEF ConsumeCall
  <2>5. CASE CompleteCall
    BY <1>1, <1>7, <2>5, CompleteDoes, Zenon DEF CompleteCall
  <2>6. CASE UNCHANGED <<tq, rq, mem_fq, dram>>
    BY <1>2, <1>7, <2>6, Zenon
  <2> QED
    BY <1>7, <2>1, <2>2, <2>3, <2>4, <2>5, <2>6, MemoryFrame, NoPreloadStep, Zenon
<1> QED
  BY <1>2, <1>3, <1>4, <1>5, <1>6, <1>7, CacheCalls, Zenon

\* Received lines are requested, each of them once.
LEMMA ReceivedOnce ==
    ASSUME Sound, OneRequestPerLine
    PROVE  /\ IsInjective(mem_fq) /\ Range(mem_fq) \subseteq requested
           /\ \A line \in Lines : /\ Occurrences(tq, READ(line)) \in Nat
                                  /\ Copies(READ(line)) \in Nat
                                  /\ Occurrences(mem_fq, line) \in Nat
           /\ \A line \in Lines : line \in Range(mem_fq) <=> Occurrences(mem_fq, line) > 0
<1>1. mem_fq \in Seq(Lines) /\ tq \in Seq(Transactions) /\ DramSound
  BY DEF Sound, MemorySound
<1>2. ASSUME NEW line \in Lines
      PROVE  /\ Occurrences(tq, READ(line)) \in Nat
             /\ Copies(READ(line)) \in Nat
             /\ Occurrences(mem_fq, line) \in Nat
             /\ line \in Range(mem_fq) <=> Occurrences(mem_fq, line) > 0
  BY <1>1, OccurrencesNat, OccurrencesPositive, CopiesNat, Zenon
<1>3. ASSUME NEW line \in Lines
      PROVE  /\ Occurrences(mem_fq, line) <= 1
             /\ Occurrences(mem_fq, line) > 0 => line \in requested
  BY <1>2 DEF OneRequestPerLine, Outstanding
<1>4. Range(mem_fq) \subseteq Lines
  BY <1>1 DEF Range
<1>5. Range(mem_fq) \subseteq requested
  BY <1>2, <1>3, <1>4, Zenon
<1>6. ASSUME NEW j \in DOMAIN mem_fq, NEW k \in DOMAIN mem_fq, mem_fq[j] = mem_fq[k]
      PROVE  j = k
  <2>1. mem_fq[k] \in Lines
    BY <1>1
  <2>2. Occurrences(mem_fq, mem_fq[k]) <= 1
    BY <1>3, <2>1, Zenon
  <2> QED
    BY <1>1, <1>6, <2>2, OccurrencesOnce, Zenon
<1> QED
  BY <1>2, <1>5, <1>6, Zenon DEF IsInjective

\* Every call keeps one request per line, and lines of the cache apart.
LEMMA RequestStep ==
    ASSUME Sound, NoPreload, OneRequestPerLine, Orderly(sa_cache), [Next]_vars
    PROVE  OneRequestPerLine' /\ Orderly(sa_cache')
<1>1. CacheSound /\ mem_fq \in Seq(Lines)
  BY DEF Sound, MemorySound
<1>2. CASE AsMany /\ CacheUntouched
  BY <1>2, Zenon DEF AsMany, CacheUntouched, OneRequestPerLine
<1>3. CASE AsMany /\ PassesLine
  BY <1>3, Zenon DEF AsMany, PassesLine, PassEffect, OneRequestPerLine
<1>4. CASE OneMore /\ \E a \in Lines : Fetched(a)
  <2>1. Orderly(sa_cache')
    BY <1>4, Zenon DEF Fetched
  <2> QED
    BY <1>4, <2>1 DEF OneMore, OneRequestPerLine
<1>5. CASE FeatureReceive /\ UNCHANGED <<tq, dram>>
  <2>1. /\ requested' = requested \ Range(mem_fq) /\ mem_fq' = <<>>
        /\ UNCHANGED <<tq, dram>>
    BY <1>5, Zenon DEF FeatureReceive
  <2>2. Held(sa_cache) \cap Range(mem_fq) = {}
    BY <1>1, ReceivedOnce, Zenon DEF CacheSound
  <2>3. Orderly(sa_cache')
    BY <1>1, <1>5, <2>2, ReceivedOnce, ReceiveKeeps, Zenon
  <2>4. ASSUME NEW line \in Lines
        PROVE  Outstanding(line)' = IF line \in requested' THEN 1 ELSE 0
    <3> DEFINE o == Occurrences(tq, READ(line))
               c == Copies(READ(line))
               m == Occurrences(mem_fq, line)
    <3>1. o \in Nat /\ c \in Nat /\ m \in Nat /\ (line \in Range(mem_fq) <=> m > 0)
      BY ReceivedOnce, Zenon
    <3>2. o + c + m = IF line \in requested THEN 1 ELSE 0
      BY DEF OneRequestPerLine, Outstanding
    <3>3. Outstanding(line)' = o + c
      <4>1. Occurrences(mem_fq', line) = 0
        BY <2>1, OccurrencesNone, Zenon
      <4>2. Occurrences(tq', READ(line)) = o /\ Copies(READ(line))' = c
        BY <2>1, Zenon DEF Copies
      <4>3. Outstanding(line)' = o + c + 0
        BY <4>1, <4>2, Zenon DEF Outstanding
      <4> HIDE DEF o, c
      <4> QED
        BY <3>1, <4>3
    <3> HIDE DEF o, c, m
    <3> QED
      BY <2>1, <3>1, <3>2, <3>3
  <2> QED
    BY <2>3, <2>4, Zenon DEF OneRequestPerLine
<1> QED
  BY <1>2, <1>3, <1>4, <1>5, RequestCalls, Zenon

\* Without preloading, the invariant of the requests.
OnceInv == Sound /\ NoPreload /\ OneRequestPerLine /\ Orderly(sa_cache)

LEMMA RequestInit ==
    ASSUME EveryEngineHasEdges, davc_reads = 0, Init
    PROVE  OnceInv
<1>1. Sound
  BY SoundInit, Zenon
<1>2. NoPreload
  BY Zenon DEF Init, NoPreload
<1>3. OneRequestPerLine
  <2>1. tq = <<>> /\ mem_fq = <<>> /\ dram = [t \in {} |-> 0] /\ requested = {}
    BY Zenon DEF Init, MemoryInit, DramInit, FeatureReaderInit
  <2>2. \A t : Copies(t) = 0
    BY <2>1, Zenon DEF Copies
  <2>3. \A t : Occurrences(tq, t) = 0 /\ Occurrences(mem_fq, t) = 0
    BY <2>1, OccurrencesNone, Zenon
  <2> QED
    BY <2>1, <2>2, <2>3 DEF OneRequestPerLine, Outstanding
<1>4. Orderly(sa_cache)
  <2>1. sa_cache = [s \in 0 .. cache_set - 1 |-> <<>>]
    BY DEF Init, FeatureReaderInit, NewCache
  <2> QED
    BY <2>1, CacheAssumption DEF Orderly, IsInjective
<1> QED
  BY <1>1, <1>2, <1>3, <1>4, Zenon DEF OnceInv

LEMMA RequestInvariant ==
    Spec /\ EveryEngineHasEdges /\ davc_reads = 0 => []OnceInv
<1>1. Init /\ EveryEngineHasEdges /\ davc_reads = 0 => OnceInv
  BY RequestInit, Zenon
<1>2. OnceInv /\ [Next]_vars => OnceInv'
  BY SoundStep, NoPreloadStep, RequestStep, Zenon DEF OnceInv
<1> QED
  BY <1>1, <1>2, PTL DEF Spec

\* A line is requested exactly as long as one answer for it is on its way,
\* when no vertices are preloaded (f_reader.cc:114-117, 232 and 251-254).
THEOREM RequestedOnce ==
    Spec /\ EveryEngineHasEdges /\ davc_reads = 0 => []OneRequestPerLine
<1>1. OnceInv => OneRequestPerLine
  BY Zenon DEF OnceInv
<1> QED
  BY <1>1, RequestInvariant, PTL

\* The cache holds no line twice, nor one that is requested, nor more than its
\* ways, when no vertices are preloaded (cache.cc:14-21, f_reader.cc:114-117
\* and 231-232).
THEOREM CacheStaysConsistent ==
    Spec /\ EveryEngineHasEdges /\ davc_reads = 0 => []CacheConsistent
<1>1. OnceInv => CacheConsistent
  <2> SUFFICES ASSUME OnceInv PROVE CacheConsistent
    OBVIOUS
  <2>1. DOMAIN sa_cache = 0 .. cache_set - 1 /\ Held(sa_cache) \cap requested = {}
    BY DEF OnceInv, Sound, CacheSound, Caches
  <2>2. \A s \in 0 .. cache_set - 1 : Range(sa_cache[s]) \subseteq Held(sa_cache)
    BY Zenon DEF Held
  <2> QED
    BY <2>1, <2>2, Zenon DEF OnceInv, Orderly, CacheConsistent
<1> QED
  BY <1>1, RequestInvariant, PTL

-----------------------------------------------------------------------------
(* The queues. *)

\* Beyond what the readers, ReadNext and Write may add, tq holds only requests
\* of PassFtoSIMD: each for the line that is first in the fq of an engine.
QueueTail ==
    \A k \in DOMAIN tq : k > REQUEST_LIMIT + 1 =>
        \E i \in Engine : fq[i] # <<>> /\ tq[k] = READ(Head(fq[i]))

FqBounded == \A i \in Engine : Len(fq[i]) <= FQ_LIMIT + 1

\* The first line of fq that tq asks for is a requested feature line.
LEMMA TailRequested ==
    ASSUME OnceInv, NEW k \in DOMAIN tq, NEW i \in Engine, fq[i] # <<>>,
           tq[k] = READ(Head(fq[i]))
    PROVE  /\ Head(fq[i]) \in Lines /\ Head(fq[i]) \in requested
           /\ Occurrences(tq, tq[k]) <= 1
<1> DEFINE a == Head(fq[i])
<1>1. Sound /\ OneRequestPerLine /\ tq \in Seq(Transactions) /\ FeaturesSound
  BY DEF OnceInv, Sound, MemorySound
<1>2. a \in Lines \/ a < 0
  BY <1>1, NextEntry, Zenon
<1>3. tq[k] \in Transactions
  BY <1>1
<1>4. a \in Lines
  <2>1. \A b \in GraphLines \cup Lines : b \in Nat
    BY LayoutAssumption DEF GraphLines, Lines
  <2>2. \/ \E b \in GraphLines \cup Lines : READ(a) = READ(b)
        \/ \E b \in Nat : READ(a) = WRITE(b)
    BY <1>3, Zenon DEF Transactions
  <2>3. \A b : READ(a) # WRITE(b) /\ (READ(a) = READ(b) => a = b)
    BY DEF READ, WRITE
  <2>4. a \in Nat
    BY <2>1, <2>2, <2>3, Zenon
  <2> HIDE DEF a
  <2> QED
    BY <1>2, <2>4
<1> DEFINE o == Occurrences(tq, READ(a))
           c == Copies(READ(a))
           m == Occurrences(mem_fq, a)
<1>5. o \in Nat /\ c \in Nat /\ m \in Nat
  BY <1>1, <1>4, ReceivedOnce, Zenon
<1>6. o > 0
  <2>1. READ(a) \in Range(tq)
    BY DEF Range
  <2> QED
    BY <1>1, <2>1, OccurrencesPositive, Zenon
<1>7. o + c + m = IF a \in requested THEN 1 ELSE 0
  BY <1>1, <1>4, Zenon DEF OneRequestPerLine, Outstanding
<1>8. Occurrences(tq, tq[k]) = o
  OBVIOUS
<1> HIDE DEF o, c, m
<1>9. a \in requested /\ o <= 1
  BY <1>5, <1>6, <1>7
<1> QED
  BY <1>4, <1>8, <1>9, Zenon

\* The first entry of every fq stays where it is, and none gets too long.
HeadsKept ==
    \A i \in Engine : /\ fq[i] # <<>> => fq'[i] # <<>> /\ Head(fq'[i]) = Head(fq[i])
                      /\ Len(fq'[i]) <= FQ_LIMIT + 1

\* What is far back in tq was far back before.
TailKept ==
    \A k \in DOMAIN tq' : k > REQUEST_LIMIT + 1 =>
        \E j \in DOMAIN tq : j > REQUEST_LIMIT + 1 /\ tq'[k] = tq[j]

LEMMA BothKept ==
    ASSUME QueueTail, HeadsKept, TailKept
    PROVE  QueueTail' /\ FqBounded'
<1>1. ASSUME NEW k \in DOMAIN tq', k > REQUEST_LIMIT + 1
      PROVE  \E i \in Engine : fq'[i] # <<>> /\ tq'[k] = READ(Head(fq'[i]))
  <2>1. PICK j \in DOMAIN tq : j > REQUEST_LIMIT + 1 /\ tq'[k] = tq[j]
    BY <1>1, Zenon DEF TailKept
  <2>2. PICK i \in Engine : fq[i] # <<>> /\ tq[j] = READ(Head(fq[i]))
    BY <2>1, Zenon DEF QueueTail
  <2>3. fq'[i] # <<>> /\ Head(fq'[i]) = Head(fq[i])
    BY <2>2, Zenon DEF HeadsKept
  <2> QED
    BY <2>1, <2>2, <2>3, Zenon
<1> QED
  BY <1>1, Zenon DEF QueueTail, FqBounded, HeadsKept

\* A call that adds to tq after looking whether it may.
LEMMA AddedInTime ==
    ASSUME tq \in Seq(Transactions), tq' \in Seq(Transactions),
           tq' = tq \/ (WillAcceptTransaction /\ Len(tq') <= Len(tq) + 2)
    PROVE  TailKept
<1>1. CASE tq' = tq
  BY <1>1, Zenon DEF TailKept
<1>2. CASE WillAcceptTransaction /\ Len(tq') <= Len(tq) + 2
  <2>1. \A n, m \in Nat : \A r \in Nat : \A k \in 1 .. m :
            n < r /\ m <= n + 2 => ~(k > r + 1)
    OBVIOUS
  <2>2. /\ Len(tq) \in Nat /\ Len(tq') \in Nat /\ REQUEST_LIMIT \in Nat
        /\ DOMAIN tq' = 1 .. Len(tq')
    BY MemoryAssumption
  <2>3. \A k \in DOMAIN tq' : ~(k > REQUEST_LIMIT + 1)
    BY <1>2, <2>1, <2>2, Zenon DEF WillAcceptTransaction
  <2> QED
    BY <2>3, Zenon DEF TailKept
<1> QED
  BY <1>1, <1>2, Zenon

\* What the DRAM does not take moves forward.
LEMMA MovedForward ==
    ASSUME tq \in Seq(Transactions), DramSound, ConsumeTransaction(tq)
    PROVE  TailKept
<1>1. /\ tq' \in Seq(Transactions)
      /\ \E n \in 0 .. Len(tq) :
            Len(tq') = Len(tq) - n /\ \A j \in 1 .. Len(tq) - n : tq'[j] = tq[n + j]
  BY ConsumeKeeps, Zenon
<1>2. PICK n \in 0 .. Len(tq) :
          Len(tq') = Len(tq) - n /\ \A j \in 1 .. Len(tq) - n : tq'[j] = tq[n + j]
  BY <1>1, Zenon
<1>3. /\ Len(tq) \in Nat /\ DOMAIN tq = 1 .. Len(tq) /\ REQUEST_LIMIT \in Nat
      /\ DOMAIN tq' = 1 .. Len(tq')
  BY <1>1, MemoryAssumption
<1>4. ASSUME NEW k \in DOMAIN tq', k > REQUEST_LIMIT + 1
      PROVE  n + k \in DOMAIN tq /\ n + k > REQUEST_LIMIT + 1 /\ tq'[k] = tq[n + k]
  <2>1. \A l, r \in Nat : \A m \in 0 .. l : \A j \in 1 .. l - m :
            m + j \in 1 .. l /\ (j > r + 1 => m + j > r + 1)
    OBVIOUS
  <2>2. k \in 1 .. Len(tq) - n
    BY <1>2, <1>3, Zenon
  <2> QED
    BY <1>2, <1>3, <1>4, <2>1, <2>2, Zenon
<1> QED
  BY <1>4, Zenon DEF TailKept

\* Every call keeps the queues within their bounds.
LEMMA QueueStep ==
    ASSUME OnceInv, QueueTail, FqBounded, [Next]_vars
    PROVE  QueueTail' /\ FqBounded'
<1>1. /\ Sound /\ NoPreload /\ EveryEngineHasEdges /\ ReadersSound /\ MemorySound
      /\ WritesSound /\ FeaturesSound /\ tq \in Seq(Transactions) /\ DramSound
  BY DEF OnceInv, Sound, MemorySound
<1>2. tq' \in Seq(Transactions)
  BY <1>1, MemoryStepSound, Zenon DEF MemorySound
<1>3. CASE UNCHANGED <<fq, tq>>
  BY <1>3, Zenon DEF QueueTail, FqBounded
<1>4. CASE WillAcceptTransaction /\ ReadsLine
  <2>1. PICK e \in Engine, a \in Lines : ReadEffect(e, a)
    BY <1>4, Zenon DEF ReadsLine
  <2>2. HeadsKept
    BY <2>1, Zenon DEF HeadsKept, ReadEffect, FqBounded
  <2>3. tq' = tq \/ tq' = Append(tq, READ(a))
    BY <2>1, Zenon DEF ReadEffect, Fetched
  <2>4. tq' = tq \/ Len(tq') <= Len(tq) + 2
    BY <1>1, <2>3
  <2>5. TailKept
    BY <1>1, <1>2, <1>4, <2>4, AddedInTime, Zenon
  <2> QED
    BY <2>2, <2>5, BothKept, Zenon
<1>5. CASE PassesLine
  <2>1. PICK e \in Engine : PassEffect(e)
    BY <1>5, Zenon DEF PassesLine
  <2>2. /\ tq' = tq /\ Head(fq[e]) \notin requested /\ Len(fq'[e]) < Len(fq[e])
        /\ \A j \in Engine \ {e} : fq'[j] = fq[j]
    BY <2>1, Zenon DEF PassEffect
  <2>3. ASSUME NEW k \in DOMAIN tq', k > REQUEST_LIMIT + 1
        PROVE  \E i \in Engine : fq'[i] # <<>> /\ tq'[k] = READ(Head(fq'[i]))
    <3>1. PICK i \in Engine : fq[i] # <<>> /\ tq[k] = READ(Head(fq[i]))
      BY <2>2, <2>3, Zenon DEF QueueTail
    <3>2. k \in DOMAIN tq
      BY <2>2, Zenon
    <3>3. Head(fq[i]) \in requested
      BY <3>1, <3>2, TailRequested, Zenon
    <3>4. fq'[i] = fq[i]
      BY <2>2, <3>3, Zenon
    <3> QED
      BY <2>2, <3>1, <3>4, Zenon
  <2>4. ASSUME NEW i \in Engine PROVE Len(fq'[i]) <= FQ_LIMIT + 1
    <3>1. fq[i] \in Seq(Entries) /\ fq'[i] \in Seq(Entries)
      BY <1>1, FeaturesStep, Zenon DEF FeaturesSound
    <3>2. Len(fq[i]) \in Nat /\ Len(fq'[i]) \in Nat /\ FQ_LIMIT \in Nat
      BY <3>1, LimitAssumption
    <3>3. Len(fq'[i]) <= Len(fq[i]) /\ Len(fq[i]) <= FQ_LIMIT + 1
      BY <2>2, <3>2 DEF FqBounded
    <3> QED
      BY <3>2, <3>3
  <2> QED
    BY <2>3, <2>4, Zenon DEF QueueTail, FqBounded
<1>6. CASE AsksAgain
  <2>1. PICK e \in Engine : AgainEffect(e)
    BY <1>6 DEF AsksAgain
  <2>2. /\ fq[e] # <<>> /\ fq' = fq
        /\ tq' = tq \/ tq' = Append(tq, READ(Head(fq[e])))
    BY <2>1, Zenon DEF AgainEffect, Fetched
  <2>3. CASE tq' = tq
    BY <1>3, <2>2, <2>3, Zenon
  <2>4. CASE tq' = Append(tq, READ(Head(fq[e])))
    <3> DEFINE t == READ(Head(fq[e]))
    <3>1. ASSUME NEW k \in DOMAIN tq'
          PROVE  (k \in DOMAIN tq /\ tq'[k] = tq[k]) \/ tq'[k] = t
      <4> HIDE DEF t
      <4> QED
        BY <1>1, <2>4 DEF t
    <3> QED
      BY <2>2, <3>1, Zenon DEF QueueTail, FqBounded
  <2> QED
    BY <2>2, <2>3, <2>4, Zenon
<1>7. CASE fq' = fq /\ TailKept
  <2>1. HeadsKept
    BY <1>7, Zenon DEF HeadsKept, FqBounded
  <2> QED
    BY <1>7, <2>1, BothKept, Zenon
<1>8. CASE fq' = fq /\ ~ReadNextCall /\ ~PassCall
  <2>1. CASE VertexRequest \/ EdgeRequest
    BY <1>1, <1>2, <1>7, <1>8, <2>1, RequestDoes, AddedInTime, Zenon
  <2>2. CASE WriteCall
    <3>1. tq' = tq \/ (WillAcceptTransaction /\ Len(tq') = Len(tq) + 1)
      BY <1>1, <2>2, WriteDoes, Zenon
    <3>2. Len(tq') = Len(tq) + 1 => Len(tq') <= Len(tq) + 2
      BY <1>1
    <3> QED
      BY <1>1, <1>2, <1>7, <1>8, <3>1, <3>2, AddedInTime, Zenon
  <2>3. CASE ConsumeCall
    BY <1>1, <1>7, <1>8, <2>3, MovedForward, Zenon DEF ConsumeCall
  <2>4. CASE CompleteCall
    BY <1>1, <1>3, <1>8, <2>4, CompleteDoes, Zenon DEF CompleteCall
  <2>5. CASE GraphReceive \/ FeatureReceiveCall
    BY <1>3, <1>8, <2>5, Zenon DEF GraphReceive, FeatureReceiveCall
  <2>6. CASE tq' = tq
    BY <1>3, <1>8, <2>6, Zenon
  <2> QED
    BY <1>1, <1>8, <2>1, <2>2, <2>3, <2>4, <2>5, <2>6, MemoryFrame, NoPreloadStep, Zenon
<1>9. CASE FeatureReceiveCall
  BY <1>3, <1>9, Zenon DEF FeatureReceiveCall, FeatureReceive
<1> QED
  BY <1>1, <1>3, <1>4, <1>5, <1>6, <1>8, <1>9, CacheCalls, Zenon DEF CacheUntouched

\* An engine has at most one such request far back in tq.
LEMMA QueueLength ==
    ASSUME OnceInv, QueueTail
    PROVE  Len(tq) <= REQUEST_LIMIT + 1 + n_of_engine
<1> DEFINE B == REQUEST_LIMIT + 2 .. Len(tq)
           P(k, i) == fq[i] # <<>> /\ tq[k] = READ(Head(fq[i]))
           f == [k \in B |-> CHOOSE i \in Engine : P(k, i)]
<1>1. /\ tq \in Seq(Transactions) /\ Len(tq) \in Nat /\ REQUEST_LIMIT \in Nat
      /\ DOMAIN tq = 1 .. Len(tq)
  BY MemoryAssumption DEF OnceInv, Sound, MemorySound
<1>2. n_of_engine \in Nat /\ Engine = 0 .. n_of_engine - 1
  BY LayoutAssumption, Zenon
<1>3. IsFiniteSet(Engine) /\ Cardinality(Engine) = n_of_engine
  BY <1>2, FS_Interval DEF n_of_engine
<1>4. B \subseteq DOMAIN tq /\ \A k \in B : k > REQUEST_LIMIT + 1
  BY <1>1
<1>5. IsFiniteSet(B) /\ Cardinality(B) = IF REQUEST_LIMIT + 2 > Len(tq) THEN 0
                                          ELSE Len(tq) - (REQUEST_LIMIT + 2) + 1
  <2>1. REQUEST_LIMIT + 2 \in Int /\ Len(tq) \in Int
    BY <1>1
  <2> QED
    BY <2>1, FS_Interval, Zenon
<1>6. ASSUME NEW k \in B PROVE f[k] \in Engine /\ P(k, f[k])
  <2>1. \E i \in Engine : P(k, i)
    BY <1>4, Zenon DEF QueueTail
  <2> HIDE DEF P
  <2>2. f[k] = CHOOSE i \in Engine : P(k, i)
    BY Zenon
  <2> QED
    BY <2>1, <2>2, Zenon
<1>7. ASSUME NEW j \in B, NEW k \in B, f[j] = f[k] PROVE j = k
  <2>1. j \in DOMAIN tq /\ k \in DOMAIN tq
    BY <1>4, Zenon
  <2>2. tq[j] = tq[k]
    BY <1>6, <1>7, Zenon
  <2>3. Occurrences(tq, tq[k]) <= 1
    <3> PICK i \in Engine : P(k, i)
      BY <1>6, Zenon
    <3> QED
      BY <2>1, TailRequested, Zenon
  <2> QED
    BY <1>1, <2>1, <2>2, <2>3, OccurrencesOnce, Zenon
<1>8. f \in Injection(B, Engine)
  <2>1. f \in [B -> Engine]
    BY <1>6, Zenon
  <2> QED
    BY <1>7, <2>1, Zenon DEF Injection, IsInjective
<1>9. Cardinality(B) <= n_of_engine
  BY <1>3, <1>5, <1>8, FS_Injection, Zenon DEF ExistsInjection
<1> HIDE DEF B
<1> QED
  BY <1>1, <1>2, <1>5, <1>9

\* The queues stay within their limits and what may be added to them at once,
\* when no vertices are preloaded (g_reader.cc:95-100, f_reader.cc:101, 135
\* and 253).
THEOREM QueuesStayBounded ==
    Spec /\ EveryEngineHasEdges /\ davc_reads = 0 => []QueuesBounded
<1>1. Init => QueueTail /\ FqBounded
  <2> SUFFICES ASSUME Init PROVE QueueTail /\ FqBounded
    BY Zenon
  <2>1. tq = <<>> /\ fq = [i \in Engine |-> <<>>]
    BY DEF Init, MemoryInit, FeatureReaderInit
  <2> QED
    BY <2>1, LimitAssumption DEF QueueTail, FqBounded
<1>2. OnceInv /\ QueueTail /\ FqBounded /\ [Next]_vars => QueueTail' /\ FqBounded'
  BY QueueStep, Zenon
<1>3. OnceInv /\ QueueTail /\ FqBounded => QueuesBounded
  BY QueueLength DEF QueuesBounded, FqBounded
<1> QED
  BY <1>1, <1>2, <1>3, RequestInvariant, PTL DEF Spec

=============================================================================
