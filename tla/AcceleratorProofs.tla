-------------------------- MODULE AcceleratorProofs ------------------------
(***************************************************************************)
(* Proofs about the Accelerator, with and without preloading: the inductive*)
(* invariant of the loop, the place of row ends, and that no line is       *)
(* requested in vain, for every graph in which each engine has edges, every*)
(* number of engines, every mode, pass count and size of cache and queues. *)
(***************************************************************************)
EXTENDS Accelerator, GraphReaderProofs, FeatureProofs

EveryEngineHasEdges == \A i \in Engine : Len(col_idx[i]) > 0

-----------------------------------------------------------------------------
(* The inductive invariant, part by part. *)

\* The controller, and the readers; within NextFeature the reader of the
\* engine still has something to pass.
ReadersSound ==
    /\ eng \in Engine /\ DOMAIN gr = Engine
    /\ \A i \in Engine : Coherent(i, gr[i])
    /\ at \in {"NextFeature skip", "NextFeature pick"} =>
          ~AllPassed(eng, gr[eng]) /\ ~gr[eng].pass_over
    /\ at = "NextFeature skip" =>
          /\ gr[eng].remain_edge = 0
          /\ gr[eng].cur_row_idx < gr[eng].row_end_idx \/ gr[eng].row_overflow > 0

\* The memory's queues hold what the controller asks for.
MemorySound ==
    /\ tq \in Seq(Transactions)
    /\ DramSound
    /\ rq \in [Engine -> Seq(Kinds)]
    /\ mem_fq \in Seq(Lines)

Sound ==
    /\ EveryEngineHasEdges
    /\ ReadersSound /\ MemorySound /\ FeaturesSound /\ CacheSound /\ WritesSound

-----------------------------------------------------------------------------
(* Which calls touch what. *)

LEMMA ReadersFrame ==
    ASSUME [Next]_vars
    PROVE  \/ VertexRequest \/ EdgeRequest \/ GraphReceive
           \/ NextFeatureOver \/ NextFeatureRow \/ NextFeatureReturn
           \/ /\ gr' = gr /\ (eng' = eng \/ WriteCall)
              /\ \/ at' = at
                 \/ at' \notin {"NextFeature skip", "NextFeature pick"}
<1>1. CASE ReadNextCall \/ PassCall
  BY <1>1, Zenon DEF ReadNextCall, PassCall, Call
<1>2. CASE WriteCall
  BY <1>2, Zenon DEF WriteCall
<1>3. CASE FeatureReceiveCall \/ ConsumeCall \/ CompleteCall \/ CycleEnd
  BY <1>3, Zenon DEF FeatureReceiveCall, ConsumeCall, CompleteCall, CycleEnd, Call
<1>4. CASE DAVCRequest \/ DAVCComplete \/ DAVCGetFeature
  BY <1>4, Zenon DEF DAVCRequest, DAVCComplete, DAVCGetFeature
<1>5. CASE UNCHANGED vars
  BY <1>5, Zenon DEF vars
<1> QED
  BY <1>1, <1>2, <1>3, <1>4, <1>5, Zenon
     DEF Next, EngineStep, MemoryStep, Consuming, Completing, Exited

LEMMA FeaturesFrame ==
    ASSUME [Next]_vars
    PROVE  \/ NextFeatureReturn \/ ReadNextCall \/ PassCall \/ FeatureReceiveCall
           \/ UNCHANGED frVars
<1>1. CASE VertexRequest \/ EdgeRequest \/ GraphReceive \/ NextFeatureOver \/ NextFeatureRow
  BY <1>1, Zenon
     DEF VertexRequest, EdgeRequest, GraphReceive, NextFeatureOver, NextFeatureRow
<1>2. CASE WriteCall \/ ConsumeCall \/ CompleteCall \/ CycleEnd
  BY <1>2, Zenon DEF WriteCall, ConsumeCall, CompleteCall, CycleEnd
<1>3. CASE DAVCRequest \/ DAVCComplete \/ DAVCGetFeature
  BY <1>3, Zenon DEF DAVCRequest, DAVCComplete, DAVCGetFeature
<1>4. CASE UNCHANGED vars
  BY <1>4, Zenon DEF vars
<1> QED
  BY <1>1, <1>2, <1>3, <1>4, Zenon
     DEF Next, EngineStep, MemoryStep, Consuming, Completing, Exited

LEMMA WritesFrame ==
    ASSUME [Next]_vars
    PROVE  PassCall \/ WriteCall \/ UNCHANGED simdVars
<1>1. CASE VertexRequest \/ EdgeRequest \/ GraphReceive \/ NextFeatureOver \/ NextFeatureRow
  BY <1>1, Zenon
     DEF VertexRequest, EdgeRequest, GraphReceive, NextFeatureOver, NextFeatureRow
<1>2. CASE NextFeatureReturn \/ ReadNextCall \/ FeatureReceiveCall \/ ConsumeCall
           \/ CompleteCall \/ CycleEnd
  BY <1>2, Zenon DEF NextFeatureReturn, ReadNextCall, FeatureReceiveCall, ConsumeCall,
              CompleteCall, CycleEnd
<1>3. CASE DAVCRequest \/ DAVCComplete \/ DAVCGetFeature
  BY <1>3, Zenon DEF DAVCRequest, DAVCComplete, DAVCGetFeature
<1>4. CASE UNCHANGED vars
  BY <1>4, Zenon DEF vars
<1> QED
  BY <1>1, <1>2, <1>3, <1>4, Zenon
     DEF Next, EngineStep, MemoryStep, Consuming, Completing, Exited

LEMMA MemoryFrame ==
    ASSUME [Next]_vars
    PROVE  \/ VertexRequest \/ EdgeRequest \/ GraphReceive
           \/ ReadNextCall \/ PassCall \/ WriteCall \/ FeatureReceiveCall
           \/ ConsumeCall \/ DAVCRequest \/ CompleteCall \/ DAVCComplete \/ DAVCGetFeature
           \/ UNCHANGED <<tq, rq, mem_fq, dram>>
<1>1. CASE NextFeatureOver \/ NextFeatureRow \/ NextFeatureReturn \/ CycleEnd
  BY <1>1, Zenon DEF NextFeatureOver, NextFeatureRow, NextFeatureReturn, CycleEnd, memVars
<1>2. CASE UNCHANGED vars
  BY <1>2, Zenon DEF vars, memVars
<1> QED
  BY <1>1, <1>2, Zenon DEF Next, EngineStep, MemoryStep, Consuming, Completing, Exited

-----------------------------------------------------------------------------
(* The readers. *)

\* A call that leaves the engine's reader coherent and is not within
\* NextFeature afterwards.
LEMMA ReaderChanged ==
    ASSUME ReadersSound, NEW g, Coherent(eng, g), Reader(g) \/ gr' = gr, eng' = eng,
           at' \notin {"NextFeature skip", "NextFeature pick"}
    PROVE  ReadersSound'
BY Zenon DEF ReadersSound, Reader

\* Every call keeps the readers sound.
LEMMA ReadersStep ==
    ASSUME EveryEngineHasEdges, ReadersSound, rq \in [Engine -> Seq(Kinds)], [Next]_vars
    PROVE  ReadersSound'
<1> DEFINE g == gr[eng]
<1>1. eng \in Engine /\ Len(col_idx[eng]) > 0 /\ Coherent(eng, g)
  BY Zenon DEF ReadersSound, EveryEngineHasEdges
<1>2. /\ at \in {"NextFeature skip", "NextFeature pick"} => ~AllPassed(eng, g) /\ ~g.pass_over
      /\ at = "NextFeature skip" =>
            g.remain_edge = 0 /\ (g.cur_row_idx < g.row_end_idx \/ g.row_overflow > 0)
  BY Zenon DEF ReadersSound
<1>3. CASE VertexRequest
  <2>1. Reader(VertexRequested(eng, g)) \/ gr' = gr
    BY <1>3, Zenon DEF VertexRequest
  <2>2. eng' = eng /\ at' = "EdgeRequest"
    BY <1>3, Zenon DEF VertexRequest, Call
  <2>3. Coherent(eng, VertexRequested(eng, g))
    BY <1>1, CoherentRequested, Zenon
  <2> QED
    BY <2>1, <2>2, <2>3, ReaderChanged, Zenon
<1>4. CASE EdgeRequest
  <2>1. Reader(EdgeRequested(eng, g)) \/ gr' = gr
    BY <1>4, Zenon DEF EdgeRequest
  <2>2. eng' = eng /\ at' = "GraphReceive"
    BY <1>4, Zenon DEF EdgeRequest, Call
  <2>3. Coherent(eng, EdgeRequested(eng, g))
    BY <1>1, CoherentRequested, Zenon
  <2> QED
    BY <2>1, <2>2, <2>3, ReaderChanged, Zenon
<1>5. CASE GraphReceive
  <2>1. eng' = eng /\ at' = "NextFeature"
    BY <1>5, Zenon DEF GraphReceive, Call
  <2>2. CASE gr' = gr
    BY <1>1, <2>1, <2>2, ReaderChanged, Zenon
  <2>3. CASE gr' # gr
    <3>1. PICK type : /\ Reader(GraphReceived(eng, g, type))
                      /\ type = "Empty" \/ (rq[eng] # <<>> /\ type = Head(rq[eng]))
      BY <1>5, <2>3, Zenon DEF GraphReceive
    <3>2. rq[eng] # <<>> => Head(rq[eng]) \in Kinds
      BY <1>1
    <3>3. type \in {"Row", "Column", "Value", "Empty"} /\ (type = "Value" => gnn_mode = "GCN")
      BY <3>1, <3>2, Zenon DEF Kinds
    <3>4. Coherent(eng, GraphReceived(eng, g, type))
      BY <1>1, <3>3, CoherentReceived, Zenon
    <3> QED
      BY <2>1, <3>1, <3>4, ReaderChanged, Zenon
  <2> QED
    BY <2>2, <2>3, Zenon
<1>6. CASE NextFeatureOver
  <2>1. Reader(PassOver(g)) /\ eng' = eng /\ at' = "ReadNext"
    BY <1>6, Zenon DEF NextFeatureOver, Call
  <2>2. Coherent(eng, PassOver(g))
    BY <1>1, CoherentFlags, Zenon
  <2> QED
    BY <2>1, <2>2, ReaderChanged, Zenon
<1>7. CASE NextFeatureRow
  <2> DEFINE h == RowTaken(eng, g)
  <2>1. /\ g.remain_edge = 0 /\ (g.cur_row_idx < g.row_end_idx \/ g.row_overflow > 0)
        /\ ~AllPassed(eng, g) /\ ~g.pass_over
    BY <1>2, <1>7, Zenon DEF NextFeatureRow, Entered, RowWanted
  <2>2. /\ ~RowsExhausted(eng, g) /\ Coherent(eng, h)
        /\ h.pass_over = g.pass_over /\ (AllPassed(eng, h) <=> AllPassed(eng, g))
        /\ RowLoops(h) => /\ h.remain_edge = 0
                          /\ h.cur_row_idx < h.row_end_idx \/ h.row_overflow > 0
    BY <1>1, <2>1, CoherentRow, Zenon
  <2>3. /\ Reader(h) /\ eng' = eng
        /\ at' = IF RowLoops(h) THEN "NextFeature skip" ELSE "NextFeature pick"
    BY <1>7, <2>2, Zenon DEF NextFeatureRow
  <2> HIDE DEF h
  <2>4. /\ DOMAIN gr' = Engine /\ gr'[eng] = h
        /\ \A i \in Engine : Coherent(i, gr'[i])
    BY <2>2, <2>3, Zenon DEF ReadersSound, Reader
  <2> QED
    BY <1>1, <2>1, <2>2, <2>3, <2>4, Zenon DEF ReadersSound
<1>8. CASE NextFeatureReturn
  <2> DEFINE w == ColumnWrap(eng, g)
  <2>1. eng' = eng /\ at' = "ReadNext" /\ ~AllPassed(eng, g)
    BY <1>2, <1>8, Zenon DEF NextFeatureReturn, Entered
  <2>2. CASE gr' = gr
    BY <1>1, <2>1, <2>2, ReaderChanged, Zenon
  <2>3. CASE EdgeReady(g)
    <3>1. ~WrapEnds(eng, g) /\ Coherent(eng, EdgeTaken(w))
      BY <1>1, <2>1, <2>3, CoherentEdge, Zenon
    <3>2. Reader(EdgeTaken(w))
      BY <1>8, <2>3, <3>1, Zenon DEF NextFeatureReturn
    <3> QED
      BY <2>1, <3>1, <3>2, ReaderChanged, Zenon
  <2> QED
    BY <1>8, <2>2, <2>3, Zenon DEF NextFeatureReturn
<1>9. CASE /\ gr' = gr /\ eng' = eng
           /\ at' = at \/ at' \notin {"NextFeature skip", "NextFeature pick"}
  BY <1>9, Zenon DEF ReadersSound
<1>10. CASE gr' = gr /\ WriteCall
  <2>1. eng' \in Engine
    BY <1>10, LayoutAssumption DEF WriteCall
  <2>2. at' \notin {"NextFeature skip", "NextFeature pick"}
    BY <1>10, Zenon DEF WriteCall
  <2> QED
    BY <1>10, <2>1, <2>2, Zenon DEF ReadersSound
<1> QED
  BY <1>3, <1>4, <1>5, <1>6, <1>7, <1>8, <1>9, <1>10, ReadersFrame, Zenon

-----------------------------------------------------------------------------
(* The memory. *)

\* The requests of the reader are for lines of the graph, of values only in
\* GCN (g_reader.cc:78-116).
LEMMA ReaderLines ==
    ASSUME NEW i \in Engine, Len(col_idx[i]) > 0, NEW g, Coherent(i, g)
    PROVE  /\ VertexLines(g) \in Seq(GraphLines) /\ Len(VertexLines(g)) = 1
           /\ EdgeLines(g) \in Seq(GraphLines) /\ Len(EdgeLines(g)) \in {1, 2}
<1> DEFINE d == data_index[i]
           v == g.next_v_addr
           e == g.next_e_addr
           x == g.next_val_addr
<1>1. /\ v \in Nat /\ e \in Nat /\ x \in Nat
      /\ v \in d.row_addr_start .. d.row_addr_end - 1
      /\ e \in d.col_addr_start .. d.col_addr_end - 1
      /\ gnn_mode = "GCN" => x - d.value_addr_start = e - d.col_addr_start
  BY Zenon DEF Coherent, RequestsSound, GraphReaderType
<1>2. /\ d.row_addr_start >= a_row_addr_start /\ d.row_addr_end <= a_col_addr_start
      /\ d.col_addr_start >= a_col_addr_start /\ d.col_addr_end <= xw_ele_addr_start
      /\ d.value_addr_end <= a_row_addr_start
      /\ a_row_addr_start \in Nat /\ a_col_addr_start \in Nat /\ xw_ele_addr_start \in Nat
      /\ a_row_addr_start <= a_col_addr_start /\ a_col_addr_start <= xw_ele_addr_start
  BY LayoutAssumption, Zenon
<1>3. /\ d.row_addr_start \in Nat /\ d.row_addr_end \in Nat
      /\ d.col_addr_start \in Nat /\ d.col_addr_end \in Nat
      /\ d.value_addr_start \in Nat /\ d.value_addr_end \in Nat
      /\ d.value_addr_end - d.value_addr_start = d.col_addr_end - d.col_addr_start
  <2>1. Frag(Len(col_idx[i])) \in Nat
    BY CsrFacts, FragPositive, Zenon
  <2> QED
    BY <2>1, IndexAssumption DEF GraphFields
<1> DEFINE rs == d.row_addr_start
           re == d.row_addr_end
           cs == d.col_addr_start
           ce == d.col_addr_end
           vs == d.value_addr_start
           ve == d.value_addr_end
<1>4. /\ v \in rs .. re - 1 /\ e \in cs .. ce - 1
      /\ gnn_mode = "GCN" => x - vs = e - cs
      /\ rs \in Nat /\ re \in Nat /\ cs \in Nat /\ ce \in Nat /\ vs \in Nat /\ ve \in Nat
      /\ ve - vs = ce - cs /\ rs >= a_row_addr_start /\ re <= a_col_addr_start
      /\ cs >= a_col_addr_start /\ ce <= xw_ele_addr_start /\ ve <= a_row_addr_start
  BY <1>1, <1>2, <1>3, Zenon
<1> HIDE DEF v, e, x, d, rs, re, cs, ce, vs, ve
<1>5. v \in GraphLines /\ e \in GraphLines /\ (gnn_mode = "GCN" => x \in GraphLines)
  BY <1>1, <1>2, <1>4, SMTT(20) DEF GraphLines
<1>6. VertexLines(g) = <<v>>
  BY Zenon DEF VertexLines, v
<1>7. EdgeLines(g) = IF gnn_mode = "GCN" THEN <<e, x>> ELSE <<e>>
  BY Zenon DEF EdgeLines, e, x
<1> QED
  BY <1>5, <1>6, <1>7, SMTT(20)

\* Graph lines are no feature lines.
LEMMA RegionsApart ==
    ASSUME NEW ls \in Seq(GraphLines)
    PROVE  ls \in Seq(GraphLines \cup Lines) /\ \A a \in Lines : a \notin Range(ls)
<1>1. \A a \in Lines : a \notin GraphLines
  BY LayoutAssumption DEF GraphLines, Lines
<1>2. Range(ls) \subseteq GraphLines
  BY DEF Range
<1> QED
  BY <1>1, <1>2, SMTT(20)

\* The requests that are on their way stay as many as they are.
AsMany == \A line \in Lines : Outstanding(line)' = Outstanding(line)

\* The requests of the readers.
LEMMA RequestDoes ==
    ASSUME EveryEngineHasEdges, ReadersSound, MemorySound, VertexRequest \/ EdgeRequest
    PROVE  /\ MemorySound' /\ AsMany
           /\ tq' = tq \/ (WillAcceptTransaction /\ Len(tq') <= Len(tq) + 2)
<1>1. eng \in Engine /\ Len(col_idx[eng]) > 0 /\ Coherent(eng, gr[eng])
  BY Zenon DEF ReadersSound, EveryEngineHasEdges
<1>2. UNCHANGED <<rq, mem_fq, dram>>
  BY Zenon DEF VertexRequest, EdgeRequest
<1>3. CASE tq' = tq
  BY <1>2, <1>3, Zenon DEF MemorySound, DramSound, AsMany, Outstanding, Copies
<1>4. CASE tq' # tq
  <2>1. PICK ls \in Seq(GraphLines) :
            Len(ls) \in {1, 2} /\ tq' = WithReads(ls) /\ WillAcceptTransaction
    BY <1>1, <1>4, ReaderLines, Zenon DEF VertexRequest, EdgeRequest
  <2>2. tq \in Seq(Transactions) /\ Len(tq) \in Nat
    BY DEF MemorySound
  <2>3. ls \in Seq(GraphLines \cup Lines) /\ \A a \in Lines : a \notin Range(ls)
    BY RegionsApart, Zenon
  <2>4. /\ tq' \in Seq(Transactions) /\ Len(tq') = Len(tq) + Len(ls)
        /\ \A a \in Lines : Occurrences(tq', READ(a)) = Occurrences(tq, READ(a))
    <3>1. /\ WithReads(ls) \in Seq(Transactions)
          /\ Len(WithReads(ls)) = Len(tq) + Len(ls)
          /\ \A a : a \notin Range(ls) =>
                Occurrences(WithReads(ls), READ(a)) = Occurrences(tq, READ(a))
      BY <2>2, <2>3, WithReadsKeeps, Zenon
    <3> QED
      BY <2>1, <2>3, <3>1, Zenon
  <2>5. AsMany
    BY <1>2, <2>4, Zenon DEF AsMany, Outstanding, Copies
  <2>6. MemorySound'
    BY <1>2, <2>4, Zenon DEF MemorySound, DramSound
  <2>7. \A m \in Nat : \A l \in {1, 2} : m + l <= m + 2
    OBVIOUS
  <2>8. Len(tq') <= Len(tq) + 2
    BY <2>1, <2>2, <2>4, <2>7, Zenon
  <2> QED
    BY <2>1, <2>5, <2>6, <2>8, Zenon
<1> QED
  BY <1>3, <1>4, Zenon

\* A step that leaves the memory's queues alone.
LEMMA MemorySame ==
    ASSUME MemorySound, UNCHANGED <<tq, rq, mem_fq, dram>>
    PROVE  MemorySound' /\ AsMany
BY Zenon DEF MemorySound, DramSound, AsMany, Outstanding, Copies

\* A step that only adds to tq, or leaves it alone.
LEMMA QueueGrows ==
    ASSUME MemorySound, UNCHANGED <<rq, mem_fq, dram>>, tq' \in Seq(Transactions)
    PROVE  MemorySound'
BY Zenon DEF MemorySound, DramSound

\* The results that Write (simd.cc:59-72) adds are no feature lines.
LEMMA WriteDoes ==
    ASSUME ReadersSound, MemorySound, WritesSound, WriteCall
    PROVE  /\ MemorySound' /\ WritesSound' /\ AsMany
           /\ tq' = tq \/ (WillAcceptTransaction /\ Len(tq') = Len(tq) + 1)
<1>1. /\ eng \in Engine /\ Write(eng) /\ UNCHANGED <<rq, mem_fq, dram>>
      /\ tq \in Seq(Transactions)
  BY Zenon DEF WriteCall, ReadersSound, MemorySound
<1>2. /\ WritesSound'
      /\ \/ tq' = tq
         \/ WillAcceptTransaction /\ \E a \in Nat : tq' = Append(tq, WRITE(a))
  BY <1>1, WriteSound, Zenon
<1>3. CASE tq' = tq
  BY <1>1, <1>2, <1>3, MemorySame, Zenon
<1>4. ASSUME WillAcceptTransaction, NEW a \in Nat, tq' = Append(tq, WRITE(a))
      PROVE  MemorySound' /\ AsMany /\ Len(tq') = Len(tq) + 1
  <2>1. WRITE(a) \in Transactions
    BY Zenon DEF Transactions
  <2>2. tq' \in Seq(Transactions) /\ Len(tq') = Len(tq) + 1
    BY <1>1, <1>4, <2>1, AppendProperties, Zenon
  <2>3. \A l : WRITE(a) # READ(l)
    BY Zenon DEF WRITE, READ
  <2>4. ASSUME NEW l PROVE Occurrences(tq', READ(l)) = Occurrences(tq, READ(l))
    <3>1. Occurrences(tq, READ(l)) \in Nat
      BY <1>1, OccurrencesNat, Zenon
    <3>2. Occurrences(tq', READ(l))
              = Occurrences(tq, READ(l)) + IF WRITE(a) = READ(l) THEN 1 ELSE 0
      BY <1>1, <1>4, <2>1, OccurrencesAppend, SMTT(20)
    <3> QED
      BY <2>3, <3>1, <3>2, SMTT(20)
  <2>5. AsMany
    BY <1>1, <2>4, Zenon DEF AsMany, Outstanding, Copies
  <2> QED
    BY <1>1, <2>2, <2>5, QueueGrows, Zenon
<1> QED
  BY <1>2, <1>3, <1>4, Zenon

\* What a request for a feature line adds to what is on its way.
OneMore == \A line \in Lines :
    /\ line \in requested => Outstanding(line)' = Outstanding(line) /\ line \in requested'
    /\ line \notin requested =>
          \/ line \notin requested' /\ Outstanding(line)' = Outstanding(line)
          \/ line \in requested' /\ Outstanding(line)' = Outstanding(line) + 1

\* Access and request of a line (f_reader.cc:103-117, 250-254).
LEMMA FetchedCounts ==
    ASSUME MemorySound, NEW a \in Lines, Fetched(a), UNCHANGED <<rq, mem_fq, dram>>
    PROVE  MemorySound' /\ OneMore /\ (tq' = tq \/ Len(tq') = Len(tq) + 1)
<1>1. tq \in Seq(Transactions) /\ DramSound /\ mem_fq \in Seq(Lines)
  BY Zenon DEF MemorySound
<1>2. CASE requested' = requested /\ tq' = tq
  <2>1. MemorySound' /\ AsMany
    BY <1>2, MemorySame, Zenon
  <2> QED
    BY <1>2, <2>1, Zenon DEF OneMore, AsMany
<1>3. CASE /\ a \notin Held(sa_cache) \cup requested
           /\ requested' = requested \cup {a} /\ tq' = Append(tq, READ(a))
  <2>1. READ(a) \in Transactions
    BY Zenon DEF Transactions
  <2>2. tq' \in Seq(Transactions) /\ Len(tq') = Len(tq) + 1
    BY <1>1, <1>3, <2>1, AppendProperties, Zenon
  <2>3. ASSUME NEW l \in Lines
        PROVE  Outstanding(l)' = Outstanding(l) + IF l = a THEN 1 ELSE 0
    <3> DEFINE o == Occurrences(tq, READ(l))
               c == Copies(READ(l))
               m == Occurrences(mem_fq, l)
    <3>1. o \in Nat /\ c \in Nat /\ m \in Nat
      BY <1>1, OccurrencesNat, CopiesNat, Zenon
    <3>2. Occurrences(tq', READ(l)) = o + IF READ(a) = READ(l) THEN 1 ELSE 0
      BY <1>1, <1>3, <2>1, OccurrencesAppend, SMTT(20)
    <3>3. READ(a) = READ(l) <=> l = a
      BY Zenon DEF READ
    <3>4. Copies(READ(l))' = c /\ Occurrences(mem_fq', l) = m
      BY Zenon DEF Copies
    <3>5. Outstanding(l) = o + c + m /\ Outstanding(l)' = Occurrences(tq', READ(l)) + c + m
      BY <3>4, Zenon DEF Outstanding
    <3> HIDE DEF o, c, m
    <3> QED
      BY <3>1, <3>2, <3>3, <3>5, SMTT(20)
  <2>4. \A l \in Lines : Outstanding(l) \in Nat
    BY <1>1, OccurrencesNat, CopiesNat, SMTT(20) DEF Outstanding
  <2>5. OneMore
    BY <1>3, <2>3, <2>4, SMTT(20) DEF OneMore
  <2> QED
    BY <2>2, <2>5, QueueGrows, Zenon
<1> QED
  BY <1>2, <1>3, Zenon DEF Fetched

\* ConsumeTransaction (memory.cc:39-53) of what tq holds.
LEMMA ConsumeDoes ==
    ASSUME MemorySound, ConsumeTransaction(tq)
    PROVE  MemorySound' /\ AsMany
<1>1. DramSound /\ tq \in Seq(Transactions) /\ mem_fq \in Seq(Lines)
  BY Zenon DEF MemorySound
<1>2. /\ DramSound' /\ tq' \in Seq(Transactions) /\ UNCHANGED <<rq, mem_fq>>
      /\ \A t : Occurrences(tq', t) + Copies(t)' = Occurrences(tq, t) + Copies(t)
  BY <1>1, ConsumeKeeps, Zenon
<1>3. MemorySound'
  BY <1>2, Zenon DEF MemorySound
<1>4. AsMany
  BY <1>2, Zenon DEF AsMany, Outstanding
<1> QED
  BY <1>3, <1>4, Zenon

\* The callbacks (memory.cc:55-144).
LEMMA CompleteDoes ==
    ASSUME MemorySound, Complete
    PROVE  MemorySound' /\ AsMany /\ tq' = tq
<1>1. /\ DramSound /\ tq \in Seq(Transactions) /\ mem_fq \in Seq(Lines)
      /\ rq \in [Engine -> Seq(Kinds)]
  BY Zenon DEF MemorySound
<1>2. /\ DramSound' /\ mem_fq' \in Seq(Lines) /\ rq' \in [Engine -> Seq(Kinds)]
      /\ tq' = tq
      /\ \A a \in Lines : Copies(READ(a))' + Occurrences(mem_fq', a)
                              = Copies(READ(a)) + Occurrences(mem_fq, a)
  BY <1>1, CompleteKeeps, Zenon
<1>3. MemorySound'
  BY <1>1, <1>2, Zenon DEF MemorySound
<1>4. ASSUME NEW a \in Lines PROVE Outstanding(a)' = Outstanding(a)
  <2> DEFINE o == Occurrences(tq, READ(a))
             c == Copies(READ(a))
             d == Copies(READ(a))'
             m == Occurrences(mem_fq, a)
             n == Occurrences(mem_fq', a)
  <2>1. o \in Nat /\ c \in Nat /\ m \in Nat /\ n \in Nat
    BY <1>1, <1>2, OccurrencesNat, CopiesNat, Zenon
  <2>2. d \in Nat
    BY <1>2, Zenon DEF DramSound, Copies
  <2>3. d + n = c + m
    BY <1>2, Zenon
  <2>4. Outstanding(a) = o + c + m /\ Outstanding(a)' = o + d + n
    BY <1>2, Zenon DEF Outstanding
  <2> HIDE DEF o, c, d, m, n
  <2> QED
    BY <2>1, <2>2, <2>3, <2>4, SMTT(20)
<1> QED
  BY <1>2, <1>3, <1>4, Zenon DEF AsMany

\* Every call keeps the memory sound.
LEMMA MemoryStepSound ==
    ASSUME Sound, [Next]_vars
    PROVE  MemorySound'
<1>1. EveryEngineHasEdges /\ ReadersSound /\ MemorySound /\ FeaturesSound /\ CacheSound /\ WritesSound
  BY Zenon DEF Sound
<1>2. /\ tq \in Seq(Transactions) /\ rq \in [Engine -> Seq(Kinds)] /\ mem_fq \in Seq(Lines)
      /\ DramSound /\ eng \in Engine
  BY <1>1, Zenon DEF MemorySound, ReadersSound
<1>3. CASE VertexRequest \/ EdgeRequest
  BY <1>1, <1>3, RequestDoes, Zenon
<1>4. CASE GraphReceive
  <2>1. /\ UNCHANGED <<tq, mem_fq, dram>>
        /\ rq' = rq \/ (rq[eng] # <<>> /\ rq' = [rq EXCEPT ![eng] = Tail(@)])
    BY <1>4, Zenon DEF GraphReceive
  <2>2. rq[eng] # <<>> => Tail(rq[eng]) \in Seq(Kinds)
    BY <1>2
  <2>3. rq' \in [Engine -> Seq(Kinds)]
    BY <1>2, <2>1, <2>2, Zenon
  <2> QED
    BY <1>2, <2>1, <2>3, Zenon DEF MemorySound, DramSound
<1>5. CASE ReadNextCall
  <2> PICK i \in Engine : i = eng
    BY <1>2, Zenon
  <2>1. ReadNext(i) /\ UNCHANGED <<rq, mem_fq, dram>>
    BY <1>5, Zenon DEF ReadNextCall
  <2>2. tq' = tq \/ \E a \in Lines : ReadEffect(i, a)
    BY <1>1, <2>1, ReadNextDoes, Zenon
  <2> QED
    BY <1>1, <2>1, <2>2, MemorySame, FetchedCounts, Zenon DEF ReadEffect
<1>6. CASE PassCall
  <2> PICK i \in Engine : i = eng
    BY <1>2, Zenon
  <2>1. PassFtoSIMD(i) /\ UNCHANGED <<rq, mem_fq, dram>>
    BY <1>6, Zenon DEF PassCall
  <2>2. tq' = tq \/ AgainEffect(i)
    BY <1>1, <2>1, PassDoes, Zenon DEF PassEffect
  <2> QED
    BY <1>1, <2>1, <2>2, MemorySame, FetchedCounts, Zenon DEF AgainEffect
<1>7. CASE WriteCall
  BY <1>1, <1>7, WriteDoes, Zenon
<1>8. CASE FeatureReceiveCall
  <2>1. mem_fq' = <<>> /\ UNCHANGED <<tq, rq, dram>>
    BY <1>8, Zenon DEF FeatureReceiveCall, FeatureReceive
  <2> QED
    BY <1>2, <2>1, SMTT(20) DEF MemorySound, DramSound
<1>9. CASE ConsumeCall
  BY <1>1, <1>9, ConsumeDoes, Zenon DEF ConsumeCall
<1>10. CASE DAVCRequest
  <2> DEFINE q == IF davc < davc_reads THEN WithReads(<<xw_ele_addr_start>>) ELSE tq
  <2>1. ConsumeTransaction(q)
    BY <1>10, Zenon DEF DAVCRequest
  <2>2. <<xw_ele_addr_start>> \in Seq(GraphLines \cup Lines)
    BY LayoutAssumption DEF Lines
  <2>3. q \in Seq(Transactions)
    BY <1>2, <2>2, WithReadsKeeps, Zenon
  <2> HIDE DEF q
  <2>4. DramSound' /\ tq' \in Seq(Transactions) /\ UNCHANGED <<rq, mem_fq>>
    BY <1>2, <2>1, <2>3, ConsumeKeeps, Zenon
  <2> QED
    BY <1>2, <2>4, Zenon DEF MemorySound
<1>11. CASE CompleteCall \/ DAVCComplete
  BY <1>1, <1>11, CompleteDoes, Zenon DEF CompleteCall, DAVCComplete
<1>12. CASE DAVCGetFeature
  <2>1. /\ UNCHANGED <<tq, rq, dram>>
        /\ mem_fq' = IF mem_fq = <<>> THEN <<>> ELSE Tail(mem_fq)
    BY <1>12, Zenon DEF DAVCGetFeature
  <2>2. mem_fq' \in Seq(Lines)
    BY <1>2, <2>1, SMTT(20)
  <2> QED
    BY <1>2, <2>1, <2>2, Zenon DEF MemorySound, DramSound
<1>13. CASE UNCHANGED <<tq, rq, mem_fq, dram>>
  BY <1>1, <1>13, MemorySame, Zenon
<1> QED
  BY <1>3, <1>4, <1>5, <1>6, <1>7, <1>8, <1>9, <1>10, <1>11, <1>12, <1>13, MemoryFrame,
     Zenon

-----------------------------------------------------------------------------
(* The feature reader, the cache and the SIMD units. *)

\* Every call keeps the edges, the lines and the row ends sound.
LEMMA FeaturesStep ==
    ASSUME Sound, [Next]_vars
    PROVE  FeaturesSound'
<1>1. EveryEngineHasEdges /\ ReadersSound /\ FeaturesSound /\ CacheSound /\ eng \in Engine
  BY Zenon DEF Sound, ReadersSound
<1>2. CASE UNCHANGED frVars
  BY <1>1, <1>2, Zenon DEF FeaturesSound, frVars
<1>3. CASE NextFeatureReturn
  <2> DEFINE g == gr[eng]
             w == ColumnWrap(eng, g)
  <2>1. Len(col_idx[eng]) > 0 /\ Coherent(eng, g) /\ ~AllPassed(eng, g)
    BY <1>1, <1>3, Zenon DEF ReadersSound, EveryEngineHasEdges, NextFeatureReturn, Entered
  <2>2. UNCHANGED <<frs, fq, requested, sa_cache>>
    BY <1>3, Zenon DEF NextFeatureReturn
  <2>3. CASE UNCHANGED pq
    BY <1>2, <2>2, <2>3, Zenon DEF frVars
  <2>4. CASE EdgeReady(g)
    <3> DEFINE e == EdgeOf(eng, w)
    <3>1. /\ ~WrapEnds(eng, g) /\ e.id = eng
          /\ \E k \in DOMAIN col_idx[eng] : e.dst = col_idx[eng][k]
          /\ e.v_fold \in 0 .. bf - 1
          /\ e \in [id : Engine, is_last : BOOLEAN, dst : Nat, v_fold : Nat]
      <4>1. w = ColumnWrap(eng, g)
        BY Zenon
      <4> HIDE DEF g, w
      <4>2. eng \in Engine /\ Len(col_idx[eng]) > 0 /\ Coherent(eng, g) /\ EdgeReady(g)
        BY <1>1, <2>1, <2>4, Zenon
      <4> QED
        BY <2>1, <4>1, <4>2, CoherentEdge, SMTT(30)
    <3>2. EnterFtoList(e)
      BY <1>3, <2>4, <3>1, Zenon DEF NextFeatureReturn
    <3> HIDE DEF e
    <3>3. e \in EdgeRecord /\ PendingSound(eng, e)
      BY <3>1, Zenon DEF EdgeRecord, PendingSound, Vertices, Range
    <3> QED
      BY <1>1, <2>2, <3>2, <3>3, EnterSound, Zenon
  <2> QED
    BY <1>3, <2>3, <2>4, Zenon DEF NextFeatureReturn
<1>4. CASE ReadNextCall
  <2> PICK i \in Engine : i = eng
    BY <1>1, Zenon
  <2> QED
    BY <1>1, <1>4, ReadNextDoes, Zenon DEF ReadNextCall
<1>5. CASE PassCall
  <2> PICK i \in Engine : i = eng
    BY <1>1, Zenon
  <2> QED
    BY <1>1, <1>5, PassDoes, Zenon DEF PassCall
<1>6. CASE FeatureReceiveCall
  <2>1. UNCHANGED <<frs, pq, fq>>
    BY <1>6, Zenon DEF FeatureReceiveCall, FeatureReceive
  <2> QED
    BY <1>1, <2>1, Zenon DEF FeaturesSound
<1> QED
  BY <1>2, <1>3, <1>4, <1>5, <1>6, FeaturesFrame, Zenon

\* What a call does to the cache and to the requested lines: nothing, what the
\* engine's reading or passing does, or what receiving does.
CacheUntouched == UNCHANGED <<fq, frs, requested, sa_cache>>

ReadsLine == \E i \in Engine, a \in Lines : i = eng /\ ReadEffect(i, a)
PassesLine == \E i \in Engine : i = eng /\ PassEffect(i)
AsksAgain == \E i \in Engine : i = eng /\ AgainEffect(i)

LEMMA CacheCalls ==
    ASSUME Sound, [Next]_vars
    PROVE  \/ CacheUntouched /\ ~ReadNextCall /\ ~PassCall
           \/ CacheUntouched /\ UNCHANGED <<tq, rq, mem_fq, dram>>
           \/ ReadNextCall /\ WillAcceptTransaction /\ ReadsLine
           \/ PassCall /\ (PassesLine \/ AsksAgain)
           \/ FeatureReceiveCall /\ FeatureReceive
<1>1. FeaturesSound /\ CacheSound
  BY Zenon DEF Sound
<1> PICK i \in Engine : i = eng
  BY Zenon DEF Sound, ReadersSound
<1>2. CASE ReadNextCall
  <2>1. ReadNext(i) /\ UNCHANGED <<rq, mem_fq, dram>>
    BY <1>2, Zenon DEF ReadNextCall
  <2>2. \/ UNCHANGED <<frVars, tq>>
        \/ WillAcceptTransaction /\ \E a \in Lines : ReadEffect(i, a)
    BY <1>1, <2>1, ReadNextDoes, Zenon
  <2> QED
    BY <1>2, <2>1, <2>2, Zenon DEF frVars, CacheUntouched, ReadsLine
<1>3. CASE PassCall
  <2>1. PassFtoSIMD(i) /\ UNCHANGED <<rq, mem_fq, dram>>
    BY <1>3, Zenon DEF PassCall
  <2>2. UNCHANGED <<frVars, tq>> \/ PassEffect(i) \/ AgainEffect(i)
    BY <1>1, <2>1, PassDoes, Zenon
  <2> QED
    BY <1>3, <2>1, <2>2, Zenon DEF frVars, CacheUntouched, PassesLine, AsksAgain
<1>4. CASE FeatureReceiveCall
  BY <1>4, Zenon DEF FeatureReceiveCall
<1>5. CASE NextFeatureReturn /\ ~ReadNextCall /\ ~PassCall
  BY <1>5, Zenon DEF NextFeatureReturn, CacheUntouched
<1>6. CASE UNCHANGED frVars /\ ~ReadNextCall /\ ~PassCall
  BY <1>6, Zenon DEF frVars, CacheUntouched
<1> QED
  BY <1>2, <1>3, <1>4, <1>5, <1>6, FeaturesFrame, Zenon

\* Every call keeps the cache sound.
LEMMA CacheStep ==
    ASSUME Sound, [Next]_vars
    PROVE  CacheSound'
<1>1. CacheSound /\ tq \in Seq(Transactions) /\ mem_fq \in Seq(Lines)
  BY Zenon DEF Sound, MemorySound
<1>2. CASE CacheUntouched
  BY <1>1, <1>2, Zenon DEF CacheSound, CacheUntouched
<1>3. CASE PassesLine
  BY <1>1, <1>3, Zenon DEF CacheSound, PassesLine, PassEffect
<1>4. CASE ReadsLine \/ AsksAgain
  <2>1. PICK a \in Lines : Fetched(a)
    BY <1>4, Zenon DEF ReadsLine, ReadEffect, AsksAgain, AgainEffect
  <2> QED
    BY <1>1, <2>1, FetchedSound, Zenon
<1>5. CASE FeatureReceive
  BY <1>1, <1>5, ReceiveKeeps, Zenon
<1> QED
  BY <1>2, <1>3, <1>4, <1>5, CacheCalls, Zenon

\* Every call keeps the results sound.
LEMMA WritesStep ==
    ASSUME Sound, [Next]_vars
    PROVE  WritesSound'
<1>1. ReadersSound /\ MemorySound /\ WritesSound /\ eng \in Engine
  BY Zenon DEF Sound, ReadersSound
<1>2. CASE UNCHANGED simdVars
  BY <1>1, <1>2, Zenon DEF WritesSound, simdVars
<1>3. CASE PassCall
  BY <1>1, <1>3, GetFeatureSound, Zenon DEF PassCall
<1>4. CASE WriteCall
  BY <1>1, <1>4, WriteDoes, Zenon
<1> QED
  BY <1>2, <1>3, <1>4, WritesFrame, Zenon

-----------------------------------------------------------------------------
(* The invariant. *)

LEMMA SoundInit ==
    ASSUME EveryEngineHasEdges, Init
    PROVE  Sound
<1>1. ReadersSound
  <2>1. /\ gr = [i \in Engine |-> NewGraphReader(i)] /\ eng = 0
        /\ at \notin {"NextFeature skip", "NextFeature pick"}
    BY Zenon DEF Init
  <2>2. \A i \in Engine : Coherent(i, NewGraphReader(i))
    BY CoherentNew, Zenon DEF EveryEngineHasEdges
  <2>3. 0 \in Engine
    BY LayoutAssumption
  <2> QED
    BY <2>1, <2>2, <2>3, Zenon DEF ReadersSound
<1>2. MemorySound
  BY DEF Init, MemoryInit, DramInit, MemorySound, DramSound
<1>3. FeaturesSound
  <2>1. FeatureReaderInit
    BY Zenon DEF Init
  <2>2. pq = [i \in Engine |-> <<>>] /\ fq = [i \in Engine |-> <<>>]
    BY <2>1, Zenon DEF FeatureReaderInit
  <2>3. frs \in [Engine -> ReadRecord] /\ \A i \in Engine : frs[i].pq_read_need
    BY <2>1 DEF FeatureReaderInit, ReadRecord
  <2> QED
    BY <2>2, <2>3, SMTT(20) DEF FeaturesSound, RowEndsFollow
<1>4. CacheSound
  <2>1. sa_cache = [s \in 0 .. cache_set - 1 |-> <<>>] /\ requested = {}
    BY Zenon DEF Init, FeatureReaderInit, NewCache
  <2> QED
    BY <2>1 DEF CacheSound, Caches, Held
<1>5. WritesSound
  <2>1. urb \in Nat
    BY PassAssumption, Zenon
  <2> QED
    BY <2>1 DEF Init, SimdInit, WritesSound
<1> QED
  BY <1>1, <1>2, <1>3, <1>4, <1>5, Zenon DEF Sound

LEMMA SoundStep ==
    ASSUME Sound, [Next]_vars
    PROVE  Sound'
<1>1. ReadersSound'
  BY ReadersStep, Zenon DEF Sound, MemorySound
<1>2. EveryEngineHasEdges'
  BY Zenon DEF Sound, EveryEngineHasEdges
<1> QED
  BY <1>1, <1>2, MemoryStepSound, FeaturesStep, CacheStep, WritesStep, Zenon DEF Sound

\* Every queue, reader, cache set and result of the accelerator is sound
\* before and after every call of the loop (controller.cc:35-94).
THEOREM AlwaysSound == Spec /\ EveryEngineHasEdges => []Sound
<1>1. Init /\ EveryEngineHasEdges => Sound
  BY SoundInit, Zenon
<1>2. Sound /\ [Next]_vars => Sound'
  BY SoundStep, Zenon
<1> QED
  BY <1>1, <1>2, PTL DEF Spec

\* The first entry of fq is always a line, never the end of a row
\* (f_reader.cc:134-141 and 258-261).
THEOREM RowEndsNeverFirst == Spec /\ EveryEngineHasEdges => []RowEndNeverFirst
<1>1. Sound => RowEndNeverFirst
  BY NextEntry, Zenon DEF Sound, RowEndNeverFirst
<1> QED
  BY <1>1, AlwaysSound, PTL

-----------------------------------------------------------------------------
(* Requests are waited for. *)

\* A call keeps the waiting for lines that stay requested, and waits for the
\* line it requests.
LEMMA WaitingStep ==
    ASSUME Sound, RequestsWaitedFor, [Next]_vars
    PROVE  RequestsWaitedFor'
<1> SUFFICES ASSUME NEW line \in requested' PROVE \E i \in Engine : Waits(i, line)'
  BY Zenon DEF RequestsWaitedFor
<1>1. line \in requested => \E i \in Engine : Waits(i, line)
  BY Zenon DEF RequestsWaitedFor
<1>2. CASE UNCHANGED <<fq, frs>> /\ requested' \subseteq requested
  BY <1>1, <1>2, Zenon DEF Waits
<1>3. CASE ReadsLine
  <2>1. PICK e \in Engine, a \in Lines : ReadEffect(e, a)
    BY <1>3, Zenon DEF ReadsLine
  <2>2. requested' \subseteq requested \cup {a} /\ (a \in requested' => Waits(e, a)')
    BY <2>1, Zenon DEF ReadEffect, Fetched
  <2>3. CASE line \in requested
    <3>1. PICK i \in Engine : Waits(i, line)
      BY <1>1, <2>3, Zenon
    <3>2. CASE i = e
      BY <2>1, <2>3, <3>1, <3>2, Zenon DEF ReadEffect
    <3>3. CASE i # e
      <4>1. fq'[i] = fq[i] /\ frs'[i] = frs[i]
        BY <2>1, <3>3, Zenon DEF ReadEffect
      <4> QED
        BY <3>1, <4>1, Zenon DEF Waits
    <3> QED
      BY <3>2, <3>3, Zenon
  <2> QED
    BY <2>2, <2>3, Zenon
<1>4. CASE PassesLine
  <2>1. PICK e \in Engine : PassEffect(e)
    BY <1>4, Zenon DEF PassesLine
  <2>2. requested' = requested /\ frs' = frs
    BY <2>1, Zenon DEF PassEffect
  <2>3. PICK i \in Engine : Waits(i, line)
    BY <1>1, <2>2, Zenon
  <2>4. CASE i = e
    BY <2>1, <2>2, <2>3, <2>4, Zenon DEF PassEffect
  <2>5. CASE i # e
    <3>1. fq'[i] = fq[i]
      BY <2>1, <2>5, Zenon DEF PassEffect
    <3> QED
      BY <2>2, <2>3, <3>1, Zenon DEF Waits
  <2> QED
    BY <2>4, <2>5, Zenon
<1>5. CASE AsksAgain
  <2>1. PICK e \in Engine : AgainEffect(e)
    BY <1>5, Zenon DEF AsksAgain
  <2>2. /\ fq[e] # <<>> /\ requested' \subseteq requested \cup {Head(fq[e])}
        /\ UNCHANGED <<fq, frs>>
    BY <2>1, Zenon DEF AgainEffect, Fetched
  <2>3. Head(fq[e]) \in Range(fq[e])
    BY <2>2, NextEntry, Zenon DEF Sound, Range
  <2>4. \E i \in Engine : Waits(i, line)
    BY <1>1, <2>2, <2>3, Zenon DEF Waits
  <2> QED
    BY <2>2, <2>4, Zenon DEF Waits
<1>6. CASE FeatureReceive
  BY <1>2, <1>6, Zenon DEF FeatureReceive
<1> QED
  BY <1>2, <1>3, <1>4, <1>5, <1>6, CacheCalls, Zenon DEF CacheUntouched

\* No line is requested that nobody waits for, whatever the engines evict and
\* however many vertices are preloaded (f_reader.cc:100-265).
THEOREM RequestsAreWaitedFor == Spec /\ EveryEngineHasEdges => []RequestsWaitedFor
<1>1. Init => RequestsWaitedFor
  BY Zenon DEF Init, FeatureReaderInit, RequestsWaitedFor
<1>2. Sound /\ RequestsWaitedFor /\ [Next]_vars => RequestsWaitedFor'
  BY WaitingStep, Zenon
<1> QED
  BY <1>1, <1>2, AlwaysSound, PTL DEF Spec

=============================================================================
