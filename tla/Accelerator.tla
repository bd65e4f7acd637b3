----------------------------- MODULE Accelerator ---------------------------
(***************************************************************************)
(* The accelerator: Controller::GCNInference (src/src/controller.cc)       *)
(* drives the graph readers, the feature reader, the SIMD units and the    *)
(* memory cycle by cycle, in a fixed order, until every result is written. *)
(* One action is one call of the loop; only the DRAM chooses.              *)
(***************************************************************************)
EXTENDS GraphReader, Simd

CONSTANT davc_reads    \* davc_list.size() * urb * bf, the reads of DAVCRead

ASSUME DavcAssumption == davc_reads \in Nat

VARIABLES
    gr,    \* gr[i]: the graph reader of engine i
    at,    \* the call the controller makes next
    eng,   \* the engine it makes it for
    davc,  \* reads DAVCRead has added
    xw_get \* feature lines received; only DAVCRead looks at it

vars == <<gr, at, eng, davc, xw_get, memVars, frVars, simdVars>>

Init ==
    /\ gr = [i \in Engine |-> NewGraphReader(i)]
    /\ at = IF davc_reads = 0 THEN "VertexRequest" ELSE "DAVCRead"
    /\ eng = 0
    /\ davc = 0 /\ xw_get = 0
    /\ MemoryInit
    /\ total_write = InitialWrites
    /\ FeatureReaderInit
    /\ SimdInit

\* The controller is at call c and goes on to call d.
Call(c, d) == at = c /\ at' = d /\ UNCHANGED <<eng, davc, xw_get>>

\* The reader changes from gr[eng] to g.
Reader(g) == gr' = [gr EXCEPT ![eng] = g]

-----------------------------------------------------------------------------
(* DAVCRead: every line to be preloaded is read from the same address. *)

DAVCRequest ==
    /\ at = "DAVCRead" /\ at' = "DAVC UpdateCycle"
    /\ davc' = IF davc < davc_reads THEN davc + 1 ELSE davc
    /\ ConsumeTransaction(IF davc < davc_reads THEN WithReads(<<xw_ele_addr_start>>) ELSE tq)
    /\ UNCHANGED <<gr, eng, xw_get, frVars, simdVars>>

DAVCComplete ==
    /\ at = "DAVC UpdateCycle"
    /\ Complete
    /\ xw_get' = xw_get + Len(mem_fq') - Len(mem_fq)
    /\ UNCHANGED <<gr, at, eng, davc, frVars, simdVars>>

\* At most one of the lines received is thrown away per cycle; the rest is
\* left to the first FeatureReceive.
DAVCGetFeature ==
    LET over == davc = davc_reads /\ xw_get >= davc_reads
    IN  /\ at = "DAVC UpdateCycle"
        /\ at' = IF over THEN "VertexRequest" ELSE "DAVCRead"
        /\ mem_fq' = IF mem_fq = <<>> THEN <<>> ELSE Tail(mem_fq)
        /\ xw_get' = IF over THEN 0 ELSE xw_get
        /\ UNCHANGED <<gr, eng, davc, tq, rq, dram, total_write, frVars, simdVars>>

-----------------------------------------------------------------------------
(* The calls of the loop. *)

VertexRequest ==
    /\ Call("VertexRequest", "EdgeRequest")
    /\ IF ~gr[eng].v_req_over /\ WillAcceptTransaction
       THEN Reader(VertexRequested(eng, gr[eng])) /\ tq' = WithReads(VertexLines(gr[eng]))
       ELSE UNCHANGED <<gr, tq>>
    /\ UNCHANGED <<rq, mem_fq, dram, total_write, frVars, simdVars>>

EdgeRequest ==
    /\ Call("EdgeRequest", "GraphReceive")
    /\ IF ~gr[eng].e_req_over /\ WillAcceptTransaction
       THEN Reader(EdgeRequested(eng, gr[eng])) /\ tq' = WithReads(EdgeLines(gr[eng]))
       ELSE UNCHANGED <<gr, tq>>
    /\ UNCHANGED <<rq, mem_fq, dram, total_write, frVars, simdVars>>

GraphReceive ==
    /\ Call("GraphReceive", "NextFeature")
    /\ IF gr[eng].reci_over
       THEN UNCHANGED <<gr, rq>>
       ELSE IF rq[eng] = <<>>
       THEN Reader(GraphReceived(eng, gr[eng], "Empty")) /\ UNCHANGED rq
       ELSE /\ Reader(GraphReceived(eng, gr[eng], Head(rq[eng])))
            /\ rq' = [rq EXCEPT ![eng] = Tail(@)]
    /\ UNCHANGED <<tq, mem_fq, dram, total_write, frVars, simdVars>>

\* NextFeature is not called, or finds that everything has been passed.
NextFeatureOver ==
    /\ gr[eng].pass_over \/ AllPassed(eng, gr[eng])
    /\ Call("NextFeature", "ReadNext")
    /\ Reader(PassOver(gr[eng]))
    /\ UNCHANGED <<memVars, frVars, simdVars>>

Entered == at = "NextFeature" /\ ~gr[eng].pass_over /\ ~AllPassed(eng, gr[eng])

\* One iteration of NextFeature's loop over rows without edges.
NextFeatureRow ==
    /\ at = "NextFeature skip" \/ (Entered /\ RowWanted(gr[eng]))
    /\ IF RowsExhausted(eng, gr[eng])
       THEN UNCHANGED gr /\ at' = "NextFeature pick"
       ELSE /\ Reader(RowTaken(eng, gr[eng]))
            /\ at' = IF RowLoops(RowTaken(eng, gr[eng]))
                     THEN "NextFeature skip" ELSE "NextFeature pick"
    /\ UNCHANGED <<eng, davc, xw_get, memVars, frVars, simdVars>>

\* NextFeature returns an edge, which the controller puts into pq.
NextFeatureReturn ==
    /\ at = "NextFeature pick" \/ (Entered /\ ~RowWanted(gr[eng]))
    /\ at' = "ReadNext"
    /\ IF ~EdgeReady(gr[eng])
       THEN UNCHANGED <<gr, pq>>
       ELSE IF WrapEnds(eng, gr[eng])
       THEN Reader(PassOver(ColumnWrap(eng, gr[eng]))) /\ UNCHANGED pq
       ELSE /\ Reader(EdgeTaken(ColumnWrap(eng, gr[eng])))
            /\ EnterFtoList(EdgeOf(eng, ColumnWrap(eng, gr[eng])))
    /\ UNCHANGED <<eng, davc, xw_get, memVars, frs, fq, requested, sa_cache, simdVars>>

ReadNextCall ==
    /\ Call("ReadNext", "PassFtoSIMD")
    /\ ReadNext(eng)
    /\ UNCHANGED <<gr, rq, mem_fq, dram, total_write, simdVars>>

\* The result of PassFtoSIMD goes to the SIMD unit.
PassCall ==
    /\ Call("PassFtoSIMD", "Write")
    /\ PassFtoSIMD(eng)
    /\ GetFeature(eng, Passed(eng))
    /\ UNCHANGED <<gr, rq, mem_fq, dram, total_write>>

\* The last call for an engine; the next engine follows, or the memory.
WriteCall ==
    /\ at = "Write"
    /\ Write(eng)
    /\ at' = IF eng + 1 \in Engine THEN "VertexRequest" ELSE "FeatureReceive"
    /\ eng' = IF eng + 1 \in Engine THEN eng + 1 ELSE 0
    /\ UNCHANGED <<davc, xw_get, gr, rq, mem_fq, dram, total_write, frVars>>

FeatureReceiveCall ==
    /\ Call("FeatureReceive", "ConsumeTransaction")
    /\ FeatureReceive
    /\ UNCHANGED <<gr, tq, rq, dram, total_write, simdVars>>

ConsumeCall ==
    /\ Call("ConsumeTransaction", "UpdateCycle")
    /\ ConsumeTransaction(tq)
    /\ UNCHANGED <<gr, frVars, simdVars>>

\* UpdateCycle: the DRAM completes any number of transactions ...
CompleteCall ==
    /\ Call("UpdateCycle", "UpdateCycle")
    /\ Complete
    /\ UNCHANGED <<gr, frVars, simdVars>>

\* ... and the loop is left when nothing remains to be written.
CycleEnd ==
    /\ Call("UpdateCycle", IF total_write = 0 THEN "exit" ELSE "VertexRequest")
    /\ UNCHANGED <<gr, memVars, frVars, simdVars>>

Exited == at = "exit" /\ UNCHANGED vars

EngineStep ==
    \/ VertexRequest \/ EdgeRequest \/ GraphReceive
    \/ NextFeatureOver \/ NextFeatureRow \/ NextFeatureReturn
    \/ ReadNextCall \/ PassCall \/ WriteCall

Consuming == DAVCRequest \/ ConsumeCall

MemoryStep == FeatureReceiveCall \/ Consuming \/ DAVCGetFeature \/ CycleEnd

Completing == DAVCComplete \/ CompleteCall

Next == EngineStep \/ MemoryStep \/ Completing \/ Exited

Spec == Init /\ [][Next]_vars

\* The loops run on; a DRAM with transactions in flight does not tick for
\* ever without completing one, nor refuse for ever (ReadsReported and Accepts
\* of JedecDram).
Fairness ==
    /\ WF_vars(EngineStep \/ MemoryStep)
    /\ SF_vars(Completing)
    /\ SF_vars(Consuming /\ dram' # dram)

FairSpec == Spec /\ Fairness

-----------------------------------------------------------------------------
(* Properties. *)

\* Members keep their types; in particular total_write never wraps around.
TypeOK ==
    /\ gr \in [Engine -> GraphReaderType]
    /\ eng \in Engine
    /\ requested \subseteq Lines
    /\ total_write \in 0 .. InitialWrites
    /\ \A i \in Engine : ss[i].cur_bf \in 1 .. bf + 1

\* The cache never holds a line twice nor more lines than it has ways, and no
\* line is at once in the cache and requested (Insert, cache.cc:14-21, does
\* not look; Fetch and FeatureReceive, f_reader.cc:114-117 and 231-232, must
\* see to it).
CacheConsistent ==
    \A s \in DOMAIN sa_cache :
        /\ Len(sa_cache[s]) <= cache_way
        /\ IsInjective(sa_cache[s])
        /\ Range(sa_cache[s]) \cap requested = {}

\* How many requests for a feature line are on their way.
Outstanding(line) ==
    Occurrences(tq, READ(line)) + Copies(READ(line)) + Occurrences(mem_fq, line)

\* Two engines that want the same line share one request: a line is requested
\* exactly as long as one answer for it is on its way (f_reader.cc:114-117,
\* 232 and 251-254).
OneRequestPerLine ==
    \A line \in Lines : Outstanding(line) = IF line \in requested THEN 1 ELSE 0

\* No line is requested that nobody waits for, so that nothing is left to
\* arrive when the last row is done (ReadNext and PassFtoSIMD,
\* f_reader.cc:100-265).
RequestsWaitedFor ==
    \A line \in requested : \E i \in Engine : Waits(i, line)

\* A row end is never the next entry of fq: it is put there and taken away
\* together with the line before it (f_reader.cc:134-141 and 258-261).
RowEndNeverFirst ==
    \A i \in Engine : fq[i] # <<>> => Head(fq[i]) # ROW_END

\* A line is in the cache when it is passed on.  Of fq the source says: "they
\* check one more: is really can pass?" (f_reader.cc:44).
PassedFromCache ==
    at = "PassFtoSIMD" /\ CanPass(eng) => Hit(sa_cache, LineOf(Head(fq[eng])))

\* The queues stay near their limits, although a reader checks once and adds
\* twice (g_reader.cc:95-100), ReadNext adds a row end (f_reader.cc:101 and
\* 135), and PassFtoSIMD adds unchecked (f_reader.cc:253).
QueuesBounded ==
    /\ Len(tq) <= REQUEST_LIMIT + 1 + n_of_engine
    /\ \A i \in Engine : Len(fq[i]) <= FQ_LIMIT + 1

-----------------------------------------------------------------------------
(* The work of an engine: the lines it must still pass, with the row ends. *)

\* Lines of an edge from position `col' of its share on.
EdgeWork(ei, col) ==
    LET x     == x_to_addr[ei.dst]
        share == IF mode \in {"X_CMP", "MAT"}
                 THEN SubSeq(x, ei.v_fold * urb + 1 + col,
                             Min({(ei.v_fold + 1) * urb, total_urb}))
                 ELSE SubSeq(x, Max({col, 1}) + 1, Len(x))
    IN  SelectSeq(share, LAMBDA line : line # 0)
            \o IF ei.is_last THEN <<ROW_END>> ELSE <<>>

\* Lines of a sequence of edges.
EdgesWork(edges) ==
    LET work[n \in 0 .. Len(edges)] ==
            IF n = 0 THEN <<>> ELSE work[n - 1] \o EdgeWork(edges[n], 0)
    IN  work[Len(edges)]

\* Edge k of pass p of engine i.
EdgeAt(i, p, k) ==
    [id |-> i, is_last |-> \E r \in 1 .. Len(row_ptr[i]) - 1 :
                               RowPtr(i, r - 1) <= k /\ RowPtr(i, r) = k + 1,
     dst |-> ColIdx(i, k), v_fold |-> p]

\* Edges the reader of engine i has not returned yet.
EdgesLeft(i) ==
    LET E == Len(col_idx[i])
        done == gr[i].g_pass_count * E + gr[i].cur_col_idx
    IN  [n \in 1 .. bf * E - done |->
            EdgeAt(i, (done + n - 1) \div E, (done + n - 1) % E)]

Work(i) ==
    LET current == IF frs[i].pq_read_need THEN <<>>
                   ELSE EdgeWork(frs[i], frs[i].cur_col_idx)
        edges   == pq[i] \o EdgesLeft(i)
    IN  [k \in DOMAIN fq[i] |-> LineOf(fq[i][k])] \o current
            \o EdgesWork(edges)

\* From the CSR to the SIMD unit nothing is lost, doubled, reordered or
\* attributed to the wrong row: a step leaves the work of every engine alone,
\* except that PassFtoSIMD takes a line, and a row end after it, off its front
\* (g_reader.cc:178-257, f_reader.cc:72-219 and 238-265).
WorkInOrder ==
    [][UNCHANGED <<gr, frs, pq, fq>> \/ \A i \in Engine :
          \E old \in {Work(i)}, new \in {Work(i)'} :
             \/ new = old
             \/ /\ at = "PassFtoSIMD" /\ eng = i
                /\ new = SubSeq(old, IF Passed(i) = 0 THEN 3 ELSE 2, Len(old))
      ]_vars

-----------------------------------------------------------------------------
(* Results. *)

\* Row ends the SIMD unit of engine i still expects: what it has counted and
\* what is on its way make bf passes (simd.cc:44-48).
RowsConserved ==
    \A i \in Engine :
        LET w == Work(i)
        IN  (ss[i].cur_bf - 1) * nonzero_row(i) + ss[i].cur_row_idx
                + Occurrences(w, ROW_END)
                = bf * nonzero_row(i)

WritesIn(q) == Quantify(DOMAIN q, LAMBDA k : q[k].is_write)

\* Results on their way from the SIMD units to the DRAM's completion.
WritesUnderway ==
    WritesIn(tq)
        + SumFunctionOnSet(dram, {t \in DOMAIN dram : t.is_write})
        + SumFunction([i \in Engine |-> Len(wq[i])])

\* Results the SIMD unit of engine i has still to produce, by its own counts.
WritesToProduce(i) ==
    LET s == ss[i]
        lastPass == total_urb - urb * (bf - 1)
    IN  IF s.cur_bf > bf THEN 0
        ELSE (nonzero_row(i) - s.cur_row_idx) * s.write_urb
             + IF s.cur_bf < bf
               THEN nonzero_row(i) * ((bf - s.cur_bf - 1) * urb + lastPass)
               ELSE 0

\* total_write, computed by the preprocessor from rows and feature width and
\* counted down by callbacks, is what the SIMD units will produce and what is
\* underway; the loop is left neither early nor never (preprocessor.cc:43-44,
\* simd.cc:36-52, memory.cc:142, controller.cc:85).
WritesConserved ==
    total_write = WritesUnderway + SumFunction([i \in Engine |-> WritesToProduce(i)])

\* When the loop is left every edge has been aggregated, no queue holds
\* anything of it and no feature line is on its way (controller.cc:85-86).
DoneAtExit ==
    at = "exit" =>
        /\ \A i \in Engine : Work(i) = <<>> /\ wq[i] = <<>>
        /\ requested = {}
        /\ WritesUnderway = 0

\* The inference ends, however slow the DRAM is and whatever order it answers
\* in, also when the engines evict each other's lines (controller.cc:45-88,
\* f_reader.cc:250-256).
InferenceEnds == <>(at = "exit")

=============================================================================
