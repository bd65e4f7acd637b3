-------------------------- MODULE GraphFetchProofs -------------------------
(***************************************************************************)
(* Proofs about GraphFetch, for every graph with edges, every line size of *)
(* at least two elements, every bf and both modes.                         *)
(***************************************************************************)
EXTENDS GraphFetch, GraphReaderProofs

\* The inductive invariant.
IInv == TypeOK /\ FetchSound

\* A new reader (g_reader.cc:13-74) of an engine with edges.
LEMMA InitInv == Init /\ HasEdges => IInv
<1> SUFFICES ASSUME Init, HasEdges PROVE IInv
  OBVIOUS
<1>1. id \in Engine /\ gr = NewGraphReader(id) /\ Len(col_idx[id]) > 0
  BY DEF Init, HasEdges
<1>2. gr \in GraphReaderType /\ ReaderSound(id, gr)
  BY <1>1, NewSound
<1>3. TypeOK
  BY <1>1, <1>2 DEF Init, TypeOK, Kind
<1>4. FetchSound
  BY <1>2 DEF Init, FetchSound, Kind
<1> QED
  BY <1>3, <1>4 DEF IInv

\* What an action keeps when it leaves the reader sound.
LEMMA Rebuild ==
    ASSUME TypeOK, HasEdges, id' = id, gr' \in GraphReaderType,
           ReaderSound(id, gr'), pending' \in [Kind -> Nat],
           gnn_mode = "OTHER" => pending'["Value"] = 0,
           nf' = "call"
    PROVE  IInv'
BY DEF IInv, TypeOK, FetchSound, HasEdges

\* Every call (g_reader.cc:78-257) keeps the invariant.
LEMMA NextInv == IInv /\ [Next]_vars => IInv'
<1> SUFFICES ASSUME IInv, [Next]_vars PROVE IInv'
  OBVIOUS
<1>1. /\ TypeOK /\ HasEdges /\ ReaderSound(id, gr)
      /\ id \in Engine /\ gr \in GraphReaderType /\ Len(col_idx[id]) > 0
      /\ pending \in [Kind -> Nat]
      /\ gnn_mode = "OTHER" => pending["Value"] = 0
  BY DEF IInv, TypeOK, FetchSound, HasEdges
<1>2. /\ nf # "call" => ~AllPassed(id, gr) /\ ~gr.pass_over
      /\ nf = "skip" =>
            /\ gr.remain_edge = 0
            /\ gr.cur_row_idx < gr.row_end_idx \/ gr.row_overflow > 0
  BY DEF IInv, FetchSound
<1>3. CASE VertexRequest
  <2>1. gr' \in GraphReaderType /\ ReaderSound(id, gr')
    BY <1>1, <1>3, VertexRequestSame, SameCursorsSound DEF VertexRequest
  <2>2. /\ pending' \in [Kind -> Nat] /\ id' = id /\ nf' = "call"
        /\ pending'["Value"] = pending["Value"]
    BY <1>1, <1>3 DEF VertexRequest, Kind
  <2> QED
    BY <1>1, <2>1, <2>2, Rebuild
<1>4. CASE EdgeRequest
  <2>1. gr' \in GraphReaderType /\ ReaderSound(id, gr')
    BY <1>1, <1>4, EdgeRequestSame, SameCursorsSound DEF EdgeRequest
  <2>2. /\ pending' \in [Kind -> Nat] /\ id' = id /\ nf' = "call"
        /\ gnn_mode = "OTHER" => pending'["Value"] = pending["Value"]
    BY <1>1, <1>4 DEF EdgeRequest, Kind
  <2> QED
    BY <1>1, <2>1, <2>2, Rebuild
<1>5. ASSUME NEW type \in Kind, GraphReceive(type)
      PROVE  IInv'
  <2>1. /\ id' = id /\ nf' = "call" /\ pending[type] > 0
        /\ gr' = GraphReceived(id, gr, type)
        /\ pending' = [pending EXCEPT ![type] = @ - 1]
    BY <1>5 DEF GraphReceive
  <2>2. pending' \in [Kind -> Nat]
    BY <1>1, <2>1
  <2>3. gnn_mode = "OTHER" => type # "Value" /\ pending'["Value"] = 0
    BY <1>1, <2>1 DEF Kind
  <2>4. PICK g \in GraphReaderType : ReaderSound(id, g) /\ gr' = ReceiveOver(g)
    <3>1. CASE type = "Row"
      BY <1>1, <2>1, <3>1, RowReceivedSound DEF GraphReceived
    <3>2. CASE type = "Column"
      BY <1>1, <2>1, <3>2, ColumnReceivedSound DEF GraphReceived
    <3>3. CASE type = "Value"
      <4>1. gnn_mode = "GCN"
        BY <2>3, <3>3, ModeAssumption
      <4> QED
        BY <1>1, <2>1, <3>3, <4>1, ValueReceivedSound DEF GraphReceived
    <3> QED
      BY <3>1, <3>2, <3>3 DEF Kind
  <2>5. gr' \in GraphReaderType /\ ReaderSound(id, gr')
    BY <1>1, <2>4, FlagSame, SameCursorsSound
  <2> QED
    BY <1>1, <2>1, <2>2, <2>3, <2>5, Rebuild
<1>6. CASE NextFeatureOver
  <2>1. gr' \in GraphReaderType /\ ReaderSound(id, gr')
    BY <1>1, <1>6, FlagSame, SameCursorsSound DEF NextFeatureOver
  <2>2. id' = id /\ nf' = "call" /\ pending' = pending
    BY <1>6 DEF NextFeatureOver
  <2> QED
    BY <1>1, <2>1, <2>2, Rebuild
<1>7. CASE NextFeatureRow
  <2>1. /\ gr.remain_edge = 0
        /\ gr.cur_row_idx < gr.row_end_idx \/ gr.row_overflow > 0
        /\ ~AllPassed(id, gr) /\ ~gr.pass_over
    BY <1>2, <1>7 DEF NextFeatureRow, Entered, RowWanted
  <2>2. /\ id' = id /\ pending' = pending /\ gr' = RowTaken(id, gr)
        /\ nf' = IF RowLoops(gr') THEN "skip" ELSE "pick"
    BY <1>1, <1>7, <2>1, RowTakenSound DEF NextFeatureRow
  <2>3. /\ gr' \in GraphReaderType /\ ReaderSound(id, gr')
        /\ gr'.pass_over = gr.pass_over
        /\ gr'.cur_col_idx = gr.cur_col_idx
        /\ gr'.g_pass_count = gr.g_pass_count
        /\ RowLoops(gr') =>
              /\ gr'.remain_edge = 0
              /\ gr'.cur_row_idx < gr'.row_end_idx \/ gr'.row_overflow > 0
    BY <1>1, <2>1, <2>2, RowTakenSound
  <2>4. ~AllPassed(id, gr') /\ ~gr'.pass_over
    BY <2>1, <2>3 DEF AllPassed
  <2>5. TypeOK'
    BY <1>1, <2>2, <2>3 DEF TypeOK
  <2>6. FetchSound'
    BY <1>1, <2>2, <2>3, <2>4 DEF FetchSound, HasEdges
  <2> QED
    BY <2>5, <2>6 DEF IInv
<1>8. CASE NextFeatureReturn
  <2>1. ~AllPassed(id, gr)
    BY <1>2, <1>8 DEF NextFeatureReturn, Entered
  <2>2. id' = id /\ pending' = pending /\ nf' = "call"
    BY <1>8 DEF NextFeatureReturn
  <2>3. CASE ~EdgeReady(gr)
    BY <1>1, <1>8, <2>2, <2>3, Rebuild DEF NextFeatureReturn
  <2>4. CASE EdgeReady(gr)
    <3> DEFINE w == ColumnWrap(id, gr)
    <3>1. /\ ~WrapEnds(id, gr)
          /\ w \in GraphReaderType /\ ReaderSound(id, w) /\ EdgeReady(w)
          /\ w.cur_col_idx < Len(col_idx[id])
          /\ w.cur_col_idx + w.remain_edge = RowPtr(id, w.cur_row_idx - 1)
      BY <1>1, <2>1, <2>4, ColumnWrapSound
    <3>2. gr' = EdgeTaken(w)
      BY <1>8, <2>4, <3>1 DEF NextFeatureReturn
    <3> HIDE DEF w
    <3>3. gr' \in GraphReaderType /\ ReaderSound(id, gr')
      BY <1>1, <3>1, <3>2, EdgeTakenSound
    <3> QED
      BY <1>1, <2>2, <3>3, Rebuild
  <2> QED
    BY <2>3, <2>4
<1>9. CASE UNCHANGED vars
  BY <1>9 DEF vars, IInv, TypeOK, FetchSound, HasEdges
<1> QED
  BY <1>3, <1>4, <1>5, <1>6, <1>7, <1>8, <1>9 DEF Next, NextFeature

\* The reader's members keep their types and fit together, for every graph
\* with edges (class GraphReader, g_reader.cc:78-257).
THEOREM FetchInvariant == Spec /\ HasEdges => []IInv
BY InitInv, NextInv, PTL DEF Spec

\* TypeOK and FetchSound hold of every engine with edges.
THEOREM FetchTypeOK == Spec /\ HasEdges => []TypeOK
<1>1. IInv => TypeOK
  BY DEF IInv
<1> QED
  BY <1>1, FetchInvariant, PTL

\* No edge is passed before its lines are here (NextFeature,
\* g_reader.cc:187-210), for every engine with edges.
THEOREM NoEarlyEdgeHolds == Spec /\ HasEdges => []NoEarlyEdge
<1>1. IInv => NoEarlyEdge
  <2> SUFFICES ASSUME IInv PROVE NoEarlyEdge
    OBVIOUS
  <2>1. /\ gr \in GraphReaderType /\ id \in Engine /\ Len(col_idx[id]) > 0
        /\ RowsSound(id, gr) /\ ColumnsSound(id, gr) /\ ValuesSound(id, gr)
    BY DEF IInv, TypeOK, FetchSound, HasEdges, ReaderSound
  <2>2. /\ gr.e_reci_count \in Nat /\ gr.col_end_idx \in Nat /\ gr.col_overflow \in Nat
        /\ gr.val_reci_count \in Nat /\ gr.val_end_idx \in Nat /\ gr.val_overflow \in Nat
        /\ gr.g_pass_count \in Nat /\ gr.cur_col_idx \in Nat
        /\ Len(col_idx[id]) \in Nat
    BY <2>1, CsrFacts DEF GraphReaderType
  <2>3. ASSUME NEW size \in Nat, NEW p \in Nat, NEW cur \in Nat, NEW end \in Nat,
               NEW overflow \in Nat, NEW count \in Nat,
               CursorSound(size, p, cur, end, overflow, count)
        PROVE  Arrived(p, cur, count, end)
    BY <2>3 DEF CursorSound, Arrived
  <2>4. Arrived(gr.g_pass_count, gr.cur_col_idx, gr.e_reci_count, gr.col_end_idx)
    BY <2>1, <2>2, <2>3 DEF ColumnsSound
  <2>5. ASSUME gnn_mode = "GCN"
        PROVE  Arrived(gr.g_pass_count, gr.cur_col_idx, gr.val_reci_count,
                       gr.val_end_idx)
    BY <2>1, <2>2, <2>3, <2>5 DEF ValuesSound
  <2> QED
    BY <2>1, <2>4, <2>5 DEF NoEarlyEdge, RowsSound
<1> QED
  BY <1>1, FetchInvariant, PTL

-----------------------------------------------------------------------------
(* What the reader requests. *)

\* The request side of a reader: the next addresses lie in the engine's
\* regions, and the column lines have been asked for fewer than bf times, or
\* exactly bf times once e_req_over is set.
RequestInv ==
    /\ RequestsInRegion
    /\ ~gr.e_req_over => gr.e_req_count < bf
    /\ gr.e_req_over => /\ gr.e_req_count = bf
                        /\ gr.next_e_addr = data_index[id].col_addr_start

\* ... nor do they touch e_req_over, which only EdgeRequest sets.
LEMMA OthersKeepOver ==
    ASSUME NEW i \in Engine, NEW g \in GraphReaderType
    PROVE  /\ RowReceived(i, g).e_req_over = g.e_req_over
           /\ ColumnReceived(i, g).e_req_over = g.e_req_over
           /\ ValueReceived(i, g).e_req_over = g.e_req_over
           /\ ReceiveOver(g).e_req_over = g.e_req_over
           /\ PassOver(g).e_req_over = g.e_req_over
           /\ RowTaken(i, g).e_req_over = g.e_req_over
           /\ ColumnWrap(i, g).e_req_over = g.e_req_over
           /\ EdgeTaken(g).e_req_over = g.e_req_over
<1>1. /\ RowReceived(i, g).e_req_over = g.e_req_over
      /\ ColumnReceived(i, g).e_req_over = g.e_req_over
      /\ ValueReceived(i, g).e_req_over = g.e_req_over
  BY DEF RowReceived, ColumnReceived, ValueReceived, GraphReaderType
<1>2. /\ ReceiveOver(g).e_req_over = g.e_req_over
      /\ PassOver(g).e_req_over = g.e_req_over
  BY DEF ReceiveOver, PassOver, GraphReaderType
<1>3. /\ RowTaken(i, g).e_req_over = g.e_req_over
      /\ ColumnWrap(i, g).e_req_over = g.e_req_over
      /\ EdgeTaken(g).e_req_over = g.e_req_over
  BY DEF RowTaken, ColumnWrap, EdgeTaken, GraphReaderType
<1> QED
  BY <1>1, <1>2, <1>3

\* A call that requests nothing keeps RequestInv.
LEMMA RequestInvSame ==
    ASSUME RequestInv, id' = id, SameRequests(gr, gr'),
           gr'.e_req_over = gr.e_req_over
    PROVE  RequestInv'
BY DEF RequestInv, RequestsInRegion, RequestsSound, SameRequests

\* VertexRequest (g_reader.cc:78-92) keeps RequestInv.
LEMMA VertexRequestInv ==
    ASSUME TypeOK, HasEdges, RequestInv, VertexRequest
    PROVE  RequestInv'
<1>1. id \in Engine /\ gr \in GraphReaderType /\ Len(col_idx[id]) > 0
  BY DEF TypeOK, HasEdges
<1>2. id' = id /\ gr' = VertexRequested(id, gr)
  BY DEF VertexRequest
<1>3. RequestsSound(id, gr')
  BY <1>1, <1>2, VertexRequestedSound DEF RequestInv, RequestsInRegion
<1>4. gr'.next_e_addr = gr.next_e_addr /\ gr'.e_req_count = gr.e_req_count
  BY <1>1, <1>2 DEF VertexRequested, GraphReaderType
<1>5. gr'.e_req_over = gr.e_req_over
  BY <1>1, <1>2 DEF VertexRequested, GraphReaderType
<1> QED
  BY <1>2, <1>3, <1>4, <1>5 DEF RequestInv, RequestsInRegion

\* EdgeRequest (g_reader.cc:94-116) keeps RequestInv.
LEMMA EdgeRequestInv ==
    ASSUME TypeOK, HasEdges, RequestInv, EdgeRequest
    PROVE  RequestInv'
<1> DEFINE d == data_index[id]
           c == gr.e_req_count
           wrap == gr.next_e_addr + 1 = d.col_addr_end
<1>1. id \in Engine /\ gr \in GraphReaderType /\ Len(col_idx[id]) > 0
  BY DEF TypeOK, HasEdges
<1>2. id' = id /\ gr' = EdgeRequested(id, gr) /\ ~gr.e_req_over
  BY DEF EdgeRequest
<1>3. RequestsSound(id, gr')
  BY <1>1, <1>2, EdgeRequestedSound DEF RequestInv, RequestsInRegion
<1>4. /\ gr'.next_e_addr = IF wrap THEN d.col_addr_start ELSE gr.next_e_addr + 1
      /\ gr'.e_req_count = IF wrap THEN c + 1 ELSE c
  BY <1>1, <1>2 DEF EdgeRequested, GraphReaderType
<1>5. gr'.e_req_over <=> gr.e_req_over \/ (wrap /\ c + 1 = bf)
  BY <1>1, <1>2 DEF EdgeRequested, GraphReaderType
<1>6. c \in Nat /\ bf \in Nat /\ c < bf
  BY <1>1, <1>2, BfAssumption DEF GraphReaderType, RequestInv
<1>7. ~gr'.e_req_over => gr'.e_req_count < bf
  <2> HIDE DEF c, wrap
  <2> QED
    BY <1>4, <1>5, <1>6
<1>8. gr'.e_req_over =>
          /\ gr'.e_req_count = bf
          /\ gr'.next_e_addr = d.col_addr_start
  BY <1>2, <1>4, <1>5
<1> QED
  BY <1>2, <1>3, <1>7, <1>8 DEF RequestInv, RequestsInRegion

\* Every step keeps RequestInv.
LEMMA RequestInvStep == IInv /\ RequestInv /\ [Next]_vars => RequestInv'
<1> SUFFICES ASSUME IInv, RequestInv, [Next]_vars PROVE RequestInv'
  OBVIOUS
<1>1. TypeOK /\ HasEdges /\ id \in Engine /\ gr \in GraphReaderType
  BY DEF IInv, TypeOK, FetchSound
<1>2. /\ Len(col_idx[id]) > 0 /\ ReaderSound(id, gr)
      /\ gnn_mode = "OTHER" => pending["Value"] = 0
      /\ nf # "call" => ~AllPassed(id, gr)
  BY DEF IInv, FetchSound, HasEdges
<1>3. CASE VertexRequest
  BY <1>1, <1>3, VertexRequestInv
<1>4. CASE EdgeRequest
  BY <1>1, <1>4, EdgeRequestInv
<1>5. ASSUME NEW type \in Kind, GraphReceive(type)
      PROVE  RequestInv'
  <2>1. id' = id /\ gr' = GraphReceived(id, gr, type)
    BY <1>5 DEF GraphReceive
  <2>2. PICK g \in GraphReaderType :
            /\ gr' = ReceiveOver(g)
            /\ SameRequests(gr, g)
            /\ g.e_req_over = gr.e_req_over
    <3>1. CASE type = "Row"
      BY <1>1, <1>2, <2>1, <3>1, RowReceivedSound, OthersRequestNothing,
         OthersKeepOver DEF GraphReceived
    <3>2. CASE type = "Column"
      BY <1>1, <1>2, <2>1, <3>2, ColumnReceivedSound, OthersRequestNothing,
         OthersKeepOver DEF GraphReceived
    <3>3. CASE type = "Value"
      <4>1. gnn_mode = "GCN"
        BY <1>2, <1>5, <3>3, ModeAssumption DEF GraphReceive
      <4> QED
        BY <1>1, <1>2, <2>1, <3>3, <4>1, ValueReceivedSound, OthersRequestNothing,
           OthersKeepOver DEF GraphReceived
    <3> QED
      BY <3>1, <3>2, <3>3 DEF Kind
  <2>3. SameRequests(g, gr') /\ gr'.e_req_over = g.e_req_over
    BY <1>1, <2>2, OthersRequestNothing, OthersKeepOver
  <2>4. SameRequests(gr, gr') /\ gr'.e_req_over = gr.e_req_over
    BY <2>2, <2>3 DEF SameRequests
  <2> QED
    BY <2>1, <2>4, RequestInvSame
<1>6. CASE NextFeatureOver
  BY <1>1, <1>6, OthersRequestNothing, OthersKeepOver, RequestInvSame
     DEF NextFeatureOver
<1>7. CASE NextFeatureRow
  <2>1. id' = id /\ (gr' = gr \/ gr' = RowTaken(id, gr))
    BY <1>7 DEF NextFeatureRow
  <2>2. SameRequests(gr, gr') /\ gr'.e_req_over = gr.e_req_over
    BY <1>1, <2>1, OthersRequestNothing, OthersKeepOver DEF SameRequests
  <2> QED
    BY <2>1, <2>2, RequestInvSame
<1>8. CASE NextFeatureReturn
  <2> DEFINE w == ColumnWrap(id, gr)
  <2>1. id' = id
    BY <1>8 DEF NextFeatureReturn
  <2>2. CASE gr' = gr
    BY <2>1, <2>2, RequestInvSame DEF SameRequests
  <2>3. CASE EdgeReady(gr)
    <3>1. ~AllPassed(id, gr)
      BY <1>2, <1>8 DEF NextFeatureReturn, Entered
    <3>2. ~WrapEnds(id, gr) /\ w \in GraphReaderType
      BY <1>1, <1>2, <2>3, <3>1, ColumnWrapSound
    <3>3. gr' = EdgeTaken(w)
      BY <1>8, <2>3, <3>2 DEF NextFeatureReturn
    <3>4. SameRequests(gr, w) /\ w.e_req_over = gr.e_req_over
      BY <1>1, OthersRequestNothing, OthersKeepOver
    <3> HIDE DEF w
    <3>5. SameRequests(w, gr') /\ gr'.e_req_over = w.e_req_over
      BY <1>1, <3>2, <3>3, OthersRequestNothing, OthersKeepOver
    <3>6. SameRequests(gr, gr') /\ gr'.e_req_over = gr.e_req_over
      BY <3>4, <3>5 DEF SameRequests
    <3> QED
      BY <2>1, <3>6, RequestInvSame
  <2> QED
    BY <1>8, <2>2, <2>3 DEF NextFeatureReturn
<1>9. CASE UNCHANGED vars
  BY <1>9, RequestInvSame DEF vars, SameRequests
<1> QED
  BY <1>3, <1>4, <1>5, <1>6, <1>7, <1>8, <1>9 DEF Next, NextFeature

\* A new reader starts at the beginning of its regions (g_reader.cc:57-66).
LEMMA RequestInvInit == Init /\ HasEdges => RequestInv
<1> SUFFICES ASSUME Init, HasEdges PROVE RequestInv
  OBVIOUS
<1>1. /\ id \in Engine /\ Len(col_idx[id]) > 0
      /\ gr.next_v_addr = data_index[id].row_addr_start
      /\ gr.next_e_addr = data_index[id].col_addr_start
      /\ gr.next_val_addr = data_index[id].value_addr_start
      /\ gr.e_req_count = 0
  BY DEF Init, HasEdges, NewGraphReader
<1>2. gr.e_req_over = FALSE
  BY DEF Init, NewGraphReader
<1>3. RequestsInRegion
  BY <1>1, NewRequestsSound DEF Init, RequestsInRegion
<1> QED
  BY <1>1, <1>2, <1>3, BfAssumption DEF RequestInv

\* RequestInv is an invariant of an engine with edges.
LEMMA RequestInvariant == Spec /\ HasEdges => []RequestInv
BY RequestInvInit, RequestInvStep, FetchInvariant, PTL DEF Spec

\* Every request lies in the engine's own regions, and the value address
\* follows the column address (VertexRequest and EdgeRequest,
\* g_reader.cc:78-116), for every engine with edges.
THEOREM RequestsInRegionHolds == Spec /\ HasEdges => []RequestsInRegion
<1>1. RequestInv => RequestsInRegion
  BY DEF RequestInv
<1> QED
  BY <1>1, RequestInvariant, PTL

\* c passes and a part of the next one are at most b passes.
LEMMA WithinPasses ==
    ASSUME NEW c \in Nat, NEW b \in Nat, NEW f \in Nat, NEW s \in Nat,
           NEW a \in s .. s + f - 1, c < b
    PROVE  c * f + a <= b * f + s
<1>1. PICK k \in Nat : b = c + 1 + k
  BY b - c - 1 \in Nat
<1>2. b * f = c * f + f + k * f
  BY <1>1
<1>3. k * f \in Nat /\ c * f \in Nat
  BY <1>1
<1> QED
  BY <1>2, <1>3

\* The column lines are requested at most bf times (EdgeRequest,
\* g_reader.cc:94-116), for every engine with edges.
THEOREM RequestsWithinBfHolds == Spec /\ HasEdges => []RequestsWithinBf
<1>1. IInv /\ RequestInv => RequestsWithinBf
  <2> SUFFICES ASSUME IInv, RequestInv PROVE RequestsWithinBf
    OBVIOUS
  <2> DEFINE d == data_index[id]
             f == Frag(Len(col_idx[id]))
  <2>1. /\ gr \in GraphReaderType /\ id \in Engine /\ Len(col_idx[id]) > 0
    BY DEF IInv, TypeOK, FetchSound, HasEdges
  <2>2. gr.e_req_count \in Nat /\ bf \in Nat
    BY <2>1, BfAssumption DEF GraphReaderType
  <2>3. /\ f \in Nat /\ d.col_addr_start \in Nat
        /\ d.col_addr_end = d.col_addr_start + f
    BY <2>1, RegionFacts
  <2>4. gr.next_e_addr \in d.col_addr_start .. d.col_addr_start + f - 1
    BY <2>3 DEF RequestInv, RequestsInRegion, RequestsSound
  <2>5. \/ gr.e_req_count < bf
        \/ gr.e_req_count = bf /\ gr.next_e_addr = d.col_addr_start
    BY DEF RequestInv
  <2> HIDE DEF f, d
  <2>6. gr.e_req_count * f + gr.next_e_addr <= bf * f + d.col_addr_start
    <3>1. CASE gr.e_req_count < bf
      BY <2>2, <2>3, <2>4, <3>1, WithinPasses
    <3>2. CASE gr.e_req_count = bf /\ gr.next_e_addr = d.col_addr_start
      <4>1. bf * f \in Nat
        BY <2>2, <2>3
      <4> QED
        BY <2>3, <3>2, <4>1
    <3> QED
      BY <2>5, <3>1, <3>2
  <2> QED
    BY <2>6 DEF RequestsWithinBf, f, d
<1> QED
  BY <1>1, FetchInvariant, RequestInvariant, PTL

-----------------------------------------------------------------------------
(* No answer is left behind. *)

\* Of an array of `size' elements, `reqs' passes and the lines from `start' to
\* before `next' have been asked for, and `count' passes and the lines up to
\* element `end' received; the difference is unanswered.
Balanced(size, reqs, start, next, end, count, unanswered) ==
    /\ reqs < bf \/ (reqs = bf /\ next = start)
    /\ next \in start .. start + Frag(size) - 1
    /\ \E k \in 0 .. Frag(size) - 1 :
          /\ (end = k * CACHE_LINE_COUNT /\ end < size) \/ (k = 0 /\ end = size)
          /\ reqs * Frag(size) + (next - start) = count * Frag(size) + k + unanswered

\* What is asked for is received or pending, for each of the three arrays
\* (g_reader.cc:78-176); the values follow the columns.
RowsBalanced ==
    Balanced(Len(row_ptr[id]), gr.v_req_count, data_index[id].row_addr_start,
             gr.next_v_addr, gr.row_end_idx, gr.v_reci_count, pending["Row"])

ColumnsBalanced ==
    Balanced(Len(col_idx[id]), gr.e_req_count, data_index[id].col_addr_start,
             gr.next_e_addr, gr.col_end_idx, gr.e_reci_count, pending["Column"])

ValuesBalanced ==
    Balanced(Len(col_idx[id]), gr.e_req_count, data_index[id].col_addr_start,
             gr.next_e_addr, gr.val_end_idx, gr.val_reci_count, pending["Value"])

\* The flags say how far the counts are.
FlagsSound ==
    /\ gr.v_req_over <=> gr.v_req_count = bf
    /\ gr.e_req_over <=> gr.e_req_count = bf
    /\ gr.v_reci_over => gr.v_reci_count = bf
    /\ gr.e_reci_over => gr.e_reci_count = bf
    /\ gnn_mode = "GCN" /\ gr.val_reci_over => gr.val_reci_count = bf
    /\ gr.reci_over => gr.v_reci_over /\ gr.e_reci_over /\ gr.val_reci_over

AnswersSound ==
    /\ RowsBalanced /\ ColumnsBalanced /\ FlagsSound
    /\ gnn_mode = "GCN" => ValuesBalanced


\* The line after k lines is the last one of the array exactly if k + 1 lines
\* hold it (preprocessor.cc:475-480, g_reader.cc:125-137).
LEMMA LastLine ==
    ASSUME NEW size \in Nat, size > 0, NEW k \in 0 .. Frag(size) - 1
    PROVE  (k + 1) * CACHE_LINE_COUNT >= size <=> k + 1 = Frag(size)
<1> DEFINE c == CACHE_LINE_COUNT
           q == (size + c - 1) \div c
<1>1. q \in Int /\ c \in Nat /\ c >= 2 /\ k \in Nat /\ k + 1 <= q
  BY LineAssumption, FragPositive DEF Frag
<1>2. c * q <= size + c - 1 /\ size + c - 1 < c * (q + 1)
  BY LineAssumption
<1> HIDE DEF q, c
<1>3. size <= c * q /\ c * q - c < size
  BY <1>1, <1>2
<1>4. CASE k + 1 = q
  BY <1>1, <1>3, <1>4 DEF q, c, Frag
<1>5. CASE k + 1 # q
  <2>1. PICK j \in Nat : q = k + 2 + j
    BY <1>1, <1>5, q - k - 2 \in Nat
  <2>2. c * q = (k + 1) * c + c + j * c
    BY <1>1, <2>1
  <2>3. j * c \in Nat /\ (k + 1) * c \in Nat
    BY <1>1, <2>1
  <2>4. (k + 1) * c < size
    BY <1>1, <1>3, <2>2, <2>3
  <2> QED
    BY <1>1, <1>5, <2>3, <2>4 DEF q, c, Frag
<1> QED
  BY <1>4, <1>5

\* Balanced, for the counters of a region with at least one element.
Traffic(size, reqs, start, next, end, count, unanswered) ==
    /\ size \in Nat /\ size > 0 /\ reqs \in Nat /\ start \in Nat /\ next \in Nat
    /\ end \in Nat /\ count \in Nat /\ unanswered \in Nat
    /\ Balanced(size, reqs, start, next, end, count, unanswered)

\* No more than bf passes are asked for, so nothing is pending once bf of them
\* are received.
LEMMA BalanceAtEnd ==
    ASSUME NEW size, NEW reqs, NEW start, NEW next, NEW end, NEW count, NEW unanswered,
           Traffic(size, reqs, start, next, end, count, unanswered), count = bf
    PROVE  unanswered = 0 /\ reqs = bf
<1>0. /\ size \in Nat /\ size > 0 /\ reqs \in Nat /\ start \in Nat /\ next \in Nat
      /\ end \in Nat /\ count \in Nat /\ unanswered \in Nat
      /\ Balanced(size, reqs, start, next, end, count, unanswered)
  BY DEF Traffic
<1> USE <1>0
<1> DEFINE f == Frag(size)
<1>1. f \in Nat /\ f >= 1 /\ bf \in Nat
  BY FragPositive, BfAssumption
<1>2. PICK k \in 0 .. f - 1 : reqs * f + (next - start) = bf * f + k + unanswered
  BY DEF Balanced
<1>3. next \in start .. start + f - 1 /\ (reqs < bf \/ (reqs = bf /\ next = start))
  BY DEF Balanced
<1> HIDE DEF f
<1>4. CASE reqs < bf
  <2>1. PICK n \in Nat : bf = reqs + 1 + n
    BY <1>1, <1>4, bf - reqs - 1 \in Nat
  <2>2. bf * f = reqs * f + f + n * f
    BY <1>1, <2>1
  <2>3. n * f \in Nat /\ reqs * f \in Nat
    BY <1>1, <2>1
  <2> QED
    BY <1>1, <1>2, <1>3, <2>2, <2>3
<1>5. CASE reqs = bf /\ next = start
  <2>1. reqs * f \in Nat
    BY <1>1
  <2>2. k \in Nat /\ k + unanswered = 0
    BY <1>1, <1>2, <1>5, <2>1
  <2> QED
    BY <1>5, <2>2
<1> QED
  BY <1>3, <1>4, <1>5

\* Where the requests are after one more line.
Asked(size, reqs, start, next, reqs2, next2) ==
    IF next + 1 = start + Frag(size) THEN reqs2 = reqs + 1 /\ next2 = start
                                     ELSE reqs2 = reqs /\ next2 = next + 1

\* One more line is asked for (g_reader.cc:78-116).
LEMMA BalanceAsked ==
    ASSUME NEW size \in Nat, size > 0, NEW reqs \in Nat, NEW start \in Nat,
           NEW next \in Nat, NEW end \in Nat, NEW count \in Nat,
           NEW unanswered \in Nat, reqs # bf,
           Balanced(size, reqs, start, next, end, count, unanswered),
           NEW reqs2, NEW next2, NEW more, more = unanswered + 1,
           Asked(size, reqs, start, next, reqs2, next2)
    PROVE  Balanced(size, reqs2, start, next2, end, count, more)
<1> DEFINE f == Frag(size)
           Part(k) == (end = k * CACHE_LINE_COUNT /\ end < size) \/ (k = 0 /\ end = size)
<1>1. f \in Nat /\ f >= 1 /\ bf \in Nat
  BY FragPositive, BfAssumption
<1>2. PICK k \in 0 .. f - 1 :
          Part(k) /\ reqs * f + (next - start) = count * f + k + unanswered
  BY DEF Balanced
<1>3. reqs < bf /\ next \in start .. start + f - 1
  BY DEF Balanced
<1> HIDE DEF f, Part
<1>4. /\ reqs2 < bf \/ (reqs2 = bf /\ next2 = start)
      /\ next2 \in start .. start + f - 1
  BY <1>1, <1>3 DEF f, Asked
<1>5. reqs2 * f + (next2 - start) = count * f + k + more
  <2>1. (reqs + 1) * f = reqs * f + f /\ reqs * f \in Nat /\ count * f \in Nat
    BY <1>1
  <2>2. reqs2 * f + (next2 - start) = reqs * f + (next - start) + 1
    <3>1. CASE next + 1 = start + f
      <4>1. reqs2 * f = reqs * f + f /\ next2 - start = 0
        BY <2>1, <3>1 DEF f, Asked
      <4> QED
        BY <1>1, <2>1, <3>1, <4>1
    <3>2. CASE next + 1 # start + f
      BY <1>1, <2>1, <3>2 DEF f, Asked
    <3> QED
      BY <3>1, <3>2
  <2> QED
    BY <1>2, <2>1, <2>2
<1> QED
  BY <1>2, <1>3, <1>4, <1>5 DEF Balanced, f, Part

\* One line is received (g_reader.cc:124-168).  That was the last of bf passes
\* only if they had not all been received.
LEMMA BalanceReceived ==
    ASSUME NEW size, NEW reqs, NEW start, NEW next, NEW end, NEW count, NEW unanswered,
           Traffic(size, reqs, start, next, end, count, unanswered), unanswered > 0,
           NEW less, less = unanswered - 1,
           NEW overflow, NEW a, a = Arrive(size, end, overflow, count)
    PROVE  /\ Balanced(size, reqs, start, next, a.end, a.count, less)
           /\ count # bf
           /\ a.over => a.count = bf
<1>0. /\ size \in Nat /\ size > 0 /\ reqs \in Nat /\ start \in Nat /\ next \in Nat
      /\ end \in Nat /\ count \in Nat /\ unanswered \in Nat
      /\ Balanced(size, reqs, start, next, end, count, unanswered)
  BY DEF Traffic
<1> USE <1>0
<1> DEFINE f == Frag(size)
           c == CACHE_LINE_COUNT
           e == (IF end = size THEN 0 ELSE end) + c
           Part(d, k) == (d = k * c /\ d < size) \/ (k = 0 /\ d = size)
<1>1. f \in Nat /\ f >= 1 /\ bf \in Nat /\ c \in Nat
  BY FragPositive, BfAssumption, LineAssumption
<1>2. PICK k \in 0 .. f - 1 :
          Part(end, k) /\ reqs * f + (next - start) = count * f + k + unanswered
  BY DEF Balanced
<1>3. next \in start .. start + f - 1 /\ (reqs < bf \/ (reqs = bf /\ next = start))
  BY DEF Balanced
<1>4. count # bf
  BY BalanceAtEnd, SMTT(30)
<1>5. /\ a.end = IF e >= size THEN size ELSE e
      /\ a.count = IF e >= size THEN count + 1 ELSE count
      /\ a.over = (e >= size /\ count + 1 = bf)
  BY DEF Arrive
<1>6. e = (k + 1) * c
  <2>1. k \in Nat /\ (k + 1) * c = k * c + c /\ k * c \in Nat
    BY <1>1
  <2>2. CASE end = k * c /\ end < size
    BY <1>1, <2>1, <2>2
  <2>3. CASE k = 0 /\ end = size
    BY <1>1, <2>1, <2>3
  <2> QED
    BY <1>2, <2>2, <2>3
<1>7. e >= size <=> k + 1 = f
  BY <1>6, LastLine
<1>8. (count + 1) * f = count * f + f /\ count * f \in Nat /\ reqs * f \in Nat
  BY <1>1
<1> HIDE DEF f, c, e, Part
<1>9. CASE k + 1 = f
  <2>1. a.end = size /\ a.count = count + 1 /\ (a.over <=> count + 1 = bf)
    BY <1>5, <1>7, <1>9
  <2>2. reqs * f + (next - start) = a.count * f + 0 + less
    BY <1>1, <1>2, <1>3, <1>8, <1>9, <2>1
  <2>3. 0 \in 0 .. f - 1 /\ Part(a.end, 0)
    BY <1>1, <2>1 DEF Part
  <2> QED
    BY <1>3, <1>4, <2>1, <2>2, <2>3 DEF Balanced, f, c, Part
<1>10. CASE k + 1 # f
  <2>1. a.end = e /\ a.count = count /\ ~a.over /\ ~(e >= size)
    BY <1>5, <1>7, <1>10
  <2>2. reqs * f + (next - start) = a.count * f + (k + 1) + less
    BY <1>1, <1>2, <1>3, <1>8, <2>1
  <2>3. e \in Nat /\ k + 1 \in 0 .. f - 1
    BY <1>1, <1>6, <1>10
  <2>4. Part(a.end, k + 1)
    BY <1>6, <2>1, <2>3 DEF Part
  <2> QED
    BY <1>3, <1>4, <2>1, <2>2, <2>3, <2>4 DEF Balanced, f, c, Part
<1> QED
  BY <1>9, <1>10

\* The fields AnswersSound is about.
SameTraffic(g, h) ==
    /\ h.v_req_count = g.v_req_count /\ h.next_v_addr = g.next_v_addr
    /\ h.e_req_count = g.e_req_count /\ h.next_e_addr = g.next_e_addr
    /\ h.v_req_over = g.v_req_over /\ h.e_req_over = g.e_req_over
    /\ h.row_end_idx = g.row_end_idx /\ h.v_reci_count = g.v_reci_count
    /\ h.col_end_idx = g.col_end_idx /\ h.e_reci_count = g.e_reci_count
    /\ h.val_end_idx = g.val_end_idx /\ h.val_reci_count = g.val_reci_count
    /\ h.v_reci_over = g.v_reci_over /\ h.e_reci_over = g.e_reci_over
    /\ h.val_reci_over = g.val_reci_over /\ h.reci_over = g.reci_over

\* NextFeature (g_reader.cc:178-257) neither asks nor receives.
LEMMA PassingIsNoTraffic ==
    ASSUME NEW i \in Engine, NEW g \in GraphReaderType
    PROVE  /\ SameTraffic(g, PassOver(g)) /\ SameTraffic(g, RowTaken(i, g))
           /\ SameTraffic(g, ColumnWrap(i, g)) /\ SameTraffic(g, EdgeTaken(g))
<1>1. SameTraffic(g, PassOver(g)) /\ SameTraffic(g, EdgeTaken(g))
  BY DEF SameTraffic, PassOver, EdgeTaken, GraphReaderType
<1>2. SameTraffic(g, RowTaken(i, g))
  BY DEF SameTraffic, RowTaken, GraphReaderType
<1>3. SameTraffic(g, ColumnWrap(i, g))
  BY DEF SameTraffic, ColumnWrap, GraphReaderType
<1> QED
  BY <1>1, <1>2, <1>3

LEMMA AnswersSame ==
    ASSUME AnswersSound, id' = id, pending' = pending, SameTraffic(gr, gr')
    PROVE  AnswersSound'
BY DEF AnswersSound, RowsBalanced, ColumnsBalanced, ValuesBalanced, FlagsSound,
       SameTraffic

\* VertexRequest (g_reader.cc:78-92) asks for one line of row pointers.
LEMMA VertexRequestAnswers ==
    ASSUME IInv, AnswersSound, VertexRequest
    PROVE  AnswersSound'
<1> DEFINE start == data_index[id].row_addr_start
           size == Len(row_ptr[id])
<1>1. id \in Engine /\ gr \in GraphReaderType /\ Len(col_idx[id]) > 0 /\ pending \in [Kind -> Nat]
  BY DEF IInv, TypeOK, FetchSound, HasEdges
<1>2. size \in Nat /\ size > 0
  BY <1>1, CsrFacts
<1>3. start \in Nat /\ data_index[id].row_addr_end = start + Frag(size)
  BY <1>1, IndexAssumption DEF GraphFields
<1>4. /\ id' = id /\ gr' = VertexRequested(id, gr) /\ ~gr.v_req_over
      /\ pending' = [pending EXCEPT !["Row"] = @ + 1]
  BY DEF VertexRequest
<1>5. /\ gr.v_req_count \in Nat /\ gr.next_v_addr \in Nat /\ gr.row_end_idx \in Nat
      /\ gr.v_reci_count \in Nat /\ pending["Row"] \in Nat
  BY <1>1 DEF GraphReaderType, Kind
<1>6. /\ pending'["Row"] = pending["Row"] + 1
      /\ pending'["Column"] = pending["Column"] /\ pending'["Value"] = pending["Value"]
  BY <1>1, <1>4 DEF Kind
<1>7. /\ gr'.row_end_idx = gr.row_end_idx /\ gr'.v_reci_count = gr.v_reci_count
      /\ gr'.e_req_count = gr.e_req_count /\ gr'.next_e_addr = gr.next_e_addr
      /\ gr'.col_end_idx = gr.col_end_idx /\ gr'.e_reci_count = gr.e_reci_count
      /\ gr'.val_end_idx = gr.val_end_idx /\ gr'.val_reci_count = gr.val_reci_count
  BY <1>1, <1>4 DEF VertexRequested, GraphReaderType
<1>8. Asked(size, gr.v_req_count, start, gr.next_v_addr, gr'.v_req_count, gr'.next_v_addr)
  BY <1>1, <1>3, <1>4 DEF Asked, VertexRequested, GraphReaderType
<1>9. RowsBalanced'
  <2>1. gr.v_req_count # bf
    BY <1>4 DEF AnswersSound, FlagsSound
  <2>2. Balanced(size, gr.v_req_count, start, gr.next_v_addr, gr.row_end_idx,
                 gr.v_reci_count, pending["Row"])
    BY DEF AnswersSound, RowsBalanced
  <2>3. Balanced(size, gr'.v_req_count, start, gr'.next_v_addr, gr.row_end_idx,
                 gr.v_reci_count, pending'["Row"])
    <3> HIDE DEF start, size
    <3> QED
      BY <1>2, <1>3, <1>5, <1>6, <1>8, <2>1, <2>2, BalanceAsked
  <2> QED
    BY <1>4, <1>7, <2>3 DEF RowsBalanced
<1>10. FlagsSound'
  <2>1. FlagsSound
    BY DEF AnswersSound
  <2> QED
    BY <1>1, <1>4, <1>5, <2>1, BfAssumption DEF FlagsSound, VertexRequested, GraphReaderType
<1> QED
  BY <1>4, <1>6, <1>7, <1>9, <1>10 DEF AnswersSound, ColumnsBalanced, ValuesBalanced

\* EdgeRequest (g_reader.cc:94-116) asks for one line of columns, and in a GCN
\* for one of values.
LEMMA EdgeRequestAnswers ==
    ASSUME IInv, AnswersSound, EdgeRequest
    PROVE  AnswersSound'
<1> DEFINE start == data_index[id].col_addr_start
           size == Len(col_idx[id])
<1>1. id \in Engine /\ gr \in GraphReaderType /\ size > 0 /\ pending \in [Kind -> Nat]
  BY DEF IInv, TypeOK, FetchSound, HasEdges
<1>2. size \in Nat
  BY <1>1, CsrFacts
<1>3. start \in Nat /\ data_index[id].col_addr_end = start + Frag(size)
  BY <1>1, IndexAssumption DEF GraphFields
<1>4. /\ id' = id /\ gr' = EdgeRequested(id, gr) /\ ~gr.e_req_over
      /\ pending' = [pending EXCEPT !["Column"] = @ + 1,
                                    !["Value"]  = IF gnn_mode = "GCN" THEN @ + 1 ELSE @]
  BY DEF EdgeRequest
<1>5. /\ gr.e_req_count \in Nat /\ gr.next_e_addr \in Nat
      /\ gr.col_end_idx \in Nat /\ gr.e_reci_count \in Nat /\ pending["Column"] \in Nat
      /\ gr.val_end_idx \in Nat /\ gr.val_reci_count \in Nat /\ pending["Value"] \in Nat
  BY <1>1 DEF GraphReaderType, Kind
<1>6. /\ pending'["Column"] = pending["Column"] + 1 /\ pending'["Row"] = pending["Row"]
      /\ gnn_mode = "GCN" => pending'["Value"] = pending["Value"] + 1
  BY <1>1, <1>4 DEF Kind
<1>7. /\ gr'.row_end_idx = gr.row_end_idx /\ gr'.v_reci_count = gr.v_reci_count
      /\ gr'.v_req_count = gr.v_req_count /\ gr'.next_v_addr = gr.next_v_addr
      /\ gr'.col_end_idx = gr.col_end_idx /\ gr'.e_reci_count = gr.e_reci_count
      /\ gr'.val_end_idx = gr.val_end_idx /\ gr'.val_reci_count = gr.val_reci_count
  BY <1>1, <1>4 DEF EdgeRequested, GraphReaderType
<1>8. Asked(size, gr.e_req_count, start, gr.next_e_addr, gr'.e_req_count, gr'.next_e_addr)
  BY <1>1, <1>3, <1>4 DEF Asked, EdgeRequested, GraphReaderType
<1>9. gr.e_req_count # bf
  BY <1>4 DEF AnswersSound, FlagsSound
<1>10. ColumnsBalanced'
  <2>1. Balanced(size, gr.e_req_count, start, gr.next_e_addr, gr.col_end_idx,
                 gr.e_reci_count, pending["Column"])
    BY DEF AnswersSound, ColumnsBalanced
  <2>2. Balanced(size, gr'.e_req_count, start, gr'.next_e_addr, gr.col_end_idx,
                 gr.e_reci_count, pending'["Column"])
    <3> HIDE DEF start, size
    <3> QED
      BY <1>1, <1>2, <1>3, <1>5, <1>6, <1>8, <1>9, <2>1, BalanceAsked
  <2> QED
    BY <1>4, <1>7, <2>2 DEF ColumnsBalanced
<1>11. ASSUME gnn_mode = "GCN" PROVE ValuesBalanced'
  <2>1. Balanced(size, gr.e_req_count, start, gr.next_e_addr, gr.val_end_idx,
                 gr.val_reci_count, pending["Value"])
    BY <1>11 DEF AnswersSound, ValuesBalanced
  <2>2. Balanced(size, gr'.e_req_count, start, gr'.next_e_addr, gr.val_end_idx,
                 gr.val_reci_count, pending'["Value"])
    <3> HIDE DEF start, size
    <3> QED
      BY <1>1, <1>2, <1>3, <1>5, <1>6, <1>8, <1>9, <1>11, <2>1, BalanceAsked
  <2> QED
    BY <1>4, <1>7, <2>2 DEF ValuesBalanced
<1>12. FlagsSound'
  <2>1. FlagsSound
    BY DEF AnswersSound
  <2> QED
    BY <1>1, <1>4, <1>5, <2>1, BfAssumption DEF FlagsSound, EdgeRequested, GraphReaderType
<1> QED
  BY <1>4, <1>6, <1>7, <1>10, <1>11, <1>12 DEF AnswersSound, RowsBalanced

\* ReceiveOver sets reci_over only once all three arrays are complete
\* (g_reader.cc:170-174).
LEMMA GraphReceiveAnswers ==
    ASSUME IInv, AnswersSound, NEW type \in Kind, GraphReceive(type)
    PROVE  AnswersSound'
<1> DEFINE rows == Len(row_ptr[id])
           size == Len(col_idx[id])
<1>1. /\ id \in Engine /\ gr \in GraphReaderType /\ size > 0 /\ pending \in [Kind -> Nat]
      /\ gnn_mode = "OTHER" => pending["Value"] = 0
  BY DEF IInv, TypeOK, FetchSound, HasEdges
<1>2. rows \in Nat /\ rows > 0 /\ size \in Nat
  BY <1>1, CsrFacts
<1>3. data_index[id].row_addr_start \in Nat /\ data_index[id].col_addr_start \in Nat
  BY <1>1, IndexAssumption DEF GraphFields
<1>4. /\ id' = id /\ gr' = GraphReceived(id, gr, type) /\ pending[type] > 0
      /\ pending' = [pending EXCEPT ![type] = @ - 1]
  BY DEF GraphReceive
<1>5. /\ gr.v_req_count \in Nat /\ gr.next_v_addr \in Nat /\ gr.row_end_idx \in Nat
      /\ gr.v_reci_count \in Nat
      /\ gr.e_req_count \in Nat /\ gr.next_e_addr \in Nat
      /\ gr.col_end_idx \in Nat /\ gr.e_reci_count \in Nat
      /\ gr.val_end_idx \in Nat /\ gr.val_reci_count \in Nat
  BY <1>1 DEF GraphReaderType
<1>6. pending["Row"] \in Nat /\ pending["Column"] \in Nat /\ pending["Value"] \in Nat
  BY <1>1 DEF Kind
<1>7. FlagsSound /\ RowsBalanced /\ ColumnsBalanced /\ (gnn_mode = "GCN" => ValuesBalanced)
  BY DEF AnswersSound
<1>8. CASE type = "Row"
  <2> DEFINE a == Arrive(rows, gr.row_end_idx, gr.row_overflow, gr.v_reci_count)
  <2>1. gr' = ReceiveOver(RowReceived(id, gr))
    BY <1>4, <1>8 DEF GraphReceived
  <2>2. /\ gr'.row_end_idx = a.end /\ gr'.v_reci_count = a.count
        /\ gr'.v_req_count = gr.v_req_count /\ gr'.next_v_addr = gr.next_v_addr
        /\ gr'.e_req_count = gr.e_req_count /\ gr'.next_e_addr = gr.next_e_addr
        /\ gr'.col_end_idx = gr.col_end_idx /\ gr'.e_reci_count = gr.e_reci_count
        /\ gr'.val_end_idx = gr.val_end_idx /\ gr'.val_reci_count = gr.val_reci_count
    BY <1>1, <2>1 DEF RowReceived, ReceiveOver, GraphReaderType
  <2>3. /\ gr'.v_req_over = gr.v_req_over /\ gr'.e_req_over = gr.e_req_over
        /\ gr'.v_reci_over <=> gr.v_reci_over \/ a.over
        /\ gr'.e_reci_over = gr.e_reci_over /\ gr'.val_reci_over = gr.val_reci_over
        /\ gr'.reci_over => \/ gr.reci_over
                            \/ gr'.v_reci_over /\ gr.e_reci_over /\ gr.val_reci_over
    BY <1>1, <2>1 DEF RowReceived, ReceiveOver, GraphReaderType
  <2>4. /\ pending'["Row"] = pending["Row"] - 1 /\ pending["Row"] > 0
        /\ pending'["Column"] = pending["Column"] /\ pending'["Value"] = pending["Value"]
    BY <1>1, <1>4, <1>8 DEF Kind
  <2>5. /\ Balanced(rows, gr.v_req_count, data_index[id].row_addr_start, gr.next_v_addr,
                    a.end, a.count, pending'["Row"])
        /\ gr.v_reci_count # bf
        /\ a.over => a.count = bf
    <3>1. Balanced(rows, gr.v_req_count, data_index[id].row_addr_start, gr.next_v_addr,
                   gr.row_end_idx, gr.v_reci_count, pending["Row"])
      BY <1>7 DEF RowsBalanced
    <3>2. a = Arrive(rows, gr.row_end_idx, gr.row_overflow, gr.v_reci_count)
      OBVIOUS
    <3>3. Traffic(rows, gr.v_req_count, data_index[id].row_addr_start, gr.next_v_addr,
                  gr.row_end_idx, gr.v_reci_count, pending["Row"])
      BY <1>2, <1>3, <1>5, <1>6, <3>1 DEF Traffic
    <3> HIDE DEF a, rows, size
    <3> QED
      BY <2>4, <3>2, <3>3, BalanceReceived
  <2>6. RowsBalanced'
    BY <1>4, <2>2, <2>5 DEF RowsBalanced
  <2>7. ColumnsBalanced' /\ (gnn_mode = "GCN" => ValuesBalanced')
    BY <1>4, <1>7, <2>2, <2>4 DEF ColumnsBalanced, ValuesBalanced
  <2>8. FlagsSound'
    BY <1>7, <2>2, <2>3, <2>5 DEF FlagsSound
  <2> QED
    BY <2>6, <2>7, <2>8 DEF AnswersSound
<1>9. CASE type = "Column"
  <2> DEFINE a == Arrive(size, gr.col_end_idx, gr.col_overflow, gr.e_reci_count)
  <2>1. gr' = ReceiveOver(ColumnReceived(id, gr))
    BY <1>4, <1>9 DEF GraphReceived
  <2>2. /\ gr'.col_end_idx = a.end /\ gr'.e_reci_count = a.count
        /\ gr'.v_req_count = gr.v_req_count /\ gr'.next_v_addr = gr.next_v_addr
        /\ gr'.e_req_count = gr.e_req_count /\ gr'.next_e_addr = gr.next_e_addr
        /\ gr'.row_end_idx = gr.row_end_idx /\ gr'.v_reci_count = gr.v_reci_count
        /\ gr'.val_end_idx = gr.val_end_idx /\ gr'.val_reci_count = gr.val_reci_count
    BY <1>1, <2>1 DEF ColumnReceived, ReceiveOver, GraphReaderType
  <2>3. /\ gr'.v_req_over = gr.v_req_over /\ gr'.e_req_over = gr.e_req_over
        /\ gr'.e_reci_over <=> gr.e_reci_over \/ a.over
        /\ gr'.v_reci_over = gr.v_reci_over /\ gr'.val_reci_over = gr.val_reci_over
        /\ gr'.reci_over => \/ gr.reci_over
                            \/ gr.v_reci_over /\ gr'.e_reci_over /\ gr.val_reci_over
    BY <1>1, <2>1 DEF ColumnReceived, ReceiveOver, GraphReaderType
  <2>4. /\ pending'["Column"] = pending["Column"] - 1 /\ pending["Column"] > 0
        /\ pending'["Row"] = pending["Row"] /\ pending'["Value"] = pending["Value"]
    BY <1>1, <1>4, <1>9 DEF Kind
  <2>5. /\ Balanced(size, gr.e_req_count, data_index[id].col_addr_start, gr.next_e_addr,
                    a.end, a.count, pending'["Column"])
        /\ gr.e_reci_count # bf
        /\ a.over => a.count = bf
    <3>1. Balanced(size, gr.e_req_count, data_index[id].col_addr_start, gr.next_e_addr,
                   gr.col_end_idx, gr.e_reci_count, pending["Column"])
      BY <1>7 DEF ColumnsBalanced
    <3>2. a = Arrive(size, gr.col_end_idx, gr.col_overflow, gr.e_reci_count)
      OBVIOUS
    <3>3. Traffic(size, gr.e_req_count, data_index[id].col_addr_start, gr.next_e_addr,
                  gr.col_end_idx, gr.e_reci_count, pending["Column"])
      BY <1>1, <1>2, <1>3, <1>5, <1>6, <3>1 DEF Traffic
    <3> HIDE DEF a, rows, size
    <3> QED
      BY <2>4, <3>2, <3>3, BalanceReceived
  <2>6. ColumnsBalanced'
    BY <1>4, <2>2, <2>5 DEF ColumnsBalanced
  <2>7. RowsBalanced' /\ (gnn_mode = "GCN" => ValuesBalanced')
    BY <1>4, <1>7, <2>2, <2>4 DEF RowsBalanced, ValuesBalanced
  <2>8. FlagsSound'
    BY <1>7, <2>2, <2>3, <2>5 DEF FlagsSound
  <2> QED
    BY <2>6, <2>7, <2>8 DEF AnswersSound
<1>10. CASE type = "Value"
  <2> DEFINE a == Arrive(size, gr.val_end_idx, gr.val_overflow, gr.val_reci_count)
  <2>1. gr' = ReceiveOver(ValueReceived(id, gr)) /\ gnn_mode = "GCN"
    BY <1>1, <1>4, <1>10, ModeAssumption DEF GraphReceived
  <2>2. /\ gr'.val_end_idx = a.end /\ gr'.val_reci_count = a.count
        /\ gr'.v_req_count = gr.v_req_count /\ gr'.next_v_addr = gr.next_v_addr
        /\ gr'.e_req_count = gr.e_req_count /\ gr'.next_e_addr = gr.next_e_addr
        /\ gr'.row_end_idx = gr.row_end_idx /\ gr'.v_reci_count = gr.v_reci_count
        /\ gr'.col_end_idx = gr.col_end_idx /\ gr'.e_reci_count = gr.e_reci_count
    BY <1>1, <2>1 DEF ValueReceived, ReceiveOver, GraphReaderType
  <2>3. /\ gr'.v_req_over = gr.v_req_over /\ gr'.e_req_over = gr.e_req_over
        /\ gr'.val_reci_over <=> gr.val_reci_over \/ a.over
        /\ gr'.v_reci_over = gr.v_reci_over /\ gr'.e_reci_over = gr.e_reci_over
        /\ gr'.reci_over => \/ gr.reci_over
                            \/ gr.v_reci_over /\ gr.e_reci_over /\ gr'.val_reci_over
    BY <1>1, <2>1 DEF ValueReceived, ReceiveOver, GraphReaderType
  <2>4. /\ pending'["Value"] = pending["Value"] - 1 /\ pending["Value"] > 0
        /\ pending'["Row"] = pending["Row"] /\ pending'["Column"] = pending["Column"]
    BY <1>1, <1>4, <1>10 DEF Kind
  <2>5. /\ Balanced(size, gr.e_req_count, data_index[id].col_addr_start, gr.next_e_addr,
                    a.end, a.count, pending'["Value"])
        /\ gr.val_reci_count # bf
        /\ a.over => a.count = bf
    <3>1. Balanced(size, gr.e_req_count, data_index[id].col_addr_start, gr.next_e_addr,
                   gr.val_end_idx, gr.val_reci_count, pending["Value"])
      BY <1>7, <2>1 DEF ValuesBalanced
    <3>2. a = Arrive(size, gr.val_end_idx, gr.val_overflow, gr.val_reci_count)
      OBVIOUS
    <3>3. Traffic(size, gr.e_req_count, data_index[id].col_addr_start, gr.next_e_addr,
                  gr.val_end_idx, gr.val_reci_count, pending["Value"])
      BY <1>1, <1>2, <1>3, <1>5, <1>6, <3>1 DEF Traffic
    <3> HIDE DEF a, rows, size
    <3> QED
      BY <2>4, <3>2, <3>3, BalanceReceived
  <2>6. ValuesBalanced'
    BY <1>4, <2>2, <2>5 DEF ValuesBalanced
  <2>7. RowsBalanced' /\ ColumnsBalanced'
    BY <1>4, <1>7, <2>2, <2>4 DEF RowsBalanced, ColumnsBalanced
  <2>8. FlagsSound'
    BY <1>7, <2>2, <2>3, <2>5 DEF FlagsSound
  <2> QED
    BY <2>6, <2>7, <2>8 DEF AnswersSound
<1> QED
  BY <1>8, <1>9, <1>10 DEF Kind

\* Every step keeps AnswersSound.
LEMMA AnswersStep == IInv /\ AnswersSound /\ [Next]_vars => AnswersSound'
<1> SUFFICES ASSUME IInv, AnswersSound, [Next]_vars PROVE AnswersSound'
  OBVIOUS
<1>1. id \in Engine /\ gr \in GraphReaderType
  BY DEF IInv, TypeOK
<1>2. CASE NextFeatureOver
  BY <1>1, <1>2, PassingIsNoTraffic, AnswersSame DEF NextFeatureOver
<1>3. CASE gr' = gr /\ id' = id /\ pending' = pending
  BY <1>3, AnswersSame DEF SameTraffic
<1>4. CASE NextFeatureRow
  BY <1>1, <1>3, <1>4, PassingIsNoTraffic, AnswersSame DEF NextFeatureRow
<1>5. CASE NextFeatureReturn
  <2> DEFINE w == ColumnWrap(id, gr)
  <2>1. /\ id' = id /\ pending' = pending
        /\ \/ gr' = gr
           \/ EdgeReady(gr) /\ WrapEnds(id, gr)
           \/ EdgeReady(gr) /\ gr' = EdgeTaken(w)
    BY <1>5 DEF NextFeatureReturn
  <2>2. ASSUME EdgeReady(gr) PROVE ~WrapEnds(id, gr) /\ w \in GraphReaderType
    <3>1. ~AllPassed(id, gr) /\ Len(col_idx[id]) > 0 /\ ReaderSound(id, gr)
      BY <1>5 DEF NextFeatureReturn, Entered, IInv, FetchSound, HasEdges
    <3> QED
      BY <1>1, <2>2, <3>1, ColumnWrapSound
  <2>3. CASE gr' = EdgeTaken(w) /\ EdgeReady(gr)
    <3>1. SameTraffic(gr, w)
      BY <1>1, PassingIsNoTraffic
    <3> HIDE DEF w
    <3>2. SameTraffic(w, gr')
      BY <1>1, <2>2, <2>3, PassingIsNoTraffic
    <3>3. SameTraffic(gr, gr')
      BY <3>1, <3>2 DEF SameTraffic
    <3> QED
      BY <2>1, <3>3, AnswersSame
  <2> QED
    BY <1>3, <2>1, <2>2, <2>3
<1> QED
  BY <1>2, <1>3, <1>4, <1>5, VertexRequestAnswers, EdgeRequestAnswers,
     GraphReceiveAnswers DEF Next, NextFeature, vars

\* A new reader has asked for nothing (g_reader.cc:13-74).
LEMMA AnswersInit == Init /\ HasEdges => AnswersSound
<1> SUFFICES ASSUME Init, HasEdges PROVE AnswersSound
  OBVIOUS
<1>1. /\ id \in Engine /\ gr = NewGraphReader(id) /\ Len(col_idx[id]) > 0
      /\ pending["Row"] = 0 /\ pending["Column"] = 0 /\ pending["Value"] = 0
  BY DEF Init, HasEdges, Kind
<1>2. ASSUME NEW size \in Nat, size > 0, NEW start \in Nat
      PROVE  Balanced(size, 0, start, start, 0, 0, 0)
  <2>1. Frag(size) \in Nat /\ Frag(size) >= 1
    BY <1>2, FragPositive
  <2>2. /\ 0 * Frag(size) = 0 /\ 0 * CACHE_LINE_COUNT = 0 /\ start - start = 0
        /\ 0 \in 0 .. Frag(size) - 1 /\ start \in start .. start + Frag(size) - 1
    BY <2>1, LineAssumption
  <2> QED
    BY <1>2, <2>2, BfAssumption DEF Balanced
<1>3. /\ Len(row_ptr[id]) \in Nat /\ Len(row_ptr[id]) > 0 /\ Len(col_idx[id]) \in Nat
      /\ data_index[id].row_addr_start \in Nat /\ data_index[id].col_addr_start \in Nat
  BY <1>1, CsrFacts, IndexAssumption DEF GraphFields
<1>4. RowsBalanced /\ ColumnsBalanced /\ (gnn_mode = "GCN" => ValuesBalanced)
  <2>1. /\ gr.v_req_count = 0 /\ gr.next_v_addr = data_index[id].row_addr_start
        /\ gr.e_req_count = 0 /\ gr.next_e_addr = data_index[id].col_addr_start
        /\ gr.row_end_idx = 0 /\ gr.col_end_idx = 0 /\ gr.v_reci_count = 0
        /\ gr.e_reci_count = 0 /\ gr.val_reci_count = 0
        /\ gnn_mode = "GCN" => gr.val_end_idx = 0
    BY <1>1 DEF NewGraphReader
  <2>2. /\ Balanced(Len(row_ptr[id]), 0, gr.next_v_addr, gr.next_v_addr, 0, 0, 0)
        /\ Balanced(Len(col_idx[id]), 0, gr.next_e_addr, gr.next_e_addr, 0, 0, 0)
    BY <1>1, <1>2, <1>3, <2>1
  <2> QED
    BY <1>1, <2>1, <2>2 DEF RowsBalanced, ColumnsBalanced, ValuesBalanced
<1>5. FlagsSound
  <2>1. /\ ~gr.v_req_over /\ ~gr.e_req_over /\ ~gr.v_reci_over /\ ~gr.e_reci_over
        /\ ~gr.reci_over /\ gr.v_req_count = 0 /\ gr.e_req_count = 0
    BY <1>1 DEF NewGraphReader
  <2>2. gr.val_reci_over = (gnn_mode = "OTHER")
    BY <1>1 DEF NewGraphReader
  <2>3. gnn_mode = "GCN" => ~gr.val_reci_over
    BY <2>2
  <2>4. gr.v_req_count # bf /\ gr.e_req_count # bf
    BY <2>1, BfAssumption
  <2> QED
    BY <2>1, <2>3, <2>4, Zenon DEF FlagsSound
<1> QED
  BY <1>4, <1>5 DEF AnswersSound

\* Once reci_over stops the calls of GraphReceive nothing is pending and nothing
\* is still to be asked for (g_reader.cc:170-174, controller.cc:55), for every
\* engine with edges.
THEOREM NoStrandedAnswerHolds == Spec /\ HasEdges => []NoStrandedAnswer
<1>1. IInv /\ AnswersSound => NoStrandedAnswer
  <2> SUFFICES ASSUME IInv, AnswersSound, gr.reci_over
               PROVE  gr.v_req_over /\ gr.e_req_over /\ \A t \in Kind : pending[t] = 0
    BY DEF NoStrandedAnswer
  <2>1. /\ id \in Engine /\ gr \in GraphReaderType /\ Len(col_idx[id]) > 0
        /\ pending \in [Kind -> Nat] /\ (gnn_mode = "OTHER" => pending["Value"] = 0)
    BY DEF IInv, TypeOK, FetchSound, HasEdges
  <2>2. /\ Len(row_ptr[id]) \in Nat /\ Len(row_ptr[id]) > 0 /\ Len(col_idx[id]) \in Nat
        /\ data_index[id].row_addr_start \in Nat /\ data_index[id].col_addr_start \in Nat
    BY <2>1, CsrFacts, IndexAssumption DEF GraphFields
  <2>3. /\ gr.v_req_count \in Nat /\ gr.next_v_addr \in Nat /\ gr.row_end_idx \in Nat
        /\ gr.v_reci_count \in Nat /\ gr.e_reci_count \in Nat /\ gr.val_reci_count \in Nat
        /\ gr.e_req_count \in Nat /\ gr.next_e_addr \in Nat
        /\ gr.col_end_idx \in Nat /\ gr.val_end_idx \in Nat
        /\ pending["Row"] \in Nat /\ pending["Column"] \in Nat /\ pending["Value"] \in Nat
    BY <2>1 DEF GraphReaderType, Kind
  <2>4. FlagsSound /\ RowsBalanced /\ ColumnsBalanced /\ (gnn_mode = "GCN" => ValuesBalanced)
    BY DEF AnswersSound
  <2>5. pending["Row"] = 0 /\ gr.v_req_count = bf
    <3>1. gr.v_reci_count = bf
      BY <2>4 DEF FlagsSound
    <3>2. Traffic(Len(row_ptr[id]), gr.v_req_count, data_index[id].row_addr_start,
                  gr.next_v_addr, gr.row_end_idx, gr.v_reci_count, pending["Row"])
      BY <2>2, <2>3, <2>4 DEF RowsBalanced, Traffic
    <3> QED
      BY <3>1, <3>2, BalanceAtEnd
  <2>6. pending["Column"] = 0 /\ gr.e_req_count = bf
    <3>1. gr.e_reci_count = bf
      BY <2>4 DEF FlagsSound
    <3>2. Traffic(Len(col_idx[id]), gr.e_req_count, data_index[id].col_addr_start,
                  gr.next_e_addr, gr.col_end_idx, gr.e_reci_count, pending["Column"])
      BY <2>1, <2>2, <2>3, <2>4 DEF ColumnsBalanced, Traffic
    <3> QED
      BY <3>1, <3>2, BalanceAtEnd
  <2>7. CASE gnn_mode = "GCN"
    <3>1. gr.val_reci_count = bf
      BY <2>4, <2>7 DEF FlagsSound
    <3>2. Traffic(Len(col_idx[id]), gr.e_req_count, data_index[id].col_addr_start,
                  gr.next_e_addr, gr.val_end_idx, gr.val_reci_count, pending["Value"])
      BY <2>1, <2>2, <2>3, <2>4, <2>7 DEF ValuesBalanced, Traffic
    <3>3. pending["Value"] = 0
      BY <3>1, <3>2, BalanceAtEnd
    <3> QED
      BY <2>4, <2>5, <2>6, <3>3 DEF FlagsSound, Kind
  <2>8. CASE gnn_mode = "OTHER"
    BY <2>1, <2>4, <2>5, <2>6, <2>8 DEF FlagsSound, Kind
  <2> QED
    BY <2>7, <2>8, ModeAssumption
<1> QED
  BY <1>1, AnswersInit, AnswersStep, FetchInvariant, PTL DEF Spec

-----------------------------------------------------------------------------
(* The reader implements EdgeStream. *)

\* EdgeStream marks the same edges as row ends.
LEMMA SameRowEnds ==
    ASSUME NEW i \in Engine, NEW k
    PROVE  EdgeEndsRow(i, k) <=> Stream!EndsRow(i, k)
<1>1. ASSUME NEW r \in 1 .. Len(row_ptr[i]) - 1
      PROVE  /\ RowPtr(i, r - 1) = row_ptr[i][r]
             /\ RowPtr(i, r) = row_ptr[i][r + 1]
  BY DEF RowPtr
<1> QED
  BY <1>1 DEF EdgeEndsRow, Stream!EndsRow

\* A call that returns nothing and moves no column.
LEMMA StreamNothing ==
    ASSUME id' = id, gr'.g_pass_count = gr.g_pass_count,
           gr'.cur_col_idx = gr.cur_col_idx, gr'.pass_over = gr.pass_over,
           ei' = ei \/ ei' = EmptyEdge(id)
    PROVE  [Stream!Next]_(Stream!vars)
BY DEF Stream!Next, Stream!Nothing, Stream!NoEdge, Stream!vars, EmptyEdge

\* GraphReceive (g_reader.cc:118-176) leaves the column cursor alone.
LEMMA ReceiveKeepsColumn ==
    ASSUME NEW i \in Engine, NEW g \in GraphReaderType
    PROVE  /\ RowReceived(i, g).g_pass_count = g.g_pass_count
           /\ RowReceived(i, g).cur_col_idx = g.cur_col_idx
           /\ ColumnReceived(i, g).g_pass_count = g.g_pass_count
           /\ ColumnReceived(i, g).cur_col_idx = g.cur_col_idx
           /\ ValueReceived(i, g).g_pass_count = g.g_pass_count
           /\ ValueReceived(i, g).cur_col_idx = g.cur_col_idx
BY DEF RowReceived, ColumnReceived, ValueReceived, GraphReaderType

\* Every step of the reader is a step of EdgeStream or a stutter.
LEMMA StreamStep == IInv /\ [Next]_vars => [Stream!Next]_(Stream!vars)
<1> SUFFICES ASSUME IInv, [Next]_vars PROVE [Stream!Next]_(Stream!vars)
  OBVIOUS
<1>1. /\ TypeOK /\ HasEdges /\ ReaderSound(id, gr)
      /\ id \in Engine /\ gr \in GraphReaderType /\ Len(col_idx[id]) > 0
      /\ gnn_mode = "OTHER" => pending["Value"] = 0
  BY DEF IInv, TypeOK, FetchSound, HasEdges
<1>2. /\ nf # "call" => ~AllPassed(id, gr) /\ ~gr.pass_over
      /\ nf = "skip" =>
            /\ gr.remain_edge = 0
            /\ gr.cur_row_idx < gr.row_end_idx \/ gr.row_overflow > 0
  BY DEF IInv, FetchSound
<1>3. CASE VertexRequest
  BY <1>1, <1>3, VertexRequestSame, StreamNothing DEF VertexRequest, SameCursors
<1>4. CASE EdgeRequest
  BY <1>1, <1>4, EdgeRequestSame, StreamNothing DEF EdgeRequest, SameCursors
<1>5. ASSUME NEW type \in Kind, GraphReceive(type)
      PROVE  [Stream!Next]_(Stream!vars)
  <2>1. /\ id' = id /\ ei' = ei /\ pending[type] > 0
        /\ gr' = GraphReceived(id, gr, type)
    BY <1>5 DEF GraphReceive
  <2>2. PICK g \in GraphReaderType :
            /\ gr' = ReceiveOver(g)
            /\ g.g_pass_count = gr.g_pass_count
            /\ g.cur_col_idx = gr.cur_col_idx
            /\ g.pass_over = gr.pass_over
    <3>1. CASE type = "Row"
      BY <1>1, <2>1, <3>1, RowReceivedSound,
         ReceiveKeepsColumn DEF GraphReceived
    <3>2. CASE type = "Column"
      BY <1>1, <2>1, <3>2, ColumnReceivedSound,
         ReceiveKeepsColumn DEF GraphReceived
    <3>3. CASE type = "Value"
      <4>1. gnn_mode = "GCN"
        BY <1>1, <2>1, <3>3, ModeAssumption
      <4> QED
        BY <1>1, <2>1, <3>3, <4>1, ValueReceivedSound,
         ReceiveKeepsColumn DEF GraphReceived
    <3> QED
      BY <3>1, <3>2, <3>3 DEF Kind
  <2>3. /\ gr'.g_pass_count = g.g_pass_count
        /\ gr'.cur_col_idx = g.cur_col_idx
        /\ gr'.pass_over = g.pass_over
    BY <2>2, FlagSame DEF SameCursors
  <2> QED
    BY <2>1, <2>2, <2>3, StreamNothing
<1>6. CASE NextFeatureOver
  <2>1. /\ gr'.g_pass_count = gr.g_pass_count
        /\ gr'.cur_col_idx = gr.cur_col_idx
        /\ gr'.pass_over = TRUE
    BY <1>1, <1>6, FlagSame DEF NextFeatureOver, SameCursors
  <2>2. gr.g_pass_count = bf - 1 /\ gr.cur_col_idx = Len(col_idx[id])
    BY <1>6 DEF NextFeatureOver, AllPassed
  <2>3. id' = id /\ ei' = EmptyEdge(id)
    BY <1>6 DEF NextFeatureOver
  <2>4. Stream!End
    BY <2>1, <2>2, <2>3 DEF Stream!End, Stream!NoEdge, EmptyEdge
  <2> QED
    BY <2>4 DEF Stream!Next
<1>7. CASE NextFeatureRow
  <2>1. /\ gr.remain_edge = 0
        /\ gr.cur_row_idx < gr.row_end_idx \/ gr.row_overflow > 0
    BY <1>2, <1>7 DEF NextFeatureRow, Entered, RowWanted
  <2>2. id' = id /\ ei' = ei /\ gr' = RowTaken(id, gr)
    BY <1>1, <1>7, <2>1, RowTakenSound DEF NextFeatureRow
  <2> QED
    BY <1>1, <2>1, <2>2, RowTakenSound, StreamNothing
<1>8. CASE NextFeatureReturn
  <2>1. ~AllPassed(id, gr) /\ ~gr.pass_over
    BY <1>2, <1>8 DEF NextFeatureReturn, Entered
  <2>2. id' = id
    BY <1>8 DEF NextFeatureReturn
  <2>3. CASE ~EdgeReady(gr)
    BY <1>1, <1>8, <2>2, <2>3, StreamNothing DEF NextFeatureReturn
  <2>4. CASE EdgeReady(gr)
    <3> DEFINE w == ColumnWrap(id, gr)
    <3>1. /\ ~WrapEnds(id, gr)
          /\ w \in GraphReaderType /\ ReaderSound(id, w) /\ EdgeReady(w)
          /\ w.pass_over = gr.pass_over
          /\ w.cur_col_idx < Len(col_idx[id])
          /\ w.cur_col_idx + w.remain_edge = RowPtr(id, w.cur_row_idx - 1)
          /\ \/ /\ gr.cur_col_idx < Len(col_idx[id])
                /\ w.g_pass_count = gr.g_pass_count
                /\ w.cur_col_idx = gr.cur_col_idx
             \/ /\ gr.cur_col_idx = Len(col_idx[id])
                /\ w.g_pass_count = gr.g_pass_count + 1
                /\ w.cur_col_idx = 0
      BY <1>1, <2>1, <2>4, ColumnWrapSound
    <3>2. gr' = EdgeTaken(w) /\ ei' = EdgeOf(id, w)
      BY <1>8, <2>4, <3>1 DEF NextFeatureReturn
    <3> HIDE DEF w
    <3> DEFINE p == w.g_pass_count
               k == w.cur_col_idx
    <3>3. /\ gr'.pass_over = gr.pass_over
          /\ gr'.cur_col_idx = k + 1
          /\ gr'.g_pass_count = p
          /\ (w.remain_edge = 1) <=> EdgeEndsRow(id, k)
      BY <1>1, <3>1, <3>2, EdgeTakenSound
    <3>4. p < bf
      BY <3>1 DEF ReaderSound
    <3>5. Stream!Follows(p, k)
      BY <3>1 DEF Stream!Follows
    <3>6. (w.remain_edge = 1) = Stream!EndsRow(id, k)
      <4>1. (w.remain_edge = 1) <=> Stream!EndsRow(id, k)
        BY <1>1, <3>3, SameRowEnds
      <4>2. Stream!EndsRow(id, k) \in BOOLEAN
        BY DEF Stream!EndsRow
      <4> QED
        BY <4>1, <4>2
    <3>7. ei' = [id |-> id, is_last |-> Stream!EndsRow(id, k),
                 dst |-> col_idx[id][k + 1], v_fold |-> p]
      BY <3>2, <3>6 DEF EdgeOf, ColIdx
    <3>8. Stream!Edge(p, k)
      BY <2>1, <2>2, <3>3, <3>4, <3>5, <3>7 DEF Stream!Edge
    <3>9. p \in {gr.g_pass_count, gr.g_pass_count + 1} /\ k \in {gr.cur_col_idx, 0}
      BY <3>1
    <3> QED
      BY <3>8, <3>9 DEF Stream!Next
  <2> QED
    BY <2>3, <2>4
<1>9. CASE UNCHANGED vars
  BY <1>9 DEF vars, Stream!vars
<1> QED
  BY <1>3, <1>4, <1>5, <1>6, <1>7, <1>8, <1>9 DEF Next, NextFeature

\* The reader of an engine with edges implements EdgeStream: NextFeature
\* (g_reader.cc:178-257) returns the edges of the CSR in order, bf times,
\* whatever order the memory answers in.
THEOREM ReaderImplementsStream == Spec /\ HasEdges => EdgesInOrder
<1>1. Init => Stream!Init
  BY DEF Init, Stream!Init, Stream!NoEdge, NewGraphReader, EmptyEdge
<1> QED
  BY <1>1, StreamStep, FetchInvariant, PTL DEF Spec, EdgesInOrder, Stream!Spec

=============================================================================
