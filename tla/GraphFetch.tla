----------------------------- MODULE GraphFetch ----------------------------
(***************************************************************************)
(* One graph reader in front of a memory that answers its requests in any  *)
(* order and after any delay.  Calls of the four methods come in any       *)
(* order, of which the controller's fixed order is one; NextFeature runs   *)
(* its loop without another call in between.                               *)
(***************************************************************************)
EXTENDS GraphReader

VARIABLES
    id,        \* GraphReader::id
    gr,        \* the other members of the reader
    nf,        \* where NextFeature is: "call", "skip" (row loop) or "pick"
    ei,        \* what NextFeature returned last
    pending    \* pending[t]: requested lines of kind t not yet received

vars == <<id, gr, nf, ei, pending>>

Kind == {"Row", "Column", "Value"}

Init ==
    /\ id \in Engine
    /\ gr = NewGraphReader(id)
    /\ nf = "call"
    /\ ei = EmptyEdge(id)
    /\ pending = [t \in Kind |-> 0]

VertexRequest ==
    /\ nf = "call"
    /\ ~gr.v_req_over
    /\ gr' = VertexRequested(id, gr)
    /\ pending' = [pending EXCEPT !["Row"] = @ + 1]
    /\ UNCHANGED <<id, nf, ei>>

EdgeRequest ==
    /\ nf = "call"
    /\ ~gr.e_req_over
    /\ gr' = EdgeRequested(id, gr)
    /\ pending' = [pending EXCEPT
                      !["Column"] = @ + 1,
                      !["Value"]  = IF gnn_mode = "GCN" THEN @ + 1 ELSE @]
    /\ UNCHANGED <<id, nf, ei>>

GraphReceive(type) ==
    /\ nf = "call"
    /\ ~gr.reci_over
    /\ pending[type] > 0
    /\ gr' = GraphReceived(id, gr, type)
    /\ pending' = [pending EXCEPT ![type] = @ - 1]
    /\ UNCHANGED <<id, nf, ei>>

\* NextFeature finds that everything has been passed.
NextFeatureOver ==
    /\ nf = "call"
    /\ ~gr.pass_over
    /\ AllPassed(id, gr)
    /\ gr' = PassOver(gr)
    /\ ei' = EmptyEdge(id)
    /\ UNCHANGED <<id, nf, pending>>

Entered == nf = "call" /\ ~gr.pass_over /\ ~AllPassed(id, gr)

\* One iteration of NextFeature's loop over rows without edges.
NextFeatureRow ==
    /\ nf = "skip" \/ (Entered /\ RowWanted(gr))
    /\ IF RowsExhausted(id, gr)
       THEN gr' = gr /\ nf' = "pick"
       ELSE /\ gr' = RowTaken(id, gr)
            /\ nf' = IF RowLoops(RowTaken(id, gr)) THEN "skip" ELSE "pick"
    /\ UNCHANGED <<id, ei, pending>>

\* NextFeature returns the next edge, or an empty one.
NextFeatureReturn ==
    /\ nf = "pick" \/ (Entered /\ ~RowWanted(gr))
    /\ nf' = "call"
    /\ IF ~EdgeReady(gr)
       THEN gr' = gr /\ ei' = EmptyEdge(id)
       ELSE IF WrapEnds(id, gr)
       THEN gr' = PassOver(ColumnWrap(id, gr)) /\ ei' = EmptyEdge(id)
       ELSE /\ gr' = EdgeTaken(ColumnWrap(id, gr))
            /\ ei' = EdgeOf(id, ColumnWrap(id, gr))
    /\ UNCHANGED <<id, pending>>

NextFeature == NextFeatureOver \/ NextFeatureRow \/ NextFeatureReturn

Next ==
    \/ VertexRequest
    \/ EdgeRequest
    \/ \E type \in Kind : GraphReceive(type)
    \/ NextFeature

Spec == Init /\ [][Next]_vars

\* The controller calls every method in every cycle, the memory's queue is
\* drained by the DRAM, and the DRAM answers every request.
Fairness ==
    /\ WF_vars(VertexRequest)
    /\ WF_vars(EdgeRequest)
    /\ \A type \in Kind : WF_vars(GraphReceive(type))
    /\ WF_vars(NextFeature)

FairSpec == Spec /\ Fairness

-----------------------------------------------------------------------------

\* Every member of the reader stays in its type; counts never go negative.
TypeOK ==
    /\ id \in Engine
    /\ gr \in GraphReaderType
    /\ nf \in {"call", "skip", "pick"}
    /\ pending \in [Kind -> Nat]

\* The engine has at least one edge.  The properties below are about such
\* engines; RequestsWithinBf is also asked of one without edges.
HasEdges == Len(col_idx[id]) > 0

\* The first `idx' elements of pass `p' of an array, and all earlier passes,
\* have been received, when `count' passes are complete and `end' elements
\* of the next one are here.
Arrived(p, idx, count, end) == p < count \/ (p = count /\ idx <= end)

\* No edge is passed before the cache lines that hold its column index, its
\* value and the end of its row have been received (NextFeature,
\* g_reader.cc:187-210, against GraphReceive, g_reader.cc:124-168).
NoEarlyEdge ==
    /\ Arrived(gr.g_pass_count, gr.cur_col_idx, gr.e_reci_count,
               gr.col_end_idx)
    /\ gnn_mode = "GCN" =>
          Arrived(gr.g_pass_count, gr.cur_col_idx, gr.val_reci_count,
                  gr.val_end_idx)
    /\ gr.row_overflow = 0 =>
          gr.cur_row_idx = 1 \/ gr.cur_row_idx <= gr.row_end_idx

\* The inductive form of NoEarlyEdge: the reader's cursors, end indices,
\* overflow counts and pass counts fit together (g_reader.cc:124-251), and
\* NextFeature goes through its loop only with edges still to pass.
FetchSound ==
    /\ HasEdges
    /\ ReaderSound(id, gr)
    /\ gnn_mode = "OTHER" => pending["Value"] = 0
    /\ nf # "call" => ~AllPassed(id, gr) /\ ~gr.pass_over
    /\ nf = "skip" =>
          /\ gr.remain_edge = 0
          /\ gr.cur_row_idx < gr.row_end_idx \/ gr.row_overflow > 0

\* The next request lies in the engine's own regions, and the value address
\* keeps step with the column address without being checked itself
\* (g_reader.cc:105: "value address follows automatically").
RequestsInRegion == RequestsSound(id, gr)

\* The reader asks for its column lines at most bf times: "if count = bf,
\* then graph request/receive is end" (g_reader.cc:42-43).
RequestsWithinBf ==
    LET d == data_index[id]
    IN  gr.e_req_count * Frag(Len(col_idx[id])) + gr.next_e_addr
            <= bf * Frag(Len(col_idx[id])) + d.col_addr_start

\* Once reci_over stops the calls of GraphReceive (controller.cc:55), no
\* answer is left in the memory and none is still to be asked for.
NoStrandedAnswer ==
    gr.reci_over =>
        /\ gr.v_req_over /\ gr.e_req_over
        /\ \A t \in Kind : pending[t] = 0

\* The calls of NextFeature return the CSR's edges in order, bf times, with
\* the right row ends and pass numbers (NextFeature, g_reader.cc:178-257).
Stream == INSTANCE EdgeStream WITH
              pass <- gr.g_pass_count, next <- gr.cur_col_idx,
              over <- gr.pass_over

EdgesInOrder == Stream!Spec

\* Every engine with edges passes them all and receives all of its graph.
StreamEnds == <>[](gr.pass_over /\ gr.reci_over)

=============================================================================
