---------------------------- MODULE GraphReader ----------------------------
(***************************************************************************)
(* The class GraphReader (src/src/g_reader.h, src/src/g_reader.cc): it     *)
(* prefetches the CSR arrays of one engine, bf times over, and hands the   *)
(* edges to the feature reader.  An object is a record with the fields of  *)
(* GR_STAT, GR_FLAG and the private counters; every method is an operator  *)
(* from the record before the call to the record after it.                 *)
(***************************************************************************)
EXTENDS Common

-----------------------------------------------------------------------------
(* The state of a reader. *)

GraphReaderType ==
    [row_end_idx : Nat, col_end_idx : Nat, val_end_idx : Nat,
     cur_row_idx : Nat, cur_col_idx : Nat, cur_val_idx : Nat,
     row_overflow : Nat, col_overflow : Nat, val_overflow : Nat,
     remain_edge : Nat,
     next_v_addr : Nat, next_e_addr : Nat, next_val_addr : Nat,
     v_req_count : Nat, e_req_count : Nat,
     v_reci_count : Nat, e_reci_count : Nat, val_reci_count : Nat,
     g_pass_count : Nat,
     v_req_over : BOOLEAN, e_req_over : BOOLEAN,
     v_reci_over : BOOLEAN, e_reci_over : BOOLEAN, val_reci_over : BOOLEAN,
     reci_over : BOOLEAN, pass_over : BOOLEAN]

\* The constructor.
NewGraphReader(i) ==
    [row_end_idx |-> 0, col_end_idx |-> 0,
     val_end_idx |-> IF gnn_mode = "OTHER" THEN Len(col_idx[i]) ELSE 0,
     cur_row_idx |-> 1, cur_col_idx |-> 0, cur_val_idx |-> 0,
     row_overflow |-> 0, col_overflow |-> 0,
     val_overflow |-> IF gnn_mode = "OTHER" THEN bf ELSE 0,
     remain_edge |-> 0,
     next_v_addr |-> data_index[i].row_addr_start,
     next_e_addr |-> data_index[i].col_addr_start,
     next_val_addr |-> data_index[i].value_addr_start,
     v_req_count |-> 0, e_req_count |-> 0,
     v_reci_count |-> 0, e_reci_count |-> 0, val_reci_count |-> 0,
     g_pass_count |-> 0,
     v_req_over |-> FALSE, e_req_over |-> FALSE,
     v_reci_over |-> FALSE, e_reci_over |-> FALSE,
     val_reci_over |-> gnn_mode = "OTHER",
     reci_over |-> FALSE, pass_over |-> FALSE]

-----------------------------------------------------------------------------
(* Requests.  Both operators give the reader after a call that found room  *)
(* in the memory's queue, having asked for VertexLines or EdgeLines.       *)

VertexLines(g) == <<g.next_v_addr>>

EdgeLines(g) ==
    IF gnn_mode = "GCN" THEN <<g.next_e_addr, g.next_val_addr>>
                        ELSE <<g.next_e_addr>>

\* After the last line of the region the next pass starts over.
VertexRequested(i, g) ==
    LET wrap == g.next_v_addr + 1 = data_index[i].row_addr_end
    IN  [g EXCEPT
            !.next_v_addr = IF wrap THEN data_index[i].row_addr_start ELSE @ + 1,
            !.v_req_count = IF wrap THEN @ + 1 ELSE @,
            !.v_req_over  = @ \/ (wrap /\ g.v_req_count + 1 = bf)]

\* Mutants of EdgeRequested: the value address does not start over; the end
\* test compares the count of before.
EdgeRequestedValue(i, g) ==
    LET wrap == g.next_e_addr + 1 = data_index[i].col_addr_end
    IN  [g EXCEPT
            !.next_e_addr = IF wrap THEN data_index[i].col_addr_start ELSE @ + 1,
            !.next_val_addr = IF gnn_mode = "GCN" THEN @ + 1 ELSE @,
            !.e_req_count = IF wrap THEN @ + 1 ELSE @,
            !.e_req_over  = @ \/ (wrap /\ g.e_req_count + 1 = bf)]

EdgeRequestedLate(i, g) ==
    LET wrap == g.next_e_addr + 1 = data_index[i].col_addr_end
    IN  [g EXCEPT
            !.next_e_addr = IF wrap THEN data_index[i].col_addr_start ELSE @ + 1,
            !.next_val_addr =
                IF gnn_mode # "GCN" THEN @
                ELSE IF wrap THEN data_index[i].value_addr_start ELSE @ + 1,
            !.e_req_count = IF wrap THEN @ + 1 ELSE @,
            !.e_req_over  = @ \/ (wrap /\ g.e_req_count = bf)]

EdgeRequested(i, g) ==
    LET wrap == g.next_e_addr + 1 = data_index[i].col_addr_end
    IN  [g EXCEPT
            !.next_e_addr = IF wrap THEN data_index[i].col_addr_start ELSE @ + 1,
            !.next_val_addr =
                IF gnn_mode # "GCN" THEN @
                ELSE IF wrap THEN data_index[i].value_addr_start ELSE @ + 1,
            !.e_req_count = IF wrap THEN @ + 1 ELSE @,
            !.e_req_over  = @ \/ (wrap /\ g.e_req_count + 1 = bf)]

-----------------------------------------------------------------------------
(* GraphReceive.  The three arrays are tracked alike: `end' elements of    *)
(* the pass being received are here, `overflow' whole passes lie between   *)
(* the one being received and the one being consumed, `count' passes are   *)
(* complete.                                                               *)

Arrive(size, end, overflow, count) ==
    LET e == (IF end = size THEN 0 ELSE end) + CACHE_LINE_COUNT
    IN  [end      |-> IF e >= size THEN size ELSE e,
         overflow |-> IF end = size THEN overflow + 1 ELSE overflow,
         count    |-> IF e >= size THEN count + 1 ELSE count,
         over     |-> e >= size /\ count + 1 = bf]

RowReceived(i, g) ==
    LET a == Arrive(Len(row_ptr[i]), g.row_end_idx, g.row_overflow,
                    g.v_reci_count)
    IN  [g EXCEPT !.row_end_idx  = a.end,   !.row_overflow = a.overflow,
                  !.v_reci_count = a.count, !.v_reci_over  = @ \/ a.over]

ColumnReceived(i, g) ==
    LET a == Arrive(Len(col_idx[i]), g.col_end_idx, g.col_overflow,
                    g.e_reci_count)
    IN  [g EXCEPT !.col_end_idx  = a.end,   !.col_overflow = a.overflow,
                  !.e_reci_count = a.count, !.e_reci_over  = @ \/ a.over]

ValueReceived(i, g) ==
    LET a == Arrive(Len(col_idx[i]), g.val_end_idx, g.val_overflow,
                    g.val_reci_count)
    IN  [g EXCEPT !.val_end_idx    = a.end,   !.val_overflow  = a.overflow,
                  !.val_reci_count = a.count, !.val_reci_over = @ \/ a.over]

\* Mutant of ReceiveOver: the values are forgotten.
ReceiveOverEarly(g) ==
    [g EXCEPT !.reci_over = @ \/ (g.v_reci_over /\ g.e_reci_over)]

ReceiveOver(g) ==
    [g EXCEPT !.reci_over =
        @ \/ (g.v_reci_over /\ g.e_reci_over /\ g.val_reci_over)]

\* The reader after a call of GraphReceive that took `type' from the memory.
GraphReceived(i, g, type) ==
    CASE type = "Row"    -> ReceiveOver(RowReceived(i, g))
      [] type = "Column" -> ReceiveOver(ColumnReceived(i, g))
      [] type = "Value"  -> ReceiveOver(ValueReceived(i, g))
      [] type = "Empty"  -> ReceiveOver(g)

-----------------------------------------------------------------------------
(* NextFeature: a test for the end, a loop over rows without edges, and    *)
(* the choice of the edge to return.  One iteration of the loop is one     *)
(* operator, so that the caller can run it step by step.                   *)

EmptyEdge(i) == [id |-> i, is_last |-> FALSE, dst |-> -1, v_fold |-> -1]

\* Mutant of AllPassed: the pass count starts from 0, not from 1.
AllPassedLate(i, g) ==
    g.cur_col_idx = Len(col_idx[i]) /\ g.g_pass_count = bf

AllPassed(i, g) ==
    g.cur_col_idx = Len(col_idx[i]) /\ g.g_pass_count = bf - 1

PassOver(g) == [g EXCEPT !.pass_over = TRUE]

\* The loop is entered ...
RowWanted(g) ==
    /\ g.cur_row_idx < g.row_end_idx \/ g.row_overflow > 0
    /\ g.remain_edge = 0

\* ... its first break: every row of the last received pass is consumed ...
RowsExhausted(i, g) ==
    g.cur_row_idx = Len(row_ptr[i]) /\ g.row_overflow = 0

\* ... otherwise the next row is taken, from the next pass after the last ...
RowTaken(i, g) ==
    LET wrap == g.cur_row_idx = Len(row_ptr[i])
        r    == IF wrap THEN 1 ELSE g.cur_row_idx
    IN  [g EXCEPT !.cur_row_idx  = r + 1,
                  !.row_overflow = IF wrap THEN @ - 1 ELSE @,
                  !.remain_edge  = RowPtr(i, r) - RowPtr(i, r - 1)]

\* ... and the loop goes on unless the row has edges or is the last one here.
RowLoops(g) ==
    /\ g.remain_edge = 0
    /\ ~(g.cur_row_idx = g.row_end_idx /\ g.row_overflow = 0)

\* Mutants of EdgeReady: columns, or values, are not waited for.
EdgeReadyNoColumn(g) ==
    /\ g.remain_edge > 0
    /\ g.cur_val_idx < g.val_end_idx \/ g.val_overflow > 0

EdgeReadyNoValue(g) ==
    /\ g.remain_edge > 0
    /\ g.cur_col_idx < g.col_end_idx \/ g.col_overflow > 0

EdgeReady(g) ==
    /\ g.remain_edge > 0
    /\ g.cur_col_idx < g.col_end_idx \/ g.col_overflow > 0
    /\ g.cur_val_idx < g.val_end_idx \/ g.val_overflow > 0

\* At the end of the columns the reader goes back to the first one.
ColumnWrap(i, g) ==
    IF g.cur_col_idx = Len(col_idx[i]) /\ g.col_overflow > 0
    THEN [g EXCEPT !.cur_col_idx = 0, !.cur_val_idx = 0,
                   !.col_overflow = @ - 1, !.val_overflow = @ - 1,
                   !.g_pass_count = @ + 1]
    ELSE g

\* The second test for the end, inside the branch that wraps.
WrapEnds(i, g) ==
    /\ g.cur_col_idx = Len(col_idx[i])
    /\ ColumnWrap(i, g).g_pass_count = bf

\* Mutants of EdgeOf: the count of edges is tested before it is lowered;
\* passes are counted from 1.
EdgeOfLast(i, w) ==
    [id |-> i, is_last |-> w.remain_edge = 0,
     dst |-> ColIdx(i, w.cur_col_idx), v_fold |-> w.g_pass_count]

EdgeOfPass(i, w) ==
    [id |-> i, is_last |-> w.remain_edge = 1,
     dst |-> ColIdx(i, w.cur_col_idx), v_fold |-> w.g_pass_count + 1]

EdgeOf(i, w) ==
    [id |-> i, is_last |-> w.remain_edge = 1,
     dst |-> ColIdx(i, w.cur_col_idx), v_fold |-> w.g_pass_count]

EdgeTaken(w) ==
    [w EXCEPT !.cur_col_idx = @ + 1, !.cur_val_idx = @ + 1,
              !.remain_edge = @ - 1]

-----------------------------------------------------------------------------
(* What holds of a reader with edges between any two of these operators.   *)

\* The row cursor stays within the rows received.
RowsSound(i, g) ==
    /\ g.cur_row_idx \in 1 .. Len(row_ptr[i])
    /\ g.row_end_idx \in 0 .. Len(row_ptr[i])
    /\ g.row_end_idx # 1
    /\ g.row_overflow > 0 => g.row_end_idx > 0
    /\ g.row_overflow = 0 =>
          g.cur_row_idx = 1 \/ g.cur_row_idx <= g.row_end_idx

\* A cursor `cur' in pass `p' of an array stays within what was received,
\* and `overflow' is the number of whole passes it lags behind.
CursorSound(size, p, cur, end, overflow, count) ==
    /\ end \in 0 .. size
    /\ cur \in 0 .. size
    /\ count + (IF end < size THEN 1 ELSE 0) = p + overflow + 1
    /\ overflow = 0 => cur <= end
    /\ overflow > 0 => end > 0

ColumnsSound(i, g) ==
    CursorSound(Len(col_idx[i]), g.g_pass_count, g.cur_col_idx,
                g.col_end_idx, g.col_overflow, g.e_reci_count)

ValuesSound(i, g) ==
    /\ g.cur_val_idx = g.cur_col_idx
    /\ gnn_mode = "GCN" =>
          CursorSound(Len(col_idx[i]), g.g_pass_count, g.cur_val_idx,
                      g.val_end_idx, g.val_overflow, g.val_reci_count)
    /\ gnn_mode = "OTHER" =>
          /\ g.val_end_idx = Len(col_idx[i])
          /\ g.val_overflow = bf - g.g_pass_count

\* The edges left in the current row end where the row pointer says; the row
\* cursor may have gone on to the next pass while the column cursor has not.
Aligned(i, g) ==
    LET end == RowPtr(i, g.cur_row_idx - 1)
    IN  /\ \/ g.cur_col_idx + g.remain_edge = end
           \/ g.cur_col_idx = Len(col_idx[i]) /\ g.remain_edge = end
        /\ g.remain_edge > 0 =>
              /\ g.cur_row_idx >= 2
              /\ RowPtr(i, g.cur_row_idx - 2) + g.remain_edge <= end

ReaderSound(i, g) ==
    /\ g.g_pass_count < bf
    /\ RowsSound(i, g)
    /\ ColumnsSound(i, g)
    /\ ValuesSound(i, g)
    /\ Aligned(i, g)

\* The next requests lie in the engine's own regions, and the value address
\* keeps step with the column address without being checked itself
\* (g_reader.cc:105: "value address follows automatically").
RequestsSound(i, g) ==
    LET d == data_index[i]
    IN  /\ g.next_v_addr \in d.row_addr_start .. d.row_addr_end - 1
        /\ g.next_e_addr \in d.col_addr_start .. d.col_addr_end - 1
        /\ gnn_mode = "GCN" =>
              g.next_val_addr - d.value_addr_start
                  = g.next_e_addr - d.col_addr_start

=============================================================================
