------------------------- MODULE GraphReaderProofs -------------------------
(***************************************************************************)
(* Lemmas about the operators of GraphReader: each of them keeps the       *)
(* reader of an engine with edges sound.                                   *)
(***************************************************************************)
EXTENDS GraphReader, TLAPS

\* The CSR of an engine with edges, unfolded: at least two row pointers,
\* all natural, increasing from 0 to the number of edges (LAC,
\* preprocessor.cc:245-251).
LEMMA CsrFacts ==
    ASSUME NEW i \in Engine, Len(col_idx[i]) > 0
    PROVE  /\ Len(row_ptr[i]) \in Nat /\ Len(row_ptr[i]) >= 2
           /\ Len(col_idx[i]) \in Nat
           /\ RowPtr(i, 0) = 0
           /\ RowPtr(i, Len(row_ptr[i]) - 1) = Len(col_idx[i])
           /\ \A k \in 0 .. Len(row_ptr[i]) - 1 :
                 RowPtr(i, k) \in 0 .. Len(col_idx[i])
           /\ \A j, k \in 0 .. Len(row_ptr[i]) - 1 :
                 j <= k => RowPtr(i, j) <= RowPtr(i, k)
<1>1. row_ptr[i] \in Seq(Nat) /\ col_idx[i] \in Seq(Nat)
  BY CsrAssumption
<1>2. Len(row_ptr[i]) \in Nat /\ Len(col_idx[i]) \in Nat
  BY <1>1
<1>3. /\ Len(row_ptr[i]) >= 1
      /\ RowPtr(i, 0) = 0
      /\ RowPtr(i, Len(row_ptr[i]) - 1) = Len(col_idx[i])
      /\ \A j, k \in 0 .. Len(row_ptr[i]) - 1 :
            j <= k => RowPtr(i, j) <= RowPtr(i, k)
  BY CsrAssumption
<1>4. Len(row_ptr[i]) # 1
  <2> SUFFICES ASSUME Len(row_ptr[i]) - 1 = 0 PROVE FALSE
    BY <1>2
  <2>1. RowPtr(i, Len(row_ptr[i]) - 1) = RowPtr(i, 0)
    OBVIOUS
  <2> QED
    BY <1>2, <1>3, <2>1
<1>5. ASSUME NEW k \in 0 .. Len(row_ptr[i]) - 1
      PROVE  RowPtr(i, k) \in 0 .. Len(col_idx[i])
  <2>1. RowPtr(i, k) \in Nat
    BY <1>1, <1>2, SMTT(20) DEF RowPtr
  <2>2. Len(row_ptr[i]) - 1 \in 0 .. Len(row_ptr[i]) - 1 /\ k <= Len(row_ptr[i]) - 1
    BY <1>2, <1>3
  <2>3. RowPtr(i, k) <= Len(col_idx[i])
    BY <1>3, <2>2
  <2> QED
    BY <1>2, <2>1, <2>3
<1> QED
  BY <1>2, <1>3, <1>4, <1>5

\* A column index of the CSR is a natural number.
LEMMA ColIdxNat ==
    ASSUME NEW i \in Engine, NEW k \in 0 .. Len(col_idx[i]) - 1
    PROVE  ColIdx(i, k) \in Nat
<1>1. col_idx[i] \in Seq(Nat)
  BY CsrAssumption
<1> QED
  BY <1>1 DEF ColIdx

\* A non-empty array occupies at least one line (AddressMapping,
\* preprocessor.cc:476-477).
LEMMA FragPositive ==
    ASSUME NEW n \in Nat
    PROVE  Frag(n) \in Nat /\ (n > 0 => Frag(n) >= 1)
<1> DEFINE q == (n + CACHE_LINE_COUNT - 1) \div CACHE_LINE_COUNT
<1>1. q \in Int
  BY LineAssumption
<1>2. /\ CACHE_LINE_COUNT * q <= n + CACHE_LINE_COUNT - 1
      /\ n + CACHE_LINE_COUNT - 1 < CACHE_LINE_COUNT * (q + 1)
  BY LineAssumption
<1>3. q >= 0 /\ (n > 0 => q >= 1)
  BY <1>1, <1>2, LineAssumption
<1> QED
  BY <1>1, <1>3 DEF Frag

\* Receiving a line (GraphReceive, g_reader.cc:139-153) keeps a cursor sound.
LEMMA ArriveSound ==
    ASSUME NEW size \in Nat, size > 0,
           NEW p \in Nat, NEW cur \in Nat, NEW end \in Nat,
           NEW overflow \in Nat, NEW count \in Nat,
           CursorSound(size, p, cur, end, overflow, count),
           NEW a, a = Arrive(size, end, overflow, count)
    PROVE  /\ a.end \in Nat /\ a.overflow \in Nat /\ a.count \in Nat
           /\ a.over \in BOOLEAN
           /\ CursorSound(size, p, cur, a.end, a.overflow, a.count)
BY LineAssumption DEF CursorSound, Arrive

\* A cursor at the end of the array with more to come can start the next
\* pass; a cursor before the end with something received can advance.
LEMMA CursorWrap ==
    ASSUME NEW size \in Nat, size > 0,
           NEW p \in Nat, NEW end \in Nat,
           NEW overflow \in Nat, NEW count \in Nat,
           CursorSound(size, p, size, end, overflow, count),
           size < end \/ overflow > 0
    PROVE  /\ overflow > 0 /\ overflow - 1 \in Nat
           /\ CursorSound(size, p + 1, 0, end, overflow - 1, count)
           /\ 0 < end \/ overflow - 1 > 0
BY DEF CursorSound

\* Consuming an element of a sound cursor keeps it sound.
LEMMA CursorStep ==
    ASSUME NEW size \in Nat, size > 0,
           NEW p \in Nat, NEW cur \in Nat, NEW end \in Nat,
           NEW overflow \in Nat, NEW count \in Nat,
           CursorSound(size, p, cur, end, overflow, count),
           cur < end \/ overflow > 0, cur < size
    PROVE  CursorSound(size, p, cur + 1, end, overflow, count)
BY DEF CursorSound

\* Receiving a line of row pointers (g_reader.cc:124-138) keeps the row
\* cursor within what was received.
LEMMA RowArriveSound ==
    ASSUME NEW size \in Nat, size >= 2, NEW end \in 0 .. size, end # 1,
           NEW overflow \in Nat, NEW count \in Nat,
           NEW a, a = Arrive(size, end, overflow, count)
    PROVE  /\ a.end \in 0 .. size /\ a.end >= 2
           /\ a.overflow \in Nat /\ a.overflow >= overflow
           /\ a.count \in Nat /\ a.over \in BOOLEAN
           /\ a.overflow = 0 => end <= a.end
BY LineAssumption DEF Arrive

\* The constructor makes a sound reader (g_reader.cc:13-74).
LEMMA NewSound ==
    ASSUME NEW i \in Engine
    PROVE  /\ NewGraphReader(i) \in GraphReaderType
           /\ Len(col_idx[i]) > 0 => ReaderSound(i, NewGraphReader(i))
<1>1. Len(col_idx[i]) \in Nat /\ Len(row_ptr[i]) \in Nat
  BY CsrAssumption
<1>2. /\ data_index[i].row_addr_start \in Nat
      /\ data_index[i].col_addr_start \in Nat
      /\ data_index[i].value_addr_start \in Nat
  BY IndexAssumption DEF GraphFields
<1>3. NewGraphReader(i) \in GraphReaderType
  BY <1>1, <1>2, BfAssumption DEF NewGraphReader, GraphReaderType
<1>4. ASSUME Len(col_idx[i]) > 0
      PROVE  ReaderSound(i, NewGraphReader(i))
  <2> DEFINE g == NewGraphReader(i)
  <2>1. RowsSound(i, g)
    BY <1>4, CsrFacts DEF NewGraphReader, RowsSound
  <2>2. ColumnsSound(i, g)
    BY <1>1, <1>4 DEF NewGraphReader, ColumnsSound, CursorSound
  <2>3. ValuesSound(i, g)
    BY <1>1, <1>4, BfAssumption, ModeAssumption
    DEF NewGraphReader, ValuesSound, CursorSound
  <2>4. Aligned(i, g)
    BY <1>4, CsrFacts DEF NewGraphReader, Aligned
  <2> QED
    BY <2>1, <2>2, <2>3, <2>4, BfAssumption DEF NewGraphReader, ReaderSound
<1> QED
  BY <1>3, <1>4

\* The members that only requests and flags touch do not matter to soundness.
SameCursors(g, h) ==
    /\ h.row_end_idx = g.row_end_idx /\ h.col_end_idx = g.col_end_idx
    /\ h.val_end_idx = g.val_end_idx
    /\ h.cur_row_idx = g.cur_row_idx /\ h.cur_col_idx = g.cur_col_idx
    /\ h.cur_val_idx = g.cur_val_idx
    /\ h.row_overflow = g.row_overflow /\ h.col_overflow = g.col_overflow
    /\ h.val_overflow = g.val_overflow /\ h.remain_edge = g.remain_edge
    /\ h.e_reci_count = g.e_reci_count
    /\ h.val_reci_count = g.val_reci_count
    /\ h.g_pass_count = g.g_pass_count

\* Soundness depends on the cursors only.
LEMMA SameCursorsSound ==
    ASSUME NEW i \in Engine, NEW g, NEW h,
           SameCursors(g, h), ReaderSound(i, g)
    PROVE  ReaderSound(i, h)
BY DEF SameCursors, ReaderSound, RowsSound, ColumnsSound, ValuesSound, Aligned

\* The fields a vertex request sets keep the type of the record.
LEMMA VertexRequestFields ==
    ASSUME NEW g \in GraphReaderType,
           NEW a \in Nat, NEW c \in Nat, NEW o \in BOOLEAN
    PROVE  [g EXCEPT !.next_v_addr = a, !.v_req_count = c,
                     !.v_req_over = o] \in GraphReaderType
BY DEF GraphReaderType

\* The fields an edge request sets keep the type of the record.
LEMMA EdgeRequestFields ==
    ASSUME NEW g \in GraphReaderType,
           NEW a \in Nat, NEW v \in Nat, NEW c \in Nat, NEW o \in BOOLEAN
    PROVE  [g EXCEPT !.next_e_addr = a, !.next_val_addr = v,
                     !.e_req_count = c, !.e_req_over = o] \in GraphReaderType
BY DEF GraphReaderType

\* The fields a row line sets keep the type of the record.
LEMMA RowReceiveFields ==
    ASSUME NEW g \in GraphReaderType,
           NEW e \in Nat, NEW v \in Nat, NEW c \in Nat, NEW o \in BOOLEAN
    PROVE  [g EXCEPT !.row_end_idx = e, !.row_overflow = v,
                     !.v_reci_count = c, !.v_reci_over = o] \in GraphReaderType
BY DEF GraphReaderType

\* The fields a column line sets keep the type of the record.
LEMMA ColumnReceiveFields ==
    ASSUME NEW g \in GraphReaderType,
           NEW e \in Nat, NEW v \in Nat, NEW c \in Nat, NEW o \in BOOLEAN
    PROVE  [g EXCEPT !.col_end_idx = e, !.col_overflow = v,
                     !.e_reci_count = c, !.e_reci_over = o] \in GraphReaderType
BY DEF GraphReaderType

\* The fields a value line sets keep the type of the record.
LEMMA ValueReceiveFields ==
    ASSUME NEW g \in GraphReaderType,
           NEW e \in Nat, NEW v \in Nat, NEW c \in Nat, NEW o \in BOOLEAN
    PROVE  [g EXCEPT !.val_end_idx = e, !.val_overflow = v,
                     !.val_reci_count = c, !.val_reci_over = o] \in GraphReaderType
BY DEF GraphReaderType

\* VertexRequest (g_reader.cc:78-92) moves only the request side of a reader.
LEMMA VertexRequestSame ==
    ASSUME NEW i \in Engine, NEW g \in GraphReaderType
    PROVE  /\ VertexRequested(i, g) \in GraphReaderType
           /\ SameCursors(g, VertexRequested(i, g))
           /\ VertexRequested(i, g).pass_over = g.pass_over
<1> DEFINE wrap == g.next_v_addr + 1 = data_index[i].row_addr_end
           a == IF wrap THEN data_index[i].row_addr_start ELSE g.next_v_addr + 1
           c == IF wrap THEN g.v_req_count + 1 ELSE g.v_req_count
           o == g.v_req_over \/ (wrap /\ g.v_req_count + 1 = bf)
<1>1. data_index[i].row_addr_start \in Nat
  BY IndexAssumption DEF GraphFields
<1>2. a \in Nat /\ c \in Nat /\ o \in BOOLEAN
  BY <1>1 DEF GraphReaderType
<1>3. VertexRequested(i, g) = [g EXCEPT !.next_v_addr = a, !.v_req_count = c,
                                        !.v_req_over = o]
  BY DEF VertexRequested
<1> HIDE DEF a, c, o
<1>4. VertexRequested(i, g) \in GraphReaderType
  <2>1. [g EXCEPT !.next_v_addr = a, !.v_req_count = c, !.v_req_over = o]
            \in GraphReaderType
    BY <1>2, VertexRequestFields
  <2> QED
    BY <1>3, <2>1
<1>5. SameCursors(g, VertexRequested(i, g))
  BY <1>3 DEF GraphReaderType, SameCursors
<1>6. VertexRequested(i, g).pass_over = g.pass_over
  BY <1>3 DEF GraphReaderType
<1> QED
  BY <1>4, <1>5, <1>6

\* EdgeRequest (g_reader.cc:94-116) moves only the request side of a reader.
LEMMA EdgeRequestSame ==
    ASSUME NEW i \in Engine, NEW g \in GraphReaderType
    PROVE  /\ EdgeRequested(i, g) \in GraphReaderType
           /\ SameCursors(g, EdgeRequested(i, g))
           /\ EdgeRequested(i, g).pass_over = g.pass_over
<1> DEFINE wrap == g.next_e_addr + 1 = data_index[i].col_addr_end
           a == IF wrap THEN data_index[i].col_addr_start ELSE g.next_e_addr + 1
           v == IF gnn_mode # "GCN" THEN g.next_val_addr
                ELSE IF wrap THEN data_index[i].value_addr_start
                             ELSE g.next_val_addr + 1
           c == IF wrap THEN g.e_req_count + 1 ELSE g.e_req_count
           o == g.e_req_over \/ (wrap /\ g.e_req_count + 1 = bf)
<1>1. data_index[i].col_addr_start \in Nat /\ data_index[i].value_addr_start \in Nat
  BY IndexAssumption DEF GraphFields
<1>2. a \in Nat /\ v \in Nat /\ c \in Nat /\ o \in BOOLEAN
  BY <1>1 DEF GraphReaderType
<1>3. EdgeRequested(i, g) = [g EXCEPT !.next_e_addr = a, !.next_val_addr = v,
                                      !.e_req_count = c, !.e_req_over = o]
  BY DEF EdgeRequested
<1> HIDE DEF a, v, c, o
<1>4. EdgeRequested(i, g) \in GraphReaderType
  <2>1. [g EXCEPT !.next_e_addr = a, !.next_val_addr = v, !.e_req_count = c,
                  !.e_req_over = o] \in GraphReaderType
    BY <1>2, EdgeRequestFields
  <2> QED
    BY <1>3, <2>1
<1>5. SameCursors(g, EdgeRequested(i, g))
  BY <1>3 DEF GraphReaderType, SameCursors
<1>6. EdgeRequested(i, g).pass_over = g.pass_over
  BY <1>3 DEF GraphReaderType
<1> QED
  BY <1>4, <1>5, <1>6

\* Raising reci_over or pass_over disturbs nothing else.
LEMMA FlagSame ==
    ASSUME NEW g \in GraphReaderType
    PROVE  /\ ReceiveOver(g) \in GraphReaderType
           /\ SameCursors(g, ReceiveOver(g))
           /\ ReceiveOver(g).pass_over = g.pass_over
           /\ PassOver(g) \in GraphReaderType
           /\ SameCursors(g, PassOver(g))
           /\ PassOver(g).pass_over = TRUE
<1> DEFINE o == g.reci_over \/ (g.v_reci_over /\ g.e_reci_over /\ g.val_reci_over)
<1>1. o \in BOOLEAN
  OBVIOUS
<1>2. ReceiveOver(g) = [g EXCEPT !.reci_over = o]
  BY DEF ReceiveOver
<1> HIDE DEF o
<1>3. ReceiveOver(g) \in GraphReaderType /\ SameCursors(g, ReceiveOver(g))
  BY <1>1, <1>2 DEF GraphReaderType, SameCursors
<1>4. ReceiveOver(g).pass_over = g.pass_over
  BY <1>2 DEF GraphReaderType
<1>5. PassOver(g) \in GraphReaderType /\ SameCursors(g, PassOver(g))
  BY DEF PassOver, GraphReaderType, SameCursors
<1>6. PassOver(g).pass_over = TRUE
  BY DEF PassOver, GraphReaderType
<1> QED
  BY <1>3, <1>4, <1>5, <1>6

\* A row line (g_reader.cc:124-138) keeps the reader sound.
LEMMA RowReceivedSound ==
    ASSUME NEW i \in Engine, NEW g \in GraphReaderType, Len(col_idx[i]) > 0,
           ReaderSound(i, g)
    PROVE  /\ RowReceived(i, g) \in GraphReaderType
           /\ ReaderSound(i, RowReceived(i, g))
           /\ RowReceived(i, g).pass_over = g.pass_over
<1> DEFINE h == RowReceived(i, g)
           S == Len(row_ptr[i])
           a == Arrive(S, g.row_end_idx, g.row_overflow, g.v_reci_count)
           o == g.v_reci_over \/ a.over
<1>1. S \in Nat /\ S >= 2
  BY CsrFacts
<1>2. /\ RowsSound(i, g)
      /\ g.row_end_idx \in Nat /\ g.row_overflow \in Nat
      /\ g.cur_row_idx \in Nat /\ g.v_reci_count \in Nat
  BY DEF ReaderSound, GraphReaderType
<1>3. g.row_end_idx \in 0 .. S /\ g.row_end_idx # 1
  BY <1>2 DEF RowsSound
<1>4. /\ a.end \in 0 .. S /\ a.end >= 2
      /\ a.overflow \in Nat /\ a.overflow >= g.row_overflow
      /\ a.count \in Nat /\ a.over \in BOOLEAN
      /\ a.overflow = 0 => g.row_end_idx <= a.end
  BY <1>1, <1>2, <1>3, RowArriveSound
<1>5. h = [g EXCEPT !.row_end_idx = a.end, !.row_overflow = a.overflow,
                    !.v_reci_count = a.count, !.v_reci_over = o]
  BY DEF RowReceived
<1>6. o \in BOOLEAN
  OBVIOUS
<1> HIDE DEF a, o
<1>7. h \in GraphReaderType
  <2>1. [g EXCEPT !.row_end_idx = a.end, !.row_overflow = a.overflow,
                  !.v_reci_count = a.count, !.v_reci_over = o] \in GraphReaderType
    <3>1. a.end \in Nat
      BY <1>1, <1>4
    <3> QED
      BY <1>4, <1>6, <3>1, RowReceiveFields
  <2> QED
    BY <1>5, <2>1
<1>8. /\ h.row_end_idx = a.end /\ h.row_overflow = a.overflow
      /\ h.cur_row_idx = g.cur_row_idx /\ h.cur_col_idx = g.cur_col_idx
      /\ h.cur_val_idx = g.cur_val_idx /\ h.remain_edge = g.remain_edge
      /\ h.col_end_idx = g.col_end_idx /\ h.val_end_idx = g.val_end_idx
      /\ h.col_overflow = g.col_overflow /\ h.val_overflow = g.val_overflow
      /\ h.e_reci_count = g.e_reci_count
      /\ h.val_reci_count = g.val_reci_count
      /\ h.g_pass_count = g.g_pass_count
  BY <1>5 DEF GraphReaderType
<1>9. h.pass_over = g.pass_over
  BY <1>5 DEF GraphReaderType
<1> HIDE DEF h
<1>10. RowsSound(i, h)
  BY <1>1, <1>2, <1>4, <1>8 DEF RowsSound
<1>11. ReaderSound(i, h)
  BY <1>8, <1>10 DEF ReaderSound, ColumnsSound, ValuesSound, Aligned
<1> QED
  BY <1>7, <1>9, <1>11 DEF h

\* A column line (g_reader.cc:139-153) keeps the reader sound.
LEMMA ColumnReceivedSound ==
    ASSUME NEW i \in Engine, NEW g \in GraphReaderType, Len(col_idx[i]) > 0,
           ReaderSound(i, g)
    PROVE  /\ ColumnReceived(i, g) \in GraphReaderType
           /\ ReaderSound(i, ColumnReceived(i, g))
           /\ ColumnReceived(i, g).pass_over = g.pass_over
<1> DEFINE h == ColumnReceived(i, g)
           E == Len(col_idx[i])
           a == Arrive(E, g.col_end_idx, g.col_overflow, g.e_reci_count)
           o == g.e_reci_over \/ a.over
<1>1. E \in Nat /\ E > 0
  BY CsrFacts
<1>2. /\ g.col_end_idx \in Nat /\ g.col_overflow \in Nat /\ g.e_reci_count \in Nat
      /\ g.cur_col_idx \in Nat /\ g.g_pass_count \in Nat
  BY DEF GraphReaderType
<1>3. CursorSound(E, g.g_pass_count, g.cur_col_idx, g.col_end_idx,
                  g.col_overflow, g.e_reci_count)
  BY DEF ReaderSound, ColumnsSound
<1>4. /\ a.end \in Nat /\ a.overflow \in Nat /\ a.count \in Nat
      /\ a.over \in BOOLEAN
      /\ CursorSound(E, g.g_pass_count, g.cur_col_idx, a.end, a.overflow, a.count)
  BY <1>1, <1>2, <1>3, ArriveSound
<1>5. h = [g EXCEPT !.col_end_idx = a.end, !.col_overflow = a.overflow,
                    !.e_reci_count = a.count, !.e_reci_over = o]
  BY DEF ColumnReceived
<1>6. o \in BOOLEAN
  OBVIOUS
<1> HIDE DEF a, o
<1>7. h \in GraphReaderType
  <2>1. [g EXCEPT !.col_end_idx = a.end, !.col_overflow = a.overflow,
                  !.e_reci_count = a.count, !.e_reci_over = o] \in GraphReaderType
    BY <1>4, <1>6, ColumnReceiveFields
  <2> QED
    BY <1>5, <2>1
<1>8. /\ h.col_end_idx = a.end /\ h.col_overflow = a.overflow
      /\ h.e_reci_count = a.count
      /\ h.cur_row_idx = g.cur_row_idx /\ h.cur_col_idx = g.cur_col_idx
      /\ h.cur_val_idx = g.cur_val_idx /\ h.remain_edge = g.remain_edge
      /\ h.row_end_idx = g.row_end_idx /\ h.val_end_idx = g.val_end_idx
      /\ h.row_overflow = g.row_overflow /\ h.val_overflow = g.val_overflow
      /\ h.val_reci_count = g.val_reci_count
      /\ h.g_pass_count = g.g_pass_count
  BY <1>5 DEF GraphReaderType
<1>9. h.pass_over = g.pass_over
  BY <1>5 DEF GraphReaderType
<1> HIDE DEF h
<1>10. ReaderSound(i, h)
  BY <1>4, <1>8 DEF ReaderSound, RowsSound, ColumnsSound, ValuesSound, Aligned
<1> QED
  BY <1>7, <1>9, <1>10 DEF h

\* A value line (g_reader.cc:154-168) keeps the reader sound in GCN mode; in
\* the other mode none is requested.
LEMMA ValueReceivedSound ==
    ASSUME NEW i \in Engine, NEW g \in GraphReaderType, Len(col_idx[i]) > 0,
           gnn_mode = "GCN", ReaderSound(i, g)
    PROVE  /\ ValueReceived(i, g) \in GraphReaderType
           /\ ReaderSound(i, ValueReceived(i, g))
           /\ ValueReceived(i, g).pass_over = g.pass_over
<1> DEFINE h == ValueReceived(i, g)
           E == Len(col_idx[i])
           a == Arrive(E, g.val_end_idx, g.val_overflow, g.val_reci_count)
           o == g.val_reci_over \/ a.over
<1>1. E \in Nat /\ E > 0
  BY CsrFacts
<1>2. /\ g.val_end_idx \in Nat /\ g.val_overflow \in Nat
      /\ g.val_reci_count \in Nat
      /\ g.cur_val_idx \in Nat /\ g.g_pass_count \in Nat
  BY DEF GraphReaderType
<1>3. CursorSound(E, g.g_pass_count, g.cur_val_idx, g.val_end_idx,
                  g.val_overflow, g.val_reci_count)
  BY DEF ReaderSound, ValuesSound
<1>4. /\ a.end \in Nat /\ a.overflow \in Nat /\ a.count \in Nat
      /\ a.over \in BOOLEAN
      /\ CursorSound(E, g.g_pass_count, g.cur_val_idx, a.end, a.overflow, a.count)
  BY <1>1, <1>2, <1>3, ArriveSound
<1>5. h = [g EXCEPT !.val_end_idx = a.end, !.val_overflow = a.overflow,
                    !.val_reci_count = a.count, !.val_reci_over = o]
  BY DEF ValueReceived
<1>6. o \in BOOLEAN
  OBVIOUS
<1> HIDE DEF a, o
<1>7. h \in GraphReaderType
  <2>1. [g EXCEPT !.val_end_idx = a.end, !.val_overflow = a.overflow,
                  !.val_reci_count = a.count, !.val_reci_over = o] \in GraphReaderType
    BY <1>4, <1>6, ValueReceiveFields
  <2> QED
    BY <1>5, <2>1
<1>8. /\ h.val_end_idx = a.end /\ h.val_overflow = a.overflow
      /\ h.val_reci_count = a.count
      /\ h.cur_row_idx = g.cur_row_idx /\ h.cur_col_idx = g.cur_col_idx
      /\ h.cur_val_idx = g.cur_val_idx /\ h.remain_edge = g.remain_edge
      /\ h.row_end_idx = g.row_end_idx /\ h.col_end_idx = g.col_end_idx
      /\ h.row_overflow = g.row_overflow /\ h.col_overflow = g.col_overflow
      /\ h.e_reci_count = g.e_reci_count
      /\ h.g_pass_count = g.g_pass_count
  BY <1>5 DEF GraphReaderType
<1>9. h.pass_over = g.pass_over
  BY <1>5 DEF GraphReaderType
<1> HIDE DEF h
<1>10. ReaderSound(i, h)
  BY <1>4, <1>8 DEF ReaderSound, RowsSound, ColumnsSound, ValuesSound, Aligned
<1> QED
  BY <1>7, <1>9, <1>10 DEF h

\* One iteration of NextFeature's row loop (g_reader.cc:189-205), entered
\* with a row at hand, takes that row and keeps the reader sound.
LEMMA RowTakenSound ==
    ASSUME NEW i \in Engine, NEW g \in GraphReaderType, Len(col_idx[i]) > 0,
           ReaderSound(i, g), g.remain_edge = 0,
           g.cur_row_idx < g.row_end_idx \/ g.row_overflow > 0
    PROVE  /\ ~RowsExhausted(i, g)
           /\ RowTaken(i, g) \in GraphReaderType
           /\ ReaderSound(i, RowTaken(i, g))
           /\ RowTaken(i, g).pass_over = g.pass_over
           /\ RowTaken(i, g).cur_col_idx = g.cur_col_idx
           /\ RowTaken(i, g).g_pass_count = g.g_pass_count
           /\ RowLoops(RowTaken(i, g)) =>
                 /\ RowTaken(i, g).remain_edge = 0
                 /\ \/ RowTaken(i, g).cur_row_idx < RowTaken(i, g).row_end_idx
                    \/ RowTaken(i, g).row_overflow > 0
<1> DEFINE h == RowTaken(i, g)
           S == Len(row_ptr[i])
           E == Len(col_idx[i])
           wrap == g.cur_row_idx = S
           r == IF wrap THEN 1 ELSE g.cur_row_idx
           o == IF wrap THEN g.row_overflow - 1 ELSE g.row_overflow
           m == RowPtr(i, r) - RowPtr(i, r - 1)
           Row(k) == RowPtr(i, k)
<1>1. /\ S \in Nat /\ S >= 2 /\ E \in Nat
      /\ Row(0) = 0 /\ Row(S - 1) = E
      /\ \A k \in 0 .. S - 1 : Row(k) \in 0 .. E
      /\ \A j, k \in 0 .. S - 1 : j <= k => Row(j) <= Row(k)
  BY CsrFacts
<1>2. /\ g.cur_row_idx \in Nat /\ g.row_end_idx \in Nat /\ g.row_overflow \in Nat
      /\ g.cur_col_idx \in Nat /\ g.remain_edge \in Nat
  BY DEF GraphReaderType
<1>3. RowsSound(i, g) /\ Aligned(i, g)
  BY DEF ReaderSound
<1>4. wrap => g.row_overflow > 0
  BY <1>1, <1>2, <1>3 DEF RowsSound
<1>5. ~RowsExhausted(i, g)
  BY <1>2, <1>4 DEF RowsExhausted
<1>6. r \in 1 .. S - 1 /\ o \in Nat
  BY <1>1, <1>2, <1>3, <1>4, SMTT(20) DEF RowsSound
<1>7. /\ r \in 0 .. S - 1 /\ r - 1 \in 0 .. S - 1 /\ r - 1 <= r
      /\ r + 1 \in Nat
  BY <1>1, <1>6, SMTT(20)
<1>8. /\ Row(r) \in 0 .. E /\ Row(r - 1) \in 0 .. E /\ Row(r - 1) <= Row(r)
  BY <1>1, <1>7
<1>9. m \in Nat
  BY <1>1, <1>8
<1>10. h = [g EXCEPT !.cur_row_idx = r + 1, !.row_overflow = o, !.remain_edge = m]
  BY DEF RowTaken
<1>11. \/ g.cur_col_idx = Row(r - 1)
       \/ g.cur_col_idx = E /\ Row(r - 1) = 0
  <2>1. CASE wrap
    <3>1. g.cur_col_idx = E
      BY <1>1, <1>2, <1>3, <2>1 DEF Aligned
    <3>2. r - 1 = 0
      BY <2>1
    <3>3. Row(r - 1) = Row(0)
      BY <3>2
    <3> QED
      BY <1>1, <3>1, <3>3
  <2>2. CASE ~wrap
    <3>1. r = g.cur_row_idx
      BY <2>2
    <3> QED
      BY <1>2, <1>3, <3>1 DEF Aligned
  <2> QED
    BY <2>1, <2>2
<1>12. \/ g.cur_col_idx + m = Row(r)
       \/ g.cur_col_idx = E /\ m = Row(r)
  BY <1>1, <1>2, <1>8, <1>11
<1> HIDE DEF r, o, m
<1>13. [g EXCEPT !.cur_row_idx = r + 1, !.row_overflow = o, !.remain_edge = m]
           \in GraphReaderType
  BY <1>6, <1>7, <1>9, ZenonT(60) DEF GraphReaderType
<1>14. h \in GraphReaderType
  BY <1>10, <1>13
<1>15. /\ h.cur_row_idx = r + 1 /\ h.row_overflow = o /\ h.remain_edge = m
       /\ h.row_end_idx = g.row_end_idx
       /\ h.cur_col_idx = g.cur_col_idx /\ h.cur_val_idx = g.cur_val_idx
       /\ h.col_end_idx = g.col_end_idx /\ h.val_end_idx = g.val_end_idx
       /\ h.col_overflow = g.col_overflow /\ h.val_overflow = g.val_overflow
       /\ h.e_reci_count = g.e_reci_count
       /\ h.val_reci_count = g.val_reci_count
       /\ h.g_pass_count = g.g_pass_count
  BY <1>10 DEF GraphReaderType
<1>16. h.pass_over = g.pass_over
  BY <1>10 DEF GraphReaderType
<1> HIDE DEF h
<1>17. RowsSound(i, h)
  <2>1. r + 1 \in 1 .. S
    BY <1>1, <1>6
  <2>2. o > 0 => g.row_end_idx > 0
    BY <1>2, <1>3, <1>6 DEF RowsSound, o
  <2>3. o = 0 => r + 1 <= g.row_end_idx
    BY <1>1, <1>2, <1>3, <1>4 DEF RowsSound, o, r
  <2> QED
    BY <1>3, <1>15, <2>1, <2>2, <2>3 DEF RowsSound
<1>18. Aligned(i, h)
  <2>1. h.cur_row_idx - 1 = r /\ h.cur_row_idx - 2 = r - 1 /\ h.cur_row_idx >= 2
    BY <1>6, <1>15
  <2>2. RowPtr(i, h.cur_row_idx - 1) = Row(r) /\ RowPtr(i, h.cur_row_idx - 2) = Row(r - 1)
    BY <2>1
  <2>3. Row(r - 1) + m = Row(r)
    BY <1>1, <1>8 DEF m
  <2>4. Row(r - 1) + m <= Row(r)
    BY <1>1, <1>8, <2>3
  <2> QED
    BY <1>12, <1>15, <2>1, <2>2, <2>4 DEF Aligned
<1>19. ReaderSound(i, h)
  BY <1>15, <1>17, <1>18 DEF ReaderSound, ColumnsSound, ValuesSound
<1>20. RowLoops(h) => /\ h.remain_edge = 0
                      /\ h.cur_row_idx < h.row_end_idx \/ h.row_overflow > 0
  <2>1. /\ h.cur_row_idx \in Nat /\ h.row_end_idx \in Nat /\ h.row_overflow \in Nat
        /\ h.cur_row_idx >= 2
    BY <1>6, <1>15, <1>14 DEF GraphReaderType
  <2> QED
    BY <1>17, <2>1 DEF RowLoops, RowsSound
<1> QED
  BY <1>5, <1>14, <1>15, <1>16, <1>19, <1>20 DEF h

\* Edge c of engine i ends a row.
EdgeEndsRow(i, c) ==
    \E r \in 1 .. Len(row_ptr[i]) - 1 :
        RowPtr(i, r - 1) <= c /\ RowPtr(i, r) = c + 1

\* A row with m edges left, the next of them being edge c.
LEMMA RowArithmetic ==
    ASSUME NEW a \in Nat, NEW b \in Nat, NEW c \in Nat, NEW m \in Nat,
           m > 0, c + m = b, a + m <= b
    PROVE  /\ m - 1 \in Nat /\ (c + 1) + (m - 1) = b /\ a + (m - 1) <= b
           /\ a <= c /\ (m = 1 => b = c + 1)
OBVIOUS

\* Going back to the first column (g_reader.cc:212-222) keeps a reader sound
\* that has an edge ready, and leaves it at a column of the array.
LEMMA ColumnWrapSound ==
    ASSUME NEW i \in Engine, NEW g \in GraphReaderType, Len(col_idx[i]) > 0,
           ReaderSound(i, g), EdgeReady(g), ~AllPassed(i, g)
    PROVE  LET w == ColumnWrap(i, g)
           IN  /\ ~WrapEnds(i, g)
               /\ w \in GraphReaderType
               /\ ReaderSound(i, w)
               /\ w.pass_over = g.pass_over
               /\ EdgeReady(w)
               /\ w.cur_col_idx < Len(col_idx[i])
               /\ w.cur_col_idx + w.remain_edge = RowPtr(i, w.cur_row_idx - 1)
               /\ \/ /\ g.cur_col_idx < Len(col_idx[i])
                     /\ w.g_pass_count = g.g_pass_count
                     /\ w.cur_col_idx = g.cur_col_idx
                  \/ /\ g.cur_col_idx = Len(col_idx[i])
                     /\ w.g_pass_count = g.g_pass_count + 1
                     /\ w.cur_col_idx = 0
<1> DEFINE w == ColumnWrap(i, g)
           S == Len(row_ptr[i])
           E == Len(col_idx[i])
<1>1. /\ S \in Nat /\ S >= 2 /\ E \in Nat /\ E > 0
      /\ \A k \in 0 .. S - 1 : RowPtr(i, k) \in 0 .. E
  BY CsrFacts
<1>2. /\ g.cur_row_idx \in Nat /\ g.cur_col_idx \in Nat /\ g.cur_val_idx \in Nat
      /\ g.col_end_idx \in Nat /\ g.val_end_idx \in Nat
      /\ g.col_overflow \in Nat /\ g.val_overflow \in Nat
      /\ g.remain_edge \in Nat /\ g.g_pass_count \in Nat
      /\ g.e_reci_count \in Nat /\ g.val_reci_count \in Nat
  BY DEF GraphReaderType
<1>3. /\ RowsSound(i, g) /\ ColumnsSound(i, g) /\ ValuesSound(i, g)
      /\ Aligned(i, g)
  BY DEF ReaderSound
<1>p. bf \in Nat /\ g.g_pass_count < bf
  BY BfAssumption DEF ReaderSound
<1>4. RowPtr(i, g.cur_row_idx - 1) \in 0 .. E
  <2>1. g.cur_row_idx \in 1 .. S
    BY <1>3 DEF RowsSound
  <2>2. g.cur_row_idx - 1 \in 0 .. S - 1
    BY <1>1, <2>1
  <2> QED
    BY <1>1, <2>2
<1>5. CASE g.cur_col_idx # E
  <2>1. w = g
    BY <1>5 DEF ColumnWrap
  <2>2. g.cur_col_idx < E
    BY <1>1, <1>2, <1>3, <1>5 DEF ColumnsSound, CursorSound
  <2>3. g.cur_col_idx + g.remain_edge = RowPtr(i, g.cur_row_idx - 1)
    BY <1>3, <1>5 DEF Aligned
  <2>4. ~WrapEnds(i, g)
    BY <1>5 DEF WrapEnds
  <2> QED
    BY <2>1, <2>2, <2>3, <2>4
<1>6. CASE g.cur_col_idx = E
  <2>1. /\ g.col_overflow > 0 /\ g.col_overflow - 1 \in Nat
        /\ CursorSound(E, g.g_pass_count + 1, 0, g.col_end_idx,
                       g.col_overflow - 1, g.e_reci_count)
        /\ 0 < g.col_end_idx \/ g.col_overflow - 1 > 0
    <3>1. /\ CursorSound(E, g.g_pass_count, E, g.col_end_idx, g.col_overflow,
                         g.e_reci_count)
          /\ E < g.col_end_idx \/ g.col_overflow > 0
      BY <1>3, <1>6 DEF ColumnsSound, EdgeReady
    <3> QED
      BY <1>1, <1>2, <3>1, CursorWrap
  <2>2. /\ g.val_overflow - 1 \in Nat
        /\ 0 < g.val_end_idx \/ g.val_overflow - 1 > 0
        /\ \/ /\ gnn_mode = "GCN"
              /\ CursorSound(E, g.g_pass_count + 1, 0, g.val_end_idx,
                             g.val_overflow - 1, g.val_reci_count)
           \/ /\ gnn_mode = "OTHER"
              /\ g.val_end_idx = E
              /\ g.val_overflow - 1 = bf - (g.g_pass_count + 1)
    <3>1. CASE gnn_mode = "GCN"
      <4>1. /\ CursorSound(E, g.g_pass_count, E, g.val_end_idx, g.val_overflow,
                           g.val_reci_count)
            /\ E < g.val_end_idx \/ g.val_overflow > 0
        BY <1>3, <1>6, <3>1 DEF ValuesSound, EdgeReady
      <4>2. /\ g.val_overflow > 0 /\ g.val_overflow - 1 \in Nat
            /\ CursorSound(E, g.g_pass_count + 1, 0, g.val_end_idx,
                           g.val_overflow - 1, g.val_reci_count)
            /\ 0 < g.val_end_idx \/ g.val_overflow - 1 > 0
        BY <1>1, <1>2, <4>1, CursorWrap
      <4> QED
        BY <3>1, <4>2, Zenon
    <3>2. CASE gnn_mode = "OTHER"
      <4>1. g.val_end_idx = E /\ g.val_overflow = bf - g.g_pass_count
        BY <1>3, <3>2 DEF ValuesSound
      <4> DEFINE v == g.val_overflow
                 k == g.g_pass_count
      <4>a. v \in Nat /\ k \in Nat /\ bf \in Nat /\ v = bf - k /\ k < bf
        BY <1>2, <1>p, <4>1
      <4> HIDE DEF v, k
      <4>b. v - 1 \in Nat /\ v - 1 = bf - (k + 1)
        BY <4>a
      <4>2. g.val_overflow - 1 \in Nat /\ g.val_overflow - 1 = bf - (g.g_pass_count + 1)
        BY <4>b DEF v, k
      <4> QED
        BY <1>1, <3>2, <4>1, <4>2
    <3> QED
      BY <3>1, <3>2, ModeAssumption
  <2>3. w = [g EXCEPT !.cur_col_idx = 0, !.cur_val_idx = 0,
                      !.col_overflow = g.col_overflow - 1,
                      !.val_overflow = g.val_overflow - 1,
                      !.g_pass_count = g.g_pass_count + 1]
    BY <1>6, <2>1 DEF ColumnWrap
  <2>4. g.g_pass_count + 1 < bf
    BY <1>2, <1>p, <1>6 DEF AllPassed
  <2>5. w \in GraphReaderType
    <3>1. g.g_pass_count + 1 \in Nat
      BY <1>2
    <3>2. [g EXCEPT !.cur_col_idx = 0, !.cur_val_idx = 0,
                    !.col_overflow = g.col_overflow - 1,
                    !.val_overflow = g.val_overflow - 1,
                    !.g_pass_count = g.g_pass_count + 1] \in GraphReaderType
      BY <2>1, <2>2, <3>1 DEF GraphReaderType
    <3> QED
      BY <2>3, <3>2
  <2>6. /\ w.cur_col_idx = 0 /\ w.cur_val_idx = 0
        /\ w.col_overflow = g.col_overflow - 1
        /\ w.val_overflow = g.val_overflow - 1
        /\ w.g_pass_count = g.g_pass_count + 1
        /\ w.cur_row_idx = g.cur_row_idx /\ w.row_end_idx = g.row_end_idx
        /\ w.row_overflow = g.row_overflow /\ w.remain_edge = g.remain_edge
        /\ w.col_end_idx = g.col_end_idx /\ w.val_end_idx = g.val_end_idx
        /\ w.e_reci_count = g.e_reci_count
        /\ w.val_reci_count = g.val_reci_count
    BY <2>3 DEF GraphReaderType
  <2>7. w.pass_over = g.pass_over
    BY <2>3 DEF GraphReaderType
  <2>8. ~WrapEnds(i, g)
    BY <1>2, <1>p, <2>4, <2>6 DEF WrapEnds
  <2> HIDE DEF w
  <2>9. g.remain_edge > 0 /\ g.remain_edge = RowPtr(i, g.cur_row_idx - 1)
    <3>1. g.remain_edge > 0
      BY DEF EdgeReady
    <3>2. \/ E + g.remain_edge = RowPtr(i, g.cur_row_idx - 1)
          \/ g.remain_edge = RowPtr(i, g.cur_row_idx - 1)
      BY <1>3, <1>6 DEF Aligned
    <3> QED
      BY <1>1, <1>2, <1>4, <3>1, <3>2, SMTT(20)
  <2>10. ColumnsSound(i, w)
    BY <2>1, <2>6 DEF ColumnsSound
  <2>11. ValuesSound(i, w)
    BY <2>2, <2>6 DEF ValuesSound
  <2>12. Aligned(i, w)
    BY <1>2, <1>3, <1>4, <2>6, <2>9 DEF Aligned
  <2>13. ReaderSound(i, w)
    BY <1>3, <2>4, <2>6, <2>10, <2>11, <2>12 DEF ReaderSound, RowsSound
  <2>14. EdgeReady(w)
    <3>1. 0 < w.col_end_idx \/ w.col_overflow > 0
      BY <2>1, <2>6
    <3>2. 0 < w.val_end_idx \/ w.val_overflow > 0
      BY <2>2, <2>6
    <3> QED
      BY <2>6, <2>9, <3>1, <3>2 DEF EdgeReady
  <2>15. w.cur_col_idx + w.remain_edge = RowPtr(i, w.cur_row_idx - 1)
    BY <1>2, <2>6, <2>9
  <2> QED
    BY <1>1, <1>6, <2>5, <2>6, <2>7, <2>8, <2>13, <2>14, <2>15 DEF w
<1> QED
  BY <1>5, <1>6

\* Passing an edge (g_reader.cc:236-251) keeps a reader sound, and the mark
\* is_last is on the last edge of a row.
LEMMA EdgeTakenSound ==
    ASSUME NEW i \in Engine, NEW w \in GraphReaderType, Len(col_idx[i]) > 0,
           ReaderSound(i, w), EdgeReady(w), w.cur_col_idx < Len(col_idx[i]),
           w.cur_col_idx + w.remain_edge = RowPtr(i, w.cur_row_idx - 1)
    PROVE  /\ EdgeTaken(w) \in GraphReaderType
           /\ ReaderSound(i, EdgeTaken(w))
           /\ EdgeTaken(w).pass_over = w.pass_over
           /\ EdgeTaken(w).cur_col_idx = w.cur_col_idx + 1
           /\ EdgeTaken(w).g_pass_count = w.g_pass_count
           /\ w.remain_edge = 1 <=> EdgeEndsRow(i, w.cur_col_idx)
<1> DEFINE h == EdgeTaken(w)
           S == Len(row_ptr[i])
           E == Len(col_idx[i])
           c == w.cur_col_idx
           m == w.remain_edge
           q == w.cur_row_idx - 1
<1>1. /\ S \in Nat /\ S >= 2 /\ E \in Nat /\ E > 0
      /\ \A k \in 0 .. S - 1 : RowPtr(i, k) \in 0 .. E
      /\ \A j, k \in 0 .. S - 1 : j <= k => RowPtr(i, j) <= RowPtr(i, k)
  BY CsrFacts
<1>2. /\ w.cur_row_idx \in Nat /\ c \in Nat /\ w.cur_val_idx \in Nat
      /\ w.col_end_idx \in Nat /\ w.val_end_idx \in Nat
      /\ w.col_overflow \in Nat /\ w.val_overflow \in Nat
      /\ m \in Nat /\ w.g_pass_count \in Nat
      /\ w.e_reci_count \in Nat /\ w.val_reci_count \in Nat
  BY DEF GraphReaderType
<1>3. /\ RowsSound(i, w) /\ ColumnsSound(i, w) /\ ValuesSound(i, w)
      /\ Aligned(i, w)
  BY DEF ReaderSound
<1>4. /\ m > 0
      /\ c < w.col_end_idx \/ w.col_overflow > 0
      /\ w.cur_val_idx < w.val_end_idx \/ w.val_overflow > 0
  BY DEF EdgeReady
<1>5. w.cur_row_idx \in 2 .. S
  <2>1. w.cur_row_idx \in 1 .. S /\ w.cur_row_idx >= 2
    BY <1>3, <1>4 DEF RowsSound, Aligned
  <2> QED
    BY <1>1, <2>1
<1>6. q \in 1 .. S - 1 /\ q \in 0 .. S - 1 /\ q - 1 \in 0 .. S - 1 /\ q - 1 = w.cur_row_idx - 2
  BY <1>1, <1>5
<1>7. RowPtr(i, q) \in 0 .. E /\ RowPtr(i, q - 1) \in 0 .. E
  BY <1>1, <1>6
<1>8. c + m = RowPtr(i, q) /\ RowPtr(i, q - 1) + m <= RowPtr(i, q)
  BY <1>3, <1>4, <1>6 DEF Aligned
<1>9. h = [w EXCEPT !.cur_col_idx = c + 1, !.cur_val_idx = w.cur_val_idx + 1,
                    !.remain_edge = m - 1]
  BY DEF EdgeTaken
<1>a. /\ m - 1 \in Nat /\ (c + 1) + (m - 1) = RowPtr(i, q)
      /\ RowPtr(i, q - 1) + (m - 1) <= RowPtr(i, q)
      /\ RowPtr(i, q - 1) <= c /\ (m = 1 => RowPtr(i, q) = c + 1)
  <2>1. RowPtr(i, q) \in Nat /\ RowPtr(i, q - 1) \in Nat /\ m \in Nat /\ c \in Nat
    BY <1>1, <1>2, <1>7
  <2> HIDE DEF c, m, q
  <2> QED
    BY <1>4, <1>8, <2>1, RowArithmetic
<1>10. c + 1 \in Nat /\ w.cur_val_idx + 1 \in Nat
  <2>1. \A n \in Nat : n + 1 \in Nat
    OBVIOUS
  <2> QED
    BY <1>2, <2>1, Zenon
<1>11. h \in GraphReaderType
  <2>1. [w EXCEPT !.cur_col_idx = c + 1, !.cur_val_idx = w.cur_val_idx + 1,
                  !.remain_edge = m - 1] \in GraphReaderType
    BY <1>10, <1>a DEF GraphReaderType
  <2> QED
    BY <1>9, <2>1
<1>12. /\ h.cur_col_idx = c + 1 /\ h.cur_val_idx = w.cur_val_idx + 1
       /\ h.remain_edge = m - 1
       /\ h.cur_row_idx = w.cur_row_idx /\ h.row_end_idx = w.row_end_idx
       /\ h.row_overflow = w.row_overflow
       /\ h.col_end_idx = w.col_end_idx /\ h.val_end_idx = w.val_end_idx
       /\ h.col_overflow = w.col_overflow /\ h.val_overflow = w.val_overflow
       /\ h.e_reci_count = w.e_reci_count
       /\ h.val_reci_count = w.val_reci_count
       /\ h.g_pass_count = w.g_pass_count
  BY <1>9 DEF GraphReaderType
<1>13. h.pass_over = w.pass_over
  BY <1>9 DEF GraphReaderType
<1> HIDE DEF h
<1>14. ColumnsSound(i, h)
  <2>1. CursorSound(E, w.g_pass_count, c, w.col_end_idx, w.col_overflow,
                    w.e_reci_count)
    BY <1>3 DEF ColumnsSound
  <2>2. CursorSound(E, w.g_pass_count, c + 1, w.col_end_idx, w.col_overflow,
                    w.e_reci_count)
    BY <1>1, <1>2, <1>4, <2>1, CursorStep
  <2> QED
    BY <1>12, <2>2 DEF ColumnsSound
<1>15. ValuesSound(i, h)
  <2>1. w.cur_val_idx = c
    BY <1>3 DEF ValuesSound
  <2>2. ASSUME gnn_mode = "GCN"
        PROVE  CursorSound(E, w.g_pass_count, w.cur_val_idx + 1, w.val_end_idx,
                           w.val_overflow, w.val_reci_count)
    <3>1. CursorSound(E, w.g_pass_count, w.cur_val_idx, w.val_end_idx,
                      w.val_overflow, w.val_reci_count)
      BY <1>3, <2>2 DEF ValuesSound
    <3> QED
      BY <1>1, <1>2, <1>4, <2>1, <3>1, CursorStep
  <2> QED
    BY <1>3, <1>12, <2>1, <2>2 DEF ValuesSound
<1>16. Aligned(i, h)
  <2>1. w.cur_row_idx >= 2
    BY <1>1, <1>5
  <2> QED
    BY <1>6, <1>12, <1>a, <2>1 DEF Aligned
<1>17. ReaderSound(i, h)
  BY <1>3, <1>12, <1>14, <1>15, <1>16 DEF ReaderSound, RowsSound
<1>18. m = 1 => EdgeEndsRow(i, c)
  BY <1>6, <1>a DEF EdgeEndsRow
<1>19. EdgeEndsRow(i, c) => m = 1
  <2> SUFFICES ASSUME NEW r \in 1 .. S - 1,
                      RowPtr(i, r - 1) <= c, RowPtr(i, r) = c + 1
               PROVE  m = 1
    BY DEF EdgeEndsRow
  <2>1. r \in 0 .. S - 1 /\ RowPtr(i, r) \in 0 .. E
    BY <1>1
  <2>2. ~(r <= q - 1)
    <3> SUFFICES ASSUME r <= q - 1 PROVE FALSE
      OBVIOUS
    <3>1. RowPtr(i, r) <= RowPtr(i, q - 1)
      BY <1>1, <1>6, <2>1
    <3> QED
      BY <1>1, <1>2, <1>7, <1>8, <3>1, SMTT(20)
  <2>3. q <= r
    BY <1>1, <1>6, <2>1, <2>2
  <2>4. RowPtr(i, q) <= RowPtr(i, r)
    BY <1>1, <1>6, <2>1, <2>3
  <2> QED
    BY <1>1, <1>2, <1>4, <1>7, <1>8, <2>4, SMTT(20)
<1> QED
  BY <1>11, <1>12, <1>13, <1>17, <1>18, <1>19 DEF h

-----------------------------------------------------------------------------
(* What a reader requests. *)

\* The fields RequestsSound is about, and the count of column passes.
SameRequests(g, h) ==
    /\ h.next_v_addr = g.next_v_addr
    /\ h.next_e_addr = g.next_e_addr
    /\ h.next_val_addr = g.next_val_addr
    /\ h.e_req_count = g.e_req_count

\* GraphReceive and NextFeature (g_reader.cc:118-257) request nothing.
LEMMA OthersRequestNothing ==
    ASSUME NEW i \in Engine, NEW g \in GraphReaderType
    PROVE  /\ SameRequests(g, RowReceived(i, g))
           /\ SameRequests(g, ColumnReceived(i, g))
           /\ SameRequests(g, ValueReceived(i, g))
           /\ SameRequests(g, ReceiveOver(g))
           /\ SameRequests(g, PassOver(g))
           /\ SameRequests(g, RowTaken(i, g))
           /\ SameRequests(g, ColumnWrap(i, g))
           /\ SameRequests(g, EdgeTaken(g))
<1>1. SameRequests(g, RowReceived(i, g))
  BY DEF SameRequests, RowReceived, GraphReaderType
<1>2. SameRequests(g, ColumnReceived(i, g))
  BY DEF SameRequests, ColumnReceived, GraphReaderType
<1>3. SameRequests(g, ValueReceived(i, g))
  BY DEF SameRequests, ValueReceived, GraphReaderType
<1>4. SameRequests(g, ReceiveOver(g))
  BY DEF SameRequests, ReceiveOver, GraphReaderType
<1>5. SameRequests(g, PassOver(g))
  BY DEF SameRequests, PassOver, GraphReaderType
<1>6. SameRequests(g, RowTaken(i, g))
  BY DEF SameRequests, RowTaken, GraphReaderType
<1>7. SameRequests(g, ColumnWrap(i, g))
  BY DEF SameRequests, ColumnWrap, GraphReaderType
<1>8. SameRequests(g, EdgeTaken(g))
  BY DEF SameRequests, EdgeTaken, GraphReaderType
<1> QED
  BY <1>1, <1>2, <1>3, <1>4, <1>5, <1>6, <1>7, <1>8

\* The regions of an engine with edges, as AddressMapping lays them out
\* (preprocessor.cc:476-507).
LEMMA RegionFacts ==
    ASSUME NEW i \in Engine, Len(col_idx[i]) > 0
    PROVE  LET d == data_index[i]
           IN  /\ d.row_addr_start \in Nat /\ d.col_addr_start \in Nat
               /\ d.value_addr_start \in Nat
               /\ d.row_addr_end \in Nat /\ d.col_addr_end \in Nat
               /\ d.row_addr_start < d.row_addr_end
               /\ d.col_addr_start < d.col_addr_end
               /\ d.col_addr_end = d.col_addr_start + Frag(Len(col_idx[i]))
               /\ Frag(Len(col_idx[i])) \in Nat
<1>1. /\ Frag(Len(col_idx[i])) \in Nat /\ Frag(Len(col_idx[i])) >= 1
      /\ Frag(Len(row_ptr[i])) \in Nat /\ Frag(Len(row_ptr[i])) >= 1
  <2>1. /\ Len(col_idx[i]) \in Nat /\ Len(row_ptr[i]) \in Nat
        /\ Len(row_ptr[i]) > 0
    BY CsrFacts
  <2> QED
    BY <2>1, FragPositive
<1>2. /\ data_index[i].row_addr_start \in Nat
      /\ data_index[i].col_addr_start \in Nat
      /\ data_index[i].value_addr_start \in Nat
  BY IndexAssumption DEF GraphFields
<1>3. /\ data_index[i].row_addr_end
             = data_index[i].row_addr_start + Frag(Len(row_ptr[i]))
      /\ data_index[i].col_addr_end
             = data_index[i].col_addr_start + Frag(Len(col_idx[i]))
  BY IndexAssumption
<1> QED
  BY <1>1, <1>2, <1>3

\* One step of an address through a region of at least one line.
LEMMA NextAddress ==
    ASSUME NEW s \in Nat, NEW e \in Nat, NEW a \in s .. e - 1, s < e
    PROVE  (IF a + 1 = e THEN s ELSE a + 1) \in s .. e - 1
OBVIOUS

\* A call that requests nothing (g_reader.cc:118-257) leaves the addresses in
\* their regions.
LEMMA SameRequestsSound ==
    ASSUME NEW i \in Engine, NEW g, NEW h, SameRequests(g, h), RequestsSound(i, g)
    PROVE  RequestsSound(i, h)
BY DEF SameRequests, RequestsSound

\* A new reader starts at the beginning of its regions (g_reader.cc:57-66).
LEMMA NewRequestsSound ==
    ASSUME NEW i \in Engine, Len(col_idx[i]) > 0
    PROVE  RequestsSound(i, NewGraphReader(i))
<1>1. /\ NewGraphReader(i).next_v_addr = data_index[i].row_addr_start
      /\ NewGraphReader(i).next_e_addr = data_index[i].col_addr_start
      /\ NewGraphReader(i).next_val_addr = data_index[i].value_addr_start
  BY DEF NewGraphReader
<1>2. data_index[i].row_addr_start
          \in data_index[i].row_addr_start .. data_index[i].row_addr_end - 1
  BY RegionFacts
<1>3. data_index[i].col_addr_start
          \in data_index[i].col_addr_start .. data_index[i].col_addr_end - 1
  BY RegionFacts
<1>4. data_index[i].value_addr_start - data_index[i].value_addr_start
          = data_index[i].col_addr_start - data_index[i].col_addr_start
  BY RegionFacts
<1> QED
  BY <1>1, <1>2, <1>3, <1>4 DEF RequestsSound

\* VertexRequest (g_reader.cc:78-92) stays in the region of row pointers.
LEMMA VertexRequestedSound ==
    ASSUME NEW i \in Engine, NEW g \in GraphReaderType, Len(col_idx[i]) > 0,
           RequestsSound(i, g)
    PROVE  RequestsSound(i, VertexRequested(i, g))
<1> DEFINE d == data_index[i]
           h == VertexRequested(i, g)
<1>1. h.next_v_addr = IF g.next_v_addr + 1 = d.row_addr_end
                      THEN d.row_addr_start ELSE g.next_v_addr + 1
  BY DEF VertexRequested, GraphReaderType
<1>2. h.next_e_addr = g.next_e_addr /\ h.next_val_addr = g.next_val_addr
  BY DEF VertexRequested, GraphReaderType
<1>3. /\ d.row_addr_start \in Nat /\ d.row_addr_end \in Nat
      /\ d.row_addr_start < d.row_addr_end
  BY RegionFacts
<1>4. g.next_v_addr \in d.row_addr_start .. d.row_addr_end - 1
  BY DEF RequestsSound
<1>5. h.next_v_addr \in d.row_addr_start .. d.row_addr_end - 1
  BY <1>1, <1>3, <1>4, NextAddress
<1> QED
  BY <1>2, <1>5 DEF RequestsSound

\* EdgeRequest (g_reader.cc:94-116) stays in the regions of columns and values.
LEMMA EdgeRequestedSound ==
    ASSUME NEW i \in Engine, NEW g \in GraphReaderType, Len(col_idx[i]) > 0,
           RequestsSound(i, g)
    PROVE  RequestsSound(i, EdgeRequested(i, g))
<1> DEFINE d == data_index[i]
           h == EdgeRequested(i, g)
           a == g.next_e_addr
           v == g.next_val_addr
           wrap == a + 1 = d.col_addr_end
<1>1. /\ h.next_v_addr = g.next_v_addr
      /\ h.next_e_addr = IF wrap THEN d.col_addr_start ELSE a + 1
      /\ h.next_val_addr =
            IF gnn_mode # "GCN" THEN v
            ELSE IF wrap THEN d.value_addr_start ELSE v + 1
  BY DEF EdgeRequested, GraphReaderType
<1>2. /\ d.col_addr_start \in Nat /\ d.col_addr_end \in Nat
      /\ d.value_addr_start \in Nat /\ d.col_addr_start < d.col_addr_end
  BY RegionFacts
<1>3. a \in Nat /\ v \in Nat
  BY DEF GraphReaderType
<1>4. /\ g.next_v_addr \in d.row_addr_start .. d.row_addr_end - 1
      /\ a \in d.col_addr_start .. d.col_addr_end - 1
      /\ gnn_mode = "GCN" => v - d.value_addr_start = a - d.col_addr_start
  BY DEF RequestsSound
<1>5. h.next_e_addr \in d.col_addr_start .. d.col_addr_end - 1
  BY <1>1, <1>2, <1>4, NextAddress
<1>6. ASSUME gnn_mode = "GCN"
      PROVE  h.next_val_addr - d.value_addr_start = h.next_e_addr - d.col_addr_start
  <2>1. CASE wrap
    BY <1>1, <1>2, <1>6, <2>1
  <2>2. CASE ~wrap
    <3>1. h.next_val_addr = v + 1 /\ h.next_e_addr = a + 1
      BY <1>1, <1>6, <2>2
    <3>2. v - d.value_addr_start = a - d.col_addr_start
      BY <1>4, <1>6
    <3> DEFINE x == d.value_addr_start
               y == d.col_addr_start
    <3>3. v \in Nat /\ a \in Nat /\ x \in Nat /\ y \in Nat /\ v - x = a - y
      BY <1>2, <1>3, <3>2
    <3> HIDE DEF a, v, x, y
    <3>4. (v + 1) - x = (a + 1) - y
      BY <3>3
    <3> QED
      BY <3>1, <3>4 DEF x, y
  <2> QED
    BY <2>1, <2>2
<1> QED
  BY <1>1, <1>4, <1>5, <1>6 DEF RequestsSound

-----------------------------------------------------------------------------
(* Both together, call by call. *)

\* A reader that is sound and requests in its regions.
Coherent(i, g) == g \in GraphReaderType /\ ReaderSound(i, g) /\ RequestsSound(i, g)

\* The constructor (g_reader.cc:13-74).
LEMMA CoherentNew ==
    ASSUME NEW i \in Engine, Len(col_idx[i]) > 0
    PROVE  Coherent(i, NewGraphReader(i))
BY NewSound, NewRequestsSound DEF Coherent

\* VertexRequest and EdgeRequest (g_reader.cc:78-116).
LEMMA CoherentRequested ==
    ASSUME NEW i \in Engine, NEW g, Len(col_idx[i]) > 0, Coherent(i, g)
    PROVE  Coherent(i, VertexRequested(i, g)) /\ Coherent(i, EdgeRequested(i, g))
<1>1. g \in GraphReaderType /\ ReaderSound(i, g) /\ RequestsSound(i, g)
  BY DEF Coherent
<1>2. Coherent(i, VertexRequested(i, g))
  BY <1>1, VertexRequestSame, SameCursorsSound, VertexRequestedSound DEF Coherent
<1>3. Coherent(i, EdgeRequested(i, g))
  BY <1>1, EdgeRequestSame, SameCursorsSound, EdgeRequestedSound DEF Coherent
<1> QED
  BY <1>2, <1>3

\* The flags that GraphReceive and NextFeature set.
LEMMA CoherentFlags ==
    ASSUME NEW i \in Engine, NEW g, Coherent(i, g)
    PROVE  Coherent(i, ReceiveOver(g)) /\ Coherent(i, PassOver(g))
<1>1. g \in GraphReaderType /\ ReaderSound(i, g) /\ RequestsSound(i, g)
  BY DEF Coherent
<1>2. /\ ReceiveOver(g) \in GraphReaderType /\ PassOver(g) \in GraphReaderType
      /\ ReaderSound(i, ReceiveOver(g)) /\ ReaderSound(i, PassOver(g))
  BY <1>1, FlagSame, SameCursorsSound
<1>3. RequestsSound(i, ReceiveOver(g)) /\ RequestsSound(i, PassOver(g))
  BY <1>1, OthersRequestNothing, SameRequestsSound
<1> QED
  BY <1>2, <1>3 DEF Coherent

\* GraphReceive (g_reader.cc:118-176); values are received only in GCN.
LEMMA CoherentReceived ==
    ASSUME NEW i \in Engine, NEW g, Len(col_idx[i]) > 0, Coherent(i, g),
           NEW type \in {"Row", "Column", "Value", "Empty"},
           type = "Value" => gnn_mode = "GCN"
    PROVE  Coherent(i, GraphReceived(i, g, type))
<1>1. g \in GraphReaderType /\ ReaderSound(i, g) /\ RequestsSound(i, g)
  BY DEF Coherent
<1>2. CASE type = "Row"
  <2>1. Coherent(i, RowReceived(i, g))
    BY <1>1, RowReceivedSound, OthersRequestNothing, SameRequestsSound DEF Coherent
  <2> QED
    BY <1>2, <2>1, CoherentFlags DEF GraphReceived
<1>3. CASE type = "Column"
  <2>1. Coherent(i, ColumnReceived(i, g))
    BY <1>1, ColumnReceivedSound, OthersRequestNothing, SameRequestsSound DEF Coherent
  <2> QED
    BY <1>3, <2>1, CoherentFlags DEF GraphReceived
<1>4. CASE type = "Value"
  <2>1. Coherent(i, ValueReceived(i, g))
    BY <1>1, <1>4, ValueReceivedSound, OthersRequestNothing, SameRequestsSound
       DEF Coherent
  <2> QED
    BY <1>4, <2>1, CoherentFlags DEF GraphReceived
<1>5. CASE type = "Empty"
  BY <1>5, CoherentFlags DEF GraphReceived
<1> QED
  BY <1>2, <1>3, <1>4, <1>5

\* An iteration of NextFeature's loop (g_reader.cc:187-204).
LEMMA CoherentRow ==
    ASSUME NEW i \in Engine, NEW g, Len(col_idx[i]) > 0, Coherent(i, g),
           g.remain_edge = 0, g.cur_row_idx < g.row_end_idx \/ g.row_overflow > 0
    PROVE  /\ ~RowsExhausted(i, g) /\ Coherent(i, RowTaken(i, g))
           /\ RowTaken(i, g).pass_over = g.pass_over
           /\ AllPassed(i, RowTaken(i, g)) <=> AllPassed(i, g)
           /\ RowLoops(RowTaken(i, g)) =>
                 /\ RowTaken(i, g).remain_edge = 0
                 /\ \/ RowTaken(i, g).cur_row_idx < RowTaken(i, g).row_end_idx
                    \/ RowTaken(i, g).row_overflow > 0
<1>1. g \in GraphReaderType /\ ReaderSound(i, g) /\ RequestsSound(i, g)
  BY DEF Coherent
<1>2. RequestsSound(i, RowTaken(i, g))
  BY <1>1, OthersRequestNothing, SameRequestsSound
<1> QED
  BY <1>1, <1>2, RowTakenSound DEF Coherent, AllPassed

\* The edge that NextFeature returns (g_reader.cc:206-257) is one of the
\* engine's.
LEMMA CoherentEdge ==
    ASSUME NEW i \in Engine, NEW g, Len(col_idx[i]) > 0, Coherent(i, g),
           EdgeReady(g), ~AllPassed(i, g), NEW w, w = ColumnWrap(i, g)
    PROVE  /\ ~WrapEnds(i, g) /\ Coherent(i, EdgeTaken(w))
           /\ EdgeOf(i, w).id = i /\ EdgeOf(i, w).is_last \in BOOLEAN
           /\ \E k \in DOMAIN col_idx[i] : EdgeOf(i, w).dst = col_idx[i][k]
           /\ EdgeOf(i, w).v_fold \in 0 .. bf - 1
           /\ EdgeOf(i, w) \in [id : Engine, is_last : BOOLEAN, dst : Nat, v_fold : Nat]
<1>1. g \in GraphReaderType /\ ReaderSound(i, g) /\ RequestsSound(i, g)
  BY DEF Coherent
<1>2. /\ ~WrapEnds(i, g)
      /\ w \in GraphReaderType /\ ReaderSound(i, w) /\ EdgeReady(w)
      /\ w.cur_col_idx < Len(col_idx[i])
      /\ w.cur_col_idx + w.remain_edge = RowPtr(i, w.cur_row_idx - 1)
  BY <1>1, ColumnWrapSound
<1>3. EdgeTaken(w) \in GraphReaderType /\ ReaderSound(i, EdgeTaken(w))
  BY <1>2, EdgeTakenSound
<1>4. RequestsSound(i, EdgeTaken(w))
  <2>1. RequestsSound(i, w)
    BY <1>1, OthersRequestNothing, SameRequestsSound
  <2> QED
    BY <1>2, <2>1, OthersRequestNothing, SameRequestsSound
<1>5. w.cur_col_idx \in Nat /\ w.g_pass_count \in Nat /\ w.g_pass_count < bf
  BY <1>2 DEF GraphReaderType, ReaderSound
<1>6. w.cur_col_idx + 1 \in DOMAIN col_idx[i] /\ Len(col_idx[i]) \in Nat
  BY <1>2, <1>5, CsrAssumption
<1>7. ColIdx(i, w.cur_col_idx) \in Nat
  BY <1>2, <1>5, <1>6, ColIdxNat
<1>8. w.g_pass_count \in 0 .. bf - 1
  BY <1>5, BfAssumption
<1> QED
  BY <1>2, <1>3, <1>4, <1>5, <1>6, <1>7, <1>8 DEF Coherent, EdgeOf, ColIdx

=============================================================================
