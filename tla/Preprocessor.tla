---------------------------- MODULE Preprocessor ---------------------------
(***************************************************************************)
(* Preprocessor::Preprocessor (src/src/preprocessor.cc): the graph and the *)
(* features read from the files become one CSR per engine, the lines of    *)
(* every vertex, the layout of the address space and the number of result  *)
(* lines to write, that is, the constants of the inference loop.           *)
(*                                                                         *)
(* An input is a graph, a feature matrix and the options.  Elements of the *)
(* matrix are 0 or 1, since the source only tells 0 from the rest.         *)
(* Addresses count cache lines, as in Common.                              *)
(***************************************************************************)
EXTENDS Integers, Sequences, FiniteSetsExt, SequencesExt

CONSTANTS
    CACHE_LINE_COUNT,   \* array elements in a cache line
    HeaderBits,         \* elements a header word tells about (32 in TransXW)
    Inputs              \* the inputs considered

VARIABLES
    at,                 \* the next step of the constructor
    in,                 \* the files and options
    arch_info, data_info,
    row_ptr, col_idx,   \* the CSR of every engine
    data_index,
    x_to_addr,
    total_write

vars == <<at, in, arch_info, data_info, row_ptr, col_idx, data_index,
          x_to_addr, total_write>>

-----------------------------------------------------------------------------
(* Helpers. *)

Ceil(n, d) == (n + d - 1) \div d

Upto(n) == 0 .. n - 1

\* Sum of f over 0 .. n - 1: where the n-th of consecutive blocks starts.
SumUpto(f(_), n) == MapThenSumSet(f, Upto(n))

\* The columns of row k of a CSR.
RowOf(rows, cols, k) == SubSeq(cols, rows[k + 1] + 1, rows[k + 2])

EmptyCsr == [rows |-> <<0>>, cols |-> <<>>]

AddRow(csr, row) == [rows |-> Append(csr.rows, Last(csr.rows) + Len(row)),
                     cols |-> csr.cols \o row]

Engines == Upto(arch_info.n_of_engine)

Vertices == Upto(data_info.x_h)

\* Mutant of Counted: a result has the lines of one pass.
CountedOnePass(index, rows) ==
    LET row  == Len(rows) - 1
        zero == Quantify(1 .. row, LAMBDA j : rows[j] = rows[j + 1])
    IN  [index EXCEPT !.row = row, !.zero_row = zero,
                      !.total_write = (row - zero) * arch_info.urb]

\* What LAC and Tiling note about the rows of an engine: a result has
\* total_urb lines, and a row without edges has no result.
Counted(index, rows) ==
    LET row  == Len(rows) - 1
        zero == Quantify(1 .. row, LAMBDA j : rows[j] = rows[j + 1])
    IN  [index EXCEPT !.row = row, !.zero_row = zero,
                      !.total_write = (row - zero) * data_info.total_urb]

-----------------------------------------------------------------------------
(* The steps of the constructor. *)

Init ==
    /\ in \in Inputs
    /\ at = "ReadData"
    /\ arch_info = [n_of_engine |-> in.n_of_engine, bf |-> in.bf, urb |-> 0,
                    lac_width |-> in.lac_width, a_row_addr_start |-> 0,
                    a_col_addr_start |-> 0, xw_ele_addr_start |-> 0,
                    axw_addr_start |-> 0]
    /\ data_info = [a_h |-> 0, x_h |-> 0, x_w |-> 0, total_urb |-> 0]
    /\ row_ptr = <<>> /\ col_idx = <<>>
    /\ data_index = <<>> /\ x_to_addr = <<>>
    /\ total_write = 0

ReadData ==
    /\ at = "ReadData"
    /\ at' = "LAC"
    /\ row_ptr' = [i \in {0} |-> in.a.rows]
    /\ col_idx' = [i \in {0} |-> in.a.cols]
    /\ LET h == Len(in.a.rows) - 1
           w == Len(in.xw[1])
       IN  /\ data_info' = [a_h |-> h, x_h |-> h, x_w |-> w,
                            total_urb |-> Ceil(w, CACHE_LINE_COUNT)]
           /\ arch_info' = [arch_info EXCEPT
                               !.urb = Ceil(w, arch_info.bf * CACHE_LINE_COUNT)]
    /\ data_index' = [i \in Engines |->
                         [f \in {"row", "zero_row", "total_write",
                                 "value_addr_start", "value_addr_end",
                                 "row_addr_start", "row_addr_end",
                                 "col_addr_start", "col_addr_end"} |-> 0]]
    /\ UNCHANGED <<in, x_to_addr, total_write>>

\* Mutant of LacWidth: the blocks are not shared out among the engines.
LacWidthWhole ==
    IF in.lac_width <= 0 THEN Ceil(data_info.a_h, in.n_tiles) ELSE in.lac_width

\* -1 asks for one block of rows per engine, 0 for one per engine and tile.
LacWidth ==
    CASE in.lac_width = -1 -> Ceil(data_info.a_h, arch_info.n_of_engine)
      [] in.lac_width = 0  -> Ceil(data_info.a_h,
                                   in.n_tiles * arch_info.n_of_engine)
      [] OTHER             -> in.lac_width

\* The engine that row k of the graph goes to.
LacEngine(k) == (k \div LacWidth) % arch_info.n_of_engine

LAC ==
    LET deal(csrs, k) ==
            [csrs EXCEPT ![LacEngine(k)] =
                             AddRow(@, RowOf(row_ptr[0], col_idx[0], k))]
        csr == FoldLeft(deal, [i \in Engines |-> EmptyCsr],
                        [k \in 1 .. Len(row_ptr[0]) - 1 |-> k - 1])
    IN  /\ at = "LAC"
        /\ at' = "Tiling"
        /\ arch_info' = [arch_info EXCEPT !.lac_width = LacWidth]
        /\ row_ptr' = [i \in Engines |-> csr[i].rows]
        /\ col_idx' = [i \in Engines |-> csr[i].cols]
        /\ data_index' = [i \in Engines |->
                             Counted(data_index[i], row_ptr'[i])]
        /\ UNCHANGED <<in, data_info, x_to_addr, total_write>>

\* Columns of a tile.
UnitV == Ceil(data_info.a_h, in.n_tiles)

\* Mutant of InTile: the bounds as the comment in Tiling has them, by which
\* the first UnitV columns are in no tile.
InTileBetween(col, l) == l + 1 <= col \div UnitV /\ col \div UnitV < l + 2

\* Tile l is the first one whose bound the column's unit is below.
InTile(col, l) ==
    /\ col \div UnitV < l + 1
    /\ \A m \in Upto(l) : ~(col \div UnitV < m + 1)

\* The rows of an engine, cut to the columns of one tile after the other.
TiledRows(i) ==
    LET R == Len(row_ptr[i]) - 1
    IN  [n \in 1 .. in.n_tiles * R |->
            SelectSeq(RowOf(row_ptr[i], col_idx[i], (n - 1) % R),
                      LAMBDA col : InTile(col, (n - 1) \div R))]

Tiling ==
    /\ at = "Tiling"
    /\ at' = "TransXW"
    /\ IF in.n_tiles > 1
       THEN LET csr == [i \in Engines |->
                            FoldLeft(AddRow, EmptyCsr, TiledRows(i))]
            IN  /\ row_ptr' = [i \in Engines |-> csr[i].rows]
                /\ col_idx' = [i \in Engines |-> csr[i].cols]
                /\ data_index' = [i \in Engines |->
                                     Counted(data_index[i], row_ptr'[i])]
       ELSE UNCHANGED <<row_ptr, col_idx, data_index>>
    /\ UNCHANGED <<in, arch_info, data_info, x_to_addr, total_write>>

-----------------------------------------------------------------------------
(* TransXW marks the lines of every vertex, by mode. *)

\* Elements of vertex v with an index in S that are not zero.
NonZero(v, S) == Quantify(S, LAMBDA j : in.xw[v + 1][j + 1] # 0)

\* Words of the header that tells which of n elements are not zero.
Header(n) == Ceil(n, HeaderBits)

\* X_CMP: what pass p compresses.  Element 0 is not counted.
PassElements(p) ==
    {j \in 1 .. data_info.x_w - 1 : j \div in.x_unit = p}

\* Mutant of CompressedMarks: the header takes no room.
CompressedMarksNoHeader(v, bf, urb) ==
    [n \in 1 .. bf * urb |->
        LET count == NonZero(v, PassElements((n - 1) \div urb))
        IN  IF count > ((n - 1) % urb) * CACHE_LINE_COUNT THEN 1 ELSE 0]

\* X_CMP: line n of a vertex is there if the header and the elements of its
\* pass reach it.
CompressedMarks(v, bf, urb) ==
    [n \in 1 .. bf * urb |->
        LET p     == (n - 1) \div urb
            count == Header(in.x_unit) + NonZero(v, PassElements(p))
        IN  IF count > ((n - 1) % urb) * CACHE_LINE_COUNT THEN 1 ELSE 0]

Ones(n) == [k \in 1 .. n |-> 1]

\* The other modes.  In CSR the last entry is the number of elements, which
\* AddressMapping takes away again.
PlainMarks(v) ==
    LET all == NonZero(v, Upto(data_info.x_w))
    IN  CASE in.mode = "MAT" -> Ones(Ceil(data_info.x_w, CACHE_LINE_COUNT))
          [] in.mode = "CSR" ->
                Append(Ones(1 + 2 * Ceil(all, CACHE_LINE_COUNT)), all)
          [] in.mode = "X_FULL_CMP" ->
                Ones(1 + Ceil(Header(data_info.x_w) + all, CACHE_LINE_COUNT))

TransXW ==
    /\ at = "TransXW"
    /\ at' = "AddressMapping"
    /\ \/ /\ in.mode = "X_CMP"
          /\ LET urb == Ceil(in.x_unit, CACHE_LINE_COUNT)
                 bf  == Ceil(data_info.x_w, in.x_unit)
             IN  /\ arch_info' = [arch_info EXCEPT !.urb = urb, !.bf = bf]
                 /\ data_info' = [data_info EXCEPT !.total_urb = bf * urb]
                 /\ x_to_addr' = [v \in Vertices |->
                                     CompressedMarks(v, bf, urb)]
          /\ data_index' =
                [i \in Engines |->
                    [data_index[i] EXCEPT !.total_write =
                        (Len(row_ptr[i]) - 1 - data_index[i].zero_row)
                            * data_info'.total_urb]]
       \/ /\ in.mode # "X_CMP"
          /\ x_to_addr' = [v \in Vertices |-> PlainMarks(v)]
          /\ UNCHANGED <<arch_info, data_info, data_index>>
    /\ UNCHANGED <<in, row_ptr, col_idx, total_write>>

-----------------------------------------------------------------------------
(* AddressMapping. *)

RowFrag(i) == Ceil(Len(row_ptr[i]), CACHE_LINE_COUNT)

ColFrag(i) == Ceil(Len(col_idx[i]), CACHE_LINE_COUNT)

\* Where the regions start: values, row pointers, columns, features.
RowStart == SumUpto(ColFrag, arch_info.n_of_engine)
ColStart == RowStart + SumUpto(RowFrag, arch_info.n_of_engine)
XwStart  == ColStart + SumUpto(ColFrag, arch_info.n_of_engine)

Placed(i) ==
    [data_index[i] EXCEPT
        !.value_addr_start = SumUpto(ColFrag, i),
        !.value_addr_end   = SumUpto(ColFrag, i + 1),
        !.row_addr_start   = RowStart + SumUpto(RowFrag, i),
        !.row_addr_end     = RowStart + SumUpto(RowFrag, i + 1),
        !.col_addr_start   = ColStart + SumUpto(ColFrag, i),
        !.col_addr_end     = ColStart + SumUpto(ColFrag, i + 1)]

\* X_CMP and MAT: the lines of pass p of all vertices lie together; a pass
\* is cut short where the lines of a vertex end.
PassWidth(p) == Min({arch_info.urb, data_info.total_urb - p * arch_info.urb})

\* Mutant of PassStart: room for one vertex.
PassStartNarrow(p) == XwStart + SumUpto(PassWidth, p)

PassStart(p) == XwStart + data_info.x_h * SumUpto(PassWidth, p)

DenseLines(v) ==
    [n \in DOMAIN x_to_addr[v] |->
        LET p == (n - 1) \div arch_info.urb
        IN  IF x_to_addr[v][n] = 1
            THEN PassStart(p) + v * PassWidth(p) + ((n - 1) % arch_info.urb)
            ELSE 0]

\* CSR: row pointers, columns and values each lie together.  After a vertex
\* whose elements do not fill their last line the next one steps back to it.
Blocks(v) == (Len(x_to_addr[v]) - 2) \div 2

Elements(v) == Last(x_to_addr[v])

Advance(v) ==
    Blocks(v)
        - IF (SumUpto(Elements, v + 1) % CACHE_LINE_COUNT) # 0 THEN 1 ELSE 0

SparseCols == XwStart + data_info.x_h \div CACHE_LINE_COUNT

SparseValues == SparseCols + SumUpto(Advance, data_info.x_h)

SparseLines(v) ==
    [n \in 1 .. Len(x_to_addr[v]) - 1 |->
        CASE n = 1     -> XwStart + v \div CACHE_LINE_COUNT
          [] n % 2 = 0 -> SparseCols + SumUpto(Advance, v) + n \div 2 - 1
          [] OTHER     -> SparseValues + SumUpto(Advance, v) + n \div 2 - 1]

\* X_FULL_CMP: first the headers are laid out, then all lines again.
HeadersPerLine == CACHE_LINE_COUNT \div Header(data_info.x_w)

FullStart == XwStart + data_info.x_h \div HeadersPerLine

LineCount(v) == Len(x_to_addr[v])

FullLines(v) ==
    [n \in DOMAIN x_to_addr[v] |-> FullStart + SumUpto(LineCount, v) + n - 1]

FeatureLines(v) == CASE in.mode \in {"X_CMP", "MAT"} -> DenseLines(v)
                     [] in.mode = "CSR"              -> SparseLines(v)
                     [] in.mode = "X_FULL_CMP"       -> FullLines(v)

FeatureEnd ==
    CASE in.mode \in {"X_CMP", "MAT"} -> PassStart(arch_info.bf)
      [] in.mode = "CSR"              -> SparseValues
                                             + SumUpto(Advance, data_info.x_h)
      [] in.mode = "X_FULL_CMP"       -> FullStart
                                             + SumUpto(LineCount, data_info.x_h)

\* The code has no defined outcome: a pass that starts beyond the lines of a
\* vertex misses the test for their end, and a header that needs more than a
\* line makes it divide by 0.
Undefined ==
    \/ /\ in.mode \in {"X_CMP", "MAT"}
       /\ (arch_info.bf - 1) * arch_info.urb > data_info.total_urb
    \/ in.mode = "X_FULL_CMP" /\ HeadersPerLine = 0

AddressMapping ==
    /\ at = "AddressMapping"
    /\ ~Undefined
    /\ at' = "Sum"
    /\ data_index' = [i \in Engines |-> Placed(i)]
    /\ x_to_addr' = [v \in Vertices |-> FeatureLines(v)]
    /\ arch_info' = [arch_info EXCEPT !.a_row_addr_start = RowStart,
                                      !.a_col_addr_start = ColStart,
                                      !.xw_ele_addr_start = XwStart,
                                      !.axw_addr_start = FeatureEnd]
    /\ UNCHANGED <<in, data_info, row_ptr, col_idx, total_write>>

AddressMappingFails ==
    /\ at = "AddressMapping"
    /\ Undefined
    /\ at' = "undefined"
    /\ UNCHANGED <<in, arch_info, data_info, row_ptr, col_idx, data_index,
                   x_to_addr, total_write>>

\* The end of the constructor.
SumWrites ==
    /\ at = "Sum"
    /\ at' = "done"
    /\ total_write' = total_write
           + SumUpto(LAMBDA i : data_index[i].total_write,
                     arch_info.n_of_engine)
    /\ UNCHANGED <<in, arch_info, data_info, row_ptr, col_idx, data_index,
                   x_to_addr>>

Next ==
    \/ ReadData \/ LAC \/ Tiling \/ TransXW
    \/ AddressMapping \/ AddressMappingFails \/ SumWrites

Spec == Init /\ [][Next]_vars

-----------------------------------------------------------------------------
(* Properties. *)

\* Row k of engine i, in the order of the blocks dealt out, is this row of
\* the graph.
Origin(i, k) ==
    LET w == arch_info.lac_width
    IN  (k \div w) * w * arch_info.n_of_engine + i * w + (k % w)

\* LAC and Tiling deal out the graph without loss: with R rows of its own, an
\* engine has row l * R + k for tile l of its row k, which is exactly the part
\* of one row of the graph whose columns lie in tile l; all rows and all edges
\* are there (preprocessor.cc:243-251 and 318-350).  Tile l has the columns of
\* unit l, one unit before the one that the comment at preprocessor.cc:316 gives.
GraphDealtOut ==
    at = "TransXW" =>
        LET R(i) == (Len(row_ptr[i]) - 1) \div in.n_tiles
            tile(l) == l * UnitV .. (l + 1) * UnitV - 1
        IN  /\ SumUpto(R, arch_info.n_of_engine) = data_info.a_h
            /\ SumUpto(LAMBDA i : Len(col_idx[i]), arch_info.n_of_engine)
                   = Len(in.a.cols)
            /\ \A i \in Engines :
                /\ Len(row_ptr[i]) - 1 = in.n_tiles * R(i)
                /\ \A k \in Upto(R(i)), l \in Upto(in.n_tiles) :
                    /\ Origin(i, k) < data_info.a_h
                    /\ RowOf(row_ptr[i], col_idx[i], l * R(i) + k)
                         = SelectSeq(RowOf(in.a.rows, in.a.cols, Origin(i, k)),
                                     LAMBDA col : col \in tile(l))

\* The constants of the inference loop.
Loop == INSTANCE AddressMap WITH
    Engine <- Engines, bf <- arch_info.bf, gnn_mode <- "GCN",
    a_row_addr_start <- arch_info.a_row_addr_start,
    a_col_addr_start <- arch_info.a_col_addr_start,
    xw_ele_addr_start <- arch_info.xw_ele_addr_start,
    axw_addr_start <- arch_info.axw_addr_start,
    mode <- in.mode, urb <- arch_info.urb, total_urb <- data_info.total_urb

\* If no pass lies beyond the features (preprocessor.cc:516 would miss their
\* end) and in CSR each vertex has a feature, the constructor finishes with
\* what the models of the inference loop assume of their constants: CSRs,
\* disjoint regions in order, feature lines in theirs, and passes and lines
\* of the expected shape (preprocessor.cc:212-580).  The inputs of
\* MCPreprocessor are chosen accordingly.
LoopReady ==
    at = "done" =>
        /\ Loop!CsrAssumption /\ Loop!IndexAssumption /\ Loop!LayoutAssumption
        /\ Loop!FeatureAssumption /\ Loop!PassAssumption
        /\ Loop!LineCountAssumption

\* Outside CSR no two lines of vertices, nor a line and a result, share an
\* address (preprocessor.cc:510-524 and 558-571).
LinesUnshared ==
    at = "done" /\ in.mode # "CSR" =>
        LET places == UNION {{<<v, n>> : n \in DOMAIN x_to_addr[v]} :
                                v \in Vertices}
            line(p) == x_to_addr[p[1]][p[2]]
        IN  \A p \in places : line(p) # 0 =>
                /\ line(p) < arch_info.axw_addr_start
                /\ \A q \in places : p # q => line(p) # line(q)

\* total_write, which LAC and Tiling compute before TransXW changes the width
\* of a result, counts total_urb lines per row with an edge (preprocessor.cc:
\* 264, 368, 398 and 424).
WritesCounted ==
    at = "done" =>
        total_write = data_info.total_urb
            * SumUpto(LAMBDA i : Quantify(1 .. Len(row_ptr[i]) - 1,
                          LAMBDA r : row_ptr[i][r] # row_ptr[i][r + 1]),
                      arch_info.n_of_engine)

\* With one tile and the width left to LAC, the results of an engine fit into
\* the even share of the rows that the SIMD unit reserves (preprocessor.cc:
\* 215-218 and simd.cc:22).
ResultsFit ==
    at = "done" /\ in.n_tiles = 1 /\ in.lac_width \in {-1, 0} =>
        \A i \in Engines :
            data_index[i].row - data_index[i].zero_row
                <= Ceil(data_info.a_h, arch_info.n_of_engine)

\* "Address order: value -> row -> column -> xw (non-frag) -> xw (frag) -> axw"
\* (preprocessor.cc:470), here for the feature lines.
AddressOrder ==
    at = "done" =>
        \A v \in Vertices : \A n \in DOMAIN x_to_addr[v] :
            x_to_addr[v][n] # 0 =>
                /\ arch_info.xw_ele_addr_start <= x_to_addr[v][n]
                /\ x_to_addr[v][n] < arch_info.axw_addr_start

=============================================================================
