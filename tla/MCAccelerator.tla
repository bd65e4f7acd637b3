---------------------------- MODULE MCAccelerator --------------------------
(***************************************************************************)
(* Three rows on two engines, as LAC deals them out with a width of 2:     *)
(* engine 0 has a row without edges and one with vertex 1, engine 1 has a  *)
(* row with vertices 0 and 1.                                              *)
(***************************************************************************)
EXTENDS Accelerator

MCEngine == {0, 1}
MCRowPtr == [i \in MCEngine |-> IF i = 0 THEN <<0, 0, 1>> ELSE <<0, 2>>]
MCColIdx == [i \in MCEngine |-> IF i = 0 THEN <<1>> ELSE <<0, 1>>]

\* Every array fits into one line: values in 0 and 1, row pointers in 2 and
\* 3, column indices in 4 and 5, features from 6 on.
MCDataIndex ==
    [i \in MCEngine |->
        [value_addr_start |-> i, value_addr_end |-> i + 1,
         row_addr_start |-> i + 2, row_addr_end |-> i + 3,
         col_addr_start |-> i + 4, col_addr_end |-> i + 5]]

\* X_CMP: two passes of two lines; the second line of vertex 0 is absent in
\* the first pass, that of vertex 1 in the second.
CompressedLines ==
    [v \in 0 .. 2 |-> <<6 + 2 * v, IF v = 0 THEN 0 ELSE 7 + 2 * v,
                       12 + 2 * v, IF v = 1 THEN 0 ELSE 13 + 2 * v>>]

\* MAT: a pass of two lines and one of one line.
ThreeLines == [v \in 0 .. 2 |-> <<6 + 2 * v, 7 + 2 * v, 12 + v>>]

\* CSR: the line of row pointers, then columns and values of each vertex; the
\* columns start in the line that the row pointers have not filled.
SparseLines == [v \in 0 .. 2 |-> <<6, 6 + v, 9 + v>>]

=============================================================================
