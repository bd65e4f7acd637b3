------------------------------- MODULE Common ------------------------------
(***************************************************************************)
(* What the parts of the accelerator share (src/src/common.h): the sizes,  *)
(* the CSR of every engine, and where its arrays lie in memory, as the     *)
(* preprocessor leaves them.                                               *)
(*                                                                         *)
(* The CSR arrays are sequences; the source indexes them from 0, so        *)
(* RowPtr(i, k) is row_ptr[i][k] of the source.  Addresses count cache     *)
(* lines: every address of the source is a multiple of CACHE_LINE_BYTE.    *)
(***************************************************************************)
EXTENDS Integers, Sequences

CONSTANTS
    Engine,             \* the ids of the engines
    CACHE_LINE_COUNT,   \* array elements in a cache line (16 in common.h)
    bf,                 \* arch_info.bf: how often the graph is streamed
    gnn_mode,           \* arch_info.gnn_mode: "GCN" or "OTHER"
    row_ptr,            \* row_ptr[i]: row pointers of engine i
    col_idx,            \* col_idx[i]: column indices of engine i
    data_index          \* data_index[i]: where the arrays of engine i lie

RowPtr(i, k) == row_ptr[i][k + 1]
ColIdx(i, k) == col_idx[i][k + 1]

\* Cache lines that n array elements occupy.
Frag(n) == (n + CACHE_LINE_COUNT - 1) \div CACHE_LINE_COUNT

GraphFields == {"value_addr_start", "value_addr_end", "row_addr_start",
                "row_addr_end", "col_addr_start", "col_addr_end"}

ASSUME LineAssumption == CACHE_LINE_COUNT \in Nat /\ CACHE_LINE_COUNT >= 2

ASSUME BfAssumption == bf \in Nat /\ bf >= 1

ASSUME ModeAssumption == gnn_mode \in {"GCN", "OTHER"}

\* What LAC and Tiling produce: one CSR per engine.
ASSUME CsrAssumption ==
    /\ row_ptr \in [Engine -> Seq(Nat)]
    /\ col_idx \in [Engine -> Seq(Nat)]
    /\ \A i \in Engine :
        /\ Len(row_ptr[i]) >= 1
        /\ RowPtr(i, 0) = 0
        /\ RowPtr(i, Len(row_ptr[i]) - 1) = Len(col_idx[i])
        /\ \A j, k \in 0 .. Len(row_ptr[i]) - 1 :
                j <= k => RowPtr(i, j) <= RowPtr(i, k)

\* What AddressMapping produces: regions of exactly the arrays' sizes.
ASSUME IndexAssumption ==
    \A i \in Engine :
        /\ \A f \in GraphFields : data_index[i][f] \in Nat
        /\ data_index[i].value_addr_end
               = data_index[i].value_addr_start + Frag(Len(col_idx[i]))
        /\ data_index[i].row_addr_end
               = data_index[i].row_addr_start + Frag(Len(row_ptr[i]))
        /\ data_index[i].col_addr_end
               = data_index[i].col_addr_start + Frag(Len(col_idx[i]))

=============================================================================
