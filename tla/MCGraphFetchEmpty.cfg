SPECIFICATION Spec
CONSTANTS
    Engine <- EmptyEngine
    row_ptr <- EmptyRowPtr
    col_idx <- EmptyColIdx
    data_index <- EmptyDataIndex
    CACHE_LINE_COUNT = 16
    bf = 1
    gnn_mode = "GCN"
CHECK_DEADLOCK FALSE
INVARIANT
    RequestsWithinBf
