SPECIFICATION FairSpec
CONSTANTS
    Engine <- MCEngine
    row_ptr <- MCRowPtr
    col_idx <- MCColIdx
    data_index <- MCDataIndex
    CACHE_LINE_COUNT = 2
    bf = 2
    gnn_mode = "GCN"
CHECK_DEADLOCK FALSE
INVARIANTS
    TypeOK
    NoEarlyEdge
    RequestsInRegion
    RequestsWithinBf
    NoStrandedAnswer
PROPERTIES
    EdgesInOrder
    StreamEnds
