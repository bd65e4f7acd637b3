SPECIFICATION FairSpec
CONSTANTS
    Engine <- MCEngine
    row_ptr <- MCRowPtr
    col_idx <- MCColIdx
    data_index <- MCDataIndex
    x_to_addr <- CompressedLines
    a_row_addr_start = 2
    a_col_addr_start = 4
    xw_ele_addr_start = 6
    axw_addr_start = 18
    CACHE_LINE_COUNT = 4
    cache_set = 1
    cache_way = 1
    bf = 2
    urb = 2
    total_urb = 4
    a_h = 3
    gnn_mode = "OTHER"
    mode = "X_CMP"
    REQUEST_LIMIT = 2
    FQ_LIMIT = 2
    MaxInFlight = 2
    WORD = 16
    davc_reads = 0
INVARIANTS
    TypeOK
    CacheConsistent
    OneRequestPerLine
    RowEndNeverFirst
    DoneAtExit
PROPERTIES
    WorkInOrder
    InferenceEnds
