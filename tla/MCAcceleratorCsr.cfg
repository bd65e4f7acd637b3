SPECIFICATION FairSpec
CONSTANTS
    Engine <- MCEngine
    row_ptr <- MCRowPtr
    col_idx <- MCColIdx
    data_index <- MCDataIndex
    x_to_addr <- SparseLines
    a_row_addr_start = 2
    a_col_addr_start = 4
    xw_ele_addr_start = 6
    axw_addr_start = 12
    CACHE_LINE_COUNT = 4
    cache_set = 1
    cache_way = 1
    bf = 2
    urb = 1
    total_urb = 2
    a_h = 3
    gnn_mode = "OTHER"
    mode = "CSR"
    REQUEST_LIMIT = 2
    FQ_LIMIT = 2
    MaxInFlight = 2
    WORD = 16
    davc_reads = 2
INVARIANTS
    RequestsWaitedFor
PROPERTIES
    WorkInOrder
    InferenceEnds
