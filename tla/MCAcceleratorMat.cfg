SPECIFICATION Spec
CONSTANTS
    Engine <- MCEngine
    row_ptr <- MCRowPtr
    col_idx <- MCColIdx
    data_index <- MCDataIndex
    x_to_addr <- ThreeLines
    a_row_addr_start = 2
    a_col_addr_start = 4
    xw_ele_addr_start = 6
    axw_addr_start = 15
    CACHE_LINE_COUNT = 4
    cache_set = 2
    cache_way = 2
    bf = 2
    urb = 2
    total_urb = 3
    a_h = 3
    gnn_mode = "GCN"
    mode = "MAT"
    REQUEST_LIMIT = 1
    FQ_LIMIT = 2
    MaxInFlight = 2
    WORD = 16
    davc_reads = 0
INVARIANTS
    CacheConsistent
    QueuesBounded
    RowsConserved
    WritesConserved
PROPERTY
    WorkInOrder
