SPECIFICATION Spec
CONSTANTS
    CACHE_LINE_COUNT = 2
    HeaderBits = 2
    Inputs <- SparseInputs
CHECK_DEADLOCK FALSE
INVARIANTS
    AddressOrder
