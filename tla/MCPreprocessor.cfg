SPECIFICATION Spec
CONSTANTS
    CACHE_LINE_COUNT = 2
    HeaderBits = 2
    Inputs <- SmallInputs
CHECK_DEADLOCK FALSE
INVARIANTS
    GraphDealtOut
    LoopReady
    LinesUnshared
    WritesCounted
    ResultsFit
