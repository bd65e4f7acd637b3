SPECIFICATION MCFairSpec
CONSTANTS
    p1 = p1
    p2 = p2
    p3 = p3
    Process <- MCProcess
    Writes = 3
INVARIANTS
    TypeOK
    RowsComplete
    LockReleased
PROPERTY
    AllFinish
