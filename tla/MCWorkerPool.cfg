SPECIFICATION FairSpec
CONSTANTS
    Files <- MCFiles
    Workers = {w1, w2}
    Capacity = 4
INVARIANTS
    EachFileOnce
PROPERTY PoolReturns
CHECK_DEADLOCK FALSE
