SPECIFICATION FairSpec
CONSTANTS
    Rows = {r1, r2}
    Unused = Unused
    Deleted = Deleted
    MaxRequests = 2
    MaxKills = 1
    MaxAbandoned = 1
INVARIANTS
    TypeOK
    NoDuplicateRow
    NothingQueuedIsLost
    ReplayInOrder
PROPERTIES
    EveryQueuedRequestRuns
CHECK_DEADLOCK FALSE
