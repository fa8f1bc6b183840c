SPECIFICATION FairSpec
CONSTANTS
    c1 = c1
    c2 = c2
    c3 = c3
    Callers = {c1, c2, c3}
    Size <- SizesSmall
    Flushers = {f1}
    MaxBatchSize = 2
    MaxQueueSize = 2
    MaxFailures = 2
    ByteLimited = TRUE
    MayClose = TRUE
CHECK_DEADLOCK FALSE
INVARIANTS
    TypeOK
    NothingLost
    FlushMeansSent
    PendingBounded
PROPERTIES
    ImplementsChannel
    WaitersReturn
