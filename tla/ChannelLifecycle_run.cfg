SPECIFICATION FairSpec
CONSTANTS
    N = 3
    Kinds = {"holder", "com", "virtual"}
CHECK_DEADLOCK FALSE
INVARIANTS
    TypeOK
    ServesLiveChannel
    FreedAfterThread
    DestroyedUnreferenced
PROPERTY
    ShutdownCompletes
