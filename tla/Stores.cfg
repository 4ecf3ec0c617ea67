\* Resumed, windowed and exported listings; two housekeeping loops with two old
\* rows and a crash; two requests to the simulator and a restart.
SPECIFICATION MCSpec
CONSTANTS
    Parts = {"resuming", "windowed", "exporting", "upkeep", "simulator"}
    Ids = {1, 2, 3}
    Start = 8
    Horizon = 11
    Window = 0
    CheckpointEvery = 2
    PageSize = 1
    Textual = TRUE
    Bulk = FALSE
    MaxPolls = 2
    MaxMishaps = 2
    Jobs <- Loops
    Pairs <- Orders
    Absent = {}
    Filled <- Tables
    People = {"person"}
    Keep <- HalfADay
    Pinning = TRUE
    MaxRows = 2
    Engines = {"engine"}
    Editors = {"user"}
    Fields = {"name", "note"}
    Seeds = {1}
    PostedIds = {}
    HookedOps = {"create"}
    AtomicStores = {"sqlite"}
    Backends = {"memory", "sqlite", "postgres"}
    QueueSize = 1
    MaxCalls = 2
    MaxRestarts = 1
INVARIANTS
    PassedIsStored
    WalkSeesAll
    PublishedIsLog
PROPERTIES
    ListingsCatchUp
    ExpiredGo
    StoreIsAtomic
