SPECIFICATION MCSpec
CONSTANTS
    Parts = {"gate", "webhooks", "subscriptions", "files", "health"}
    Replicas = {r1}
    LoopsEach = 3
    PoolSizes = {3, 7}
    MaxDeaths = 1
    Handlers = {h}
    Ports = {"health"}
    Routes = {r}
    Strategies = {"latest", "notification", "buffer"}
    Dedup = TRUE
    DeletionSets = {{}, {2}}
    FirstSequence = 0
    BufferSize = 2
    MaxEvents = 3
    MaxFaults = 1
    Files = {1, 2}
    Names = {1, 2}
    Datatypes = {"d"}
    Distinct = TRUE
    Installed = {TRUE, FALSE}
    MaxEdits = 2
    MaxRestarts = 1
INVARIANTS
    QuietWhileStopped
    AckedIsCovered
    OneLoopPerDatatype
PROPERTIES
    BarrierIsReached
    LoopsWork
    NeverBackwards
    Converges
    LostAreReplaced
    NoticedIsKnown
    HealthFollows
