\* One pause through the API, and the writeback daemon's poller is first.
CHECK_DEADLOCK FALSE
SPECIFICATION MCSpec
CONSTANTS
    Parts = {"commands"}
    Ingesting = {"i"}
    Writing = {"w"}
    Datatypes = {"d"}
    Issues <- Untargeted
    Batch = 20
    MaxCommands = 1
    Rows = {r}
    Layout = "delta"
    MaxRetries = 2
    CycleRows = 1
    MaxEdits = 2
    MaxReplays = 1
    MaxFaults = 0
PROPERTIES
    PauseHolds
