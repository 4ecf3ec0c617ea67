\* A drained daemon has nothing left to do, and commands are bounded.
CHECK_DEADLOCK FALSE
SPECIFICATION MCSpec
CONSTANTS
    Parts = {"commands", "parked", "requeue"}
    Ingesting = {"i"}
    Writing = {"w"}
    Datatypes = {"d"}
    Issues <- Targeted
    Batch = 2
    MaxCommands = 3
    Rows = {r}
    Layout = "delta"
    MaxRetries = 2
    CycleRows = 1
    MaxEdits = 2
    MaxReplays = 1
    MaxFaults = 1
INVARIANTS
    ParkedHasLetter
PROPERTIES
    QueueIsFollowed
    CommandsEnd
    FailuresAreParked
    RequeueHeals
