SPECIFICATION MCSpec
CONSTANTS
    Parts = {"order", "cycle"}
    OrderIds = {"1", "2"}
    NoValue = "None"
    Groups = {"g"}
    Joins = 1
    MaxRows = 3
    Width = 1
    Workers = {w1, w2}
    Ids = {1}
    Existing = {1}
    Actions = {"update"}
    Resolution = "last_writer_wins"
    ETags = TRUE
    Optimistic = FALSE
    CrashRecovery = TRUE
    Purges = FALSE
    Faults = {"breaker", "write_lost", "lwstate_write", "crash"}
    MaxFaults = 2
    MaxEdits = 4
INVARIANTS
    LwstateIsReal
    OrderIsTopological
PROPERTIES
    NoBlindOverwrite
    NewerNotOverwritten
