SPECIFICATION Spec
CONSTANTS
    Workers = {w1}
    Ids = {1}
    Existing = {}
    Actions = {"insert"}
    Resolution = "last_writer_wins"
    ETags = TRUE
    Optimistic = FALSE
    CrashRecovery = TRUE
    Purges = FALSE
    Faults = {"crash"}
    MaxFaults = 1
    MaxEdits = 1
INVARIANTS
    InsertedOnce
