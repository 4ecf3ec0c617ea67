SPECIFICATION Spec
CONSTANTS
    Workers = {w1}
    Ids = {1}
    Existing = {1}
    Actions = {"update"}
    Resolution = "last_writer_wins"
    ETags = TRUE
    Optimistic = FALSE
    CrashRecovery = TRUE
    Purges = FALSE
    Faults = {}
    MaxFaults = 0
    MaxEdits = 4
INVARIANTS
    ProcessedWereWritten
