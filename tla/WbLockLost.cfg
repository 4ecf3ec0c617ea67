SPECIFICATION Spec
CONSTANTS
    Workers = {w1, w2}
    Ids = {1}
    Existing = {1}
    Actions = {"update"}
    Resolution = "last_writer_wins"
    ETags = TRUE
    Optimistic = FALSE
    CrashRecovery = TRUE
    Purges = FALSE
    Faults = {"lock_loss"}
    MaxFaults = 1
    MaxEdits = 4
PROPERTIES
    NewerNotOverwritten
