SPECIFICATION Spec
CONSTANTS
    Workers = {w1}
    Ids = {1}
    Existing = {1}
    Actions = {"update"}
    Resolution = "skip_and_warn"
    ETags = TRUE
    Optimistic = FALSE
    CrashRecovery = TRUE
    Purges = FALSE
    Faults = {"lookup_raises"}
    MaxFaults = 1
    MaxEdits = 4
PROPERTIES
    NoBlindOverwrite
