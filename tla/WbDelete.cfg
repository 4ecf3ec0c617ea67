SPECIFICATION Spec
CONSTANTS
    Workers = {w1}
    Ids = {1}
    Existing = {1}
    Actions = {"delete"}
    Resolution = "skip_and_warn"
    ETags = TRUE
    Optimistic = FALSE
    CrashRecovery = TRUE
    Purges = FALSE
    Faults = {}
    MaxFaults = 1
    MaxEdits = 4
PROPERTIES
    NoBlindOverwrite
