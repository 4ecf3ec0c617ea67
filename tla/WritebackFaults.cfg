SPECIFICATION FairSpec
CONSTANTS
    Workers = {w1}
    Ids = {1, 2}
    Existing = {1}
    Actions = {"insert", "update", "delete"}
    Resolution = "last_writer_wins"
    ETags = TRUE
    Optimistic = TRUE
    CrashRecovery = TRUE
    Purges = TRUE
    Faults = {"breaker", "lookup_raises", "lookup_5xx", "write_lost", "lwstate_write", "crash", "lock_loss"}
    MaxFaults = 1
    MaxEdits = 3
PROPERTIES
    Delivered
