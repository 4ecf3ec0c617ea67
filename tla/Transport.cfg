SPECIFICATION MCSpec
CONSTANTS
    Parts = {"breaker", "loops", "client", "tokens"}
    Tools = {"ingestion", "writeback"}
    Contended = TRUE
    Raises = TRUE
    RowsPerCycle = 2
    Cost = 2
    Base = 2
    Capacity = 4
    MaxRetries = 1
    MaxAttempts = 2
    Window = 3
    RetryAfter = {0, 2}
    MaxRequests = 1
    Tokens = {t1, t2, t3, t4}
    Flow = "refresh"
    Rotations = {FALSE}
    Exclusive = FALSE
    MaxFaults = 2
    Callers = {c1, c2}
    FailureThreshold = 3
    RecoveryTimeout = 1
    BackoffMultiplier = 2
    MaxRecoveryTimeout = 3
INVARIANTS
    ClosedIsFresh
    SustainedFailureOpens
    RateIsKept
PROPERTIES
    PauseIsServed
    OutageIsShed
    RecoveryIsUsed
    RequestsEnd
    RefusalsEnd
    RotationIsComplete
