SPECIFICATION Spec
CONSTANTS
    Workers = {w}
    Records = 2
    MaxEdits = 2
    MaxStops = 0
    PageSize = 2
    Paging = "offset"
    SortedByCursor = FALSE
    Incremental = FALSE
    VerifyDeletion = TRUE
    Webhooks = FALSE
    Returns = TRUE
    Rejected = {}
INVARIANTS
    LiveRowsHaveData
