SPECIFICATION Spec
CONSTANTS
    Workers = {w1, w2}
    Records = 2
    MaxEdits = 0
    MaxStops = 0
    PageSize = 2
    Paging = "offset"
    SortedByCursor = FALSE
    Incremental = FALSE
    VerifyDeletion = TRUE
    Webhooks = FALSE
    Returns = FALSE
    Rejected = {}
INVARIANTS
    MutualExclusion
