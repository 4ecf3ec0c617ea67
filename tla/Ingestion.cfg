\* One instance, three records in pages of two, a stop; two instances and webhooks.
SPECIFICATION MCSpec
CONSTANTS
    Parts = {"full", "incremental", "concurrent"}
    Workers = {w}
    Records = 3
    MaxEdits = 3
    MaxStops = 1
    PageSize = 2
    Paging = "offset"
    SortedByCursor = FALSE
    Incremental = FALSE
    VerifyDeletion = TRUE
    Webhooks = FALSE
    Returns = TRUE
    Rejected = {5}
INVARIANTS
    OnlyReturnsAreEmpty
    WatermarkCovers
PROPERTIES
    TombstonedWasAbsent
    TwoTombstoneTheAbsent
    TableConverges
