\* No crash: an empty window is listed again and again.
SPECIFICATION FairSpec
CONSTANTS
    Ids = {1, 2, 3}
    Start = 8
    Horizon = 12
    Window = 2
    CheckpointEvery = 0
    PageSize = 1
    Textual = FALSE
    Bulk = FALSE
    MaxPolls = 1
    MaxMishaps = 0
PROPERTIES
    CatchesUp
