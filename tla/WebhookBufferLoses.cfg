SPECIFICATION Spec
CONSTANTS
    Ports = {"health"}
    Handlers = {h1}
    Routes = {r1}
    Strategies = {"buffer"}
    Dedup = TRUE
    DeletionSets = {{}}
    FirstSequence = 0
    BufferSize = 2
    MaxEvents = 2
    MaxFaults = 0
INVARIANTS
    BufferedIsCovered
