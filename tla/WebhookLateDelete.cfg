SPECIFICATION Spec
CONSTANTS
    Ports = {"health"}
    Handlers = {h1}
    Routes = {r1}
    Strategies = {"notification"}
    Dedup = TRUE
    DeletionSets = {{2}}
    FirstSequence = 0
    BufferSize = 2
    MaxEvents = 3
    MaxFaults = 0
PROPERTIES
    NotificationsInOrder
