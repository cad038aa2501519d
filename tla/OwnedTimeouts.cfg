SPECIFICATION Spec
CONSTANTS
    a = a
    b = b
    NoCall = NoCall
    Calls = {a, b}
    Xids = {1, 2}
    XidOf <- DistinctXids
    Segmented = {b}
    Cancellable = {}
    Deadlined = {b}
    Droppable = {a}
    Closing = TRUE
    Faulty = TRUE
    WriteLimited = TRUE
    MaxCalls = 2
INVARIANTS
    QuiescentReturn
    DecidedOutcome
    CapacityHeld
    WaitersHaveDeliverers
PROPERTIES
    NoFrameAfterTear
CHECK_DEADLOCK FALSE
