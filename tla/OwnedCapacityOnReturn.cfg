SPECIFICATION Spec
CONSTANTS
    a = a
    b = b
    NoCall = NoCall
    Calls = {a, b}
    Xids = {1, 2}
    XidOf <- DistinctXids
    Segmented = {b}
    Cancellable = {}
    Deadlined = {}
    Droppable = {}
    Closing = FALSE
    Faulty = FALSE
    WriteLimited = FALSE
    MaxCalls = 2
INVARIANTS
    CapacityReleasedOnReturn
CHECK_DEADLOCK FALSE
