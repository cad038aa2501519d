SPECIFICATION FairSpec
CONSTANTS
    a = a
    b = b
    NoCall = NoCall
    Calls = {a, b}
    Xids = {1, 2}
    XidOf <- DistinctXids
    Segmented = {b}
    Cancellable = {b}
    Deadlined = {}
    Droppable = {}
    Closing = FALSE
    Faulty = TRUE
    WriteLimited = FALSE
    MaxCalls = 2
PROPERTIES
    StoppedReturns
    ChargesReleased
    ReaderStops
CHECK_DEADLOCK FALSE
