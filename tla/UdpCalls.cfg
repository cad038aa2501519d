CONSTANTS
    a = a
    b = b
    c = c
    x = x
    y = y
    NoCall = NoCall
    Calls = {a, b, c}
    Xids = {x, y}
    XidOf <- ReusedXid
    Cancellable = {b}
    Deadlined = {a}
    Droppable = {c}
    WriteLimited = TRUE
SPECIFICATION UdpFairSpec
INVARIANTS
    NoStaleEntry
    SenderNotLost
    ReplyMatches
PROPERTY
    FailureReachesPending
CHECK_DEADLOCK FALSE
