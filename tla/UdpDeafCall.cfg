CONSTANTS
    a = a
    b = b
    c = c
    x = x
    y = y
    NoCall = NoCall
    Calls = {a, b, c}
    Xids = {x, y}
    XidOf <- ReusedXid
    Cancellable = {b}
    Deadlined = {a}
    Droppable = {c}
    WriteLimited = TRUE
SPECIFICATION UdpSpec
INVARIANT
    WaitingCallIsHeard
CHECK_DEADLOCK FALSE
