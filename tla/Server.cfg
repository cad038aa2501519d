\* One or two permits and threads.  p2 may stop reading, the dispatch of its request
\* may never return, and the dispatch of b may panic.
SPECIFICATION FairSpec
CONSTANTS
    p1 = p1
    p2 = p2
    a = a
    b = b
    c = c
    Listener = Listener
    Peers <- MCPeers
    Requests <- MCRequests
    From <- MCFrom
    Stream <- MCStream
    Shapings <- MCShapings
    WorkerCounts = {0, 2}
    ThreadCounts = {1, 2}
    Stalling = {p2}
    Hanging = {c}
    Panicking = {b}
INVARIANTS
    PermitsExact
    FramesWhole
    RequestsAccounted
PROPERTIES
    HealthyServed
    ShutdownCompletes
CHECK_DEADLOCK FALSE
