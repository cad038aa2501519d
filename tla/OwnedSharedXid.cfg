SPECIFICATION Spec
CONSTANTS
    a = a
    b = b
    NoCall = NoCall
    Calls = {a, b}
    Xids = {1}
    XidOf <- SharedXid
    Segmented = {a}
    Cancellable = {a}
    Deadlined = {}
    Droppable = {a, b}
    Closing = TRUE
    Faulty = FALSE
    WriteLimited = TRUE
    MaxCalls = 2
INVARIANTS
    RegistryOwnership
    IdleReaderSeesSenders
    HealthyStaysOpen
PROPERTIES
    ImplementsContract
CHECK_DEADLOCK FALSE
