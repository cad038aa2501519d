CONSTANTS
    a = a
    b = b
    c = c
    d = d
    Callers = {a, b, c, d}
    Charge <- Sums
    MaxCalls = 2
    MaxBytes = 4
    UsizeMax = 5
SPECIFICATION FairSpec
INVARIANTS
    ChargesExact
    RefusalHasHolder
    NoLostWakeup
PROPERTY
    WaiterAnswered
