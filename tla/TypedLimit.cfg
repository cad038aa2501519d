SPECIFICATION CallSpec
CONSTANTS
    Numbers <- MCNumbers
    IncludePaths <- MCIncludePaths
    Trees <- MCTrees
    Jobs <- MCLimitJobs
    MAX_AUTH_BYTES = 400
    MAX_SLICES = 2
    max_fragments = 6
    max_record_bytes = 40
    Chunks = {1, 3}
    Threads = {t1, t2, t3}
    Caller = t1
    MaxXid = 5
INVARIANT
    LimitRetires
CHECK_DEADLOCK FALSE
