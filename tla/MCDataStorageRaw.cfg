SPECIFICATION Spec
CONSTANTS
    a = a
    b = b
    Values <- MCValues
    Sizes = {1}
    ChunkSize = 1
    MaxUnpacked = 2
    MaxChunks = 4
    Raw = TRUE
    Zero = a
    Gone = Gone
    CacheOpens = {TRUE}
INVARIANTS MemoryBounded
CHECK_DEADLOCK FALSE
