SPECIFICATION Spec
CONSTANTS
    a = a
    b = b
    Values <- MCValues
    Sizes = {1, 3}
    ChunkSize = 2
    MaxUnpacked = 3
    MaxChunks = 2
    Raw = FALSE
    Zero = a
    Gone = Gone
    CacheOpens = {TRUE, FALSE}
INVARIANTS TypeOK NodesReadable
PROPERTIES RecentChunkStays
SYMMETRY MCSymmetry
CHECK_DEADLOCK FALSE
