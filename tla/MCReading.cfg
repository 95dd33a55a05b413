SPECIFICATION MCSpec
CONSTANTS
    Size = 13
    BlockSize = 2
    BufSize = 3
    Positions = {0, 1, 2, 3, 5, 6, 8, 9, 12, 14}
    Counts = {1, 3, 4, 6, 9, 13}
    Book <- MCBook
    IndexRange = 6
    MaxFailures = 2
    MaxListed = 6
INVARIANTS NeverMissing ReadsFile LoadsOnlyMissing BlobsReadable CleanHasBlobs
CHECK_DEADLOCK FALSE
