SPECIFICATION Spec
CONSTANTS
    k1 = k1
    k2 = k2
    small = small
    big = big
    Keys = {k1, k2}
    Data = {small, big}
    SizeOf <- MCSizeOf
    Sector = 4
    IndexSlack = 2
    MaxSectors = 6
    Index = "index"
    Free = "free"
    Nothing = Nothing
    Pad = Pad
    Compressed = TRUE
    Validation = TRUE
    MaxFailures = 1
SYMMETRY Symmetric
INVARIANTS TypeOK RestartSeesLive BlocksDisjoint StoredBlocksReadable FlushedFileOpens
PROPERTIES DirtyBeforeData KeepsPromise
