SPECIFICATION StreamSpec
CONSTANTS
    Bytes = {0, 1}
    Words <- SectorWords
    Positions <- SectorPositions
    Counts <- SectorCounts
    BlockSize = 6
    BlockCount = 3
    SectorSize = 3
    MaxSize = 15
INVARIANTS StreamTypeOK
PROPERTIES IsByteStream
CONSTRAINT LongEnough
CHECK_DEADLOCK FALSE
