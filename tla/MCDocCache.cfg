SPECIFICATION Spec
CONSTANTS
    d1 = d1
    d2 = d2
    d3 = d3
    Docs = {d1, d2, d3}
    Sizes = {8, 40}
    MaxSize = 18
    Stuck <- MCStuck
    NameLen <- MCNameLen
    Corrupt = Corrupt
    Absent = Absent
INVARIANTS TypeOK IndexIsAsLong NoOrphans
PROPERTIES RoomIsMade StartKeepsFiles
SYMMETRY Symmetry
CHECK_DEADLOCK FALSE
