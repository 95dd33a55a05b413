SPECIFICATION Spec
CONSTANTS
    a = a
    b = b
    Items <- MCItems
    MaxSize = 1
    MaxEvents = 4
SYMMETRY Symmetry
INVARIANTS TypeOK NoStaleFont EveryCoverArrives
CHECK_DEADLOCK FALSE
