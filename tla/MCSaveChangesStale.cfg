SPECIFICATION Spec
CONSTANTS
    Timers = {"limited"}
    Swapped = {"storage"}
    MaxChanges = 3
INVARIANTS NotStaleIsSaved
CHECK_DEADLOCK FALSE
