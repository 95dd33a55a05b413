SPECIFICATION FairSpec
CONSTANTS
    Timers = {"infinite", "limited"}
    Swapped = {"storage"}
    MaxChanges = 2
INVARIANTS ResumedSaveIsComplete
PROPERTIES SavingEnds
CHECK_DEADLOCK FALSE
