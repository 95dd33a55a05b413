SPECIFICATION MCSpec
CONSTANTS
    Others = {"other"}
    MaxTasks = 2
    MaxThreads = 2
    MaxStarts = 2
    MaxPosts = 4
INVARIANTS InOrder EveryTaskRuns CleanStart ServiceInOrder StopLosesNothing
CHECK_DEADLOCK FALSE
