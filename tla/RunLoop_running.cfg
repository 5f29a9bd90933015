SPECIFICATION Spec
CONSTANTS
    Planned = 2
    Plans <- OnlyFree
    MaxTask = 4
    MaxTasks = 1
    MaxIterations = 1
    MaxCycles = 3
    MaxRounds = 1
    SoftCap = 1
    MaxReplans = 1
    MaxItems = 2
    Limit = 5
    HardStopAt = 4
    Rings = TRUE
    MaxStarts = 2
    MaxPauses = 0
    MaxCrashes = 0
    MaxRepairs = 0
INVARIANT StoppedIsNotRunning
CHECK_DEADLOCK FALSE
