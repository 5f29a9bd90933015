SPECIFICATION FairSpec
CONSTANTS
    Planned = 2
    Plans <- Both
    MaxTask = 6
    MaxTasks = 1
    MaxIterations = 2
    MaxCycles = 2
    MaxRounds = 2
    SoftCap = 1
    MaxReplans = 1
    MaxItems = 1
    Limit = 3
    HardStopAt = 2
    Rings = TRUE
    MaxStarts = 2
    MaxPauses = 1
    MaxCrashes = 1
    MaxRepairs = 1
INVARIANT DependenciesDone
INVARIANT CompletedIsResolved
INVARIANT LineageBounded
INVARIANT NothingLeftBehind
INVARIANT DependentsFollowRepair
INVARIANT PendingMeansPaused
INVARIANT AppliedHasEffect
PROPERTY ApprovalHolds
PROPERTY OneIterationIsEnough
PROPERTY BegunSettles
CHECK_DEADLOCK FALSE
