\* Two starts, one view that is repeated, a run and a death, in any order.
SPECIFICATION BgFairSpec
CONSTANTS
    s1 = s1
    s2 = s2
    v1 = v1
    foreground = foreground
    Starter <- Starters
    Foreground <- foreground
    Viewer <- Viewers
    Keep = 2
    MaxRuns = 1
    MaxDeaths = 1
INVARIANTS
    EndedIsDead
    NothingForgotten
PROPERTY EndNoticed
CHECK_DEADLOCK FALSE
