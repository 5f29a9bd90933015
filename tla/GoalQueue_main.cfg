\* Two loops, an accept of the user, two goals, three runs, one death.
SPECIFICATION Spec
CONSTANTS
    Loop = {l1, l2}
    User = {u}
    LastGoal = 2
    LastRun = 3
    MaxDeaths = 1
SYMMETRY Alike
CONSTRAINT OneFault
INVARIANTS
    DoneHasAcceptedRun
    OneLoopPerGoal
PROPERTY DoneIsFinal
CHECK_DEADLOCK FALSE
