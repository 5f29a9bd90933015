\* Three processes, one of which may die, one pause and two instructions.
SPECIFICATION Spec
CONSTANTS
    NoProc = NoProc
    Proc = {a, b, c}
    Sender = {s}
    MaxSteers = 2
    MaxPauses = 1
    MaxCrashes = 1
SYMMETRY Alike
INVARIANTS
    PauseInTime
    SteersInOrder
PROPERTIES
    NoRivalSettles
    PauseIsFresh
CHECK_DEADLOCK FALSE
