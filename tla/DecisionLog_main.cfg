\* Two threads, a decide at a time, two commands, three questions, one death.
SPECIFICATION Spec
CONSTANTS
    Thread = {t1, t2}
    Decider = {d}
    Command = {c1, c2}
    NoCommand = NoCommand
    NoThread = NoThread
    MaxRows = 3
    MaxCrashes = 1
SYMMETRY Alike
INVARIANTS
    OnlyGrantedRuns
    AnswerMeetsQuestion
    DriverAloneVerifies
CHECK_DEADLOCK FALSE
