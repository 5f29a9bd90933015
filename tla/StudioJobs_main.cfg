\* Two sessions, two messages, three jobs, one crash.
SPECIFICATION FairSpec
CONSTANTS
    Session = {s1, s2}
    LastAsk = 2
    LastJob = 3
    MaxCrashes = 1
INVARIANTS
    OneWriter
    StoppedIsNotFollowed
PROPERTY JobsSettle
CHECK_DEADLOCK FALSE
