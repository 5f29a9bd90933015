\* Three threads in two processes, nesting two deep.
SPECIFICATION Spec
CONSTANTS
    p1 = p1
    p2 = p2
    p3 = p3
    t1 = t1
    t2 = t2
    t3 = t3
    NoProc = NoProc
    NoThread = NoThread
    Proc <- NestingProc
    Thread <- MCThread
    procOf <- NestingProcOf
    MaxDepth = 2
INVARIANT LockCoversBlocks
PROPERTIES
    HolderOfWriterKept
    DeadMeansNoWriter
    RefinesSingleWriter
CHECK_DEADLOCK FALSE
