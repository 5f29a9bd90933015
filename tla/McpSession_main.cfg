\* The discovery of a run and a call with a retry; the server dies, or leaves unanswered what it likes.
SPECIFICATION FairSpec
CONSTANTS
    discovery = discovery
    c1 = c1
    Call <- Calls
    Discovery <- discovery
    Attempts <- OneRetry
INVARIANT AnswerIsMine
PROPERTIES
    EveryCallEnds
    ClosedRunExits
CHECK_DEADLOCK FALSE
