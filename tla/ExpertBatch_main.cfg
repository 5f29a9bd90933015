\* Two files of which git knows one, two experts (one batch of both, or two of
\* one each), three changes of files or commits by anybody.
SPECIFICATION Spec
CONSTANTS
    Lead = Lead
    User = User
    File = {f1, f2}
    Dir = Dir
    Tracked = {f1}
    Scopes = {{}, {f2}, {Dir}}
    Workers = 2
    MaxCalls = 2
    MaxChildren = 2
    MaxEdits = 3
INVARIANT ReturnedAllOrNone
PROPERTIES
    NothingOverwritten
    CreditIsLanded
CHECK_DEADLOCK FALSE
